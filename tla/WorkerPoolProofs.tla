--------------------------- MODULE WorkerPoolProofs ---------------------------
(***************************************************************************)
(* For any workers, calls, slots and faults: the safety part of            *)
(* ImplementsTileCall, that is, to the coordinator's threads a call of the *)
(* pool is what TileCall says; that no tile leaves the pinned workers; and *)
(* that with one worker to count on only errors that are not transient can *)
(* end a call.                                                             *)
(***************************************************************************)
EXTENDS WorkerPool, Integers, FiniteSetTheorems, WellFoundedInduction, TLAPS

Domains == DOMAIN pc = Calls /\ DOMAIN retries = Calls

Ended == {"returned", "failed", "raised"}

(* A step in which no call ends and none is retried.                       *)
Unseen == UNCHANGED retries /\ \A c \in Calls : Task(c)' = Task(c)

LEMMA Initially == Init => Domains /\ Contract!Init
<1> SUFFICES ASSUME Init PROVE Domains /\ Contract!Init
    OBVIOUS
<1>1. \A c \in Calls : Task(c) = "running"
    BY DEF Init, Task
<1> QED
    BY <1>1 DEF Init, Domains, Contract!Init

LEMMA UnseenIsStutter ==
    ASSUME Unseen
    PROVE  UNCHANGED Contract!vars
<1>1. [c \in Calls |-> Task(c)]' = [c \in Calls |-> Task(c)]
    BY DEF Unseen
<1> QED
    BY <1>1 DEF Unseen, Contract!vars

(* A call that goes from one place to another before its end.              *)
LEMMA MoveIsStutter ==
    ASSUME Domains, NEW c \in Calls, NEW to, pc[c] \notin Ended, to \notin Ended,
           pc' = [pc EXCEPT ![c] = to], UNCHANGED retries
    PROVE  Domains' /\ UNCHANGED Contract!vars
<1>1. pc'[c] = to /\ \A d \in Calls \ {c} : pc'[d] = pc[d]
    BY DEF Domains
<1>2. Task(c) = "running" /\ Task(c)' = "running"
    BY <1>1 DEF Task, Ended
<1>3. \A d \in Calls \ {c} : Task(d)' = Task(d)
    BY <1>1 DEF Task
<1> QED
    BY <1>2, <1>3, UnseenIsStutter DEF Unseen, Domains

(* A call that ends, with an answer or with an error.                      *)
LEMMA EndIsEnd ==
    ASSUME Domains, NEW c \in Calls, NEW to \in Ended, pc[c] \notin Ended,
           pc' = [pc EXCEPT ![c] = to], UNCHANGED retries
    PROVE  Domains' /\ Contract!Next
<1>1. pc'[c] = to /\ \A d \in Calls \ {c} : pc'[d] = pc[d]
    BY DEF Domains
<1>2. Task(c) = "running" /\ Task(c)' \in {"returned", "raised"}
    BY <1>1 DEF Task, Ended
<1>3. \A d \in Calls \ {c} : Task(d)' = Task(d)
    BY <1>1 DEF Task
<1>4. [d \in Calls |-> Task(d)]' = [[d \in Calls |-> Task(d)] EXCEPT ![c] = Task(c)']
    BY <1>3
<1>5. Contract!End(c, Task(c)')
    BY <1>2, <1>4 DEF Contract!End
<1> QED
    BY <1>2, <1>5 DEF Contract!Next, Contract!Succeed, Contract!Raise, Domains

(* A call whose candidates have all failed and that may be retried.        *)
LEMMA RetryIsRetry ==
    ASSUME Domains, NEW c \in Calls, pc[c] \notin Ended, MayRetry(c),
           pc' = [pc EXCEPT ![c] = "discovering"],
           retries' = [retries EXCEPT ![c] = @ + 1]
    PROVE  Domains' /\ Contract!Next
<1>1. pc'[c] = "discovering" /\ \A d \in Calls \ {c} : pc'[d] = pc[d]
    BY DEF Domains
<1>2. Task(c) = "running" /\ \A d \in Calls : Task(d)' = Task(d)
    BY <1>1 DEF Task, Ended
<1>3. [d \in Calls |-> Task(d)]' = [d \in Calls |-> Task(d)]
    BY <1>2
<1>4. Contract!Retry(c)
    BY <1>2, <1>3 DEF Contract!Retry, MayRetry
<1> QED
    BY <1>4 DEF Contract!Next, Domains

LEMMA FailOverIsAllowed ==
    ASSUME Domains, NEW c \in Calls, pc[c] \notin Ended, FailOver(c)
    PROVE  Domains' /\ [Contract!Next]_(Contract!vars)
<1>1. CASE pc' = [pc EXCEPT ![c] = "sending"] /\ UNCHANGED retries
    BY <1>1, MoveIsStutter DEF Ended
<1>2. CASE /\ MayRetry(c) /\ pc' = [pc EXCEPT ![c] = "discovering"]
           /\ retries' = [retries EXCEPT ![c] = @ + 1]
    BY <1>2, RetryIsRetry
<1>3. CASE pc' = [pc EXCEPT ![c] = "raised"] /\ UNCHANGED retries
    BY <1>3, EndIsEnd DEF Ended
<1> QED
    BY <1>1, <1>2, <1>3 DEF FailOver

LEMMA StepIsAllowed ==
    ASSUME Domains, NEW c \in Calls, Step(c)
    PROVE  Domains' /\ [Contract!Next]_(Contract!vars)
<1>1. CASE Choose(c) \/ Send(c) \/ Prefer(c)
    <2>1. /\ pc[c] \in {"choosing", "sending", "discovering"} /\ UNCHANGED retries
          /\ \E to \in {"sending", "waiting", "choosing"} : pc' = [pc EXCEPT ![c] = to]
        BY <1>1 DEF Choose, Send, Prefer, Goto
    <2> QED
        BY <2>1, MoveIsStutter DEF Ended
<1>2. CASE Refused(c) \/ Exhausted(c) \/ Late(c) \/ Lost(c)
    <2>1. pc[c] \in {"sending", "waiting", "lost"} /\ FailOver(c)
        BY <1>2 DEF Refused, Exhausted, Late, Lost
    <2> QED
        BY <2>1, FailOverIsAllowed DEF Ended
<1>3. CASE Answer(c)
    <2>1. /\ pc[c] = "waiting" /\ UNCHANGED retries
          /\ \E to \in {"returned", "failed"} : pc' = [pc EXCEPT ![c] = to]
        BY <1>3 DEF Answer, Goto
    <2> QED
        BY <2>1, EndIsEnd DEF Ended
<1>4. CASE \E w \in Workers : Inspect(c, w)
    <2>1. UNCHANGED <<pc, retries>>
        BY <1>4 DEF Inspect
    <2> QED
        BY <2>1, UnseenIsStutter DEF Unseen, Task, Domains
<1> QED
    BY <1>1, <1>2, <1>3, <1>4 DEF Step

(* A worker's change is not seen: a tile lost with it is still a running   *)
(* call to the thread that made it.                                        *)
LEMMA WorkerStepIsUnseen ==
    ASSUME Domains, NEW w \in Workers, Stop(w) \/ GoDown(w) \/ ComeBack(w) \/ Finish(w)
    PROVE  Domains' /\ UNCHANGED Contract!vars
<1>1. UNCHANGED retries
    BY DEF Stop, GoDown, ComeBack, Finish, Change, calling
<1>2. \/ UNCHANGED pc
      \/ pc' = [c \in Calls |->
                   IF pc[c] = "waiting" /\ Target(c) = w THEN "lost" ELSE pc[c]]
    BY DEF Stop, GoDown, ComeBack, Finish
<1>3. \A c \in Calls : pc'[c] = pc[c] \/ (pc[c] = "waiting" /\ pc'[c] = "lost")
    BY <1>2
<1>4. \A c \in Calls : Task(c)' = Task(c)
    BY <1>3 DEF Task
<1> QED
    BY <1>1, <1>2, <1>4, UnseenIsStutter DEF Unseen, Domains

LEMMA NextIsAllowed ==
    ASSUME Domains, [Next]_vars
    PROVE  Domains' /\ [Contract!Next]_(Contract!vars)
<1>1. CASE UNCHANGED vars
    <2>1. UNCHANGED <<pc, retries>>
        BY <1>1 DEF vars
    <2> QED
        BY <2>1, UnseenIsStutter DEF Unseen, Task, Domains
<1> QED
    BY <1>1, StepIsAllowed, WorkerStepIsUnseen DEF Next

(* WorkerPool.execute_tile under _execute_with_retries: a call is retried  *)
(* at most max_retries times, ends once, and is never taken up again,      *)
(* whatever the workers do: the pool implements TileCall, but for its      *)
(* fairness.                                                               *)
THEOREM CallsKeepTheContract == Spec => Contract!Init /\ [][Contract!Next]_(Contract!vars)
<1>1. Domains /\ [Next]_vars => Domains' /\ [Contract!Next]_(Contract!vars)
    BY NextIsAllowed
<1> QED
    BY Initially, <1>1, PTL DEF Spec

----------------------------------------------------------------------------
(* A set of numbers that has any has a least.                              *)
LEMMA LeastNumber ==
    ASSUME NEW T, T \subseteq Nat, T # {}
    PROVE  \E n \in T : \A m \in T : n <= m
<1> DEFINE R == OpToRel(<, Nat)
<1>1. IsWellFoundedOn(R, Nat)
    BY NatLessThanWellFounded
<1>2. \A m, n \in Nat : <<m, n>> \in R <=> m < n
    BY DEF OpToRel
<1> HIDE DEF R
<1>3. PICK n \in T : \A m \in T : ~ (<<m, n>> \in R)
    BY <1>1, WFMin
<1>4. \A m \in T : m \in Nat /\ n \in Nat /\ ~(m < n)
    BY <1>2, <1>3
<1>5. \A m \in T : n <= m
    BY <1>4
<1> QED
    BY <1>5

(* The clients of a set, one client after the other: a function that does  *)
(* it exists as far as any client, by the least to which none goes.        *)
Selects(set, g, k) ==
    /\ g = [n \in 0 .. k |-> g[n]]
    /\ \A n \in 0 .. k :
          g[n] = IF n = 0 THEN <<>>
                 ELSE IF Clients[n] \in set THEN Append(g[n - 1], Clients[n]) ELSE g[n - 1]

(* Were there a least k, a selection as far as k - 1 could be extended to  *)
(* it.                                                                     *)
LEMMA SelectionExists ==
    ASSUME NEW set
    PROVE  \A k \in Nat : \E g : Selects(set, g, k)
<1> DEFINE T == {k \in Nat : ~ \E g : Selects(set, g, k)}
<1> SUFFICES ASSUME T # {} PROVE FALSE
    OBVIOUS
<1>1. PICK k \in T : \A m \in T : k <= m
    BY LeastNumber
<1>2. k \in Nat /\ ~ \E g : Selects(set, g, k)
    OBVIOUS
<1>3. k # 0
    <2> DEFINE g == [n \in 0 .. 0 |-> <<>>]
    <2>1. Selects(set, g, 0)
        BY DEF Selects
    <2> QED
        BY <1>2, <2>1
<1>4. k - 1 \in Nat /\ k - 1 < k
    BY <1>2, <1>3
<1>5. PICK g : Selects(set, g, k - 1)
    BY <1>1, <1>4
<1> DEFINE next == IF Clients[k] \in set THEN Append(g[k - 1], Clients[k]) ELSE g[k - 1]
           h == [n \in 0 .. k |-> IF n = k THEN next ELSE g[n]]
<1>6. h[k] = next /\ (\A n \in 0 .. k - 1 : h[n] = g[n]) /\ h = [n \in 0 .. k |-> h[n]]
    BY <1>2, <1>4
<1>7. ASSUME NEW n \in 0 .. k
      PROVE  h[n] = IF n = 0 THEN <<>>
                    ELSE IF Clients[n] \in set THEN Append(h[n - 1], Clients[n]) ELSE h[n - 1]
    <2> HIDE DEF h
    <2>1. CASE n = k
        <3>1. k - 1 \in 0 .. k - 1
            BY <1>4
        <3>2. h[k - 1] = g[k - 1]
            BY <1>6, <3>1
        <3> QED
            BY <1>3, <1>6, <2>1, <3>2
    <2>2. CASE n # k /\ n # 0
        <3>1. n \in 0 .. k - 1 /\ n - 1 \in 0 .. k - 1
            BY <1>2, <2>2
        <3>2. h[n] = g[n] /\ h[n - 1] = g[n - 1]
            BY <1>6, <3>1
        <3>3. g[n] = IF n = 0 THEN <<>>
                     ELSE IF Clients[n] \in set THEN Append(g[n - 1], Clients[n]) ELSE g[n - 1]
            BY <1>5, <3>1 DEF Selects
        <3> QED
            BY <3>2, <3>3
    <2>3. CASE n # k /\ n = 0
        <3>1. n \in 0 .. k - 1
            BY <1>4, <2>3
        <3> QED
            BY <1>5, <1>6, <2>3, <3>1 DEF Selects
    <2> QED
        BY <2>1, <2>2, <2>3
<1>8. Selects(set, h, k)
    BY <1>6, <1>7 DEF Selects
<1> QED
    BY <1>2, <1>8

(* What has been selected among the first n clients.                       *)
SelectedRightly(set, g, n) ==
    /\ g[n] \in Seq(Workers)
    /\ Range(g[n]) = {Clients[i] : i \in 1 .. n} \cap set

(* What is appended is added to the range.                                 *)
LEMMA AppendedRange ==
    ASSUME NEW S, NEW s \in Seq(S), NEW w \in S
    PROVE  Append(s, w) \in Seq(S) /\ Range(Append(s, w)) = Range(s) \cup {w}
<1>1. /\ Append(s, w) \in Seq(S) /\ DOMAIN s = 1 .. Len(s) /\ Len(s) \in Nat
      /\ DOMAIN Append(s, w) = 1 .. Len(s) + 1
      /\ \A i \in 1 .. Len(s) : Append(s, w)[i] = s[i]
      /\ Append(s, w)[Len(s) + 1] = w
    OBVIOUS
<1>2. \A i : i \in 1 .. Len(s) + 1 <=> i \in 1 .. Len(s) \/ i = Len(s) + 1
    BY <1>1
<1>3. ASSUME NEW x \in Range(Append(s, w)) PROVE x \in Range(s) \cup {w}
    BY <1>1, <1>2, <1>3 DEF Range
<1>4. ASSUME NEW x \in Range(s) \cup {w} PROVE x \in Range(Append(s, w))
    BY <1>1, <1>2, <1>4 DEF Range
<1> QED
    BY <1>1, <1>3, <1>4

(* Were there a least n at which it is wrong, so would it be at n - 1.     *)
LEMMA SelectionIsRight ==
    ASSUME NEW set, NEW g, NEW k \in Nat, k <= Len(Clients), Selects(set, g, k)
    PROVE  SelectedRightly(set, g, k)
<1> DEFINE T == {n \in 0 .. k : ~SelectedRightly(set, g, n)}
<1> SUFFICES ASSUME T # {} PROVE FALSE
    OBVIOUS
<1>0. T \subseteq Nat
    OBVIOUS
<1>1. PICK n \in T : \A m \in T : n <= m
    BY <1>0, LeastNumber
<1>2. n \in 0 .. k /\ ~SelectedRightly(set, g, n)
    OBVIOUS
<1>3. g[n] = IF n = 0 THEN <<>>
             ELSE IF Clients[n] \in set THEN Append(g[n - 1], Clients[n]) ELSE g[n - 1]
    BY <1>2 DEF Selects
<1>4. CASE n = 0
    <2>1. g[n] = <<>> /\ {Clients[i] : i \in 1 .. n} = {}
        BY <1>3, <1>4
    <2>2. Range(<<>>) = {} /\ <<>> \in Seq(Workers)
        BY DEF Range
    <2>3. g[n] \in Seq(Workers) /\ Range(g[n]) = {Clients[i] : i \in 1 .. n} \cap set
        BY <2>1, <2>2
    <2> QED
        BY <1>2, <2>3 DEF SelectedRightly
<1>5. CASE n # 0
    <2>1. n - 1 \in 0 .. k /\ n - 1 < n /\ n \in 1 .. k
        BY <1>2, <1>5
    <2>2. SelectedRightly(set, g, n - 1)
        <3>1. n - 1 \notin T
            BY <1>1, <2>1
        <3> QED
            BY <2>1, <3>1
    <2>3. Clients[n] \in Workers
        BY <2>1, ClientsAssumption
    <2>4. {Clients[i] : i \in 1 .. n} = {Clients[i] : i \in 1 .. n - 1} \cup {Clients[n]}
        <3>1. \A i : i \in 1 .. n <=> i \in 1 .. n - 1 \/ i = n
            BY <2>1
        <3> QED
            BY <3>1
    <2>5. g[n - 1] \in Seq(Workers)
        BY <2>2 DEF SelectedRightly
    <2>6. /\ Append(g[n - 1], Clients[n]) \in Seq(Workers)
          /\ Range(Append(g[n - 1], Clients[n])) = Range(g[n - 1]) \cup {Clients[n]}
        BY <2>3, <2>5, AppendedRange
    <2>7. Range(g[n - 1]) = {Clients[i] : i \in 1 .. n - 1} \cap set
        BY <2>2 DEF SelectedRightly
    <2>8. CASE Clients[n] \in set
        <3>1. g[n] = Append(g[n - 1], Clients[n])
            BY <1>3, <1>5, <2>8
        <3>2. Range(g[n]) = {Clients[i] : i \in 1 .. n} \cap set
            BY <2>4, <2>6, <2>7, <2>8, <3>1
        <3> QED
            BY <1>2, <2>6, <3>1, <3>2 DEF SelectedRightly
    <2>9. CASE Clients[n] \notin set
        <3>1. g[n] = g[n - 1]
            BY <1>3, <1>5, <2>9
        <3>2. Range(g[n]) = {Clients[i] : i \in 1 .. n} \cap set
            BY <2>4, <2>7, <2>9, <3>1
        <3> QED
            BY <1>2, <2>5, <3>1, <3>2 DEF SelectedRightly
    <2> QED
        BY <2>8, <2>9
<1> QED
    BY <1>4, <1>5

(* Among is such a selection, so it holds the clients of the set and no    *)
(* other.                                                                  *)
LEMMA AmongIsRight ==
    ASSUME NEW set
    PROVE  Among(set) \in Seq(Workers) /\ Range(Among(set)) = Workers \cap set
<1> DEFINE L == Len(Clients)
           among[n \in 0 .. Len(Clients)] ==
              IF n = 0 THEN <<>>
              ELSE IF Clients[n] \in set THEN Append(among[n - 1], Clients[n])
              ELSE among[n - 1]
<1>1. L \in Nat /\ Workers = {Clients[i] : i \in 1 .. L}
    BY ClientsAssumption DEF Workers, Range
<1>2. PICK g : Selects(set, g, L)
    BY <1>1, SelectionExists
<1>3. g = [n \in 0 .. Len(Clients) |->
              IF n = 0 THEN <<>>
              ELSE IF Clients[n] \in set THEN Append(g[n - 1], Clients[n])
              ELSE g[n - 1]]
    BY <1>2 DEF Selects
<1>4. among = [n \in 0 .. Len(Clients) |->
              IF n = 0 THEN <<>>
              ELSE IF Clients[n] \in set THEN Append(among[n - 1], Clients[n])
              ELSE among[n - 1]]
    BY <1>3
<1> HIDE DEF among
<1>5. Selects(set, among, L)
    BY <1>4 DEF Selects
<1>6. Among(set) = among[L]
    BY DEF Among, among
<1>7. SelectedRightly(set, among, L)
    BY <1>1, <1>5, SelectionIsRight
<1> QED
    BY <1>1, <1>6, <1>7 DEF SelectedRightly

----------------------------------------------------------------------------
(* A worker a job can count on, and what a call and the workers keep.      *)
Sturdy == {w \in reliable : Slots[w] >= Cardinality(Calls)}

Trying == {"sending", "waiting", "lost"}

PoolTypes ==
    /\ cursor \in Nat /\ pc \in [Calls -> Trying \cup Ended \cup {"choosing", "discovering"}]
    /\ candidates \in [Calls -> Seq(Workers)]
    /\ inspecting \in [Calls -> SUBSET Workers] /\ found \in [Calls -> SUBSET Workers]
    /\ orphans \in [Workers -> Nat] /\ DOMAIN state = Workers /\ DOMAIN retries = Calls

CallKeeps(c) ==
    /\ Range(candidates[c]) \subseteq Pinned
    /\ pc[c] \in Trying => candidates[c] # <<>> /\ Sturdy \subseteq Range(candidates[c])
    /\ pc[c] = "lost" => Target(c) \notin reliable
    /\ pc[c] = "discovering" => reliable \subseteq inspecting[c] \cup found[c]
    /\ Sturdy # {} => pc[c] # "raised"

WorkersKeep ==
    /\ reliable \subseteq Pinned /\ reliable \subseteq preferred
    /\ \A w \in Workers : orphans[w] > 0 => w \in Pinned
    /\ \A w \in reliable : state[w] = "serving" /\ orphans[w] = 0

PoolInv == PoolTypes /\ WorkersKeep /\ \A c \in Calls : CallKeeps(c)

(* The candidates of a round are the pinned workers, or those of them that *)
(* are preferred; a rotation leaves none out.                              *)
LEMMA RotationKeeps ==
    ASSUME NEW S, NEW s \in Seq(S), s # <<>>, NEW start \in 0 .. Len(s) - 1
    PROVE  /\ RotatedFrom(s, start) \in Seq(S) /\ RotatedFrom(s, start) # <<>>
           /\ Range(RotatedFrom(s, start)) = Range(s)
<1> DEFINE a == SubSeq(s, start + 1, Len(s))
           b == SubSeq(s, 1, start)
           r == a \o b
<1>1. Len(s) \in Nat /\ start \in Nat /\ start < Len(s) /\ DOMAIN s = 1 .. Len(s)
    OBVIOUS
<1>2. /\ a \in Seq(S) /\ Len(a) = Len(s) - start
      /\ \A i \in 1 .. Len(s) - start : a[i] = s[start + i]
    BY <1>1
<1>3. /\ b \in Seq(S) /\ Len(b) = start
      /\ \A i \in 1 .. start : b[i] = s[i]
    BY <1>1
<1> HIDE DEF a, b
<1>4. r \in Seq(S) /\ Len(r) = Len(a) + Len(b)
    <2>1. a \in Seq(S) /\ b \in Seq(S)
        BY <1>2, <1>3
    <2> QED
        BY <2>1
<1>5. /\ \A i \in 1 .. Len(a) : r[i] = a[i]
      /\ \A i \in 1 .. Len(b) : r[Len(a) + i] = b[i]
    BY <1>2, <1>3
<1> HIDE DEF r
<1>6. DOMAIN r = 1 .. Len(s) /\ r # <<>>
    BY <1>1, <1>2, <1>3, <1>4
<1>7. ASSUME NEW i \in 1 .. Len(s) PROVE \E j \in 1 .. Len(s) : r[j] = s[i]
    <2>1. CASE i > start
        <3>1. i - start \in 1 .. Len(a) /\ start + (i - start) = i /\ i - start \in 1 .. Len(s)
            BY <1>1, <1>2, <2>1
        <3>2. r[i - start] = s[i]
            BY <1>2, <1>5, <3>1
        <3> QED
            BY <3>1, <3>2
    <2>2. CASE ~(i > start)
        <3>1. i \in 1 .. start /\ i \in 1 .. Len(b) /\ Len(a) + i \in 1 .. Len(s)
            BY <1>1, <1>2, <1>3, <2>2
        <3>2. r[Len(a) + i] = s[i]
            BY <1>3, <1>5, <3>1
        <3> QED
            BY <3>1, <3>2
    <2> QED
        BY <2>1, <2>2
<1>8. ASSUME NEW j \in 1 .. Len(s) PROVE \E i \in 1 .. Len(s) : r[j] = s[i]
    <2>1. CASE j <= Len(a)
        <3>1. j \in 1 .. Len(a) /\ start + j \in 1 .. Len(s)
            BY <1>1, <1>2, <2>1
        <3> QED
            BY <1>2, <1>5, <3>1
    <2>2. CASE ~(j <= Len(a))
        <3>1. /\ j - Len(a) \in 1 .. Len(b) /\ Len(a) + (j - Len(a)) = j
              /\ j - Len(a) \in 1 .. start /\ j - Len(a) \in 1 .. Len(s)
            BY <1>1, <1>2, <1>3, <2>2
        <3>2. r[j] = s[j - Len(a)]
            BY <1>3, <1>5, <3>1
        <3> QED
            BY <3>1, <3>2
    <2> QED
        BY <2>1, <2>2
<1>9. Range(r) = Range(s)
    <2>1. /\ Range(r) = {r[i] : i \in 1 .. Len(s)}
          /\ Range(s) = {s[i] : i \in 1 .. Len(s)}
        BY <1>1, <1>6 DEF Range
    <2>2. ASSUME NEW x \in Range(r) PROVE x \in Range(s)
        BY <1>8, <2>1, <2>2
    <2>3. ASSUME NEW x \in Range(s) PROVE x \in Range(r)
        BY <1>7, <2>1, <2>3
    <2> QED
        BY <2>2, <2>3
<1> QED
    BY <1>4, <1>6, <1>9 DEF r, a, b, RotatedFrom

(* They hold every worker to count on, and none that is not pinned.        *)
LEMMA EligibleAreRight ==
    ASSUME WorkersKeep
    PROVE  /\ Eligible \in Seq(Workers) /\ Eligible # <<>>
           /\ Range(Eligible) \subseteq Pinned /\ reliable \subseteq Range(Eligible)
<1>1. Range(<<>>) = {}
    BY DEF Range
<1>2. /\ Among(Pinned \cap preferred) \in Seq(Workers) /\ Among(Pinned) \in Seq(Workers)
      /\ Range(Among(Pinned \cap preferred)) = Workers \cap (Pinned \cap preferred)
      /\ Range(Among(Pinned)) = Workers \cap Pinned
    BY AmongIsRight
<1>3. CASE Among(Pinned \cap preferred) # <<>>
    <2>1. Eligible = Among(Pinned \cap preferred)
        BY <1>3 DEF Eligible
    <2> QED
        BY <1>2, <1>3, <2>1, PinnedAssumption DEF WorkersKeep
<1>4. CASE Among(Pinned \cap preferred) = <<>>
    <2>1. Eligible = Among(Pinned)
        BY <1>4 DEF Eligible
    <2>2. Among(Pinned) # <<>>
        BY <1>1, <1>2, PinnedAssumption
    <2> QED
        BY <1>2, <2>1, <2>2, PinnedAssumption DEF WorkersKeep
<1> QED
    BY <1>3, <1>4

(* What a sequence loses with its head.                                    *)
LEMMA TailLeavesHead ==
    ASSUME NEW S, NEW s \in Seq(S), s # <<>>
    PROVE  /\ Tail(s) \in Seq(S) /\ Head(s) \in Range(s)
           /\ Range(Tail(s)) \subseteq Range(s)
           /\ Range(s) \subseteq Range(Tail(s)) \cup {Head(s)}
           /\ Len(s) \in Nat /\ Len(s) >= 1 /\ (Len(s) > 1 => Tail(s) # <<>>)
           /\ Len(s) = 1 => Range(s) = {Head(s)}
<1>1. /\ Len(s) \in Nat /\ Len(s) >= 1 /\ DOMAIN s = 1 .. Len(s) /\ Head(s) = s[1]
      /\ Tail(s) \in Seq(S) /\ Len(Tail(s)) = Len(s) - 1
      /\ DOMAIN Tail(s) = 1 .. Len(s) - 1
      /\ \A i \in 1 .. Len(s) - 1 : Tail(s)[i] = s[i + 1]
    OBVIOUS
<1>2. Head(s) \in Range(s)
    BY <1>1 DEF Range
<1>3. ASSUME NEW x \in Range(Tail(s)) PROVE x \in Range(s)
    <2>1. PICK i \in 1 .. Len(s) - 1 : x = s[i + 1]
        BY <1>1 DEF Range
    <2>2. i + 1 \in 1 .. Len(s)
        BY <1>1, <2>1
    <2> QED
        BY <1>1, <2>1, <2>2 DEF Range
<1>4. ASSUME NEW x \in Range(s), x # Head(s) PROVE x \in Range(Tail(s))
    <2>1. PICK i \in 1 .. Len(s) : x = s[i]
        BY <1>1 DEF Range
    <2>2. i # 1
        BY <1>1, <1>4, <2>1
    <2>3. i - 1 \in 1 .. Len(s) - 1 /\ (i - 1) + 1 = i
        BY <1>1, <2>1, <2>2
    <2>4. Tail(s)[i - 1] = x
        BY <1>1, <2>1, <2>3
    <2> QED
        BY <1>1, <2>3, <2>4 DEF Range
<1>5. Len(s) > 1 => Tail(s) # <<>>
    <2>1. PICK t : t = Tail(s)
        OBVIOUS
    <2>2. Len(s) > 1 => Len(t) # 0
        BY <1>1, <2>1
    <2>3. t = <<>> => Len(t) = 0
        OBVIOUS
    <2> QED
        BY <2>1, <2>2, <2>3
<1>6. Len(s) = 1 => Range(s) = {Head(s)}
    <2>1. Len(s) = 1 => \A i \in 1 .. Len(s) : s[i] = Head(s)
        BY <1>1
    <2> QED
        BY <1>1, <1>2, <2>1 DEF Range
<1> QED
    BY <1>1, <1>2, <1>3, <1>4, <1>5, <1>6

----------------------------------------------------------------------------
(* A sturdy worker does not refuse a tile: the other calls leave a slot.   *)
LEMMA SturdyIsFree ==
    ASSUME PoolInv, NEW c \in Calls, pc[c] = "sending", Target(c) \in Sturdy
    PROVE  state[Target(c)] = "serving" /\ ~Busy(Target(c))
<1> DEFINE w == Target(c)
           here == {d \in Calls : pc[d] = "waiting" /\ Target(d) = w}
<1>1. w \in reliable /\ w \in Workers /\ Slots[w] >= Cardinality(Calls)
    BY PinnedAssumption DEF PoolInv, WorkersKeep, Sturdy
<1>2. state[w] = "serving" /\ orphans[w] = 0
    BY <1>1 DEF PoolInv, WorkersKeep
<1>3. here \subseteq Calls \ {c}
    OBVIOUS
<1> HIDE DEF here
<1>4. /\ IsFiniteSet(Calls \ {c}) /\ Cardinality(Calls \ {c}) = Cardinality(Calls) - 1
      /\ Cardinality(Calls) \in Nat
    BY CallsAssumption, FS_RemoveElement, FS_CardinalityType
<1>5. Cardinality(here) \in Nat /\ Cardinality(here) <= Cardinality(Calls) - 1
    BY <1>3, <1>4, FS_Subset, FS_CardinalityType
<1>6. Slots[w] \in Nat
    BY <1>1, CallsAssumption
<1>7. ~(orphans[w] + Cardinality(here) >= Slots[w])
    BY <1>1, <1>2, <1>4, <1>5, <1>6
<1> QED
    BY <1>2, <1>7 DEF Busy, here

(* A call's step leaves every other call what it has.                      *)
LEMMA OtherCallKeeps ==
    ASSUME NEW d, CallKeeps(d), UNCHANGED reliable,
           pc'[d] = pc[d], candidates'[d] = candidates[d],
           inspecting'[d] = inspecting[d], found'[d] = found[d]
    PROVE  CallKeeps(d)'
BY DEF CallKeeps, Sturdy, Target

(* The next candidate, a discovery, or the end: the worker that has failed *)
(* is not a sturdy one, so those are candidates still.                     *)
LEMMA FailOverKeeps ==
    ASSUME PoolInv, NEW c \in Calls, pc[c] \in Trying, Target(c) \notin Sturdy,
           FailOver(c), UNCHANGED <<reliable, cursor, state>>,
           orphans' \in [Workers -> Nat]
    PROVE  PoolTypes' /\ \A d \in Calls : CallKeeps(d)'
<1>1. candidates[c] \in Seq(Workers) /\ candidates[c] # <<>> /\ CallKeeps(c)
    BY DEF PoolInv, PoolTypes, CallKeeps
<1>2. candidates' = [candidates EXCEPT ![c] = Tail(@)]
    BY DEF FailOver
<1>3. /\ Tail(candidates[c]) \in Seq(Workers)
      /\ Range(Tail(candidates[c])) \subseteq Range(candidates[c])
      /\ Range(candidates[c]) \subseteq Range(Tail(candidates[c])) \cup {Target(c)}
      /\ Len(candidates[c]) > 1 => Tail(candidates[c]) # <<>>
      /\ Len(candidates[c]) = 1 => Range(candidates[c]) = {Target(c)}
    BY <1>1, TailLeavesHead DEF Target
<1>4. candidates' \in [Calls -> Seq(Workers)] /\ candidates'[c] = Tail(candidates[c])
    BY <1>2, <1>3 DEF PoolInv, PoolTypes
<1>5. /\ Range(candidates'[c]) \subseteq Pinned
      /\ Sturdy \subseteq Range(candidates'[c]) /\ UNCHANGED Sturdy
    BY <1>1, <1>3, <1>4 DEF CallKeeps, Sturdy
<1>6. \/ /\ pc' = [pc EXCEPT ![c] = "sending"] /\ candidates'[c] # <<>>
         /\ UNCHANGED <<inspecting, retries>>
      \/ /\ pc' = [pc EXCEPT ![c] = "discovering"]
         /\ retries' = [retries EXCEPT ![c] = @ + 1]
         /\ inspecting' = [inspecting EXCEPT ![c] = Workers]
      \/ /\ pc' = [pc EXCEPT ![c] = "raised"] /\ Sturdy = {}
         /\ UNCHANGED <<inspecting, retries>>
    BY <1>1, <1>3, <1>4 DEF FailOver, CallKeeps
<1>7. UNCHANGED found
    BY DEF FailOver
<1>8. PoolTypes'
    <2>1. pc' \in [Calls -> Trying \cup Ended \cup {"choosing", "discovering"}]
        BY <1>6 DEF PoolInv, PoolTypes, Trying, Ended
    <2>2. inspecting' \in [Calls -> SUBSET Workers] /\ DOMAIN retries' = Calls
        BY <1>6 DEF PoolInv, PoolTypes
    <2> QED
        BY <1>4, <1>7, <2>1, <2>2 DEF PoolInv, PoolTypes
<1>9. CallKeeps(c)'
    <2>1. \/ pc'[c] = "sending" /\ candidates'[c] # <<>>
          \/ pc'[c] = "discovering" /\ inspecting'[c] = Workers
          \/ pc'[c] = "raised" /\ Sturdy = {}
        BY <1>6 DEF PoolInv, PoolTypes
    <2>2. reliable \subseteq Workers
        BY PinnedAssumption DEF PoolInv, WorkersKeep
    <2> QED
        BY <1>5, <2>1, <2>2 DEF CallKeeps, Trying
<1>10. ASSUME NEW d \in Calls, d # c PROVE CallKeeps(d)'
    <2>1. /\ pc'[d] = pc[d] /\ candidates'[d] = candidates[d]
          /\ inspecting'[d] = inspecting[d] /\ found'[d] = found[d]
        BY <1>2, <1>6, <1>7, <1>10 DEF PoolInv, PoolTypes
    <2> QED
        BY <2>1, OtherCallKeeps DEF PoolInv
<1> QED
    BY <1>8, <1>9, <1>10

(* What a call's step does to no worker.                                   *)
LEMMA WorkersStay ==
    ASSUME WorkersKeep, UNCHANGED <<reliable, state, preferred>>,
           \A w \in Workers : orphans'[w] > 0 => w \in Pinned,
           \A w \in reliable : orphans'[w] = 0
    PROVE  WorkersKeep'
BY DEF WorkersKeep

(* A call that fails over does so from a worker that is not sturdy.        *)
LEMMA FailedStepKeeps ==
    ASSUME PoolInv, NEW c \in Calls, Refused(c) \/ Exhausted(c) \/ Lost(c) \/ Late(c)
    PROVE  PoolInv'
<1>1. /\ pc[c] \in Trying /\ FailOver(c) /\ UNCHANGED <<pool, reliable, state>>
    BY DEF Refused, Exhausted, Lost, Late, Trying, workers
<1>2. UNCHANGED <<cursor, preferred>> /\ candidates[c] # <<>>
    BY <1>1 DEF pool, PoolInv, CallKeeps
<1>3. Target(c) \in Pinned /\ Target(c) \in Workers
    BY <1>1, <1>2, TailLeavesHead, PinnedAssumption
       DEF PoolInv, PoolTypes, CallKeeps, Target
<1>4. Target(c) \notin Sturdy
    <2>1. CASE Refused(c)
        BY <2>1, SturdyIsFree DEF Refused
    <2>2. CASE Exhausted(c) \/ Late(c)
        BY <2>2 DEF Exhausted, Late, Sturdy
    <2>3. CASE Lost(c)
        BY <2>3 DEF Lost, PoolInv, CallKeeps, Sturdy
    <2> QED
        BY <2>1, <2>2, <2>3
<1>5. CASE UNCHANGED orphans
    <2>1. orphans' \in [Workers -> Nat]
        BY <1>5 DEF PoolInv, PoolTypes
    <2>2. PoolTypes' /\ \A d \in Calls : CallKeeps(d)'
        BY <1>1, <1>2, <1>4, <2>1, FailOverKeeps
    <2>3. WorkersKeep'
        BY <1>1, <1>2, <1>5 DEF PoolInv, WorkersKeep
    <2> QED
        BY <2>2, <2>3 DEF PoolInv
<1>6. CASE Late(c)
    <2>1. /\ orphans' = [orphans EXCEPT ![Target(c)] = @ + 1]
          /\ Target(c) \notin reliable
        BY <1>6 DEF Late
    <2>2. orphans' \in [Workers -> Nat]
        BY <1>3, <2>1 DEF PoolInv, PoolTypes
    <2>3. PoolTypes' /\ \A d \in Calls : CallKeeps(d)'
        BY <1>1, <1>2, <1>4, <2>2, FailOverKeeps
    <2>4. \A w \in Workers : w # Target(c) => orphans'[w] = orphans[w]
        BY <2>1 DEF PoolInv, PoolTypes
    <2>5. reliable \subseteq Workers
        BY PinnedAssumption DEF PoolInv, WorkersKeep
    <2>6. /\ \A w \in Workers : orphans'[w] > 0 => w \in Pinned
          /\ \A w \in reliable : orphans'[w] = 0
        BY <1>3, <2>1, <2>4, <2>5 DEF PoolInv, WorkersKeep
    <2>7. WorkersKeep'
        BY <1>1, <1>2, <2>6, WorkersStay DEF PoolInv
    <2> QED
        BY <2>3, <2>7 DEF PoolInv
<1> QED
    BY <1>5, <1>6 DEF Refused, Exhausted, Lost, workers

(* A round begins with every sturdy worker among its candidates.           *)
LEMMA ChooseKeeps ==
    ASSUME PoolInv, NEW c \in Calls, Choose(c)
    PROVE  PoolInv'
<1> DEFINE start == cursor % Len(Eligible)
           round == RotatedFrom(Eligible, start)
<1>1. /\ Eligible \in Seq(Workers) /\ Eligible # <<>>
      /\ Range(Eligible) \subseteq Pinned /\ reliable \subseteq Range(Eligible)
    BY EligibleAreRight DEF PoolInv
<1>2. Len(Eligible) \in Nat \ {0}
    BY <1>1
<1>3. start \in 0 .. Len(Eligible) - 1 /\ (start + 1) % Len(Eligible) \in Nat
    <2>1. PICK l \in Nat \ {0} : l = Len(Eligible)
        BY <1>2
    <2>2. PICK k \in Nat : k = cursor
        BY DEF PoolInv, PoolTypes
    <2>3. k % l \in 0 .. l - 1
        OBVIOUS
    <2>4. (k % l) + 1 \in Nat
        BY <2>3
    <2>5. ((k % l) + 1) % l \in 0 .. l - 1
        BY <2>4
    <2> QED
        BY <2>1, <2>2, <2>3, <2>5
<1>4. /\ pc[c] = "choosing" /\ pc' = [pc EXCEPT ![c] = "sending"]
      /\ candidates' = [candidates EXCEPT ![c] = round]
      /\ cursor' = (start + 1) % Len(Eligible)
      /\ UNCHANGED <<preferred, retries, inspecting, found, reliable, state, orphans>>
    BY DEF Choose, Goto, discovery, workers
<1> HIDE DEF start
<1>5. round \in Seq(Workers) /\ round # <<>> /\ Range(round) = Range(Eligible)
    BY <1>1, <1>3, RotationKeeps
<1> HIDE DEF round
<1>6. PoolTypes'
    <2>1. pc' \in [Calls -> Trying \cup Ended \cup {"choosing", "discovering"}]
        BY <1>4 DEF PoolInv, PoolTypes, Trying
    <2>2. candidates' \in [Calls -> Seq(Workers)]
        BY <1>4, <1>5 DEF PoolInv, PoolTypes
    <2> QED
        BY <1>3, <1>4, <2>1, <2>2 DEF PoolInv, PoolTypes
<1>7. pc'[c] = "sending" /\ candidates'[c] = round
    BY <1>4 DEF PoolInv, PoolTypes
<1>8. CallKeeps(c)'
    BY <1>1, <1>4, <1>5, <1>7 DEF CallKeeps, Sturdy
<1>9. ASSUME NEW d \in Calls, d # c PROVE CallKeeps(d)'
    <2>1. pc'[d] = pc[d] /\ candidates'[d] = candidates[d]
        BY <1>4, <1>9 DEF PoolInv, PoolTypes
    <2> QED
        BY <1>4, <2>1, OtherCallKeeps DEF PoolInv
<1>10. WorkersKeep'
    BY <1>4 DEF PoolInv, WorkersKeep
<1> QED
    BY <1>6, <1>8, <1>9, <1>10 DEF PoolInv

(* A request on its way changes neither candidates nor workers.            *)
LEMMA SendKeeps ==
    ASSUME PoolInv, NEW c \in Calls, Send(c)
    PROVE  PoolInv'
<1>1. /\ pc[c] = "sending" /\ pc' = [pc EXCEPT ![c] = "waiting"]
      /\ UNCHANGED <<cursor, preferred, candidates, retries, inspecting, found,
                     reliable, state, orphans>>
    BY DEF Send, Goto, pool, discovery, workers
<1>2. PoolTypes'
    BY <1>1 DEF PoolInv, PoolTypes, Trying
<1>3. pc'[c] = "waiting"
    BY <1>1 DEF PoolInv, PoolTypes
<1>4. CallKeeps(c)'
    BY <1>1, <1>3 DEF PoolInv, CallKeeps, Sturdy, Trying
<1>5. ASSUME NEW d \in Calls, d # c PROVE CallKeeps(d)'
    <2>1. pc'[d] = pc[d]
        BY <1>1, <1>5 DEF PoolInv, PoolTypes
    <2> QED
        BY <1>1, <2>1, OtherCallKeeps DEF PoolInv
<1>6. WorkersKeep'
    BY <1>1 DEF PoolInv, WorkersKeep
<1> QED
    BY <1>2, <1>4, <1>5, <1>6 DEF PoolInv

(* A call with its answer has no candidates.                               *)
LEMMA AnswerKeeps ==
    ASSUME PoolInv, NEW c \in Calls, Answer(c)
    PROVE  PoolInv'
<1>1. PICK end \in {"returned", "failed"} : pc[c] = "waiting" /\ pc' = [pc EXCEPT ![c] = end]
    BY DEF Answer, Goto
<1>2. /\ candidates' = [candidates EXCEPT ![c] = <<>>]
      /\ UNCHANGED <<cursor, preferred, retries, inspecting, found, reliable, state, orphans>>
    BY DEF Answer, pool, discovery, workers
<1>3. PoolTypes'
    <2>1. pc' \in [Calls -> Trying \cup Ended \cup {"choosing", "discovering"}]
        BY <1>1 DEF PoolInv, PoolTypes, Ended
    <2>2. candidates' \in [Calls -> Seq(Workers)]
        BY <1>2 DEF PoolInv, PoolTypes
    <2> QED
        BY <1>2, <2>1, <2>2 DEF PoolInv, PoolTypes
<1>4. pc'[c] = end /\ candidates'[c] = <<>>
    BY <1>1, <1>2 DEF PoolInv, PoolTypes
<1>5. Range(<<>>) = {}
    BY DEF Range
<1>6. CallKeeps(c)'
    BY <1>4, <1>5 DEF CallKeeps, Trying
<1>7. ASSUME NEW d \in Calls, d # c PROVE CallKeeps(d)'
    <2>1. pc'[d] = pc[d] /\ candidates'[d] = candidates[d]
        BY <1>1, <1>2, <1>7 DEF PoolInv, PoolTypes
    <2> QED
        BY <1>2, <2>1, OtherCallKeeps DEF PoolInv
<1>8. WorkersKeep'
    BY <1>2 DEF PoolInv, WorkersKeep
<1> QED
    BY <1>3, <1>6, <1>7, <1>8 DEF PoolInv

(* A worker to count on is asked still, or is found.                       *)
LEMMA InspectKeeps ==
    ASSUME PoolInv, NEW c \in Calls, NEW w \in Workers, Inspect(c, w)
    PROVE  PoolInv'
<1>1. /\ pc[c] = "discovering"
      /\ inspecting' = [inspecting EXCEPT ![c] = @ \ {w}]
      /\ \/ found' = [found EXCEPT ![c] = @ \cup {w}]
         \/ ~(state[w] = "serving" /\ w \in reliable) /\ UNCHANGED found
      /\ UNCHANGED <<cursor, preferred, pc, candidates, retries, reliable, state, orphans>>
    BY DEF Inspect, pool, workers
<1>2. PoolTypes'
    <2>1. inspecting[c] \ {w} \in SUBSET Workers /\ found[c] \cup {w} \in SUBSET Workers
        BY DEF PoolInv, PoolTypes
    <2>2. inspecting' \in [Calls -> SUBSET Workers]
        BY <1>1, <2>1 DEF PoolInv, PoolTypes
    <2>3. found' \in [Calls -> SUBSET Workers]
        BY <1>1, <2>1 DEF PoolInv, PoolTypes
    <2> QED
        BY <1>1, <2>2, <2>3 DEF PoolInv, PoolTypes
<1>3. /\ inspecting'[c] = inspecting[c] \ {w}
      /\ \/ found'[c] = found[c] \cup {w}
         \/ w \notin reliable /\ found'[c] = found[c]
    BY <1>1 DEF PoolInv, PoolTypes, WorkersKeep
<1>4. reliable \subseteq inspecting[c] \cup found[c] /\ CallKeeps(c)
    BY <1>1 DEF PoolInv, CallKeeps
<1>5. reliable \subseteq inspecting'[c] \cup found'[c]
    BY <1>3, <1>4
<1>6. CallKeeps(c)'
    BY <1>1, <1>4, <1>5 DEF CallKeeps, Trying
<1>7. ASSUME NEW d \in Calls, d # c PROVE CallKeeps(d)'
    <2>1. inspecting'[d] = inspecting[d] /\ found'[d] = found[d]
        BY <1>1, <1>7 DEF PoolInv, PoolTypes
    <2> QED
        BY <1>1, <2>1, OtherCallKeeps DEF PoolInv
<1>8. WorkersKeep'
    BY <1>1 DEF PoolInv, WorkersKeep
<1> QED
    BY <1>2, <1>6, <1>7, <1>8 DEF PoolInv

(* When all have been asked, those to count on have been found.            *)
LEMMA PreferKeeps ==
    ASSUME PoolInv, NEW c \in Calls, Prefer(c)
    PROVE  PoolInv'
<1>1. /\ pc[c] = "discovering" /\ inspecting[c] = {}
      /\ pc' = [pc EXCEPT ![c] = "choosing"]
      /\ preferred' = IF found[c] # {} THEN found[c] ELSE preferred
      /\ found' = [found EXCEPT ![c] = {}]
      /\ UNCHANGED <<cursor, candidates, retries, inspecting, reliable, state, orphans>>
    BY DEF Prefer, Goto, workers
<1>2. PoolTypes'
    <2>1. pc' \in [Calls -> Trying \cup Ended \cup {"choosing", "discovering"}]
        BY <1>1 DEF PoolInv, PoolTypes
    <2>2. found' \in [Calls -> SUBSET Workers]
        BY <1>1 DEF PoolInv, PoolTypes
    <2> QED
        BY <1>1, <2>1, <2>2 DEF PoolInv, PoolTypes
<1>3. pc'[c] = "choosing"
    BY <1>1 DEF PoolInv, PoolTypes
<1>4. CallKeeps(c)'
    BY <1>1, <1>3 DEF PoolInv, CallKeeps, Trying
<1>5. ASSUME NEW d \in Calls, d # c PROVE CallKeeps(d)'
    <2>1. pc'[d] = pc[d] /\ found'[d] = found[d]
        BY <1>1, <1>5 DEF PoolInv, PoolTypes
    <2> QED
        BY <1>1, <2>1, OtherCallKeeps DEF PoolInv
<1>6. reliable \subseteq found[c]
    BY <1>1 DEF PoolInv, CallKeeps
<1>7. reliable' \subseteq preferred'
    BY <1>1, <1>6 DEF PoolInv, WorkersKeep
<1>8. WorkersKeep'
    BY <1>1, <1>7 DEF PoolInv, WorkersKeep
<1> QED
    BY <1>2, <1>4, <1>5, <1>8 DEF PoolInv

(* Only a worker that is not to be counted on changes its state; a tile is *)
(* lost with no other.                                                     *)
LEMMA WorkerStepKeeps ==
    ASSUME PoolInv, NEW w \in Workers, Stop(w) \/ GoDown(w) \/ ComeBack(w) \/ Finish(w)
    PROVE  PoolInv'
<1>1. UNCHANGED <<cursor, preferred, candidates, retries, inspecting, found, reliable>>
    BY DEF Stop, GoDown, ComeBack, Finish, Change, calling, pool, discovery
<1>2. /\ orphans' \in [Workers -> Nat]
      /\ \A v \in Workers : orphans'[v] = orphans[v] \/ (v = w /\ orphans'[w] = 0)
                               \/ (v = w /\ orphans[w] > 0 /\ orphans'[w] = orphans[w] - 1)
    <2>1. CASE GoDown(w)
        BY <2>1 DEF GoDown, PoolInv, PoolTypes
    <2>2. CASE Finish(w)
        BY <2>2 DEF Finish, PoolInv, PoolTypes
    <2>3. CASE Stop(w) \/ ComeBack(w)
        BY <2>3 DEF Stop, ComeBack, PoolInv, PoolTypes
    <2> QED
        BY <2>1, <2>2, <2>3
<1>3. /\ DOMAIN state' = Workers
      /\ \A v \in Workers : state'[v] = state[v] \/ (v = w /\ w \notin reliable)
    BY DEF Stop, GoDown, ComeBack, Finish, Change, PoolInv, PoolTypes
<1>4. /\ DOMAIN pc' = Calls
      /\ \A c \in Calls : \/ pc'[c] = pc[c]
                          \/ pc[c] = "waiting" /\ pc'[c] = "lost" /\ Target(c) \notin reliable
    <2>1. CASE GoDown(w)
        BY <2>1 DEF GoDown, Change
    <2>2. CASE Stop(w) \/ ComeBack(w) \/ Finish(w)
        BY <2>2 DEF Stop, ComeBack, Finish, PoolInv, PoolTypes
    <2> QED
        BY <2>1, <2>2
<1>5. PoolTypes'
    <2>1. pc' \in [Calls -> Trying \cup Ended \cup {"choosing", "discovering"}]
        <3>1. pc' = [c \in Calls |-> pc'[c]]
            BY DEF Stop, GoDown, ComeBack, Finish, PoolInv, PoolTypes
        <3>2. \A c \in Calls : pc'[c] \in Trying \cup Ended \cup {"choosing", "discovering"}
            BY <1>4 DEF PoolInv, PoolTypes, Trying
        <3> QED
            BY <3>1, <3>2
    <2> QED
        BY <1>1, <1>2, <1>3, <2>1 DEF PoolInv, PoolTypes
<1>6. ASSUME NEW c \in Calls PROVE CallKeeps(c)'
    <2>1. CallKeeps(c) /\ UNCHANGED Target(c) /\ UNCHANGED Sturdy
        BY <1>1 DEF PoolInv, Target, Sturdy
    <2> QED
        BY <1>1, <1>4, <2>1 DEF CallKeeps, Trying
<1>7. WorkersKeep'
    <2>1. reliable \subseteq Workers
        BY PinnedAssumption DEF PoolInv, WorkersKeep
    <2>2. \A v \in Workers : orphans'[v] > 0 => v \in Pinned
        BY <1>2, SMTT(30) DEF PoolInv, PoolTypes, WorkersKeep
    <2>3. \A v \in reliable : orphans'[v] = 0
        BY <1>2, <2>1 DEF PoolInv, PoolTypes, WorkersKeep
    <2>4. \A v \in reliable : state'[v] = "serving"
        BY <1>3, <2>1 DEF PoolInv, WorkersKeep
    <2> QED
        BY <1>1, <2>2, <2>3, <2>4 DEF PoolInv, WorkersKeep
<1> QED
    BY <1>5, <1>6, <1>7 DEF PoolInv

(* At first every pinned worker is preferred, and no call has candidates.  *)
LEMMA PoolInitially == Init => PoolInv
<1> SUFFICES ASSUME Init PROVE PoolInv
    OBVIOUS
<1>1. Range(<<>>) = {}
    BY DEF Range
<1>2. reliable \subseteq Pinned /\ reliable \subseteq Workers
    BY PinnedAssumption, CastsAssumption DEF Init
<1>3. PoolTypes
    BY DEF Init, PoolTypes
<1>4. WorkersKeep
    BY <1>2 DEF Init, WorkersKeep
<1>5. \A c \in Calls : CallKeeps(c)
    BY <1>1 DEF Init, CallKeeps, Trying
<1> QED
    BY <1>3, <1>4, <1>5 DEF PoolInv

(* Every step of a call or of a worker keeps what they keep.               *)
LEMMA PoolInductive == PoolInv /\ [Next]_vars => PoolInv'
<1>1. ASSUME PoolInv, UNCHANGED vars PROVE PoolInv'
    <2>1. UNCHANGED <<cursor, preferred, pc, candidates, retries, inspecting, found,
                      reliable, state, orphans>>
        BY <1>1 DEF vars, pool, discovery, workers
    <2>2. PoolTypes' /\ WorkersKeep'
        BY <1>1, <2>1 DEF PoolInv, PoolTypes, WorkersKeep
    <2>3. \A c \in Calls : CallKeeps(c)'
        BY <1>1, <2>1, OtherCallKeeps DEF PoolInv
    <2> QED
        BY <2>2, <2>3 DEF PoolInv
<1> QED
    BY <1>1, FailedStepKeeps, ChooseKeeps, SendKeeps, AnswerKeeps, InspectKeeps,
       PreferKeeps, WorkerStepKeeps DEF Next, Step

(* A call that has failed has met a pinned worker that errs.               *)
ErringInv == \A c \in Calls : pc[c] = "failed" => erring \cap Pinned # {}

(* Only an answer fails a call, and it comes from the candidate at the     *)
(* head, which is pinned as all of them are.                               *)
LEMMA ErringInductive == PoolInv /\ ErringInv /\ [Next]_vars => ErringInv'
<1> SUFFICES ASSUME PoolInv, ErringInv, [Next]_vars,
                    NEW c \in Calls, pc'[c] = "failed", pc[c] # "failed"
             PROVE  erring' \cap Pinned # {}
    <2>1. ASSUME [Next]_vars PROVE erring' = erring
        BY <2>1 DEF vars, workers, Next, Step, Choose, Send, Refused, Answer, Exhausted,
                    Late, Lost, Prefer, Inspect, Stop, GoDown, ComeBack, Finish, Change
    <2> QED
        BY <2>1 DEF ErringInv
<1>1. erring' = erring
    BY DEF vars, workers, Next, Step, Choose, Send, Refused, Answer, Exhausted,
           Late, Lost, Prefer, Inspect, Stop, GoDown, ComeBack, Finish, Change
<1>2. DOMAIN pc = Calls
    BY DEF PoolInv, PoolTypes
<1>3. ~ \E w \in Workers : Stop(w) \/ GoDown(w) \/ ComeBack(w) \/ Finish(w)
    <2>1. ASSUME NEW w \in Workers, GoDown(w) PROVE FALSE
        BY <2>1 DEF GoDown
    <2>2. ASSUME NEW w \in Workers, Stop(w) \/ ComeBack(w) \/ Finish(w) PROVE FALSE
        BY <2>2 DEF Stop, ComeBack, Finish
    <2> QED
        BY <2>1, <2>2
<1>4. PICK d \in Calls : Step(d)
    BY <1>3 DEF Next, vars
<1>5. Answer(d)
    BY <1>2, <1>4 DEF Step, Choose, Send, Refused, Exhausted, Late, Lost, Prefer, Inspect,
                      FailOver, Goto
<1>6. pc[c] = "waiting" /\ Target(c) \in erring
    BY <1>2, <1>5 DEF Answer, Goto
<1>7. /\ candidates[c] # <<>> /\ candidates[c] \in Seq(Workers)
      /\ Range(candidates[c]) \subseteq Pinned
    BY <1>6 DEF PoolInv, PoolTypes, CallKeeps, Trying
<1>8. Target(c) \in Pinned
    BY <1>7, TailLeavesHead DEF Target
<1> QED
    BY <1>1, <1>6, <1>8

(* What calls and workers keep is more than the two properties say.        *)
LEMMA PoolImplied == PoolInv /\ ErringInv => PinnedOnly /\ OneWorkerSuffices
<1> SUFFICES ASSUME PoolInv, ErringInv PROVE PinnedOnly /\ OneWorkerSuffices
    OBVIOUS
<1>1. PinnedOnly
    BY DEF PoolInv, WorkersKeep, CallKeeps, PinnedOnly
<1>2. ASSUME Sturdy # {}, NEW c \in Calls, Task(c) = "raised"
      PROVE  pc[c] = "failed" /\ erring \cap Pinned # {}
    <2>1. pc[c] \in {"failed", "raised"}
        BY <1>2 DEF Task
    <2>2. pc[c] # "raised"
        BY <1>2 DEF PoolInv, CallKeeps
    <2> QED
        BY <2>1, <2>2 DEF ErringInv
<1> QED
    BY <1>1, <1>2 DEF OneWorkerSuffices, Sturdy

(* No call has failed at first.                                            *)
LEMMA ErringInitially == Init => ErringInv
BY DEF Init, ErringInv

(* WorkerPool.execute_tile with eligible_targets: whatever discoveries     *)
(* find, no tile goes to a worker the job's plan was not made for, and     *)
(* none is left behind on one.                                             *)
THEOREM TilesStayPinned == Spec => []PinnedOnly
BY PoolInitially, PoolInductive, ErringInitially, ErringInductive, PoolImplied, PTL DEF Spec

(* _execute_with_retries over WorkerPool.execute_tile: with one worker     *)
(* that neither stops nor is late and has a slot for each tile in flight,  *)
(* retries never run out, whatever is transient of the others; what a call *)
(* raises is an error that is not, of a pinned worker that has such.       *)
THEOREM OneIsEnough == Spec => []OneWorkerSuffices
BY PoolInitially, PoolInductive, ErringInitially, ErringInductive, PoolImplied, PTL DEF Spec
=============================================================================
