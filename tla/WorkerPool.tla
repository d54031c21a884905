----------------------------- MODULE WorkerPool -----------------------------
(***************************************************************************)
(* WorkerPool of distributed/runtime.py under the calls of a job:          *)
(* _execute_with_retries of distributed/coordinator.py chooses workers     *)
(* round-robin, fails over from one to the next and, when all have failed, *)
(* asks the pool to discover which ones serve.  Workers stop, crash and    *)
(* come back under it, and go on with a tile whose caller has given up.    *)
(***************************************************************************)
EXTENDS Naturals, Sequences, FiniteSets, SequencesExt

CONSTANTS Clients,      \* the configured workers, in their order
          Pinned,       \* eligible_targets, those the job's plan is made for
          Casts,        \* what workers may prove to be: [reliable, erring]
          Slots,        \* for each worker, max_concurrent_tiles
          Calls,        \* the tiles in flight
          MaxRetries,   \* max_retries
          MaxFaults     \* bounds the workers' changes of state

Workers == Range(Clients)

ASSUME ClientsAssumption == Clients \in Seq(Workers) /\ IsInjective(Clients)
ASSUME PinnedAssumption ==
    Pinned \subseteq Workers /\ Pinned # {}
ASSUME CastsAssumption ==
    \A cast \in Casts : cast.reliable \subseteq Pinned /\ cast.erring \subseteq Workers
ASSUME CallsAssumption == IsFiniteSet(Calls) /\ Slots \in [Workers -> Nat]

VARIABLES reliable,     \* the workers that will not stop, crash or be late
          erring,       \* those that may answer with an error that is not transient
          preferred,    \* _preferred_targets
          cursor,       \* _next_worker
          pc,           \* where each call is
          candidates,   \* the workers it has still to try
          retries,      \* the retries it has made
          inspecting,   \* the workers its discovery has still to ask
          found,        \* those that said they serve
          state,        \* what each worker is doing
          orphans,      \* the tiles it executes that nobody waits for
          faults        \* the changes of state so far

pool == <<preferred, cursor>>
discovery == <<inspecting, found>>
workers == <<reliable, erring, state, orphans, faults>>
vars == <<pool, pc, candidates, retries, discovery, workers>>

(* The discovery the plan was made from is over; a worker may have changed *)
(* its state since.                                                        *)
Init ==
    /\ \E cast \in Casts : reliable = cast.reliable /\ erring = cast.erring
    /\ preferred = Pinned
    /\ cursor = 0
    /\ pc = [c \in Calls |-> "choosing"]
    /\ candidates = [c \in Calls |-> <<>>]
    /\ retries = [c \in Calls |-> 0]
    /\ inspecting = [c \in Calls |-> {}]
    /\ found = [c \in Calls |-> {}]
    /\ state \in [Workers -> {"serving", "down"}]
    /\ \A w \in reliable : state[w] = "serving"
    /\ orphans = [w \in Workers |-> 0]
    /\ faults = 0

Goto(c, from, to) == pc[c] = from /\ pc' = [pc EXCEPT ![c] = to]

----------------------------------------------------------------------------
(* WorkerPool.execute_tile.  The lock covers the choice of the candidates. *)
Among(set) ==
    LET among[n \in 0 .. Len(Clients)] ==
            IF n = 0 THEN <<>>
            ELSE IF Clients[n] \in set THEN Append(among[n - 1], Clients[n])
            ELSE among[n - 1]
    IN  among[Len(Clients)]

EligiblePreferred ==
    IF Among(preferred) # <<>> THEN Among(preferred) ELSE Among(Pinned)

Eligible ==
    IF Among(Pinned \cap preferred) # <<>>
    THEN Among(Pinned \cap preferred)
    ELSE Among(Pinned)

(* eligible[start:] + eligible[:start]                                     *)
RotatedFrom(eligible, start) ==
    SubSeq(eligible, start + 1, Len(eligible)) \o SubSeq(eligible, 1, start)

Choose(c) ==
    /\ Goto(c, "choosing", "sending")
    /\ LET start == cursor % Len(Eligible)
       IN  /\ candidates' = [candidates EXCEPT ![c] = RotatedFrom(Eligible, start)]
           /\ cursor' = (start + 1) % Len(Eligible)
    /\ UNCHANGED <<preferred, retries, discovery, workers>>

Target(c) == Head(candidates[c])

Busy(w) ==
    orphans[w] + Cardinality({c \in Calls : pc[c] = "waiting" /\ Target(c) = w})
        >= Slots[w]

(* The request is sent, to a worker that takes it.                         *)
Send(c) ==
    /\ Goto(c, "sending", "waiting")
    /\ state[Target(c)] = "serving" /\ ~Busy(Target(c))
    /\ UNCHANGED <<pool, candidates, retries, discovery, workers>>

(* A transient error: the next candidate is tried.  After the last one     *)
(* _execute_with_retries discovers the serving workers and retries, or     *)
(* raises the error.                                                       *)
MayRetryOnceMore(c) == retries[c] <= MaxRetries

MayRetry(c) == retries[c] < MaxRetries

GiveUpRound(c) ==
    /\ candidates' = [candidates EXCEPT ![c] = Tail(@)]
    /\ \/ /\ MayRetry(c)
          /\ pc' = [pc EXCEPT ![c] = "discovering"]
          /\ retries' = [retries EXCEPT ![c] = @ + 1]
          /\ inspecting' = [inspecting EXCEPT ![c] = Workers]
          /\ UNCHANGED found
       \/ /\ ~MayRetry(c)
          /\ pc' = [pc EXCEPT ![c] = "raised"]
          /\ UNCHANGED <<retries, inspecting, found>>

FailOver(c) ==
    /\ candidates' = [candidates EXCEPT ![c] = Tail(@)]
    /\ \/ /\ Len(candidates[c]) > 1
          /\ pc' = [pc EXCEPT ![c] = "sending"]
          /\ UNCHANGED <<retries, inspecting, found>>
       \/ /\ Len(candidates[c]) = 1 /\ MayRetry(c)
          /\ pc' = [pc EXCEPT ![c] = "discovering"]
          /\ retries' = [retries EXCEPT ![c] = @ + 1]
          /\ inspecting' = [inspecting EXCEPT ![c] = Workers]
          /\ UNCHANGED found
       \/ /\ Len(candidates[c]) = 1 /\ ~MayRetry(c)
          /\ pc' = [pc EXCEPT ![c] = "raised"]
          /\ UNCHANGED <<retries, inspecting, found>>

(* A worker that does not serve says UNAVAILABLE, one without a slot       *)
(* RESOURCE_EXHAUSTED, and one that is down lets the deadline pass.        *)
Refused(c) ==
    /\ pc[c] = "sending"
    /\ state[Target(c)] # "serving" \/ Busy(Target(c))
    /\ FailOver(c)
    /\ UNCHANGED <<pool, workers>>

(* The worker answers.  One that errs may also answer with an error that is*)
(* not transient (INTERNAL, INVALID_ARGUMENT), or not to this request: that*)
(* ends the call at once, without a look at the other candidates.          *)
Answer(c) ==
    /\ \/ Goto(c, "waiting", "returned")
       \/ Goto(c, "waiting", "failed") /\ Target(c) \in erring
    /\ candidates' = [candidates EXCEPT ![c] = <<>>]
    /\ UNCHANGED <<pool, retries, discovery, workers>>

(* The tile cannot be allocated, or its worker went down with it.          *)
Exhausted(c) ==
    /\ pc[c] = "waiting" /\ Target(c) \notin reliable
    /\ FailOver(c)
    /\ UNCHANGED <<pool, workers>>

Lost(c) ==
    /\ pc[c] = "lost"
    /\ FailOver(c)
    /\ UNCHANGED <<pool, workers>>

(* The deadline passes; the worker goes on with the tile.                  *)
Late(c) ==
    /\ pc[c] = "waiting" /\ Target(c) \notin reliable
    /\ FailOver(c)
    /\ orphans' = [orphans EXCEPT ![Target(c)] = @ + 1]
    /\ UNCHANGED <<pool, reliable, erring, state, faults>>

----------------------------------------------------------------------------
(* WorkerPool.discover_serving.  The workers are asked one by one, by      *)
(* threads of their own, and the preference is stored when all have been;  *)
(* without a serving worker the old one stays.  One that serves may not    *)
(* answer in time.                                                         *)
Inspect(c, w) ==
    /\ pc[c] = "discovering"
    /\ w \in inspecting[c]
    /\ inspecting' = [inspecting EXCEPT ![c] = @ \ {w}]
    /\ \/ state[w] = "serving" /\ found' = [found EXCEPT ![c] = @ \cup {w}]
       \/ ~(state[w] = "serving" /\ w \in reliable) /\ UNCHANGED found
    /\ UNCHANGED <<pool, pc, candidates, retries, workers>>

Prefer(c) ==
    /\ inspecting[c] = {}
    /\ Goto(c, "discovering", "choosing")
    /\ preferred' = IF found[c] # {} THEN found[c] ELSE preferred
    /\ found' = [found EXCEPT ![c] = {}]
    /\ UNCHANGED <<cursor, candidates, retries, inspecting, workers>>

----------------------------------------------------------------------------
(* The workers.                                                            *)
calling == <<pool, candidates, retries, discovery>>

Change(w, from, to) ==
    /\ w \notin reliable
    /\ faults < MaxFaults
    /\ state[w] \in from
    /\ state' = [state EXCEPT ![w] = to]
    /\ faults' = faults + 1
    /\ UNCHANGED <<calling, reliable, erring>>

Stop(w) == Change(w, {"serving"}, "stopping") /\ UNCHANGED <<pc, orphans>>

GoDown(w) ==
    /\ Change(w, {"serving", "stopping"}, "down")
    /\ orphans' = [orphans EXCEPT ![w] = 0]
    /\ pc' = [c \in Calls |->
                 IF pc[c] = "waiting" /\ Target(c) = w THEN "lost" ELSE pc[c]]

ComeBack(w) == Change(w, {"down"}, "serving") /\ UNCHANGED <<pc, orphans>>

(* A tile nobody waits for is done with, and its slot free.                *)
Finish(w) ==
    /\ orphans[w] > 0
    /\ orphans' = [orphans EXCEPT ![w] = @ - 1]
    /\ UNCHANGED <<calling, pc, reliable, erring, state, faults>>

Step(c) ==
    \/ Choose(c) \/ Send(c) \/ Refused(c) \/ Answer(c) \/ Exhausted(c) \/ Late(c)
    \/ Lost(c) \/ Prefer(c)
    \/ \E w \in Workers : Inspect(c, w)

Next ==
    \/ \E c \in Calls : Step(c)
    \/ \E w \in Workers : Stop(w) \/ GoDown(w) \/ ComeBack(w) \/ Finish(w)

(* Every remote call has a deadline, so a call that has begun goes on.     *)
Spec == Init /\ [][Next]_vars /\ \A c \in Calls : WF_vars(Step(c))

----------------------------------------------------------------------------
(* A discovery made during a job may find workers the plan was not made    *)
(* for; no tile of the job goes to one, now or later.                      *)
PinnedOnly ==
    /\ \A w \in Workers : orphans[w] > 0 => w \in Pinned
    /\ \A c \in Calls : Range(candidates[c]) \subseteq Pinned

(* What a call is to the thread that made it.                              *)
Task(c) ==
    CASE pc[c] = "returned"            -> "returned"
      [] pc[c] \in {"failed", "raised"} -> "raised"
      [] OTHER                         -> "running"

(* With one worker it can count on, that has a slot for each tile in       *)
(* flight, a job loses no tile to workers that stop, crash, are late or    *)
(* have no room, nor to any that its plan was not made for, whatever they  *)
(* do and discoveries say of them.  What ends it is an error that is not   *)
(* transient, of a worker its plan was made for: it is raised at once.     *)
OneWorkerSuffices ==
    (\E w \in reliable : Slots[w] >= Cardinality(Calls)) =>
        \A c \in Calls :
            Task(c) = "raised" => pc[c] = "failed" /\ erring \cap Pinned # {}

(* To the coordinator's threads the pool is what TileCall says.            *)
Contract == INSTANCE TileCall WITH
    task <- [c \in Calls |-> Task(c)], attempt <- retries

ImplementsTileCall == Contract!Spec
=============================================================================
