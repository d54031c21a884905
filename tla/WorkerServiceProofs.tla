------------------------- MODULE WorkerServiceProofs ------------------------
(***************************************************************************)
(* The worker's accounting, for any number of gRPC threads, slots and      *)
(* requests.                                                               *)
(***************************************************************************)
EXTENDS WorkerService, FiniteSetTheorems, TLAPS

(* The inductive invariant.  That slots stay within bounds needs the count *)
(* of their holders, and that the active count stays a natural number the  *)
(* count of the tiles under way.                                           *)
IInv == TypeOK /\ SlotsConserved /\ ActiveWithinSlots

(* The threads that hold slots are finitely many, and those that are       *)
(* counted as active are among them.                                       *)
LEMMA HoldersAreFinite ==
    /\ IsFiniteSet(Holding) /\ Cardinality(Holding) \in Nat
    /\ IsFiniteSet(Counting) /\ Cardinality(Counting) \in Nat
    /\ Cardinality(Counting) <= Cardinality(Holding)
<1>1. Holding \subseteq Handlers /\ Counting \subseteq Holding
  BY DEF Holding, Counting
<1>2. IsFiniteSet(Holding)
  BY <1>1, HandlersAssumption, FS_Subset
<1> QED
  BY <1>1, <1>2, FS_Subset, FS_CardinalityType

(* A worker that has not been started satisfies the invariant.             *)
LEMMA InitIInv == Init => IInv
<1> SUFFICES ASSUME Init PROVE IInv
  OBVIOUS
<1>1. TypeOK
  <2>1. slots \in 0 .. Slots
    BY SlotsAssumption DEF Init
  <2>2. accepting \in BOOLEAN /\ serving \in BOOLEAN /\ succeeded \in [Handlers -> BOOLEAN]
    BY DEF Init
  <2>3. /\ owner = "new" /\ active = 0 /\ completed = 0 /\ failed = 0 /\ requested = 0
        /\ pc = [h \in Handlers |-> "free"] /\ request = [h \in Handlers |-> "fit"]
        /\ stream = Nobody
    BY DEF Init
  <2> QED
    BY <2>1, <2>2, <2>3 DEF TypeOK, Requests
<1>2. Holding = {} /\ Counting = {}
  BY DEF Init, Holding, Counting
<1>3. Cardinality({}) = 0
  BY FS_EmptySet
<1>4. SlotsConserved
  BY <1>2, <1>3, SlotsAssumption DEF Init, SlotsConserved
<1>5. ActiveWithinSlots
  BY <1>2, <1>3, SlotsAssumption DEF Init, ActiveWithinSlots
<1> QED
  BY <1>1, <1>4, <1>5 DEF IInv

(* A step that moves one thread, neither to nor from holding a slot or     *)
(* being counted, and leaves the numbers alone.                            *)
Neutral(h) ==
    /\ h \in Handlers
    /\ UNCHANGED <<slots, counters>>
    /\ \E to : /\ pc' = [pc EXCEPT ![h] = to]
               /\ to \in {"free", "received", "checked", "executing", "computing",
                          "executed"}
               /\ (h \in Holding) <=> to \in {"executing", "computing", "executed"}
               /\ (h \in Counting) <=> to \in {"executing", "computing", "executed"}

(* Every step keeps the types, given what the numbers count.               *)
LEMMA NextTypeOK == IInv /\ [Next]_vars => TypeOK'
<1> SUFFICES ASSUME IInv, [Next]_vars PROVE TypeOK'
  OBVIOUS
<1> USE DEF IInv, TypeOK
<1>0. /\ Slots \in Nat /\ slots + Cardinality(Holding) = Slots
      /\ active = Cardinality(Counting)
      /\ slots \in Nat
  BY SlotsAssumption DEF SlotsConserved, ActiveWithinSlots
<1>1. CASE Open \/ Serve \/ StopServing \/ Close \/ Stopped
  BY <1>1 DEF Open, Serve, StopServing, Close, Stopped, Owner, handling, counters
<1>2. ASSUME NEW h \in Handlers, Receive(h) \/ Check(h) \/ Refuse(h) PROVE TypeOK'
  <2>1. CASE Receive(h)
    BY <2>1 DEF Receive, Goto, life, counters
  <2>2. CASE Check(h)
    <3>1. \E to \in {"checked", "free"} : pc' = [pc EXCEPT ![h] = to]
      BY <2>2 DEF Check, Goto
    <3> QED
      BY <2>2, <3>1 DEF Check, life, counters
  <2>3. CASE Refuse(h)
    BY <2>3 DEF Refuse, Goto, life, counters
  <2> QED
    BY <1>2, <2>1, <2>2, <2>3
<1>3. ASSUME NEW h \in Handlers, Acquire(h) PROVE TypeOK'
  BY <1>0, <1>3 DEF Acquire, Goto, life, counters
<1>4. ASSUME NEW h \in Handlers, Count(h) \/ Malformed(h) PROVE TypeOK'
  BY <1>4 DEF Count, Malformed, Goto, life, counters
<1>5. ASSUME NEW h \in Handlers, LockStream(h) \/ UnlockStream(h) PROVE TypeOK'
  BY <1>5 DEF LockStream, UnlockStream, Goto, life, counters
<1>6. ASSUME NEW h \in Handlers, Uncount(h) PROVE TypeOK'
  <2>1. h \in Counting
    BY <1>6 DEF Uncount, Goto, Counting
  <2>2. Cardinality(Counting) # 0
    BY <2>1, HoldersAreFinite, FS_EmptySet
  <2>3. active - 1 \in Nat
    BY <1>0, <2>2
  <2> QED
    BY <1>6, <2>3 DEF Uncount, Goto, life, counters
<1>7. ASSUME NEW h \in Handlers, Release(h) PROVE TypeOK'
  <2>1. h \in Holding
    BY <1>7 DEF Release, Goto, Holding
  <2>2. Cardinality(Holding) # 0 /\ Cardinality(Holding) \in Nat
    BY <2>1, HoldersAreFinite, FS_EmptySet
  <2>3. slots + 1 \in 0 .. Slots
    BY <1>0, <2>2
  <2> QED
    BY <1>7, <2>3 DEF Release, Goto, life, counters
<1>8. CASE UNCHANGED vars
  BY <1>8 DEF vars, counters
<1> QED
  BY <1>1, <1>2, <1>3, <1>4, <1>5, <1>6, <1>7, <1>8 DEF Next, Bookkeep, Compute

(* Every step keeps slots and counts in step with the threads that hold    *)
(* and count: it leaves both alone, or moves one thread and one number.    *)
LEMMA NextConserved == IInv /\ [Next]_vars => SlotsConserved' /\ ActiveWithinSlots'
<1> SUFFICES ASSUME IInv, [Next]_vars PROVE SlotsConserved' /\ ActiveWithinSlots'
  OBVIOUS
<1>0. /\ Slots \in Nat /\ slots \in Nat
      /\ slots + Cardinality(Holding) = Slots /\ active = Cardinality(Counting)
      /\ pc \in [Handlers -> {"free", "received", "checked", "admitted", "executing",
                              "computing", "executed", "counted"}]
  BY SlotsAssumption DEF IInv, TypeOK, SlotsConserved, ActiveWithinSlots
<1>1. SUFFICES /\ slots' + Cardinality(Holding') = Slots
               /\ active' = Cardinality(Counting')
               /\ slots' \in Int
  <2>1. Counting' \subseteq Holding' /\ Holding' \subseteq Handlers
    BY DEF Counting, Holding
  <2>2. /\ Cardinality(Counting') <= Cardinality(Holding')
        /\ Cardinality(Counting') \in Nat /\ Cardinality(Holding') \in Nat
    <3>1. IsFiniteSet(Holding')
      BY <2>1, HandlersAssumption, FS_Subset
    <3> QED
      BY <2>1, <3>1, FS_Subset, FS_CardinalityType
  <2> QED
    BY <1>0, <1>1, <2>2 DEF SlotsConserved, ActiveWithinSlots
<1>2. CASE Open \/ Serve \/ StopServing \/ Close \/ Stopped \/ UNCHANGED vars
  <2>1. Holding' = Holding /\ Counting' = Counting /\ slots' = slots /\ active' = active
    BY <1>2 DEF Open, Serve, StopServing, Close, Stopped, handling, counters, vars,
                Holding, Counting
  <2> QED
    BY <1>0, <2>1
<1>3. ASSUME NEW h \in Handlers, Neutral(h)
      PROVE  /\ slots' + Cardinality(Holding') = Slots
             /\ active' = Cardinality(Counting')
             /\ slots' \in Int
  <2>1. Holding' = Holding /\ Counting' = Counting /\ slots' = slots /\ active' = active
    BY <1>0, <1>3 DEF Neutral, Holding, Counting, counters
  <2> QED
    BY <1>0, <2>1
<1>4. ASSUME NEW h \in Handlers,
             \/ Receive(h) \/ Check(h) \/ Refuse(h) \/ Malformed(h)
             \/ LockStream(h) \/ UnlockStream(h)
      PROVE  Neutral(h)
  BY <1>0, <1>4 DEF Receive, Check, Refuse, Malformed, LockStream, UnlockStream, Goto,
                    Neutral, Holding, Counting, counters
<1>5. ASSUME NEW h \in Handlers, Acquire(h)
      PROVE  /\ slots' + Cardinality(Holding') = Slots
             /\ active' = Cardinality(Counting')
             /\ slots' \in Int
  <2>1. CASE slots > 0
    <3>1. /\ slots' = slots - 1 /\ active' = active
          /\ pc[h] = "checked" /\ pc' = [pc EXCEPT ![h] = "admitted"]
      BY <1>5, <2>1 DEF Acquire, Goto, counters
    <3>2. h \notin Holding /\ Holding' = Holding \cup {h} /\ Counting' = Counting
      BY <1>0, <3>1 DEF Holding, Counting
    <3>3. Cardinality(Holding') = Cardinality(Holding) + 1
      BY <3>2, HoldersAreFinite, FS_AddElement
    <3> QED
      BY <1>0, <3>1, <3>2, <3>3, HoldersAreFinite
  <2>2. CASE ~(slots > 0)
    <3>1. Neutral(h)
      BY <1>0, <1>5, <2>2 DEF Acquire, Goto, Neutral, Holding, Counting, counters
    <3> QED
      BY <1>3, <3>1
  <2> QED
    BY <2>1, <2>2
<1>6. ASSUME NEW h \in Handlers, Count(h)
      PROVE  /\ slots' + Cardinality(Holding') = Slots
             /\ active' = Cardinality(Counting')
             /\ slots' \in Int
  <2>1. /\ slots' = slots /\ active' = active + 1
        /\ pc[h] = "admitted" /\ pc' = [pc EXCEPT ![h] = "executing"]
    BY <1>6 DEF Count, Goto
  <2>2. h \notin Counting /\ Counting' = Counting \cup {h} /\ Holding' = Holding
    BY <1>0, <2>1 DEF Holding, Counting
  <2>3. Cardinality(Counting') = Cardinality(Counting) + 1
    BY <2>2, HoldersAreFinite, FS_AddElement
  <2> QED
    BY <1>0, <2>1, <2>2, <2>3
<1>7. ASSUME NEW h \in Handlers, Uncount(h)
      PROVE  /\ slots' + Cardinality(Holding') = Slots
             /\ active' = Cardinality(Counting')
             /\ slots' \in Int
  <2>1. /\ slots' = slots /\ active' = active - 1
        /\ pc[h] = "executed" /\ pc' = [pc EXCEPT ![h] = "counted"]
    BY <1>7 DEF Uncount, Goto
  <2>2. h \in Counting /\ Counting' = Counting \ {h} /\ Holding' = Holding
    BY <1>0, <2>1 DEF Holding, Counting
  <2>3. Cardinality(Counting') = Cardinality(Counting) - 1
    BY <2>2, HoldersAreFinite, FS_RemoveElement
  <2> QED
    BY <1>0, <2>1, <2>2, <2>3
<1>8. ASSUME NEW h \in Handlers, Release(h)
      PROVE  /\ slots' + Cardinality(Holding') = Slots
             /\ active' = Cardinality(Counting')
             /\ slots' \in Int
  <2>1. /\ slots' = slots + 1 /\ active' = active
        /\ pc[h] = "counted" /\ pc' = [pc EXCEPT ![h] = "free"]
    BY <1>8 DEF Release, Goto, counters
  <2>2. h \in Holding /\ Holding' = Holding \ {h} /\ Counting' = Counting
    BY <1>0, <2>1 DEF Holding, Counting
  <2>3. Cardinality(Holding') = Cardinality(Holding) - 1
    BY <2>2, HoldersAreFinite, FS_RemoveElement
  <2> QED
    BY <1>0, <2>1, <2>2, <2>3, HoldersAreFinite
<1> QED
  BY <1>2, <1>3, <1>4, <1>5, <1>6, <1>7, <1>8 DEF Next, Bookkeep, Compute

(* A worker is never out of the invariant.                                 *)
THEOREM Invariance == Spec => []IInv
<1>1. Init => IInv
  BY InitIInv
<1>2. IInv /\ [Next]_vars => IInv'
  BY NextTypeOK, NextConserved DEF IInv
<1> QED
  BY <1>1, <1>2, PTL DEF Spec

(* _tile_slots is neither released nor acquired once too often, and the    *)
(* health counters never go negative.                                      *)
THEOREM TypeCorrect == Spec => []TypeOK
<1>1. IInv => TypeOK
  BY DEF IInv
<1> QED
  BY <1>1, Invariance, PTL

(* Each slot is free or held by one thread that executes a tile or is      *)
(* about to give it back (ExecuteProfileTile's finally block).             *)
THEOREM NoSlotIsLost == Spec => []SlotsConserved
<1>1. IInv => SlotsConserved
  BY DEF IInv
<1> QED
  BY <1>1, Invariance, PTL

(* The active requests of a health report are tiles under way, within the  *)
(* slots that are taken (_health).                                         *)
THEOREM HealthIsTrue == Spec => []ActiveWithinSlots
<1>1. IInv => ActiveWithinSlots
  BY DEF IInv
<1> QED
  BY <1>1, Invariance, PTL
=============================================================================
