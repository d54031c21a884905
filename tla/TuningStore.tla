----------------------------- MODULE TuningStore -----------------------------
(***************************************************************************)
(* What the tuning sidecar promises, without processes, locks or files in  *)
(* the making: it holds records, at most one per workload and environment. *)
(* A save adds one and drops others only for want of room, the oldest      *)
(* first.  A sidecar that cannot be read is not written; a reset empties   *)
(* it.                                                                     *)
(***************************************************************************)
EXTENDS Naturals, FiniteSets

CONSTANTS Records,          \* [environment, key, created, candidate]
          InitialStores,    \* what there may be at first
          MaxRecords, MaxEnvironments

Absent == [state |-> "absent", rows |-> {}]
Damaged == [state |-> "damaged", rows |-> {}]
Whole(rows) == [state |-> "whole", rows |-> rows]

VARIABLE store

SameId(r, s) == r.environment = s.environment /\ r.key = s.key
Environments(rows) == {r.environment : r \in rows}

(* There is no room for a record's environment: MaxEnvironments others, the*)
(* saver's own among them, have one as new.                                *)
Crowded(d, all, own) ==
    \E newer \in SUBSET (Environments(all) \ {own, d.environment}) :
        /\ Cardinality(newer) = MaxEnvironments - 1
        /\ \A e \in newer : \E r \in all : r.environment = e /\ r.created >= d.created

(* rows is what a save of r may leave of old.                              *)
MayLeave(rows, old, r) ==
    LET all == {s \in old : ~SameId(s, r)} \cup {r}
    IN  /\ rows \subseteq all
        /\ Cardinality(rows) <= MaxRecords
        /\ Cardinality(Environments(rows) \cup {r.environment}) <= MaxEnvironments
        /\ \A d \in all \ rows :
              \/ Cardinality(rows) = MaxRecords /\ \A s \in rows : s.created >= d.created
              \/ d.environment # r.environment /\ Crowded(d, all, r.environment)

Save ==
    /\ store.state # "damaged"
    /\ \E r \in Records :
          \E rows \in SUBSET (store.rows \cup {r}) :
              MayLeave(rows, store.rows, r) /\ store' = Whole(rows)

Reset == store' = Absent

Init == store \in InitialStores

Next == Save \/ Reset

Spec == Init /\ [][Next]_store
=============================================================================
