----------------------------- MODULE ProfileJob -----------------------------
(***************************************************************************)
(* What DistributedCoordinator promises: a job either returns the complete *)
(* profile of the join, each position with its greatest correlation over   *)
(* the whole matrix at the lowest index that reaches it, or fails and      *)
(* returns nothing.  Tiles, workers and retries do not appear.             *)
(***************************************************************************)
EXTENDS ProfileMerge

CONSTANTS Jobs,         \* the joins a caller may ask for
          Sim(_, _, _), \* Sim(j, r, c): a correlation, or the sentinel's value
          NoProfile     \* what a caller holds before a job returns

VARIABLES job,          \* the join that was asked for
          outcome,      \* "running", "done" or "failed"
          result        \* the profile that was returned

vars == <<job, outcome, result>>

(* The entries a cell could hold: its valid correlation with every row, or *)
(* with every column.                                                      *)
Matches(j, cell) ==
    LET entries ==
            IF cell[1] = "column"
            THEN {[value |-> Sim(j, r, cell[2]), index |-> r] :
                    r \in Positions(0, j.rows)}
            ELSE {[value |-> Sim(j, cell[2], c), index |-> c] :
                    c \in Positions(0, j.columns)}
    IN  {e \in entries : e.value # InvalidValue}

IsProfileOf(profile, j) ==
    /\ DOMAIN profile = Cells(j)
    /\ \A cell \in Cells(j) : IsBestOf(profile[cell], Matches(j, cell))

Init ==
    /\ job \in Jobs
    /\ outcome = "running"
    /\ result = NoProfile

Return ==
    /\ outcome = "running"
    /\ outcome' = "done"
    /\ IsProfileOf(result', job)
    /\ UNCHANGED job

Fail ==
    /\ outcome = "running"
    /\ outcome' = "failed"
    /\ UNCHANGED <<job, result>>

Next == Return \/ Fail

Spec == Init /\ [][Next]_vars 
=============================================================================
