--------------------------- MODULE MCAutotuneCache ---------------------------
(***************************************************************************)
(* Two threads of one process and one of another, which runs in another    *)
(* environment; a sidecar that is absent, damaged, or full of records.     *)
(***************************************************************************)
EXTENDS AutotuneCache

CONSTANTS t1, t2, t3

MCThreads == {t1, t2, t3}
MCProcessOf == [t \in MCThreads |-> IF t = t3 THEN "q" ELSE "p"]
MCEnvironmentOf == [p \in {"p", "q"} |-> IF p = "p" THEN "here" ELSE "there"]

Old(env, k, c) == [environment |-> env, key |-> k, created |-> c, candidate |-> t3]

MCInitialFiles ==
    {Absent, [state |-> "damaged", rows |-> {}],
     Whole({Old("here", 2, 1), Old("afar", 1, 3)})}

=============================================================================
