---------------------------- MODULE MCWorkerPool ----------------------------
(***************************************************************************)
(* Two tiles of a job pinned to two of three workers: one that answers,    *)
(* with a slot for either tile, and one of one slot that stops, crashes,   *)
(* comes back and is late.  The third was not there when the job was       *)
(* planned.  The error that ends a job comes from the third alone, from    *)
(* the second, or from both of the two when neither can be counted on.     *)
(***************************************************************************)
EXTENDS WorkerPool

CONSTANTS flaky, steady, late_comer

MCClients == <<flaky, late_comer, steady>>
MCPinned == {flaky, steady}
MCCasts ==
    {[reliable |-> {steady}, erring |-> {late_comer}],
     [reliable |-> {steady}, erring |-> {flaky}],
     [reliable |-> {}, erring |-> {flaky, steady}]}
MCSlots == [w \in MCPinned \cup {late_comer} |-> IF w = steady THEN 2 ELSE 1]
=============================================================================
