------------------------------ MODULE TileCall ------------------------------
(***************************************************************************)
(* What the threads of a Coordinator rely on when they execute a tile: a   *)
(* call that has begun is retried at most MaxRetries times and ends with   *)
(* an answer or an error, for good.  The actions are the threads' of       *)
(* Coordinator; workers and channels do not appear.                        *)
(***************************************************************************)
EXTENDS Naturals

CONSTANTS Calls,        \* the tiles that are executed at the same time
          MaxRetries    \* max_retries

VARIABLES task,         \* for each call, "running", "returned" or "raised"
          attempt       \* for each call, the retries made so far

vars == <<task, attempt>>

Init ==
    /\ task = [c \in Calls |-> "running"]
    /\ attempt = [c \in Calls |-> 0]

End(c, outcome) ==
    /\ task[c] = "running"
    /\ task' = [task EXCEPT ![c] = outcome]
    /\ UNCHANGED attempt

Succeed(c) == End(c, "returned")

Raise(c) == End(c, "raised")

Retry(c) ==
    /\ task[c] = "running"
    /\ attempt[c] < MaxRetries
    /\ attempt' = [attempt EXCEPT ![c] = @ + 1]
    /\ UNCHANGED task

Next == \E c \in Calls : Succeed(c) \/ Retry(c) \/ Raise(c)

(* A call does not go on for ever, whatever it meets.                      *)
Spec == Init /\ [][Next]_vars /\ \A c \in Calls : WF_vars(Succeed(c) \/ Raise(c))
=============================================================================
