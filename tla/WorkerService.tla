--------------------------- MODULE WorkerService ----------------------------
(***************************************************************************)
(* One worker process: WorkerServer and _WorkerService of                  *)
(* distributed/runtime.py.  A fixed set of gRPC threads handles requests,  *)
(* a semaphore of slots bounds the tiles that execute, MLX admits one of   *)
(* them at a time, and the owner starts and stops the server under them.   *)
(***************************************************************************)
EXTENDS Integers, FiniteSets

CONSTANTS Handlers,         \* the gRPC threads, rpc_threads of them
          Slots,            \* max_concurrent_tiles
          MaxRequests,      \* bounds the tiles requested in one behaviour
          Nobody            \* the holder of a lock that is free

ASSUME HandlersAssumption == IsFiniteSet(Handlers) /\ Nobody \notin Handlers
ASSUME SlotsAssumption == Slots \in Nat \ {0} /\ MaxRequests \in Nat

(* What decides how a request ends, as far as the checks go: one of another*)
(* version, of another kind or too large, and one that passes them all.    *)
Requests == {"other_version", "unsupported", "too_large", "fit"}

VARIABLES owner,        \* how far WorkerServer.start and stop have come
          accepting,    \* the gRPC server hands requests to threads
          serving,      \* _state is SERVING
          slots,        \* free slots of _tile_slots
          active, completed, failed,    \* the health counters
          pc,           \* where each thread is
          request,      \* the request it handles
          succeeded,    \* its local of that name
          stream,       \* the thread that holds _MLX_STREAM_LOCK
          requested     \* the requests received so far

counters == <<active, completed, failed>>
vars == <<owner, accepting, serving, slots, counters, pc, request, succeeded,
          stream, requested>>

Init ==
    /\ owner = "new" /\ accepting = FALSE /\ serving = FALSE
    /\ slots = Slots
    /\ active = 0 /\ completed = 0 /\ failed = 0
    /\ pc = [h \in Handlers |-> "free"]
    /\ request = [h \in Handlers |-> "fit"]
    /\ succeeded = [h \in Handlers |-> FALSE]
    /\ stream = Nobody
    /\ requested = 0

----------------------------------------------------------------------------
(* WorkerServer.start and stop.  A stopped server is never started again;  *)
(* server.stop refuses new requests at once and the wait for those under   *)
(* way gives up after the grace period.                                    *)
handling == <<slots, counters, pc, request, succeeded, stream, requested>>

Owner(from, to) == owner = from /\ owner' = to

Open ==
    /\ Owner("new", "opened")
    /\ accepting' = TRUE
    /\ UNCHANGED <<serving, handling>>

Serve ==
    /\ Owner("opened", "started")
    /\ serving' = TRUE
    /\ UNCHANGED <<accepting, handling>>

StopServing ==
    /\ Owner("started", "stopping")
    /\ serving' = FALSE
    /\ UNCHANGED <<accepting, handling>>

Close ==
    /\ Owner("stopping", "closing")
    /\ accepting' = FALSE
    /\ UNCHANGED <<serving, handling>>

(* Every handler has ended, or the grace period has.                       *)
Stopped ==
    /\ Owner("closing", "stopped")
    /\ UNCHANGED <<accepting, serving, handling>>

----------------------------------------------------------------------------
(* ExecuteProfileTile.                                                     *)
life == <<owner, accepting, serving>>

Goto(h, from, to) == pc[h] = from /\ pc' = [pc EXCEPT ![h] = to]

Receive(h) ==
    /\ accepting
    /\ requested < MaxRequests
    /\ Goto(h, "free", "received")
    /\ \E r \in Requests : request' = [request EXCEPT ![h] = r]
    /\ succeeded' = [succeeded EXCEPT ![h] = FALSE]
    /\ requested' = requested + 1
    /\ UNCHANGED <<life, slots, counters, stream>>

(* The version and the serving state are checked; the state may change as  *)
(* soon as it is read.                                                     *)
Check(h) ==
    /\ Goto(h, "received",
            IF request[h] # "other_version" /\ serving THEN "checked" ELSE "free")
    /\ UNCHANGED <<life, slots, counters, request, succeeded, stream, requested>>

Refuse(h) ==
    /\ request[h] # "fit"
    /\ Goto(h, "checked", "free")
    /\ UNCHANGED <<life, slots, counters, request, succeeded, stream, requested>>

(* acquire(blocking=False): a worker without a free slot says so.          *)
AcquireOrWait(h) ==
    /\ request[h] = "fit"
    /\ slots > 0
    /\ Goto(h, "checked", "admitted")
    /\ slots' = slots - 1
    /\ UNCHANGED <<life, counters, request, succeeded, stream, requested>>

AcquireUnchecked(h) ==
    /\ request[h] = "fit"
    /\ Goto(h, "checked", "admitted")
    /\ slots' = slots - 1
    /\ UNCHANGED <<life, counters, request, succeeded, stream, requested>>

Acquire(h) ==
    /\ request[h] = "fit"
    /\ IF slots > 0
       THEN Goto(h, "checked", "admitted") /\ slots' = slots - 1
       ELSE Goto(h, "checked", "free") /\ UNCHANGED slots
    /\ UNCHANGED <<life, counters, request, succeeded, stream, requested>>

Count(h) ==
    /\ Goto(h, "admitted", "executing")
    /\ active' = active + 1
    /\ UNCHANGED <<life, slots, completed, failed, request, succeeded, stream, requested>>

(* Decoding or a check of the request fails before MLX is reached.         *)
Malformed(h) ==
    /\ Goto(h, "executing", "executed")
    /\ UNCHANGED <<life, slots, counters, request, succeeded, stream, requested>>

LockStream(h) ==
    /\ stream = Nobody
    /\ Goto(h, "executing", "computing")
    /\ stream' = h
    /\ UNCHANGED <<life, slots, counters, request, succeeded, requested>>

(* The computation ends, with a result or with an exception.               *)
UnlockStream(h) ==
    /\ Goto(h, "computing", "executed")
    /\ stream' = Nobody
    /\ \E ok \in BOOLEAN : succeeded' = [succeeded EXCEPT ![h] = ok]
    /\ UNCHANGED <<life, slots, counters, request, requested>>

(* A failed tile that is still counted as active.                          *)
UncountOnSuccess(h) ==
    /\ Goto(h, "executed", "counted")
    /\ IF succeeded[h]
       THEN active' = active - 1 /\ completed' = completed + 1 /\ UNCHANGED failed
       ELSE failed' = failed + 1 /\ UNCHANGED <<active, completed>>
    /\ UNCHANGED <<life, slots, request, succeeded, stream, requested>>

(* The finally block: the counters, under their lock, then the slot.       *)
Uncount(h) ==
    /\ Goto(h, "executed", "counted")
    /\ active' = active - 1
    /\ IF succeeded[h]
       THEN completed' = completed + 1 /\ UNCHANGED failed
       ELSE failed' = failed + 1 /\ UNCHANGED completed
    /\ UNCHANGED <<life, slots, request, succeeded, stream, requested>>

ReleaseOnSuccess(h) ==
    /\ Goto(h, "counted", "free")
    /\ slots' = IF succeeded[h] THEN slots + 1 ELSE slots
    /\ UNCHANGED <<life, counters, request, succeeded, stream, requested>>

Release(h) ==
    /\ Goto(h, "counted", "free")
    /\ slots' = slots + 1
    /\ UNCHANGED <<life, counters, request, succeeded, stream, requested>>

Bookkeep(h) ==
    Check(h) \/ Refuse(h) \/ Acquire(h) \/ Count(h) \/ Uncount(h) \/ Release(h)

Compute(h) == Malformed(h) \/ LockStream(h) \/ UnlockStream(h)

Next ==
    \/ Open \/ Serve \/ StopServing \/ Close \/ Stopped
    \/ \E h \in Handlers : Receive(h) \/ Bookkeep(h) \/ Compute(h)

(* A thread that only has bookkeeping to do does it.  How long MLX takes   *)
(* with a tile is not the worker's to say.                                 *)
Spec == Init /\ [][Next]_vars /\ \A h \in Handlers : WF_vars(Bookkeep(h))

----------------------------------------------------------------------------
(* The types of the worker's variables: a slot count outside 0 .. Slots is *)
(* a semaphore released or taken once too often.                           *)
TypeOK ==
    /\ owner \in {"new", "opened", "started", "stopping", "closing", "stopped"}
    /\ accepting \in BOOLEAN /\ serving \in BOOLEAN
    /\ slots \in 0 .. Slots
    /\ active \in Nat /\ completed \in Nat /\ failed \in Nat
    /\ pc \in [Handlers -> {"free", "received", "checked", "admitted", "executing",
                            "computing", "executed", "counted"}]
    /\ request \in [Handlers -> Requests]
    /\ succeeded \in [Handlers -> BOOLEAN]
    /\ stream \in Handlers \cup {Nobody}
    /\ requested \in Nat

Counting == {h \in Handlers : pc[h] \in {"executing", "computing", "executed"}}
Holding == Counting \cup {h \in Handlers : pc[h] \in {"admitted", "counted"}}

(* Each slot is free or held by one thread, on every path out of a tile:   *)
(* no more tiles execute than the worker has slots, and none is lost.      *)
SlotsConserved == slots + Cardinality(Holding) = Slots

(* What a health report can show at any moment: the active requests are    *)
(* the tiles under way, and never more than the slots that are taken.      *)
ActiveWithinSlots ==
    /\ active = Cardinality(Counting)
    /\ active + slots <= Slots

(* If MLX returns from every tile, then once requests stop coming the      *)
(* worker is idle again, with all of its slots.                            *)
AllSlotsReturn ==
    (\A h \in Handlers : WF_vars(Compute(h)))
        => <>[](slots = Slots /\ active = 0)

(* However long tiles take, a worker with more threads than slots always   *)
(* comes back to having a thread for a health check or a refusal.          *)
HealthStaysResponsive ==
    Cardinality(Handlers) > Slots => []<>(\E h \in Handlers : pc[h] = "free")
=============================================================================
