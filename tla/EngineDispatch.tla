--------------------------- MODULE EngineDispatch ---------------------------
(***************************************************************************)
(* Where a join runs (core.py): threads of one process call the engine,    *)
(* which resolves the device of each call from its arguments and from the  *)
(* tuning sidecar, enters an MLX stream context, chooses between a custom  *)
(* Metal kernel and the portable reducer, reports what it chose if it is   *)
(* asked to, computes, and leaves the context.  The default device of MLX  *)
(* belongs to the process: entering a context replaces it, leaving it puts *)
(* back the one found on entry.                                            *)
(***************************************************************************)
EXTENDS TuningKeys

CONSTANTS Callers, Calls,       \* the threads, and the joins they ask for
          Sidecars,             \* the sets of records there may be
          Homes,                \* MLX's default device, "gpu" only with Metal
          MetalAvailable,
          DefaultTile,          \* the default max_tile_size on each device
          Tiles,                \* the operations of one computation
          MaxCalls              \* bound

ASSUME DispatchAssumption ==
    /\ Homes \subseteq {"cpu", "gpu"} /\ MetalAvailable \in BOOLEAN
    /\ ~MetalAvailable => Homes = {"cpu"}
    /\ Tiles \in Nat \ {0} /\ MaxCalls \in Nat

ASSUME CallsAssumption ==
    \A call \in Calls : /\ call.join.length_a \in Int /\ call.join.length_b \in Int
                        /\ call.join.m \in Int

(* The autotuner saves no record of a sum without a density: it refuses to *)
(* time one (_autotune_sum_threshold).                                     *)
ASSUME SidecarsAssumption ==
    \A sidecar \in Sidecars : \A r \in sidecar :
        r.key.profile = "sum_thresh" => r.key.bucket # <<"density", None>>

VARIABLES device,       \* mx.default_device()
          records,      \* the sidecar
          caller,       \* what each thread is doing
          events,       \* what the sink of the execution events was given
          operation_id, \* the next of _EXECUTION_OPERATION_IDS
          calls,
          home,         \* history: the default device at first
          nested        \* history: two contexts have been open at once

vars == <<device, records, caller, events, operation_id, calls, home, nested>>

Idle == [pc |-> "idle"]
Busy == {c \in Callers : caller[c].pc # "idle"}

Init ==
    /\ home \in Homes /\ device = home
    /\ records \in Sidecars
    /\ caller = [c \in Callers |-> Idle]
    /\ events = <<>> /\ operation_id = 1
    /\ calls = 0 /\ nested = FALSE

----------------------------------------------------------------------------
(* The arguments.  A call's join describes its series and its profile;     *)
(* gpus is a sequence of device numbers if gpus_given.                     *)
Join(call) == call.join
Subsequences(length, m) == length - m + 1
NA(call) == Subsequences(Join(call).length_a, Join(call).m)
NB(call) == Subsequences(Join(call).length_b, Join(call).m)

(* _parse_common_kwargs: what is refused at once.                          *)
Parses(call) ==
    /\ Join(call).precision \in {"single", "double", "ultra"}
    /\ call.threads >= 0
    /\ Join(call).max_tile_size # None => Join(call).max_tile_size >= 1024
    /\ call.threshold_valid

(* _select_execution_stream and _resolve_execution_stream: a device, "any" *)
(* if it is left as it is, or an error.                                    *)
Selected(call) ==
    CASE ~call.gpus_given -> IF call.threads > 0 THEN "cpu" ELSE "any"
      [] call.gpus_given /\ call.gpus = <<>> -> "cpu"
      [] call.gpus_given /\ call.gpus = <<0>> /\ call.threads = 0 ->
            IF MetalAvailable THEN "gpu" ELSE "error"
      [] OTHER -> "error"

Resolved(call) ==
    CASE Join(call).precision = "single" \/ Selected(call) = "error" -> Selected(call)
      [] Join(call).precision # "single" /\ Selected(call) = "gpu" -> "error"
      [] OTHER -> "cpu"

(* _implicit_tuning_strategy.  The density is sampled only if a record     *)
(* differs from this workload in nothing else.                             *)
LookUp(key) == {r.candidate : r \in {s \in records : s.key = key}}

SampledDensity(call) ==
    IF Join(call).self /\ NA(call) <= SelfJoinExclusion(Join(call).m) THEN 0
    ELSE call.density

WinnersInSidecar(call) ==
    LET join == Join(call)
        unsampled == JoinKey(join, None)
        comparable == {r \in records : [r.key EXCEPT !.bucket = unsampled.bucket] = unsampled}
    IN  IF NA(call) <= 0 \/ NB(call) <= 0 THEN {}
        ELSE IF LookUp(unsampled) # {} \/ join.family # "sum_thresh" THEN LookUp(unsampled)
        ELSE IF comparable = {} \/ SampledDensity(call) = None THEN {}
        ELSE LookUp(JoinKey(join, SampledDensity(call)))

Winners(call) ==
    IF call.gpus_given \/ call.threads > 0 THEN {} ELSE WinnersInSidecar(call)

(* _run_profile_with_resources, as far as the stream context.              *)
Stream(call, strategy) ==
    CASE strategy = {} -> Resolved(call)
      [] strategy # {} /\ \E s \in strategy : s.route = "cpu" -> "cpu"
      [] OTHER -> IF Join(call).precision = "single" /\ MetalAvailable THEN "gpu"
                  ELSE Resolved(call)

CustomRoutes == {CustomRoute(f) : f \in Families \ {"knn"}}

Prepared(call, strategy, stream) ==
    LET on == IF stream = "any" THEN device ELSE stream
    IN  [pc |-> "resolved", call |-> call, stream |-> stream,
         backend |-> IF on = "cpu" THEN "cpu" ELSE "portable_metal",
         use_metal |-> /\ Join(call).precision = "single" /\ on = "gpu" /\ MetalAvailable
                       /\ \A s \in strategy : s.route \in CustomRoutes,
         back |-> "none", custom |-> FALSE, id |-> 0, left |-> 0, ran |-> {},
         failed |-> FALSE, alone |-> Busy = {}]

Resolve(c, call) ==
    /\ caller[c].pc = "idle" /\ calls < MaxCalls /\ calls' = calls + 1
    /\ \/ /\ ~Parses(call) \/ Stream(call, Winners(call)) = "error"
          /\ UNCHANGED caller
       \/ /\ Parses(call) /\ Stream(call, Winners(call)) # "error"
          /\ caller' = [d \in Callers |->
                IF d = c THEN Prepared(call, Winners(call), Stream(call, Winners(call)))
                ELSE IF d \in Busy THEN [caller[d] EXCEPT !.alone = FALSE]
                ELSE caller[d]]
    /\ UNCHANGED <<device, records, events, operation_id, home, nested>>

(* mx.stream, or nullcontext.                                              *)
Inside == {c \in Callers : caller[c].pc \notin {"idle", "resolved"} /\ caller[c].stream # "any"}

Enter(c) ==
    /\ caller[c].pc = "resolved"
    /\ caller' = [caller EXCEPT ![c].pc = "inside", ![c].back = device]
    /\ IF caller[c].stream = "any" THEN UNCHANGED <<device, nested>>
       ELSE device' = caller[c].stream /\ nested' = (nested \/ Inside # {})
    /\ UNCHANGED <<records, events, operation_id, calls, home>>

----------------------------------------------------------------------------
(* _run_profile.                                                           *)
EffectiveTile(call) ==
    IF Join(call).max_tile_size = None THEN DefaultTile[device]
    ELSE Join(call).max_tile_size

Runnable(call) ==
    LET join == Join(call)
    IN  /\ join.m >= 3 /\ EffectiveTile(call) >= 2 * join.m
        /\ NA(call) > 0 /\ NB(call) > 0
        /\ join.family = "bidirectional_ab" => ~join.self
        /\ join.family = "matrix_summary" => join.shape[2] <= NA(call) /\ join.shape[1] <= NB(call)

FitsTile(call) ==
    Join(call).length_a <= EffectiveTile(call) /\ Join(call).length_b <= EffectiveTile(call)

(* _metal_sum_is_worthwhile: at no density, then at the sampled one.       *)
WorthSumming(call) ==
    LET worthwhile(density) ==
            SumIsWorthwhile(NA(call), NB(call), Join(call).m, density, Join(call).self)
    IN  worthwhile(0) /\ call.density # None /\ worthwhile(call.density)

Custom(call) ==
    /\ Join(call).dtype = "float32" /\ FitsTile(call)
    /\ \/ Join(call).family \in {"1nn_index", "1nn_value", "bidirectional_ab"}
       \/ Join(call).family = "sum_thresh" /\ call.threshold >= 0 /\ WorthSumming(call)
       \/ Join(call).family = "matrix_summary" /\ call.indexing_is_safe
    /\ call.recurrence_is_safe

Report(c, phase, backend) ==
    events' = Append(events, [id |-> caller'[c].id, phase |-> phase, backend |-> backend,
                              caller |-> c])

BackendAskedFor(c, custom) ==
    IF caller[c].use_metal THEN "custom_metal" ELSE caller[c].backend

BackendOf(c, custom) == IF custom THEN "custom_metal" ELSE caller[c].backend

(* The geometry is chosen, and the start reported if the call is verbose.  *)
Decide(c) ==
    LET call == caller[c].call
        custom == caller[c].use_metal /\ Custom(call)
    IN  /\ caller[c].pc = "inside"
        /\ IF ~Runnable(call)
           THEN /\ caller' = [caller EXCEPT ![c].pc = "leaving", ![c].failed = TRUE]
                /\ UNCHANGED <<events, operation_id>>
           ELSE /\ caller' = [caller EXCEPT ![c].pc = "computing", ![c].custom = custom,
                                 ![c].left = IF custom THEN 1 ELSE Tiles,
                                 ![c].id = IF call.verbose THEN operation_id ELSE 0]
                /\ IF call.verbose
                   THEN /\ operation_id' = operation_id + 1
                        /\ Report(c, "start", BackendOf(c, custom))
                   ELSE UNCHANGED <<events, operation_id>>
        /\ UNCHANGED <<device, records, calls, home, nested>>

(* A kernel names its stream; a portable operation goes to the default     *)
(* device of the moment, and MLX refuses float64 on a GPU.  Any operation  *)
(* may fail.                                                               *)
Compute(c) ==
    LET on == IF caller[c].custom THEN "gpu" ELSE device
        refused == on = "gpu" /\ Join(caller[c].call).precision # "single"
    IN  /\ caller[c].pc = "computing" /\ caller[c].left > 0 /\ ~caller[c].failed
        /\ \E fails \in BOOLEAN :
              /\ refused => fails
              /\ caller' = [caller EXCEPT ![c].left = @ - 1, ![c].ran = @ \cup {on},
                                          ![c].failed = fails]
        /\ UNCHANGED <<device, records, events, operation_id, calls, home, nested>>

(* _execute_with_reporting: the end, good or bad, after a synchronisation. *)
EndIfGood(c) ==
    /\ caller[c].pc = "computing" /\ (caller[c].left = 0 \/ caller[c].failed)
    /\ caller' = [caller EXCEPT ![c].pc = "leaving"]
    /\ IF caller[c].call.verbose /\ ~caller[c].failed
       THEN Report(c, "complete", BackendOf(c, caller[c].custom))
       ELSE UNCHANGED events
    /\ UNCHANGED <<device, records, operation_id, calls, home, nested>>

End(c) ==
    /\ caller[c].pc = "computing" /\ (caller[c].left = 0 \/ caller[c].failed)
    /\ caller' = [caller EXCEPT ![c].pc = "leaving"]
    /\ IF caller[c].call.verbose
       THEN Report(c, IF caller[c].failed THEN "error" ELSE "complete",
                   BackendOf(c, caller[c].custom))
       ELSE UNCHANGED events
    /\ UNCHANGED <<device, records, operation_id, calls, home, nested>>

(* The context is left however the call ended.                             *)
LeaveIfGood(c) ==
    /\ caller[c].pc = "leaving"
    /\ caller' = [caller EXCEPT ![c] = Idle]
    /\ device' = IF caller[c].stream = "any" \/ caller[c].failed THEN device ELSE caller[c].back
    /\ UNCHANGED <<records, events, operation_id, calls, home, nested>>

Leave(c) ==
    /\ caller[c].pc = "leaving"
    /\ caller' = [caller EXCEPT ![c] = Idle]
    /\ device' = IF caller[c].stream = "any" THEN device ELSE caller[c].back
    /\ UNCHANGED <<records, events, operation_id, calls, home, nested>>

Next ==
    \E c \in Callers :
        \/ \E call \in Calls : Resolve(c, call)
        \/ Enter(c) \/ Decide(c) \/ Compute(c) \/ End(c) \/ Leave(c)

Spec == Init /\ [][Next]_vars

----------------------------------------------------------------------------
(* The device a call is promised, by the documentation of its arguments:   *)
(* double precision is for the CPU, an explicit choice has authority, a    *)
(* cached winner for the workload comes next, and without any of these the *)
(* default device is used.  Without Metal there is only the CPU.           *)
Promised(call) ==
    LET found == {r \in records : r.key = JoinKey(Join(call), SampledDensity(call))}
    IN  IF Join(call).precision # "single" \/ ~MetalAvailable THEN "cpu"
        ELSE IF call.gpus_given THEN IF call.gpus = <<>> THEN "cpu" ELSE "gpu"
        ELSE IF call.threads > 0 THEN "cpu"
        ELSE IF found = {} THEN home
        ELSE IF \E r \in found : r.candidate.route = "cpu" THEN "cpu" ELSE "gpu"

(* A call that no other overlaps computes on the device promised, all of   *)
(* it, whatever earlier calls did and however they ended.                  *)
RunsWherePromised ==
    ~nested =>
        \A c \in Busy :
            caller[c].alone => caller[c].ran \subseteq {Promised(caller[c].call)}

(* What verbose reports of such a call is what happens: the backend it     *)
(* names is the one used, after every fallback.                            *)
ReportsAreHonest ==
    ~nested =>
        \A i \in DOMAIN events :
            LET c == events[i].caller
            IN  c \in Busy /\ caller[c].id = events[i].id /\ caller[c].alone =>
                    /\ (events[i].backend = "custom_metal") = caller[c].custom
                    /\ caller[c].ran \subseteq {IF events[i].backend = "cpu" THEN "cpu" ELSE "gpu"}

(* Unless two contexts were open at once, the default device is the one of *)
(* the beginning whenever no context is open.                              *)
DefaultDeviceComesBack == ~nested /\ Inside = {} => device = home

(* Whatever overlaps: starts are reported in the order of their numbers,   *)
(* and an operation that is over, well or with an Exception (interrupts are*)
(* not in the model), has been reported as over, once.                     *)
EventsPairUp ==
    LET starts == {i \in DOMAIN events : events[i].phase = "start"}
        ends(i) == {j \in DOMAIN events : events[j].id = events[i].id /\ j \notin starts}
    IN  /\ \A i \in starts : events[i].id = Cardinality({j \in starts : j <= i})
        /\ \A i \in starts :
              IF \E c \in Busy : caller[c].pc = "computing" /\ caller[c].id = events[i].id
              THEN ends(i) = {}
              ELSE Cardinality(ends(i)) = 1 /\ \A j \in ends(i) : i < j

(* README.md: "Double and ultra precision remain entirely on MLX CPU."     *)
DoubleStaysOnCPU ==
    \A c \in Busy : Join(caller[c].call).precision # "single" => "gpu" \notin caller[c].ran
=============================================================================
