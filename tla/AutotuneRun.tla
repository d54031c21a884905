----------------------------- MODULE AutotuneRun -----------------------------
(***************************************************************************)
(* The tuner (_autotune.py, run_autotune): for each workload of a plan it  *)
(* computes a reference on the CPU, benchmarks every eligible strategy,    *)
(* rejects one whose result differs or whose run fails, and saves the      *)
(* fastest of the others.  An execution may be right, differ from the      *)
(* reference in its values, in its indices or in its structure, raise an   *)
(* exception the tuner expects, or one it does not.                        *)
(***************************************************************************)
EXTENDS TuningKeys

CONSTANTS Plans,        \* [workloads, warmups, trials]
          Elapsed,      \* what the clock may say of one run
          Estimates,    \* the density at each threshold, for some inputs
          Halvings,     \* of the interval of thresholds, 16 in the code
          MaxDuration, MaxTrials

ASSUME RunAssumption ==
    /\ Elapsed \subseteq Int /\ Halvings \in Nat /\ MaxDuration \in Nat /\ MaxTrials \in Nat
    /\ 2^Halvings \in Nat /\ Estimates \subseteq [0..2^Halvings -> 0..1000]

ASSUME PlansAssumption ==
    \A p \in Plans :
        /\ p.workloads \in Seq({p.workloads[i] : i \in DOMAIN p.workloads})
        /\ \A i \in DOMAIN p.workloads :
              LET w == p.workloads[i]
              IN  /\ w.n_a \in Int /\ w.n_b \in Int /\ w.m \in Int
                  /\ w.self \in BOOLEAN /\ w.aligned \in BOOLEAN

VARIABLES plan,
          pc,           \* what the tuner does next
          at,           \* the workload, by its place in the plan
          estimate,     \* what sampling this workload's input would say
          tried,        \* the strategies it is done with, or at
          runs,         \* the runs of the strategy it is at: warm-ups, samples
          measurements, \* the accepted strategies and their medians
          saved,        \* the records written, in order
          streaks       \* history: of each strategy tried, the runs, or Flawed

tuner == <<plan, pc, at, estimate, tried, runs, measurements, saved, streaks>>

NoRuns == [warm |-> 0, samples |-> <<>>]

Flawed == -1            \* one of its runs was not as it should have been

TunerInit ==
    /\ plan \in Plans
    /\ pc = "validate" /\ at = 1
    /\ estimate \in Estimates
    /\ tried = <<>> /\ runs = NoRuns /\ measurements = {}
    /\ saved = <<>> /\ streaks = <<>>

Workloads == plan.workloads
Now == Workloads[at]

----------------------------------------------------------------------------
(* _describe_strategy: CPU before portable before custom.                  *)
BackendRank(s) == CASE s.route = "cpu" -> 0
                    [] s.route = "portable_metal" -> 1
                    [] OTHER -> 2

Cap(s) == IF s.cap = None THEN DefaultRowCap ELSE s.cap

Cheaper(s, t) ==
    \/ Cap(s) < Cap(t)
    \/ Cap(s) = Cap(t) /\ BackendRank(s) < BackendRank(t)

(* _eligible_strategies, in the order of the manifest.                     *)
Eligible(w) == {s \in Strategies : Suits(s, w.profile, w.precision, w.route)}

Earlier(s, t) ==
    \/ BackendRank(s) < BackendRank(t)
    \/ BackendRank(s) = BackendRank(t) /\ Cap(s) < Cap(t)

(* _autotune_sum_threshold: halve the interval, keeping the density at its *)
(* upper end at most the one aimed at.                                     *)
Halved(interval, target) ==
    LET mid == (interval.lower + interval.upper) \div 2
    IN  IF estimate[mid] > Representative(target)
        THEN [interval EXCEPT !.lower = mid] ELSE [interval EXCEPT !.upper = mid]

Calibrated(target) ==
    LET halve[i \in 0..Halvings] ==
            IF i = 0 THEN [lower |-> 0, upper |-> 2^Halvings]
            ELSE Halved(halve[i - 1], target)
    IN  halve[Halvings].upper

(* The density it is timed at, None without the threshold of a sum.        *)
TimedDensity(w) ==
    IF w.profile = "sum_thresh" THEN estimate[Calibrated(w.density)] ELSE None

CalibrationFails(w) ==
    /\ w.profile = "sum_thresh"
    /\ w.density = None \/ DensityBucket(TimedDensity(w)) # DensityBucket(w.density)

(* _autotune_execute_candidate: what it refuses, and what else may happen. *)
Refused(w, s) ==
    \/ CalibrationFails(w)
    \/ s.route # "cpu" /\ w.precision # "single"
    \/ s.route = "metal_sum" /\ ~SumIsWorthwhile(w.n_a, w.n_b, w.m, TimedDensity(w), w.self)

ValueOnly == {"1nn_value", "sum_thresh", "matrix_summary"}

Outcomes(w, s) ==
    IF Refused(w, s) THEN {"error"}
    ELSE {"right", "values differ", "malformed", "error", "fatal"}
         \cup IF w.profile \in ValueOnly THEN {} ELSE {"indices differ"}

(* _assert_result_equivalent: values within a tolerance, indices exactly.  *)
EquivalentInValues(outcome) == outcome \in {"right", "indices differ"}

Equivalent(outcome) == outcome = "right"

----------------------------------------------------------------------------
Goto(place) == pc' = place
Raise == Goto("raised")

(* _validate_plan.                                                         *)
ValidPlan ==
    /\ plan.warmups \in Nat /\ plan.trials \in Nat \ {0} /\ Workloads # <<>>
    /\ \A i \in DOMAIN Workloads : ValidWorkload(Workloads[i])
    /\ \A i, j \in DOMAIN Workloads : i # j => Key(Workloads[i]) # Key(Workloads[j])

Validate ==
    /\ pc = "validate"
    /\ IF ValidPlan THEN Goto("reference") ELSE Raise
    /\ UNCHANGED <<plan, at, estimate, tried, runs, measurements, saved, streaks>>

(* The reference: the CPU with the smallest row cap.                       *)
ReferenceStrategy(w) ==
    CHOOSE s \in Strategies :
        /\ s.profile = w.profile /\ s.route = "cpu"
        /\ \A t \in Strategies : t.profile = w.profile /\ t.route = "cpu" => ~Cheaper(t, s)

Reference ==
    /\ pc = "reference"
    /\ \/ Eligible(Now) = {} /\ Raise
       \/ /\ Eligible(Now) # {}
          /\ \E outcome \in Outcomes(Now, ReferenceStrategy(Now)) \cap {"right", "error", "fatal"} :
                IF outcome = "right" THEN Goto("candidate") ELSE Raise
    /\ UNCHANGED <<plan, at, estimate, tried, runs, measurements, saved, streaks>>

Untried == {s \in Eligible(Now) : \A i \in DOMAIN tried : tried[i] # s}

NextCandidate ==
    /\ pc = "candidate" /\ Untried # {}
    /\ tried' = Append(tried, CHOOSE s \in Untried : \A t \in Untried : ~Earlier(t, s))
    /\ runs' = NoRuns /\ streaks' = Append(streaks, 0)
    /\ Goto("run")
    /\ UNCHANGED <<plan, at, estimate, measurements, saved>>

(* The k-th smallest of the samples, and statistics.median, rounded down.  *)
Smallest(k, samples) ==
    CHOOSE x \in {samples[i] : i \in DOMAIN samples} :
        /\ Cardinality({i \in DOMAIN samples : samples[i] < x}) < k
        /\ Cardinality({i \in DOMAIN samples : samples[i] <= x}) >= k

Median(samples) ==
    LET n == Len(samples)
    IN  IF n % 2 = 1 THEN Smallest((n + 1) \div 2, samples)
        ELSE (Smallest(n \div 2, samples) + Smallest(n \div 2 + 1, samples)) \div 2

Strategy == tried[Len(tried)]

(* The strategy is rejected, and the next one tried.                       *)
Reject ==
    /\ Goto("candidate")
    /\ UNCHANGED <<plan, at, estimate, tried, runs, measurements, saved>>

Propagate ==
    /\ Raise
    /\ UNCHANGED <<plan, at, estimate, tried, runs, measurements, saved>>

(* What an observer of the run notes, whatever the tuner makes of it.      *)
Observe(flawless) ==
    streaks' = [streaks EXCEPT ![Len(tried)] =
                   IF flawless /\ @ # Flawed THEN @ + 1 ELSE Flawed]

(* _measure_candidate.                                                     *)
WarmUp ==
    /\ pc = "run" /\ runs.warm < plan.warmups
    /\ \E outcome \in Outcomes(Now, Strategy) :
          /\ Observe(outcome = "right")
          /\ IF outcome = "fatal" THEN Propagate
             ELSE IF ~Equivalent(outcome) THEN Reject
             ELSE /\ runs' = [runs EXCEPT !.warm = @ + 1]
                  /\ UNCHANGED <<plan, pc, at, estimate, tried, measurements, saved>>

(* A clock that has not moved is an error the tuner expects, too.          *)
Trial ==
    /\ pc = "run" /\ runs.warm = plan.warmups /\ Len(runs.samples) < plan.trials
    /\ \E outcome \in Outcomes(Now, Strategy), elapsed \in Elapsed :
          /\ Observe(outcome = "right" /\ elapsed > 0)
          /\ IF outcome = "fatal" THEN Propagate
             ELSE IF elapsed <= 0 \/ ~Equivalent(outcome) THEN Reject
             ELSE /\ runs' = [runs EXCEPT !.samples = Append(@, elapsed)]
                  /\ UNCHANGED <<plan, pc, at, estimate, tried, measurements, saved>>

Accept ==
    /\ pc = "run" /\ runs.warm = plan.warmups /\ Len(runs.samples) = plan.trials
    /\ measurements' = measurements \cup
          {[strategy |-> Strategy, duration |-> Median(runs.samples)]}
    /\ runs' = NoRuns
    /\ Goto("candidate")
    /\ UNCHANGED <<plan, at, estimate, tried, saved, streaks>>

(* The least by duration, then by resources; names never decide.           *)
Faster(x, y) ==
    \/ x.duration < y.duration
    \/ x.duration = y.duration /\ Cheaper(x.strategy, y.strategy)

Winner == CHOOSE x \in measurements : \A y \in measurements : ~Faster(y, x)

Record ==
    [key |-> Key(Now), candidate |-> Winner.strategy, duration |-> Winner.duration,
     trials |-> plan.trials]

(* new_record refuses a record that would not be loaded again; the writer  *)
(* may fail.                                                               *)
Save ==
    /\ pc = "candidate" /\ Untried = {}
    /\ \/ /\ measurements # {} /\ Accepted(Record, MaxDuration, MaxTrials)
          /\ saved' = Append(saved, Record)
          /\ measurements' = {} /\ tried' = <<>> /\ streaks' = <<>>
          /\ IF at = Len(Workloads)
             THEN Goto("done") /\ UNCHANGED <<at, estimate>>
             ELSE Goto("reference") /\ at' = at + 1 /\ estimate' \in Estimates
       \/ Raise /\ UNCHANGED <<at, estimate, tried, measurements, saved, streaks>>
    /\ UNCHANGED <<plan, runs>>

TunerNext == Validate \/ Reference \/ NextCandidate \/ WarmUp \/ Trial \/ Accept \/ Save

TunerSpec == TunerInit /\ [][TunerNext]_tuner

----------------------------------------------------------------------------
(* Whenever the next strategy or the winner is chosen, those that compete  *)
(* are the ones tried that gave the reference's result in every warm-up and*)
(* in every trial, and whose every trial took some time: one wrong index,  *)
(* in a warm-up even, is not outweighed by speed, what became of one       *)
(* strategy does not tell on another, and none is rejected for anything    *)
(* but a wrong result, an error or a clock that has not moved.             *)
Flawless == {tried[i] : i \in {j \in DOMAIN tried : streaks[j] = plan.warmups + plan.trials}}

OnlyRightOnesCompete ==
    pc = "candidate" => {x.strategy : x \in measurements} = Flawless

(* What is saved is of use: a join like the benchmark, which the engine    *)
(* describes by the lengths of its series, its flags and a density of its  *)
(* own sampling, looks for this very key, the sidecar's reader accepts the *)
(* record, no other strategy would have been as fast for less, and it does *)
(* not replace the record of a workload before.                            *)
SavedIsOfUse ==
    [][Len(saved') > Len(saved) =>
          LET r == saved'[Len(saved')]
          IN  /\ r.key = JoinKey(Benchmark(Now), TimedDensity(Now))
              /\ Accepted(r, MaxDuration, MaxTrials)
              /\ \A i \in DOMAIN saved : saved[i].key # r.key
              /\ \A x \in measurements :
                    \/ x.duration > r.duration
                    \/ x.duration = r.duration /\ ~Cheaper(x.strategy, r.candidate)]_tuner
=============================================================================
