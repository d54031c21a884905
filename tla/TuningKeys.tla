----------------------------- MODULE TuningKeys -----------------------------
(***************************************************************************)
(* What a tuning record is about: the strategies of the manifest, the      *)
(* workloads and the key of the bucket a workload falls into, and which    *)
(* records are accepted (_autotune_cache.py; the workloads and the         *)
(* built-in plans are those of _autotune.py).  Digests, names and versions *)
(* are left out; densities are in thousandths.                             *)
(***************************************************************************)
EXTENDS Integers, Sequences, FiniteSets

None == -1           \* of a number; the shape that is None is <<>>

Families == {"1nn_index", "1nn_value", "sum_thresh", "matrix_summary", "knn",
             "bidirectional_ab"}

(* _strategies.                                                            *)
RowCaps == {64, 128, 256}
DefaultRowCap == 256                \* of a strategy without parameters
CustomRoute(f) == CASE f \in {"1nn_index", "1nn_value"} -> "metal_1nn"
                    [] f = "bidirectional_ab" -> "metal_bidirectional"
                    [] f = "sum_thresh" -> "metal_sum"
                    [] f = "matrix_summary" -> "metal_matrix"

Strategies ==
    [profile : Families, route : {"cpu", "portable_metal"}, cap : RowCaps]
    \cup {[profile |-> f, route |-> CustomRoute(f), cap |-> None] :
             f \in Families \ {"knn"}}

----------------------------------------------------------------------------
(* The buckets.                                                            *)
Exponents == 0..30

PowerBucket(value) ==
    CHOOSE e \in Exponents : value <= 2^e /\ \A d \in Exponents : d < e => 2^d < value

AspectBucket(n_a, n_b, self) ==
    IF self THEN <<"self", 0>>
    ELSE IF n_a >= n_b
         THEN <<"a", CHOOSE e \in Exponents :
                        n_a <= n_b * 2^e /\ (e = 0 \/ n_b * 2^(e - 1) < n_a)>>
         ELSE <<"b", CHOOSE e \in Exponents :
                        n_b <= n_a * 2^e /\ (e = 0 \/ n_a * 2^(e - 1) < n_b)>>

DensityUppers == <<20, 50, 200, 500, 1000>>

DensityBucket(density) ==
    CHOOSE i \in DOMAIN DensityUppers :
        /\ density <= DensityUppers[i]
        /\ i = 1 \/ DensityUppers[i - 1] < density

(* _density_bucket_representative: where a benchmark aims.                 *)
Representative(density) ==
    LET i == DensityBucket(density)
    IN  IF i = 1 THEN DensityUppers[1] ELSE (DensityUppers[i - 1] + DensityUppers[i]) \div 2

----------------------------------------------------------------------------
(* make_workload_key; density, k and shape may be None, and are looked at  *)
(* only for the family that has them.                                      *)
ValidWorkload(w) ==
    /\ w.profile \in Families /\ w.precision \in {"single", "double", "ultra"}
    /\ w.n_a > 0 /\ w.n_b > 0 /\ w.m > 0
    /\ w.self => w.n_a = w.n_b /\ ~w.aligned /\ w.profile # "bidirectional_ab"
    /\ w.tile # None => w.tile > 0
    /\ w.profile = "knn" => w.k # None /\ w.k > 0
    /\ w.profile = "matrix_summary" =>
          w.shape # <<>> /\ w.shape[1] > 0 /\ w.shape[2] > 0
    /\ w.profile = "sum_thresh" /\ w.density # None => w.density \in 0..1000

ProfileBucket(w) ==
    CASE w.profile = "sum_thresh" ->
            IF w.density = None THEN <<"density", None>>
            ELSE <<"density", DensityBucket(w.density)>>
      [] w.profile = "knn" -> <<"k", PowerBucket(w.k)>>
      [] w.profile = "matrix_summary" ->
            <<"cells", PowerBucket(w.shape[1] * w.shape[2]),
              AspectBucket(w.shape[2], w.shape[1], FALSE)>>
      [] OTHER -> <<"default">>

Alignment(w) == IF w.self THEN "self" ELSE IF w.aligned THEN "aligned" ELSE "none"

MakeWorkloadKey(w, route, dtype) ==
    [profile |-> w.profile,
     precision |-> IF w.precision = "ultra" THEN "double" ELSE w.precision,
     route |-> route,
     join |-> IF w.self THEN "self" ELSE "ab",
     alignment |-> Alignment(w),
     work |-> PowerBucket(w.n_a * w.n_b),
     window |-> PowerBucket(w.m),
     aspect |-> AspectBucket(w.n_a, w.n_b, w.self),
     dtype |-> dtype,
     tile |-> IF w.tile = None THEN None ELSE PowerBucket(w.tile),
     bucket |-> ProfileBucket(w)]

(* _record_from_dict: the records that are saved, and loaded again.        *)
Suits(strategy, profile, precision, route) ==
    /\ strategy.profile = profile
    /\ precision # "single" => strategy.route = "cpu"
    /\ route = "cpu" => strategy.route = "cpu"
    /\ route = "metal" => strategy.route # "cpu"

Accepted(record, max_duration, max_trials) ==
    /\ record.candidate \in Strategies
    /\ Suits(record.candidate, record.key.profile, record.key.precision, record.key.route)
    /\ (record.key.join = "self") = (record.key.alignment = "self")
    /\ record.duration \in 1..max_duration
    /\ record.trials \in 1..max_trials

----------------------------------------------------------------------------
(* AutotuneWorkload.key.                                                   *)
DtypeOf(w) == IF w.precision = "single" THEN "float32" ELSE "float64"

KeyByRoute(w) == MakeWorkloadKey(w, w.route, DtypeOf(w))

Key(w) == MakeWorkloadKey(w, "auto", DtypeOf(w))

(* _workload.                                                              *)
Workload(profile, precision, n_a, n_b, m, self) ==
    [profile |-> profile, precision |-> precision, n_a |-> n_a, n_b |-> n_b, m |-> m,
     self |-> self, aligned |-> FALSE, route |-> "auto", tile |-> None,
     density |-> IF profile = "sum_thresh" THEN 100 ELSE None,
     k |-> IF profile = "knn" THEN 4 ELSE None,
     shape |-> IF profile = "matrix_summary" THEN <<16, 16>> ELSE <<>>]

QuickWorkloads ==
    UNION {{Workload("1nn_index", p, 512, 512, 64, TRUE),
            Workload("1nn_index", p, 384, 512, 48, FALSE),
            Workload("1nn_value", p, 384, 384, 48, TRUE),
            Workload("1nn_value", p, 384, 512, 48, FALSE),
            Workload("sum_thresh", p, 512, 512, 64, TRUE),
            Workload("sum_thresh", p, 384, 512, 64, FALSE),
            Workload("matrix_summary", p, 384, 384, 48, TRUE),
            Workload("matrix_summary", p, 512, 384, 64, FALSE),
            Workload("knn", p, 384, 384, 48, TRUE),
            Workload("knn", p, 384, 512, 48, FALSE)} : p \in {"single", "double"}}

FullWorkloads ==
    QuickWorkloads
    \cup {Workload("1nn_index", "single", 4096, 4096, 128, TRUE),
          Workload("1nn_value", "double", 2048, 512, 96, FALSE),
          [Workload("sum_thresh", "single", 4096, 4096, 96, TRUE) EXCEPT !.density = 30],
          [Workload("sum_thresh", "double", 1024, 2048, 64, FALSE) EXCEPT !.density = 500],
          [Workload("matrix_summary", "single", 2048, 1024, 64, FALSE) EXCEPT !.shape = <<16, 64>>],
          [Workload("knn", "double", 1024, 1024, 64, TRUE) EXCEPT !.k = 32],
          Workload("bidirectional_ab", "single", 1536, 768, 64, FALSE),
          Workload("bidirectional_ab", "double", 768, 1536, 64, FALSE)}
    \cup {[Workload(f, p, 768, 768, 64, FALSE) EXCEPT !.aligned = TRUE] :
             f \in Families, p \in {"single", "double"}}

(* autotune_plan: the keys of the built-in plans are valid and all differ. *)
UsableWorkloads(workloads) ==
    /\ \A w \in workloads : ValidWorkload(w) /\ Key(w).profile \in Families
    /\ \A v, w \in workloads : v # w => Key(v) # Key(w)

ASSUME BuiltInPlansAreUsable ==
    UsableWorkloads(QuickWorkloads) /\ UsableWorkloads(FullWorkloads)

----------------------------------------------------------------------------
(* The key under which the engine looks for a join (core.py,               *)
(* _implicit_tuning_strategy).  A join names the lengths of its series, not*)
(* the counts of its subsequences; threshold_density is None until it has  *)
(* been sampled.                                                           *)
JoinKey(join, threshold_density) ==
    MakeWorkloadKey(
        [profile |-> join.family, precision |-> join.precision,
         n_a |-> join.length_a - join.m + 1, n_b |-> join.length_b - join.m + 1,
         m |-> join.m, self |-> join.self,
         aligned |-> ~join.self /\ ~join.allow_trivial_match,
         tile |-> join.max_tile_size, density |-> threshold_density,
         k |-> join.k, shape |-> join.shape],
        "auto", join.dtype)

(* The join a benchmark executes (_autotune_execute_candidate).            *)
Benchmark(w) ==
    [family |-> w.profile, precision |-> w.precision,
     length_a |-> w.n_a + w.m - 1, length_b |-> w.n_b + w.m - 1, m |-> w.m,
     self |-> w.self, allow_trivial_match |-> ~w.aligned,
     max_tile_size |-> w.tile, k |-> w.k, shape |-> w.shape, dtype |-> DtypeOf(w)]

----------------------------------------------------------------------------
(* _metal_sum_workload_is_worthwhile: whether the sparse kernel is expected*)
(* to win at this density.                                                 *)
SelfJoinExclusion(m) == (m + 3) \div 4

Comparisons(n_a, n_b, m, self) ==
    LET active == IF n_a > SelfJoinExclusion(m) THEN n_a - SelfJoinExclusion(m) ELSE 0
    IN  IF self THEN (active * (active + 1)) \div 2 ELSE n_a * n_b

Elongated(n_a, n_b) == n_a <= 0 \/ n_b <= 0 \/ n_a > 2 * n_b \/ n_b > 2 * n_a

Million == 1000000

LeastComparisons(density, self) ==
    IF self THEN IF density <= 50 THEN 8 * Million
                 ELSE IF density <= 180 THEN 12 * Million ELSE 40 * Million
    ELSE IF density <= 50 THEN 144 * Million ELSE 625 * Million

SumIsWorthwhile(n_a, n_b, m, density, self) ==
    LET least == LeastComparisons(density, self)
    IN  /\ self \/ ~Elongated(n_a, n_b)
        /\ density <= IF self THEN 350 ELSE 180
        /\ Comparisons(n_a, n_b, m, self) >=
              IF m < 32 THEN least * 2
              ELSE IF m < 64 THEN (least * 3) \div 2 ELSE least
=============================================================================
