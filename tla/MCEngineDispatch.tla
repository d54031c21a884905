-------------------------- MODULE MCEngineDispatch --------------------------
(***************************************************************************)
(* Two threads and a machine with Metal; calls that choose a device, that  *)
(* leave it to the sidecar or to the default, and that are refused.        *)
(***************************************************************************)
EXTENDS EngineDispatch

CONSTANTS c1, c2
MCCallers == {c1, c2}

Ask(w) ==
    [join |-> Benchmark(w), gpus_given |-> FALSE, gpus |-> <<>>, threads |-> 0,
     verbose |-> TRUE, threshold |-> 0, threshold_valid |-> TRUE, density |-> None,
     indexing_is_safe |-> TRUE, recurrence_is_safe |-> TRUE]

Single == Workload("1nn_index", "single", 512, 512, 64, TRUE)
Double == Workload("1nn_index", "double", 512, 512, 64, TRUE)
Sum == [Workload("sum_thresh", "single", 4096, 4096, 96, TRUE) EXCEPT !.density = 30]
Knn == Workload("knn", "single", 384, 512, 48, FALSE)
Matrix == Workload("matrix_summary", "single", 512, 384, 64, FALSE)

SingleCall == Ask(Single)
DoubleCall == Ask(Double)
QuietDouble == [Ask(Double) EXCEPT !.verbose = FALSE, !.join.precision = "ultra"]
OnCPU == [SingleCall EXCEPT !.gpus_given = TRUE]
OnThreads == [Ask(Knn) EXCEPT !.threads = 2]
OnGPU == [SingleCall EXCEPT !.gpus_given = TRUE, !.gpus = <<0>>, !.join.dtype = "other"]
DoubleOnGPU == [DoubleCall EXCEPT !.gpus_given = TRUE, !.gpus = <<0>>]
TooLong == [SingleCall EXCEPT !.join.length_a = 1100, !.join.length_b = 1100,
                              !.join.max_tile_size = 1024]
TooWide == [Ask(Matrix) EXCEPT !.join.shape = <<16, 600>>, !.gpus_given = TRUE]
SparseSum == [Ask(Sum) EXCEPT !.density = 31]
DenseSum == [Ask(Sum) EXCEPT !.density = 120]

MCCalls ==
    {SingleCall, DoubleCall, QuietDouble, OnCPU, OnThreads, OnGPU, DoubleOnGPU, TooLong,
     TooWide, SparseSum, DenseSum, Ask(Matrix)}

Win(w, route) ==
    [key |-> Key(w),
     candidate |-> CHOOSE s \in Strategies : s.profile = w.profile /\ s.route = route]

MCSidecars ==
    {{}, {Win(Single, "cpu"), Win(Double, "cpu"), Win(Knn, "portable_metal")},
     {Win(Single, "metal_1nn"), Win(Sum, "metal_sum"), Win(Matrix, "cpu")},
     {Win(Single, "portable_metal"), Win([Sum EXCEPT !.density = 100], "cpu")}}

MCDefaultTile == [d \in {"cpu", "gpu"} |-> IF d = "cpu" THEN 131072 ELSE 524288]
=============================================================================
