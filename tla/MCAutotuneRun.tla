---------------------------- MODULE MCAutotuneRun ----------------------------
(***************************************************************************)
(* Small plans: a sum that Metal may win, and one it may not; a profile    *)
(* with seven candidates; plans that are refused, at once or on the way.   *)
(***************************************************************************)
EXTENDS AutotuneRun

SparseSum == [Workload("sum_thresh", "single", 4096, 4096, 96, TRUE)
                 EXCEPT !.density = 30, !.route = "metal"]
Nearest == Workload("knn", "ultra", 384, 512, 48, FALSE)
Indexed == Workload("1nn_index", "single", 512, 512, 64, TRUE)
OnMetal == [Workload("bidirectional_ab", "single", 64, 48, 8, FALSE)
               EXCEPT !.route = "metal", !.aligned = TRUE]
Impossible == [Nearest EXCEPT !.route = "metal", !.k = 9]
DenseSum == [Workload("sum_thresh", "double", 384, 512, 64, FALSE) EXCEPT !.tile = 2048]
Matrix == [Workload("matrix_summary", "double", 512, 384, 64, FALSE) EXCEPT !.shape = <<16, 64>>]

Plan(workloads, warmups, trials) ==
    [workloads |-> workloads, warmups |-> warmups, trials |-> trials]

MCPlans ==
    {Plan(<<SparseSum, Nearest>>, 1, 2), Plan(<<Indexed>>, 0, 1),
     Plan(<<OnMetal, Impossible>>, 1, 1), Plan(<<Matrix, [Matrix EXCEPT !.route = "cpu"]>>, 0, 3),
     Plan(<<DenseSum, Matrix>>, 1, 3), Plan(<<Nearest>>, 0, 4), Plan(<<>>, 0, 1)}

(* The density falls as the threshold rises; it never is below 5 in 256.   *)
Falling(high, low, knee) == [x \in 0..16 |-> IF x < knee THEN high ELSE low]

MCEstimates ==
    {[x \in 0..16 |-> 1000 - 61 * x], Falling(1000, 35, 5), Falling(100, 19, 11),
     Falling(400, 150, 16)}

=============================================================================
