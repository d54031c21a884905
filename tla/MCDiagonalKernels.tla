-------------------------- MODULE MCDiagonalKernels --------------------------
(***************************************************************************)
(* Joins of at most five positions in 4-bit arithmetic, with every         *)
(* assignment of correlations, invalid ones among them, to their cells.    *)
(***************************************************************************)
EXTENDS DiagonalKernels, TLC

CONSTANT NoCell

(* Patterns: 0, 1 and 2 for +0, +1, +2; 9 for -1.                          *)
Corrs(cells, n_a, n_b, values) ==
    {[x \in (0 .. n_b - 1) \X (0 .. n_a - 1) |-> IF x \in cells THEN f[x] ELSE NoCell] :
        f \in [cells -> values]}

Cells(n_a, n_b, self, exclusion) ==
    {x \in (0 .. n_b - 1) \X (0 .. n_a - 1) :
        /\ Distance(x[1], x[2]) >= exclusion
        /\ self => x[1] <= x[2]}

JobsOf(kind, n_a, n_b, self, exclusion, rows, cols, values) ==
    {[kind |-> kind, n_a |-> n_a, n_b |-> n_b, m |-> 3, self |-> self,
      exclusion |-> exclusion, rows |-> rows, cols |-> cols, threshold |-> 0, corr |-> f] :
        f \in Corrs(Cells(n_a, n_b, self, exclusion), n_a, n_b, values)}

MCJobs ==
    UNION {
        UNION {JobsOf(k, 3, 3, TRUE, 1, 1, 1, {0, 1, 9, NoCell})
               \cup JobsOf(k, 4, 4, TRUE, 2, 1, 1, {0, 1, 9, NoCell})
               \cup JobsOf(k, 2, 2, TRUE, 2, 1, 1, {0}) : k \in {"1nn", "1nn_value", "sum"}},
        UNION {JobsOf(k, 2, 2, FALSE, 0, 1, 1, {0, 1, 9, NoCell})
               \cup JobsOf(k, 3, 3, FALSE, 2, 1, 1, {1, 9}) : k \in {"1nn", "bidirectional"}},
        JobsOf("bidirectional", 3, 2, FALSE, 0, 1, 1, {1, NoCell}),
        JobsOf("1nn", 5, 5, FALSE, 3, 1, 1, {1, 9}),
        JobsOf("1nn", 4, 4, TRUE, 1, 1, 1, {1, NoCell}),
        JobsOf("sum", 2, 3, FALSE, 0, 1, 1, {1, 2}),
        JobsOf("matrix", 3, 2, FALSE, 0, 2, 2, {0, 1, 9}),
        JobsOf("matrix", 5, 5, TRUE, 3, 3, 2, {1, 9, NoCell}),
        JobsOf("matrix", 4, 5, FALSE, 3, 4, 3, {1, 9, NoCell}),
        JobsOf("matrix", 5, 5, FALSE, 4, 2, 2, {1, 9}),
        JobsOf("matrix", 5, 5, TRUE, 3, 5, 4, {1, 9})}
=============================================================================
