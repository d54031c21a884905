-------------------------- MODULE MCTiledReducers ---------------------------
(***************************************************************************)
(* Small joins under budgets for tiles from one cell to the whole matrix.  *)
(* Correlations are -1, 0 and 1 or invalid, so that ties, flat windows and *)
(* values at the threshold are everywhere.                                 *)
(***************************************************************************)
EXTENDS TiledReducers, TLC

Join(rows, columns, sim, self, exclusion) ==
    [rows |-> rows, columns |-> columns, sim |-> sim, self_join |-> self,
     exclusion |-> exclusion, axis_bytes |-> 2, cell_bytes |-> 1]

Asked(k, threshold, height, width) ==
    [k |-> k, threshold |-> threshold, height |-> height, width |-> width]

Shaped(budget, cap, longest) ==
    [budget |-> budget, row_cap |-> cap, max_subsequences |-> longest]

(* Every matrix of three rows and two columns with ties and invalid cells. *)
ABJoins ==
    {Join(3, 2, sim, FALSE, 0) @@ Asked(2, t, 2, 1) @@ s :
        sim \in [(0 .. 2) \X (0 .. 1) -> {-2, -1, 1}],
        t \in {-1, 0}, s \in {Shaped(1, 9, 9), Shaped(17, 9, 9)}}

(* Self-joins of four windows, the nearest ones excluded.                   *)
Mirror(upper) == [p \in (0 .. 3) \X (0 .. 3) |->
                     IF p[1] = p[2] THEN 1
                     ELSE IF p[1] < p[2] THEN upper[p] ELSE upper[<<p[2], p[1]>>]]

Above == {p \in (0 .. 3) \X (0 .. 3) : p[1] < p[2]}

SelfJoins ==
    {Join(4, 4, Mirror(upper), TRUE, 1) @@ Asked(2, -1, 3, 2) @@ s :
        upper \in [Above -> {-2, 0, 1}],
        s \in {Shaped(17, 9, 9), Shaped(40, 3, 3), Shaped(64, 1, 9)}}

(* One matrix, and every shape and every way to bin it; cells that cost    *)
(* less or more than the windows they join.                                *)
Cost(axis, cell) == [axis_bytes |-> axis, cell_bytes |-> cell]

Tied ==
    [p \in (0 .. 3) \X (0 .. 4) |->
        IF p[1] = 3 THEN -2 ELSE IF (p[1] + p[2]) % 2 = 0 THEN 1 ELSE 0]

Shapes ==
    {c @@ Join(4, 5, Tied, FALSE, e) @@ Asked(k, t, h, w) @@ Shaped(b, cap, longest) :
        e \in {0, 2}, k \in {1, 3}, t \in {-1, 0}, h \in {1, 3, 5}, w \in {2, 7},
        <<b, c>> \in {<<9, Cost(2, 1)>>, <<24, Cost(1, 6)>>, <<64, Cost(2, 1)>>,
                       <<99, Cost(1, 6)>>},
        cap \in {3, 4}, longest \in {2, 9}}

MCJobs == ABJoins \cup SelfJoins \cup Shapes
=============================================================================
