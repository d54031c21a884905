--------------------------- MODULE MCCoordinator ----------------------------
(***************************************************************************)
(* Three joins whose matrices are full of ties and hold flat windows, cut  *)
(* into tiles of two: a self-join of three tiles, an AB-join that keeps    *)
(* its rows and one that does not.                                         *)
(***************************************************************************)
EXTENDS Coordinator, WorkerTile, TLC

Ring(n) == (0 .. n - 1) \X (0 .. n - 1)

(* Window 3 of this self-join is flat; all the others correlate alike      *)
(* except 0 with 2.                                                        *)
TiedSelf ==
    [p \in Ring(4) |->
        IF 3 \in {p[1], p[2]} THEN InvalidValue
        ELSE IF {p[1], p[2]} = {0, 2} THEN 1 ELSE 0]

TiedAB ==
    [p \in (0 .. 2) \X (0 .. 3) |->
        IF p[1] = p[2] THEN -1 ELSE IF p[2] = 3 THEN InvalidValue ELSE 0]

WithTiles(j) ==
    [tiles |-> Tiles([rows |-> j.rows, columns |-> j.columns, tile_size |-> 2,
                      self_join |-> j.self_join, keep_rows |-> j.keep_rows])]
    @@ j

MCJobs ==
    {WithTiles([name |-> "self", rows |-> 4, columns |-> 4, self_join |-> TRUE, keep_rows |-> FALSE,
                zone |-> 1, sim |-> TiedSelf]),
     WithTiles([rows |-> 3, columns |-> 4, self_join |-> FALSE, keep_rows |-> TRUE,
                name |-> "both", zone |-> 0, sim |-> TiedAB]),
     WithTiles([rows |-> 3, columns |-> 4, self_join |-> FALSE, keep_rows |-> FALSE,
                name |-> "columns", zone |-> 0, sim |-> TiedAB])}

MCSim(j, r, c) == MaskedCell(j.sim, j.zone, r, c)

----------------------------------------------------------------------------
(* The right answer, and answers with one thing wrong that the messages    *)
(* can show: another request's, a slice of another place, of another       *)
(* length, an index outside the tile, and a sentinel with an index.        *)
Right(j, k) == TileResult(k, j.sim, j.zone, j.tiles[k + 1])

Wrong(j, k) ==
    LET a == Right(j, k) IN
    {[a EXCEPT !.request = k + 1],
     [a EXCEPT !.column_profile.typed = FALSE],
     [a EXCEPT !.column_profile.offset = @ + 1],
     [a EXCEPT !.column_profile.values = Append(@, 0)],
     [a EXCEPT !.column_profile.values[1] = 1,
               !.column_profile.indices[1] = j.tiles[k + 1].row_stop],
     [a EXCEPT !.column_profile.values[1] = Scale + 1]}
    \cup
    (IF j.tiles[k + 1].compute_rows
     THEN {[a EXCEPT !.row_profile.indices[1] = j.columns],
           [a EXCEPT !.row_profile.indices = <<>>]}
     ELSE {})

AnswerTable ==
    [name \in {j.name : j \in MCJobs} |->
        LET j == CHOOSE j \in MCJobs : j.name = name
        IN  [k \in 0 .. Len(j.tiles) - 1 |-> {Right(j, k)} \cup Wrong(j, k)]]

MCAnswers(j, k) == AnswerTable[j.name][k]

(* These joins and answers are such as the promise is made for, and the    *)
(* right answers are among those that pass the checks.                     *)
ASSUME PromiseAssumption ==
    \A j \in Jobs :
        /\ WellTiled(j) /\ WellFormed(j) /\ CheckedIsRight(j)
        /\ \A k \in 0 .. Total(j) - 1 :
              Right(j, k) \in Answers(j, k) /\ Checked(j.tiles[k + 1], k, Right(j, k))

(* The masks of blocks of up to three by three cells, on the diagonal and  *)
(* on both sides of it up to where 4-bit integers no longer hold their     *)
(* differences, with zones up to beyond the greatest of these.             *)
Blocks ==
    {[row_start |-> x[1], row_stop |-> x[1] + rows,
      column_start |-> x[2], column_stop |-> x[2] + columns] :
        x \in {y \in (0 .. 10) \X (0 .. 10) : 0 \in {y[1], y[2]}},
        rows \in 1 .. 3, columns \in 1 .. 3}

ASSUME MaskAssumption ==
    \A b \in Blocks, zone \in {0, 1, 2, 3, 6, 7, 8, 9} :
        \A r \in RowsOf(b), c \in ColumnsOf(b) :
            Masked(b, zone, r - b.row_start, c - b.column_start) <=> Trivial(r, c, zone)
=============================================================================
