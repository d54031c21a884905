------------------------------ MODULE TileGrid ------------------------------
(***************************************************************************)
(* The decomposition of a join into tiles: the arithmetic of               *)
(* distributed/coordinator.py and the worker's estimate of a tile's        *)
(* memory.  A plan is a record with the fields of ProfileTilePlan that the *)
(* decomposition reads.                                                    *)
(***************************************************************************)
EXTENDS Integers, Sequences, FiniteSets

Least(a, b) == IF a <= b THEN a ELSE b
Greatest(a, b) == IF a >= b THEN a ELSE b
CeilDiv(a, b) == (a + b - 1) \div b

(* estimate_1nn_tile_working_set_bytes for positive arguments.             *)
WorkingSetBytes(rows, columns, window) ==
    20 * (rows * columns) + 16 * ((rows + columns) * window) + 32 * (rows + columns)

(* The larger of the request, two segments of samples, and the response,   *)
(* a float32 and an int64 for each profile element.                        *)
MessageBytes(rows, columns, window, compute_rows) ==
    Greatest(4096 + 4 * (rows + columns + 2 * (window - 1)),
             4096 + 12 * (columns + (IF compute_rows THEN rows ELSE 0)))

(* Whether square tiles of this size, clipped to the join, fit both limits.*)
Fits(a, size) ==
    LET rows    == Least(a.rows, size)
        columns == Least(a.columns, size)
    IN  /\ WorkingSetBytes(rows, columns, a.window) <= a.max_tile_bytes
        /\ MessageBytes(rows, columns, a.window, a.keep_rows \/ a.self_join)
              <= a.max_message_bytes

(* ProfileTilePlan.__iter__, the tile whose corner is at (row, column).    *)
TileAt(p, ordinal, row, column) ==
    LET row_stop    == Least(p.rows, row + p.tile_size)
        column_stop == Least(p.columns, column + p.tile_size)
        diagonal    == p.self_join /\ row = column /\ row_stop = column_stop
    IN  [ordinal |-> ordinal, row_start |-> row, row_stop |-> row_stop,
         column_start |-> column, column_stop |-> column_stop,
         compute_rows |-> (p.keep_rows \/ p.self_join) /\ ~diagonal]

(* The corners the two nested ranges visit, row by row.                    *)
Corners(p) ==
    {c \in (0 .. p.rows - 1) \X (0 .. p.columns - 1) :
        /\ c[1] % p.tile_size = 0
        /\ c[2] % p.tile_size = 0
        /\ p.self_join => c[1] <= c[2]}

Precedes(c, d) == c[1] < d[1] \/ (c[1] = d[1] /\ c[2] < d[2])

Tiles(p) ==
    LET corner(k) == CHOOSE c \in Corners(p) :
                        Cardinality({d \in Corners(p) : Precedes(d, c)}) = k - 1
    IN  [k \in 1 .. Cardinality(Corners(p)) |->
            TileAt(p, k - 1, corner(k)[1], corner(k)[2])]

TotalTiles(p) ==
    LET tile_rows    == CeilDiv(p.rows, p.tile_size)
        tile_columns == CeilDiv(p.columns, p.tile_size)
    IN  IF p.self_join THEN (tile_rows * (tile_rows + 1)) \div 2
                       ELSE tile_rows * tile_columns

----------------------------------------------------------------------------
Covers(start, stop, position) == start <= position /\ position < stop

InTile(t, row, column) ==
    Covers(t.row_start, t.row_stop, row) /\ Covers(t.column_start, t.column_stop, column)

(* What a merge needs of the tiles of a join: none reaches over its edge,  *)
(* rows are computed where they are kept, and together they hold every     *)
(* pair of positions, in a self-join on either side of the diagonal.       *)
WellTiled(j) ==
    /\ j.self_join => j.rows = j.columns
    /\ \A k \in 1 .. Len(j.tiles) :
          j.tiles[k].row_stop <= j.rows /\ j.tiles[k].column_stop <= j.columns
    /\ ~j.self_join /\ j.keep_rows => \A k \in 1 .. Len(j.tiles) : j.tiles[k].compute_rows
    /\ \A r \in 0 .. j.rows - 1, c \in 0 .. j.columns - 1 :
          \E k \in 1 .. Len(j.tiles) :
             \/ InTile(j.tiles[k], r, c)
             \/ j.self_join /\ j.tiles[k].compute_rows /\ InTile(j.tiles[k], c, r)
=============================================================================
