----------------------------- MODULE WorkerTile -----------------------------
(***************************************************************************)
(* What a worker computes for one tile: execute_1nn_tile of                *)
(* distributed/execution.py.  It finds the trivial matches of the block,   *)
(* not at all where there can be none, in 32-bit integers on the device    *)
(* where they suffice, and otherwise on the host; and reduces the rest     *)
(* along both directions.  Cells are counted from the tile's corner.       *)
(***************************************************************************)
EXTENDS TileExecution

CONSTANT IntMax         \* int32.max

ASSUME IntMaxAssumption == IntMax \in Nat \ {0}

(* int32 wraps, and so does the absolute value of its minimum.             *)
Word(x) == ((x + IntMax + 1) % (2 * (IntMax + 1))) - (IntMax + 1)

Magnitude(x) == IF x < 0 THEN -x ELSE x

RowCount(tile) == tile.row_stop - tile.row_start
ColumnCount(tile) == tile.column_stop - tile.column_start
BaseDelta(tile) == tile.row_start - tile.column_start

Separated(tile, zone) ==
    \/ tile.row_start >= tile.column_stop + zone - 1
    \/ tile.column_start >= tile.row_stop + zone - 1

FitsWord(tile, zone) ==
    /\ -IntMax - 1 < BaseDelta(tile) - (ColumnCount(tile) - 1)
    /\ BaseDelta(tile) + (RowCount(tile) - 1) <= IntMax
    /\ zone <= IntMax

OnDevice(tile, zone, r, c) ==
    Word(Magnitude(Word(Word(Word(r) - Word(c)) + Word(BaseDelta(tile))))) < Word(zone)

OnHost(tile, zone, r, c) == Magnitude(BaseDelta(tile) + r - c) < zone

Masked(tile, zone, r, c) ==
    /\ zone # 0 /\ ~Separated(tile, zone)
    /\ IF FitsWord(tile, zone) THEN OnDevice(tile, zone, r, c) ELSE OnHost(tile, zone, r, c)

BlockCell(sim, zone, tile, row, column) ==
    IF Masked(tile, zone, row - tile.row_start, column - tile.column_start)
    THEN InvalidValue ELSE sim[<<row, column>>]

----------------------------------------------------------------------------
RowsOf(tile) == Positions(tile.row_start, tile.row_stop)
ColumnsOf(tile) == Positions(tile.column_start, tile.column_stop)

ColumnBest(sim, zone, tile, column) ==
    FirstBest([r \in RowsOf(tile) |-> BlockCell(sim, zone, tile, r, column)], RowsOf(tile))

RowBest(sim, zone, tile, row) ==
    FirstBest([c \in ColumnsOf(tile) |-> BlockCell(sim, zone, tile, row, c)], ColumnsOf(tile))

(* One direction of the result: best[position] for each position of the    *)
(* tile from start up to stop.                                             *)
SliceOf(best, start, stop) ==
    [offset  |-> start,
     typed   |-> TRUE,
     values  |-> [i \in 1 .. stop - start |-> best[start + i - 1].value],
     indices |-> [i \in 1 .. stop - start |-> best[start + i - 1].index]]

ColumnSlice(sim, zone, tile) ==
    SliceOf([c \in ColumnsOf(tile) |-> ColumnBest(sim, zone, tile, c)],
            tile.column_start, tile.column_stop)

RowSlice(sim, zone, tile) ==
    SliceOf([r \in RowsOf(tile) |-> RowBest(sim, zone, tile, r)], tile.row_start,
            IF tile.compute_rows THEN tile.row_stop ELSE tile.row_start)

(* The message a worker answers with.                                      *)
TileResult(request, sim, zone, tile) ==
    [request        |-> request,
     column_profile |-> ColumnSlice(sim, zone, tile),
     row_profile    |-> RowSlice(sim, zone, tile)]
=============================================================================
