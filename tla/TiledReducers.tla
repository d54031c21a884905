---------------------------- MODULE TiledReducers ---------------------------
(***************************************************************************)
(* The portable reducers of core.py: best match per column (and per row,   *)
(* in both directions), sum above a threshold, matrix summary and k nearest*)
(* neighbours.  Each traverses the same tiles of the matrix of correlations*)
(* and keeps a compact state; the model runs them side by side.  The tile  *)
(* shape is computed from the memory budget, and at most two tiles are     *)
(* left to the lazy evaluation of MLX.                                     *)
(***************************************************************************)
EXTENDS TileExecution

CONSTANTS Jobs,             \* the joins, with their matrix and parameters
          InFlightTiles     \* MAX_IN_FLIGHT_SIMILARITY_TILES

ASSUME ReducersAssumption == InFlightTiles \in Nat \ {0}

(* Sizes and limits that _parse_common_kwargs lets through, and a matrix of*)
(* correlations.                                                           *)
ASSUME JobsAssumption ==
    \A j \in Jobs :
        /\ {j.rows, j.columns, j.k, j.height, j.width, j.row_cap, j.max_subsequences,
            j.budget, j.axis_bytes, j.cell_bytes} \subseteq Nat \ {0}
        /\ j.exclusion \in Nat /\ j.threshold \in Int /\ j.self_join \in BOOLEAN
        /\ \A r \in Positions(0, j.rows), c \in Positions(0, j.columns) :
              LET v == j.sim[<<r, c>>]
              IN  v = InvalidValue \/ (v \in Int /\ IsCorrelation(v))

VARIABLES job,          \* the join and what is asked of it
          row_start, col_start,     \* the next tile's corner
          column_best, row_best,    \* the best match of each column and row
          sums,         \* for each column, its sum above the threshold
          summary,      \* the matrix of maxima over bins
          nearest,      \* for each column, its k nearest so far
          pending       \* ReducerScheduler.pending

corner == <<row_start, col_start>>
reducers == <<column_best, row_best, sums, summary, nearest>>
vars == <<job, corner, reducers, pending>>

Rows == Positions(0, job.rows)
Columns == Positions(0, job.columns)
Bins == Positions(0, job.height) \X Positions(0, job.width)

Cell(r, c) == MaskedCell(job.sim, job.exclusion, r, c)

Least(a, b) == IF a <= b THEN a ELSE b

----------------------------------------------------------------------------
(* _portable_tile_shape.  The bytes of one more row or column of windows   *)
(* and of a cell are parameters of the join.                               *)
IntegerSqrt(n) == CHOOSE s \in 0 .. n : s * s <= n /\ (s + 1) * (s + 1) > n

TileRowsIgnoringCells(j) ==
    Min({j.rows, j.max_subsequences, j.row_cap,
         Max({1, j.budget \div (4 * j.axis_bytes)})})

TileRows(j) ==
    Min({j.rows, j.max_subsequences, j.row_cap,
         Max({1, j.budget \div (4 * j.axis_bytes)}),
         Max({1, IntegerSqrt(Max({1, j.budget \div (4 * j.cell_bytes)}))})})

TileColumns(j) ==
    LET remaining == Max({0, j.budget - TileRows(j) * j.axis_bytes})
        each      == j.axis_bytes + TileRows(j) * j.cell_bytes
    IN  Min({j.columns, j.max_subsequences, Max({1, remaining \div each})})

(* _estimate_similarity_tile_bytes.                                        *)
TileBytes(j, rows, columns) ==
    (rows + columns) * j.axis_bytes + rows * columns * j.cell_bytes

(* The tile at the corner.                                                 *)
row_end == Least(job.rows, row_start + TileRows(job))
col_end == Least(job.columns, col_start + TileColumns(job))
InTile(r, c) == row_start <= r /\ r < row_end /\ col_start <= c /\ c < col_end

----------------------------------------------------------------------------
Unranked == [i \in 1 .. job.k |-> Sentinel]

Init ==
    /\ job \in Jobs
    /\ row_start = 0 /\ col_start = 0
    /\ column_best = [c \in Columns |-> Sentinel]
    /\ row_best = [r \in Rows |-> Sentinel]
    /\ sums = [c \in Columns |-> 0]
    /\ summary = [b \in Bins |-> InvalidValue]
    /\ nearest = [c \in Columns |-> Unranked]
    /\ pending = 0

(* max and argmax along one axis of the tile, and a strict update.         *)
LocalWinner(f, start) ==
    LET best == Max(Range(f))
    IN  [value |-> best, index |-> Min({p \in DOMAIN f : f[p] = best}) - start]

Winner(f, start) ==
    LET best == Max(Range(f))
    IN  [value |-> best, index |-> Min({p \in DOMAIN f : f[p] = best})]

UpdatedOnTies(current, new) == IF new.value >= current.value THEN new ELSE current

Updated(current, new) == IF new.value > current.value THEN new ELSE current

ReduceBest ==
    /\ column_best' =
          [c \in Columns |->
              IF col_start <= c /\ c < col_end
              THEN Updated(column_best[c],
                           Winner([r \in Positions(row_start, row_end) |-> Cell(r, c)], row_start))
              ELSE column_best[c]]
    /\ row_best' =
          [r \in Rows |->
              IF row_start <= r /\ r < row_end
              THEN Updated(row_best[r],
                           Winner([c \in Positions(col_start, col_end) |-> Cell(r, c)], col_start))
              ELSE row_best[r]]

(* The values above the threshold are added up, per column.                *)
Total(c, rows) ==
    MapThenSumSet(LAMBDA r : Cell(r, c), {r \in rows : Cell(r, c) > job.threshold})

ReduceSumFromScratch ==
    sums' = [c \in Columns |->
                IF col_start <= c /\ c < col_end
                THEN Total(c, Positions(row_start, row_end)) ELSE sums[c]]

ReduceSum ==
    sums' = [c \in Columns |->
                IF col_start <= c /\ c < col_end
                THEN sums[c] + Total(c, Positions(row_start, row_end)) ELSE sums[c]]

(* Bin i of count over n positions is [Edge(i), Edge(i + 1)).  A self-join *)
(* counts the cells on and above the diagonal.                             *)
FloorEdge(i, n, count) == (i * n) \div count

Edge(i, n, count) == (i * n + count - 1) \div count

InBin(bin, r, c) ==
    /\ Edge(bin[1], job.rows, job.height) <= r
    /\ r < Edge(bin[1] + 1, job.rows, job.height)
    /\ Edge(bin[2], job.columns, job.width) <= c
    /\ c < Edge(bin[2] + 1, job.columns, job.width)

ReduceSummary ==
    summary' =
        [bin \in Bins |->
            Max({summary[bin]} \cup
                {Cell(p[1], p[2]) : p \in
                    {p \in Positions(row_start, row_end) \X Positions(col_start, col_end) :
                        InBin(bin, p[1], p[2]) /\ (job.self_join => p[1] <= p[2])}})]

(* _topk_corr_then_smallest_index: two stable sorts, by index and by       *)
(* descending value.                                                       *)
Outranks(e, f) == e.value > f.value \/ (e.value = f.value /\ e.index < f.index)

Before(entries, p) ==
    {q \in DOMAIN entries :
        Outranks(entries[q], entries[p]) \/ (entries[q] = entries[p] /\ q < p)}

TopK(entries, k) ==
    [i \in 1 .. Least(k, Len(entries)) |->
        entries[CHOOSE p \in DOMAIN entries : Cardinality(Before(entries, p)) = i - 1]]

LocalTop(c) ==
    TopK([i \in 1 .. row_end - row_start |->
             [value |-> Cell(row_start + i - 1, c), index |-> row_start + i - 1]], job.k)

MergedInTileSize(current, local) == 
    TopK(current \o local, Len(local)) \o SubSeq(current, Len(local) + 1, Len(current))

Merged(current, local) == TopK(current \o local, Len(current))

ReduceNearest ==
    nearest' = [c \in Columns |->
                   IF col_start <= c /\ c < col_end
                   THEN Merged(nearest[c], LocalTop(c)) ELSE nearest[c]]

(* ReducerScheduler.schedule: at the limit everything is waited for.       *)
Schedule == pending' = IF pending + 1 >= InFlightTiles THEN 0 ELSE pending + 1

(* The next tile is below, or at the top of the next columns.              *)
NextTile ==
    IF row_end < job.rows
    THEN row_start' = row_end /\ UNCHANGED col_start
    ELSE row_start' = 0 /\ col_start' = col_end

Reduce ==
    /\ col_start < job.columns
    /\ ReduceBest /\ ReduceSum /\ ReduceSummary /\ ReduceNearest
    /\ Schedule /\ NextTile
    /\ UNCHANGED job

(* ReducerScheduler.finish.                                                *)
Finish ==
    /\ col_start = job.columns
    /\ pending > 0 /\ pending' = 0
    /\ UNCHANGED <<job, corner, reducers>>

Next == Reduce \/ Finish

Spec == Init /\ [][Next]_vars

(* The ranks at which _knn_profile reports a match of a column.            *)
Reported(c) ==
    LET e(i) == nearest[c][i]
        passes(i) == e(i).value > job.threshold /\ e(i).value >= -Scale /\ e(i).index >= 0
    IN  {i \in 1 .. job.k :
            passes(i) /\ \A h \in 1 .. i - 1 : passes(h) => e(h).index # e(i).index}

----------------------------------------------------------------------------
(* The types, of all but the job, which never changes.  No best match is a *)
(* masked cell with a row: the strict update never takes one for a match.  *)
TypeOK ==
    /\ row_start \in Rows /\ col_start \in 0 .. job.columns
    /\ column_best \in [Columns -> ProperEntry]
    /\ row_best \in [Rows -> ProperEntry]
    /\ sums \in [Columns -> Int]
    /\ \A b \in Bins : summary[b] = InvalidValue \/ IsCorrelation(summary[b])
    /\ \A c \in Columns : Len(nearest[c]) = job.k
    /\ pending \in 0 .. InFlightTiles - 1

(* The cells of the tiles that have been reduced.                          *)
Seen(r, c) == c < col_start \/ (c < col_end /\ r < row_start)

SeenEntries(places, cell(_)) ==
    {e \in {[value |-> cell(p), index |-> p] : p \in places} : e.value # InvalidValue}

(* After every tile each column and each row holds its best match of what  *)
(* has been seen, at the lowest index of a tie, in both directions: tiles  *)
(* come column by column, and a tie must not go to the tile seen first but *)
(* to the lower index.                                                     *)
BestIsFirst ==
    /\ \A c \in Columns :
          IsBestOf(column_best[c], SeenEntries({r \in Rows : Seen(r, c)}, LAMBDA r : Cell(r, c)))
    /\ \A r \in Rows :
          IsBestOf(row_best[r], SeenEntries({c \in Columns : Seen(r, c)}, LAMBDA c : Cell(r, c)))

(* After every tile each column's sum is that of what has been seen above  *)
(* the threshold, once.                                                    *)
SumIsComplete ==
    \A c \in Columns :
        sums[c] = Total(c, {r \in Rows : Seen(r, c)})

(* Every cell counts in the bin its row and column scale down to and in no *)
(* other, however tiles and bins cut each other.                           *)
BinOf(r, c) == <<(r * job.height) \div job.rows, (c * job.width) \div job.columns>>

SummaryIsBinned ==
    \A bin \in Bins :
        LET counted == {p \in Rows \X Columns :
                           /\ Seen(p[1], p[2]) /\ BinOf(p[1], p[2]) = bin
                           /\ job.self_join => p[1] <= p[2]}
        IN  summary[bin] = Max({InvalidValue} \cup {Cell(p[1], p[2]) : p \in counted})

(* What is reported of a column is its k best matches above the threshold  *)
(* among what has been seen, all of them if there are fewer, best first    *)
(* and the lower index first among equals; whatever the tiles' height.     *)
NearestAreNearest ==
    \A c \in Columns :
        LET matches == {r \in Rows : Seen(r, c) /\ Cell(r, c) > job.threshold
                                        /\ Cell(r, c) # InvalidValue}
            rank(r) == Cardinality({s \in matches :
                          Outranks([value |-> Cell(s, c), index |-> s],
                                   [value |-> Cell(r, c), index |-> r])}) + 1
        IN  /\ Reported(c) = 1 .. Least(job.k, Cardinality(matches))
            /\ \A r \in matches :
                  rank(r) <= job.k =>
                      nearest[c][rank(r)] = [value |-> Cell(r, c), index |-> r]

(* A tile of more than one row or column is within the budget.             *)
ShapeIsAffordable ==
    TileRows(job) * TileColumns(job) > 1
        => TileBytes(job, TileRows(job), TileColumns(job)) <= job.budget

=============================================================================
