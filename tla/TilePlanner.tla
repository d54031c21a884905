---------------------------- MODULE TilePlanner -----------------------------
(***************************************************************************)
(* plan_1nn_tiles of distributed/coordinator.py, and a caller that         *)
(* exhausts the plan's iterator: the arguments are validated, the largest  *)
(* safe tile size is found by bisection, the requested size is checked     *)
(* against it, and the tiles are generated one at a time.                  *)
(***************************************************************************)
EXTENDS TileGrid

CONSTANTS Requests,     \* the argument records plan_1nn_tiles is called with
          None          \* an optional argument that is not given

(* What a caller may pass.  Positive limits and dimensions are not assumed:*)
(* the code checks them.                                                   *)
RequestType ==
    [rows : Int, columns : Int, window : Int, self_join : BOOLEAN,
     keep_rows : BOOLEAN, tile_size : Int \cup {None},
     exclusion_zone : Int \cup {None}, max_tile_bytes : Int,
     max_message_bytes : Int]

ASSUME RequestsAssumption == Requests \subseteq RequestType
ASSUME NoneAssumption == None \notin Int

VARIABLES args,         \* the arguments of this call
          pc,           \* where the call is
          low, high,    \* the bisection's bounds, still to be decided
          best,         \* the largest size found to fit
          plan,         \* the plan's dimensions, once they are resolved
          total,        \* the plan's total_tiles
          row_start, column_start,      \* the iterator's position
          tiles         \* the tiles it has yielded

planning == <<args, pc, low, high, best, plan, total, row_start, column_start, tiles>>
search == <<low, high, best>>
iterator == <<row_start, column_start, tiles>>

NoPlan == [rows |-> 0, columns |-> 0, tile_size |-> 1, exclusion_zone |-> 0,
           self_join |-> FALSE, keep_rows |-> FALSE]

Longest(a) == Greatest(a.rows, a.columns)

ExclusionZone(a) ==
    IF a.exclusion_zone # None THEN a.exclusion_zone
    ELSE IF a.self_join THEN (a.window + 3) \div 4 ELSE 0

Valid(a) ==
    /\ a.rows > 0 /\ a.columns > 0
    /\ a.window >= 3
    /\ a.max_tile_bytes > 0 /\ a.max_message_bytes > 0
    /\ a.self_join => a.rows = a.columns
    /\ ExclusionZone(a) >= 0

PlannerInit ==
    /\ args \in Requests
    /\ pc = "validate"
    /\ low = 1 /\ high = 0 /\ best = 0
    /\ plan = NoPlan /\ total = 0
    /\ row_start = 0 /\ column_start = 0 /\ tiles = <<>>

Reject ==
    /\ pc = "validate"
    /\ ~Valid(args)
    /\ pc' = "rejected"
    /\ UNCHANGED <<args, search, plan, total, iterator>>

Accept ==
    /\ pc = "validate"
    /\ Valid(args)
    /\ pc' = "search"
    /\ high' = Longest(args)
    /\ UNCHANGED <<args, low, best, plan, total, iterator>>

----------------------------------------------------------------------------
(* One turn of the loop of _maximum_safe_tile_size.                        *)
StepOntoMisfit(candidate) == candidate
StepPastTwo(candidate) == candidate - 2

NextHigh(candidate) == candidate - 1

Halve ==
    /\ pc = "search"
    /\ low <= high
    /\ LET candidate == (low + high) \div 2
       IN  IF Fits(args, candidate)
           THEN best' = candidate /\ low' = candidate + 1 /\ UNCHANGED high
           ELSE high' = NextHigh(candidate) /\ UNCHANGED <<best, low>>
    /\ UNCHANGED <<args, pc, plan, total, iterator>>

Maximum == Least(best, Longest(args))

RequestedSize ==
    IF args.tile_size = None THEN Maximum ELSE Least(args.tile_size, Longest(args))

(* The requested size is refused when it is not positive or is not safe,   *)
(* and so is a job in which no size is safe.                               *)
SizeAllowedUnchecked ==
    Maximum > 0 /\ RequestedSize > 0

SizeAllowed ==
    Maximum > 0 /\ RequestedSize > 0 /\ RequestedSize <= Maximum

RefuseSize ==
    /\ pc = "search"
    /\ low > high
    /\ ~SizeAllowed
    /\ pc' = "rejected"
    /\ UNCHANGED <<args, search, plan, total, iterator>>

Resolve ==
    /\ pc = "search"
    /\ low > high
    /\ SizeAllowed
    /\ plan' = [rows |-> args.rows, columns |-> args.columns,
                tile_size |-> RequestedSize, exclusion_zone |-> ExclusionZone(args),
                self_join |-> args.self_join, keep_rows |-> args.keep_rows]
    /\ total' = TotalTiles(plan')
    /\ pc' = "iterate"
    /\ UNCHANGED <<args, search, iterator>>

----------------------------------------------------------------------------
FirstColumnOfRectangle(row) == 0

FirstColumn(row) == IF plan.self_join THEN row ELSE 0

(* The generator yields a tile and moves to the next corner.               *)
Yield ==
    /\ pc = "iterate"
    /\ row_start < plan.rows
    /\ tiles' = Append(tiles, TileAt(plan, Len(tiles), row_start, column_start))
    /\ IF column_start + plan.tile_size < plan.columns
       THEN /\ column_start' = column_start + plan.tile_size
            /\ UNCHANGED row_start
       ELSE /\ row_start' = row_start + plan.tile_size
            /\ column_start' = FirstColumn(row_start')
    /\ UNCHANGED <<args, pc, search, plan, total>>

Exhaust ==
    /\ pc = "iterate"
    /\ row_start >= plan.rows
    /\ pc' = "exhausted"
    /\ UNCHANGED <<args, search, plan, total, iterator>>

PlannerNext == Reject \/ Accept \/ Halve \/ RefuseSize \/ Resolve \/ Yield \/ Exhaust

PlannerSpec == PlannerInit /\ [][PlannerNext]_planning /\ WF_planning(PlannerNext)

----------------------------------------------------------------------------
Sizes(from, to) == from .. to

(* The bisection never discards the answer: every size below low fits and  *)
(* every size above high does not, so the size it ends with is the largest *)
(* that fits both limits, or zero when none does.                          *)
BisectionKeepsAnswer ==
    pc \in {"search", "iterate"} =>
        /\ best = low - 1
        /\ high <= Longest(args)
        /\ \A s \in Sizes(1, best) : Fits(args, s)
        /\ \A s \in Sizes(high + 1, Longest(args)) : ~Fits(args, s)

(* How many of the tiles give position a match in the column profile, and  *)
(* in the row profile.                                                     *)
ColumnTimes(position, match) ==
    Cardinality({k \in DOMAIN tiles :
        /\ Covers(tiles[k].column_start, tiles[k].column_stop, position)
        /\ Covers(tiles[k].row_start, tiles[k].row_stop, match)})

RowTimes(position, match) ==
    Cardinality({k \in DOMAIN tiles :
        /\ tiles[k].compute_rows
        /\ Covers(tiles[k].row_start, tiles[k].row_stop, position)
        /\ Covers(tiles[k].column_start, tiles[k].column_stop, match)})

(* Every comparison of the join is made exactly once, and the comparisons  *)
(* of a self-join once for either end: by a column slice, or by the row    *)
(* slice of the tile that stands for its transpose.  The tiles come in row *)
(* order, and are as many as the progress reports were told before there   *)
(* was one.                                                                *)
EveryPairOnce ==
    pc = "exhausted" =>
        /\ tiles = Tiles(plan) /\ Len(tiles) = total
        /\ \A r \in 0 .. plan.rows - 1, c \in 0 .. plan.columns - 1 :
              IF plan.self_join
              THEN ColumnTimes(c, r) + RowTimes(c, r) = 1
              ELSE /\ ColumnTimes(c, r) = 1
                   /\ RowTimes(r, c) = IF plan.keep_rows THEN 1 ELSE 0

(* No tile of a plan, whatever size the caller asked for and however the   *)
(* edge clips it, needs more memory than a worker allows or a larger       *)
(* message than a channel carries.                                         *)
TilesWithinLimits ==
    \A k \in DOMAIN tiles :
        LET rows    == tiles[k].row_stop - tiles[k].row_start
            columns == tiles[k].column_stop - tiles[k].column_start
        IN  /\ rows > 0 /\ columns > 0
            /\ WorkingSetBytes(rows, columns, args.window) <= args.max_tile_bytes
            /\ MessageBytes(rows, columns, args.window, tiles[k].compute_rows)
                  <= args.max_message_bytes

(* A call ends: the bisection's interval shrinks at every turn and the     *)
(* iterator runs off the last row.                                         *)
PlanningEnds == <>(pc \in {"rejected", "exhausted"})
=============================================================================
