------------------------- MODULE CoordinatorProofs --------------------------
(***************************************************************************)
(* What holds of distributed/coordinator.py, for every request and every   *)
(* limit: the bisection finds the largest safe size, every tile of a plan  *)
(* is safe, and the tiles hold every pair of positions once; and then of   *)
(* the job that runs a plan, for every answer a worker may give and every  *)
(* number of workers: it returns the profile of the whole join; and of the *)
(* workers (execution.py), whose answers are right and are never refused.  *)
(***************************************************************************)
EXTENDS Coordinator, TilePlanner, WorkerTile, FiniteSetTheorems, WellFoundedInduction, TLAPS

(* A rectangle within another one has no more cells.                       *)
LEMMA AreaIsMonotone ==
    ASSUME NEW r \in Nat, NEW R \in Nat, NEW c \in Nat, NEW C \in Nat, r <= R, c <= C
    PROVE  r * c <= R * C
<1>1. r * c <= R * c
  <2>1. (R - r) * c >= 0
    BY SMT
  <2> QED
    BY <2>1
<1>2. R * c <= R * C
  <2>1. R * (C - c) >= 0
    BY SMT
  <2> QED
    BY <2>1
<1>3. r * c \in Int /\ R * c \in Int /\ R * C \in Int
  OBVIOUS
<1> QED
  BY <1>1, <1>2, <1>3

(* The estimates of memory and of messages grow with a tile, and are       *)
(* larger for one that computes its rows as well.                          *)
LEMMA EstimatesAreMonotone ==
    ASSUME NEW r \in Nat, NEW R \in Nat, NEW c \in Nat, NEW C \in Nat, NEW w \in Nat,
           r <= R, c <= C,
           NEW x \in BOOLEAN, NEW y \in BOOLEAN, x => y
    PROVE  /\ WorkingSetBytes(r, c, w) <= WorkingSetBytes(R, C, w)
           /\ MessageBytes(r, c, w, x) <= MessageBytes(R, C, w, y)
<1>1. WorkingSetBytes(r, c, w) <= WorkingSetBytes(R, C, w)
  <2>1. r * c <= R * C
    BY AreaIsMonotone
  <2>2. (r + c) * w <= (R + C) * w
    <3>1. r + c \in Nat /\ R + C \in Nat /\ r + c <= R + C
      OBVIOUS
    <3> QED
      BY <3>1, AreaIsMonotone
  <2>3. /\ r * c \in Int /\ R * C \in Int
        /\ (r + c) * w \in Int /\ (R + C) * w \in Int
    OBVIOUS
  <2> DEFINE a == r * c
             A == R * C
             b == (r + c) * w
             B == (R + C) * w
  <2>4. a \in Int /\ A \in Int /\ b \in Int /\ B \in Int /\ a <= A /\ b <= B
    BY <2>1, <2>2, <2>3
  <2>5. /\ WorkingSetBytes(r, c, w) = 20 * a + 16 * b + 32 * (r + c)
        /\ WorkingSetBytes(R, C, w) = 20 * A + 16 * B + 32 * (R + C)
    BY DEF WorkingSetBytes
  <2> HIDE DEF a, A, b, B
  <2> QED
    BY <2>4, <2>5
<1>2. MessageBytes(r, c, w, x) <= MessageBytes(R, C, w, y)
  BY DEF MessageBytes, Greatest
<1> QED
  BY <1>1, <1>2

(* A tile size below one that fits fits too, which is what lets            *)
(* _maximum_safe_tile_size bisect.                                         *)
LEMMA FitsIsMonotone ==
    ASSUME NEW a \in RequestType, Valid(a), NEW s \in Nat, NEW t \in Nat, s <= t,
           Fits(a, t)
    PROVE  Fits(a, s)
<1>1. /\ a.rows \in Nat /\ a.columns \in Nat /\ a.window \in Nat
      /\ a.max_tile_bytes \in Nat /\ a.max_message_bytes \in Nat
      /\ a.keep_rows \in BOOLEAN /\ a.self_join \in BOOLEAN
  BY DEF RequestType, Valid
<1> DEFINE r == Least(a.rows, s)
           R == Least(a.rows, t)
           c == Least(a.columns, s)
           C == Least(a.columns, t)
           x == a.keep_rows \/ a.self_join
<1>2. /\ r \in Nat /\ R \in Nat /\ c \in Nat /\ C \in Nat
      /\ r <= R /\ c <= C /\ x \in BOOLEAN
  BY <1>1 DEF Least
<1>3. /\ WorkingSetBytes(R, C, a.window) <= a.max_tile_bytes
      /\ MessageBytes(R, C, a.window, x) <= a.max_message_bytes
  BY DEF Fits
<1> HIDE DEF r, R, c, C, x
<1>4. /\ WorkingSetBytes(r, c, a.window) <= WorkingSetBytes(R, C, a.window)
      /\ MessageBytes(r, c, a.window, x) <= MessageBytes(R, C, a.window, x)
  BY <1>1, <1>2, EstimatesAreMonotone
<1>5. /\ WorkingSetBytes(r, c, a.window) \in Int /\ WorkingSetBytes(R, C, a.window) \in Int
      /\ MessageBytes(r, c, a.window, x) \in Int /\ MessageBytes(R, C, a.window, x) \in Int
  BY <1>1, <1>2 DEF WorkingSetBytes, MessageBytes, Greatest
<1>6. /\ WorkingSetBytes(r, c, a.window) <= a.max_tile_bytes
      /\ MessageBytes(r, c, a.window, x) <= a.max_message_bytes
  BY <1>1, <1>3, <1>4, <1>5
<1> QED
  BY <1>6 DEF Fits, r, c, x
----------------------------------------------------------------------------
TileType ==
    [ordinal : Nat, row_start : Nat, row_stop : Nat, column_start : Nat,
     column_stop : Nat, compute_rows : BOOLEAN]

(* A tile that is not empty and within both limits.                        *)
Safe(tile) ==
    LET rows    == tile.row_stop - tile.row_start
        columns == tile.column_stop - tile.column_start
    IN  /\ rows > 0 /\ columns > 0
        /\ WorkingSetBytes(rows, columns, args.window) <= args.max_tile_bytes
        /\ MessageBytes(rows, columns, args.window, tile.compute_rows)
              <= args.max_message_bytes

(* The inductive invariant.  While the bisection runs, the size below low  *)
(* fits and the one above high does not; monotony extends this to all the  *)
(* sizes they bound.  The plan's size is at most the one found, and the    *)
(* iterator's column is inside the join as long as its row is.             *)
SearchInv ==
    /\ Valid(args)
    /\ low \in Nat \ {0} /\ high \in Nat /\ best = low - 1
    /\ high <= Longest(args) /\ low <= high + 1
    /\ best > 0 => Fits(args, best)
    /\ high < Longest(args) => ~Fits(args, high + 1)

PlanInv ==
    /\ plan.rows = args.rows /\ plan.columns = args.columns
    /\ plan.self_join = args.self_join /\ plan.keep_rows = args.keep_rows
    /\ plan.tile_size \in 1 .. best
    /\ row_start \in Nat /\ column_start \in Nat
    /\ row_start < plan.rows => column_start < plan.columns

PlannerInv ==
    /\ args \in Requests
    /\ pc \in {"validate", "search", "iterate", "rejected", "exhausted"}
    /\ tiles \in Seq(TileType)
    /\ pc \in {"validate", "search"} => row_start = 0 /\ column_start = 0
    /\ pc = "validate" => low = 1 /\ best = 0
    /\ pc \in {"search", "iterate", "exhausted"} => SearchInv
    /\ pc \in {"iterate", "exhausted"} => PlanInv
    /\ \A k \in DOMAIN tiles : Safe(tiles[k])

(* The tile at a position inside the join is safe, because the plan's size *)
(* fits and clipping only makes a tile smaller.                            *)
LEMMA TileIsSafe ==
    ASSUME PlannerInv, pc = "iterate", row_start < plan.rows, NEW n \in Nat
    PROVE  /\ TileAt(plan, n, row_start, column_start) \in TileType
           /\ Safe(TileAt(plan, n, row_start, column_start))
<1>1. SearchInv /\ PlanInv /\ args \in RequestType
  BY RequestsAssumption DEF PlannerInv
<1>2. /\ args.rows \in Nat /\ args.columns \in Nat /\ args.window \in Nat
      /\ args.max_tile_bytes \in Nat /\ args.max_message_bytes \in Nat
      /\ args.keep_rows \in BOOLEAN /\ args.self_join \in BOOLEAN
  BY <1>1 DEF SearchInv, RequestType, Valid
<1>3. /\ plan.rows = args.rows /\ plan.columns = args.columns
      /\ plan.self_join = args.self_join /\ plan.keep_rows = args.keep_rows
      /\ row_start \in Nat /\ column_start \in Nat
      /\ row_start < args.rows /\ column_start < args.columns
      /\ best \in Nat /\ plan.tile_size \in Nat /\ plan.tile_size >= 1
      /\ plan.tile_size <= best /\ best > 0
  BY <1>1, <1>2 DEF SearchInv, PlanInv
<1>4. Fits(args, plan.tile_size)
  BY <1>1, <1>3, FitsIsMonotone DEF SearchInv
<1> DEFINE tile == TileAt(plan, n, row_start, column_start)
           r == tile.row_stop - tile.row_start
           c == tile.column_stop - tile.column_start
           R == Least(args.rows, plan.tile_size)
           C == Least(args.columns, plan.tile_size)
           x == args.keep_rows \/ args.self_join
<1>5. /\ tile.ordinal = n /\ tile.row_start = row_start /\ tile.column_start = column_start
      /\ tile.row_stop = Least(args.rows, row_start + plan.tile_size)
      /\ tile.column_stop = Least(args.columns, column_start + plan.tile_size)
      /\ tile.compute_rows \in BOOLEAN
      /\ tile.compute_rows => x
  BY <1>2, <1>3 DEF TileAt
<1>6. tile \in TileType
  <2>1. tile.row_stop \in Nat /\ tile.column_stop \in Nat
    BY <1>2, <1>3, <1>5 DEF Least
  <2> QED
    BY <1>3, <1>5, <2>1 DEF TileType, TileAt
<1>7. /\ r \in Nat /\ R \in Nat /\ c \in Nat /\ C \in Nat
      /\ r <= R /\ c <= C /\ r > 0 /\ c > 0 /\ x \in BOOLEAN
  BY <1>2, <1>3, <1>5 DEF Least
<1>8. /\ WorkingSetBytes(R, C, args.window) <= args.max_tile_bytes
      /\ MessageBytes(R, C, args.window, x) <= args.max_message_bytes
  BY <1>4 DEF Fits
<1>9. tile.compute_rows \in BOOLEAN /\ (tile.compute_rows => x)
  BY <1>5
<1> HIDE DEF tile, r, R, c, C, x
<1>10. /\ WorkingSetBytes(r, c, args.window) <= WorkingSetBytes(R, C, args.window)
       /\ MessageBytes(r, c, args.window, tile.compute_rows)
             <= MessageBytes(R, C, args.window, x)
  BY <1>2, <1>7, <1>9, EstimatesAreMonotone
<1>11. /\ WorkingSetBytes(r, c, args.window) \in Int
       /\ WorkingSetBytes(R, C, args.window) \in Int
       /\ MessageBytes(r, c, args.window, tile.compute_rows) \in Int
       /\ MessageBytes(R, C, args.window, x) \in Int
  BY <1>2, <1>7 DEF WorkingSetBytes, MessageBytes, Greatest
<1>12. /\ WorkingSetBytes(r, c, args.window) <= args.max_tile_bytes
       /\ MessageBytes(r, c, args.window, tile.compute_rows) <= args.max_message_bytes
  BY <1>2, <1>8, <1>10, <1>11
<1>13. Safe(tile)
  BY <1>7, <1>12 DEF Safe, r, c
<1> QED
  BY <1>6, <1>13 DEF tile

(* Every step of a call preserves the invariant.                           *)
LEMMA NextPlannerInv == PlannerInv /\ [PlannerNext]_planning => PlannerInv'
<1> SUFFICES ASSUME PlannerInv, [PlannerNext]_planning PROVE PlannerInv'
  OBVIOUS
<1>0. args \in RequestType /\ args \in Requests
  BY RequestsAssumption DEF PlannerInv
<1>1. CASE UNCHANGED planning
  BY <1>1 DEF planning, search, iterator, PlannerInv, SearchInv, PlanInv, Safe
<1>2. CASE Reject \/ RefuseSize
  BY <1>2 DEF Reject, RefuseSize, search, iterator, PlannerInv, Safe
<1>3. CASE Accept
  <2>1. /\ Valid(args) /\ args' = args /\ low' = 1 /\ best' = 0 /\ high' = Longest(args)
        /\ pc' = "search" /\ tiles' = tiles
        /\ row_start' = 0 /\ column_start' = 0
    BY <1>3 DEF Accept, PlannerInv, iterator
  <2>2. Longest(args) \in Nat \ {0}
    BY <1>0, <2>1 DEF Valid, RequestType, Longest, Greatest
  <2>3. SearchInv'
    BY <2>1, <2>2 DEF SearchInv, Valid, Longest, ExclusionZone
  <2> QED
    BY <2>1, <2>3 DEF PlannerInv, Safe
<1>4. CASE Halve
  <2> DEFINE candidate == (low + high) \div 2
  <2>1. /\ SearchInv /\ low <= high /\ args' = args /\ pc = "search" /\ pc' = "search"
        /\ tiles' = tiles /\ row_start' = row_start /\ column_start' = column_start
    BY <1>4 DEF Halve, PlannerInv, iterator
  <2>2. candidate \in Nat /\ low <= candidate /\ candidate <= high
    BY <2>1 DEF SearchInv
  <2>3. Longest(args) \in Nat
    BY <1>0, <2>1 DEF SearchInv, Valid, RequestType, Longest, Greatest
  <2>4. CASE Fits(args, candidate)
    <3>1. best' = candidate /\ low' = candidate + 1 /\ high' = high
      BY <1>4, <2>4 DEF Halve
    <3> HIDE DEF candidate
    <3> QED
      BY <2>1, <2>2, <2>3, <2>4, <3>1 DEF SearchInv, PlannerInv, Safe
  <2>5. CASE ~Fits(args, candidate)
    <3>1. high' = candidate - 1 /\ low' = low /\ best' = best
      BY <1>4, <2>5 DEF Halve, NextHigh
    <3> HIDE DEF candidate
    <3>2. SearchInv'
      <4>1. high' + 1 = candidate /\ high' \in Nat /\ low <= high' + 1 /\ high' <= Longest(args)
        BY <2>1, <2>2, <2>3, <3>1 DEF SearchInv
      <4> QED
        BY <2>1, <2>5, <3>1, <4>1 DEF SearchInv
    <3> QED
      BY <2>1, <3>2 DEF PlannerInv, Safe
  <2> QED
    BY <2>4, <2>5
<1>5. CASE Resolve
  <2>1. /\ SearchInv /\ SizeAllowed /\ args' = args /\ pc = "search" /\ pc' = "iterate"
        /\ low' = low /\ high' = high /\ best' = best
        /\ tiles' = tiles /\ row_start' = 0 /\ column_start' = 0
    BY <1>5 DEF Resolve, PlannerInv, search, iterator
  <2>2. /\ plan'.rows = args.rows /\ plan'.columns = args.columns
        /\ plan'.self_join = args.self_join /\ plan'.keep_rows = args.keep_rows
        /\ plan'.tile_size = RequestedSize
    BY <1>5 DEF Resolve
  <2>3. args.rows \in Nat \ {0} /\ args.columns \in Nat \ {0}
    BY <1>0, <2>1 DEF SearchInv, Valid, RequestType
  <2>4. Longest(args) \in Nat /\ best \in Nat /\ best <= Longest(args)
    BY <2>1, <2>3 DEF SearchInv, Longest, Greatest
  <2>5. RequestedSize \in 1 .. best
    <3>1. Maximum = best /\ RequestedSize <= Maximum /\ RequestedSize > 0
      BY <2>1, <2>4 DEF SizeAllowed, Maximum, Least
    <3>2. RequestedSize \in Int
      <4>1. args.tile_size \in Int \cup {None}
        BY <1>0 DEF RequestType
      <4> QED
        BY <2>4, <3>1, <4>1 DEF RequestedSize, Least
    <3> QED
      BY <2>4, <3>1, <3>2
  <2>6. SearchInv'
    BY <2>1 DEF SearchInv
  <2>7. PlanInv'
    BY <2>1, <2>2, <2>3, <2>5 DEF PlanInv
  <2> QED
    BY <2>1, <2>6, <2>7 DEF PlannerInv, Safe
<1>6. CASE Yield
  <2>1. /\ pc = "iterate" /\ row_start < plan.rows /\ SearchInv /\ PlanInv
        /\ args' = args /\ pc' = pc /\ low' = low /\ high' = high /\ best' = best
        /\ plan' = plan
    BY <1>6 DEF Yield, PlannerInv, search
  <2> DEFINE tile == TileAt(plan, Len(tiles), row_start, column_start)
  <2>2. tiles \in Seq(TileType) /\ Len(tiles) \in Nat
    BY DEF PlannerInv
  <2>3. tile \in TileType /\ Safe(tile)
    BY <2>1, <2>2, TileIsSafe
  <2>4. tiles' = Append(tiles, tile)
    BY <1>6 DEF Yield
  <2> HIDE DEF tile
  <2>5. tiles' \in Seq(TileType)
    BY <2>2, <2>3, <2>4
  <2>6. \A k \in DOMAIN tiles' : Safe(tiles'[k])
    <3> SUFFICES ASSUME NEW k \in DOMAIN tiles' PROVE Safe(tiles'[k])
      OBVIOUS
    <3>1. CASE k = Len(tiles) + 1
      BY <2>2, <2>3, <2>4, <3>1
    <3>2. CASE k # Len(tiles) + 1
      <4>1. k \in DOMAIN tiles /\ tiles'[k] = tiles[k]
        BY <2>2, <2>4, <3>2
      <4> QED
        BY <4>1 DEF PlannerInv
    <3> QED
      BY <3>1, <3>2
  <2>7. PlanInv'
    <3>1. args.rows \in Nat \ {0} /\ args.columns \in Nat \ {0} /\ best \in Nat
          /\ (args.self_join => args.rows = args.columns)
      BY <1>0, <2>1 DEF SearchInv, Valid, RequestType
    <3>2. /\ plan.rows = args.rows /\ plan.columns = args.columns
          /\ plan.self_join = args.self_join
          /\ row_start \in Nat /\ column_start \in Nat /\ plan.tile_size \in Nat \ {0}
      BY <2>1, <3>1 DEF PlanInv
    <3>3. CASE column_start + plan.tile_size < plan.columns
      <4>1. column_start' = column_start + plan.tile_size /\ row_start' = row_start
        BY <1>6, <3>3 DEF Yield
      <4> QED
        BY <2>1, <3>1, <3>2, <3>3, <4>1 DEF PlanInv
    <3>4. CASE ~(column_start + plan.tile_size < plan.columns)
      <4>1. /\ row_start' = row_start + plan.tile_size
            /\ column_start' = IF plan.self_join THEN row_start' ELSE 0
        BY <1>6, <2>1, <3>4 DEF Yield, FirstColumn
      <4>2. row_start' \in Nat /\ column_start' \in Nat
        BY <3>2, <4>1
      <4>3. row_start' < args.rows => column_start' < args.columns
        BY <3>1, <3>2, <4>1, <4>2
      <4> QED
        BY <2>1, <3>2, <4>2, <4>3 DEF PlanInv
    <3> QED
      BY <3>3, <3>4
  <2>8. SearchInv'
    BY <2>1 DEF SearchInv
  <2> QED
    BY <2>1, <2>5, <2>6, <2>7, <2>8 DEF PlannerInv, Safe
<1>7. CASE Exhaust
  BY <1>7 DEF Exhaust, search, iterator, PlannerInv, SearchInv, PlanInv, Safe
<1> QED
  BY <1>1, <1>2, <1>3, <1>4, <1>5, <1>6, <1>7 DEF PlannerNext

(* A call is never out of the invariant.                                   *)
THEOREM PlannerInvariance == PlannerSpec => []PlannerInv
<1>1. PlannerInit => PlannerInv
  BY DEF PlannerInit, PlannerInv
<1>2. PlannerInv /\ [PlannerNext]_planning => PlannerInv'
  BY NextPlannerInv
<1> QED
  BY <1>1, <1>2, PTL DEF PlannerSpec

(* _maximum_safe_tile_size: at every turn of the bisection the sizes it    *)
(* has discarded are ones it may discard, for any dimensions and limits.   *)
THEOREM BisectionIsRight == PlannerSpec => []BisectionKeepsAnswer
<1>1. PlannerInv => BisectionKeepsAnswer
  <2> SUFFICES ASSUME PlannerInv, pc \in {"search", "iterate"}
               PROVE  /\ best = low - 1 /\ high <= Longest(args)
                      /\ \A s \in Sizes(1, best) : Fits(args, s)
                      /\ \A s \in Sizes(high + 1, Longest(args)) : ~Fits(args, s)
    BY DEF BisectionKeepsAnswer
  <2>1. SearchInv /\ args \in RequestType
    BY RequestsAssumption DEF PlannerInv
  <2>2. best \in Nat /\ high \in Nat /\ Longest(args) \in Nat /\ Valid(args)
    BY <2>1 DEF SearchInv, Valid, RequestType, Longest, Greatest
  <2>3. ASSUME NEW s \in Sizes(1, best) PROVE Fits(args, s)
    <3>1. s \in Nat /\ s <= best /\ best > 0
      BY <2>2 DEF Sizes
    <3> QED
      BY <2>1, <2>2, <3>1, FitsIsMonotone DEF SearchInv
  <2>4. ASSUME NEW s \in Sizes(high + 1, Longest(args)) PROVE ~Fits(args, s)
    <3>1. s \in Nat /\ high + 1 \in Nat /\ high + 1 <= s /\ high < Longest(args)
      BY <2>2 DEF Sizes
    <3>2. ~Fits(args, high + 1)
      BY <2>1, <3>1 DEF SearchInv
    <3> QED
      BY <2>1, <2>2, <3>1, <3>2, FitsIsMonotone
  <2> QED
    BY <2>1, <2>3, <2>4 DEF SearchInv
<1> QED
  BY <1>1, PlannerInvariance, PTL

(* plan_1nn_tiles: no tile of a plan exceeds the memory a worker allows or *)
(* the message size a channel carries, whatever size was asked for.        *)
THEOREM TilesAreSafe == PlannerSpec => []TilesWithinLimits
<1>1. PlannerInv => TilesWithinLimits
  BY DEF PlannerInv, Safe, TilesWithinLimits
<1> QED
  BY <1>1, PlannerInvariance, PTL

----------------------------------------------------------------------------
(* Division of positions by the size of a tile.                            *)
LEMMA Division ==
    ASSUME NEW x \in Nat, NEW s \in Nat \ {0}
    PROVE  /\ x \div s \in Nat /\ x % s \in Nat /\ x % s < s
           /\ x = s * (x \div s) + (x % s)
<1>1. x = s * (x \div s) + (x % s)
  OBVIOUS
<1>2. x \div s \in Nat
  BY Z3
<1>3. x % s >= 0 /\ x % s < s /\ x % s \in Int
  BY Z3
<1> QED
  BY <1>1, <1>2, <1>3

(* A number is only in one way a multiple and a rest.                      *)
LEMMA QuotientIsUnique ==
    ASSUME NEW s \in Nat \ {0}, NEW q \in Int, NEW p \in Int,
           NEW r \in 0 .. s - 1, NEW t \in 0 .. s - 1, s * q + r = s * p + t
    PROVE  q = p /\ r = t
<1>1. s * (q - p) = t - r
  OBVIOUS
<1>2. CASE q - p >= 1
  <2>1. s * (q - p) >= s * 1
    BY <1>2
  <2> QED
    BY <1>1, <2>1
<1>3. CASE p - q >= 1
  <2>1. s * (p - q) >= s * 1
    BY <1>3
  <2>2. s * (p - q) = r - t
    OBVIOUS
  <2> QED
    BY <2>1, <2>2
<1> QED
  BY <1>1, <1>2, <1>3

(* The corners of tiles are at the multiples of their size.                *)
LEMMA Multiples ==
    ASSUME NEW x \in Nat, NEW s \in Nat \ {0}
    PROVE  x % s = 0 <=> \E q \in Nat : x = s * q
<1>1. ASSUME x % s = 0 PROVE \E q \in Nat : x = s * q
  BY <1>1, Division
<1>2. ASSUME NEW q \in Nat, x = s * q PROVE x % s = 0
  <2> DEFINE d == x \div s
             r == x % s
  <2>1. d \in Nat /\ r \in Nat /\ r < s /\ x = s * d + r
    BY Division
  <2> HIDE DEF d, r
  <2>2. s * d + r = s * q + 0 /\ r \in 0 .. s - 1 /\ 0 \in 0 .. s - 1
    BY <1>2, <2>1
  <2>3. r = 0
    BY <2>1, <2>2, QuotientIsUnique
  <2> QED
    BY <2>3 DEF r
<1> QED
  BY <1>1, <1>2

(* Every position is in the interval of some multiple.                     *)
LEMMA CornerOf ==
    ASSUME NEW x \in Nat, NEW s \in Nat \ {0}
    PROVE  \E a \in Nat : a % s = 0 /\ a <= x /\ x < a + s
<1> DEFINE d == x \div s
           r == x % s
<1>1. d \in Nat /\ r \in Nat /\ r < s /\ x = s * d + r
  BY Division
<1> HIDE DEF d, r
<1>2. s * d \in Nat
  BY <1>1
<1>3. (s * d) % s = 0
  BY <1>1, <1>2, Multiples
<1> QED
  BY <1>1, <1>2, <1>3

(* From one multiple to the next there is none.                            *)
LEMMA NextCorner ==
    ASSUME NEW a \in Nat, NEW b \in Nat, NEW s \in Nat \ {0}, a % s = 0
    PROVE  /\ (a + s) % s = 0
           /\ b % s = 0 /\ a < b => a + s <= b
<1>1. PICK q \in Nat : a = s * q
  BY Multiples
<1>2. a + s = s * (q + 1) /\ a + s \in Nat /\ q + 1 \in Nat
  BY <1>1
<1>3. ASSUME b % s = 0, a < b PROVE a + s <= b
  <2>1. PICK p \in Nat : b = s * p
    BY <1>3, Multiples
  <2>2. p > q
    <3>1. CASE p <= q
      <4>1. s * p <= s * q
        BY <3>1, AreaIsMonotone
      <4> QED
        BY <1>1, <1>3, <2>1, <4>1
    <3> QED
      BY <3>1
  <2>3. s * (q + 1) <= s * p
    BY <1>2, <2>2, AreaIsMonotone
  <2> QED
    BY <1>2, <2>1, <2>3
<1> QED
  BY <1>2, <1>3, Multiples

----------------------------------------------------------------------------
(* What plan_1nn_tiles knows of a plan when it begins to give its tiles.   *)
GoodPlan(p) ==
    /\ p.rows \in Nat \ {0} /\ p.columns \in Nat \ {0} /\ p.tile_size \in Nat \ {0}
    /\ p.self_join \in BOOLEAN /\ p.keep_rows \in BOOLEAN
    /\ p.self_join => p.rows = p.columns

(* The corners the iterator visits before it comes to c.                   *)
Behind(p, c) == {d \in Corners(p) : Precedes(d, c)}

Rank(p, c) == Cardinality(Behind(p, c))

(* A part of a finite set that is not all of it has fewer elements.        *)
LEMMA PartIsSmaller ==
    ASSUME NEW S, IsFiniteSet(S), NEW T, T \subseteq S, T # S
    PROVE  Cardinality(T) < Cardinality(S)
<1>1. /\ IsFiniteSet(T) /\ Cardinality(T) <= Cardinality(S)
      /\ Cardinality(T) # Cardinality(S)
  BY FS_Subset
<1>2. Cardinality(T) \in Nat /\ Cardinality(S) \in Nat
  BY <1>1, FS_CardinalityType
<1> QED
  BY <1>1, <1>2

(* A plan has finitely many corners, each a pair of positions.             *)
LEMMA CornersAreFinite ==
    ASSUME NEW p, GoodPlan(p)
    PROVE  /\ IsFiniteSet(Corners(p)) /\ Cardinality(Corners(p)) \in Nat
           /\ \A c \in Corners(p) : c = <<c[1], c[2]>> /\ c[1] \in Nat /\ c[2] \in Nat
           /\ \A c : IsFiniteSet(Behind(p, c)) /\ Rank(p, c) \in Nat
<1>1. IsFiniteSet((0 .. p.rows - 1) \X (0 .. p.columns - 1))
  <2>1. p.rows - 1 \in Int /\ p.columns - 1 \in Int /\ 0 \in Int
    BY DEF GoodPlan
  <2>2. IsFiniteSet(0 .. p.rows - 1) /\ IsFiniteSet(0 .. p.columns - 1)
    BY <2>1, FS_Interval
  <2> QED
    BY <2>2, FS_Product
<1>2. Corners(p) \subseteq (0 .. p.rows - 1) \X (0 .. p.columns - 1)
  BY DEF Corners
<1>3. IsFiniteSet(Corners(p))
  BY <1>1, <1>2, FS_Subset
<1>4. ASSUME NEW c PROVE IsFiniteSet(Behind(p, c)) /\ Rank(p, c) \in Nat
  <2>1. Behind(p, c) \subseteq Corners(p)
    BY DEF Behind
  <2>2. IsFiniteSet(Behind(p, c))
    BY <1>3, <2>1, FS_Subset
  <2> QED
    BY <2>2, FS_CardinalityType DEF Rank
<1>5. \A c \in Corners(p) : c = <<c[1], c[2]>> /\ c[1] \in Nat /\ c[2] \in Nat
  BY <1>2 DEF GoodPlan
<1> QED
  BY <1>3, <1>4, <1>5, FS_CardinalityType

(* The order of visits is total, so a corner is known by its rank.         *)
LEMMA RankGrows ==
    ASSUME NEW p, GoodPlan(p), NEW c \in Corners(p), NEW d,
           d = <<d[1], d[2]>>, d[1] \in Int, d[2] \in Int, Precedes(c, d)
    PROVE  Rank(p, c) < Rank(p, d)
<1>0. c = <<c[1], c[2]>> /\ c[1] \in Nat /\ c[2] \in Nat
  BY CornersAreFinite
<1>1. Behind(p, c) \subseteq Behind(p, d)
  <2> SUFFICES ASSUME NEW e \in Corners(p), Precedes(e, c) PROVE Precedes(e, d)
    BY DEF Behind
  <2>1. e[1] \in Nat /\ e[2] \in Nat
    BY CornersAreFinite
  <2> QED
    BY <1>0, <2>1 DEF Precedes
<1>2. c \in Behind(p, d) /\ c \notin Behind(p, c)
  BY <1>0 DEF Behind, Precedes
<1>3. IsFiniteSet(Behind(p, d)) /\ Behind(p, c) # Behind(p, d)
  BY <1>2, CornersAreFinite
<1> QED
  BY <1>1, <1>3, PartIsSmaller DEF Rank

(* Two corners that as many others precede are the same one.               *)
LEMMA RankIsUnique ==
    ASSUME NEW p, GoodPlan(p), NEW c \in Corners(p), NEW d \in Corners(p),
           Rank(p, c) = Rank(p, d)
    PROVE  c = d
<1>1. /\ c = <<c[1], c[2]>> /\ c[1] \in Nat /\ c[2] \in Nat
      /\ d = <<d[1], d[2]>> /\ d[1] \in Nat /\ d[2] \in Nat
      /\ Rank(p, c) \in Nat /\ Rank(p, d) \in Nat
  BY CornersAreFinite
<1>2. ~Precedes(c, d) /\ ~Precedes(d, c)
  <2>1. Precedes(c, d) => Rank(p, c) < Rank(p, d)
    BY <1>1, RankGrows
  <2>2. Precedes(d, c) => Rank(p, d) < Rank(p, c)
    BY <1>1, RankGrows
  <2> QED
    BY <1>1, <2>1, <2>2
<1>3. c[1] = d[1] /\ c[2] = d[2]
  BY <1>1, <1>2 DEF Precedes
<1> QED
  BY <1>1, <1>3

(* The ranks are all the numbers below that of the corners.                *)
LEMMA RanksAreAll ==
    ASSUME NEW p, GoodPlan(p)
    PROVE  /\ \A c \in Corners(p) : Rank(p, c) \in 0 .. Cardinality(Corners(p)) - 1
           /\ \A n \in 0 .. Cardinality(Corners(p)) - 1 : \E c \in Corners(p) : Rank(p, c) = n
<1> DEFINE N == Cardinality(Corners(p))
           S == {Rank(p, c) : c \in Corners(p)}
           f == [c \in Corners(p) |-> Rank(p, c)]
<1>0. N \in Nat /\ IsFiniteSet(Corners(p))
  BY CornersAreFinite
<1>1. ASSUME NEW c \in Corners(p) PROVE Rank(p, c) \in 0 .. N - 1
  <2>1. Behind(p, c) \subseteq Corners(p) /\ c \notin Behind(p, c)
    BY CornersAreFinite DEF Behind, Precedes
  <2>2. Cardinality(Behind(p, c)) < N
    BY <1>0, <2>1, PartIsSmaller
  <2> QED
    BY <1>0, <2>2, CornersAreFinite DEF Rank
<1>2. Cardinality(S) = N
  <2>1. f \in Bijection(Corners(p), S)
    BY RankIsUnique DEF Bijection, Injection, Surjection, IsInjective
  <2> QED
    BY <1>0, <2>1, FS_Bijection DEF ExistsBijection
<1>3. IsFiniteSet(0 .. N - 1) /\ Cardinality(0 .. N - 1) = N
  <2>1. 0 \in Int /\ N - 1 \in Int
    BY <1>0
  <2>2. IsFiniteSet(0 .. N - 1)
        /\ Cardinality(0 .. N - 1) = IF 0 > N - 1 THEN 0 ELSE N - 1 - 0 + 1
    BY <2>1, FS_Interval
  <2> QED
    BY <1>0, <2>2
<1>4. S = 0 .. N - 1
  <2>1. S \subseteq 0 .. N - 1
    BY <1>1
  <2> QED
    BY <1>0, <1>2, <1>3, <2>1, FS_Subset
<1> QED
  BY <1>1, <1>4

(* The sequence of tiles: the k-th is that of the corner of rank k - 1.    *)
LEMMA TilesAreCorners ==
    ASSUME NEW p, GoodPlan(p)
    PROVE  /\ DOMAIN Tiles(p) = 1 .. Cardinality(Corners(p))
           /\ Len(Tiles(p)) = Cardinality(Corners(p))
           /\ \A c \in Corners(p) :
                 /\ Rank(p, c) + 1 \in DOMAIN Tiles(p)
                 /\ Tiles(p)[Rank(p, c) + 1] = TileAt(p, Rank(p, c), c[1], c[2])
           /\ \A k \in DOMAIN Tiles(p) : \E c \in Corners(p) :
                 Rank(p, c) = k - 1 /\ Tiles(p)[k] = TileAt(p, k - 1, c[1], c[2])
<1> DEFINE N == Cardinality(Corners(p))
           corner(k) == CHOOSE c \in Corners(p) : Rank(p, c) = k - 1
<1>0. N \in Nat
  BY CornersAreFinite
<1>1. Tiles(p) = [k \in 1 .. N |-> TileAt(p, k - 1, corner(k)[1], corner(k)[2])]
  BY DEF Tiles, Rank, Behind
<1>2. Tiles(p) \in Seq({TileAt(p, k - 1, corner(k)[1], corner(k)[2]) : k \in 1 .. N})
  BY <1>0, <1>1, SMTT(30)
<1>3. DOMAIN Tiles(p) = 1 .. N /\ Len(Tiles(p)) = N
  BY <1>0, <1>1, <1>2
<1>4. ASSUME NEW k \in 1 .. N
      PROVE  corner(k) \in Corners(p) /\ Rank(p, corner(k)) = k - 1
  <2>1. k - 1 \in 0 .. N - 1
    BY <1>0
  <2>2. \E c \in Corners(p) : Rank(p, c) = k - 1
    BY <2>1, RanksAreAll
  <2> QED
    BY <2>2
<1> HIDE DEF corner
<1>5. ASSUME NEW c \in Corners(p), NEW k, k = Rank(p, c) + 1
      PROVE  k \in 1 .. N /\ k - 1 = Rank(p, c) /\ corner(k) = c
  <2>1. Rank(p, c) \in 0 .. N - 1
    BY RanksAreAll
  <2>2. k \in 1 .. N /\ k - 1 = Rank(p, c)
    BY <1>0, <1>5, <2>1
  <2>3. corner(k) \in Corners(p) /\ Rank(p, corner(k)) = Rank(p, c)
    BY <1>4, <2>2
  <2> QED
    BY <2>2, <2>3, RankIsUnique
<1>6. ASSUME NEW c \in Corners(p)
      PROVE  /\ Rank(p, c) + 1 \in 1 .. N
             /\ Tiles(p)[Rank(p, c) + 1] = TileAt(p, Rank(p, c), c[1], c[2])
  <2> DEFINE k == Rank(p, c) + 1
  <2>1. k \in 1 .. N /\ k - 1 = Rank(p, c) /\ corner(k) = c
    BY <1>5
  <2> HIDE DEF k
  <2>2. Tiles(p)[k] = TileAt(p, Rank(p, c), c[1], c[2])
    BY <1>1, <2>1
  <2> QED
    BY <2>1, <2>2 DEF k
<1> HIDE DEF N
<1>7. ASSUME NEW k \in 1 .. N
      PROVE  \E c \in Corners(p) :
                Rank(p, c) = k - 1 /\ Tiles(p)[k] = TileAt(p, k - 1, c[1], c[2])
  BY <1>1, <1>4, <1>7
<1> QED
  BY <1>3, <1>6, <1>7 DEF N

(* The tile at a corner holds the positions from it up to the next one.    *)
LEMMA TileHolds ==
    ASSUME NEW p, GoodPlan(p), NEW c \in Corners(p), NEW n,
           NEW x \in 0 .. p.rows - 1, NEW y \in 0 .. p.columns - 1
    PROVE  /\ Covers(TileAt(p, n, c[1], c[2]).row_start,
                     TileAt(p, n, c[1], c[2]).row_stop, x)
                 <=> c[1] <= x /\ x < c[1] + p.tile_size
           /\ Covers(TileAt(p, n, c[1], c[2]).column_start,
                     TileAt(p, n, c[1], c[2]).column_stop, y)
                 <=> c[2] <= y /\ y < c[2] + p.tile_size
           /\ TileAt(p, n, c[1], c[2]).row_stop <= p.rows
           /\ TileAt(p, n, c[1], c[2]).column_stop <= p.columns
           /\ TileAt(p, n, c[1], c[2]).compute_rows
                 <=> IF p.self_join THEN c[1] # c[2] ELSE p.keep_rows
<1> DEFINE t == TileAt(p, n, c[1], c[2])
<1>0. /\ p.rows \in Nat /\ p.columns \in Nat /\ p.tile_size \in Nat \ {0}
      /\ p.self_join \in BOOLEAN /\ p.keep_rows \in BOOLEAN
      /\ p.self_join => p.rows = p.columns
      /\ c[1] \in Nat /\ c[2] \in Nat
  BY CornersAreFinite DEF GoodPlan
<1>1. /\ t.row_start = c[1] /\ t.row_stop = Least(p.rows, c[1] + p.tile_size)
      /\ t.column_start = c[2] /\ t.column_stop = Least(p.columns, c[2] + p.tile_size)
      /\ t.compute_rows = ((p.keep_rows \/ p.self_join)
            /\ ~(p.self_join /\ c[1] = c[2]
                 /\ Least(p.rows, c[1] + p.tile_size) = Least(p.columns, c[2] + p.tile_size)))
  BY DEF TileAt
<1> HIDE DEF t
<1>2. /\ Covers(t.row_start, t.row_stop, x) <=> c[1] <= x /\ x < c[1] + p.tile_size
      /\ t.row_stop <= p.rows
  BY <1>0, <1>1 DEF Covers, Least
<1>3. /\ Covers(t.column_start, t.column_stop, y) <=> c[2] <= y /\ y < c[2] + p.tile_size
      /\ t.column_stop <= p.columns
  BY <1>0, <1>1 DEF Covers, Least
<1>4. t.compute_rows <=> IF p.self_join THEN c[1] # c[2] ELSE p.keep_rows
  BY <1>0, <1>1
<1> QED
  BY <1>2, <1>3, <1>4 DEF t

(* The pair (x, y) is in the tile of corner (a, b) of the whole grid, and  *)
(* a self-join visits the corner if it is not below the diagonal.          *)
CornerOfPair(p, x, y, a, b) ==
    /\ a <= x /\ x < a + p.tile_size /\ b <= y /\ y < b + p.tile_size
    /\ <<a, b>> \in Corners(p) <=> (p.self_join => a <= b)
    /\ p.self_join => (<<b, a>> \in Corners(p) <=> b <= a)
    /\ \A c \in Corners(p) : /\ c[1] <= x /\ x < c[1] + p.tile_size => c[1] = a
                             /\ c[2] <= y /\ y < c[2] + p.tile_size => c[2] = b
    /\ p.self_join =>
          \A c \in Corners(p) : /\ c[1] <= y /\ y < c[1] + p.tile_size => c[1] = b
                                /\ c[2] <= x /\ x < c[2] + p.tile_size => c[2] = a

(* Each pair of positions has such a corner.                               *)
LEMMA PairHasCorner ==
    ASSUME NEW p, GoodPlan(p), NEW x \in 0 .. p.rows - 1, NEW y \in 0 .. p.columns - 1
    PROVE  \E a \in Nat, b \in Nat : CornerOfPair(p, x, y, a, b)
<1> DEFINE s == p.tile_size
<1>0. /\ p.rows \in Nat \ {0} /\ p.columns \in Nat \ {0} /\ s \in Nat \ {0}
      /\ p.self_join \in BOOLEAN /\ (p.self_join => p.rows = p.columns)
      /\ x \in Nat /\ y \in Nat
  BY DEF GoodPlan
<1>1. PICK a \in Nat : a % s = 0 /\ a <= x /\ x < a + s
  BY <1>0, CornerOf
<1>2. PICK b \in Nat : b % s = 0 /\ b <= y /\ y < b + s
  BY <1>0, CornerOf
<1>3. ASSUME NEW z \in Nat, NEW e \in Nat, NEW d \in Nat, e % s = 0, d % s = 0,
             e <= z, z < e + s, d <= z, z < d + s
      PROVE  e = d
  <2>1. e < d => e + s <= d
    BY <1>0, <1>3, NextCorner
  <2>2. d < e => d + s <= e
    BY <1>0, <1>3, NextCorner
  <2> QED
    BY <1>0, <1>3, <2>1, <2>2
<1>4. \A c \in Corners(p) : c[1] \in Nat /\ c[2] \in Nat /\ c[1] % s = 0 /\ c[2] % s = 0
  BY CornersAreFinite DEF Corners
<1>5. /\ a \in 0 .. p.rows - 1 /\ b \in 0 .. p.columns - 1
      /\ p.self_join => b \in 0 .. p.rows - 1 /\ a \in 0 .. p.columns - 1
  BY <1>0, <1>1, <1>2
<1>6. <<a, b>> \in Corners(p) <=> (p.self_join => a <= b)
  BY <1>1, <1>2, <1>5 DEF Corners
<1>7. p.self_join => (<<b, a>> \in Corners(p) <=> b <= a)
  BY <1>1, <1>2, <1>5 DEF Corners
<1> HIDE DEF s
<1>8. \A c \in Corners(p) : /\ c[1] <= x /\ x < c[1] + s => c[1] = a
                            /\ c[2] <= y /\ y < c[2] + s => c[2] = b
                            /\ c[1] <= y /\ y < c[1] + s => c[1] = b
                            /\ c[2] <= x /\ x < c[2] + s => c[2] = a
  BY <1>0, <1>1, <1>2, <1>3, <1>4
<1> QED
  BY <1>1, <1>2, <1>6, <1>7, <1>8 DEF s, CornerOfPair

(* The ordinals of the tiles of a sequence that have this corner: one for  *)
(* a corner the plan visits.                                               *)
TilesWithCorner(t, a, b) == {k \in DOMAIN t : t[k].row_start = a /\ t[k].column_start = b}

(* There is one such tile for a corner of the plan, and otherwise none.    *)
LEMMA OneTileForEachCorner ==
    ASSUME NEW p, GoodPlan(p), NEW a \in Nat, NEW b \in Nat
    PROVE  /\ IsFiniteSet(TilesWithCorner(Tiles(p), a, b))
           /\ Cardinality(TilesWithCorner(Tiles(p), a, b))
                 = IF <<a, b>> \in Corners(p) THEN 1 ELSE 0
<1> DEFINE K == TilesWithCorner(Tiles(p), a, b)
<1>a. \A n, x, y : TileAt(p, n, x, y).row_start = x /\ TileAt(p, n, x, y).column_start = y
  BY DEF TileAt
<1>b. /\ \A k \in DOMAIN Tiles(p) : k \in Nat
      /\ \A c \in Corners(p) : c = <<c[1], c[2]>> /\ Rank(p, c) \in Nat
  BY TilesAreCorners, CornersAreFinite
<1>0. /\ \A k \in DOMAIN Tiles(p) : \E c \in Corners(p) :
            /\ Rank(p, c) = k - 1
            /\ Tiles(p)[k].row_start = c[1] /\ Tiles(p)[k].column_start = c[2]
      /\ \A c \in Corners(p) :
            /\ Rank(p, c) + 1 \in DOMAIN Tiles(p)
            /\ Tiles(p)[Rank(p, c) + 1].row_start = c[1]
            /\ Tiles(p)[Rank(p, c) + 1].column_start = c[2]
  BY <1>a, TilesAreCorners
<1>1. CASE <<a, b>> \in Corners(p)
  <2> DEFINE n == Rank(p, <<a, b>>) + 1
  <2>1. n \in K
    BY <1>0, <1>b, <1>1 DEF TilesWithCorner
  <2>2. ASSUME NEW k \in K PROVE k = n
    <3>1. k \in DOMAIN Tiles(p) /\ Tiles(p)[k].row_start = a /\ Tiles(p)[k].column_start = b
      BY DEF TilesWithCorner
    <3>2. PICK c \in Corners(p) : Rank(p, c) = k - 1 /\ k \in Nat /\ c[1] = a /\ c[2] = b
      BY <1>0, <1>b, <3>1
    <3>3. c = <<a, b>>
      BY <1>b, <3>2
    <3> QED
      BY <3>2, <3>3
  <2> HIDE DEF K, n
  <2>3. K = {n}
    BY <2>1, <2>2
  <2> QED
    BY <1>1, <2>3, FS_Singleton DEF K
<1>2. CASE <<a, b>> \notin Corners(p)
  <2>1. ASSUME NEW k \in K PROVE FALSE
    <3>1. k \in DOMAIN Tiles(p) /\ Tiles(p)[k].row_start = a /\ Tiles(p)[k].column_start = b
      BY DEF TilesWithCorner
    <3>2. PICK c \in Corners(p) : c[1] = a /\ c[2] = b
      BY <1>0, <3>1
    <3> QED
      BY <1>b, <1>2, <3>2
  <2>2. K = {}
    BY <2>1
  <2> QED
    BY <1>2, <2>2, FS_EmptySet DEF K
<1> QED
  BY <1>1, <1>2

(* Which tiles hold a pair of positions, and in a self-join its transpose. *)
CornerOfTiles(p, t, x, y, a, b) ==
    /\ {k \in DOMAIN t : InTile(t[k], x, y)} = TilesWithCorner(t, a, b)
    /\ p.self_join => {k \in DOMAIN t : InTile(t[k], y, x)} = TilesWithCorner(t, b, a)
    /\ <<a, b>> \in Corners(p) <=> (p.self_join => a <= b)
    /\ p.self_join => (<<b, a>> \in Corners(p) <=> b <= a)

LEMMA TilesOfPair ==
    ASSUME NEW p, GoodPlan(p), NEW x \in 0 .. p.rows - 1, NEW y \in 0 .. p.columns - 1
    PROVE  LET t == Tiles(p) IN
           /\ \A k \in DOMAIN t :
                 /\ t[k].row_stop <= p.rows /\ t[k].column_stop <= p.columns
                 /\ t[k].compute_rows <=> IF p.self_join THEN t[k].row_start # t[k].column_start
                                                         ELSE p.keep_rows
           /\ \E a \in Nat, b \in Nat : CornerOfTiles(p, t, x, y, a, b)
<1> DEFINE t == Tiles(p)
<1>1. ASSUME NEW k \in DOMAIN t
      PROVE  \E c \in Corners(p) : t[k] = TileAt(p, k - 1, c[1], c[2])
  BY TilesAreCorners
<1>2. PICK a \in Nat, b \in Nat : CornerOfPair(p, x, y, a, b)
  BY PairHasCorner
<1> HIDE DEF t
<1>3. ASSUME NEW k \in DOMAIN t
      PROVE  /\ t[k].row_stop <= p.rows /\ t[k].column_stop <= p.columns
             /\ t[k].compute_rows <=> IF p.self_join THEN t[k].row_start # t[k].column_start
                                                     ELSE p.keep_rows
             /\ InTile(t[k], x, y) <=> t[k].row_start = a /\ t[k].column_start = b
             /\ p.self_join => (InTile(t[k], y, x) <=> t[k].row_start = b /\ t[k].column_start = a)
  <2>1. PICK c \in Corners(p) : t[k] = TileAt(p, k - 1, c[1], c[2])
    BY <1>1
  <2>2. t[k].row_start = c[1] /\ t[k].column_start = c[2]
    BY <2>1 DEF TileAt
  <2>3. /\ t[k].row_stop <= p.rows /\ t[k].column_stop <= p.columns
        /\ t[k].compute_rows <=> IF p.self_join THEN c[1] # c[2] ELSE p.keep_rows
        /\ InTile(t[k], x, y) <=> /\ c[1] <= x /\ x < c[1] + p.tile_size
                                  /\ c[2] <= y /\ y < c[2] + p.tile_size
    BY <2>1, TileHolds DEF InTile
  <2>4. ASSUME p.self_join
        PROVE  InTile(t[k], y, x) <=> /\ c[1] <= y /\ y < c[1] + p.tile_size
                                      /\ c[2] <= x /\ x < c[2] + p.tile_size
    <3>1. y \in 0 .. p.rows - 1 /\ x \in 0 .. p.columns - 1
      BY <2>4 DEF GoodPlan
    <3> QED
      BY <2>1, <3>1, TileHolds DEF InTile
  <2> QED
    BY <1>2, <2>2, <2>3, <2>4 DEF CornerOfPair
<1>4. {k \in DOMAIN t : InTile(t[k], x, y)} = TilesWithCorner(t, a, b)
  BY <1>3 DEF TilesWithCorner
<1>5. p.self_join => {k \in DOMAIN t : InTile(t[k], y, x)} = TilesWithCorner(t, b, a)
  BY <1>3 DEF TilesWithCorner
<1> QED
  BY <1>2, <1>3, <1>4, <1>5 DEF t, CornerOfPair, CornerOfTiles

(* Whatever its size and that of its tiles, the tiles of a plan are what a *)
(* merge needs: the coordinator's promise assumes this of its joins.       *)
THEOREM PlansAreWellTiled ==
    ASSUME NEW p, GoodPlan(p), NEW j, j.rows = p.rows, j.columns = p.columns,
           j.self_join = p.self_join, j.keep_rows = p.keep_rows, j.tiles = Tiles(p)
    PROVE  WellTiled(j)
<1> DEFINE t == Tiles(p)
<1>0. /\ DOMAIN t = 1 .. Len(t)
      /\ p.rows \in Nat \ {0} /\ p.columns \in Nat \ {0}
      /\ p.self_join \in BOOLEAN /\ p.keep_rows \in BOOLEAN
      /\ p.self_join => p.rows = p.columns
  BY TilesAreCorners DEF GoodPlan
<1>1. 0 \in 0 .. p.rows - 1 /\ 0 \in 0 .. p.columns - 1
  BY <1>0
<1>2. \A k \in DOMAIN t :
         /\ t[k].row_stop <= p.rows /\ t[k].column_stop <= p.columns
         /\ t[k].compute_rows <=> IF p.self_join THEN t[k].row_start # t[k].column_start
                                                 ELSE p.keep_rows
  BY <1>1, TilesOfPair
<1>3. ASSUME NEW x \in 0 .. p.rows - 1, NEW y \in 0 .. p.columns - 1
      PROVE  \E k \in DOMAIN t : \/ InTile(t[k], x, y)
                                 \/ p.self_join /\ t[k].compute_rows /\ InTile(t[k], y, x)
  <2>0. PICK a \in Nat, b \in Nat : CornerOfTiles(p, t, x, y, a, b)
    BY TilesOfPair
  <2>1. /\ {k \in DOMAIN t : InTile(t[k], x, y)} = TilesWithCorner(t, a, b)
        /\ p.self_join => {k \in DOMAIN t : InTile(t[k], y, x)} = TilesWithCorner(t, b, a)
        /\ <<a, b>> \in Corners(p) <=> (p.self_join => a <= b)
        /\ p.self_join => (<<b, a>> \in Corners(p) <=> b <= a)
    BY <2>0 DEF CornerOfTiles
  <2> HIDE DEF t
  <2>2. CASE <<a, b>> \in Corners(p)
    <3>1. TilesWithCorner(t, a, b) # {}
      <4>1. Cardinality(TilesWithCorner(t, a, b)) = 1
        BY <2>2, OneTileForEachCorner DEF t
      <4> QED
        BY <4>1, FS_EmptySet
    <3> QED
      BY <2>1, <3>1
  <2>3. CASE <<a, b>> \notin Corners(p)
    <3>1. p.self_join /\ <<b, a>> \in Corners(p) /\ a # b
      BY <1>0, <2>1, <2>3
    <3>2. TilesWithCorner(t, b, a) # {}
      <4>1. Cardinality(TilesWithCorner(t, b, a)) = 1
        BY <3>1, OneTileForEachCorner DEF t
      <4> QED
        BY <4>1, FS_EmptySet
    <3>3. PICK k \in TilesWithCorner(t, b, a) : TRUE
      BY <3>2
    <3>4. k \in DOMAIN t /\ InTile(t[k], y, x) /\ t[k].row_start = b /\ t[k].column_start = a
      BY <2>1, <3>1, <3>3 DEF TilesWithCorner
    <3> QED
      BY <1>2, <3>1, <3>4
  <2> QED
    BY <2>2, <2>3
<1> HIDE DEF t
<1> QED
  BY <1>0, <1>2, <1>3 DEF WellTiled, t

----------------------------------------------------------------------------
(* The number of multiples of a tile's size below a dimension.             *)
LEMMA CeilDivision ==
    ASSUME NEW n \in Nat \ {0}, NEW s \in Nat \ {0}
    PROVE  /\ CeilDiv(n, s) \in Nat \ {0}
           /\ \A q \in Nat : s * q < n <=> q < CeilDiv(n, s)
<1> DEFINE x == n + s - 1
           d == x \div s
           r == x % s
<1>1. x \in Nat /\ d \in Nat /\ r \in Nat /\ r < s /\ x = s * d + r
  BY Division
<1>2. CeilDiv(n, s) = d
  BY DEF CeilDiv
<1>3. n = s * d + r - s + 1
  BY <1>1
<1> HIDE DEF x, d, r
<1>4. d # 0
  BY <1>1, <1>3
<1>5. ASSUME NEW q \in Nat PROVE s * q < n <=> q < d
  <2>1. CASE q < d
    <3>1. s * q <= s * (d - 1) /\ s * (d - 1) = s * d - s
      <4>1. d - 1 \in Nat /\ q <= d - 1
        BY <1>1, <1>4, <2>1
      <4>2. s * q <= s * (d - 1)
        BY <4>1, AreaIsMonotone
      <4> QED
        BY <1>1, <4>2
    <3> QED
      BY <1>1, <1>3, <2>1, <3>1
  <2>2. CASE q >= d
    <3>1. s * d <= s * q
      BY <1>1, <2>2, AreaIsMonotone
    <3> QED
      BY <1>1, <1>3, <2>2, <3>1
  <2> QED
    BY <1>1, <2>1, <2>2
<1> QED
  BY <1>1, <1>2, <1>4, <1>5

(* How many tiles come before the corner of the a-th row and the b-th      *)
(* column of tiles, twice: whole rows, less what is below the diagonal.    *)
TwiceBefore(p, a, b) ==
    LET columns == CeilDiv(p.columns, p.tile_size)
    IN  IF p.self_join THEN 2 * (a * columns) - a * (a - 1) + 2 * (b - a)
                       ELSE 2 * (a * columns) + 2 * b

(* A step along a row counts one more tile.                                *)
LEMMA OneColumnOn ==
    ASSUME NEW p, GoodPlan(p), NEW a \in Nat, NEW b \in Nat
    PROVE  TwiceBefore(p, a, b) \in Int /\ TwiceBefore(p, a, b + 1) = TwiceBefore(p, a, b) + 2
<1>1. CeilDiv(p.columns, p.tile_size) \in Nat
  BY CeilDivision DEF GoodPlan
<1>2. a * CeilDiv(p.columns, p.tile_size) \in Int /\ a * (a - 1) \in Int
  BY <1>1
<1> QED
  BY <1>2 DEF TwiceBefore

(* So does the step from the last column of a row to the next row.         *)
LEMMA OneRowOn ==
    ASSUME NEW p, GoodPlan(p), NEW a \in Nat, NEW b \in Nat,
           b + 1 = CeilDiv(p.columns, p.tile_size)
    PROVE  TwiceBefore(p, a + 1, IF p.self_join THEN a + 1 ELSE 0) = TwiceBefore(p, a, b) + 2
<1> DEFINE C == CeilDiv(p.columns, p.tile_size)
           u == a * C
           v == a * (a - 1)
<1>1. C \in Nat /\ u \in Int /\ v \in Int
  BY CeilDivision DEF GoodPlan
<1>2. (a + 1) * C = u + C /\ (a + 1) * (a + 1 - 1) = v + 2 * a
  BY <1>1
<1>3. CASE p.self_join
  <2>1. /\ TwiceBefore(p, a + 1, a + 1) = 2 * (u + C) - (v + 2 * a) + 2 * (a + 1 - (a + 1))
        /\ TwiceBefore(p, a, b) = 2 * u - v + 2 * (b - a)
    BY <1>2, <1>3 DEF TwiceBefore
  <2> HIDE DEF u, v
  <2> QED
    BY <1>1, <1>3, <2>1
<1>4. CASE ~p.self_join
  <2>1. /\ TwiceBefore(p, a + 1, 0) = 2 * (u + C) + 2 * 0
        /\ TwiceBefore(p, a, b) = 2 * u + 2 * b
    BY <1>2, <1>4 DEF TwiceBefore
  <2> HIDE DEF u, v
  <2> QED
    BY <1>1, <1>4, <2>1
<1> QED
  BY <1>3, <1>4

(* total_tiles: all the rows of tiles.                                     *)
(* After the last row the count is total_tiles.                            *)
LEMMA TotalIsAll ==
    ASSUME NEW p, GoodPlan(p), NEW a \in Nat, a = CeilDiv(p.rows, p.tile_size)
    PROVE  /\ TotalTiles(p) \in Int
           /\ 2 * TotalTiles(p) = TwiceBefore(p, a, IF p.self_join THEN a ELSE 0)
<1> DEFINE C == CeilDiv(p.columns, p.tile_size)
<1>1. C \in Nat /\ p.self_join \in BOOLEAN /\ (p.self_join => C = a)
  BY CeilDivision DEF GoodPlan
<1> HIDE DEF C
<1>2. CASE p.self_join
  <2>1. TotalTiles(p) = (a * (a + 1)) \div 2
    BY <1>2 DEF TotalTiles
  <2>2. \E h \in Nat : a * (a + 1) = 2 * h
    <3>1. \E h, r \in Nat : a = 2 * h + r /\ r < 2
      <4> DEFINE two == 2
      <4>1. two \in Nat \ {0}
        OBVIOUS
      <4> HIDE DEF two
      <4>2. /\ a \div two \in Nat /\ a % two \in Nat /\ a % two < two
            /\ a = two * (a \div two) + (a % two)
        BY <4>1, Division
      <4>3. \E h, r \in Nat : a = two * h + r /\ r < two
        BY <4>2
      <4> QED
        BY <4>3 DEF two
    <3>2. PICK h \in Nat, r \in Nat : a = 2 * h + r /\ r < 2
      BY <3>1
    <3>3. CASE r = 0
      <4>1. a * (a + 1) = 2 * (h * (a + 1))
        BY <3>2, <3>3
      <4> QED
        BY <4>1
    <3>4. CASE r = 1
      <4>1. a + 1 = 2 * (h + 1)
        BY <3>2, <3>4
      <4>2. a * (a + 1) = 2 * (a * (h + 1))
        BY <4>1
      <4> QED
        BY <4>2
    <3> QED
      BY <3>2, <3>3, <3>4
  <2>3. 2 * TotalTiles(p) = a * (a + 1) /\ TotalTiles(p) \in Int
    BY <2>1, <2>2
  <2>4. TwiceBefore(p, a, a) = 2 * (a * a) - a * (a - 1) + 2 * (a - a)
    BY <1>1, <1>2 DEF TwiceBefore, C
  <2>5. a * (a + 1) = a * a + a /\ a * (a - 1) = a * a - a /\ a * a \in Int
    OBVIOUS
  <2> QED
    BY <1>2, <2>3, <2>4, <2>5
<1>3. CASE ~p.self_join
  <2>1. TotalTiles(p) = a * C /\ a * C \in Int
    BY <1>1, <1>3 DEF TotalTiles, C
  <2>2. TwiceBefore(p, a, 0) = 2 * (a * C) + 2 * 0
    BY <1>3 DEF TwiceBefore, C
  <2> QED
    BY <1>3, <2>1, <2>2
<1> QED
  BY <1>1, <1>2, <1>3

----------------------------------------------------------------------------
(* The iterator's position is that of a corner, or after the last; it has  *)
(* yielded the tiles of the corners behind it, and as many as the closed   *)
(* form of total_tiles counts up to it.                                    *)
Position == <<row_start, column_start>>

Counted ==
    \E a, b \in Nat :
        /\ row_start = plan.tile_size * a /\ column_start = plan.tile_size * b
        /\ a <= CeilDiv(plan.rows, plan.tile_size)
        /\ a = CeilDiv(plan.rows, plan.tile_size) => b = IF plan.self_join THEN a ELSE 0
        /\ 2 * Len(tiles) = TwiceBefore(plan, a, b)

IteratorInv ==
    /\ total = TotalTiles(plan)
    /\ plan.self_join => row_start <= column_start
    /\ Rank(plan, Position) = Len(tiles)
    /\ \A k \in DOMAIN tiles : \E c \in Corners(plan) :
          Rank(plan, c) = k - 1 /\ tiles[k] = TileAt(plan, k - 1, c[1], c[2])
    /\ Counted

GridInv ==
    /\ pc \in {"validate", "search"} => tiles = <<>>
    /\ pc \in {"iterate", "exhausted"} => IteratorInv
    /\ pc = "exhausted" => row_start >= plan.rows

(* What the invariant says of a plan once it is made.                      *)
LEMMA PlanIsGood ==
    PlannerInv /\ pc \in {"iterate", "exhausted"} =>
        /\ GoodPlan(plan)
        /\ row_start \in Nat /\ column_start \in Nat
        /\ row_start < plan.rows => column_start < plan.columns
        /\ tiles \in Seq(TileType)
<1> SUFFICES ASSUME PlannerInv, pc \in {"iterate", "exhausted"}
             PROVE  /\ GoodPlan(plan)
                    /\ row_start \in Nat /\ column_start \in Nat
                    /\ row_start < plan.rows => column_start < plan.columns
                    /\ tiles \in Seq(TileType)
  OBVIOUS
<1>1. SearchInv /\ PlanInv /\ args \in RequestType /\ tiles \in Seq(TileType)
  BY RequestsAssumption DEF PlannerInv
<1>2. /\ args.rows \in Nat \ {0} /\ args.columns \in Nat \ {0}
      /\ args.keep_rows \in BOOLEAN /\ args.self_join \in BOOLEAN
      /\ args.self_join => args.rows = args.columns
      /\ best \in Int
  BY <1>1 DEF SearchInv, RequestType, Valid
<1>3. plan.tile_size \in Nat \ {0}
  BY <1>1, <1>2 DEF PlanInv
<1> QED
  BY <1>1, <1>2, <1>3 DEF GoodPlan, PlanInv

(* The generator stands at a corner and goes on to the next one.           *)
LEMMA YieldIteratorInv ==
    ASSUME PlannerInv, PlannerInv', IteratorInv, Yield
    PROVE  IteratorInv'
<1> DEFINE s == plan.tile_size
           here == Position
           n == Len(tiles)
<1>0. /\ GoodPlan(plan) /\ row_start \in Nat /\ column_start \in Nat
      /\ row_start < plan.rows /\ column_start < plan.columns
      /\ tiles \in Seq(TileType) /\ n \in Nat
      /\ plan' = plan /\ total' = total
      /\ tiles' = Append(tiles, TileAt(plan, n, row_start, column_start))
  BY PlanIsGood DEF Yield
<1>1. /\ s \in Nat \ {0} /\ plan.rows \in Nat \ {0} /\ plan.columns \in Nat \ {0}
      /\ plan.self_join \in BOOLEAN /\ plan.self_join => plan.rows = plan.columns
  BY <1>0 DEF GoodPlan
<1>2. PICK a \in Nat, b \in Nat :
         /\ row_start = s * a /\ column_start = s * b
         /\ a <= CeilDiv(plan.rows, s)
         /\ 2 * n = TwiceBefore(plan, a, b)
  BY DEF IteratorInv, Counted
<1>3. row_start % s = 0 /\ column_start % s = 0
  BY <1>0, <1>1, <1>2, Multiples
<1>4. here \in Corners(plan) /\ here[1] = row_start /\ here[2] = column_start
      /\ Rank(plan, here) = n
  BY <1>0, <1>1, <1>3 DEF Corners, Position, IteratorInv
<1>5. \/ /\ column_start + s < plan.columns
         /\ row_start' = row_start /\ column_start' = column_start + s
      \/ /\ plan.columns <= column_start + s
         /\ row_start' = row_start + s
         /\ column_start' = IF plan.self_join THEN row_start + s ELSE 0
  BY <1>0, <1>1 DEF Yield, FirstColumn
<1>6. row_start' \in Nat /\ column_start' \in Nat
  BY <1>0, <1>1, <1>5
<1>7. plan.self_join => row_start' <= column_start'
  BY <1>0, <1>1, <1>5 DEF IteratorInv
<1>8. Rank(plan, Position') = n + 1
  <2>1. ASSUME NEW d \in Corners(plan)
        PROVE  Precedes(d, Position') <=> Precedes(d, here) \/ d = here
    <3>1. /\ d = <<d[1], d[2]>> /\ d[1] \in Nat /\ d[2] \in Nat
          /\ d[1] % s = 0 /\ d[2] % s = 0 /\ d[2] < plan.columns
          /\ plan.self_join => d[1] <= d[2]
      BY <1>0, <1>1, CornersAreFinite DEF Corners
    <3>2. /\ row_start < d[1] => row_start + s <= d[1]
          /\ column_start < d[2] => column_start + s <= d[2]
      BY <1>0, <1>1, <1>3, <3>1, NextCorner
    <3>3. d = here <=> d[1] = row_start /\ d[2] = column_start
      BY <3>1 DEF Position
    <3>4. /\ Precedes(d, Position') <=>
                \/ d[1] < row_start'
                \/ d[1] = row_start' /\ d[2] < column_start'
          /\ Precedes(d, here) <=>
                \/ d[1] < row_start
                \/ d[1] = row_start /\ d[2] < column_start
      BY DEF Precedes, Position
    <3> HIDE DEF s, here
    <3>5. CASE row_start' = row_start /\ column_start' = column_start + s
      BY <1>0, <1>1, <3>1, <3>2, <3>3, <3>4, <3>5
    <3>6. CASE /\ plan.columns <= column_start + s
               /\ row_start' = row_start + s
               /\ column_start' = IF plan.self_join THEN row_start + s ELSE 0
      <4>1. d[1] = row_start => d[2] <= column_start
        BY <1>0, <1>1, <3>1, <3>2, <3>6
      <4>2. ~(d[1] = row_start' /\ d[2] < column_start')
        <5>1. CASE plan.self_join
          BY <1>0, <1>1, <3>1, <3>6, <5>1
        <5>2. CASE ~plan.self_join
          BY <1>0, <1>1, <3>1, <3>6, <5>2
        <5> QED
          BY <5>1, <5>2
      <4>3. d[1] < row_start' <=> d[1] <= row_start
        BY <1>0, <1>1, <3>1, <3>2, <3>6, SMTT(30)
      <4> QED
        BY <1>0, <3>1, <3>3, <3>4, <4>1, <4>2, <4>3
    <3> QED
      BY <1>5, <3>5, <3>6
  <2>2. Behind(plan, Position') = Behind(plan, here) \cup {here}
    BY <1>4, <2>1 DEF Behind
  <2>3. here \notin Behind(plan, here)
    BY <1>0, <1>4 DEF Behind, Precedes
  <2>4. IsFiniteSet(Behind(plan, here))
    BY <1>0, CornersAreFinite
  <2> HIDE DEF here
  <2>5. Cardinality(Behind(plan, here) \cup {here}) = Cardinality(Behind(plan, here)) + 1
    BY <2>3, <2>4, FS_AddElement
  <2> QED
    BY <1>4, <2>2, <2>5 DEF Rank
<1>9. \A k \in DOMAIN tiles' : \E c \in Corners(plan) :
         Rank(plan, c) = k - 1 /\ tiles'[k] = TileAt(plan, k - 1, c[1], c[2])
  <2> SUFFICES ASSUME NEW k \in DOMAIN tiles'
               PROVE  \E c \in Corners(plan) : /\ Rank(plan, c) = k - 1
                                               /\ tiles'[k] = TileAt(plan, k - 1, c[1], c[2])
    OBVIOUS
  <2> DEFINE tile == TileAt(plan, n, row_start, column_start)
  <2>0. tiles' = Append(tiles, tile) /\ DOMAIN tiles' = 1 .. n + 1
        /\ DOMAIN tiles = 1 .. n /\ tiles'[n + 1] = tile
        /\ \A i \in 1 .. n : tiles'[i] = tiles[i]
    <3>1. tile \in TileType
      <4>1. tiles' \in Seq(TileType)
        BY DEF PlannerInv
      <4>2. tiles' = Append(tiles, tile) /\ tiles'[n + 1] = tile /\ n + 1 \in DOMAIN tiles'
        BY <1>0
      <4> QED
        BY <4>1, <4>2
    <3> HIDE DEF tile
    <3> QED
      BY <1>0, <3>1 DEF tile
  <2>1. CASE k = n + 1
    <3>1. tiles'[k] = TileAt(plan, k - 1, here[1], here[2]) /\ k - 1 = n
      BY <1>0, <1>4, <2>0, <2>1
    <3> QED
      BY <1>4, <3>1
  <2>2. CASE k # n + 1
    <3>1. k \in DOMAIN tiles /\ tiles'[k] = tiles[k]
      BY <1>0, <2>0, <2>2
    <3> QED
      BY <3>1 DEF IteratorInv
  <2> QED
    BY <2>1, <2>2
<1>10. Len(tiles') = n + 1
  BY <1>0
<1>11. Counted'
  <2> DEFINE R == CeilDiv(plan.rows, s)
             C == CeilDiv(plan.columns, s)
  <2>0. /\ R \in Nat /\ C \in Nat /\ (plan.self_join => R = C)
        /\ \A q \in Nat : s * q < plan.rows <=> q < R
        /\ \A q \in Nat : s * q < plan.columns <=> q < C
    BY <1>1, CeilDivision
  <2>1. a < R /\ b < C
    BY <1>0, <1>2, <2>0
  <2>4. s * (a + 1) = s * a + s /\ s * (b + 1) = s * b + s /\ s * 0 = 0
    BY <1>1
  <2>2. CASE column_start + s < plan.columns
    <3>1. row_start' = s * a /\ column_start' = s * (b + 1)
      BY <1>1, <1>2, <1>5, <2>2, <1>0, SMTT(30)
    <3>2. 2 * (n + 1) = TwiceBefore(plan, a, b + 1)
      BY <1>0, <1>2, OneColumnOn
    <3> HIDE DEF R, C
    <3>3. a # R
      BY <2>0, <2>1
    <3> QED
      BY <1>0, <1>2, <1>10, <3>1, <3>2, <3>3 DEF Counted, R
  <2>3. CASE plan.columns <= column_start + s
    <3> DEFINE first == IF plan.self_join THEN a + 1 ELSE 0
    <3>5. /\ row_start' = row_start + s
          /\ column_start' = IF plan.self_join THEN row_start + s ELSE 0
      <4> HIDE DEF s
      <4> QED
        BY <1>0, <1>1, <1>5, <2>3
    <3>1. row_start' = s * (a + 1) /\ column_start' = s * first /\ first \in Nat
      <4>1. row_start' = s * (a + 1)
        BY <1>2, <2>4, <3>5
      <4>2. CASE plan.self_join
        BY <1>2, <2>4, <3>5, <4>1, <4>2
      <4>3. CASE ~plan.self_join
        BY <2>4, <3>5, <4>1, <4>3
      <4> QED
        BY <4>2, <4>3
    <3>2. b + 1 = C
      <4>1. ~(b + 1 < C)
        <5>1. s * (b + 1) = column_start + s
          BY <1>2, <2>4
        <5>2. ~(s * (b + 1) < plan.columns)
          <6> HIDE DEF s
          <6> QED
            BY <1>0, <1>1, <2>3, <5>1
        <5> HIDE DEF C, s
        <5> QED
          BY <2>0, <5>2
      <4> HIDE DEF C, s
      <4> QED
        BY <2>0, <2>1, <4>1
    <3>3. 2 * (n + 1) = TwiceBefore(plan, a + 1, first)
      <4>1. /\ TwiceBefore(plan, a + 1, first) = TwiceBefore(plan, a, b) + 2
            /\ TwiceBefore(plan, a, b) \in Int
        BY <1>0, <3>2, OneRowOn, OneColumnOn
      <4> HIDE DEF first
      <4> QED
        BY <1>0, <1>2, <4>1
    <3>4. a + 1 <= R /\ a + 1 \in Nat
      BY <2>0, <2>1
    <3> HIDE DEF R, C
    <3> QED
      BY <1>0, <1>10, <3>1, <3>3, <3>4 DEF Counted, R
  <2> QED
    BY <1>5, <2>2, <2>3
<1> HIDE DEF here
<1> QED
  BY <1>0, <1>7, <1>8, <1>9, <1>10, <1>11 DEF IteratorInv

(* Every step of a call keeps the order of the visits.                     *)
LEMMA NextGridInv == PlannerInv /\ PlannerInv' /\ GridInv /\ [PlannerNext]_planning => GridInv'
<1> SUFFICES ASSUME PlannerInv, PlannerInv', GridInv, [PlannerNext]_planning PROVE GridInv'
  OBVIOUS
<1>1. CASE UNCHANGED planning
  BY <1>1 DEF planning, search, iterator, GridInv, IteratorInv, Counted, Position
<1>2. CASE Reject \/ Accept \/ Halve \/ RefuseSize
  BY <1>2 DEF Reject, Accept, Halve, RefuseSize, search, iterator, GridInv, PlannerInv
<1>3. CASE Resolve
  <2>1. /\ tiles = <<>> /\ tiles' = <<>> /\ row_start' = 0 /\ column_start' = 0
        /\ pc' = "iterate" /\ total' = TotalTiles(plan)'
    BY <1>3 DEF Resolve, GridInv, PlannerInv, iterator
  <2>2. GoodPlan(plan')
    <3>1. GoodPlan(plan)'
      <4>1. (PlannerInv /\ pc \in {"iterate", "exhausted"})' => GoodPlan(plan)'
        BY PlanIsGood, PTL
      <4> QED
        BY <2>1, <4>1
    <3> QED
      BY <3>1 DEF GoodPlan
  <2>3. Rank(plan', <<0, 0>>) = 0
    <3>1. Behind(plan', <<0, 0>>) = {}
      BY <2>2, CornersAreFinite DEF Behind, Precedes
    <3> QED
      BY <3>1, FS_EmptySet DEF Rank
  <2>4. Counted'
    <3>1. CeilDiv(plan'.rows, plan'.tile_size) \in Nat \ {0} /\ plan'.tile_size \in Nat
      BY <2>2, CeilDivision DEF GoodPlan
    <3>2. TwiceBefore(plan', 0, 0) = 0 /\ Len(tiles') = 0
      <4>1. CeilDiv(plan'.columns, plan'.tile_size) \in Nat
        BY <2>2, CeilDivision DEF GoodPlan
      <4> QED
        BY <2>1, <4>1 DEF TwiceBefore
    <3> QED
      BY <2>1, <3>1, <3>2 DEF Counted
  <2>5. IteratorInv'
    BY <2>1, <2>3, <2>4 DEF IteratorInv, Position
  <2> QED
    BY <2>1, <2>5 DEF GridInv
<1>4. CASE Yield
  <2>1. pc = "iterate" /\ pc' = "iterate" /\ IteratorInv
    BY <1>4 DEF Yield, GridInv
  <2> QED
    BY <1>4, <2>1, YieldIteratorInv DEF GridInv
<1>5. CASE Exhaust
  BY <1>5 DEF Exhaust, search, iterator, GridInv, IteratorInv, Counted, Position
<1> QED
  BY <1>1, <1>2, <1>3, <1>4, <1>5 DEF PlannerNext

(* The generator visits the corners in their order.                        *)
THEOREM GridInvariance == PlannerSpec => []GridInv
<1>1. PlannerInit => GridInv
  BY DEF PlannerInit, GridInv
<1>2. PlannerInv /\ PlannerInv' /\ GridInv /\ [PlannerNext]_planning => GridInv'
  BY NextGridInv
<1> QED
  BY <1>1, <1>2, PlannerInvariance, PTL DEF PlannerSpec

(* When the generator is exhausted, every corner is behind it: the tiles   *)
(* are those of the plan, and as many as total_tiles announced.            *)
LEMMA ExhaustedTiles ==
    ASSUME PlannerInv, GridInv, pc = "exhausted"
    PROVE  GoodPlan(plan) /\ tiles = Tiles(plan) /\ Len(tiles) = total
<1>0. /\ GoodPlan(plan) /\ row_start \in Nat /\ column_start \in Nat
      /\ tiles \in Seq(TileType) /\ IteratorInv /\ row_start >= plan.rows
      /\ Len(tiles) \in Nat
  BY PlanIsGood DEF GridInv
<1>1. /\ plan.rows \in Nat \ {0} /\ plan.columns \in Nat \ {0} /\ plan.tile_size \in Nat \ {0}
      /\ plan.self_join \in BOOLEAN
  BY <1>0 DEF GoodPlan
<1>2. Len(tiles) = Cardinality(Corners(plan))
  <2>1. \A d \in Corners(plan) : d[1] < row_start
    BY <1>0, <1>1 DEF Corners
  <2>2. Behind(plan, Position) = Corners(plan)
    BY <2>1 DEF Behind, Precedes, Position
  <2> QED
    BY <1>0, <2>2 DEF IteratorInv, Rank
<1>3. tiles = Tiles(plan)
  <2>1. /\ DOMAIN tiles = 1 .. Len(tiles) /\ DOMAIN Tiles(plan) = 1 .. Len(tiles)
        /\ tiles = [k \in 1 .. Len(tiles) |-> tiles[k]]
    BY <1>0, <1>2, TilesAreCorners
  <2>2. ASSUME NEW k \in 1 .. Len(tiles) PROVE tiles[k] = Tiles(plan)[k]
    <3>1. PICK c \in Corners(plan) :
             Rank(plan, c) = k - 1 /\ tiles[k] = TileAt(plan, k - 1, c[1], c[2])
      BY <1>0, <2>1 DEF IteratorInv
    <3>2. PICK d \in Corners(plan) :
             Rank(plan, d) = k - 1 /\ Tiles(plan)[k] = TileAt(plan, k - 1, d[1], d[2])
      BY <1>0, <2>1, TilesAreCorners, SMTT(30)
    <3>3. c = d
      BY <1>0, <3>1, <3>2, RankIsUnique
    <3> QED
      BY <3>1, <3>2, <3>3
  <2>3. Tiles(plan) = [k \in 1 .. Len(tiles) |-> Tiles(plan)[k]]
    <3> DEFINE corner(k) == CHOOSE c \in Corners(plan) : Rank(plan, c) = k - 1
               tile(k) == TileAt(plan, k - 1, corner(k)[1], corner(k)[2])
    <3>1. Tiles(plan) = [k \in 1 .. Cardinality(Corners(plan)) |-> tile(k)]
      BY DEF Tiles, Rank, Behind
    <3> HIDE DEF tile
    <3> QED
      BY <1>2, <3>1
  <2> QED
    BY <2>1, <2>2, <2>3
<1>4. Len(tiles) = total
  <2> DEFINE R == CeilDiv(plan.rows, plan.tile_size)
  <2>0. R \in Nat /\ \A q \in Nat : plan.tile_size * q < plan.rows <=> q < R
    BY <1>1, CeilDivision
  <2>1. PICK a \in Nat, b \in Nat :
           /\ row_start = plan.tile_size * a
           /\ a <= R
           /\ a = R => b = IF plan.self_join THEN a ELSE 0
           /\ 2 * Len(tiles) = TwiceBefore(plan, a, b)
    BY <1>0 DEF IteratorInv, Counted
  <2>2. a = R
    <3> HIDE DEF R
    <3>1. ~(a < R)
      <4>1. ~(plan.tile_size * a < plan.rows)
        BY <1>0, <1>1, <2>1
      <4> QED
        BY <2>0, <4>1
    <3> QED
      BY <2>0, <2>1, <3>1
  <2>3. TotalTiles(plan) \in Int /\ 2 * TotalTiles(plan) = 2 * Len(tiles)
    BY <1>0, <2>1, <2>2, TotalIsAll
  <2> QED
    BY <1>0, <2>3 DEF IteratorInv
<1> QED
  BY <1>0, <1>3, <1>4

(* The tiles of a plan compare each pair once, and each end of a pair of a *)
(* self-join once, by a column slice or by the row slice of the transpose. *)
LEMMA PairsAreOnce ==
    ASSUME GoodPlan(plan), tiles = Tiles(plan),
           NEW r \in 0 .. plan.rows - 1, NEW c \in 0 .. plan.columns - 1
    PROVE  IF plan.self_join
           THEN ColumnTimes(c, r) + RowTimes(c, r) = 1
           ELSE /\ ColumnTimes(c, r) = 1
                /\ RowTimes(r, c) = IF plan.keep_rows THEN 1 ELSE 0
<1> DEFINE With(a, b) == TilesWithCorner(tiles, a, b)
<1>0. plan.self_join \in BOOLEAN /\ plan.keep_rows \in BOOLEAN
  BY DEF GoodPlan
<1>1. \A k \in DOMAIN tiles :
         tiles[k].compute_rows <=> IF plan.self_join
                                   THEN tiles[k].row_start # tiles[k].column_start
                                   ELSE plan.keep_rows
  BY TilesOfPair
<1>2. PICK a \in Nat, b \in Nat : CornerOfTiles(plan, tiles, r, c, a, b)
  BY TilesOfPair
<1>3. /\ Cardinality(With(a, b)) = IF <<a, b>> \in Corners(plan) THEN 1 ELSE 0
      /\ Cardinality(With(b, a)) = IF <<b, a>> \in Corners(plan) THEN 1 ELSE 0
  BY OneTileForEachCorner
<1>4. ColumnTimes(c, r) = Cardinality(With(a, b))
  <2>1. {k \in DOMAIN tiles : /\ Covers(tiles[k].column_start, tiles[k].column_stop, c)
                              /\ Covers(tiles[k].row_start, tiles[k].row_stop, r)}
           = {k \in DOMAIN tiles : InTile(tiles[k], r, c)}
    BY DEF InTile
  <2> QED
    BY <1>2, <2>1 DEF ColumnTimes, CornerOfTiles
<1>5. CASE plan.self_join
  <2>1. {k \in DOMAIN tiles :
            /\ tiles[k].compute_rows
            /\ Covers(tiles[k].row_start, tiles[k].row_stop, c)
            /\ Covers(tiles[k].column_start, tiles[k].column_stop, r)}
           = IF a = b THEN {} ELSE With(b, a)
    <3>1. \A k \in DOMAIN tiles :
             InTile(tiles[k], c, r) <=> tiles[k].row_start = b /\ tiles[k].column_start = a
      BY <1>2, <1>5 DEF TilesWithCorner, CornerOfTiles
    <3> QED
      BY <1>1, <1>5, <3>1 DEF InTile, TilesWithCorner
  <2>2. RowTimes(c, r) = IF a = b THEN 0 ELSE Cardinality(With(b, a))
    BY <2>1, FS_EmptySet DEF RowTimes
  <2> QED
    BY <1>2, <1>3, <1>4, <1>5, <2>2 DEF CornerOfTiles
<1>6. CASE ~plan.self_join
  <2>1. {k \in DOMAIN tiles :
            /\ tiles[k].compute_rows
            /\ Covers(tiles[k].row_start, tiles[k].row_stop, r)
            /\ Covers(tiles[k].column_start, tiles[k].column_stop, c)}
           = IF plan.keep_rows THEN With(a, b) ELSE {}
    <3>1. \A k \in DOMAIN tiles : InTile(tiles[k], r, c) <=> k \in With(a, b)
      BY <1>2 DEF CornerOfTiles
    <3> QED
      BY <1>1, <1>6, <3>1 DEF InTile, TilesWithCorner
  <2>2. RowTimes(r, c) = IF plan.keep_rows THEN Cardinality(With(a, b)) ELSE 0
    BY <2>1, FS_EmptySet DEF RowTimes
  <2> QED
    BY <1>2, <1>3, <1>4, <1>6, <2>2 DEF CornerOfTiles
<1> QED
  BY <1>5, <1>6

(* Every comparison of a join of any size is made exactly once, by as many *)
(* tiles as the progress reports were told: plan_1nn_tiles drops no part   *)
(* of the matrix and computes none of it twice.                            *)
THEOREM EveryPairIsOnce == PlannerSpec => []EveryPairOnce
<1>1. PlannerInv /\ GridInv => EveryPairOnce
  BY ExhaustedTiles, PairsAreOnce DEF EveryPairOnce
<1> QED
  BY <1>1, PlannerInvariance, GridInvariance, PTL

(* A join cut into the tiles of a plan: what the two components have in    *)
(* common.                                                                 *)
Planned(j) ==
    \E p : /\ GoodPlan(p)
           /\ j.rows = p.rows /\ j.columns = p.columns
           /\ j.self_join = p.self_join /\ j.keep_rows = p.keep_rows
           /\ j.tiles = Tiles(p)

(* The merge gets what it needs of the tiles.                              *)
LEMMA PlannedIsWellTiled ==
    ASSUME NEW j, Planned(j)
    PROVE  WellTiled(j)
BY PlansAreWellTiled DEF Planned

(* What a caller gets from plan_1nn_tiles is such a join: a request that   *)
(* is not rejected leads to tiles the coordinator can run.                 *)
PlansCanBeRun ==
    pc = "exhausted" =>
        \A j : /\ j.rows = args.rows /\ j.columns = args.columns
               /\ j.self_join = args.self_join /\ j.keep_rows = args.keep_rows
               /\ j.tiles = tiles
               => Planned(j)

(* plan_1nn_tiles: what it yields, from the first tile to the last, is a  *)
(* job that can be run, whatever was asked for.                            *)
THEOREM PlannedJobsAreRun == PlannerSpec => []PlansCanBeRun
<1>1. PlannerInv /\ EveryPairOnce => PlansCanBeRun
  <2>1. PlannerInv /\ pc = "exhausted" => GoodPlan(plan) /\ PlanInv
    BY PlanIsGood DEF PlannerInv
  <2> QED
    BY <2>1 DEF EveryPairOnce, PlansCanBeRun, Planned, PlanInv
<1> QED
  BY <1>1, PlannerInvariance, EveryPairIsOnce, PTL

----------------------------------------------------------------------------
(* The job.                                                                *)
(*                                                                         *)
(* The algebra of the merge: keeping the better of two entries keeps the   *)
(* best of all of them, so the order in which slices arrive cannot matter. *)

(* The sentinel is an entry, and no match looks like it.                   *)
LEMMA SentinelIsProper ==
    /\ Sentinel \in ProperEntry
    /\ \A e \in ProperEntry : e.value = InvalidValue <=> e = Sentinel
  BY ScaleAssumption DEF Sentinel, ProperEntry, Entry, InvalidValue, IsCorrelation

(* Merging one entry into a cell that holds the best of a set makes it     *)
(* hold the best of the set with that entry, sentinels apart.              *)
LEMMA BetterIsBest ==
    ASSUME NEW C, C \subseteq ProperEntry \ {Sentinel},
           NEW current \in ProperEntry, IsBestOf(current, C),
           NEW new \in ProperEntry
    PROVE  /\ Better(new, current) \in ProperEntry
           /\ IsBestOf(Better(new, current), (C \cup {new}) \ {Sentinel})
<1> DEFINE D == (C \cup {new}) \ {Sentinel}
<1>1. Better(new, current) \in ProperEntry
  BY DEF Better
<1>2. CASE new = Sentinel
  <2>1. D = C
    BY <1>2
  <2>2. ~Beats(new, current)
    BY <1>2, ScaleAssumption
    DEF Beats, Sentinel, ProperEntry, Entry, InvalidValue, IsCorrelation
  <2> QED
    BY <1>1, <2>1, <2>2 DEF Better
<1>3. CASE new # Sentinel /\ C = {}
  <2>1. current = Sentinel /\ D = {new}
    BY <1>3 DEF IsBestOf
  <2>2. Beats(new, current)
    BY <1>3, <2>1, ScaleAssumption
    DEF Beats, Sentinel, ProperEntry, Entry, InvalidValue, IsCorrelation
  <2>3. IsBestOf(new, {new})
    BY DEF IsBestOf, ProperEntry, Entry
  <2> QED
    BY <1>1, <2>1, <2>2, <2>3 DEF Better
<1>4. CASE new # Sentinel /\ C # {}
  <2>1. D = C \cup {new} /\ D # {}
    BY <1>4
  <2>2. /\ current \in C
        /\ \A e \in C : \/ e.value < current.value
                        \/ e.value = current.value /\ current.index <= e.index
    BY <1>4 DEF IsBestOf
  <2>3. /\ current.index >= 0 /\ new.index >= 0
        /\ current.value \in Int /\ new.value \in Int
        /\ current.index \in Int /\ new.index \in Int
        /\ \A e \in C : e.value \in Int /\ e.index \in Int
    BY <1>4, <2>2 DEF ProperEntry, Entry
  <2>4. CASE Beats(new, current)
    <3>1. \A e \in D : \/ e.value < new.value
                       \/ e.value = new.value /\ new.index <= e.index
      BY <2>1, <2>2, <2>3, <2>4 DEF Beats
    <3> QED
      BY <1>1, <2>1, <2>4, <3>1 DEF Better, IsBestOf
  <2>5. CASE ~Beats(new, current)
    <3>1. \A e \in D : \/ e.value < current.value
                       \/ e.value = current.value /\ current.index <= e.index
      BY <2>1, <2>2, <2>3, <2>5 DEF Beats
    <3> QED
      BY <1>1, <2>1, <2>2, <2>5, <3>1 DEF Better, IsBestOf
  <2> QED
    BY <2>4, <2>5
<1> QED
  BY <1>1, <1>2, <1>3, <1>4

(* The best of a set is one entry: two profiles that are each the best of  *)
(* the same candidates agree.                                              *)
THEOREM BestIsUnique ==
    ASSUME NEW C, C \subseteq ProperEntry,
           NEW a, NEW b, IsBestOf(a, C), IsBestOf(b, C)
    PROVE  a = b
<1>1. CASE C = {}
  BY <1>1 DEF IsBestOf
<1>2. CASE C # {}
  <2>1. a \in C /\ b \in C
    BY <1>2 DEF IsBestOf
  <2>2. a \in Entry /\ b \in Entry
    BY <2>1 DEF ProperEntry
  <2>3. a.value = b.value /\ a.index = b.index
    BY <1>2, <2>1, <2>2 DEF IsBestOf, Entry
  <2> QED
    BY <2>2, <2>3 DEF Entry
<1> QED
  BY <1>1, <1>2

(* The best of the bests of parts is the best of the whole.                *)
LEMMA BestOfBests ==
    ASSUME NEW U, U \subseteq ProperEntry \ {Sentinel},
           NEW S, S \subseteq ProperEntry,
           \A b \in S : \E M \in SUBSET U : IsBestOf(b, M),
           \A x \in U : \E b \in S : \E M \in SUBSET U : x \in M /\ IsBestOf(b, M),
           NEW e, IsBestOf(e, S \ {Sentinel})
    PROVE  IsBestOf(e, U)
<1>1. CASE S \ {Sentinel} = {}
  <2>1. ASSUME NEW x \in U PROVE FALSE
    <3>1. PICK b \in S : \E M \in SUBSET U : x \in M /\ IsBestOf(b, M)
      OBVIOUS
    <3>2. PICK M \in SUBSET U : x \in M /\ IsBestOf(b, M)
      BY <3>1
    <3>3. b \in U
      BY <3>2 DEF IsBestOf
    <3> QED
      BY <1>1, <3>3
  <2> QED
    BY <1>1, <2>1 DEF IsBestOf
<1>2. CASE S \ {Sentinel} # {}
  <2> DEFINE C == S \ {Sentinel}
  <2>0. IsBestOf(e, C) /\ C # {}
    BY <1>2
  <2> HIDE DEF C
  <2>1. /\ e \in C
        /\ \A b \in C : \/ b.value < e.value
                        \/ b.value = e.value /\ e.index <= b.index
    BY <2>0 DEF IsBestOf
  <2> USE DEF C
  <2>2. e \in U
    <3>1. PICK M \in SUBSET U : IsBestOf(e, M)
      BY <2>1
    <3> QED
      BY <2>1, <3>1 DEF IsBestOf
  <2>3. ASSUME NEW x \in U
        PROVE  x.value < e.value \/ (x.value = e.value /\ e.index <= x.index)
    <3>1. PICK b \in S : \E M \in SUBSET U : x \in M /\ IsBestOf(b, M)
      OBVIOUS
    <3>2. /\ b \in U
          /\ x.value < b.value \/ (x.value = b.value /\ b.index <= x.index)
      <4>1. PICK M \in SUBSET U : x \in M /\ IsBestOf(b, M)
        BY <3>1
      <4> QED
        BY <4>1 DEF IsBestOf
    <3>3. b.value < e.value \/ (b.value = e.value /\ e.index <= b.index)
      BY <2>1, <3>2
    <3>4. /\ x.value \in Int /\ b.value \in Int /\ e.value \in Int
          /\ x.index \in Int /\ b.index \in Int /\ e.index \in Int
      BY <2>2, <3>2 DEF ProperEntry, Entry
    <3> QED
      BY <3>2, <3>3, <3>4
  <2> QED
    BY <2>2, <2>3 DEF IsBestOf
<1> QED
  BY <1>1, <1>2

----------------------------------------------------------------------------

(* Merging an acceptable slice into a profile of correlations and          *)
(* sentinels leaves one: _apply_profile_slice checks before it assigns.    *)
LEMMA ApplyKeepsEntries ==
    ASSUME NEW D, NEW p \in [D -> ProperEntry], NEW side, NEW slice,
           NEW start \in Nat, NEW stop \in Nat, NEW first, NEW last,
           Acceptable(slice, start, stop, first, last)
    PROVE  ApplySlice(p, side, slice, start, stop) \in [D -> ProperEntry]
<1> SUFFICES ASSUME NEW cell \in D, cell[2] \in Positions(start, stop)
             PROVE  Better(EntryAt(slice, cell[2]), p[cell]) \in ProperEntry
  BY DEF ApplySlice
<1>1. EntryAt(slice, cell[2]) \in ProperEntry
  BY DEF Acceptable
<1> QED
  BY <1>1 DEF Better

(* Every answer that is merged leaves correlations and sentinels.          *)
LEMMA MergeKeepsEntries ==
    ASSUME TypeOK, NEW k \in Ordinals, ColumnAcceptable(k)
    PROVE  /\ WithColumns(k) \in [Cells(job) -> ProperEntry]
           /\ RowAcceptable(k) =>
                 WithRows(k, WithColumns(k)) \in [Cells(job) -> ProperEntry]
<1>1. TileOf(k) \in Tile
  BY JobsAssumption DEF TypeOK, TileOf, Ordinals, Total
<1>2. WithColumns(k) \in [Cells(job) -> ProperEntry]
  BY <1>1, ApplyKeepsEntries DEF TypeOK, ColumnAcceptable, WithColumns, Tile
<1>3. ASSUME RowAcceptable(k)
      PROVE  WithRows(k, WithColumns(k)) \in [Cells(job) -> ProperEntry]
  BY <1>1, <1>2, <1>3, ApplyKeepsEntries DEF RowAcceptable, WithRows, Tile
<1> QED
  BY <1>2, <1>3

LEMMA TotalIsNat == ASSUME TypeOK PROVE Total(job) \in Nat
  BY JobsAssumption DEF TypeOK, Total

----------------------------------------------------------------------------
(* Type correctness: whatever workers answer, the coordinator's state is   *)
(* well formed and its profile never holds anything but correlations with  *)
(* an index and sentinels.                                                 *)
LEMMA InitTypeOK == Init => TypeOK
<1> SUFFICES ASSUME Init PROVE TypeOK
  OBVIOUS
<1>1. Total(job) \in Nat
  BY JobsAssumption DEF Init, Total
<1> QED
  BY <1>1, LimitsAssumption, SentinelIsProper DEF Init, TypeOK, Ordinals

LEMMA NextTypeOK == TypeOK /\ [Next]_vars => TypeOK'
<1> SUFFICES ASSUME TypeOK, [Next]_vars PROVE TypeOK'
  OBVIOUS
<1> USE DEF TypeOK, Ordinals
<1>0. Total(job) \in Nat
  BY TotalIsNat
<1>1. CASE Caller
  <2>1. CASE \E serving \in 1 .. PoolSize : Start(serving)
    BY <2>1, LimitsAssumption DEF Start, threads, report
  <2>2. CASE Refuse \/ Filled \/ Return \/ ShutDown
    BY <2>2 DEF Refuse, Filled, Return, ShutDown, threads, report
  <2>3. CASE Fill
    BY <1>0, <2>3 DEF Fill, MayFill, SubmitNext, report
  <2>4. CASE Wait
    BY <2>4 DEF Wait, Finished, threads, report
  <2>5. ASSUME NEW k \in Ordinals, HandleError(k) \/ HandleBadColumns(k)
        PROVE  TypeOK'
    BY <2>5 DEF HandleError, HandleBadColumns, threads, report
  <2>6. ASSUME NEW k \in Ordinals, HandleBadRows(k)
        PROVE  TypeOK'
    BY <2>6, MergeKeepsEntries DEF HandleBadRows, threads, report
  <2>7. ASSUME NEW k \in Ordinals, Merge(k)
        PROVE  /\ profile' \in [Cells(job) -> ProperEntry]
               /\ merged' \subseteq Ordinals
               /\ completed' \in Nat /\ retries' \in Nat
    <3>1. attempt[k] \in Nat
      BY LimitsAssumption
    <3> QED
      BY <2>7, <3>1, MergeKeepsEntries DEF Merge
  <2>8. ASSUME NEW k \in Ordinals, Handle(k)
        PROVE  TypeOK'
    <3>1. Merge(k)
      BY <2>8 DEF Handle
    <3>2. /\ profile' \in [Cells(job) -> ProperEntry]
          /\ merged' \subseteq Ordinals
          /\ completed' \in Nat /\ retries' \in Nat
      BY <2>7, <3>1
    <3>3. /\ next' \in 0 .. Total(job)
          /\ pending' \subseteq Ordinals
          /\ task' \in [Ordinals -> {"unsubmitted", "queued", "running", "returned",
                                    "raised", "cancelled"}]
      <4>1. CASE next < Total(job)
        <5>1. SubmitNext(pending \ {k})
          BY <2>8, <4>1 DEF Handle
        <5>2. next \in Ordinals /\ next \in Nat
          BY <1>0, <4>1
        <5> QED
          BY <1>0, <4>1, <5>1, <5>2 DEF SubmitNext
      <4>2. CASE ~(next < Total(job))
        BY <2>8, <4>2 DEF Handle
      <4> QED
        BY <4>1, <4>2
    <3>4. done' \subseteq Ordinals /\ phase' \in {"waiting", "handling"}
      BY <2>8 DEF Handle
    <3>5. /\ job' = job /\ limit' = limit
          /\ attempt' = attempt /\ answer' = answer
      BY <2>8 DEF Handle
    <3> QED
      BY <3>2, <3>3, <3>4, <3>5
  <2>9. ASSUME NEW k \in Ordinals, HandleThenRaise(k)
        PROVE  TypeOK'
    <3>1. Merge(k)
      BY <2>9 DEF HandleThenRaise
    <3> QED
      BY <2>7, <2>9, <3>1 DEF HandleThenRaise, threads
  <2>10. ASSUME NEW k \in Ordinals, Cancel(k)
         PROVE  TypeOK'
    BY <2>10 DEF Cancel, report
  <2> QED
    BY <1>1, <2>1, <2>2, <2>3, <2>4, <2>5, <2>6, <2>8, <2>9, <2>10 DEF Caller
<1>2. CASE Thread
  <2>1. ASSUME NEW k \in Ordinals, Begin(k) \/ Raise(k)
        PROVE  TypeOK'
    BY <2>1 DEF Begin, Raise, calling, report
  <2>2. ASSUME NEW k \in Ordinals, Succeed(k)
        PROVE  TypeOK'
    BY <2>2, AnswersAssumption DEF Succeed, calling, report
  <2>3. ASSUME NEW k \in Ordinals, Retry(k)
        PROVE  TypeOK'
    BY <2>3, LimitsAssumption DEF Retry, calling, report
  <2> QED
    BY <1>2, <2>1, <2>2, <2>3 DEF Thread
<1>3. CASE UNCHANGED vars
  BY <1>3 DEF vars, threads, report
<1> QED
  BY <1>1, <1>2, <1>3 DEF Next

THEOREM TypeCorrect == Spec => []TypeOK
<1>1. Init => TypeOK
  BY InitTypeOK
<1>2. TypeOK /\ [Next]_vars => TypeOK'
  BY NextTypeOK
<1> QED
  BY <1>1, <1>2, PTL DEF Spec

----------------------------------------------------------------------------
(* The futures' bookkeeping.                                               *)
LEMMA NextFuturesInv ==
    TypeOK /\ FuturesInv /\ CallerInv /\ [Next]_vars => FuturesInv'
<1> SUFFICES ASSUME TypeOK, FuturesInv, CallerInv, [Next]_vars PROVE FuturesInv'
  OBVIOUS
<1>0. /\ Total(job) \in Nat /\ next \in Nat /\ next <= Total(job)
      /\ job' = job /\ Ordinals' = Ordinals
      /\ task \in [Ordinals -> {"unsubmitted", "queued", "running", "returned",
                                "raised", "cancelled"}]
      /\ answer \in [Ordinals -> Answer \cup {NoAnswer}]
  <2>1. Total(job) \in Nat
    BY TotalIsNat
  <2>2. job' = job
    BY DEF Next, Caller, Thread, vars, Start, Refuse, Fill, Filled, Wait, Return,
           ShutDown, HandleError, HandleBadColumns, HandleBadRows, Handle,
           HandleThenRaise, Cancel, Begin, Succeed, Retry, Raise, calling
  <2> QED
    BY <2>1, <2>2 DEF TypeOK, Ordinals
<1> USE DEF FuturesInv
<1>1. ASSUME next < Total(job), NEW rest \in SUBSET pending,
             \A k \in pending \ rest : task[k] \in {"returned", "raised"},
             SubmitNext(rest), answer' = answer
      PROVE  FuturesInv'
  BY <1>0, <1>1 DEF SubmitNext, Ordinals
<1>2. CASE Caller
  <2>1. CASE \E serving \in 1 .. PoolSize : Start(serving)
    BY <1>0, <2>1 DEF Start, threads
  <2>2. CASE Refuse \/ Filled \/ Wait \/ Return \/ ShutDown
    BY <1>0, <2>2 DEF Refuse, Filled, Wait, Return, ShutDown, threads
  <2>3. CASE Fill
    BY <1>0, <1>1, <2>3 DEF Fill, MayFill
  <2>4. ASSUME NEW k \in Ordinals, phase = "handling", IsNext(k)
        PROVE  k \in pending /\ task[k] \in {"returned", "raised"}
    BY <2>4 DEF IsNext, CallerInv, Finished
  <2>5. ASSUME NEW k \in Ordinals,
               \/ HandleError(k) \/ HandleBadColumns(k) \/ HandleBadRows(k)
               \/ HandleThenRaise(k)
        PROVE  FuturesInv'
    <3>1. /\ pending' = pending \ {k} /\ next' = next
          /\ task' = task /\ answer' = answer
          /\ phase = "handling" /\ IsNext(k)
      BY <2>5 DEF HandleError, HandleBadColumns, HandleBadRows, HandleThenRaise,
                  Merge, threads
    <3> QED
      BY <1>0, <2>4, <3>1
  <2>6. ASSUME NEW k \in Ordinals, Handle(k)
        PROVE  FuturesInv'
    <3>1. k \in pending /\ task[k] \in {"returned", "raised"} /\ answer' = answer
      BY <2>4, <2>6 DEF Handle, Merge
    <3>2. CASE next < Total(job)
      BY <1>1, <2>6, <3>1, <3>2 DEF Handle
    <3>3. CASE ~(next < Total(job))
      BY <1>0, <2>6, <3>1, <3>3 DEF Handle
    <3> QED
      BY <3>2, <3>3
  <2>7. ASSUME NEW k \in Ordinals, Cancel(k)
        PROVE  FuturesInv'
    BY <1>0, <2>7 DEF Cancel
  <2> QED
    BY <1>2, <2>1, <2>2, <2>3, <2>5, <2>6, <2>7 DEF Caller
<1>3. CASE Thread
  <2>1. ASSUME NEW k \in Ordinals, Begin(k) \/ Retry(k) \/ Raise(k)
        PROVE  FuturesInv'
    BY <1>0, <2>1 DEF Begin, Retry, Raise, calling
  <2>2. ASSUME NEW k \in Ordinals, Succeed(k)
        PROVE  FuturesInv'
    <3>1. PICK a \in Answers(job, k) : answer' = [answer EXCEPT ![k] = a]
      BY <2>2 DEF Succeed
    <3>2. a \in Answer
      BY AnswersAssumption DEF TypeOK, Ordinals
    <3> QED
      BY <1>0, <2>2, <3>1, <3>2 DEF Succeed, calling
  <2> QED
    BY <1>3, <2>1, <2>2 DEF Thread
<1>4. CASE UNCHANGED vars
  BY <1>0, <1>4 DEF vars, threads
<1> QED
  BY <1>2, <1>3, <1>4 DEF Next

----------------------------------------------------------------------------
(* Where the calling thread is, and what it can rely on there.             *)
LEMMA NextCallerInv ==
    /\ TypeOK /\ FuturesInv /\ CallerInv /\ NoTileLostOrTwice
    /\ [Next]_vars
    => CallerInv'
<1> SUFFICES ASSUME TypeOK, FuturesInv, CallerInv, NoTileLostOrTwice, [Next]_vars
             PROVE  CallerInv'
  OBVIOUS
<1>0. /\ Total(job) \in Nat /\ next \in Nat /\ next <= Total(job)
      /\ limit \in Nat
      /\ task \in [Ordinals -> {"unsubmitted", "queued", "running", "returned",
                                "raised", "cancelled"}]
      /\ pending \subseteq Ordinals /\ Ordinals = 0 .. Total(job) - 1
  BY TotalIsNat DEF TypeOK, Ordinals
<1> USE DEF CallerInv
<1>1. CASE \E serving \in 1 .. PoolSize : Start(serving)
  BY <1>0, <1>1, LimitsAssumption DEF Start, threads
<1>2. CASE Refuse
  BY <1>0, <1>2 DEF Refuse, FuturesInv, threads, Ordinals
<1>3. CASE Fill
  BY <1>0, <1>3 DEF Fill, SubmitNext
<1>4. CASE Filled
  <2>1. next = Total(job) \/ pending # {}
    <3> SUFFICES ASSUME next # Total(job) PROVE pending # {}
      OBVIOUS
    <3>1. next >= 1 /\ merged = {} /\ Sound
      BY <1>0, <1>4 DEF Filled, MayFill, Sound
    <3>2. 0 \in pending \cup merged
      BY <1>0, <3>1 DEF NoTileLostOrTwice
    <3> QED
      BY <3>1, <3>2
  <2> QED
    BY <1>0, <1>4, <2>1 DEF Filled, threads
<1>5. CASE Wait
  BY <1>0, <1>5 DEF Wait, Finished, threads
<1>6. CASE Return
  BY <1>0, <1>6 DEF Return, threads
<1>7. CASE ShutDown
  BY <1>0, <1>7 DEF ShutDown, FuturesInv, threads, Ordinals
<1>8. ASSUME NEW k \in Ordinals,
             \/ HandleError(k) \/ HandleBadColumns(k) \/ HandleBadRows(k)
             \/ HandleThenRaise(k) \/ Cancel(k)
      PROVE  CallerInv'
  BY <1>8 DEF HandleError, HandleBadColumns, HandleBadRows, HandleThenRaise, Cancel
<1>9. ASSUME NEW k \in Ordinals, Handle(k)
      PROVE  CallerInv'
  <2>1. /\ k \in done /\ done \subseteq Finished /\ limit' = limit /\ job' = job
        /\ limit >= 1
        /\ done' = done \ {k}
        /\ phase' = IF done' = {} THEN "waiting" ELSE "handling"
    BY <1>9 DEF Handle, Merge, IsNext
  <2>2. CASE next < Total(job)
    <3>1. SubmitNext(pending \ {k})
      BY <1>9, <2>2 DEF Handle
    <3>2. next \in Ordinals /\ next \notin done
      BY <1>0, <2>1, <2>2 DEF FuturesInv, Finished
    <3>3. done' \subseteq Finished'
      BY <1>0, <2>1, <3>1, <3>2 DEF SubmitNext, Finished
    <3>4. pending' # {}
      BY <3>1 DEF SubmitNext
    <3> QED
      BY <2>1, <3>3, <3>4
  <2>3. CASE ~(next < Total(job))
    <3>1. next' = Total(job)' /\ done' \subseteq Finished'
      BY <1>0, <1>9, <2>1, <2>3 DEF Handle, Finished, Total
    <3> QED
      BY <2>1, <3>1
  <2> QED
    BY <2>2, <2>3
<1>10. CASE Thread
  <2>1. PICK k \in Ordinals : Begin(k) \/ Succeed(k) \/ Retry(k) \/ Raise(k)
    BY <1>10 DEF Thread
  <2>2. /\ UNCHANGED <<job, phase, limit, next, pending, done, merged>>
        /\ task[k] \in {"queued", "running"}
        /\ \A m \in Ordinals : m # k => task'[m] = task[m]
        /\ Ordinals' = Ordinals /\ Total(job)' = Total(job)
    BY <1>0, <2>1 DEF Begin, Succeed, Retry, Raise, calling, Ordinals
  <2>3. phase # "failed"
    BY <2>2
  <2>4. phase = "handling" => done' \subseteq Finished'
    BY <1>0, <2>2 DEF Finished
  <2> QED
    BY <2>2, <2>3, <2>4
<1>11. CASE UNCHANGED vars
  BY <1>11 DEF vars, threads, Finished, Ordinals
<1> QED
  BY <1>1, <1>2, <1>3, <1>4, <1>5, <1>6, <1>7, <1>8, <1>9, <1>10, <1>11 DEF Next, Caller

(* Every merged answer passed the checks, and is the one its future holds. *)
LEMMA NextAcceptedInv ==
    TypeOK /\ FuturesInv /\ CallerInv /\ AcceptedInv /\ [Next]_vars => AcceptedInv'
<1> SUFFICES ASSUME TypeOK, FuturesInv, CallerInv, AcceptedInv, [Next]_vars,
                    NEW m \in merged'
             PROVE  task'[m] = "returned" /\ ColumnAcceptable(m)' /\ RowAcceptable(m)'
  BY DEF AcceptedInv
<1>0. /\ Total(job) \in Nat /\ next \in Nat
      /\ merged \subseteq Ordinals /\ Ordinals = 0 .. Total(job) - 1
      /\ task \in [Ordinals -> {"unsubmitted", "queued", "running", "returned",
                                "raised", "cancelled"}]
      /\ answer \in [Ordinals -> Answer \cup {NoAnswer}]
  BY TotalIsNat DEF TypeOK, Ordinals
<1>1. ASSUME m \in Ordinals, task[m] = "returned",
             ColumnAcceptable(m), RowAcceptable(m),
             job' = job, task'[m] = task[m], answer'[m] = answer[m]
      PROVE  task'[m] = "returned" /\ ColumnAcceptable(m)' /\ RowAcceptable(m)'
  BY <1>1 DEF ColumnAcceptable, RowAcceptable, TileOf
<1>2. ASSUME m \in merged,
             job' = job, task'[m] = task[m], answer'[m] = answer[m]
      PROVE  task'[m] = "returned" /\ ColumnAcceptable(m)' /\ RowAcceptable(m)'
  BY <1>0, <1>1, <1>2 DEF AcceptedInv
<1>3. CASE \/ \E serving \in 1 .. PoolSize : Start(serving)
           \/ Refuse \/ Filled \/ Wait \/ Return \/ ShutDown \/ UNCHANGED vars
  BY <1>2, <1>3 DEF Start, Refuse, Filled, Wait, Return, ShutDown, threads, vars
<1>4. CASE Fill
  <2>1. m \in merged /\ job' = job /\ answer' = answer /\ SubmitNext(pending)
        /\ next < Total(job)
    BY <1>4 DEF Fill, MayFill
  <2>2. m # next
    BY <1>0, <2>1 DEF FuturesInv, AcceptedInv
  <2> QED
    BY <1>0, <1>2, <2>1, <2>2 DEF SubmitNext
<1>5. ASSUME NEW k \in Ordinals,
             HandleError(k) \/ HandleBadColumns(k) \/ HandleBadRows(k)
      PROVE  task'[m] = "returned" /\ ColumnAcceptable(m)' /\ RowAcceptable(m)'
  BY <1>2, <1>5 DEF HandleError, HandleBadColumns, HandleBadRows, threads
<1>6. ASSUME NEW k \in Ordinals, Cancel(k)
      PROVE  task'[m] = "returned" /\ ColumnAcceptable(m)' /\ RowAcceptable(m)'
  <2>1. m \in merged /\ m # k
    BY <1>6 DEF Cancel, AcceptedInv
  <2> QED
    BY <1>0, <1>2, <1>6, <2>1 DEF Cancel
<1>7. ASSUME NEW k \in Ordinals, Handle(k) \/ HandleThenRaise(k)
      PROVE  task'[m] = "returned" /\ ColumnAcceptable(m)' /\ RowAcceptable(m)'
  <2>1. /\ m \in Ordinals /\ task[m] = "returned"
        /\ ColumnAcceptable(m) /\ RowAcceptable(m)
        /\ job' = job /\ answer' = answer
    BY <1>0, <1>7 DEF Handle, HandleThenRaise, Merge, AcceptedInv, threads
  <2>2. m # next \/ ~(next < Total(job))
    BY <1>0, <2>1 DEF FuturesInv
  <2>3. task'[m] = task[m]
    BY <1>0, <1>7, <2>1, <2>2 DEF Handle, HandleThenRaise, SubmitNext, threads
  <2> QED
    BY <1>1, <2>1, <2>3
<1>8. CASE Thread
  <2>1. PICK k \in Ordinals : Begin(k) \/ Succeed(k) \/ Retry(k) \/ Raise(k)
    BY <1>8 DEF Thread
  <2>2. m \in merged /\ task[k] \in {"queued", "running"} /\ job' = job
    BY <2>1 DEF Begin, Succeed, Retry, Raise, calling
  <2>3. m # k /\ m \in Ordinals
    BY <1>0, <2>2 DEF AcceptedInv
  <2>4. task'[m] = task[m] /\ answer'[m] = answer[m]
    BY <1>0, <2>1, <2>3 DEF Begin, Succeed, Retry, Raise
  <2> QED
    BY <1>2, <2>2, <2>4
<1> QED
  BY <1>3, <1>4, <1>5, <1>6, <1>7, <1>8 DEF Next, Caller

----------------------------------------------------------------------------
(* What an accepted answer says is a correlation or a sentinel.            *)
LEMMA SaidIsProper ==
    ASSUME NEW k, ColumnAcceptable(k), RowAcceptable(k), NEW cell
    PROVE  Said(k, cell) \subseteq ProperEntry
<1>1. ColumnSaid(k, cell) \subseteq ProperEntry
  BY DEF ColumnSaid, ColumnAcceptable, Acceptable
<1>2. RowSaid(k, cell) \subseteq ProperEntry
  BY DEF RowSaid, RowAcceptable, Acceptable
<1> QED
  BY <1>1, <1>2 DEF Said

(* Merging one slice extends the best of what was said by what it says.    *)
LEMMA ApplyExtendsBest ==
    ASSUME NEW D, NEW p \in [D -> ProperEntry], NEW side, NEW slice,
           NEW start, NEW stop, NEW first, NEW last,
           Acceptable(slice, start, stop, first, last),
           NEW cell \in D, NEW C, C \subseteq ProperEntry \ {Sentinel},
           IsBestOf(p[cell], C)
    PROVE  IsBestOf(ApplySlice(p, side, slice, start, stop)[cell],
                    (C \cup IF cell[1] = side /\ cell[2] \in Positions(start, stop)
                            THEN {EntryAt(slice, cell[2])} ELSE {}) \ {Sentinel})
<1> DEFINE A == IF cell[1] = side /\ cell[2] \in Positions(start, stop)
                THEN {EntryAt(slice, cell[2])} ELSE {}
<1>1. CASE cell[1] = side /\ cell[2] \in Positions(start, stop)
  <2>1. EntryAt(slice, cell[2]) \in ProperEntry
    BY <1>1 DEF Acceptable
  <2>2. ApplySlice(p, side, slice, start, stop)[cell]
            = Better(EntryAt(slice, cell[2]), p[cell])
    BY <1>1 DEF ApplySlice
  <2> QED
    BY <1>1, <2>1, <2>2, BetterIsBest
<1>2. CASE ~(cell[1] = side /\ cell[2] \in Positions(start, stop))
  <2>1. ApplySlice(p, side, slice, start, stop)[cell] = p[cell]
    BY <1>2 DEF ApplySlice
  <2>2. (C \cup A) \ {Sentinel} = C
    BY <1>2
  <2> QED
    BY <2>1, <2>2
<1> QED
  BY <1>1, <1>2

(* Handling an answer merges both of its slices into every cell.           *)
LEMMA MergeExtendsBest ==
    ASSUME TypeOK, AcceptedInv, NEW k \in Ordinals, Merge(k),
           NEW cell \in Cells(job), IsBestOf(profile[cell], Candidates(cell))
    PROVE  IsBestOf(profile'[cell], (Candidates(cell) \cup Said(k, cell)) \ {Sentinel})
<1> DEFINE C == Candidates(cell)
           C1 == (C \cup ColumnSaid(k, cell)) \ {Sentinel}
           C2 == (C1 \cup RowSaid(k, cell)) \ {Sentinel}
<1>0. ColumnAcceptable(k) /\ RowAcceptable(k)
  BY DEF Merge
<1>1. C \subseteq ProperEntry \ {Sentinel}
  BY SaidIsProper DEF Candidates, AcceptedInv
<1>2. C1 \subseteq ProperEntry \ {Sentinel}
  BY <1>0, <1>1, SaidIsProper DEF Said
<1>3. WithColumns(k) \in [Cells(job) -> ProperEntry]
  BY <1>0, MergeKeepsEntries
<1>4. IsBestOf(WithColumns(k)[cell], C1)
  <2>1. profile \in [Cells(job) -> ProperEntry] /\ IsBestOf(profile[cell], C)
    BY DEF TypeOK
  <2>2. Acceptable(answer[k].column_profile,
                   TileOf(k).column_start, TileOf(k).column_stop,
                   TileOf(k).row_start, TileOf(k).row_stop)
    BY <1>0 DEF ColumnAcceptable
  <2> QED
    BY <1>1, <2>1, <2>2, ApplyExtendsBest DEF WithColumns, ColumnSaid
<1>5. IsBestOf(WithRows(k, WithColumns(k))[cell], C2)
  <2>1. CASE TileOf(k).compute_rows
    BY <1>0, <1>2, <1>3, <1>4, <2>1, ApplyExtendsBest DEF WithRows, RowSaid, RowAcceptable
  <2>2. CASE ~TileOf(k).compute_rows
    <3>1. C2 = C1
      BY <2>2 DEF RowSaid
    <3> QED
      BY <1>4, <2>2, <3>1 DEF WithRows
  <2> QED
    BY <2>1, <2>2
<1>6. C2 = (C \cup Said(k, cell)) \ {Sentinel}
  BY DEF Said
<1> QED
  BY <1>5, <1>6 DEF Merge

LEMMA NextMergedIsBest ==
    /\ TypeOK /\ FuturesInv /\ CallerInv /\ AcceptedInv /\ MergedIsBest
    /\ [Next]_vars
    => MergedIsBest'
<1> SUFFICES ASSUME TypeOK, FuturesInv, CallerInv, AcceptedInv, MergedIsBest,
                    [Next]_vars, Sound', NEW cell \in Cells(job)'
             PROVE  IsBestOf(profile'[cell], Candidates(cell)')
  BY DEF MergedIsBest
<1>1. ASSUME NEW m, job' = job, answer'[m] = answer[m]
      PROVE  Said(m, cell)' = Said(m, cell)
  BY <1>1 DEF Said, ColumnSaid, RowSaid, TileOf, RowSide
<1>2. ASSUME job' = job, profile' = profile, merged' = merged, Sound,
             \A m \in merged : answer'[m] = answer[m]
      PROVE  IsBestOf(profile'[cell], Candidates(cell)')
  <2>1. Candidates(cell)' = Candidates(cell)
    BY <1>1, <1>2 DEF Candidates
  <2> QED
    BY <1>2, <2>1 DEF MergedIsBest
<1>3. CASE \/ \E serving \in 1 .. PoolSize : Start(serving)
           \/ Fill \/ Filled \/ Wait \/ Return \/ UNCHANGED vars
  BY <1>2, <1>3 DEF Start, Fill, Filled, Wait, Return, threads, vars, Sound
<1>4. CASE Refuse \/ ShutDown
  BY <1>4 DEF Refuse, ShutDown, Sound
<1>5. ASSUME NEW k \in Ordinals,
             \/ HandleError(k) \/ HandleBadColumns(k) \/ HandleBadRows(k)
             \/ HandleThenRaise(k) \/ Cancel(k)
      PROVE  FALSE
  BY <1>5 DEF HandleError, HandleBadColumns, HandleBadRows, HandleThenRaise, Cancel, Sound
<1>6. ASSUME NEW k \in Ordinals, Handle(k)
      PROVE  IsBestOf(profile'[cell], Candidates(cell)')
  <2>1. /\ Merge(k) /\ Sound /\ job' = job /\ answer' = answer
        /\ merged' = merged \cup {k}
    BY <1>6 DEF Handle, Merge, Sound
  <2>2. Candidates(cell)' = (Candidates(cell) \cup Said(k, cell)) \ {Sentinel}
    <3>1. \A m : Said(m, cell)' = Said(m, cell)
      BY <1>1, <2>1
    <3> QED
      BY <2>1, <3>1 DEF Candidates
  <2>3. cell \in Cells(job) /\ IsBestOf(profile[cell], Candidates(cell))
    BY <2>1 DEF MergedIsBest
  <2> QED
    BY <2>1, <2>2, <2>3, MergeExtendsBest
<1>7. CASE Thread
  <2>1. PICK k \in Ordinals : Begin(k) \/ Succeed(k) \/ Retry(k) \/ Raise(k)
    BY <1>7 DEF Thread
  <2>2. /\ job' = job /\ profile' = profile /\ merged' = merged /\ phase' = phase
        /\ task[k] \in {"queued", "running"}
        /\ \A m \in Ordinals : m # k => answer'[m] = answer[m]
    <3>1. answer \in [Ordinals -> Answer \cup {NoAnswer}]
      BY DEF TypeOK
    <3> QED
      BY <2>1, <3>1 DEF Begin, Succeed, Retry, Raise, calling
  <2>3. \A m \in merged : m \in Ordinals /\ m # k
    BY <2>2 DEF AcceptedInv, TypeOK
  <2> QED
    BY <1>2, <2>2, <2>3 DEF Sound
<1> QED
  BY <1>3, <1>4, <1>5, <1>6, <1>7 DEF Next, Caller

----------------------------------------------------------------------------
(* Tiles move from the iterator to pending to merged, and nowhere else.    *)
LEMMA OrdinalsAreFinite ==
    ASSUME TypeOK
    PROVE  /\ IsFiniteSet(pending) /\ IsFiniteSet(merged)
           /\ Cardinality(pending) \in Nat /\ Cardinality(merged) \in Nat
<1>1. IsFiniteSet(Ordinals)
  BY TotalIsNat, FS_Interval DEF Ordinals
<1> QED
  BY <1>1, FS_Subset, FS_CardinalityType DEF TypeOK

LEMMA NextNoTileLostOrTwice ==
    /\ TypeOK /\ FuturesInv /\ CallerInv /\ NoTileLostOrTwice
    /\ [Next]_vars
    => NoTileLostOrTwice'
<1> SUFFICES ASSUME TypeOK, FuturesInv, CallerInv, NoTileLostOrTwice, [Next]_vars, Sound'
             PROVE  /\ pending' \cup merged' = 0 .. next' - 1
                    /\ pending' \cap merged' = {}
                    /\ completed' = Cardinality(merged')
                    /\ phase' = "returned" => merged' = Ordinals'
  BY DEF NoTileLostOrTwice
<1>0. /\ Total(job) \in Nat /\ next \in Nat /\ completed \in Nat
      /\ IsFiniteSet(merged) /\ Ordinals = 0 .. Total(job) - 1
  BY TotalIsNat, OrdinalsAreFinite DEF TypeOK, Ordinals
<1>1. Sound => /\ pending \cup merged = 0 .. next - 1
               /\ pending \cap merged = {}
               /\ completed = Cardinality(merged)
               /\ phase = "returned" => merged = Ordinals
  BY DEF NoTileLostOrTwice
<1>2. CASE \/ \E serving \in 1 .. PoolSize : Start(serving)
           \/ Filled \/ Wait \/ UNCHANGED vars \/ Thread
  BY <1>1, <1>2 DEF Start, Filled, Wait, vars, Thread, Begin, Succeed, Retry, Raise,
                    calling, report, Sound, Ordinals
<1>3. CASE Refuse \/ ShutDown
  BY <1>3 DEF Refuse, ShutDown, Sound
<1>4. ASSUME NEW k \in Ordinals,
             \/ HandleError(k) \/ HandleBadColumns(k) \/ HandleBadRows(k)
             \/ HandleThenRaise(k) \/ Cancel(k)
      PROVE  FALSE
  BY <1>4 DEF HandleError, HandleBadColumns, HandleBadRows, HandleThenRaise, Cancel, Sound
<1>5. CASE Fill
  <2>1. /\ Sound /\ phase' = phase /\ phase # "returned"
        /\ merged' = merged /\ completed' = completed
        /\ next' = next + 1 /\ pending' = pending \cup {next}
    BY <1>5 DEF Fill, SubmitNext, Sound, report
  <2> QED
    BY <1>0, <1>1, <2>1
<1>6. CASE Return
  <2>1. /\ Sound /\ job' = job /\ merged' = merged /\ completed' = completed
        /\ next' = next /\ pending' = pending /\ pending = {}
    BY <1>6 DEF Return, Sound, report
  <2>2. next = Total(job)
    BY <1>6, <2>1 DEF Return, CallerInv
  <2> QED
    BY <1>0, <1>1, <2>1, <2>2 DEF Ordinals
<1>7. ASSUME NEW k \in Ordinals, Handle(k)
      PROVE  /\ pending' \cup merged' = 0 .. next' - 1
             /\ pending' \cap merged' = {}
             /\ completed' = Cardinality(merged')
             /\ phase' # "returned"
  <2>1. /\ Sound /\ merged' = merged \cup {k} /\ completed' = completed + 1
        /\ k \in pending /\ phase' \in {"waiting", "handling"}
    BY <1>7 DEF Handle, Merge, Sound, IsNext, CallerInv, Finished
  <2>2. k \notin merged /\ k \in 0 .. next - 1
    BY <1>1, <2>1
  <2>3. Cardinality(merged') = completed'
    BY <1>0, <1>1, <2>1, <2>2, FS_AddElement
  <2>4. CASE next < Total(job)
    <3>1. next' = next + 1 /\ pending' = (pending \ {k}) \cup {next}
      BY <1>7, <2>4 DEF Handle, SubmitNext
    <3> QED
      BY <1>0, <1>1, <2>1, <2>2, <2>3, <3>1
  <2>5. CASE ~(next < Total(job))
    <3>1. next' = next /\ pending' = pending \ {k}
      BY <1>7, <2>5 DEF Handle
    <3> QED
      BY <1>0, <1>1, <2>1, <2>2, <2>3, <3>1
  <2> QED
    BY <2>4, <2>5
<1> QED
  BY <1>2, <1>3, <1>4, <1>5, <1>6, <1>7 DEF Next, Caller

(* The bound on the futures in flight: the fill stops at it, and every     *)
(* later submission replaces a future that was taken out.                  *)
LEMMA NextInFlightBounded ==
    /\ TypeOK /\ FuturesInv /\ CallerInv /\ NoTileLostOrTwice /\ InFlightBounded
    /\ [Next]_vars
    => InFlightBounded'
<1> SUFFICES ASSUME TypeOK, FuturesInv, CallerInv, NoTileLostOrTwice, InFlightBounded,
                    [Next]_vars
             PROVE  Cardinality(pending') <= limit'
  BY DEF InFlightBounded
<1>0. /\ next \in Nat /\ limit \in Nat /\ IsFiniteSet(pending)
      /\ Cardinality(pending) \in Nat /\ Cardinality(pending) <= limit
  BY TotalIsNat, OrdinalsAreFinite DEF TypeOK, InFlightBounded
<1>1. CASE \E serving \in 1 .. PoolSize : Start(serving)
  <2>1. pending' = {} /\ limit' \in Nat
    BY <1>1, LimitsAssumption DEF Start, CallerInv
  <2> QED
    BY <2>1, FS_EmptySet
<1>2. CASE \/ Refuse \/ Filled \/ Wait \/ Return \/ ShutDown
           \/ UNCHANGED vars \/ Thread
           \/ \E k \in Ordinals : Cancel(k)
  <2>1. pending' = pending /\ limit' = limit
    BY <1>2 DEF Refuse, Filled, Wait, Return, ShutDown, vars, Thread, Begin, Succeed,
                Retry, Raise, Cancel, calling
  <2> QED
    BY <1>0, <2>1
<1>3. CASE Fill
  <2>1. /\ Sound /\ merged = {} /\ next < limit /\ limit' = limit
        /\ pending' = pending \cup {next}
    BY <1>3 DEF Fill, MayFill, SubmitNext, Sound, CallerInv
  <2>2. pending = 0 .. next - 1
    <3>1. pending \cup merged = 0 .. next - 1
      BY <2>1 DEF NoTileLostOrTwice
    <3> QED
      BY <2>1, <3>1
  <2>3. pending' = 0 .. next
    BY <1>0, <2>1, <2>2
  <2>4. Cardinality(0 .. next) = next + 1
    <3>1. Cardinality(0 .. next) = IF 0 > next THEN 0 ELSE next - 0 + 1
      BY <1>0, FS_Interval
    <3> QED
      BY <1>0, <3>1
  <2>5. next + 1 <= limit
    BY <1>0, <2>1
  <2>6. Cardinality(pending') = next + 1
    BY <2>3, <2>4
  <2> QED
    BY <2>1, <2>5, <2>6
<1>4. ASSUME NEW k \in Ordinals,
             \/ HandleError(k) \/ HandleBadColumns(k) \/ HandleBadRows(k)
             \/ HandleThenRaise(k)
      PROVE  Cardinality(pending') <= limit'
  <2>1. pending' = pending \ {k} /\ limit' = limit
    BY <1>4 DEF HandleError, HandleBadColumns, HandleBadRows, HandleThenRaise
  <2>2. Cardinality(pending \ {k}) <= Cardinality(pending)
    BY <1>0, FS_Subset
  <2>3. Cardinality(pending \ {k}) \in Nat
    BY <1>0, FS_Subset, FS_CardinalityType
  <2> QED
    BY <1>0, <2>1, <2>2, <2>3
<1>5. ASSUME NEW k \in Ordinals, Handle(k)
      PROVE  Cardinality(pending') <= limit'
  <2>1. /\ k \in pending /\ limit' = limit
        /\ \/ pending' = (pending \ {k}) \cup {next}
           \/ pending' = pending \ {k}
    <3>1. k \in pending /\ limit' = limit
      BY <1>5 DEF Handle, Merge, IsNext, CallerInv, Finished
    <3>2. CASE next < Total(job)
      BY <1>5, <3>1, <3>2 DEF Handle, SubmitNext
    <3>3. CASE ~(next < Total(job))
      BY <1>5, <3>1, <3>3 DEF Handle
    <3> QED
      BY <3>2, <3>3
  <2>2. /\ IsFiniteSet(pending \ {k})
        /\ Cardinality(pending \ {k}) = Cardinality(pending) - 1
    BY <1>0, <2>1, FS_RemoveElement
  <2>3. next \notin pending \ {k}
    <3>1. pending \subseteq 0 .. next - 1
      BY DEF FuturesInv
    <3>2. next \notin 0 .. next - 1
      BY <1>0
    <3> QED
      BY <3>1, <3>2
  <2>4. Cardinality((pending \ {k}) \cup {next}) = Cardinality(pending)
    <3>1. Cardinality((pending \ {k}) \cup {next}) = Cardinality(pending \ {k}) + 1
      BY <2>2, <2>3, FS_AddElement
    <3> QED
      BY <1>0, <2>2, <3>1
  <2> QED
    BY <1>0, <2>1, <2>2, <2>4
<1> QED
  BY <1>1, <1>2, <1>3, <1>4, <1>5 DEF Next, Caller

----------------------------------------------------------------------------
(* The inductive invariant.  None of the four properties is inductive by   *)
(* itself: that a cell is the best of what was said rests on merged tiles  *)
(* being returned and acceptable; that none is lost, on futures being      *)
(* pending as long as a thread has them; the bound, on both.               *)
IInv ==
    /\ TypeOK /\ FuturesInv /\ CallerInv /\ AcceptedInv
    /\ MergedIsBest /\ NoTileLostOrTwice /\ InFlightBounded

(* The initial state, in which nothing is submitted or said, satisfies it. *)
LEMMA InitIInv == Init => IInv
<1> SUFFICES ASSUME Init PROVE IInv
  OBVIOUS
<1>1. TypeOK
  BY InitTypeOK
<1>2. FuturesInv
  BY DEF Init, FuturesInv
<1>3. CallerInv /\ AcceptedInv
  BY DEF Init, CallerInv, AcceptedInv
<1>4. MergedIsBest
  <2>1. \A cell \in Cells(job) : profile[cell] = Sentinel /\ Candidates(cell) = {}
    BY DEF Init, Candidates
  <2> QED
    BY <2>1 DEF MergedIsBest, IsBestOf
<1>5. NoTileLostOrTwice
  BY FS_EmptySet DEF Init, NoTileLostOrTwice
<1>6. InFlightBounded
  BY FS_EmptySet DEF Init, InFlightBounded
<1> QED
  BY <1>1, <1>2, <1>3, <1>4, <1>5, <1>6 DEF IInv

(* And every step preserves it.                                            *)
LEMMA NextIInv == IInv /\ [Next]_vars => IInv'
<1> SUFFICES ASSUME IInv, [Next]_vars PROVE IInv'
  OBVIOUS
<1>0. /\ TypeOK /\ FuturesInv /\ CallerInv /\ AcceptedInv
      /\ MergedIsBest /\ NoTileLostOrTwice /\ InFlightBounded
  BY DEF IInv
<1>1. TypeOK'
  BY <1>0, NextTypeOK
<1>2. FuturesInv'
  BY <1>0, NextFuturesInv
<1>3. CallerInv'
  BY <1>0, NextCallerInv
<1>4. AcceptedInv'
  BY <1>0, NextAcceptedInv
<1>5. MergedIsBest'
  BY <1>0, NextMergedIsBest
<1>6. NoTileLostOrTwice'
  BY <1>0, NextNoTileLostOrTwice
<1>7. InFlightBounded'
  BY <1>0, NextInFlightBounded
<1> QED
  BY <1>1, <1>2, <1>3, <1>4, <1>5, <1>6, <1>7 DEF IInv

(* So the coordinator is never out of it.                                  *)
THEOREM Invariance == Spec => []IInv
<1>1. Init => IInv
  BY InitIInv
<1>2. IInv /\ [Next]_vars => IInv'
  BY NextIInv
<1> QED
  BY <1>1, <1>2, PTL DEF Spec

(* Whatever answers are acceptable and in whatever order they come, a      *)
(* profile cell is the best of what the merged ones say of it, ties to the *)
(* lowest index (_apply_profile_slice).                                    *)
THEOREM MergeIsBest == Spec => []MergedIsBest
<1>1. IInv => MergedIsBest
  BY DEF IInv
<1> QED
  BY <1>1, Invariance, PTL

(* A sound job has every tile the iterator gave in flight or merged, once, *)
(* and returns only with all of them merged (_run).                        *)
THEOREM TilesAreKept == Spec => []NoTileLostOrTwice
<1>1. IInv => NoTileLostOrTwice
  BY DEF IInv
<1> QED
  BY <1>1, Invariance, PTL

(* The number of submitted, unhandled futures never exceeds                *)
(* in_flight_limit (the first fill and the submissions that replace it).   *)
THEOREM InFlightIsBounded == Spec => []InFlightBounded
<1>1. IInv => InFlightBounded
  BY DEF IInv
<1> QED
  BY <1>1, Invariance, PTL

(* When _run is over, by return or by exception, no thread executes or     *)
(* will execute a tile of it: the finally block has drained them all.      *)
THEOREM EndIsQuiet == Spec => []EndedJobIsQuiet
<1>1. IInv => EndedJobIsQuiet
  <2> SUFFICES ASSUME FuturesInv, CallerInv, phase \in {"returned", "failed"},
                      NEW k \in Ordinals
               PROVE  task[k] \notin {"queued", "running"}
    BY DEF IInv, EndedJobIsQuiet
  <2>1. CASE phase = "returned"
    <3>1. pending = {}
      BY <2>1 DEF CallerInv
    <3> QED
      BY <3>1 DEF FuturesInv
  <2>2. CASE phase = "failed"
    BY <2>2 DEF CallerInv
  <2> QED
    BY <2>1, <2>2
<1> QED
  BY <1>1, Invariance, PTL

----------------------------------------------------------------------------
(* What ImplementsProfileJob needs of its surroundings: joins cut into     *)
(* the tiles of a plan, and workers whose answers are right if they pass   *)
(* the checks.                                                             *)
PromiseMayBeKept ==
    \A j \in Jobs : Planned(j) /\ WellFormed(j) /\ CheckedIsRight(j)

AnswersInv == \A k \in Ordinals : task[k] = "returned" => answer[k] \in Answers(job, k)

LEMMA JobIsKept == [Next]_vars => job' = job
BY DEF Next, Caller, Thread, vars, Start, Refuse, Fill, Filled, Wait, Return,
       ShutDown, HandleError, HandleBadColumns, HandleBadRows, Handle,
       HandleThenRaise, Cancel, Begin, Succeed, Retry, Raise, calling

(* A future's answer is one a worker may give to its tile.                 *)
LEMMA NextAnswersInv == TypeOK /\ AnswersInv /\ [Next]_vars => AnswersInv'
<1> SUFFICES ASSUME TypeOK, AnswersInv, [Next]_vars PROVE AnswersInv'
  OBVIOUS
<1>0. /\ job' = job /\ Ordinals' = Ordinals
      /\ DOMAIN task = Ordinals /\ DOMAIN answer = Ordinals
  BY JobIsKept DEF Ordinals, TypeOK
<1>1. ASSUME answer' = answer,
             \A k \in Ordinals : task'[k] = "returned" => task[k] = "returned"
      PROVE  AnswersInv'
  BY <1>0, <1>1 DEF AnswersInv
<1>2. CASE \/ \E serving \in 1 .. PoolSize : Start(serving)
           \/ Refuse \/ Filled \/ Wait \/ Return \/ ShutDown \/ UNCHANGED vars
           \/ \E k \in Ordinals : \/ HandleError(k) \/ HandleBadColumns(k)
                                 \/ HandleBadRows(k) \/ HandleThenRaise(k)
  BY <1>1, <1>2 DEF Start, Refuse, Filled, Wait, Return, ShutDown, vars, HandleError,
                    HandleBadColumns, HandleBadRows, HandleThenRaise, threads
<1>3. CASE Fill \/ \E k \in Ordinals : Handle(k) \/ Cancel(k) \/ Begin(k) \/ Retry(k) \/ Raise(k)
  <2>1. /\ answer' = answer
        /\ \/ task' = task
           \/ \E k, to : to # "returned" /\ task' = [task EXCEPT ![k] = to]
    BY <1>3 DEF Fill, Handle, Cancel, Begin, Retry, Raise, SubmitNext, calling
  <2> QED
    BY <1>0, <1>1, <2>1
<1>4. ASSUME NEW k \in Ordinals, Succeed(k)
      PROVE  AnswersInv'
  <2>1. PICK a \in Answers(job, k) : answer' = [answer EXCEPT ![k] = a]
    BY <1>4 DEF Succeed
  <2>2. task' = [task EXCEPT ![k] = "returned"]
    BY <1>4 DEF Succeed
  <2> QED
    BY <1>0, <2>1, <2>2 DEF AnswersInv
<1> QED
  BY <1>2, <1>3, <1>4 DEF Next, Caller, Thread

(* What the cells of a job can match, in terms of pairs.                   *)
LEMMA MatchesOfColumn ==
    ASSUME NEW j, NEW c
    PROVE  Promise!Matches(j, <<"column", c>>) =
              {e \in {[value |-> Sim(j, r, c), index |-> r] : r \in Positions(0, j.rows)} :
                  e.value # InvalidValue}
BY DEF Promise!Matches, Promise!Positions, Positions, Promise!InvalidValue, InvalidValue

LEMMA MatchesOfRow ==
    ASSUME NEW j, NEW r
    PROVE  Promise!Matches(j, <<"row", r>>) =
              {e \in {[value |-> Sim(j, r, c), index |-> c] : c \in Positions(0, j.columns)} :
                  e.value # InvalidValue}
BY DEF Promise!Matches, Promise!Positions, Positions, Promise!InvalidValue, InvalidValue

(* The entries a job's cells can match are correlations with an index.     *)
LEMMA MatchesAreProper ==
    ASSUME NEW j \in Jobs, WellFormed(j), NEW cell \in Cells(j)
    PROVE  Promise!Matches(j, cell) \subseteq ProperEntry \ {Sentinel}
<1>0. j.rows \in Nat /\ j.columns \in Nat
  BY JobsAssumption
<1>1. ASSUME NEW r \in Positions(0, j.rows), NEW c \in Positions(0, j.columns),
             Sim(j, r, c) # InvalidValue
      PROVE  /\ [value |-> Sim(j, r, c), index |-> r] \in ProperEntry \ {Sentinel}
             /\ [value |-> Sim(j, r, c), index |-> c] \in ProperEntry \ {Sentinel}
  <2>1. /\ Sim(j, r, c) \in Int /\ IsCorrelation(Sim(j, r, c))
        /\ r \in Int /\ r >= 0 /\ c \in Int /\ c >= 0
    BY <1>0, <1>1 DEF WellFormed, Positions
  <2> QED
    BY <1>1, <2>1 DEF ProperEntry, Entry, Sentinel
<1>2. ASSUME NEW c \in Positions(0, j.columns)
      PROVE  Promise!Matches(j, <<"column", c>>) \subseteq ProperEntry \ {Sentinel}
  <2> SUFFICES ASSUME NEW r \in Positions(0, j.rows),
                      [value |-> Sim(j, r, c), index |-> r].value # InvalidValue
               PROVE  [value |-> Sim(j, r, c), index |-> r] \in ProperEntry \ {Sentinel}
    BY MatchesOfColumn
  <2> QED
    BY <1>1
<1>3. ASSUME NEW r \in Positions(0, j.rows)
      PROVE  Promise!Matches(j, <<"row", r>>) \subseteq ProperEntry \ {Sentinel}
  <2> SUFFICES ASSUME NEW c \in Positions(0, j.columns),
                      [value |-> Sim(j, r, c), index |-> c].value # InvalidValue
               PROVE  [value |-> Sim(j, r, c), index |-> c] \in ProperEntry \ {Sentinel}
    BY MatchesOfRow
  <2> QED
    BY <1>1
<1> QED
  BY <1>2, <1>3 DEF Cells

(* An interval of positions within a longer one from 0.                    *)
LEMMA PositionsNest ==
    ASSUME NEW first \in Nat, NEW stop \in Nat, NEW end \in Nat, stop <= end
    PROVE  Positions(first, stop) \subseteq Positions(0, end)
BY DEF Positions

(* A pair of positions in a tile is one of its rows and columns.           *)
LEMMA InTilePositions ==
    ASSUME NEW t \in Tile, NEW r \in Int, NEW c \in Int, InTile(t, r, c)
    PROVE  /\ r \in Positions(t.row_start, t.row_stop)
           /\ c \in Positions(t.column_start, t.column_stop)
<1>1. /\ t.row_start \in Nat /\ t.row_stop \in Nat
      /\ t.column_start \in Nat /\ t.column_stop \in Nat
  BY DEF Tile
<1> QED
  BY <1>1 DEF InTile, Covers, Positions

(* A tile does not reach over the edge of its join.                        *)
LEMMA TilesAreInside ==
    ASSUME NEW j \in Jobs, WellTiled(j), NEW k \in 1 .. Len(j.tiles)
    PROVE  /\ Positions(j.tiles[k].row_start, j.tiles[k].row_stop)
                 \subseteq Positions(0, j.rows)
           /\ Positions(j.tiles[k].column_start, j.tiles[k].column_stop)
                 \subseteq Positions(0, j.columns)
<1> DEFINE t == j.tiles[k]
<1>1. t \in Tile /\ j.rows \in Nat /\ j.columns \in Nat
  BY JobsAssumption
<1>2. t.row_stop <= j.rows /\ t.column_stop <= j.columns
  BY DEF WellTiled
<1> HIDE DEF t
<1>3. /\ t.row_start \in Nat /\ t.row_stop \in Nat
      /\ t.column_start \in Nat /\ t.column_stop \in Nat
  BY <1>1 DEF Tile
<1>4. Positions(t.row_start, t.row_stop) \subseteq Positions(0, j.rows)
  BY <1>1, <1>2, <1>3, PositionsNest
<1>5. Positions(t.column_start, t.column_stop) \subseteq Positions(0, j.columns)
  BY <1>1, <1>2, <1>3, PositionsNest
<1> QED
  BY <1>4, <1>5 DEF t

(* What a tile's own result says of a cell is the best of some of the      *)
(* cell's matches: those in the tile.                                      *)
LEMMA ColumnSaidIsBest ==
    ASSUME NEW j \in Jobs, WellTiled(j), NEW k \in 1 .. Len(j.tiles),
           NEW a, IsResultOf(a, j, j.tiles[k]),
           NEW c \in Positions(j.tiles[k].column_start, j.tiles[k].column_stop)
    PROVE  /\ ColumnMatches(j, j.tiles[k], c) \subseteq Promise!Matches(j, <<"column", c>>)
           /\ IsBestOf(EntryAt(a.column_profile, c), ColumnMatches(j, j.tiles[k], c))
<1>2. Positions(j.tiles[k].row_start, j.tiles[k].row_stop) \subseteq Positions(0, j.rows)
  BY TilesAreInside
<1>3. ColumnMatches(j, j.tiles[k], c) \subseteq Promise!Matches(j, <<"column", c>>)
  BY <1>2, MatchesOfColumn DEF ColumnMatches
<1> QED
  BY <1>3 DEF IsResultOf

LEMMA RowSaidIsBest ==
    ASSUME NEW j \in Jobs, WellTiled(j), WellFormed(j), NEW k \in 1 .. Len(j.tiles),
           NEW a, IsResultOf(a, j, j.tiles[k]), j.tiles[k].compute_rows,
           NEW r \in Positions(j.tiles[k].row_start, j.tiles[k].row_stop)
    PROVE  /\ RowMatches(j, j.tiles[k], r) \subseteq
                 Promise!Matches(j, <<IF j.self_join THEN "column" ELSE "row", r>>)
           /\ IsBestOf(EntryAt(a.row_profile, r), RowMatches(j, j.tiles[k], r))
<1>2. /\ Positions(j.tiles[k].column_start, j.tiles[k].column_stop)
            \subseteq Positions(0, j.columns)
      /\ r \in Positions(0, j.rows)
  BY TilesAreInside
<1>3. CASE ~j.self_join
  <2>1. RowMatches(j, j.tiles[k], r) \subseteq Promise!Matches(j, <<"row", r>>)
    BY <1>2, MatchesOfRow DEF RowMatches
  <2> QED
    BY <1>3, <2>1 DEF IsResultOf
<1>4. CASE j.self_join
  <2>1. /\ j.rows = j.columns
        /\ \A c \in Positions(0, j.columns) : Sim(j, r, c) = Sim(j, c, r)
    BY <1>2, <1>4 DEF WellTiled, WellFormed
  <2>2. RowMatches(j, j.tiles[k], r) \subseteq Promise!Matches(j, <<"column", r>>)
    BY <1>2, <2>1, MatchesOfColumn DEF RowMatches
  <2> QED
    BY <1>4, <2>2 DEF IsResultOf
<1> QED
  BY <1>3, <1>4

(* What is merged was checked, so it is the tile's own result.             *)
LEMMA MergedIsResult ==
    ASSUME PromiseMayBeKept, TypeOK, AcceptedInv, AnswersInv, NEW k \in merged
    PROVE  /\ k \in Ordinals /\ k + 1 \in 1 .. Len(job.tiles)
           /\ TileOf(k) = job.tiles[k + 1]
           /\ IsResultOf(answer[k], job, TileOf(k))
<1>1. /\ k \in Ordinals /\ k \in 0 .. Total(job) - 1 /\ job \in Jobs
      /\ k + 1 \in 1 .. Len(job.tiles)
  BY TotalIsNat DEF TypeOK, Ordinals, Total
<1>2. answer[k] \in Answers(job, k)
  BY <1>1 DEF AcceptedInv, AnswersInv
<1>3. Checked(TileOf(k), k, answer[k])
  BY DEF AcceptedInv, ColumnAcceptable, RowAcceptable, Checked
<1> QED
  BY <1>1, <1>2, <1>3 DEF PromiseMayBeKept, CheckedIsRight, TileOf

(* When every tile is merged, each cell is the best of the whole join: the *)
(* best of the bests of the tiles that meet it.                            *)
LEMMA WholeProfile ==
    ASSUME PromiseMayBeKept, IInv, AnswersInv, phase = "waiting", pending = {}
    PROVE  Promise!IsProfileOf(profile, job)
<1>0. /\ TypeOK /\ AcceptedInv /\ MergedIsBest /\ NoTileLostOrTwice /\ CallerInv
      /\ job \in Jobs /\ WellTiled(job) /\ WellFormed(job)
  BY PlannedIsWellTiled DEF IInv, TypeOK, PromiseMayBeKept
<1>1. merged = Ordinals /\ \A k \in 1 .. Len(job.tiles) : k - 1 \in merged
  <2>1. next = Total(job)
    BY <1>0 DEF CallerInv
  <2>2. Sound
    BY DEF Sound
  <2>3. merged = 0 .. next - 1
    BY <1>0, <2>2 DEF NoTileLostOrTwice
  <2>4. Total(job) \in Nat /\ Total(job) = Len(job.tiles)
    BY <1>0, TotalIsNat DEF Total
  <2> QED
    BY <2>1, <2>3, <2>4 DEF Ordinals
<1>2. ASSUME NEW cell \in Cells(job)
      PROVE  IsBestOf(profile[cell], Promise!Matches(job, cell))
  <2> DEFINE S == UNION {Said(k, cell) : k \in merged}
             U == Promise!Matches(job, cell)
  <2>1. U \subseteq ProperEntry \ {Sentinel}
    BY <1>0, MatchesAreProper
  <2>2. S \subseteq ProperEntry
    BY <1>0, SaidIsProper DEF AcceptedInv
  <2>3. IsBestOf(profile[cell], S \ {Sentinel})
    BY <1>0 DEF MergedIsBest, Candidates, Sound
  <2>4. ASSUME NEW k \in merged, NEW c, cell = <<"column", c>>,
               c \in Positions(TileOf(k).column_start, TileOf(k).column_stop)
        PROVE  /\ EntryAt(answer[k].column_profile, c) \in ColumnSaid(k, cell)
               /\ EntryAt(answer[k].column_profile, c) \in S
               /\ ColumnMatches(job, TileOf(k), c) \in SUBSET U
               /\ IsBestOf(EntryAt(answer[k].column_profile, c),
                           ColumnMatches(job, TileOf(k), c))
    <3>1. EntryAt(answer[k].column_profile, c) \in ColumnSaid(k, cell)
      BY <2>4 DEF ColumnSaid
    <3>2. EntryAt(answer[k].column_profile, c) \in S
      BY <3>1 DEF Said
    <3>3. k + 1 \in 1 .. Len(job.tiles) /\ TileOf(k) = job.tiles[k + 1]
          /\ IsResultOf(answer[k], job, TileOf(k))
      BY <1>0, MergedIsResult
    <3> QED
      BY <1>0, <2>4, <3>1, <3>2, <3>3, ColumnSaidIsBest
  <2>5. ASSUME NEW k \in merged, NEW r, cell = <<RowSide, r>>, TileOf(k).compute_rows,
               r \in Positions(TileOf(k).row_start, TileOf(k).row_stop)
        PROVE  /\ EntryAt(answer[k].row_profile, r) \in RowSaid(k, cell)
               /\ EntryAt(answer[k].row_profile, r) \in S
               /\ RowMatches(job, TileOf(k), r) \in SUBSET U
               /\ IsBestOf(EntryAt(answer[k].row_profile, r), RowMatches(job, TileOf(k), r))
    <3>1. EntryAt(answer[k].row_profile, r) \in RowSaid(k, cell)
      BY <2>5 DEF RowSaid
    <3>2. EntryAt(answer[k].row_profile, r) \in S
      BY <3>1 DEF Said
    <3>3. k + 1 \in 1 .. Len(job.tiles) /\ TileOf(k) = job.tiles[k + 1]
          /\ IsResultOf(answer[k], job, TileOf(k))
      BY <1>0, MergedIsResult
    <3> QED
      BY <1>0, <2>5, <3>1, <3>2, <3>3, RowSaidIsBest DEF RowSide
  <2>6. ASSUME NEW b \in S
        PROVE  \E M \in SUBSET U : IsBestOf(b, M)
    <3>1. PICK k \in merged : b \in ColumnSaid(k, cell) \/ b \in RowSaid(k, cell)
      BY DEF Said
    <3>2. cell = <<cell[1], cell[2]>>
      BY DEF Cells
    <3>3. CASE b \in ColumnSaid(k, cell)
      <4>1. /\ cell = <<"column", cell[2]>>
            /\ cell[2] \in Positions(TileOf(k).column_start, TileOf(k).column_stop)
            /\ b = EntryAt(answer[k].column_profile, cell[2])
        BY <3>2, <3>3 DEF ColumnSaid
      <4> QED
        BY <2>4, <4>1
    <3>4. CASE b \in RowSaid(k, cell)
      <4>1. /\ cell = <<RowSide, cell[2]>> /\ TileOf(k).compute_rows
            /\ cell[2] \in Positions(TileOf(k).row_start, TileOf(k).row_stop)
            /\ b = EntryAt(answer[k].row_profile, cell[2])
        BY <3>2, <3>4 DEF RowSaid
      <4> QED
        BY <2>5, <4>1
    <3> QED
      BY <3>1, <3>3, <3>4
  <2>7. ASSUME NEW x \in U
        PROVE  \E b \in S : \E M \in SUBSET U : x \in M /\ IsBestOf(b, M)
    <3>1. ASSUME NEW c \in Positions(0, job.columns), cell = <<"column", c>>
          PROVE  \E b \in S : \E M \in SUBSET U : x \in M /\ IsBestOf(b, M)
      <4>1. PICK r \in Positions(0, job.rows) :
                x = [value |-> Sim(job, r, c), index |-> r] /\ x.value # InvalidValue
        BY <3>1, MatchesOfColumn
      <4>2. PICK k \in 1 .. Len(job.tiles) :
                \/ InTile(job.tiles[k], r, c)
                \/ job.self_join /\ job.tiles[k].compute_rows /\ InTile(job.tiles[k], c, r)
        BY <1>0, <3>1, <4>1 DEF WellTiled, Positions
      <4>3. k - 1 \in merged /\ TileOf(k - 1) = job.tiles[k] /\ TileOf(k - 1) \in Tile
        BY <1>0, <1>1, JobsAssumption DEF TileOf
      <4>i. r \in Int /\ c \in Int
        BY <1>0, JobsAssumption, <3>1, <4>1 DEF Positions
      <4>4. CASE InTile(TileOf(k - 1), r, c)
        <5>1. x \in ColumnMatches(job, TileOf(k - 1), c)
          BY <4>1, <4>3, <4>i, <4>4, InTilePositions DEF ColumnMatches
        <5> QED
          BY <2>4, <3>1, <4>3, <4>i, <4>4, <5>1, InTilePositions
      <4>5. CASE job.self_join /\ TileOf(k - 1).compute_rows /\ InTile(TileOf(k - 1), c, r)
        <5>1. Sim(job, r, c) = Sim(job, c, r)
          BY <1>0, <4>5, <3>1 DEF WellFormed
        <5>2. x \in RowMatches(job, TileOf(k - 1), c)
          BY <4>1, <4>3, <4>i, <4>5, <5>1, InTilePositions DEF RowMatches
        <5>3. RowSide = "column"
          BY <4>5 DEF RowSide
        <5> QED
          BY <2>5, <3>1, <4>3, <4>i, <4>5, <5>2, <5>3, InTilePositions
      <4> QED
        BY <4>2, <4>3, <4>4, <4>5
    <3>2. ASSUME NEW r \in Positions(0, job.rows), cell = <<"row", r>>,
                 ~job.self_join, job.keep_rows
          PROVE  \E b \in S : \E M \in SUBSET U : x \in M /\ IsBestOf(b, M)
      <4>1. PICK c \in Positions(0, job.columns) :
                x = [value |-> Sim(job, r, c), index |-> c] /\ x.value # InvalidValue
        BY <3>2, MatchesOfRow
      <4>2. PICK k \in 1 .. Len(job.tiles) :
                InTile(job.tiles[k], r, c) /\ job.tiles[k].compute_rows
        BY <1>0, <3>2, <4>1 DEF WellTiled, Positions
      <4>3. k - 1 \in merged /\ TileOf(k - 1) = job.tiles[k] /\ TileOf(k - 1) \in Tile
        BY <1>0, <1>1, JobsAssumption DEF TileOf
      <4>i. r \in Int /\ c \in Int
        BY <1>0, JobsAssumption, <3>2, <4>1 DEF Positions
      <4>4. x \in RowMatches(job, TileOf(k - 1), r)
        BY <4>1, <4>2, <4>3, <4>i, InTilePositions DEF RowMatches
      <4>5. RowSide = "row"
        BY <3>2 DEF RowSide
      <4> QED
        BY <2>5, <3>2, <4>2, <4>3, <4>i, <4>4, <4>5, InTilePositions
    <3> QED
      BY <3>1, <3>2 DEF Cells
  <2> HIDE DEF S, U
  <2>8. IsBestOf(profile[cell], U)
    BY <2>1, <2>2, <2>3, <2>6, <2>7, BestOfBests
  <2> QED
    BY <2>8 DEF U
<1>3. DOMAIN profile = Cells(job)
  BY <1>0 DEF TypeOK
<1> QED
  BY <1>2, <1>3 DEF Promise!IsProfileOf, Promise!Cells, Cells, Promise!Positions, Positions,
                    Promise!IsBestOf, IsBestOf, Promise!Sentinel, Sentinel,
                    Promise!InvalidValue, InvalidValue

(* Every step is one of the promise's, or nothing to it.                   *)
LEMMA StepIsPromised ==
    ASSUME PromiseMayBeKept, IInv, AnswersInv, [Next]_vars
    PROVE  [Promise!Next]_(Promise!vars)
<1>0. job' = job
  BY JobIsKept
<1>1. CASE Return
  <2>1. /\ phase = "waiting" /\ pending = {}
        /\ phase' = "returned" /\ profile' = profile
    BY <1>1 DEF Return
  <2>2. Outcome = "running" /\ Outcome' = "done" /\ Result' = profile
    BY <2>1 DEF Outcome, Result
  <2>3. Promise!IsProfileOf(Result', job)
    BY <2>1, <2>2, WholeProfile
  <2> QED
    BY <1>0, <2>2, <2>3 DEF Promise!Next, Promise!Return
<1>2. CASE Refuse \/ ShutDown
  <2>1. phase \in {"starting", "unwinding"} /\ phase' = "failed"
    BY <1>2 DEF Refuse, ShutDown
  <2>2. /\ Outcome = "running" /\ Outcome' = "failed"
        /\ Result = NoAnswer /\ Result' = NoAnswer
    BY <2>1 DEF Outcome, Result
  <2> QED
    BY <1>0, <2>2 DEF Promise!Next, Promise!Fail
<1>3. ASSUME phase' = phase, profile' = profile
      PROVE  UNCHANGED Promise!vars
  BY <1>0, <1>3 DEF Promise!vars, Outcome, Result
<1>4. ASSUME phase \notin {"returned", "failed"}, phase' \notin {"returned", "failed"}
      PROVE  UNCHANGED Promise!vars
  <2>1. /\ Outcome = "running" /\ Outcome' = "running"
        /\ Result = NoAnswer /\ Result' = NoAnswer
    BY <1>4 DEF Outcome, Result
  <2> QED
    BY <1>0, <2>1 DEF Promise!vars
<1>5. CASE Thread \/ UNCHANGED vars
  BY <1>3, <1>5 DEF Thread, Begin, Succeed, Retry, Raise, calling, vars
<1>6. CASE \/ \E serving \in 1 .. PoolSize : Start(serving)
           \/ Fill \/ Filled \/ Wait
  BY <1>4, <1>6 DEF Start, Fill, Filled, Wait
<1>7. ASSUME NEW k \in Ordinals,
             \/ HandleError(k) \/ HandleBadColumns(k) \/ HandleBadRows(k)
             \/ Handle(k) \/ HandleThenRaise(k) \/ Cancel(k)
      PROVE  UNCHANGED Promise!vars
  BY <1>4, <1>7 DEF HandleError, HandleBadColumns, HandleBadRows, Handle, HandleThenRaise,
                    Merge, Cancel
<1> QED
  BY <1>1, <1>2, <1>5, <1>6, <1>7 DEF Next, Caller

(* DistributedCoordinator._run: whatever the tiles meet, a job that        *)
(* returns returns the profile of the whole join, the best match of every  *)
(* position at its lowest index, and it returns once; a job that fails     *)
(* returns nothing.  For joins of any size cut by plan_1nn_tiles, and      *)
(* workers whose answers are right if they pass the checks.                *)
THEOREM PromiseIsKept ==
    ASSUME PromiseMayBeKept
    PROVE  Spec => ImplementsProfileJob
<1>1. Init => Promise!Init /\ AnswersInv
  BY DEF Init, Promise!Init, Outcome, Result, AnswersInv
<1>2. IInv /\ AnswersInv /\ [Next]_vars => AnswersInv'
  BY NextAnswersInv DEF IInv
<1>3. IInv /\ AnswersInv /\ [Next]_vars => [Promise!Next]_(Promise!vars)
  BY StepIsPromised
<1> QED
  BY Invariance, <1>1, <1>2, <1>3, PTL DEF Spec, ImplementsProfileJob, Promise!Spec

----------------------------------------------------------------------------
(* The workers.                                                            *)
(*                                                                         *)
(* The exclusion mask.                                                     *)

(* A number int32 can hold is itself as a word.                            *)
LEMMA WordsAreNumbers ==
    ASSUME NEW x \in Int, -IntMax - 1 <= x, x <= IntMax
    PROVE  Word(x) = x
<1> DEFINE M == 2 * (IntMax + 1)
           y == x + IntMax + 1
<1>1. IntMax \in Nat
  BY IntMaxAssumption
<1>2. M \in Nat /\ y \in 0 .. M - 1
  BY <1>1
<1>3. ASSUME NEW m \in Nat, NEW n \in 0 .. m - 1 PROVE n % m = n
  BY <1>3, Z3
<1>4. y % M = y
  BY <1>2, <1>3
<1>5. Word(x) = (y % M) - (IntMax + 1)
  BY DEF Word
<1> QED
  BY <1>1, <1>4, <1>5

(* A tile that is not empty, of a block that is an array of MLX, whose     *)
(* dimensions are in int32.                                                *)
IsBlock(t) ==
    /\ t.row_start \in Nat /\ t.row_stop \in Nat
    /\ t.column_start \in Nat /\ t.column_stop \in Nat
    /\ t.row_start < t.row_stop /\ t.row_stop - t.row_start <= IntMax
    /\ t.column_start < t.column_stop /\ t.column_stop - t.column_start <= IntMax

(* A tile that is separated has no trivial matches, nor has one without a  *)
(* zone.                                                                   *)
LEMMA NoneIsTrivial ==
    ASSUME NEW t, IsBlock(t), NEW zone \in Nat, zone = 0 \/ Separated(t, zone),
           NEW row \in RowsOf(t), NEW column \in ColumnsOf(t)
    PROVE  ~Trivial(row, column, zone)
<1>1. PICK a \in Nat, b \in Nat, c \in Nat, d \in Nat :
        a = t.row_start /\ b = t.row_stop /\ c = t.column_start /\ d = t.column_stop
  BY DEF IsBlock
<1>2. row \in Int /\ a <= row /\ row < b /\ column \in Int /\ c <= column /\ column < d
  BY <1>1 DEF RowsOf, ColumnsOf, Positions
<1>3. zone = 0 \/ a >= d + zone - 1 \/ c >= b + zone - 1
  BY <1>1 DEF Separated
<1> QED
  BY <1>2, <1>3 DEF Trivial

(* Under the guard no operation of the device overflows: not the           *)
(* difference of the counters, not the sum, and not the absolute value,    *)
(* since the least integer is kept out.                                    *)
LEMMA DeviceIsExact ==
    ASSUME NEW t, IsBlock(t), NEW zone \in Nat, FitsWord(t, zone),
           NEW r \in 0 .. RowCount(t) - 1, NEW c \in 0 .. ColumnCount(t) - 1
    PROVE  OnDevice(t, zone, r, c) <=> OnHost(t, zone, r, c)
<1>1. PICK n \in Nat, delta \in Int, rows \in Nat, columns \in Nat :
        /\ 1 <= rows /\ rows <= n /\ 1 <= columns /\ columns <= n
        /\ n = IntMax /\ delta = BaseDelta(t)
        /\ rows = RowCount(t) /\ columns = ColumnCount(t)
  <2>1. /\ RowCount(t) \in Nat /\ 1 <= RowCount(t) /\ RowCount(t) <= IntMax
        /\ ColumnCount(t) \in Nat /\ 1 <= ColumnCount(t) /\ ColumnCount(t) <= IntMax
        /\ BaseDelta(t) \in Int
    BY DEF IsBlock, RowCount, ColumnCount, BaseDelta
  <2> QED
    BY <2>1, IntMaxAssumption
<1>2. /\ -n - 1 < delta - (columns - 1) /\ delta + (rows - 1) <= n /\ zone <= n
      /\ r \in 0 .. rows - 1 /\ c \in 0 .. columns - 1
  BY <1>1 DEF FitsWord
<1>3. \A x \in Int : -n - 1 <= x /\ x <= n => Word(x) = x
  BY <1>1, WordsAreNumbers
<1>4. Word(r) = r /\ Word(c) = c /\ Word(zone) = zone /\ Word(delta) = delta
  <2>1. /\ r \in Int /\ -n - 1 <= r /\ r <= n
        /\ c \in Int /\ -n - 1 <= c /\ c <= n
        /\ -n - 1 <= zone /\ -n - 1 <= delta /\ delta <= n
    <3>1. rows <= n /\ 1 <= rows /\ columns <= n /\ 1 <= columns
      BY <1>1
    <3> QED
      BY <1>2, <3>1
  <2> QED
    BY <1>2, <1>3, <2>1
<1>5. Word(r - c) = r - c
  <2>1. r - c \in Int /\ -n - 1 <= r - c /\ r - c <= n
    <3>1. rows <= n /\ columns <= n
      BY <1>1
    <3> QED
      BY <1>2, <3>1
  <2> QED
    BY <1>3, <2>1
<1>6. PICK d \in Int : d = r - c + delta /\ d = delta + r - c /\ -n <= d /\ d <= n
  BY <1>2
<1>7. Word(d) = d /\ Magnitude(d) \in Int /\ Word(Magnitude(d)) = Magnitude(d)
  <2>1. Magnitude(d) \in Int /\ -n - 1 <= Magnitude(d) /\ Magnitude(d) <= n
    BY <1>6 DEF Magnitude
  <2>2. -n - 1 <= d
    BY <1>6
  <2> QED
    BY <1>3, <1>6, <2>1, <2>2
<1>8. OnDevice(t, zone, r, c) <=> Magnitude(d) < zone
  BY <1>1, <1>4, <1>5, <1>6, <1>7 DEF OnDevice
<1>9. OnHost(t, zone, r, c) <=> Magnitude(d) < zone
  BY <1>1, <1>6 DEF OnHost
<1> QED
  BY <1>8, <1>9

(* On the host there is nothing but integers.                              *)
LEMMA HostIsExact ==
    ASSUME NEW t, IsBlock(t), NEW zone \in Nat,
           NEW row \in RowsOf(t), NEW column \in ColumnsOf(t)
    PROVE  OnHost(t, zone, row - t.row_start, column - t.column_start)
           <=> Trivial(row, column, zone)
<1>1. PICK a \in Nat, c \in Nat : a = t.row_start /\ c = t.column_start
  BY DEF IsBlock
<1>2. row \in Int /\ column \in Int
  BY <1>1 DEF RowsOf, ColumnsOf, Positions
<1>3. PICK d \in Int : d = row - column
  BY <1>2
<1>4. (a - c) + (row - a) - (column - c) = d
  BY <1>2, <1>3
<1>5. OnHost(t, zone, row - a, column - c) <=> Magnitude(d) < zone
  BY <1>1, <1>4 DEF OnHost, BaseDelta
<1>6. Trivial(row, column, zone) <=> -zone < d /\ d < zone
  BY <1>3 DEF Trivial
<1>7. Magnitude(d) < zone <=> -zone < d /\ d < zone
  BY DEF Magnitude
<1> QED
  BY <1>1, <1>5, <1>6, <1>7

(* execute_1nn_tile: wherever a tile lies, as far from the diagonal and    *)
(* from the origin as may be, however wide the zone is and however narrow  *)
(* the device's integers are, the cells it masks are the trivial matches:  *)
(* the shortcut leaves none out, and no overflow makes a distant cell look *)
(* near.                                                                   *)
THEOREM MaskIsExact ==
    ASSUME NEW t, IsBlock(t), NEW zone \in Nat,
           NEW row \in RowsOf(t), NEW column \in ColumnsOf(t)
    PROVE  Masked(t, zone, row - t.row_start, column - t.column_start)
           <=> Trivial(row, column, zone)
<1> DEFINE r == row - t.row_start
           c == column - t.column_start
<1>1. r \in 0 .. RowCount(t) - 1 /\ c \in 0 .. ColumnCount(t) - 1
  BY DEF IsBlock, RowsOf, ColumnsOf, Positions, RowCount, ColumnCount
<1>2. OnHost(t, zone, r, c) <=> Trivial(row, column, zone)
  BY HostIsExact
<1> HIDE DEF r, c
<1>3. CASE zone = 0 \/ Separated(t, zone)
  BY <1>3, NoneIsTrivial DEF Masked
<1>4. CASE zone # 0 /\ ~Separated(t, zone) /\ FitsWord(t, zone)
  <2>1. OnDevice(t, zone, r, c) <=> OnHost(t, zone, r, c)
    BY <1>1, <1>4, DeviceIsExact
  <2> QED
    BY <1>2, <1>4, <2>1 DEF Masked, r, c
<1>5. CASE zone # 0 /\ ~Separated(t, zone) /\ ~FitsWord(t, zone)
  BY <1>2, <1>5 DEF Masked, r, c
<1> QED
  BY <1>3, <1>4, <1>5

----------------------------------------------------------------------------
(* The answers.                                                            *)

(* A set of places that has any has a first.                               *)
LEMMA LeastNumber ==
    ASSUME NEW T, T \subseteq Nat, T # {}
    PROVE  \E n \in T : \A m \in T : n <= m
<1> DEFINE R == OpToRel(<, Nat)
<1>1. IsWellFoundedOn(R, Nat)
  BY NatLessThanWellFounded
<1>2. \A m, n \in Nat : <<m, n>> \in R <=> m < n
  BY DEF OpToRel
<1> HIDE DEF R
<1>3. PICK n \in T : \A m \in T : ~(<<m, n>> \in R)
  BY <1>1, WFMin
<1>4. \A m \in T : m \in Nat /\ n \in Nat /\ ~(m < n)
  BY <1>2, <1>3
<1> QED
  BY <1>4

(* What a block may hold: a correlation or the sentinel's value.           *)
CellValue == {v \in Int : v = InvalidValue \/ IsCorrelation(v)}

(* mx.max finds a value that is there, and none is greater.                *)
LEMMA GreatestIsThere ==
    ASSUME NEW T, T \subseteq CellValue, T # {}
    PROVE  Max(T) \in T /\ \A v \in T : v <= Max(T)
<1> DEFINE D == {Scale - v : v \in T}
<1>1. \A v \in T : v \in Int /\ v <= Scale /\ Scale \in Nat
  BY ScaleAssumption DEF CellValue, InvalidValue, IsCorrelation
<1>2. D \subseteq Nat /\ D # {}
  <2>1. ASSUME NEW v \in T PROVE Scale - v \in Nat
    BY <1>1
  <2> QED
    BY <2>1
<1>3. PICK d \in D : \A e \in D : d <= e
  BY <1>2, LeastNumber
<1>4. PICK m \in T : d = Scale - m
  BY <1>3
<1>5. ASSUME NEW v \in T PROVE v <= m
  <2>1. Scale - m <= Scale - v
    BY <1>3, <1>4
  <2> QED
    BY <1>1, <2>1
<1>6. \E x \in T : \A v \in T : x >= v
  <2>1. \A v \in T : m >= v
    BY <1>1, <1>5
  <2> QED
    BY <2>1
<1>7. Max(T) \in T /\ \A v \in T : Max(T) >= v
  BY <1>6 DEF Max
<1> QED
  BY <1>1, <1>7

(* The two reductions and the index of the sentinel: along a column or a   *)
(* row, the first of the best matches is what is found, and the sentinel   *)
(* when there is none.                                                     *)
LEMMA FirstBestIsBest ==
    ASSUME NEW f, NEW start \in Nat, NEW stop \in Nat, start < stop,
           \A p \in Positions(start, stop) : f[p] \in CellValue
    PROVE  LET b == FirstBest(f, Positions(start, stop))
           IN  /\ b \in ProperEntry
               /\ b = Sentinel \/ b.index \in Positions(start, stop)
               /\ IsBestOf(b, {e \in {[value |-> f[p], index |-> p] : p \in Positions(start, stop)} :
                                e.value # InvalidValue})
<1> DEFINE P == Positions(start, stop)
           T == {f[p] : p \in P}
           top == Max(T)
           F == {p \in P : f[p] = top}
           first == Min(F)
           b == FirstBest(f, P)
           E == {e \in {[value |-> f[p], index |-> p] : p \in P} : e.value # InvalidValue}
<1>1. P \subseteq Nat /\ start \in P
  BY DEF Positions
<1>2. top \in T /\ \A v \in T : v <= top
  <2>1. T \subseteq CellValue /\ T # {}
    BY <1>1
  <2> QED
    BY <2>1, GreatestIsThere
<1>3. top \in CellValue /\ \A p \in P : f[p] <= top /\ f[p] \in Int
  BY <1>2 DEF CellValue
<1>4. first \in F /\ \A p \in F : first <= p
  <2>1. F \subseteq Nat /\ F # {}
    BY <1>1, <1>2
  <2>2. \E p \in F : \A q \in F : p <= q
    BY <2>1, LeastNumber
  <2> QED
    BY <2>2 DEF Min
<1>5. b = [value |-> top, index |-> IF top < -Scale THEN -1 ELSE first]
  BY DEF FirstBest
<1>6. first \in P /\ first \in Nat /\ f[first] = top
  BY <1>1, <1>4
<1>7. Scale \in Nat \ {0} /\ InvalidValue = -2 * Scale
  BY ScaleAssumption DEF InvalidValue
<1> HIDE DEF P, T, top, F, first, b
<1>8. CASE top = InvalidValue
  <2>1. top < -Scale
    BY <1>7, <1>8
  <2>2. b = Sentinel
    BY <1>5, <1>8, <2>1 DEF Sentinel
  <2>3. \A p \in P : f[p] = InvalidValue
    <3>1. ASSUME NEW p \in P PROVE f[p] = InvalidValue
      <4>1. f[p] <= InvalidValue /\ f[p] \in Int
            /\ (f[p] = InvalidValue \/ (-Scale <= f[p] /\ f[p] <= Scale))
        BY <1>3, <1>8 DEF P, CellValue, IsCorrelation
      <4> QED
        BY <1>7, <4>1
    <3> QED
      BY <3>1
  <2>4. E = {}
    BY <2>3
  <2> QED
    BY <2>2, <2>4, SentinelIsProper DEF b, E, P, IsBestOf
<1>9. CASE top # InvalidValue
  <2>1. IsCorrelation(top) /\ top \in Int
    BY <1>3, <1>9 DEF CellValue
  <2>2. b = [value |-> top, index |-> first]
    BY <1>5, <1>7, <2>1 DEF IsCorrelation
  <2>3. b \in ProperEntry
    BY <1>6, <2>1, <2>2 DEF ProperEntry, Entry
  <2>4. b \in E
    BY <1>6, <1>9, <2>2
  <2>5. ASSUME NEW e \in E
        PROVE  e.value < b.value \/ (e.value = b.value /\ b.index <= e.index)
    <3>1. PICK p \in P : e = [value |-> f[p], index |-> p]
      OBVIOUS
    <3>2. f[p] <= top /\ f[p] \in Int /\ top \in Int
      BY <1>3, <2>1
    <3>3. f[p] = top => first <= p
      BY <1>4 DEF F
    <3> QED
      BY <2>2, <3>1, <3>2, <3>3
  <2>6. IsBestOf(b, E)
    BY <2>4, <2>5 DEF IsBestOf
  <2> QED
    BY <1>6, <2>2, <2>3, <2>6 DEF b, E, P
<1> QED
  BY <1>8, <1>9

(* A slice says of each position what was found for it, and passes the     *)
(* checks of _apply_profile_slice.                                         *)
LEMMA SliceSaysBest ==
    ASSUME NEW found, NEW start \in Nat, NEW stop \in Nat, start <= stop,
           NEW first, NEW last,
           \A p \in Positions(start, stop) :
              /\ found[p] \in ProperEntry
              /\ found[p] = Sentinel \/ found[p].index \in Positions(first, last)
    PROVE  LET s == SliceOf(found, start, stop)
           IN  /\ s \in Slice
               /\ Acceptable(s, start, stop, first, last)
               /\ \A p \in Positions(start, stop) : EntryAt(s, p) = found[p]
<1> DEFINE s == SliceOf(found, start, stop)
           n == stop - start
<1>1. n \in Nat
  OBVIOUS
<1>2. ASSUME NEW i \in 1 .. n
      PROVE  start + i - 1 \in Positions(start, stop)
  BY DEF Positions
<1>3. \A p \in Positions(start, stop) : found[p].value \in Int /\ found[p].index \in Int
  BY DEF ProperEntry, Entry
<1>4. /\ s.offset = start /\ s.typed = TRUE
      /\ s.values = [i \in 1 .. n |-> found[start + i - 1].value]
      /\ s.indices = [i \in 1 .. n |-> found[start + i - 1].index]
      /\ s = [offset |-> s.offset, typed |-> s.typed, values |-> s.values, indices |-> s.indices]
  BY DEF SliceOf
<1>5. /\ s.values \in Seq(Int) /\ Len(s.values) = n
      /\ s.indices \in Seq(Int) /\ Len(s.indices) = n
  <2>1. s.values \in [1 .. n -> Int] /\ s.indices \in [1 .. n -> Int]
    BY <1>2, <1>3, <1>4
  <2> QED
    BY <1>1, <2>1
<1> HIDE DEF s
<1>6. s \in Slice
  <2>1. PICK x \in Seq(Int), y \in Seq(Int) : x = s.values /\ y = s.indices
    BY <1>5
  <2>2. s = [offset |-> start, typed |-> TRUE, values |-> x, indices |-> y]
    BY <1>4, <2>1
  <2>3. start \in Int /\ TRUE \in BOOLEAN
    OBVIOUS
  <2> QED
    BY <2>2, <2>3 DEF Slice
<1>7. ASSUME NEW p \in Positions(start, stop)
      PROVE  EntryAt(s, p) = found[p]
  <2>1. p - start + 1 \in 1 .. n /\ start + (p - start + 1) - 1 = p
    BY DEF Positions
  <2>2. EntryAt(s, p) = [value |-> found[p].value, index |-> found[p].index]
    BY <1>4, <2>1 DEF EntryAt
  <2>3. found[p] \in Entry
    BY DEF ProperEntry
  <2> QED
    BY <2>2, <2>3 DEF Entry
<1>8. Acceptable(s, start, stop, first, last)
  <2>1. s.typed /\ s.offset = start
    BY <1>4, Zenon
  <2>2. \A p \in Positions(start, stop) :
           /\ EntryAt(s, p) \in ProperEntry
           /\ EntryAt(s, p) = Sentinel \/ EntryAt(s, p).index \in Positions(first, last)
    BY <1>7
  <2> QED
    BY <1>5, <2>1, <2>2 DEF Acceptable
<1> QED
  BY <1>6, <1>7, <1>8 DEF s

(* A planned tile is not empty and lies within the join.                   *)
LEMMA TilesHaveCells ==
    ASSUME NEW j, Planned(j), NEW k \in 1 .. Len(j.tiles)
    PROVE  LET t == j.tiles[k]
           IN  /\ t.row_start \in Nat /\ t.row_stop \in Nat
               /\ t.column_start \in Nat /\ t.column_stop \in Nat
               /\ t.row_start < t.row_stop /\ t.row_stop <= j.rows
               /\ t.column_start < t.column_stop /\ t.column_stop <= j.columns
<1>1. PICK p : /\ GoodPlan(p) /\ j.rows = p.rows /\ j.columns = p.columns
               /\ j.tiles = Tiles(p)
  BY DEF Planned
<1>2. PICK c \in Corners(p) : j.tiles[k] = TileAt(p, k - 1, c[1], c[2])
  <2>1. k \in DOMAIN Tiles(p)
    BY <1>1, TilesAreCorners
  <2>2. \E c \in Corners(p) : Tiles(p)[k] = TileAt(p, k - 1, c[1], c[2])
    BY <1>1, <2>1, TilesAreCorners
  <2> QED
    BY <1>1, <2>2
<1>3. /\ p.rows \in Nat /\ p.columns \in Nat /\ p.tile_size \in Nat \ {0}
      /\ c[1] \in Nat /\ c[2] \in Nat /\ c[1] < p.rows /\ c[2] < p.columns
  <2>1. c \in (0 .. p.rows - 1) \X (0 .. p.columns - 1)
    BY DEF Corners
  <2>2. c[1] \in 0 .. p.rows - 1 /\ c[2] \in 0 .. p.columns - 1
    BY <2>1
  <2> QED
    BY <1>1, <2>2 DEF GoodPlan
<1>4. /\ j.tiles[k].row_start = c[1] /\ j.tiles[k].column_start = c[2]
      /\ j.tiles[k].row_stop = Least(p.rows, c[1] + p.tile_size)
      /\ j.tiles[k].column_stop = Least(p.columns, c[2] + p.tile_size)
  BY <1>2 DEF TileAt
<1>5. ASSUME NEW n \in Nat, NEW x \in Nat, NEW size \in Nat \ {0}, x < n
      PROVE  Least(n, x + size) \in Nat /\ x < Least(n, x + size) /\ Least(n, x + size) <= n
  BY <1>5 DEF Least
<1>6. /\ Least(p.rows, c[1] + p.tile_size) \in Nat /\ c[1] < Least(p.rows, c[1] + p.tile_size)
      /\ Least(p.rows, c[1] + p.tile_size) <= p.rows
  BY <1>3, <1>5
<1>7. /\ Least(p.columns, c[2] + p.tile_size) \in Nat
      /\ c[2] < Least(p.columns, c[2] + p.tile_size)
      /\ Least(p.columns, c[2] + p.tile_size) <= p.columns
  BY <1>3, <1>5
<1> QED
  BY <1>1, <1>3, <1>4, <1>6, <1>7

(* The join is that of a matrix of correlations and an exclusion zone.     *)
ComputedFrom(j, sim, zone) ==
    \A r \in Positions(0, j.rows), c \in Positions(0, j.columns) :
        Sim(j, r, c) = MaskedCell(sim, zone, r, c)

(* The block of the tile is an array of MLX.                               *)
IsArray(t) == t.row_stop - t.row_start <= IntMax /\ t.column_stop - t.column_start <= IntMax

(* execute_1nn_tile: whatever the tile of a plan, ties, flat windows and   *)
(* excluded cells in it, what a worker answers is a message that passes    *)
(* the coordinator's checks and has the best match of each of the tile's   *)
(* columns and rows, at the lowest global index.                           *)
THEOREM TileResultIsRight ==
    ASSUME NEW j, Planned(j), WellFormed(j), NEW sim, NEW zone \in Nat,
           ComputedFrom(j, sim, zone), NEW k \in 0 .. Len(j.tiles) - 1,
           IsArray(j.tiles[k + 1])
    PROVE  LET t == j.tiles[k + 1]
               a == TileResult(k, sim, zone, t)
           IN  Checked(t, k, a) /\ IsResultOf(a, j, t)
<1> DEFINE t == j.tiles[k + 1]
           a == TileResult(k, sim, zone, t)
           R == Positions(t.row_start, t.row_stop)
           C == Positions(t.column_start, t.column_stop)
           column == [c \in C |-> ColumnBest(sim, zone, t, c)]
           row == [r \in R |-> RowBest(sim, zone, t, r)]
<1>1. Len(j.tiles) \in Nat
  BY TilesAreCorners, CornersAreFinite DEF Planned
<1>2. k + 1 \in 1 .. Len(j.tiles)
  BY <1>1
<1>3. /\ t.row_start \in Nat /\ t.row_stop \in Nat /\ t.row_start < t.row_stop
      /\ t.column_start \in Nat /\ t.column_stop \in Nat /\ t.column_start < t.column_stop
      /\ t.row_stop <= j.rows /\ t.column_stop <= j.columns
  BY <1>2, TilesHaveCells
<1> HIDE DEF t
<1>4. ASSUME NEW r \in R, NEW c \in C
      PROVE  /\ Sim(j, r, c) = BlockCell(sim, zone, t, r, c)
             /\ Sim(j, r, c) \in CellValue
  <2>1. j.rows \in Nat /\ j.columns \in Nat
    BY DEF Planned, GoodPlan
  <2>2. r \in Positions(0, j.rows) /\ c \in Positions(0, j.columns)
    <3>1. R \subseteq Positions(0, j.rows)
      BY <1>3, <2>1, PositionsNest
    <3>2. C \subseteq Positions(0, j.columns)
      BY <1>3, <2>1, PositionsNest
    <3> QED
      BY <3>1, <3>2
  <2>3. Sim(j, r, c) = MaskedCell(sim, zone, r, c)
    BY <2>2 DEF ComputedFrom
  <2>4. Masked(t, zone, r - t.row_start, c - t.column_start) <=> Trivial(r, c, zone)
    <3>1. IsBlock(t)
      BY <1>3 DEF IsBlock, IsArray, t
    <3> QED
      BY <3>1, MaskIsExact DEF RowsOf, ColumnsOf
  <2>5. BlockCell(sim, zone, t, r, c) = MaskedCell(sim, zone, r, c)
    BY <2>4 DEF BlockCell, MaskedCell
  <2> QED
    BY <2>2, <2>3, <2>5 DEF WellFormed, CellValue
<1>5. ASSUME NEW c \in C
      PROVE  /\ column[c] \in ProperEntry
             /\ column[c] = Sentinel \/ column[c].index \in R
             /\ IsBestOf(column[c], ColumnMatches(j, t, c))
  <2> DEFINE f == [r \in R |-> BlockCell(sim, zone, t, r, c)]
             E == {e \in {[value |-> f[r], index |-> r] : r \in R} : e.value # InvalidValue}
  <2>1. column[c] = FirstBest(f, R)
    BY DEF ColumnBest, RowsOf
  <2>2. \A r \in R : f[r] = Sim(j, r, c) /\ f[r] \in CellValue
    BY <1>4
  <2> HIDE DEF f
  <2>3. E = ColumnMatches(j, t, c)
    BY <2>2 DEF ColumnMatches
  <2> HIDE DEF column
  <2>4. /\ FirstBest(f, R) \in ProperEntry
        /\ FirstBest(f, R) = Sentinel \/ FirstBest(f, R).index \in R
        /\ IsBestOf(FirstBest(f, R), E)
    BY <1>3, <2>2, FirstBestIsBest
  <2> QED
    BY <2>1, <2>3, <2>4
<1>6. ASSUME NEW r \in R
      PROVE  /\ row[r] \in ProperEntry
             /\ row[r] = Sentinel \/ row[r].index \in C
             /\ IsBestOf(row[r], RowMatches(j, t, r))
  <2> DEFINE f == [c \in C |-> BlockCell(sim, zone, t, r, c)]
             E == {e \in {[value |-> f[c], index |-> c] : c \in C} : e.value # InvalidValue}
  <2>1. row[r] = FirstBest(f, C)
    BY DEF RowBest, ColumnsOf
  <2>2. \A c \in C : f[c] = Sim(j, r, c) /\ f[c] \in CellValue
    BY <1>4
  <2> HIDE DEF f
  <2>3. E = RowMatches(j, t, r)
    BY <2>2 DEF RowMatches
  <2> HIDE DEF row
  <2>4. /\ FirstBest(f, C) \in ProperEntry
        /\ FirstBest(f, C) = Sentinel \/ FirstBest(f, C).index \in C
        /\ IsBestOf(FirstBest(f, C), E)
    BY <1>3, <2>2, FirstBestIsBest
  <2> QED
    BY <2>1, <2>3, <2>4
<1>7. /\ a.request = k
      /\ a.column_profile = SliceOf(column, t.column_start, t.column_stop)
      /\ t.compute_rows => a.row_profile = SliceOf(row, t.row_start, t.row_stop)
  BY DEF TileResult, ColumnSlice, RowSlice, RowsOf, ColumnsOf
<1> HIDE DEF column, row, a
<1>8. /\ Acceptable(a.column_profile, t.column_start, t.column_stop, t.row_start, t.row_stop)
      /\ \A c \in C : EntryAt(a.column_profile, c) = column[c]
  <2>1. \A c \in C : /\ column[c] \in ProperEntry
                     /\ column[c] = Sentinel \/ column[c].index \in R
    BY <1>5
  <2>2. PICK m \in Nat, n \in Nat : m = t.column_start /\ n = t.column_stop /\ m <= n
    BY <1>3
  <2>3. /\ Acceptable(SliceOf(column, m, n), m, n, t.row_start, t.row_stop)
        /\ \A p \in Positions(m, n) : EntryAt(SliceOf(column, m, n), p) = column[p]
    BY <2>1, <2>2, SliceSaysBest
  <2> QED
    BY <1>7, <2>2, <2>3
<1>9. ASSUME t.compute_rows
      PROVE  /\ Acceptable(a.row_profile, t.row_start, t.row_stop, t.column_start, t.column_stop)
             /\ \A r \in R : EntryAt(a.row_profile, r) = row[r]
  <2>1. \A r \in R : /\ row[r] \in ProperEntry
                     /\ row[r] = Sentinel \/ row[r].index \in C
    BY <1>6
  <2>2. PICK m \in Nat, n \in Nat : m = t.row_start /\ n = t.row_stop /\ m <= n
    BY <1>3
  <2>3. /\ Acceptable(SliceOf(row, m, n), m, n, t.column_start, t.column_stop)
        /\ \A p \in Positions(m, n) : EntryAt(SliceOf(row, m, n), p) = row[p]
    BY <2>1, <2>2, SliceSaysBest
  <2> QED
    BY <1>7, <1>9, <2>2, <2>3
<1>10. Checked(t, k, a)
  BY <1>7, <1>8, <1>9 DEF Checked
<1>11. IsResultOf(a, j, t)
  BY <1>5, <1>6, <1>8, <1>9 DEF IsResultOf
<1> QED
  BY <1>10, <1>11 DEF t, a

(* A plan's joins, each on one matrix, and workers that answer with what   *)
(* execute_1nn_tile computes of it, if they answer at all.                 *)
HonestWorkers ==
    \A j \in Jobs :
        /\ Planned(j) /\ WellFormed(j)
        /\ \A k \in 0 .. Total(j) - 1 : IsArray(j.tiles[k + 1])
        /\ \E sim : \E zone \in Nat :
              /\ ComputedFrom(j, sim, zone)
              /\ \A k \in 0 .. Total(j) - 1 :
                    Answers(j, k) \subseteq {TileResult(k, sim, zone, j.tiles[k + 1])}

(* No answer is refused.                                                   *)
AnswersAreTaken ==
    \A k \in Ordinals : task[k] = "returned" => ColumnAcceptable(k) /\ RowAcceptable(k)

(* The worker and the coordinator together: with the plan, the execution   *)
(* of tiles and the merge as the code has them, a job that returns returns *)
(* the profile of the whole matrix, and none fails because the coordinator *)
(* refuses what a worker computed.                                         *)
THEOREM HonestWorkersSuffice ==
    ASSUME HonestWorkers
    PROVE  Spec => ImplementsProfileJob /\ []AnswersAreTaken
<1>1. ASSUME NEW j \in Jobs, NEW k \in 0 .. Total(j) - 1, NEW a \in Answers(j, k)
      PROVE  Checked(j.tiles[k + 1], k, a) /\ IsResultOf(a, j, j.tiles[k + 1])
  <2>1. Planned(j) /\ WellFormed(j) /\ IsArray(j.tiles[k + 1])
    BY DEF HonestWorkers
  <2>2. PICK sim : \E zone \in Nat :
          /\ ComputedFrom(j, sim, zone)
          /\ \A m \in 0 .. Total(j) - 1 :
                Answers(j, m) \subseteq {TileResult(m, sim, zone, j.tiles[m + 1])}
    BY DEF HonestWorkers
  <2>3. PICK zone \in Nat :
          /\ ComputedFrom(j, sim, zone)
          /\ \A m \in 0 .. Total(j) - 1 :
                Answers(j, m) \subseteq {TileResult(m, sim, zone, j.tiles[m + 1])}
    BY <2>2
  <2>4. a = TileResult(k, sim, zone, j.tiles[k + 1])
    BY <2>3
  <2>5. k \in 0 .. Len(j.tiles) - 1
    BY DEF Total
  <2> QED
    BY <2>1, <2>4, <2>5, <2>3, TileResultIsRight
<1>2. PromiseMayBeKept
  BY <1>1 DEF PromiseMayBeKept, HonestWorkers, CheckedIsRight
<1>3. Init => AnswersInv
  BY DEF Init, AnswersInv
<1>4. IInv /\ AnswersInv /\ [Next]_vars => AnswersInv'
  BY NextAnswersInv DEF IInv
<1>5. IInv /\ AnswersInv => AnswersAreTaken
  <2> SUFFICES ASSUME IInv, AnswersInv, NEW k \in Ordinals, task[k] = "returned"
               PROVE  ColumnAcceptable(k) /\ RowAcceptable(k)
    BY DEF AnswersAreTaken
  <2>1. job \in Jobs /\ k \in 0 .. Total(job) - 1 /\ answer[k] \in Answers(job, k)
    BY DEF IInv, TypeOK, AnswersInv, Ordinals
  <2>2. Checked(job.tiles[k + 1], k, answer[k])
    BY <1>1, <2>1
  <2> QED
    BY <2>2 DEF Checked, ColumnAcceptable, RowAcceptable, TileOf
<1>6. Spec => ImplementsProfileJob
  BY <1>2, PromiseIsKept
<1>7. Spec => []AnswersAreTaken
  BY Invariance, <1>3, <1>4, <1>5, PTL DEF Spec
<1> QED
  BY <1>6, <1>7, PTL
=============================================================================
