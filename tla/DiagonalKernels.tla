--------------------------- MODULE DiagonalKernels ---------------------------
(***************************************************************************)
(* The custom Metal kernels (_metal_1nn.py, _metal_matrix.py,              *)
(* _metal_sum.py).  A thread walks one diagonal of the join and combines   *)
(* its correlations into shared arrays by atomic operations, all relaxed;  *)
(* the threads of a launch run in any order.  Indexed profiles take two    *)
(* launches: a maximum of ordered keys, then the least index whose key is  *)
(* that maximum; a sum takes one per batch of diagonals.  The correlations *)
(* are given, as Width-bit sign-magnitude numbers, and are the same in both*)
(* launches (the recurrence and its rounding are not modelled; nor is -0,  *)
(* which only an underflow makes); coordinates are Width-bit integers, and *)
(* signed overflow, which indexing_is_safe excludes for a matrix, wraps.   *)
(***************************************************************************)
EXTENDS Integers, FiniteSets, FiniteSetsExt

CONSTANTS Jobs,         \* [kind, n_a, n_b, m, self, exclusion, rows, cols, threshold, corr]
          Width,        \* of uint, int and float: 32 in the code
          Minus2,       \* the pattern of the sentinel, below every correlation
          Invalid,      \* of a cell without a correlation
          BatchSize,    \* DIAGONALS_PER_PARTIAL
          Nothing       \* what a thread holds, or an index is, before it is set

ASSUME KernelAssumption == Width \in Nat \ {0, 1} /\ BatchSize \in Nat \ {0}

VARIABLES job,
          phase,        \* launch, profile, index, done, refused
          threads,      \* of the launch: the step each is at, the end it updates, what it holds
          first,        \* the first diagonal of the batch
          best,         \* the keys, by end and position; for a matrix by cell
          index,
          sums,         \* the atomic partial sums of the batch
          result        \* the sums of the batches before

vars == <<job, phase, threads, first, best, index, sums, result>>

----------------------------------------------------------------------------
(* Width-bit arithmetic: uint and int.                                     *)
Sign == 2^(Width - 1)
U(x) == x % 2^Width
I(x) == IF U(x) < Sign THEN U(x) ELSE U(x) - 2^Width

(* A float, and its key: unsigned keys are in the order of the floats.     *)
Value(bits) == IF bits < Sign THEN bits ELSE Sign - bits

RawKey(bits) == bits

OrderedKey(bits) == IF bits < Sign THEN bits + Sign ELSE 2^Width - 1 - bits

Decoded(key) == IF key >= Sign THEN key - Sign ELSE 2^Width - 1 - key

UIntMax == 2^Width - 1
IntMax == Sign - 1

(* Every pattern but that of -0.                                           *)
Patterns == (0 .. UIntMax) \ {Sign}

(* What a power of two is, and that a mark is not a number.                *)
ASSUME PowerAssumption == Sign \in Nat \ {0} /\ 2^Width = 2 * Sign
ASSUME MarksAssumption == Minus2 \in Patterns /\ Invalid \notin Int /\ Nothing \notin Int

(* The joins run on these kernels: a self-join has an exclusion zone       *)
(* (self_join_exclusion) and one index per position, a matrix no more bins *)
(* than subsequences; the length of an MLX array is an int, which a matrix *)
(* need not take on trust.  A correlation is clamped to -1..1.             *)
ASSUME JobsAssumption ==
    \A j \in Jobs :
        /\ j.kind \in {"1nn", "1nn_value", "bidirectional", "sum", "matrix"}
        /\ j.self \in BOOLEAN /\ j.threshold \in Int
        /\ {j.n_a, j.n_b, j.m, j.rows, j.cols} \subseteq Nat \ {0} /\ j.exclusion \in Nat
        /\ j.self => j.n_a = j.n_b /\ j.exclusion > 0 /\ j.kind # "bidirectional"
        /\ IF j.kind = "matrix" THEN j.rows <= j.n_b /\ j.cols <= j.n_a
           ELSE j.n_a <= Sign /\ j.n_b <= Sign /\ j.exclusion <= IntMax
        /\ j.corr \in [(0 .. j.n_b - 1) \X (0 .. j.n_a - 1) ->
                          {Invalid} \cup {b \in Patterns : Value(b) > Value(Minus2)}]

----------------------------------------------------------------------------
(* The host.                                                               *)
DiagonalCount == IF job.self THEN job.n_a - job.exclusion ELSE job.n_a + job.n_b - 1

(* indexing_is_safe, asked of a matrix only.                               *)

IndexingIsSafe ==
    /\ \A x \in {job.n_a, job.n_b, job.m, job.rows, job.cols} : 0 < x /\ x <= UIntMax
    /\ job.n_a + job.m - 2 <= UIntMax /\ job.n_b + job.m - 2 <= UIntMax
    /\ job.exclusion \in 0..IntMax /\ job.rows * job.cols <= UIntMax
    /\ IF job.self THEN job.n_a - 1 <= IntMax ELSE job.n_a + job.n_b - 2 <= IntMax

----------------------------------------------------------------------------
(* A thread's way along its diagonal.                                      *)
Diagonal(slot) ==
    IF job.self THEN I(job.exclusion + slot) ELSE I(I(slot) - I(job.n_a - 1))

Start(slot) ==
    LET d == Diagonal(slot)
    IN  IF job.self THEN [col |-> U(d), row |-> 0]
        ELSE [col |-> IF d < 0 THEN U(-d) ELSE 0, row |-> IF d > 0 THEN U(d) ELSE 0]

DiagonalLength(slot) ==
    LET left == {U(job.n_a - Start(slot).col), U(job.n_b - Start(slot).row)}
    IN  Min(left)

Col(slot, step) == U(Start(slot).col + step)
Row(slot, step) == U(Start(slot).row + step)

Corr(row, col) ==
    IF row < job.n_b /\ col < job.n_a THEN job.corr[<<row, col>>] ELSE Invalid

Distance(x, y) == IF x < y THEN y - x ELSE x - y

Excluded(row, col) ==
    job.exclusion > 0 /\ Distance(I(col), I(row)) < I(job.exclusion)

(* The correlation of a step counts: it is valid, not excluded, and for a  *)
(* sum above the threshold.                                                *)
Counts(slot, step) ==
    LET row == Row(slot, step)
        col == Col(slot, step)
    IN  /\ ~Excluded(row, col) /\ Corr(row, col) # Invalid
        /\ job.kind = "sum" => Value(Corr(row, col)) > job.threshold

(* The next step that counts, or the end of the diagonal.                  *)
NextStep(slot, from) ==
    Min({DiagonalLength(slot)}
        \cup {s \in from .. DiagonalLength(slot) - 1 : Counts(slot, s)})

(* _matrix_bin_edges, and the bin of a thread: by bisection at the start,  *)
(* then up by at most one at every step.                                   *)
Edge(i, n, bins) == (i * n + bins - 1) \div bins

FirstBin(x, n, bins) ==
    LET search[bounds \in (0..bins) \X (0..bins)] ==
            LET lower == bounds[1]
                upper == bounds[2]
                middle == lower + (upper - lower) \div 2
            IN  IF lower + 1 >= upper THEN lower
                ELSE IF x >= Edge(middle, n, bins) THEN search[<<middle, upper>>]
                ELSE search[<<lower, middle>>]
    IN  search[<<0, bins>>]

BinPastEdge(x, step, n, bins) ==
    LET bin[s \in 0..step] ==
            IF s = 0 THEN FirstBin(x, n, bins)
            ELSE IF bin[s - 1] + 1 < bins /\ x + s > Edge(bin[s - 1] + 1, n, bins)
            THEN bin[s - 1] + 1 ELSE bin[s - 1]
    IN  bin[step]

BinAfter(x, step, n, bins) ==
    LET bin[s \in 0..step] ==
            IF s = 0 THEN FirstBin(x, n, bins)
            ELSE IF bin[s - 1] + 1 < bins /\ x + s >= Edge(bin[s - 1] + 1, n, bins)
            THEN bin[s - 1] + 1 ELSE bin[s - 1]
    IN  bin[step]

MatrixCell(slot, step) ==
    U(BinAfter(Start(slot).row, step, job.n_b, job.rows) * job.cols
      + BinAfter(Start(slot).col, step, job.n_a, job.cols))

(* Where a thread writes: the column, and the row too in a self-join or if *)
(* rows are kept.  A self-join has one array, an AB-join one for each end. *)
Ends == CASE job.kind = "matrix" -> <<"cell">>
          [] job.kind # "matrix" /\ (job.self \/ job.kind = "bidirectional") -> <<"col", "row">>
          [] OTHER -> <<"col">>

RowArray == IF job.self THEN "a" ELSE "b"

Target(slot, step, end) ==
    CASE end = "cell" -> <<"m", MatrixCell(slot, step)>>
      [] end = "col" -> <<"a", Col(slot, step)>>
      [] end = "row" -> <<RowArray, Row(slot, step)>>

Positions ==
    {<<"a", c>> : c \in 0 .. job.n_a - 1}
    \cup {<<"b", r>> : r \in 0 .. job.n_b - 1}
    \cup {<<"m", c>> : c \in 0 .. job.rows * job.cols - 1}

----------------------------------------------------------------------------
Init ==
    /\ job \in Jobs
    /\ phase = "launch" /\ threads = <<>> /\ first = 0
    /\ best = [p \in Positions |-> OrderedKey(Minus2)]
    /\ index = [p \in Positions |-> Nothing]
    /\ sums = [p \in Positions |-> 0] /\ result = [p \in Positions |-> 0]

Launched(from, count) ==
    [slot \in from .. from + count - 1 |->
        [step |-> NextStep(slot, 0), end |-> 1, held |-> Nothing]]

(* matrix_summary refuses what it cannot index.  Without a diagonal there  *)
(* is nothing to launch.                                                   *)
Launch ==
    /\ phase = "launch"
    /\ IF job.kind = "matrix" /\ ~IndexingIsSafe
       THEN phase' = "refused" /\ UNCHANGED threads
       ELSE IF DiagonalCount <= 0
       THEN phase' = "done" /\ UNCHANGED threads
       ELSE /\ phase' = "profile"
            /\ threads' = Launched(0, IF job.kind = "sum" THEN Min({BatchSize, DiagonalCount})
                                      ELSE DiagonalCount)
    /\ UNCHANGED <<job, first, best, index, sums, result>>

Slots == DOMAIN threads
Running(slot) == threads[slot].step < DiagonalLength(slot)
Here(slot) == Target(slot, threads[slot].step, Ends[threads[slot].end])
Bits(slot) == Corr(Row(slot, threads[slot].step), Col(slot, threads[slot].step))

(* On to the other end, or to the next step that counts.                   *)
Advance(slot) ==
    threads' = [threads EXCEPT ![slot] =
        IF @.end < Cardinality(DOMAIN Ends)
        THEN [@ EXCEPT !.end = 2, !.held = Nothing]
        ELSE [step |-> NextStep(slot, @.step + 1), end |-> 1, held |-> Nothing]]

(* atomic_fetch_max_explicit.                                              *)
FetchMax(slot) ==
    /\ phase = "profile" /\ job.kind # "sum" /\ Running(slot)
    /\ best' = [best EXCEPT ![Here(slot)] = Max({@, OrderedKey(Bits(slot))})]
    /\ Advance(slot)
    /\ UNCHANGED <<job, phase, first, index, sums, result>>

(* The second launch: the first one's keys are complete.                   *)
FetchMin(slot) ==
    LET p == Here(slot)
        other == IF Ends[threads[slot].end] = "col" THEN Row(slot, threads[slot].step)
                 ELSE Col(slot, threads[slot].step)
    IN  /\ phase = "index" /\ Running(slot)
        /\ index' = IF best[p] = OrderedKey(Bits(slot))
                    THEN [index EXCEPT ![p] = IF @ = Nothing THEN other ELSE Min({@, other})]
                    ELSE index
        /\ Advance(slot)
        /\ UNCHANGED <<job, phase, first, best, sums, result>>

(* The sum: a load, then compare-and-exchange until it succeeds; a failure *)
(* tells what was there.                                                   *)
Load(slot) ==
    /\ phase = "profile" /\ job.kind = "sum" /\ Running(slot)
    /\ threads[slot].held = Nothing
    /\ threads' = [threads EXCEPT ![slot].held = <<sums[Here(slot)]>>]
    /\ UNCHANGED <<job, phase, first, best, index, sums, result>>

Store(slot) ==
    /\ sums' = [sums EXCEPT ![Here(slot)] = threads[slot].held[1] + Value(Bits(slot))]
    /\ Advance(slot)

Exchange(slot) ==
    /\ phase = "profile" /\ job.kind = "sum" /\ Running(slot)
    /\ threads[slot].held # Nothing
    /\ Store(slot)
    /\ UNCHANGED <<job, phase, first, best, index, result>>

CompareExchange(slot) ==
    /\ phase = "profile" /\ job.kind = "sum" /\ Running(slot)
    /\ threads[slot].held # Nothing
    /\ IF sums[Here(slot)] = threads[slot].held[1] THEN Store(slot)
       ELSE threads' = [threads EXCEPT ![slot].held = <<sums[Here(slot)]>>] /\ UNCHANGED sums
    /\ UNCHANGED <<job, phase, first, best, index, result>>

(* A launch is over when all its threads are; the host starts the next.    *)
AllDone == \A slot \in Slots : ~Running(slot)
Indexed == job.kind \in {"1nn", "bidirectional"}

NextBatch ==
    /\ phase = "profile" /\ job.kind = "sum" /\ AllDone
    /\ result' = [p \in DOMAIN result |-> result[p] + sums[p]]
    /\ sums' = [p \in DOMAIN sums |-> 0]
    /\ IF first + BatchSize < DiagonalCount
       THEN /\ first' = first + BatchSize
            /\ threads' = Launched(first', Min({BatchSize, DiagonalCount - first'}))
            /\ UNCHANGED phase
       ELSE phase' = "done" /\ threads' = <<>> /\ UNCHANGED first
    /\ UNCHANGED <<job, best, index>>

Finish ==
    /\ phase \in {"profile", "index"} /\ job.kind # "sum" /\ AllDone
    /\ IF phase = "profile" /\ Indexed
       THEN phase' = "index" /\ threads' = Launched(0, DiagonalCount)
       ELSE phase' = "done" /\ threads' = <<>>
    /\ UNCHANGED <<job, first, best, index, sums, result>>

Next ==
    \/ Launch \/ NextBatch \/ Finish
    \/ \E slot \in Slots :
          FetchMax(slot) \/ FetchMin(slot) \/ Load(slot) \/ CompareExchange(slot)

Spec == Init /\ [][Next]_vars

----------------------------------------------------------------------------
(* What the portable reducers compute of the same correlations, whatever   *)
(* the order of the cells.                                                 *)
Given(row, col) ==
    LET bits == IF job.self /\ row > col THEN job.corr[<<col, row>>] ELSE job.corr[<<row, col>>]
    IN  IF Distance(row, col) < job.exclusion THEN Invalid ELSE bits

ValuesAt(p) ==
    IF p[1] = "a" THEN {<<Given(r, p[2]), r>> : r \in 0 .. job.n_b - 1}
    ELSE {<<Given(p[2], c), c>> : c \in 0 .. job.n_a - 1}

Valid(cells) == {x \in cells : x[1] # Invalid}
Highest(cells) == Max({Value(x[1]) : x \in Valid(cells)} \cup {Value(Minus2)})
FirstOf(cells) == {x[2] : x \in {y \in Valid(cells) : Value(y[1]) = Highest(cells)}}

SumOf(cells) == MapThenSumSet(LAMBDA x : Value(x[1]), cells)

Profiled == {p \in Positions : p[1] = "a" \/ (p[1] = "b" /\ job.kind = "bidirectional")}

(* Whatever the order of the threads, an index-free, indexed or two-sided  *)
(* profile has at each position the highest correlation, and the smallest  *)
(* index that reaches it: the second launch breaks ties as the portable    *)
(* reducer does, and an empty column keeps the sentinel and no index.      *)
NearestByKernel ==
    phase = "done" /\ job.kind \in {"1nn", "1nn_value", "bidirectional"} =>
        \A p \in Profiled :
            /\ Value(Decoded(best[p])) = Highest(ValuesAt(p))
            /\ job.kind # "1nn_value" =>
                  index[p] = IF Valid(ValuesAt(p)) = {} THEN Nothing
                             ELSE Min(FirstOf(ValuesAt(p)))

(* A sum has lost no correlation above the threshold, however threads and  *)
(* batches meet; a summary has in each of its cells the highest correlation*)
(* between the edges the portable reducer uses, though a thread finds its  *)
(* bin by bisection once and then moves it by at most one a step.          *)
PooledByKernel ==
    phase = "done" /\ job.kind \in {"matrix", "sum"} =>
        IF job.kind = "sum"
        THEN \A p \in Profiled :
                result[p] = SumOf({x \in Valid(ValuesAt(p)) : Value(x[1]) > job.threshold})
        ELSE \A i \in 0 .. job.rows - 1, j \in 0 .. job.cols - 1 :
                LET cells == {<<Given(r, c), <<r, c>> >> :
                                 r \in Edge(i, job.n_b, job.rows) .. Edge(i + 1, job.n_b, job.rows) - 1,
                                 c \in Edge(j, job.n_a, job.cols) .. Edge(j + 1, job.n_a, job.cols) - 1}
                IN  Value(Decoded(best[<<"m", i * job.cols + j>>])) =
                       Highest({x \in cells : job.self => x[2][1] <= x[2][2]})
=============================================================================
