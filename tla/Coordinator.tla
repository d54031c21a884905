---------------------------- MODULE Coordinator -----------------------------
(***************************************************************************)
(* DistributedCoordinator._run of distributed/coordinator.py.  The calling *)
(* thread submits tiles to a thread pool, a bounded number at a time, and  *)
(* merges the results in the order they arrive; the pool's threads run     *)
(* _execute_with_retries.  What one attempt to execute a tile meets in the *)
(* worker pool is a choice here: an answer, a transient error or a         *)
(* permanent one.                                                          *)
(***************************************************************************)
EXTENDS ProfileMerge, TileGrid

CONSTANTS Jobs,             \* the joins a caller may ask for, with their tiles
          Sim(_, _, _),     \* Sim(j, r, c): what row r of j correlates with c
          Answers(_, _),    \* Answers(j, k): what workers may answer to tile k
          NoAnswer,         \* in place of an answer, until there is one
          PoolSize,         \* the number of configured workers
          MaxInFlight,      \* max_in_flight, 0 when it is not given
          MaxRetries        \* max_retries

Tile ==
    [ordinal : Nat, row_start : Nat, row_stop : Nat, column_start : Nat,
     column_stop : Nat, compute_rows : BOOLEAN]

Answer == [request : Int, column_profile : Slice, row_profile : Slice]

Total(j) == Len(j.tiles)

ASSUME JobsAssumption ==
    \A j \in Jobs : /\ j.rows \in Nat /\ j.columns \in Nat
                    /\ j.self_join \in BOOLEAN /\ j.keep_rows \in BOOLEAN
                    /\ j.tiles \in Seq(Tile)

ASSUME AnswersAssumption ==
    \A j \in Jobs : \A k \in 0 .. Total(j) - 1 : Answers(j, k) \subseteq Answer

ASSUME LimitsAssumption ==
    PoolSize \in Nat /\ MaxInFlight \in Nat /\ MaxRetries \in Nat

VARIABLES job,          \* the join being computed
          phase,        \* where the calling thread is
          limit,        \* in_flight_limit
          next,         \* the ordinal of the iterator's next tile
          pending,      \* the ordinals of the submitted, unhandled futures
          done,         \* those the last wait returned and still to handle
          task,         \* for each ordinal, the state of its future
          attempt,      \* for each ordinal, the retries made so far
          answer,       \* for each ordinal, the result its future holds
          profile,      \* column_values, row_values and their indices
          merged,       \* the ordinals whose result has been merged
          completed,    \* the completed tiles of the last progress report
          retries       \* and its retry attempts

threads == <<task, attempt, answer>>
report == <<completed, retries>>
vars == <<job, phase, limit, next, pending, done, threads, profile, merged, report>>

Ordinals == 0 .. Total(job) - 1
TileOf(k) == job.tiles[k + 1]

Init ==
    /\ job \in Jobs
    /\ phase = "starting"
    /\ limit = 0 /\ next = 0 /\ pending = {} /\ done = {}
    /\ task = [k \in Ordinals |-> "unsubmitted"]
    /\ attempt = [k \in Ordinals |-> 0]
    /\ answer = [k \in Ordinals |-> NoAnswer]
    /\ profile = [cell \in Cells(job) |-> Sentinel]
    /\ merged = {} /\ completed = 0 /\ retries = 0

----------------------------------------------------------------------------
(* discover_serving finds this many workers, they are fit for the job and  *)
(* it can be planned; or the job fails before a tile is sent.              *)
Start(serving) ==
    /\ phase = "starting"
    /\ limit' = IF MaxInFlight = 0 THEN serving ELSE MaxInFlight
    /\ phase' = "filling"
    /\ UNCHANGED <<job, next, pending, done, threads, profile, merged, report>>

Refuse ==
    /\ phase = "starting"
    /\ phase' = "failed"
    /\ UNCHANGED <<job, limit, next, pending, done, threads, profile, merged, report>>

(* submit_tile for the iterator's next tile.  rest is pending without the  *)
(* future that was just handled.                                           *)
SubmitNext(rest) ==
    /\ next' = next + 1
    /\ pending' = rest \cup {next}
    /\ task' = [task EXCEPT ![next] = "queued"]

FillOneTooMany == next <= limit /\ next < Total(job)

MayFill == next < limit /\ next < Total(job)

Fill ==
    /\ phase = "filling"
    /\ MayFill
    /\ SubmitNext(pending)
    /\ UNCHANGED <<job, phase, limit, done, attempt, answer, profile, merged, report>>

FilledDroppingTile ==
    /\ phase = "filling"
    /\ ~MayFill
    /\ next' = IF next < Total(job) THEN next + 1 ELSE next
    /\ phase' = "waiting"
    /\ UNCHANGED <<job, limit, pending, done, threads, profile, merged, report>>

Filled ==
    /\ phase = "filling"
    /\ ~MayFill
    /\ phase' = "waiting"
    /\ UNCHANGED <<job, limit, next, pending, done, threads, profile, merged, report>>

----------------------------------------------------------------------------
(* wait(pending, return_when=FIRST_COMPLETED) returns every future that is *)
(* finished by then; they are handled in the order of their ordinals.      *)
FinishedWithoutErrors == {k \in pending : task[k] = "returned"}

Finished == {k \in pending : task[k] \in {"returned", "raised"}}

Wait ==
    /\ phase = "waiting"
    /\ Finished # {}
    /\ done' = Finished
    /\ phase' = "handling"
    /\ UNCHANGED <<job, limit, next, pending, threads, profile, merged, report>>

IsNext(k) == k \in done /\ \A other \in done : k <= other

(* Where the row slice of a tile is merged: a self-join has one profile.   *)
RowSide == IF job.self_join THEN "column" ELSE "row"

ColumnOfRightLength(k) ==
    LET slice == answer[k].column_profile
        length == TileOf(k).column_stop - TileOf(k).column_start
    IN  /\ answer[k].request = k
        /\ slice.typed /\ slice.offset = TileOf(k).column_start
        /\ Len(slice.values) = length /\ Len(slice.indices) = length

ColumnMatchingColumns(k) ==
    /\ answer[k].request = k
    /\ Acceptable(answer[k].column_profile,
                  TileOf(k).column_start, TileOf(k).column_stop,
                  TileOf(k).column_start, TileOf(k).column_stop)

ColumnAcceptable(k) ==
    /\ answer[k].request = k
    /\ Acceptable(answer[k].column_profile,
                  TileOf(k).column_start, TileOf(k).column_stop,
                  TileOf(k).row_start, TileOf(k).row_stop)

RowAcceptable(k) ==
    TileOf(k).compute_rows =>
        Acceptable(answer[k].row_profile,
                   TileOf(k).row_start, TileOf(k).row_stop,
                   TileOf(k).column_start, TileOf(k).column_stop)

WithColumns(k) ==
    ApplySlice(profile, "column", answer[k].column_profile,
               TileOf(k).column_start, TileOf(k).column_stop)

WithRows(k, before) ==
    IF TileOf(k).compute_rows
    THEN ApplySlice(before, RowSide, answer[k].row_profile,
                    TileOf(k).row_start, TileOf(k).row_stop)
    ELSE before

(* future.result() raises.                                                 *)
HandleError(k) ==
    /\ phase = "handling" /\ IsNext(k)
    /\ task[k] = "raised"
    /\ pending' = pending \ {k}
    /\ phase' = "unwinding"
    /\ UNCHANGED <<job, limit, next, done, threads, profile, merged, report>>

(* The answer is not to this tile, or its column slice is refused.         *)
HandleBadColumns(k) ==
    /\ phase = "handling" /\ IsNext(k)
    /\ task[k] = "returned" /\ ~ColumnAcceptable(k)
    /\ pending' = pending \ {k}
    /\ phase' = "unwinding"
    /\ UNCHANGED <<job, limit, next, done, threads, profile, merged, report>>

(* The row slice is refused when the column slice is in the profile.       *)
HandleBadRows(k) ==
    /\ phase = "handling" /\ IsNext(k)
    /\ task[k] = "returned" /\ ColumnAcceptable(k) /\ ~RowAcceptable(k)
    /\ profile' = WithColumns(k)
    /\ pending' = pending \ {k}
    /\ phase' = "unwinding"
    /\ UNCHANGED <<job, limit, next, done, threads, merged, report>>

Merge(k) ==
    /\ phase = "handling" /\ IsNext(k)
    /\ task[k] = "returned" /\ ColumnAcceptable(k) /\ RowAcceptable(k)
    /\ profile' = WithRows(k, WithColumns(k))
    /\ merged' = merged \cup {k}
    /\ completed' = completed + 1
    /\ retries' = retries + attempt[k]

(* The tile is merged and reported, and the next one submitted.            *)
Handle(k) ==
    /\ Merge(k)
    /\ IF next < Total(job)
       THEN SubmitNext(pending \ {k})
       ELSE pending' = pending \ {k} /\ UNCHANGED <<next, task>>
    /\ done' = done \ {k}
    /\ phase' = IF done' = {} THEN "waiting" ELSE "handling"
    /\ UNCHANGED <<job, limit, attempt, answer>>

(* The caller's progress callback raises.                                  *)
HandleThenRaise(k) ==
    /\ Merge(k)
    /\ pending' = pending \ {k}
    /\ phase' = "unwinding"
    /\ UNCHANGED <<job, limit, next, done, threads>>

Return ==
    /\ phase = "waiting"
    /\ pending = {}
    /\ phase' = "returned"
    /\ UNCHANGED <<job, limit, next, pending, done, threads, profile, merged, report>>

(* The finally block: each future that no thread has begun is cancelled,   *)
(* the others are waited for.                                              *)
Cancel(k) ==
    /\ phase = "unwinding"
    /\ k \in pending /\ task[k] = "queued"
    /\ task' = [task EXCEPT ![k] = "cancelled"]
    /\ UNCHANGED <<job, phase, limit, next, pending, done, attempt, answer,
                   profile, merged, report>>

ShutDownWithoutWaiting ==
    /\ phase = "unwinding"
    /\ \A k \in pending : task[k] # "queued"
    /\ phase' = "failed"
    /\ UNCHANGED <<job, limit, next, pending, done, threads, profile, merged, report>>

ShutDown ==
    /\ phase = "unwinding"
    /\ \A k \in pending : task[k] \notin {"queued", "running"}
    /\ phase' = "failed"
    /\ UNCHANGED <<job, limit, next, pending, done, threads, profile, merged, report>>

----------------------------------------------------------------------------
(* The threads.  A pool thread takes up the tile.                          *)
calling == <<job, phase, limit, next, pending, done, profile, merged, report>>

Begin(k) ==
    /\ task[k] = "queued"
    /\ task' = [task EXCEPT ![k] = "running"]
    /\ UNCHANGED <<calling, attempt, answer>>

Succeed(k) ==
    /\ task[k] = "running"
    /\ task' = [task EXCEPT ![k] = "returned"]
    /\ \E a \in Answers(job, k) : answer' = [answer EXCEPT ![k] = a]
    /\ UNCHANGED <<calling, attempt>>

(* A transient error is retried, until there have been max_retries of them.*)
Retry(k) ==
    /\ task[k] = "running"
    /\ attempt[k] < MaxRetries
    /\ attempt' = [attempt EXCEPT ![k] = @ + 1]
    /\ UNCHANGED <<calling, task, answer>>

(* Any other error is raised, and so is one transient error too many.      *)
Raise(k) ==
    /\ task[k] = "running"
    /\ task' = [task EXCEPT ![k] = "raised"]
    /\ UNCHANGED <<calling, attempt, answer>>

Caller ==
    \/ \E serving \in 1 .. PoolSize : Start(serving)
    \/ Refuse \/ Fill \/ Filled \/ Wait \/ Return \/ ShutDown
    \/ \E k \in Ordinals :
          HandleError(k) \/ HandleBadColumns(k) \/ HandleBadRows(k)
             \/ Handle(k) \/ HandleThenRaise(k) \/ Cancel(k)

Thread == \E k \in Ordinals : Begin(k) \/ Succeed(k) \/ Retry(k) \/ Raise(k)

Next == Caller \/ Thread

Spec == Init /\ [][Next]_vars /\ WF_vars(Next)

----------------------------------------------------------------------------
(* Whatever the workers answer, a profile holds correlations with the      *)
(* index of a match and sentinels, and nothing else.                       *)
TypeOK ==
    /\ job \in Jobs
    /\ phase \in {"starting", "filling", "waiting", "handling", "unwinding",
                  "returned", "failed"}
    /\ limit \in Nat
    /\ next \in 0 .. Total(job)
    /\ pending \subseteq Ordinals /\ done \subseteq Ordinals
    /\ task \in [Ordinals -> {"unsubmitted", "queued", "running", "returned",
                              "raised", "cancelled"}]
    /\ attempt \in [Ordinals -> 0 .. MaxRetries]
    /\ answer \in [Ordinals -> Answer \cup {NoAnswer}]
    /\ profile \in [Cells(job) -> ProperEntry]
    /\ merged \subseteq Ordinals
    /\ completed \in Nat /\ retries \in Nat

(* What the merged answer to tile k says of a cell.                        *)
ColumnSaid(k, cell) ==
    IF /\ cell[1] = "column"
       /\ cell[2] \in Positions(TileOf(k).column_start, TileOf(k).column_stop)
    THEN {EntryAt(answer[k].column_profile, cell[2])} ELSE {}

RowSaid(k, cell) ==
    IF /\ TileOf(k).compute_rows
       /\ cell[1] = RowSide
       /\ cell[2] \in Positions(TileOf(k).row_start, TileOf(k).row_stop)
    THEN {EntryAt(answer[k].row_profile, cell[2])} ELSE {}

Said(k, cell) == ColumnSaid(k, cell) \cup RowSaid(k, cell)

Candidates(cell) == (UNION {Said(k, cell) : k \in merged}) \ {Sentinel}

(* No error has been met.                                                  *)
Sound == phase \notin {"unwinding", "failed"}

(* At every moment of a job that has not failed, each cell holds the best  *)
(* of what the merged answers say of it, at the lowest index of a tie: the *)
(* order in which the tiles came back leaves no trace.                     *)
MergedIsBest ==
    Sound =>
        \A cell \in Cells(job) : IsBestOf(profile[cell], Candidates(cell))

(* While a job is sound every tile the iterator has given is either in     *)
(* flight or merged, once, and counted; it returns when all are merged.    *)
NoTileLostOrTwice ==
    Sound =>
        /\ pending \cup merged = 0 .. next - 1
        /\ pending \cap merged = {}
        /\ completed = Cardinality(merged)
        /\ phase = "returned" => merged = Ordinals

(* No more futures than the limit are submitted and unhandled.             *)
InFlightBounded == Cardinality(pending) <= limit

(* When the call is over, so is every tile: no thread still executes one   *)
(* of it, or will.                                                         *)
EndedJobIsQuiet ==
    phase \in {"returned", "failed"} =>
        \A k \in Ordinals : task[k] \notin {"queued", "running"}

(* What the invariants above rest on: a tile the iterator has not given is *)
(* untouched, one in a thread's hands is pending, a merged one was found   *)
(* acceptable, and the caller is never left waiting with tiles to submit   *)
(* and none in flight.                                                     *)
FuturesInv ==
    /\ pending \subseteq 0 .. next - 1
    /\ \A k \in Ordinals : k >= next => task[k] = "unsubmitted"
    /\ \A k \in Ordinals : task[k] \in {"queued", "running"} => k \in pending
    /\ \A k \in Ordinals : task[k] = "returned" => answer[k] \in Answer

CallerInv ==
    /\ phase = "starting" => pending = {} /\ next = 0
    /\ phase \in {"starting", "filling"} => merged = {}
    /\ phase \in {"filling", "waiting", "handling"} => limit >= 1
    /\ phase = "waiting" => next = Total(job) \/ pending # {}
    /\ phase = "handling" => done # {} /\ done \subseteq Finished
    /\ phase = "returned" => pending = {} /\ next = Total(job)
    /\ phase = "failed" => \A k \in Ordinals : task[k] \notin {"queued", "running"}

AcceptedInv ==
    \A k \in merged : task[k] = "returned" /\ ColumnAcceptable(k) /\ RowAcceptable(k)

(* The call returns or raises, whatever its tiles meet.                    *)
JobEnds == <>(phase \in {"returned", "failed"})

(* What the promise below needs of a job's tiles is that together they are *)
(* the whole join (WellTiled).  Of the matrix: correlations, the same on   *)
(* both sides of a self-join.                                              *)
WellFormed(j) ==
    \A r \in Positions(0, j.rows), c \in Positions(0, j.columns) :
        /\ Sim(j, r, c) \in Int
        /\ Sim(j, r, c) = InvalidValue \/ IsCorrelation(Sim(j, r, c))
        /\ j.self_join => Sim(j, r, c) = Sim(j, c, r)

(* And of the workers: what passes the checks is the tile's own result.    *)
ColumnMatches(j, t, c) ==
    {e \in {[value |-> Sim(j, r, c), index |-> r] : r \in Positions(t.row_start, t.row_stop)} :
        e.value # InvalidValue}

RowMatches(j, t, r) ==
    {e \in {[value |-> Sim(j, r, c), index |-> c] :
               c \in Positions(t.column_start, t.column_stop)} :
        e.value # InvalidValue}

Checked(t, k, a) ==
    /\ a.request = k
    /\ Acceptable(a.column_profile, t.column_start, t.column_stop, t.row_start, t.row_stop)
    /\ t.compute_rows =>
          Acceptable(a.row_profile, t.row_start, t.row_stop, t.column_start, t.column_stop)

IsResultOf(a, j, t) ==
    /\ \A c \in Positions(t.column_start, t.column_stop) :
          IsBestOf(EntryAt(a.column_profile, c), ColumnMatches(j, t, c))
    /\ t.compute_rows =>
          \A r \in Positions(t.row_start, t.row_stop) :
             IsBestOf(EntryAt(a.row_profile, r), RowMatches(j, t, r))

CheckedIsRight(j) ==
    \A k \in 0 .. Total(j) - 1 : \A a \in Answers(j, k) :
        Checked(j.tiles[k + 1], k, a) => IsResultOf(a, j, j.tiles[k + 1])

(* The job is one ProfileJob promises: what it returns is the profile of   *)
(* the whole join, and it returns it once.                                 *)
Outcome ==
    CASE phase = "returned" -> "done"
      [] phase = "failed"   -> "failed"
      [] OTHER              -> "running"

Result == IF phase = "returned" THEN profile ELSE NoAnswer

Promise == INSTANCE ProfileJob WITH
    outcome <- Outcome, result <- Result, NoProfile <- NoAnswer

ImplementsProfileJob == Promise!Spec
=============================================================================
