---------------------------- MODULE AutotuneCache ----------------------------
(***************************************************************************)
(* The tuning sidecar, _autotune_cache.py: threads of several processes    *)
(* save records, look them up and reset the file.  A save holds the lock of*)
(* its process and the lock file, reads the sidecar, and replaces it by a  *)
(* temporary file; afterwards, without a lock, it clears the two caches of *)
(* its process.  A lookup takes no lock and fills these caches.  A write   *)
(* may fail, and a process may die and be started again at any point.      *)
(***************************************************************************)
EXTENDS Naturals, FiniteSets

CONSTANTS Threads, ProcessOf,   \* the threads, and the process of each
          EnvironmentOf,        \* environment_id() of each process
          Keys,                 \* the workload keys
          Clock,                \* the values of created_ns; clocks may go back
          InitialFiles,         \* what the sidecar may be at first
          MaxRecords, MaxEnvironments,
          MaxCalls, MaxCrashes, \* bounds
          Nobody

Processes == {ProcessOf[t] : t \in Threads}

ASSUME CacheAssumption ==
    /\ MaxRecords \in Nat \ {0} /\ MaxEnvironments \in Nat \ {0}
    /\ MaxCalls \in Nat /\ MaxCrashes \in Nat /\ Clock \subseteq Nat
    /\ Nobody \notin Threads

(* The rows of a sidecar are those of a JSON list.                         *)
ASSUME FilesAssumption ==
    \A f \in InitialFiles : IsFiniteSet(f.rows) /\ \A r \in f.rows : r.created \in Nat

VARIABLES file,         \* the sidecar
          process_lock, \* _PROCESS_LOCK of each process: its holder
          file_lock,    \* the flock: its holder
          exists_cache, \* _sidecar_exists_once of each process
          load_cache,   \* _load_records_once of each process
          pc,           \* where each thread is
          record,       \* the record a thread saves
          fetched,      \* what a thread has read and not yet used or stored
          calls, crashes,
          recent,       \* what the file has been since each process's last change
          excused       \* a process's caches may be older than that

shared == <<file, process_lock, file_lock, exists_cache, load_cache>>
local == <<pc, record, fetched>>
history == <<recent, excused>>
bounds == <<calls, crashes>>
vars == <<shared, local, history, bounds>>

Whole(rows) == [state |-> "whole", rows |-> rows]
Absent == [state |-> "absent", rows |-> {}]

(* A cache holds one value, that of its path, or none.                     *)
Empty == <<>>
Holding(value) == <<value>>

Records == [environment : {EnvironmentOf[p] : p \in Processes}, key : Keys,
            created : Clock, candidate : Threads]

Init ==
    /\ file \in InitialFiles
    /\ process_lock = [p \in Processes |-> Nobody]
    /\ file_lock = Nobody
    /\ exists_cache = [p \in Processes |-> Empty]
    /\ load_cache = [p \in Processes |-> Empty]
    /\ pc = [t \in Threads |-> "idle"]
    /\ record = [t \in Threads |-> Empty]
    /\ fetched = [t \in Threads |-> Empty]
    /\ calls = [t \in Threads |-> 0] /\ crashes = 0
    /\ recent = [p \in Processes |-> {file}]
    /\ excused = [p \in Processes |-> FALSE]

Goto(t, place) == pc' = [pc EXCEPT ![t] = place]

Begin(t, place) ==
    /\ pc[t] = "idle" /\ calls[t] < MaxCalls
    /\ calls' = [calls EXCEPT ![t] = @ + 1]
    /\ Goto(t, place)

(* A change of the file, by a thread of process p or of another.           *)
FileBecomes(p, new) ==
    /\ file' = new
    /\ recent' = [q \in Processes |-> IF q = p THEN {new} ELSE recent[q] \cup {new}]

----------------------------------------------------------------------------
(* save_record and reset_cache; new_record has made the record.            *)
BeginSave(t) ==
    /\ Begin(t, "save:locking")
    /\ \E k \in Keys, c \in Clock :
          record' = [record EXCEPT ![t] =
                        <<[environment |-> EnvironmentOf[ProcessOf[t]], key |-> k,
                           created |-> c, candidate |-> t]>>]
    /\ UNCHANGED <<shared, fetched, history, crashes>>

BeginReset(t) ==
    /\ Begin(t, "reset:locking")
    /\ UNCHANGED <<shared, record, fetched, history, crashes>>

(* _locked_cache.                                                          *)
LockProcess(t) ==
    /\ \/ pc[t] = "save:locking" /\ Goto(t, "save:flock")
       \/ pc[t] = "reset:locking" /\ Goto(t, "reset:flock")
    /\ process_lock[ProcessOf[t]] = Nobody
    /\ process_lock' = [process_lock EXCEPT ![ProcessOf[t]] = t]
    /\ UNCHANGED <<file, file_lock, exists_cache, load_cache, record, fetched,
                   history, bounds>>

LockFile(t) ==
    /\ \/ pc[t] = "save:flock" /\ Goto(t, "save:read")
       \/ pc[t] = "reset:flock" /\ Goto(t, "reset:unlink")
    /\ file_lock = Nobody
    /\ file_lock' = t
    /\ UNCHANGED <<file, process_lock, exists_cache, load_cache, record, fetched,
                   history, bounds>>

Unlock(t) ==
    /\ file_lock' = Nobody
    /\ process_lock' = [process_lock EXCEPT ![ProcessOf[t]] = Nobody]

(* Newest first; the sort is stable, and the new record comes last before. *)
Before(r, s, new) ==
    \/ r.created > s.created
    \/ r.created = s.created /\ s = new /\ r # new

(* The environments kept: the saver's own, and those of the newest records.*)
Allowed(rows, new) ==
    LET newest(e) == CHOOSE r \in rows :
                        /\ r.environment = e
                        /\ \A s \in rows : s.environment = e => ~Before(s, r, new)
        others    == {r.environment : r \in rows} \ {new.environment}
        ahead(e)  == {f \in others : newest(f).created > newest(e).created}
    IN  CHOOSE es \in SUBSET others :
            /\ Cardinality(es) = IF Cardinality(others) < MaxEnvironments
                                 THEN Cardinality(others) ELSE MaxEnvironments - 1
            /\ \A e \in es : ahead(e) \subseteq es

(* The newest MaxRecords of those whose environment is kept.               *)
Newest(rows, new) ==
    CHOOSE kept \in SUBSET rows :
        /\ Cardinality(kept) = IF Cardinality(rows) < MaxRecords
                               THEN Cardinality(rows) ELSE MaxRecords
        /\ \A r \in kept : {s \in rows : Before(s, r, new)} \subseteq kept

Merged(old, new) ==
    LET all == {r \in old : ~(r.environment = new.environment /\ r.key = new.key)} \cup {new}
        envs == Allowed(all, new) \cup {new.environment}
    IN  Newest({r \in all : r.environment \in envs}, new)

(* _read_payload(strict=True): a sidecar that cannot be read is left alone.*)
ReadStrictly(t) ==
    /\ pc[t] = "save:read"
    /\ \/ /\ file.state # "damaged"
          /\ fetched' = [fetched EXCEPT ![t] = <<Merged(file.rows, record[t][1])>>]
          /\ Goto(t, "save:write")
       \/ /\ file.state = "damaged"
          /\ Goto(t, "save:raise")
          /\ UNCHANGED fetched
    /\ UNCHANGED <<shared, record, history, bounds>>

(* _write_payload: the temporary file, which may fail and is then unlinked,*)
(* the replacement, and a chmod, which may fail after it.                  *)
Replace(t, rows) ==
    /\ FileBecomes(ProcessOf[t], Whole(rows))
    /\ \/ Goto(t, "clear:unlock") /\ UNCHANGED excused
       \/ Goto(t, "save:raise") /\ excused' = [excused EXCEPT ![ProcessOf[t]] = TRUE]

WriteUnread(t) ==
    /\ pc[t] = "save:write"
    /\ \/ Goto(t, "save:raise") /\ UNCHANGED <<file, history>>
       \/ Replace(t, {record[t][1]})
    /\ UNCHANGED <<process_lock, file_lock, exists_cache, load_cache, record, fetched, bounds>>

Write(t) ==
    /\ pc[t] = "save:write"
    /\ \/ Goto(t, "save:raise") /\ UNCHANGED <<file, history>>
       \/ Replace(t, fetched[t][1])
    /\ UNCHANGED <<process_lock, file_lock, exists_cache, load_cache, record, fetched, bounds>>

Raise(t) ==
    /\ pc[t] = "save:raise"
    /\ Unlock(t) /\ Goto(t, "idle")
    /\ record' = [record EXCEPT ![t] = Empty]
    /\ fetched' = [fetched EXCEPT ![t] = Empty]
    /\ UNCHANGED <<file, exists_cache, load_cache, history, bounds>>

UnlinkFile(t) ==
    /\ pc[t] = "reset:unlink"
    /\ FileBecomes(ProcessOf[t], Absent)
    /\ Goto(t, "clear:unlock")
    /\ UNCHANGED <<process_lock, file_lock, exists_cache, load_cache, record, fetched,
                   excused, bounds>>

LeaveLocks(t) ==
    /\ pc[t] = "clear:unlock"
    /\ Unlock(t) /\ Goto(t, "clear:exists")
    /\ UNCHANGED <<file, exists_cache, load_cache, record, fetched, history, bounds>>

(* The cache_clear calls.  A fill that is under way stores its value after.*)
Filling(p, place) == \E t \in Threads : ProcessOf[t] = p /\ pc[t] = place

ClearExists(t) ==
    /\ pc[t] = "clear:exists"
    /\ exists_cache' = [exists_cache EXCEPT ![ProcessOf[t]] = Empty]
    /\ excused' = [excused EXCEPT ![ProcessOf[t]] = Filling(ProcessOf[t], "lookup:stat")]
    /\ Goto(t, "clear:load")
    /\ UNCHANGED <<file, process_lock, file_lock, load_cache, record, fetched, recent, bounds>>

LeaveLoadCache(t) ==
    /\ pc[t] = "clear:load"
    /\ Goto(t, "idle")
    /\ record' = [record EXCEPT ![t] = Empty]
    /\ fetched' = [fetched EXCEPT ![t] = Empty]
    /\ UNCHANGED <<shared, history, bounds>>

ClearLoad(t) ==
    /\ pc[t] = "clear:load"
    /\ load_cache' = [load_cache EXCEPT ![ProcessOf[t]] = Empty]
    /\ excused' = [excused EXCEPT ![ProcessOf[t]] = @ \/ Filling(ProcessOf[t], "lookup:load")]
    /\ Goto(t, "idle")
    /\ record' = [record EXCEPT ![t] = Empty]
    /\ fetched' = [fetched EXCEPT ![t] = Empty]
    /\ UNCHANGED <<file, process_lock, file_lock, exists_cache, recent, bounds>>

----------------------------------------------------------------------------
(* load_records.  Each of its two caches answers, or is filled in two      *)
(* steps: the file is looked at, the value is stored if none is.           *)
(* Without a sidecar there are no records, and the lookup is over.         *)
AfterExists(t, exists) == Goto(t, IF exists THEN "lookup:records" ELSE "idle")

BeginLookup(t) ==
    /\ pc[t] = "idle" /\ calls[t] < MaxCalls
    /\ calls' = [calls EXCEPT ![t] = @ + 1]
    /\ IF exists_cache[ProcessOf[t]] # Empty
       THEN AfterExists(t, exists_cache[ProcessOf[t]][1]) /\ UNCHANGED fetched
       ELSE /\ fetched' = [fetched EXCEPT ![t] = <<file.state # "absent">>]
            /\ Goto(t, "lookup:stat")
    /\ UNCHANGED <<shared, record, history, crashes>>

StoreExists(t) ==
    /\ pc[t] = "lookup:stat"
    /\ exists_cache' = [exists_cache EXCEPT ![ProcessOf[t]] = IF @ = Empty THEN fetched[t] ELSE @]
    /\ AfterExists(t, fetched[t][1])
    /\ fetched' = [fetched EXCEPT ![t] = Empty]
    /\ UNCHANGED <<file, process_lock, file_lock, load_cache, record, history, bounds>>

(* _load_records_once: those of this environment; of a damaged file, none. *)
OwnRows(p, f) == {r \in f.rows : r.environment = EnvironmentOf[p]}

Load(t) ==
    /\ pc[t] = "lookup:records"
    /\ IF load_cache[ProcessOf[t]] # Empty
       THEN Goto(t, "idle") /\ UNCHANGED fetched
       ELSE /\ fetched' = [fetched EXCEPT ![t] = <<OwnRows(ProcessOf[t], file)>>]
            /\ Goto(t, "lookup:load")
    /\ UNCHANGED <<shared, record, history, bounds>>

StoreLoad(t) ==
    /\ pc[t] = "lookup:load"
    /\ load_cache' = [load_cache EXCEPT ![ProcessOf[t]] = IF @ = Empty THEN fetched[t] ELSE @]
    /\ Goto(t, "idle")
    /\ fetched' = [fetched EXCEPT ![t] = Empty]
    /\ UNCHANGED <<file, process_lock, file_lock, exists_cache, record, history, bounds>>

----------------------------------------------------------------------------
(* A process dies, which frees its locks, and is started again.            *)
CrashKeepingLock(p) ==
    LET dead == {t \in Threads : ProcessOf[t] = p}
    IN  /\ crashes < MaxCrashes /\ crashes' = crashes + 1
        /\ pc' = [t \in Threads |-> IF t \in dead THEN "idle" ELSE pc[t]]
        /\ record' = [t \in Threads |-> IF t \in dead THEN Empty ELSE record[t]]
        /\ fetched' = [t \in Threads |-> IF t \in dead THEN Empty ELSE fetched[t]]
        /\ process_lock' = [process_lock EXCEPT ![p] = Nobody]
        /\ exists_cache' = [exists_cache EXCEPT ![p] = Empty]
        /\ load_cache' = [load_cache EXCEPT ![p] = Empty]
        /\ recent' = [recent EXCEPT ![p] = {file}]
        /\ excused' = [excused EXCEPT ![p] = FALSE]
        /\ UNCHANGED <<file, file_lock, calls>>

Crash(p) ==
    LET dead == {t \in Threads : ProcessOf[t] = p}
    IN  /\ crashes < MaxCrashes /\ crashes' = crashes + 1
        /\ pc' = [t \in Threads |-> IF t \in dead THEN "idle" ELSE pc[t]]
        /\ record' = [t \in Threads |-> IF t \in dead THEN Empty ELSE record[t]]
        /\ fetched' = [t \in Threads |-> IF t \in dead THEN Empty ELSE fetched[t]]
        /\ process_lock' = [process_lock EXCEPT ![p] = Nobody]
        /\ file_lock' = IF file_lock \in dead THEN Nobody ELSE file_lock
        /\ exists_cache' = [exists_cache EXCEPT ![p] = Empty]
        /\ load_cache' = [load_cache EXCEPT ![p] = Empty]
        /\ recent' = [recent EXCEPT ![p] = {file}]
        /\ excused' = [excused EXCEPT ![p] = FALSE]
        /\ UNCHANGED <<file, calls>>

Step(t) ==
    \/ LockProcess(t) \/ LockFile(t) \/ ReadStrictly(t) \/ Write(t) \/ Raise(t)
    \/ UnlinkFile(t) \/ LeaveLocks(t) \/ ClearExists(t) \/ ClearLoad(t)
    \/ StoreExists(t) \/ Load(t) \/ StoreLoad(t)

Next ==
    \/ \E t \in Threads : BeginSave(t) \/ BeginReset(t) \/ BeginLookup(t) \/ Step(t)
    \/ \E p \in Processes : Crash(p)

Spec == Init /\ [][Next]_vars

(* A call that has begun goes on; that one begins, or that a process dies, *)
(* is not required.                                                        *)
FairSpec == Spec /\ \A t \in Threads : WF_vars(Step(t))

----------------------------------------------------------------------------
(* The sidecar is a store of records: no save undoes another's, whatever   *)
(* the interleaving of processes, a crash or a failed write leaves the     *)
(* sidecar of before or of after, and room is made as promised.            *)
Store == INSTANCE TuningStore WITH store <- file, InitialStores <- InitialFiles

ImplementsTuningStore == Store!Spec

(* Unless a lookup was under way when they were cleared, or a save failed  *)
(* after it had replaced the file, the caches of a process hold nothing    *)
(* older than its last change of the sidecar: what it saves it finds, what *)
(* it resets is gone.                                                      *)
Clearing(p) ==
    \E t \in Threads :
        ProcessOf[t] = p /\ pc[t] \in {"clear:unlock", "clear:exists", "clear:load"}

ReadsOwnWrites ==
    \A p \in Processes :
        ~excused[p] /\ ~Clearing(p) =>
            /\ exists_cache[p] \in
                  {Empty} \cup {Holding(f.state # "absent") : f \in recent[p]}
            /\ load_cache[p] \in {Empty} \cup {Holding(OwnRows(p, f)) : f \in recent[p]}

(* Every save and every reset ends, also when another process dies with    *)
(* the lock file locked.                                                   *)
CallsEnd == \A t \in Threads : pc[t] # "idle" ~> pc[t] = "idle"

=============================================================================
