-------------------------- MODULE AutotuneCacheProofs --------------------------
(***************************************************************************)
(* The sidecar of any number of threads and processes, whenever they die.  *)
(* What a save writes is the sidecar of that very moment with its record   *)
(* merged in, although the sidecar was read some steps before; the caches  *)
(* hold nothing older than the last change of their process; and the merge *)
(* drops what the abstract store may drop, so that the sidecar implements  *)
(* it.                                                                     *)
(***************************************************************************)
EXTENDS AutotuneCache, Integers, FiniteSetTheorems, WellFoundedInduction, TLAPS

(* The threads have a place, a record and something fetched; the values    *)
(* do not matter here.                                                     *)
Domains == DOMAIN pc = Threads /\ DOMAIN fetched = Threads /\ DOMAIN record = Threads

(* Where a thread holds the lock file.                                     *)
Locked == {"save:read", "save:write", "save:raise", "reset:unlink", "clear:unlock"}

HoldersExclude == \A t \in Threads : pc[t] \in Locked => file_lock = t

(* What is about to be written is not out of date.                         *)
ReadIsCurrent ==
    \A t \in Threads :
        pc[t] = "save:write" =>
            file.state # "damaged" /\ fetched[t] = <<Merged(file.rows, record[t][1])>>

IInv == Domains /\ HoldersExclude /\ ReadIsCurrent

(* The sidecar changes by a reset or by a save of some record, at once.    *)
SavedOrReset ==
    \/ file' = Absent
    \/ \E t \in Threads :
          /\ pc[t] = "save:write" /\ file.state # "damaged"
          /\ file' = Whole(Merged(file.rows, record[t][1]))

----------------------------------------------------------------------------
LEMMA Initially == Init => IInv
BY DEF Init, IInv, Domains, HoldersExclude, ReadIsCurrent, Locked

(* A step that leaves the file, the lock file and the others alone, and    *)
(* takes a thread to a place where it needs nothing it had not.            *)
LEMMA Elsewhere ==
    ASSUME IInv, NEW t \in Threads, UNCHANGED <<file, file_lock>>,
           Domains', pc'[t] \in Locked => pc[t] \in Locked, pc'[t] # "save:write",
           \A u \in Threads \ {t} :
               pc'[u] = pc[u] /\ fetched'[u] = fetched[u] /\ record'[u] = record[u]
    PROVE  IInv'
<1>1. HoldersExclude'
    <2> SUFFICES ASSUME NEW u \in Threads, pc'[u] \in Locked
                 PROVE  file_lock' = u
        BY DEF HoldersExclude
    <2>1. pc[u] \in Locked
        OBVIOUS
    <2> QED
        BY <2>1 DEF IInv, HoldersExclude
<1>2. ReadIsCurrent'
    <2> SUFFICES ASSUME NEW u \in Threads, pc'[u] = "save:write"
                 PROVE  /\ file'.state # "damaged"
                        /\ fetched'[u] = <<Merged(file'.rows, record'[u][1])>>
        BY DEF ReadIsCurrent
    <2>1. u # t /\ pc[u] = "save:write"
        OBVIOUS
    <2> QED
        BY <2>1 DEF IInv, ReadIsCurrent
<1> QED
    BY <1>1, <1>2 DEF IInv

(* The holder of the lock file is the only one to write.                   *)
LEMMA OnlyHolder ==
    ASSUME IInv, NEW t \in Threads, pc[t] \in Locked, NEW u \in Threads, u # t
    PROVE  pc[u] \notin Locked
BY DEF IInv, HoldersExclude

(* The steps that take no lock and give none back.                         *)
LEMMA QuietSteps ==
    ASSUME IInv, NEW t \in Threads,
           \/ BeginSave(t) \/ BeginReset(t) \/ BeginLookup(t) \/ LockProcess(t)
           \/ ClearExists(t) \/ ClearLoad(t) \/ StoreExists(t) \/ Load(t) \/ StoreLoad(t)
    PROVE  IInv' /\ file' = file
<1>1. DOMAIN pc = Threads /\ DOMAIN fetched = Threads /\ DOMAIN record = Threads
    BY DEF IInv, Domains
<1>2. UNCHANGED <<file, file_lock>>
    BY DEF BeginSave, BeginReset, BeginLookup, LockProcess, ClearExists, ClearLoad,
           StoreExists, Load, StoreLoad, shared
<1>3. PICK place \in {"save:locking", "reset:locking", "save:flock", "reset:flock",
                      "clear:load", "idle", "lookup:records", "lookup:stat", "lookup:load"} :
          pc' = [pc EXCEPT ![t] = place]
    BY DEF BeginSave, BeginReset, BeginLookup, LockProcess, ClearExists, ClearLoad,
           StoreExists, Load, StoreLoad, Begin, Goto, AfterExists
<1>4. \/ record' = record
      \/ \E r : record' = [record EXCEPT ![t] = r]
    BY DEF BeginSave, BeginReset, BeginLookup, LockProcess, ClearExists, ClearLoad,
           StoreExists, Load, StoreLoad
<1>5. \/ fetched' = fetched
      \/ \E f : fetched' = [fetched EXCEPT ![t] = f]
    BY DEF BeginSave, BeginReset, BeginLookup, LockProcess, ClearExists, ClearLoad,
           StoreExists, Load, StoreLoad
<1>6. Domains'
    BY <1>1, <1>3, <1>4, <1>5 DEF Domains
<1>7. pc'[t] \notin Locked
    BY <1>1, <1>3 DEF Locked
<1>8. \A u \in Threads \ {t} :
          pc'[u] = pc[u] /\ fetched'[u] = fetched[u] /\ record'[u] = record[u]
    BY <1>1, <1>3, <1>4, <1>5
<1> QED
    BY <1>2, <1>6, <1>7, <1>8, Elsewhere DEF Locked

LEMMA LockFileKeeps ==
    ASSUME IInv, NEW t \in Threads, LockFile(t)
    PROVE  IInv' /\ file' = file
<1>1. /\ file_lock = Nobody /\ file_lock' = t
      /\ UNCHANGED <<file, fetched, record>>
    BY DEF LockFile
<1>2. PICK place \in {"save:read", "reset:unlink"} : pc' = [pc EXCEPT ![t] = place]
    BY DEF LockFile, Goto
<1>3. \A u \in Threads : pc[u] \notin Locked
    BY <1>1, CacheAssumption DEF IInv, HoldersExclude
<1>4. Domains'
    BY <1>1, <1>2 DEF IInv, Domains
<1>5. \A u \in Threads \ {t} : pc'[u] = pc[u]
    BY <1>2 DEF IInv, Domains
<1>6. HoldersExclude' /\ ReadIsCurrent'
    BY <1>1, <1>2, <1>3, <1>5 DEF IInv, Domains, HoldersExclude, ReadIsCurrent, Locked
<1> QED
    BY <1>1, <1>4, <1>6 DEF IInv

LEMMA ReadKeeps ==
    ASSUME IInv, NEW t \in Threads, ReadStrictly(t)
    PROVE  IInv' /\ file' = file
<1>1. pc[t] = "save:read" /\ UNCHANGED <<file, file_lock, record>>
    BY DEF ReadStrictly, shared
<1>2. CASE /\ file.state # "damaged" /\ pc' = [pc EXCEPT ![t] = "save:write"]
           /\ fetched' = [fetched EXCEPT ![t] = <<Merged(file.rows, record[t][1])>>]
    <2>1. Domains'
        BY <1>1, <1>2 DEF IInv, Domains
    <2>2. pc'[t] = "save:write" /\ fetched'[t] = <<Merged(file.rows, record[t][1])>>
        BY <1>2 DEF IInv, Domains
    <2>3. \A u \in Threads \ {t} : pc'[u] = pc[u] /\ pc[u] \notin Locked
        BY <1>1, <1>2, OnlyHolder DEF IInv, Domains, Locked
    <2>4. HoldersExclude'
        BY <1>1, <2>2, <2>3 DEF IInv, HoldersExclude, Locked
    <2>5. ReadIsCurrent'
        BY <1>1, <1>2, <2>2, <2>3 DEF ReadIsCurrent, Locked
    <2> QED
        BY <1>1, <2>1, <2>4, <2>5 DEF IInv
<1>3. CASE pc' = [pc EXCEPT ![t] = "save:raise"] /\ UNCHANGED fetched
    <2>1. Domains' /\ pc'[t] = "save:raise" /\ \A u \in Threads \ {t} : pc'[u] = pc[u]
        BY <1>1, <1>3 DEF IInv, Domains
    <2> QED
        BY <1>1, <1>3, <2>1, Elsewhere DEF Locked
<1> QED
    BY <1>2, <1>3 DEF ReadStrictly, Goto

(* A change of the file, by the holder of the lock file, who then gives it *)
(* back: nobody else was about to write.                                   *)
LEMMA ChangeKeeps ==
    ASSUME IInv, NEW t \in Threads, pc[t] \in Locked,
           NEW place \in {"clear:unlock", "save:raise"}, pc' = [pc EXCEPT ![t] = place],
           UNCHANGED <<file_lock, record, fetched>>
    PROVE  IInv'
<1>1. Domains'
    BY DEF IInv, Domains
<1>2. pc'[t] = place /\ \A u \in Threads \ {t} : pc'[u] = pc[u] /\ pc[u] \notin Locked
    BY OnlyHolder DEF IInv, Domains
<1>3. HoldersExclude'
    BY <1>2 DEF IInv, HoldersExclude
<1>4. ReadIsCurrent'
    BY <1>2 DEF ReadIsCurrent, Locked
<1> QED
    BY <1>1, <1>3, <1>4 DEF IInv

LEMMA WriteKeeps ==
    ASSUME IInv, NEW t \in Threads, Write(t)
    PROVE  IInv' /\ (file' = file \/ SavedOrReset)
<1>1. pc[t] = "save:write" /\ UNCHANGED <<file_lock, record, fetched>>
    BY DEF Write
<1>2. \E place \in {"clear:unlock", "save:raise"} : pc' = [pc EXCEPT ![t] = place]
    BY DEF Write, Replace, Goto
<1>3. IInv'
    BY <1>1, <1>2, ChangeKeeps DEF Locked
<1>4. file' = file \/ file' = Whole(fetched[t][1])
    BY DEF Write, Replace, FileBecomes
<1>5. file.state # "damaged" /\ fetched[t] = <<Merged(file.rows, record[t][1])>>
    BY <1>1 DEF IInv, ReadIsCurrent
<1>6. fetched[t][1] = Merged(file.rows, record[t][1])
    BY <1>5
<1> QED
    BY <1>1, <1>3, <1>4, <1>5, <1>6 DEF SavedOrReset

LEMMA UnlinkKeeps ==
    ASSUME IInv, NEW t \in Threads, UnlinkFile(t)
    PROVE  IInv' /\ SavedOrReset
<1>1. /\ pc[t] \in Locked /\ pc' = [pc EXCEPT ![t] = "clear:unlock"]
      /\ UNCHANGED <<file_lock, record, fetched>> /\ file' = Absent
    BY DEF UnlinkFile, FileBecomes, Goto, Locked
<1> QED
    BY <1>1, ChangeKeeps DEF SavedOrReset

(* The lock file is given back by the one who holds it.                    *)
LEMMA UnlockKeeps ==
    ASSUME IInv, NEW t \in Threads, Raise(t) \/ LeaveLocks(t)
    PROVE  IInv' /\ file' = file
<1>1. pc[t] \in Locked /\ file' = file
    BY DEF Raise, LeaveLocks, Locked
<1>2. PICK place \in {"idle", "clear:exists"} : pc' = [pc EXCEPT ![t] = place]
    BY DEF Raise, LeaveLocks, Goto
<1>3. Domains'
    BY <1>2 DEF Raise, LeaveLocks, IInv, Domains
<1>4. \A u \in Threads : pc'[u] \notin Locked
    BY <1>1, <1>2, OnlyHolder DEF IInv, Domains, Locked
<1> QED
    BY <1>1, <1>3, <1>4 DEF IInv, HoldersExclude, ReadIsCurrent, Locked

(* A process dies: its threads hold nothing, and the lock file is free if  *)
(* one of them held it.                                                    *)
LEMMA CrashKeeps ==
    ASSUME IInv, NEW p \in Processes, Crash(p)
    PROVE  IInv' /\ file' = file
<1> DEFINE dead == {t \in Threads : ProcessOf[t] = p}
<1>1. /\ pc' = [t \in Threads |-> IF t \in dead THEN "idle" ELSE pc[t]]
      /\ record' = [t \in Threads |-> IF t \in dead THEN Empty ELSE record[t]]
      /\ fetched' = [t \in Threads |-> IF t \in dead THEN Empty ELSE fetched[t]]
      /\ file_lock' = IF file_lock \in dead THEN Nobody ELSE file_lock
      /\ file' = file
    BY DEF Crash
<1> HIDE DEF dead
<1>2. \A t \in Threads :
         pc'[t] \in Locked => /\ t \notin dead /\ pc'[t] = pc[t]
                             /\ record'[t] = record[t] /\ fetched'[t] = fetched[t]
    BY <1>1 DEF Locked
<1>3. Domains'
    BY <1>1 DEF Domains
<1>4. HoldersExclude'
    BY <1>1, <1>2 DEF IInv, HoldersExclude
<1>5. ReadIsCurrent'
    BY <1>1, <1>2 DEF IInv, ReadIsCurrent, Locked
<1> QED
    BY <1>1, <1>3, <1>4, <1>5 DEF IInv

LEMMA Inductive ==
    ASSUME IInv, [Next]_vars
    PROVE  IInv' /\ (file' = file \/ SavedOrReset)
<1>1. CASE UNCHANGED vars
    <2>1. UNCHANGED <<file, file_lock, pc, record, fetched>>
        BY <1>1 DEF vars, shared, local
    <2> QED
        BY <2>1 DEF IInv, Domains, HoldersExclude, ReadIsCurrent
<1>2. ASSUME NEW t \in Threads, Step(t)
      PROVE  IInv' /\ (file' = file \/ SavedOrReset)
    BY <1>2, QuietSteps, LockFileKeeps, ReadKeeps, WriteKeeps, UnlinkKeeps, UnlockKeeps
       DEF Step
<1>3. ASSUME NEW t \in Threads, BeginSave(t) \/ BeginReset(t) \/ BeginLookup(t)
      PROVE  IInv' /\ file' = file
    BY <1>3, QuietSteps
<1> QED
    BY <1>1, <1>2, <1>3, CrashKeeps DEF Next

(* _locked_cache: the thread at the sidecar's read, merge or replacement   *)
(* holds the lock file, so there is one at most, whoever has died.         *)
THEOREM OneWriter == Spec => []HoldersExclude
<1>1. IInv /\ [Next]_vars => IInv'
    BY Inductive
<1>2. IInv => HoldersExclude
    BY DEF IInv
<1> QED
    BY Initially, <1>1, <1>2, PTL DEF Spec

(* save_record and reset_cache: every change of the sidecar is a reset, or *)
(* the merge of one record into the sidecar of that moment.  No save       *)
(* writes over what another has saved since it read, and none touches a    *)
(* sidecar that cannot be read.                                            *)
THEOREM SavesAreAtomic == Spec => [][SavedOrReset]_file
<1>1. IInv /\ [Next]_vars => IInv'
    BY Inductive
<1>2. IInv /\ [Next]_vars => [SavedOrReset]_file
    BY Inductive
<1> QED
    BY Initially, <1>1, <1>2, PTL DEF Spec

----------------------------------------------------------------------------
(* The caches of a process.  What a cache holds, and what a thread that    *)
(* has looked at the file is about to store, is of the file since the last *)
(* change by the process, unless a clear is still to come.                 *)
ExistsOf(p) == {Holding(f.state # "absent") : f \in recent[p]}
RowsOf(p) == {Holding(OwnRows(p, f)) : f \in recent[p]}

ExistsIsFresh(p) ==
    /\ exists_cache[p] \in {Empty} \cup ExistsOf(p)
    /\ \A t \in Threads :
          ProcessOf[t] = p /\ pc[t] = "lookup:stat" => fetched[t] \in ExistsOf(p)

LoadIsFresh(p) ==
    /\ load_cache[p] \in {Empty} \cup RowsOf(p)
    /\ \A t \in Threads :
          ProcessOf[t] = p /\ pc[t] = "lookup:load" => fetched[t] \in RowsOf(p)

ExistsToClear == {"clear:unlock", "clear:exists"}
LoadToClear == {"clear:unlock", "clear:exists", "clear:load"}

NobodyAt(p, places) == \A t \in Threads : ProcessOf[t] = p => pc[t] \notin places

Fresh(p) ==
    /\ ~excused[p] /\ NobodyAt(p, ExistsToClear) => ExistsIsFresh(p)
    /\ ~excused[p] /\ NobodyAt(p, LoadToClear) => LoadIsFresh(p)

CacheDomains ==
    /\ DOMAIN exists_cache = Processes /\ DOMAIN load_cache = Processes
    /\ excused \in [Processes -> BOOLEAN]
    /\ DOMAIN recent = Processes /\ \A p \in Processes : file \in recent[p]

CacheInv == Domains /\ CacheDomains /\ \A p \in Processes : Fresh(p)

LEMMA CachesInitially == Init => CacheInv
<1> SUFFICES ASSUME Init PROVE CacheInv
    OBVIOUS
<1>1. Domains /\ CacheDomains
    BY DEF Init, Domains, CacheDomains
<1>2. \A p \in Processes : exists_cache[p] = Empty /\ load_cache[p] = Empty
    BY DEF Init
<1>3. \A t \in Threads : pc[t] = "idle"
    BY DEF Init
<1> QED
    BY <1>1, <1>2, <1>3 DEF CacheInv, Fresh, ExistsIsFresh, LoadIsFresh

(* A step that leaves the caches of a process alone, and its threads what  *)
(* they are about to store and to clear.                                   *)
LEMMA Retained ==
    ASSUME CacheInv, NEW p \in Processes, exists_cache'[p] = exists_cache[p],
           load_cache'[p] = load_cache[p], excused'[p] = excused[p], recent[p] \subseteq recent'[p],
           \A t \in Threads : ProcessOf[t] = p =>
              /\ pc'[t] \in {"lookup:stat", "lookup:load"} =>
                    pc'[t] = pc[t] /\ fetched'[t] = fetched[t]
              /\ pc[t] \in ExistsToClear => pc'[t] \in ExistsToClear
              /\ pc[t] \in LoadToClear => pc'[t] \in LoadToClear
    PROVE  Fresh(p)'
<1>1. ExistsOf(p) \subseteq ExistsOf(p)' /\ RowsOf(p) \subseteq RowsOf(p)'
    BY DEF ExistsOf, RowsOf, OwnRows
<1>2. /\ NobodyAt(p, ExistsToClear)' => NobodyAt(p, ExistsToClear)
      /\ NobodyAt(p, LoadToClear)' => NobodyAt(p, LoadToClear)
    BY DEF NobodyAt, ExistsToClear, LoadToClear
<1>3. ExistsIsFresh(p) => ExistsIsFresh(p)'
    BY <1>1 DEF ExistsIsFresh
<1>4. LoadIsFresh(p) => LoadIsFresh(p)'
    BY <1>1 DEF LoadIsFresh
<1> QED
    BY <1>2, <1>3, <1>4 DEF CacheInv, Fresh

(* The steps of a save or a reset before the caches are cleared.           *)
LEMMA SavingKeepsFresh ==
    ASSUME CacheInv, NEW t \in Threads,
           \/ BeginSave(t) \/ BeginReset(t) \/ LockProcess(t) \/ LockFile(t)
           \/ ReadStrictly(t) \/ Raise(t) \/ LeaveLocks(t)
    PROVE  CacheDomains' /\ \A p \in Processes : Fresh(p)'
<1>1. UNCHANGED <<file, exists_cache, load_cache, recent, excused>>
    BY DEF BeginSave, BeginReset, LockProcess, LockFile, ReadStrictly, Raise, LeaveLocks,
           shared, history
<1>2. CacheDomains'
    BY <1>1 DEF CacheInv, CacheDomains
<1>3. PICK place \in {"save:locking", "reset:locking", "save:flock", "reset:flock",
                      "save:read", "reset:unlink", "save:write", "save:raise", "idle",
                      "clear:exists"} :
          /\ pc' = [pc EXCEPT ![t] = place]
          /\ pc[t] \in LoadToClear => place = "clear:exists"
    BY DEF BeginSave, BeginReset, LockProcess, LockFile, ReadStrictly, Raise, LeaveLocks,
           Begin, Goto, LoadToClear
<1>4. \/ fetched' = fetched
      \/ \E f : fetched' = [fetched EXCEPT ![t] = f]
    BY DEF BeginSave, BeginReset, LockProcess, LockFile, ReadStrictly, Raise, LeaveLocks
<1>5. \A u \in Threads \ {t} : pc'[u] = pc[u] /\ fetched'[u] = fetched[u]
    BY <1>3, <1>4 DEF CacheInv, Domains
<1>6. pc'[t] = place
    BY <1>3 DEF CacheInv, Domains
<1>7. \A p \in Processes : Fresh(p)'
    BY <1>1, <1>3, <1>5, <1>6, Retained DEF ExistsToClear, LoadToClear
<1> QED
    BY <1>2, <1>7

(* A change of the file: the process is to clear its caches, or excused;   *)
(* what the others hold is of the file as it was a moment ago.             *)
LEMMA ChangeKeepsFresh ==
    ASSUME CacheInv, NEW t \in Threads, Write(t) \/ UnlinkFile(t)
    PROVE  CacheDomains' /\ \A p \in Processes : Fresh(p)'
<1>1. UNCHANGED <<exists_cache, load_cache, fetched>> /\ ProcessOf[t] \in Processes
    BY DEF Write, UnlinkFile, Processes
<1>2. PICK place \in {"save:raise", "clear:unlock"} : pc' = [pc EXCEPT ![t] = place]
    BY DEF Write, Replace, UnlinkFile, Goto
<1>3. /\ pc'[t] = place /\ pc[t] \notin LoadToClear
      /\ \A u \in Threads \ {t} : pc'[u] = pc[u]
    BY <1>2 DEF CacheInv, Domains, Write, UnlinkFile, LoadToClear
<1>4. CASE UNCHANGED <<file, recent, excused>>
    <2>1. CacheDomains'
        BY <1>1, <1>4 DEF CacheInv, CacheDomains
    <2> QED
        BY <1>1, <1>3, <1>4, <2>1, Retained DEF ExistsToClear, LoadToClear
<1>5. CASE \E new : /\ FileBecomes(ProcessOf[t], new)
                    /\ \/ place = "clear:unlock" /\ UNCHANGED excused
                       \/ excused' = [excused EXCEPT ![ProcessOf[t]] = TRUE]
    <2>1. PICK new : /\ FileBecomes(ProcessOf[t], new)
                     /\ \/ place = "clear:unlock" /\ UNCHANGED excused
                        \/ excused' = [excused EXCEPT ![ProcessOf[t]] = TRUE]
        BY <1>5
    <2>2. /\ file' = new /\ DOMAIN recent' = Processes
          /\ recent'[ProcessOf[t]] = {new}
          /\ \A p \in Processes \ {ProcessOf[t]} : recent'[p] = recent[p] \cup {new}
        BY <1>1, <2>1 DEF FileBecomes
    <2>3. CacheDomains'
        BY <1>1, <2>1, <2>2 DEF CacheInv, CacheDomains
    <2>4. Fresh(ProcessOf[t])'
        <3>1. CASE place = "clear:unlock"
            BY <1>3, <3>1 DEF Fresh, NobodyAt, ExistsToClear, LoadToClear
        <3>2. CASE excused' = [excused EXCEPT ![ProcessOf[t]] = TRUE]
            BY <1>1, <3>2 DEF Fresh, CacheInv, CacheDomains
        <3> QED
            BY <2>1, <3>1, <3>2
    <2>5. ASSUME NEW p \in Processes, p # ProcessOf[t] PROVE Fresh(p)'
        <3>1. excused'[p] = excused[p] /\ recent[p] \subseteq recent'[p]
            BY <2>1, <2>2, <2>5 DEF CacheInv, CacheDomains
        <3> QED
            BY <1>1, <1>3, <2>5, <3>1, Retained
    <2> QED
        BY <2>3, <2>4, <2>5
<1>6. \/ UNCHANGED <<file, recent, excused>>
      \/ \E new : /\ FileBecomes(ProcessOf[t], new)
                  /\ \/ place = "clear:unlock" /\ UNCHANGED excused
                     \/ excused' = [excused EXCEPT ![ProcessOf[t]] = TRUE]
    <2>1. CASE UnlinkFile(t)
        <3>1. place = "clear:unlock"
            BY <1>3, <2>1 DEF UnlinkFile, Goto, CacheInv, Domains
        <3> QED
            BY <2>1, <3>1 DEF UnlinkFile
    <2>2. CASE Write(t)
        <3>1. CASE UNCHANGED <<file, history>>
            BY <3>1 DEF history
        <3>2. CASE Replace(t, fetched[t][1])
            <4>1. Goto(t, "clear:unlock") => place = "clear:unlock"
                BY <1>3 DEF Goto, CacheInv, Domains
            <4> QED
                BY <3>2, <4>1 DEF Replace
        <3> QED
            BY <2>2, <3>1, <3>2 DEF Write
    <2> QED
        BY <2>1, <2>2
<1> QED
    BY <1>4, <1>5, <1>6

(* A clear: a value that is still to be stored is excused.                 *)
LEMMA ClearKeepsFresh ==
    ASSUME CacheInv, NEW t \in Threads, ClearExists(t) \/ ClearLoad(t)
    PROVE  CacheDomains' /\ \A p \in Processes : Fresh(p)'
<1> DEFINE home == ProcessOf[t]
<1>1. home \in Processes /\ UNCHANGED <<file, recent>>
    BY DEF ClearExists, ClearLoad, Processes
<1>2. CacheDomains'
    <2>1. \E late \in BOOLEAN : excused' = [excused EXCEPT ![home] = late]
        <3>1. \A place : Filling(home, place) \in BOOLEAN
            BY DEF Filling
        <3>2. CASE ClearExists(t)
            BY <3>1, <3>2 DEF ClearExists
        <3>3. CASE ClearLoad(t)
            BY <3>3 DEF ClearLoad
        <3> QED
            BY <3>2, <3>3
    <2>2. DOMAIN exists_cache' = Processes /\ DOMAIN load_cache' = Processes
        BY DEF CacheInv, CacheDomains, ClearExists, ClearLoad
    <2> QED
        BY <1>1, <2>1, <2>2 DEF CacheInv, CacheDomains
<1>3. \A u \in Threads \ {t} : pc'[u] = pc[u] /\ fetched'[u] = fetched[u]
    BY DEF ClearExists, ClearLoad, Goto, CacheInv, Domains
<1>4. ASSUME NEW p \in Processes, p # home PROVE Fresh(p)'
    <2>1. /\ exists_cache'[p] = exists_cache[p] /\ load_cache'[p] = load_cache[p]
          /\ excused'[p] = excused[p] /\ recent'[p] = recent[p]
        BY <1>1, <1>4 DEF ClearExists, ClearLoad, CacheInv, CacheDomains
    <2> QED
        BY <1>3, <1>4, <2>1, Retained
<1>5. CASE ClearExists(t)
    <2>1. /\ pc[t] = "clear:exists" /\ pc'[t] = "clear:load" /\ fetched' = fetched
          /\ exists_cache'[home] = Empty
          /\ excused'[home] = Filling(home, "lookup:stat")
        BY <1>1, <1>5 DEF ClearExists, Goto, CacheInv, Domains, CacheDomains
    <2>2. ~excused'[home] => ExistsIsFresh(home)'
        BY <1>3, <2>1 DEF Filling, ExistsIsFresh
    <2>3. ~NobodyAt(home, LoadToClear)'
        BY <2>1 DEF NobodyAt, LoadToClear
    <2> QED
        BY <1>2, <1>4, <2>2, <2>3 DEF Fresh
<1>6. CASE ClearLoad(t)
    <2>1. /\ pc[t] = "clear:load" /\ pc'[t] = "idle" /\ exists_cache' = exists_cache
          /\ load_cache'[home] = Empty
          /\ excused'[home] = (excused[home] \/ Filling(home, "lookup:load"))
          /\ excused[home] \in BOOLEAN
        BY <1>1, <1>6 DEF ClearLoad, Goto, CacheInv, Domains, CacheDomains
    <2>2. ~excused'[home] => LoadIsFresh(home)'
        BY <1>3, <2>1 DEF Filling, LoadIsFresh
    <2>3. NobodyAt(home, ExistsToClear)' => NobodyAt(home, ExistsToClear)
        BY <1>3, <2>1 DEF NobodyAt, ExistsToClear
    <2>4. ExistsIsFresh(home) => ExistsIsFresh(home)'
        BY <1>1, <1>3, <2>1 DEF ExistsIsFresh, ExistsOf
    <2>5. ~excused'[home] => ~excused[home]
        BY <2>1
    <2> QED
        BY <1>1, <1>2, <1>4, <2>2, <2>3, <2>4, <2>5 DEF Fresh, CacheInv
<1> QED
    BY <1>5, <1>6

(* A lookup looks at the file of the moment, or stores what it has seen.   *)
LEMMA LookupKeepsFresh ==
    ASSUME CacheInv, NEW t \in Threads,
           BeginLookup(t) \/ StoreExists(t) \/ Load(t) \/ StoreLoad(t)
    PROVE  CacheDomains' /\ \A p \in Processes : Fresh(p)'
<1> DEFINE home == ProcessOf[t]
<1>1. home \in Processes /\ UNCHANGED <<file, recent, excused>>
    BY DEF BeginLookup, StoreExists, Load, StoreLoad, Processes, shared, history
<1>2. CacheDomains'
    BY <1>1 DEF CacheInv, CacheDomains, BeginLookup, StoreExists, Load, StoreLoad, shared
<1>3. \A u \in Threads \ {t} : pc'[u] = pc[u] /\ fetched'[u] = fetched[u]
    BY DEF BeginLookup, StoreExists, Load, StoreLoad, AfterExists, Goto, CacheInv, Domains
<1>4. ASSUME NEW p \in Processes, p # home PROVE Fresh(p)'
    <2>1. exists_cache'[p] = exists_cache[p] /\ load_cache'[p] = load_cache[p]
        BY <1>1, <1>4 DEF BeginLookup, StoreExists, Load, StoreLoad, shared, CacheInv, CacheDomains
    <2> QED
        BY <1>1, <1>3, <1>4, <2>1, Retained
<1>5. /\ pc[t] \in {"idle", "lookup:stat", "lookup:records", "lookup:load"}
      /\ pc'[t] \in {"idle", "lookup:stat", "lookup:records", "lookup:load"}
    BY DEF BeginLookup, StoreExists, Load, StoreLoad, AfterExists, Goto, CacheInv, Domains
<1>6. /\ NobodyAt(home, ExistsToClear)' => NobodyAt(home, ExistsToClear)
      /\ NobodyAt(home, LoadToClear)' => NobodyAt(home, LoadToClear)
    BY <1>3, <1>5 DEF NobodyAt, ExistsToClear, LoadToClear
<1>7. file \in recent[home]
    BY <1>1 DEF CacheInv, CacheDomains
<1>8. ExistsOf(home)' = ExistsOf(home) /\ RowsOf(home)' = RowsOf(home)
    BY <1>1 DEF ExistsOf, RowsOf, OwnRows
<1>9. ExistsIsFresh(home) => ExistsIsFresh(home)'
    <2>1. pc'[t] = "lookup:stat" => fetched'[t] \in ExistsOf(home)
        BY <1>7 DEF BeginLookup, StoreExists, Load, StoreLoad, AfterExists, Goto, CacheInv,
                    Domains, ExistsOf, Holding
    <2>2. \/ exists_cache'[home] = exists_cache[home]
          \/ pc[t] = "lookup:stat" /\ exists_cache'[home] = fetched[t]
        BY <1>1 DEF BeginLookup, StoreExists, Load, StoreLoad, shared, CacheInv, CacheDomains
    <2> QED
        BY <1>3, <1>8, <2>1, <2>2 DEF ExistsIsFresh
<1>10. LoadIsFresh(home) => LoadIsFresh(home)'
    <2>1. pc'[t] = "lookup:load" => fetched'[t] \in RowsOf(home)
        BY <1>7 DEF BeginLookup, StoreExists, Load, StoreLoad, AfterExists, Goto, CacheInv,
                    Domains, RowsOf, Holding
    <2>2. \/ load_cache'[home] = load_cache[home]
          \/ pc[t] = "lookup:load" /\ load_cache'[home] = fetched[t]
        BY <1>1 DEF BeginLookup, StoreExists, Load, StoreLoad, shared, CacheInv, CacheDomains
    <2> QED
        BY <1>3, <1>8, <2>1, <2>2 DEF LoadIsFresh
<1>11. Fresh(home)'
    BY <1>1, <1>6, <1>9, <1>10 DEF Fresh, CacheInv
<1> QED
    BY <1>2, <1>4, <1>11

(* A process starts again with empty caches.                               *)
LEMMA CrashKeepsFresh ==
    ASSUME CacheInv, NEW p \in Processes, Crash(p)
    PROVE  CacheDomains' /\ \A q \in Processes : Fresh(q)'
<1>1. CacheDomains'
    BY DEF Crash, CacheInv, CacheDomains
<1>2. \A t \in Threads :
         IF ProcessOf[t] = p THEN pc'[t] = "idle" ELSE pc'[t] = pc[t] /\ fetched'[t] = fetched[t]
    BY DEF Crash
<1>3. exists_cache'[p] = Empty /\ load_cache'[p] = Empty
    BY DEF Crash, CacheInv, CacheDomains
<1>4. Fresh(p)'
    BY <1>2, <1>3 DEF Fresh, ExistsIsFresh, LoadIsFresh
<1>5. ASSUME NEW q \in Processes, q # p PROVE Fresh(q)'
    <2>1. /\ exists_cache'[q] = exists_cache[q] /\ load_cache'[q] = load_cache[q]
          /\ excused'[q] = excused[q] /\ recent'[q] = recent[q]
        BY <1>5 DEF Crash, CacheInv, CacheDomains
    <2> QED
        BY <1>2, <1>5, <2>1, Retained
<1> QED
    BY <1>1, <1>4, <1>5

LEMMA CachesInductive == IInv' /\ CacheInv /\ [Next]_vars => CacheInv'
<1> SUFFICES ASSUME IInv', CacheInv, [Next]_vars PROVE CacheInv'
    OBVIOUS
<1>1. Domains'
    BY DEF IInv
<1>2. CASE UNCHANGED vars
    <2>1. UNCHANGED <<file, exists_cache, load_cache, recent, excused, pc, fetched>>
        BY <1>2 DEF vars, shared, local, history
    <2> QED
        BY <1>1, <2>1, Retained DEF CacheInv, CacheDomains
<1>3. CASE Next
    <2>1. CASE \E t \in Threads : BeginSave(t) \/ BeginReset(t) \/ BeginLookup(t) \/ Step(t)
        BY <1>1, <2>1, SavingKeepsFresh, ChangeKeepsFresh, ClearKeepsFresh, LookupKeepsFresh
           DEF Step, CacheInv
    <2>2. CASE \E p \in Processes : Crash(p)
        BY <1>1, <2>2, CrashKeepsFresh DEF CacheInv
    <2> QED
        BY <1>3, <2>1, <2>2 DEF Next
<1> QED
    BY <1>2, <1>3

(* load_records after save_record and reset_cache: unless a lookup of the  *)
(* same process was under way when the caches were cleared, or a save      *)
(* failed after it had replaced the file, no cache holds anything older    *)
(* than the last change of its process, for any number of threads and      *)
(* processes and whoever dies.                                             *)
THEOREM OwnWritesAreRead == Spec => []ReadsOwnWrites
<1>1. CacheInv => ReadsOwnWrites
    <2> SUFFICES ASSUME CacheInv, NEW p \in Processes, ~excused[p], ~Clearing(p)
                 PROVE  ExistsIsFresh(p) /\ LoadIsFresh(p)
        BY DEF ReadsOwnWrites, ExistsIsFresh, LoadIsFresh, ExistsOf, RowsOf
    <2> QED
        BY DEF CacheInv, Fresh, Clearing, NobodyAt, ExistsToClear, LoadToClear
<1>2. IInv /\ [Next]_vars => IInv'
    BY Inductive
<1> QED
    BY Initially, CachesInitially, <1>1, <1>2, CachesInductive, PTL DEF Spec

----------------------------------------------------------------------------
(* Finite sets: induction by their least counterexample.                   *)
(* A set of numbers that has any has a least.                              *)
LEMMA LeastNumber ==
    ASSUME NEW T, T \subseteq Nat, T # {}
    PROVE  \E n \in T : \A m \in T : n <= m
<1> DEFINE R == OpToRel(<, Nat)
<1>1. IsWellFoundedOn(R, Nat)
    BY NatLessThanWellFounded
<1>2. \A m, n \in Nat : <<m, n>> \in R <=> m < n
    BY DEF OpToRel
<1> HIDE DEF R
<1>3. PICK n \in T : \A m \in T : ~ (<<m, n>> \in R)
    BY <1>1, WFMin
<1>4. \A m \in T : m \in Nat /\ n \in Nat /\ ~(m < n)
    BY <1>2, <1>3
<1>5. \A m \in T : n <= m
    BY <1>4
<1> QED
    BY <1>5

(* A finite set has an element of greatest weight.                         *)
LEMMA HasHeaviest ==
    ASSUME NEW S, IsFiniteSet(S), S # {}, NEW w, \A x \in S : w[x] \in Int
    PROVE  \E m \in S : \A x \in S : w[x] <= w[m]
<1> DEFINE Heaviest(T, m) == m \in T /\ \A x \in T : w[x] <= w[m]
           Bad == {T \in SUBSET S : T # {} /\ \A m \in T : ~Heaviest(T, m)}
           sizes == {Cardinality(T) : T \in Bad}
<1> SUFFICES S \notin Bad
    OBVIOUS
<1> SUFFICES ASSUME Bad # {} PROVE FALSE
    OBVIOUS
<1>1. \A T \in SUBSET S : IsFiniteSet(T) /\ Cardinality(T) \in Nat
    BY FS_Subset, FS_CardinalityType
<1>2. PICK T \in Bad : \A U \in Bad : Cardinality(T) <= Cardinality(U)
    <2>1. sizes # {} /\ sizes \subseteq Nat
        BY <1>1
    <2>2. PICK n \in sizes : \A k \in sizes : n <= k
        BY <2>1, LeastNumber
    <2> QED
        BY <2>2
<1>3. PICK x \in T : TRUE
    OBVIOUS
<1> DEFINE rest == T \ {x}
<1>4. rest \subseteq S /\ Cardinality(rest) < Cardinality(T)
    <2>1. Cardinality(rest) = Cardinality(T) - 1
        BY <1>1, FS_RemoveElement
    <2> QED
        BY <1>1, <2>1
<1>5. rest \notin Bad
    <2>1. Cardinality(T) \in Nat /\ Cardinality(rest) \in Nat
        BY <1>1, <1>4
    <2>2. ~(Cardinality(T) <= Cardinality(rest))
        BY <1>4, <2>1
    <2> HIDE DEF Bad, rest
    <2> QED
        BY <1>2, <2>2
<1>6. CASE rest = {}
    BY <1>3, <1>6
<1>7. CASE rest # {}
    <2>1. PICK m \in rest : \A y \in rest : w[y] <= w[m]
        BY <1>4, <1>5, <1>7
    <2>2. w[m] \in Int /\ w[x] \in Int /\ \A y \in rest : w[y] \in Int
        BY <1>3, <1>4
    <2>3. CASE w[x] <= w[m]
        BY <1>3, <2>1, <2>3
    <2>4. CASE w[m] <= w[x]
        BY <1>3, <2>1, <2>2, <2>4
    <2> QED
        BY <2>2, <2>3, <2>4
<1> QED
    BY <1>6, <1>7

(* The heaviest k of a finite set, in any choice among equals.             *)
LEMMA HeaviestExist ==
    ASSUME NEW S, IsFiniteSet(S), NEW w, \A x \in S : w[x] \in Int,
           NEW k \in Nat, k <= Cardinality(S)
    PROVE  \E T \in SUBSET S :
              /\ Cardinality(T) = k
              /\ \A x \in T : {y \in S : w[y] > w[x]} \subseteq T
<1> DEFINE Top(T) == \A x \in T : {y \in S : w[y] > w[x]} \subseteq T
           Missed == {n \in 0 .. k : \A T \in SUBSET S : ~(Cardinality(T) = n /\ Top(T))}
<1>0. Cardinality(S) \in Nat /\ \A T \in SUBSET S : IsFiniteSet(T) /\ Cardinality(T) \in Nat
    BY FS_Subset, FS_CardinalityType
<1> SUFFICES ASSUME Missed # {} PROVE FALSE
    OBVIOUS
<1>1. PICK n \in Missed : \A i \in Missed : n <= i
    <2>1. Missed \subseteq Nat
        OBVIOUS
    <2> HIDE DEF Missed
    <2> QED
        BY <2>1, LeastNumber
<1>2. n # 0
    <2>1. Cardinality({}) = 0 /\ Top({})
        BY FS_EmptySet
    <2> QED
        BY <2>1
<1>3. PICK T \in SUBSET S : Cardinality(T) = n - 1 /\ Top(T)
    <2>1. n - 1 \in 0 .. k /\ n - 1 \notin Missed
        BY <1>1, <1>2
    <2> QED
        BY <2>1
<1>4. S \ T # {} /\ IsFiniteSet(S \ T)
    <2>1. T # S
        BY <1>0, <1>3
    <2> QED
        BY <1>0, <2>1
<1>5. PICK m \in S \ T : \A x \in S \ T : w[x] <= w[m]
    BY <1>4, HasHeaviest
<1> DEFINE more == T \cup {m}
<1>6. Cardinality(more) = n
    <2>1. Cardinality(more) = Cardinality(T) + 1
        BY <1>0, <1>3, <1>5, FS_AddElement
    <2> QED
        BY <1>3, <2>1
<1>7. Top(more)
    <2>1. ASSUME NEW y \in S, w[y] > w[m] PROVE y \in T
        BY <1>5, <2>1
    <2> QED
        BY <1>3, <2>1
<1> QED
    BY <1>5, <1>6, <1>7

----------------------------------------------------------------------------
(* What a save leaves of the records of a sidecar.  The order of the merge *)
(* is one of weights: the newer, and the new one last of its instant.      *)
Weight(rows, new) == [r \in rows |-> 2 * r.created + IF r = new THEN 0 ELSE 1]

Dated(rows) == IsFiniteSet(rows) /\ \A r \in rows : r.created \in Int

LEMMA OrderIsWeight ==
    ASSUME NEW rows, Dated(rows), NEW new
    PROVE  /\ \A r \in rows : Weight(rows, new)[r] \in Int
           /\ \A r, s \in rows :
                 Before(r, s, new) <=> Weight(rows, new)[r] > Weight(rows, new)[s]
<1>1. \A r \in rows : Weight(rows, new)[r] = 2 * r.created + IF r = new THEN 0 ELSE 1
    BY DEF Weight
<1>2. \A r \in rows : r.created \in Int
    BY DEF Dated
<1>3. ASSUME NEW r \in rows, NEW s \in rows
      PROVE  Before(r, s, new) <=> Weight(rows, new)[r] > Weight(rows, new)[s]
    <2> DEFINE a == r.created
               b == s.created
    <2>1. a \in Int /\ b \in Int
        BY <1>2
    <2>2. Before(r, s, new) <=> a > b \/ (a = b /\ s = new /\ r # new)
        BY DEF Before
    <2>3. /\ Weight(rows, new)[r] = 2 * a + IF r = new THEN 0 ELSE 1
          /\ Weight(rows, new)[s] = 2 * b + IF s = new THEN 0 ELSE 1
        BY <1>1
    <2> HIDE DEF a, b
    <2> QED
        BY <2>1, <2>2, <2>3
<1> QED
    BY <1>1, <1>2, <1>3

(* No room: as many are kept as there may be, and none is older.           *)
LEMMA NewestAreKept ==
    ASSUME NEW rows, Dated(rows), NEW new
    PROVE  /\ Newest(rows, new) \subseteq rows
           /\ Cardinality(Newest(rows, new)) <= MaxRecords
           /\ \A d \in rows \ Newest(rows, new) :
                 /\ Cardinality(Newest(rows, new)) = MaxRecords
                 /\ \A s \in Newest(rows, new) : s.created >= d.created
<1> DEFINE size == IF Cardinality(rows) < MaxRecords THEN Cardinality(rows) ELSE MaxRecords
           IsNewest(kept) ==
               /\ Cardinality(kept) = size
               /\ \A r \in kept : {s \in rows : Before(s, r, new)} \subseteq kept
           w == Weight(rows, new)
           kept == Newest(rows, new)
<1>1. /\ IsFiniteSet(rows) /\ Cardinality(rows) \in Nat /\ MaxRecords \in Nat
      /\ size \in Nat /\ size <= Cardinality(rows) /\ size <= MaxRecords
      /\ \A r \in rows : r.created \in Int
    BY FS_CardinalityType, CacheAssumption DEF Dated
<1>2. kept = CHOOSE k \in SUBSET rows : IsNewest(k)
    BY DEF Newest
<1> HIDE DEF size, w, kept
<1>3. \E k \in SUBSET rows : IsNewest(k)
    <2>1. PICK k \in SUBSET rows :
             Cardinality(k) = size /\ \A x \in k : {y \in rows : w[y] > w[x]} \subseteq k
        BY <1>1, OrderIsWeight, HeaviestExist DEF w
    <2> QED
        BY <2>1, OrderIsWeight DEF w
<1>4. kept \in SUBSET rows /\ IsNewest(kept)
    BY <1>2, <1>3
<1>5. ASSUME NEW d \in rows \ kept
      PROVE  Cardinality(kept) = MaxRecords /\ \A s \in kept : s.created >= d.created
    <2>1. Cardinality(kept) # Cardinality(rows)
        BY <1>1, <1>4, FS_Subset
    <2>2. Cardinality(kept) = MaxRecords
        BY <1>1, <1>4, <2>1 DEF size
    <2>3. ASSUME NEW s \in kept PROVE s.created >= d.created
        <3>1. ~Before(d, s, new)
            BY <1>4
        <3> QED
            BY <1>1, <1>4, <3>1 DEF Before
    <2> QED
        BY <2>2, <2>3
<1> QED
    BY <1>1, <1>4, <1>5 DEF kept

(* The newest record of an environment.                                    *)
NewestOf(rows, new, e) ==
    CHOOSE r \in rows : /\ r.environment = e
                        /\ \A s \in rows : s.environment = e => ~Before(s, r, new)

LEMMA NewestOfIsNewest ==
    ASSUME NEW rows, Dated(rows), NEW new, NEW d \in rows
    PROVE  /\ NewestOf(rows, new, d.environment) \in rows
           /\ NewestOf(rows, new, d.environment).environment = d.environment
           /\ NewestOf(rows, new, d.environment).created >= d.created
<1> DEFINE e == d.environment
           same == {r \in rows : r.environment = e}
           w == Weight(rows, new)
           IsIt(r) == /\ r.environment = e
                      /\ \A s \in rows : s.environment = e => ~Before(s, r, new)
<1>1. IsFiniteSet(same) /\ d \in same /\ \A r \in rows : r.created \in Int
    BY FS_Subset DEF Dated
<1>2. PICK r \in same : \A x \in same : w[x] <= w[r]
    <2>1. \A x \in same : w[x] \in Int
        BY OrderIsWeight
    <2> HIDE DEF w, same
    <2> QED
        BY <1>1, <2>1, HasHeaviest
<1>3. \A s \in same : w[s] \in Int /\ w[r] \in Int /\ (Before(s, r, new) <=> w[s] > w[r])
    BY OrderIsWeight
<1> HIDE DEF w
<1>4. IsIt(r)
    BY <1>2, <1>3
<1>5. NewestOf(rows, new, e) = CHOOSE x \in rows : IsIt(x)
    BY DEF NewestOf
<1>6. NewestOf(rows, new, e) \in rows /\ IsIt(NewestOf(rows, new, e))
    BY <1>4, <1>5
<1>7. ~Before(d, NewestOf(rows, new, e), new)
    BY <1>6
<1> QED
    BY <1>1, <1>6, <1>7 DEF Before

(* The environments kept beside the saver's own: not too many, and one is  *)
(* left out only if there is no room and those kept are as new.            *)
LEMMA AllowedAreNewest ==
    ASSUME NEW rows, Dated(rows), NEW new
    PROVE  LET others == {r.environment : r \in rows} \ {new.environment}
               kept == Allowed(rows, new)
           IN  /\ kept \subseteq others
               /\ IsFiniteSet(kept) /\ Cardinality(kept) <= MaxEnvironments - 1
               /\ \A d \in rows :
                     d.environment \in others \ kept =>
                        /\ Cardinality(kept) = MaxEnvironments - 1
                        /\ \A e \in kept :
                              \E r \in rows : r.environment = e /\ r.created >= d.created
<1> DEFINE others == {r.environment : r \in rows} \ {new.environment}
           age == [e \in others |-> NewestOf(rows, new, e).created]
           size == IF Cardinality(others) < MaxEnvironments
                   THEN Cardinality(others) ELSE MaxEnvironments - 1
           ahead(e) == {f \in others :
                          NewestOf(rows, new, f).created > NewestOf(rows, new, e).created}
           AreAllowed(es) == Cardinality(es) = size /\ \A e \in es : ahead(e) \subseteq es
           kept == Allowed(rows, new)
<1>1. /\ IsFiniteSet(others) /\ Cardinality(others) \in Nat
      /\ MaxEnvironments \in Nat \ {0} /\ size \in Nat /\ size <= Cardinality(others)
      /\ size <= MaxEnvironments - 1 /\ \A r \in rows : r.created \in Int
    <2>1. IsFiniteSet({r.environment : r \in rows})
        <3> DEFINE E == {r.environment : r \in rows}
                   f == [r \in rows |-> r.environment]
        <3>1. f \in Surjection(rows, E)
            BY DEF Surjection
        <3> HIDE DEF f, E
        <3>2. IsFiniteSet(E)
            BY <3>1, FS_Surjection DEF Dated
        <3> QED
            BY <3>2 DEF E
    <2>2. IsFiniteSet(others) /\ Cardinality(others) \in Nat
        BY <2>1, FS_Subset, FS_CardinalityType
    <2> QED
        BY <2>2, CacheAssumption DEF Dated
<1>2. \A e \in others : /\ NewestOf(rows, new, e) \in rows
                        /\ NewestOf(rows, new, e).environment = e
                        /\ age[e] = NewestOf(rows, new, e).created /\ age[e] \in Int
    <2> SUFFICES ASSUME NEW d \in rows, d.environment \in others
                 PROVE  LET newest == NewestOf(rows, new, d.environment)
                        IN  /\ newest \in rows /\ newest.environment = d.environment
                            /\ age[d.environment] = newest.created
                            /\ age[d.environment] \in Int
        OBVIOUS
    <2>1. /\ NewestOf(rows, new, d.environment) \in rows
          /\ NewestOf(rows, new, d.environment).environment = d.environment
        BY NewestOfIsNewest
    <2>2. age[d.environment] = NewestOf(rows, new, d.environment).created
        OBVIOUS
    <2> QED
        BY <1>1, <2>1, <2>2
<1>3. kept = CHOOSE es \in SUBSET others : AreAllowed(es)
    BY DEF Allowed, NewestOf
<1> HIDE DEF size, others, age, kept
<1>8. \A e \in others : ahead(e) = {f \in others : age[f] > age[e]}
    BY <1>2
<1>4. \E es \in SUBSET others : AreAllowed(es)
    <2>1. PICK es \in SUBSET others :
             Cardinality(es) = size /\ \A e \in es : {f \in others : age[f] > age[e]} \subseteq es
        BY <1>1, <1>2, HeaviestExist
    <2> QED
        BY <1>8, <2>1
<1>5. kept \in SUBSET others /\ AreAllowed(kept)
    BY <1>3, <1>4
<1>6. IsFiniteSet(kept) /\ Cardinality(kept) <= MaxEnvironments - 1
    BY <1>1, <1>5, FS_Subset
<1>7. ASSUME NEW d \in rows, d.environment \in others \ kept
      PROVE  /\ Cardinality(kept) = MaxEnvironments - 1
             /\ \A e \in kept : \E r \in rows : r.environment = e /\ r.created >= d.created
    <2>1. Cardinality(kept) # Cardinality(others)
        BY <1>1, <1>5, <1>7, FS_Subset
    <2>2. Cardinality(kept) = MaxEnvironments - 1
        BY <1>1, <1>5, <2>1 DEF size
    <2>3. ASSUME NEW e \in kept
          PROVE  \E r \in rows : r.environment = e /\ r.created >= d.created
        <3>1. ~(age[d.environment] > age[e])
            BY <1>5, <1>7, <1>8
        <3>2. age[d.environment] >= d.created
            BY <1>2, <1>7, NewestOfIsNewest
        <3>3. e \in others /\ d.environment \in others
            BY <1>5, <1>7
        <3>4. age[e] >= d.created
            BY <1>1, <1>2, <3>1, <3>2, <3>3
        <3> QED
            BY <1>2, <3>3, <3>4
    <2> QED
        BY <2>2, <2>3
<1> QED
    BY <1>5, <1>6, <1>7 DEF kept, others

(* The store counts as this module does.                                   *)
LEMMA SameCardinality == \A S : Store!Cardinality(S) = Cardinality(S)
BY DEF Store!Cardinality, Cardinality

(* So a save makes room as the store promises.                             *)
LEMMA MergeIsAllowed ==
    ASSUME NEW old, Dated(old), NEW new, new.created \in Int
    PROVE  /\ Merged(old, new) \subseteq old \cup {new}
           /\ Store!MayLeave(Merged(old, new), old, new)
<1> DEFINE all == {r \in old : ~(r.environment = new.environment /\ r.key = new.key)} \cup {new}
           envs == Allowed(all, new) \cup {new.environment}
           room == {r \in all : r.environment \in envs}
           rows == Newest(room, new)
<1>1. Merged(old, new) = rows
    BY DEF Merged
<1>2. Dated(all) /\ Dated(room)
    <2>1. IsFiniteSet({r \in old : ~(r.environment = new.environment /\ r.key = new.key)})
        BY FS_Subset DEF Dated
    <2>2. IsFiniteSet(all)
        BY <2>1, FS_AddElement
    <2>3. IsFiniteSet(room)
        BY <2>2, FS_Subset
    <2> QED
        BY <2>2, <2>3 DEF Dated
<1>3. all = {s \in old : ~Store!SameId(s, new)} \cup {new}
    BY DEF Store!SameId
<1>4. all \subseteq old \cup {new} /\ \A e \in Allowed(all, new) : e # new.environment
    BY <1>2, AllowedAreNewest
<1> HIDE DEF all
<1>5. /\ rows \subseteq room /\ room \subseteq all /\ Cardinality(rows) <= MaxRecords
      /\ \A d \in room \ rows :
            Cardinality(rows) = MaxRecords /\ \A s \in rows : s.created >= d.created
    BY <1>2, NewestAreKept
<1>6. /\ IsFiniteSet(Allowed(all, new)) /\ Cardinality(Allowed(all, new)) \in Nat
      /\ Cardinality(Allowed(all, new)) <= MaxEnvironments - 1
      /\ MaxEnvironments \in Nat
    BY <1>2, AllowedAreNewest, FS_CardinalityType, CacheAssumption
<1> HIDE DEF rows
<1>7. Cardinality(Store!Environments(rows) \cup {new.environment}) <= MaxEnvironments
    <2>1. Store!Environments(rows) \cup {new.environment} \subseteq envs
        BY <1>5 DEF Store!Environments
    <2>2. IsFiniteSet(envs) /\ Cardinality(envs) = Cardinality(Allowed(all, new)) + 1
        BY <1>4, <1>6, FS_AddElement
    <2> HIDE DEF envs
    <2>3. /\ Cardinality(Store!Environments(rows) \cup {new.environment}) <= Cardinality(envs)
          /\ Cardinality(Store!Environments(rows) \cup {new.environment}) \in Nat
        BY <2>1, <2>2, FS_Subset, FS_CardinalityType
    <2> QED
        BY <1>6, <2>2, <2>3
<1>8. ASSUME NEW d \in all \ rows
      PROVE  \/ Cardinality(rows) = MaxRecords /\ \A s \in rows : s.created >= d.created
             \/ d.environment # new.environment /\ Store!Crowded(d, all, new.environment)
    <2>1. CASE d \in room
        BY <1>5, <2>1
    <2>2. CASE d \notin room
        <3>1. /\ d.environment # new.environment
              /\ d.environment \in {r.environment : r \in all} \ {new.environment}
              /\ d.environment \notin Allowed(all, new)
            BY <2>2
        <3>2. /\ Cardinality(Allowed(all, new)) = MaxEnvironments - 1
              /\ \A e \in Allowed(all, new) :
                    \E r \in all : r.environment = e /\ r.created >= d.created
            BY <1>2, <3>1, AllowedAreNewest
        <3>3. Allowed(all, new)
                 \subseteq {r.environment : r \in all} \ {new.environment, d.environment}
            BY <1>2, <3>1, AllowedAreNewest
        <3> HIDE DEF all
        <3>4. Allowed(all, new) \in
                 SUBSET (Store!Environments(all) \ {new.environment, d.environment})
            BY <3>3 DEF Store!Environments
        <3>5. Store!Crowded(d, all, new.environment)
            BY <3>2, <3>4, SameCardinality DEF Store!Crowded
        <3> QED
            BY <3>1, <3>5
    <2> QED
        BY <2>1, <2>2
<1> QED
    BY <1>1, <1>3, <1>4, <1>5, <1>7, <1>8, SameCardinality DEF Store!MayLeave

(* A thread that saves has a record, and the sidecar's are dated.          *)
SavesRecords ==
    /\ Dated(file.rows)
    /\ \A t \in Threads :
          pc[t] \in {"save:locking", "save:flock", "save:read", "save:write"} =>
              \E r \in Records : record[t] = <<r>>

LEMMA RecordsAreDated == \A r \in Records : r.created \in Int
<1> DEFINE E == {EnvironmentOf[p] : p \in Processes}
<1>1. Records = [environment : E, key : Keys, created : Clock, candidate : Threads]
    BY DEF Records
<1> HIDE DEF E
<1>2. \A r \in Records : r.created \in Clock
    BY <1>1
<1>3. \A c \in Clock : c \in Int
    BY CacheAssumption
<1> QED
    BY <1>2, <1>3

LEMMA RecordsInitially == Init => SavesRecords
<1> SUFFICES ASSUME Init PROVE SavesRecords
    OBVIOUS
<1>1. Dated(file.rows)
    BY FilesAssumption DEF Init, Dated
<1>2. \A t \in Threads : pc[t] = "idle"
    BY DEF Init
<1> QED
    BY <1>1, <1>2 DEF SavesRecords

(* Where the sidecar changes, the store takes a step.                      *)
LEMMA ChangeIsStoreStep ==
    ASSUME SavesRecords, SavedOrReset
    PROVE  Store!Next /\ Dated(file'.rows)
<1>1. CASE file' = Absent
    <2>1. Store!Reset
        BY <1>1 DEF Store!Reset, Store!Absent, Absent
    <2>2. Dated(file'.rows)
        BY <1>1, FS_EmptySet DEF Absent, Dated
    <2> QED
        BY <2>1, <2>2 DEF Store!Next
<1>2. CASE \E t \in Threads :
              /\ pc[t] = "save:write" /\ file.state # "damaged"
              /\ file' = Whole(Merged(file.rows, record[t][1]))
    <2>1. PICK t \in Threads : /\ pc[t] = "save:write" /\ file.state # "damaged"
                               /\ file' = Whole(Merged(file.rows, record[t][1]))
        BY <1>2
    <2>2. PICK r \in Records : record[t] = <<r>>
        BY <2>1 DEF SavesRecords
    <2> DEFINE rows == Merged(file.rows, r)
    <2>3. r.created \in Int /\ Dated(file.rows) /\ file' = Whole(rows)
        BY <2>1, <2>2, RecordsAreDated DEF SavesRecords
    <2>4. rows \subseteq file.rows \cup {r} /\ Store!MayLeave(rows, file.rows, r)
        BY <2>3, MergeIsAllowed
    <2> HIDE DEF rows
    <2>5. Store!Save
        BY <2>1, <2>3, <2>4 DEF Store!Save, Store!Whole, Whole
    <2>6. Dated(rows)
        <3>1. IsFiniteSet(file.rows \cup {r})
            BY <2>3, FS_AddElement DEF Dated
        <3>2. IsFiniteSet(rows)
            BY <2>4, <3>1, FS_Subset
        <3> QED
            BY <2>3, <2>4, <3>2 DEF Dated
    <2>7. file'.rows = rows
        BY <2>3 DEF Whole
    <2> QED
        BY <2>5, <2>6, <2>7 DEF Store!Next
<1> QED
    BY <1>1, <1>2 DEF SavedOrReset

LEMMA RecordsInductive == IInv /\ SavesRecords /\ [Next]_vars => SavesRecords'
<1> SUFFICES ASSUME IInv, SavesRecords, [Next]_vars PROVE SavesRecords'
    OBVIOUS
<1>1. Dated(file'.rows)
    BY Inductive, ChangeIsStoreStep DEF SavesRecords
<1> DEFINE Saving == {"save:locking", "save:flock", "save:read", "save:write"}
           Same(u) == pc'[u] \in Saving => pc[u] \in Saving /\ record'[u] = record[u]
<1>2. ASSUME NEW t \in Threads, BeginSave(t), NEW u \in Threads, pc'[u] \in Saving
      PROVE  \E r \in Records : record'[u] = <<r>>
    <2>1. PICK k \in Keys, c \in Clock :
             record' = [record EXCEPT ![t] =
                 <<[environment |-> EnvironmentOf[ProcessOf[t]], key |-> k,
                    created |-> c, candidate |-> t]>>]
        BY <1>2 DEF BeginSave
    <2> DEFINE r == [environment |-> EnvironmentOf[ProcessOf[t]], key |-> k,
                     created |-> c, candidate |-> t]
    <2>2. r \in Records
        BY DEF Records, Processes
    <2> HIDE DEF r
    <2>3. CASE u = t
        BY <2>1, <2>2, <2>3 DEF IInv, Domains, r
    <2>4. CASE u # t
        <3>1. pc'[u] = pc[u] /\ record'[u] = record[u]
            BY <1>2, <2>1, <2>4 DEF BeginSave, Begin, Goto, IInv, Domains
        <3> QED
            BY <1>2, <3>1 DEF SavesRecords
    <2> QED
        BY <2>3, <2>4
<1>3. ASSUME NEW t \in Threads,
             \/ BeginReset(t) \/ BeginLookup(t) \/ LockProcess(t) \/ LockFile(t)
             \/ ReadStrictly(t) \/ Write(t) \/ Raise(t) \/ UnlinkFile(t) \/ LeaveLocks(t)
             \/ ClearExists(t) \/ ClearLoad(t) \/ StoreExists(t) \/ Load(t) \/ StoreLoad(t),
             NEW u \in Threads
      PROVE  Same(u)
    <2>1. PICK place : /\ pc' = [pc EXCEPT ![t] = place]
                       /\ place \in Saving => pc[t] \in Saving /\ record' = record
        BY <1>3 DEF BeginReset, BeginLookup, LockProcess, LockFile, ReadStrictly, Write,
           Replace, Raise, UnlinkFile, LeaveLocks, ClearExists, ClearLoad, StoreExists,
           AfterExists, Load, StoreLoad, Begin, Goto
    <2>2. \/ record' = record
          \/ record' = [record EXCEPT ![t] = Empty]
        BY <1>3 DEF BeginReset, BeginLookup, LockProcess, LockFile, ReadStrictly, Write,
           Raise, UnlinkFile, LeaveLocks, ClearExists, ClearLoad, StoreExists, Load,
           StoreLoad
    <2> QED
        BY <2>1, <2>2 DEF IInv, Domains
<1>4. ASSUME NEW p \in Processes, Crash(p), NEW u \in Threads PROVE Same(u)
    BY <1>4 DEF Crash
<1>5. ASSUME UNCHANGED vars, NEW u \in Threads PROVE Same(u)
    BY <1>5 DEF vars, local
<1>6. ASSUME NEW u \in Threads, Same(u), pc'[u] \in Saving
      PROVE  \E r \in Records : record'[u] = <<r>>
    BY <1>6 DEF SavesRecords
<1> HIDE DEF Same
<1>7. \A u \in Threads : pc'[u] \in Saving => \E r \in Records : record'[u] = <<r>>
    BY <1>2, <1>3, <1>4, <1>5, <1>6 DEF Next, Step
<1> QED
    BY <1>1, <1>7 DEF SavesRecords

(* The sidecar of any number of threads and processes, whenever they die   *)
(* and whatever writes fail, is a store of records: each change adds one   *)
(* record to what is there, drops others only for want of room and the     *)
(* oldest first, or empties it.                                            *)
THEOREM SidecarIsTuningStore == Spec => ImplementsTuningStore
<1>1. Init => Store!Init
    BY DEF Init, Store!Init
<1>2. IInv /\ SavesRecords /\ [Next]_vars => [Store!Next]_file
    BY Inductive, ChangeIsStoreStep
<1>3. IInv /\ [Next]_vars => IInv'
    BY Inductive
<1> QED
    BY Initially, RecordsInitially, <1>1, <1>2, <1>3, RecordsInductive, PTL
       DEF Spec, ImplementsTuningStore, Store!Spec
=============================================================================
