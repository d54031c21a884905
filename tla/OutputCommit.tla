---------------------------- MODULE OutputCommit ----------------------------
(***************************************************************************)
(* How cli.py replaces the output files of a run: the results are staged   *)
(* beside their targets, the originals moved aside, the results moved in   *)
(* place, and on any error everything is moved back.  Other processes use  *)
(* the targets meanwhile, an exception or an interrupt may come anywhere,  *)
(* and so may a crash.  Renames are RENAME_EXCL's: they never replace.     *)
(***************************************************************************)
EXTENDS Naturals, FiniteSets

CONSTANTS Outputs,      \* the output files, 1 .. the number of them
          Existing,     \* those there is a file of already
          MaxForeign,   \* bounds the changes other processes make
          MaxFaults     \* bounds the exceptions that come from nowhere

ASSUME OutputsAssumption ==
    /\ IsFiniteSet(Outputs) /\ Outputs # {} /\ Outputs = 1 .. Cardinality(Outputs)
    /\ Existing \subseteq Outputs
    /\ MaxForeign \in Nat /\ MaxFaults \in Nat

Last == Cardinality(Outputs)

(* A file has an identity, its inode, and a version that a write changes.  *)
Original(i) == [id |-> <<"original", i>>, version |-> 0]
Staged(i) == [id |-> <<"staged", i>>, version |-> 0]
Foreign(n) == [id |-> <<"foreign", n>>, version |-> 0]
Nothing == [id |-> <<"nothing", 0>>, version |-> 0]

VARIABLES target, temp, backup,     \* what the three paths of an output hold
          pc,           \* where the command is
          at,           \* the output it is at
          seen,         \* target_id, as the rollback has read it
          kept,         \* the outputs with backup_has_original
          problems,     \* the outputs the rollback or the cleanup reports
          published,    \* the outputs have been committed
          faults,       \* the exceptions from nowhere so far
          changes,      \* the changes of other processes so far
          touched,      \* the outputs they have changed
          theirs        \* the files, as last written, of other processes

paths == <<target, temp, backup>>
others == <<changes, touched, theirs>>
local == <<seen, kept, problems, published, faults>>
vars == <<paths, pc, at, local, others>>

(* _capture_plan has recorded what the targets hold.                       *)
Init ==
    /\ target = [i \in Outputs |-> IF i \in Existing THEN Original(i) ELSE Nothing]
    /\ temp = [i \in Outputs |-> Nothing]
    /\ backup = [i \in Outputs |-> Nothing]
    /\ pc = "stage" /\ at = 1
    /\ seen = Nothing.id /\ kept = {} /\ problems = {} /\ published = FALSE
    /\ faults = 0 /\ changes = 0 /\ touched = {}
    /\ theirs = {Original(i) : i \in Existing}

(* _verify_output: the target is as _capture_plan found it.                *)
Unchanged(i) == target[i] = IF i \in Existing THEN Original(i) ELSE Nothing

(* The next output the present stage is at, or the first of the next stage.*)
Advance(stage, following) ==
    IF at < Last THEN pc' = stage /\ at' = at + 1
                 ELSE pc' = following /\ at' = 1

(* An exception in a stage: the staged files are discarded before commit,  *)
(* and everything is rolled back, from the last output to the first, in it.*)
Discard == pc' = "discard" /\ at' = 1
Unwind == pc' = "look" /\ at' = Last

----------------------------------------------------------------------------
(* _stage_outputs and the verification after it.                           *)
Stage ==
    /\ pc = "stage"
    /\ \/ /\ at \in Existing => Unchanged(at)
          /\ temp' = [temp EXCEPT ![at] = Staged(at)]
          /\ Advance("stage", "recheck")
       \/ at \in Existing /\ ~Unchanged(at) /\ Discard /\ UNCHANGED temp
    /\ UNCHANGED <<target, backup, local, others>>

Recheck ==
    /\ pc = "recheck"
    /\ IF Unchanged(at) THEN Advance("recheck", "verify") ELSE Discard
    /\ UNCHANGED <<paths, local, others>>

(* _safe_unlink_owned of a staged file.                                    *)
Unlinked(i) ==
    temp' = IF temp[i].id = Staged(i).id THEN [temp EXCEPT ![i] = Nothing] ELSE temp

DiscardOne ==
    /\ pc = "discard"
    /\ Unlinked(at)
    /\ Advance("discard", "failed")
    /\ UNCHANGED <<target, backup, local, others>>

----------------------------------------------------------------------------
(* _commit_outputs.                                                        *)
Verify ==
    /\ pc = "verify"
    /\ IF Unchanged(at) THEN Advance("verify", "reserve") ELSE Unwind
    /\ UNCHANGED <<paths, local, others>>

Reserve ==
    /\ pc = "reserve"
    /\ \/ at \notin Existing /\ Advance("reserve", "check")
       \/ at \in Existing /\ Unchanged(at) /\ pc' = "aside" /\ UNCHANGED at
       \/ at \in Existing /\ ~Unchanged(at) /\ Unwind
    /\ UNCHANGED <<paths, local, others>>

(* The target may have changed again; what is moved is what is there.  (The*)
(* first of the two verifications before a move adds nothing: no file is   *)
(* ever again what it was.)                                                *)
MoveAside ==
    /\ pc = "aside"
    /\ IF target[at] # Nothing
       THEN /\ backup' = [backup EXCEPT ![at] = target[at]]
            /\ target' = [target EXCEPT ![at] = Nothing]
            /\ pc' = "moved" /\ UNCHANGED at
       ELSE Unwind /\ UNCHANGED <<target, backup>>
    /\ UNCHANGED <<temp, local, others>>

Moved ==
    /\ pc = "moved"
    /\ IF backup[at].id = Original(at).id
       THEN kept' = kept \cup {at} /\ Advance("reserve", "check")
       ELSE Unwind /\ UNCHANGED kept
    /\ UNCHANGED <<paths, seen, problems, published, faults, others>>

Check ==
    /\ pc = "check"
    /\ IF target[at] = Nothing /\ temp[at] = Staged(at)
       THEN pc' = "install" /\ UNCHANGED at
       ELSE Unwind
    /\ UNCHANGED <<paths, local, others>>

(* A rename that replaces what has come to the target meanwhile.           *)
InstallReplacing ==
    /\ pc = "install"
    /\ target' = [target EXCEPT ![at] = temp[at]]
    /\ temp' = [temp EXCEPT ![at] = Nothing]
    /\ pc' = "installed" /\ UNCHANGED at
    /\ UNCHANGED <<backup, local, others>>

Install ==
    /\ pc = "install"
    /\ IF target[at] = Nothing
       THEN /\ target' = [target EXCEPT ![at] = temp[at]]
            /\ temp' = [temp EXCEPT ![at] = Nothing]
            /\ pc' = "installed" /\ UNCHANGED at
       ELSE Unwind /\ UNCHANGED <<target, temp>>
    /\ UNCHANGED <<backup, local, others>>

Installed ==
    /\ pc = "installed"
    /\ IF target[at].id = Staged(at).id THEN Advance("check", "publish") ELSE Unwind
    /\ UNCHANGED <<paths, local, others>>

(* The directories are flushed and the standard output is written.         *)
Publish ==
    /\ pc = "publish"
    /\ published' = TRUE
    /\ pc' = "cleanup" /\ at' = 1
    /\ UNCHANGED <<paths, seen, kept, problems, faults, others>>

(* The backups go; one that is no longer the original stays, with a word.  *)
CleanUp ==
    /\ pc = "cleanup"
    /\ backup' = IF at \in kept /\ backup[at].id = Original(at).id
                 THEN [backup EXCEPT ![at] = Nothing] ELSE backup
    /\ problems' = IF backup'[at] = Nothing THEN problems ELSE problems \cup {at}
    /\ Advance("cleanup", "committed")
    /\ UNCHANGED <<target, temp, seen, kept, published, faults, others>>

----------------------------------------------------------------------------
(* _rollback.  What has been done is read from the paths, not from what    *)
(* the command had noted when the exception came.                          *)
Back ==
    IF at > 1 THEN pc' = "look" /\ at' = at - 1 ELSE pc' = "tidy" /\ at' = 1

TryAgain == problems' = problems \cup {at} /\ pc' = "look" /\ UNCHANGED at

Problem == problems' = problems \cup {at} /\ Back

Look ==
    /\ pc = "look"
    /\ seen' = target[at].id
    /\ pc' = IF target[at].id = Staged(at).id THEN "confirm" ELSE "restore"
    /\ UNCHANGED <<paths, at, kept, problems, published, faults, others>>

(* The installed file is moved back to where it was staged: what is at the *)
(* target is looked at again before the move, and after it where it went.  *)
Confirm ==
    /\ pc = "confirm"
    /\ IF target[at].id = Staged(at).id /\ temp[at] = Nothing
       THEN pc' = "quarantine" /\ UNCHANGED <<at, problems>>
       ELSE Problem
    /\ UNCHANGED <<paths, seen, kept, published, faults, others>>

Quarantine ==
    /\ pc = "quarantine"
    /\ IF target[at] # Nothing
       THEN /\ temp' = [temp EXCEPT ![at] = target[at]]
            /\ target' = [target EXCEPT ![at] = Nothing]
            /\ pc' = "quarantined" /\ UNCHANGED <<at, problems>>
       ELSE Problem /\ UNCHANGED <<target, temp>>
    /\ UNCHANGED <<backup, seen, kept, published, faults, others>>

(* What was moved was not the staged file: it goes back if it can.         *)
Quarantined ==
    /\ pc = "quarantined"
    /\ IF temp[at].id = Staged(at).id
       THEN /\ seen' = Nothing.id
            /\ pc' = "restore" /\ UNCHANGED <<target, temp, at, problems>>
       ELSE /\ IF target[at] = Nothing
               THEN /\ target' = [target EXCEPT ![at] = temp[at]]
                    /\ temp' = [temp EXCEPT ![at] = Nothing]
               ELSE UNCHANGED <<target, temp>>
            /\ Problem /\ UNCHANGED seen
    /\ UNCHANGED <<backup, kept, published, faults, others>>

RestoreByFlag ==
    /\ pc = "restore"
    /\ IF at \in kept /\ target[at] = Nothing
       THEN pc' = "put_back" /\ UNCHANGED <<at, problems>>
       ELSE Back /\ UNCHANGED problems
    /\ UNCHANGED <<paths, seen, kept, published, faults, others>>

RestoreUnlessOccupied ==
    /\ pc = "restore"
    /\ IF at \in Existing /\ seen # Original(at).id /\ target[at] = Nothing
          /\ backup[at].id = Original(at).id
       THEN pc' = "put_back" /\ UNCHANGED <<at, problems>>
       ELSE Back /\ UNCHANGED problems
    /\ UNCHANGED <<paths, seen, kept, published, faults, others>>

Restore ==
    /\ pc = "restore"
    /\ IF at \notin Existing \/ seen = Original(at).id
       THEN Back /\ UNCHANGED problems
       ELSE IF backup[at].id = Original(at).id /\ target[at] = Nothing
            THEN pc' = "put_back" /\ UNCHANGED <<at, problems>>
            ELSE Problem
    /\ UNCHANGED <<paths, seen, kept, published, faults, others>>

PutBack ==
    /\ pc = "put_back"
    /\ IF target[at] = Nothing
       THEN /\ target' = [target EXCEPT ![at] = backup[at]]
            /\ backup' = [backup EXCEPT ![at] = Nothing]
            /\ pc' = "put" /\ UNCHANGED <<at, problems>>
       ELSE Problem /\ UNCHANGED <<target, backup>>
    /\ UNCHANGED <<temp, seen, kept, published, faults, others>>

(* Another process may have replaced the original just put back.           *)
BackInPlace ==
    /\ pc = "put"
    /\ IF target[at].id = Original(at).id
       THEN Back /\ UNCHANGED <<target, backup, problems>>
       ELSE /\ backup' = [backup EXCEPT ![at] = target[at]]
            /\ target' = [target EXCEPT ![at] = Nothing]
            /\ Problem
    /\ UNCHANGED <<temp, seen, kept, published, faults, others>>

Tidy ==
    /\ pc = "tidy"
    /\ Unlinked(at)
    /\ problems' = IF temp'[at] = Nothing THEN problems ELSE problems \cup {at}
    /\ Advance("tidy", "failed")
    /\ UNCHANGED <<target, backup, seen, kept, published, faults, others>>

----------------------------------------------------------------------------
Staging == {"stage", "recheck"}
Committing == {"verify", "reserve", "aside", "moved", "check", "install",
               "installed", "publish"}
RollingBack == {"look", "confirm", "quarantine", "quarantined", "restore",
                "put_back", "put"}
Sweeping == {"discard", "tidy", "cleanup"}
Ended == {"failed", "committed"}

(* An error or an interrupt before the next operation of the command.  Out-*)
(* side the stages it is confined to the output at hand, which is reported:*)
(* so the code has it within its try blocks, and the model between them too*)
(* (the heads of its loops, a temporary file just made), where an interrupt*)
(* would in fact end the command without doing or reporting the rest.      *)
Fault ==
    /\ faults < MaxFaults
    /\ faults' = faults + 1
    /\ \/ pc \in Staging /\ Discard /\ UNCHANGED problems
       \/ pc \in Committing /\ Unwind /\ UNCHANGED problems
       \/ pc \in RollingBack /\ Problem
       \/ pc \in Sweeping /\ problems' = problems \cup {at}
          /\ Advance(pc, IF pc = "cleanup" THEN "committed" ELSE "failed")
    /\ UNCHANGED <<paths, seen, kept, published, others>>

(* Another process puts a file of its own at a target, takes away what is  *)
(* there, or writes to the original, which it may have open: then it finds *)
(* it in the backup too.                                                   *)
Put(i) ==
    LET file == Foreign(changes + 1) IN
    /\ target' = [target EXCEPT ![i] = file]
    /\ theirs' = (theirs \ {target[i]}) \cup {file}
    /\ UNCHANGED <<temp, backup>>

Take(i) ==
    /\ target[i] # Nothing
    /\ target' = [target EXCEPT ![i] = Nothing]
    /\ theirs' = theirs \ {target[i]}
    /\ UNCHANGED <<temp, backup>>

Rewritten(file, i) ==
    IF file.id = Original(i).id THEN [file EXCEPT !.version = @ + 1] ELSE file

Write(i) ==
    /\ \E file \in {target[i], backup[i]} : file.id = Original(i).id
    /\ target' = [target EXCEPT ![i] = Rewritten(@, i)]
    /\ backup' = [backup EXCEPT ![i] = Rewritten(@, i)]
    /\ theirs' = {Rewritten(file, i) : file \in theirs}
    /\ UNCHANGED temp

Interfere ==
    /\ changes < MaxForeign /\ pc \notin Ended
    /\ \E i \in Outputs : (Put(i) \/ Take(i) \/ Write(i)) /\ touched' = touched \cup {i}
    /\ changes' = changes + 1
    /\ UNCHANGED <<pc, at, local>>

Step ==
    \/ Stage \/ Recheck \/ DiscardOne
    \/ Verify \/ Reserve \/ MoveAside \/ Moved \/ Check \/ Install \/ Installed
    \/ Publish \/ CleanUp
    \/ Look \/ Confirm \/ Quarantine \/ Quarantined
    \/ Restore \/ PutBack \/ BackInPlace \/ Tidy

Terminating == pc \in Ended /\ UNCHANGED vars

Next == Step \/ Fault \/ Interfere \/ Terminating

(* The command makes its next system call some time.                       *)
Spec == Init /\ [][Next]_vars /\ WF_vars(Step)

----------------------------------------------------------------------------
SomewhereStill(file) ==
    \E i \in Outputs : file \in {target[i], temp[i], backup[i]}

(* Whatever is renamed over, moved back or swept away, and whenever the    *)
(* command dies, no file of another process is destroyed: it is at one of  *)
(* the paths still.  The originals alone may go, and only once the outputs *)
(* that replace them have been committed.                                  *)
NothingOfOthersLost ==
    \A file \in theirs :
        \/ SomewhereStill(file)
        \/ published /\ file.id \in {Original(i).id : i \in Existing}

(* The same of what others write: of an original only what was there when  *)
(* the command first looked may go.  README.md: "These checks prevent      *)
(* accidental concurrent writers from being overwritten."                  *)
NoWriteLost ==
    \A file \in theirs :
        \/ SomewhereStill(file)
        \/ published /\ file \in {Original(i) : i \in Existing}

(* The outputs that nobody else has touched and no error was reported of   *)
(* are, when the command has failed, all as it found them, and when it has *)
(* not, all replaced; and nothing is left beside them.                     *)
AllOrNothing ==
    pc \in Ended =>
        \A i \in Outputs \ (touched \cup problems) :
            /\ target[i] = IF pc = "committed" THEN Staged(i)
                           ELSE IF i \in Existing THEN Original(i) ELSE Nothing
            /\ temp[i] = Nothing /\ backup[i] = Nothing

(* A file the command has moved and could not put back, the original or    *)
(* another's, is always reported: nobody has to find it by chance.         *)
StrandedIsReported ==
    pc \in Ended =>
        \A i \in Outputs : temp[i] # Nothing \/ backup[i] # Nothing => i \in problems

(* However others interfere, rolling back comes to an end.                 *)
CommandEnds == <>(pc \in Ended)

=============================================================================
