------------------------- MODULE OutputCommitProofs -------------------------
(***************************************************************************)
(* What holds of the replacement of the outputs for any number of outputs, *)
(* changes by other processes and exceptions.                              *)
(***************************************************************************)
EXTENDS OutputCommit, FiniteSetTheorems, TLAPS

File == [id : {"original", "staged", "foreign", "nothing"} \X Nat, version : Nat]

Places == Staging \cup Committing \cup RollingBack \cup Sweeping \cup Ended

(* The types: a file has an owner, a number and a version.                 *)
TypeInv ==
    /\ target \in [Outputs -> File]
    /\ temp \in [Outputs -> File]
    /\ backup \in [Outputs -> File]
    /\ theirs \subseteq File
    /\ pc \in Places /\ at \in Outputs
    /\ kept \subseteq Existing /\ problems \subseteq Outputs
    /\ touched \subseteq Outputs
    /\ changes \in Nat /\ faults \in Nat
    /\ published \in BOOLEAN

(* An original is at its own target or in its own backup, never elsewhere; *)
(* what others have is no staged file; the originals go after the commit.  *)
HomeInv ==
    /\ \A i, j \in Outputs : target[j].id = Original(i).id => j = i
    /\ \A i, j \in Outputs : backup[j].id = Original(i).id => j = i
    /\ \A i, j \in Outputs : temp[j].id # Original(i).id
    /\ pc = "quarantine" => target[at].id # Original(at).id
    /\ \A file \in theirs : file # Nothing
    /\ \A file \in theirs : \A i \in Outputs : file.id # Staged(i).id
    /\ pc \in {"cleanup", "committed"} => published

(* When there is nothing in a backup that a rename could bury.             *)
BackupInv ==
    /\ \A i \in Outputs :
        /\ i \notin Existing => backup[i] = Nothing
        /\ target[i].id = Original(i).id => backup[i] = Nothing
        /\ pc \in Staging \cup {"discard", "verify"} => backup[i] = Nothing
        /\ pc \in {"reserve", "aside"} /\ i >= at => backup[i] = Nothing
        /\ pc = "moved" /\ i > at => backup[i] = Nothing
    /\ pc \in {"aside", "put_back", "put"} => at \in Existing
    /\ pc = "put" => backup[at] = Nothing
    /\ pc = "restore" /\ seen = Original(at).id => backup[at] = Nothing

(* When only the staged file is where it was staged, and when it has gone. *)
TempInv ==
    /\ \A i \in Outputs :
        /\ pc \in Staging \cup Committing \cup {"discard", "cleanup", "committed"} =>
              temp[i] \in {Nothing, Staged(i)}
        /\ pc \in {"check", "install"} /\ i < at => temp[i] = Nothing
        /\ pc = "installed" /\ i <= at => temp[i] = Nothing
        /\ pc \in {"publish", "cleanup", "committed"} => temp[i] = Nothing
    /\ pc = "install" => temp[at] = Staged(at)
    /\ pc = "quarantine" => temp[at] = Nothing

(* What the rollback and the two sweeps have behind them they have emptied *)
(* or reported.                                                            *)
ReportInv ==
    \A i \in Outputs \ problems :
        /\ pc \in RollingBack /\ i > at => backup[i] = Nothing
        /\ pc \in {"tidy", "failed"} => backup[i] = Nothing
        /\ pc = "cleanup" /\ i < at => backup[i] = Nothing
        /\ pc = "committed" => backup[i] = Nothing
        /\ pc \in {"tidy", "discard"} /\ i < at => temp[i] = Nothing
        /\ pc = "failed" => temp[i] = Nothing

(* How far an output nobody else has touched has come.                     *)
Found(i) == IF i \in Existing THEN Original(i) ELSE Nothing
InPlace(i) == target[i] = Found(i) /\ backup[i] = Nothing
Aside(i) == target[i] = Nothing /\ backup[i] = Found(i)
Replaced(i) == target[i] = Staged(i) /\ backup[i] = Found(i)

Forward(i) ==
    /\ pc \in Staging \cup {"discard", "verify"} => InPlace(i)
    /\ pc \in {"reserve", "aside"} => IF i < at THEN Aside(i) ELSE InPlace(i)
    /\ pc = "moved" => IF i <= at THEN Aside(i) ELSE InPlace(i)
    /\ pc \in {"check", "install"} => IF i < at THEN Replaced(i) ELSE Aside(i)
    /\ pc = "installed" => IF i <= at THEN Replaced(i) ELSE Aside(i)
    /\ pc = "publish" => Replaced(i)
    /\ pc \in {"cleanup", "committed"} => target[i] = Staged(i)

Backward(i) ==
    /\ pc \in RollingBack /\ i < at => InPlace(i) \/ Aside(i) \/ Replaced(i)
    /\ pc \in RollingBack /\ i > at => InPlace(i) \/ i \in problems
    /\ pc \in {"look", "confirm"} /\ i = at => InPlace(i) \/ Aside(i) \/ Replaced(i)
    /\ pc = "quarantine" /\ i = at => Replaced(i)
    /\ pc = "quarantined" /\ i = at => Aside(i)
    /\ pc = "restore" /\ i = at => InPlace(i) \/ (Aside(i) /\ seen # Original(i).id)
    /\ pc = "put_back" /\ i = at => Aside(i)
    /\ pc = "put" /\ i = at => InPlace(i)
    /\ pc \in {"tidy", "failed"} => InPlace(i) \/ i \in problems

UntouchedInv == \A i \in Outputs \ touched : Forward(i) /\ Backward(i)

IInv ==
    /\ TypeInv /\ HomeInv /\ BackupInv /\ TempInv /\ ReportInv /\ UntouchedInv
    /\ NothingOfOthersLost

----------------------------------------------------------------------------
(* The outputs are numbered from one.                                      *)
LEMMA OutputsAreNumbers ==
    /\ Last \in Nat /\ Last >= 1 /\ Outputs = 1 .. Last
    /\ 1 \in Outputs /\ Last \in Outputs
<1>1. Last \in Nat
  BY OutputsAssumption, FS_CardinalityType DEF Last
<1>2. Outputs = 1 .. Last /\ Outputs # {}
  BY OutputsAssumption DEF Last
<1> QED
  BY <1>1, <1>2

(* Files of different owners never look alike.                             *)
LEMMA FileIds ==
    /\ Nothing \in File
    /\ \A i \in Nat : Original(i) \in File /\ Staged(i) \in File /\ Foreign(i) \in File
    /\ \A i \in Nat : /\ Original(i).id # Nothing.id /\ Staged(i).id # Nothing.id
                      /\ Foreign(i).id # Nothing.id
    /\ \A i, j \in Nat : /\ Original(i).id # Staged(j).id
                         /\ Original(i).id # Foreign(j).id
                         /\ Staged(i).id # Foreign(j).id
                         /\ Original(i).id = Original(j).id => i = j
                         /\ Staged(i).id = Staged(j).id => i = j
  BY DEF File, Nothing, Original, Staged, Foreign

(* A write leaves a file what it is.                                       *)
LEMMA RewrittenKeepsId ==
    ASSUME NEW file \in File, NEW i \in Nat
    PROVE  /\ Rewritten(file, i) \in File
           /\ Rewritten(file, i).id = file.id
           /\ file.id # Original(i).id => Rewritten(file, i) = file
  BY DEF Rewritten, File

(* All files are in place and none is staged when the command starts.     *)
LEMMA InitIInv == Init => IInv
<1> SUFFICES ASSUME Init PROVE IInv
  OBVIOUS
<1>0. Existing \subseteq Outputs /\ Existing \subseteq Nat /\ Outputs \subseteq Nat
  BY OutputsAreNumbers, OutputsAssumption
<1> USE <1>0 DEF Init
<1>1. TypeInv
  <2>1. /\ target \in [Outputs -> File] /\ temp \in [Outputs -> File]
        /\ backup \in [Outputs -> File]
    BY FileIds
  <2>2. theirs \subseteq File
    BY FileIds
  <2> QED
    BY <2>1, <2>2, OutputsAreNumbers DEF TypeInv, Places, Staging
<1>2. HomeInv
  BY FileIds DEF HomeInv
<1>3. BackupInv
  BY FileIds DEF BackupInv
<1>4. TempInv
  BY FileIds DEF TempInv
<1>5. ReportInv
  BY DEF ReportInv, RollingBack
<1>6. UntouchedInv
  BY DEF UntouchedInv, Forward, Backward, RollingBack, InPlace, Found
<1>7. NothingOfOthersLost
  BY DEF NothingOfOthersLost, SomewhereStill
<1> QED
  BY <1>1, <1>2, <1>3, <1>4, <1>5, <1>6, <1>7 DEF IInv

(* What every step below uses of the outputs and of the files.             *)
LEMMA Facts ==
    /\ Last \in Nat /\ Last >= 1 /\ Outputs = 1 .. Last
    /\ Outputs \subseteq Nat /\ Existing \subseteq Outputs
    /\ Nothing \in File
    /\ \A i \in Nat : Original(i) \in File /\ Staged(i) \in File /\ Foreign(i) \in File
    /\ \A i \in Nat : /\ Original(i).id # Nothing.id /\ Staged(i).id # Nothing.id
                      /\ Foreign(i).id # Nothing.id
    /\ \A i, j \in Nat : /\ Original(i).id # Staged(j).id
                         /\ Original(i).id # Foreign(j).id
                         /\ Staged(i).id # Foreign(j).id
                         /\ Original(i).id = Original(j).id => i = j
                         /\ Staged(i).id = Staged(j).id => i = j
<1>1. Existing \subseteq Outputs
  BY OutputsAssumption
<1> QED
  BY <1>1, OutputsAreNumbers, FileIds

(* Moving a file to a path leaves a file at every path.                    *)
LEMMA PathKeepsType ==
    ASSUME NEW path \in [Outputs -> File], NEW i, NEW file \in File
    PROVE  [path EXCEPT ![i] = file] \in [Outputs -> File]
  OBVIOUS

USE DEF Places, Staging, Committing, RollingBack, Sweeping, Ended

(* Nothing but staged files is where results are staged.                  *)
LEMMA StageIInv == IInv /\ Stage => IInv'
<1> SUFFICES ASSUME IInv, Stage PROVE IInv'
  OBVIOUS
<1> USE Facts DEF IInv, TypeInv, Stage, Unchanged, Advance, Discard, paths, local, others
<1>1. TypeInv'
  OBVIOUS
<1>2. HomeInv'
  BY DEF HomeInv
<1>3. BackupInv'
  BY DEF BackupInv
<1>4. TempInv'
  BY DEF TempInv
<1>5. ReportInv'
  BY DEF ReportInv
<1>6. UntouchedInv'
  BY DEF UntouchedInv, Forward, Backward, InPlace, Aside, Replaced, Found
<1>7. NothingOfOthersLost'
  BY SMTT(30) DEF NothingOfOthersLost, SomewhereStill, HomeInv, BackupInv, TempInv
<1> QED
  BY <1>1, <1>2, <1>3, <1>4, <1>5, <1>6, <1>7

(* Before the commit the outputs nobody touched are in place.             *)
LEMMA RecheckIInv == IInv /\ Recheck => IInv'
<1> SUFFICES ASSUME IInv, Recheck PROVE IInv'
  OBVIOUS
<1> USE Facts DEF IInv, TypeInv, Recheck, Unchanged, Advance, Discard, paths, local, others
<1>1. TypeInv'
  OBVIOUS
<1>2. HomeInv'
  BY DEF HomeInv
<1>3. BackupInv'
  BY DEF BackupInv
<1>4. TempInv'
  BY DEF TempInv
<1>5. ReportInv'
  BY DEF ReportInv
<1>6. UntouchedInv'
  BY DEF UntouchedInv, Forward, Backward, InPlace, Aside, Replaced, Found
<1>7. NothingOfOthersLost'
  BY DEF NothingOfOthersLost, SomewhereStill
<1> QED
  BY <1>1, <1>2, <1>3, <1>4, <1>5, <1>6, <1>7

(* A discarded file has the identity of a staged one: it is not another's.*)
LEMMA DiscardOneIInv == IInv /\ DiscardOne => IInv'
<1> SUFFICES ASSUME IInv, DiscardOne PROVE IInv'
  OBVIOUS
<1> USE Facts DEF IInv, TypeInv, DiscardOne, Unlinked, Advance, paths, local, others
<1>1. TypeInv'
  OBVIOUS
<1>2. HomeInv'
  BY DEF HomeInv
<1>3. BackupInv'
  BY DEF BackupInv
<1>4. TempInv'
  BY DEF TempInv
<1>5. ReportInv'
  BY DEF ReportInv, BackupInv, TempInv
<1>6. UntouchedInv'
  BY DEF UntouchedInv, Forward, Backward, InPlace, Aside, Replaced, Found
<1>7. NothingOfOthersLost'
  <2> SUFFICES ASSUME NEW file \in theirs, SomewhereStill(file)
               PROVE  SomewhereStill(file)'
    BY DEF NothingOfOthersLost
  <2>1. PICK i \in Outputs : file \in {target[i], temp[i], backup[i]}
    BY DEF SomewhereStill
  <2>2. file # Nothing
    BY DEF HomeInv
  <2>3. file \in {target'[i], temp'[i], backup'[i]}
    BY <2>1, <2>2 DEF HomeInv, BackupInv, TempInv
  <2> QED
    BY <2>3 DEF SomewhereStill
<1> QED
  BY <1>1, <1>2, <1>3, <1>4, <1>5, <1>6, <1>7

(* The commit begins with every backup free.                              *)
LEMMA VerifyIInv == IInv /\ Verify => IInv'
<1> SUFFICES ASSUME IInv, Verify PROVE IInv'
  OBVIOUS
<1> USE Facts DEF IInv, TypeInv, Verify, Unchanged, Advance, Unwind, paths, local, others
<1>1. TypeInv'
  OBVIOUS
<1>2. HomeInv'
  BY DEF HomeInv
<1>3. BackupInv'
  BY DEF BackupInv
<1>4. TempInv'
  BY DEF TempInv
<1>5. ReportInv'
  BY DEF ReportInv
<1>6. UntouchedInv'
  BY DEF UntouchedInv, Forward, Backward, InPlace, Aside, Replaced, Found
<1>7. NothingOfOthersLost'
  BY DEF NothingOfOthersLost, SomewhereStill
<1> QED
  BY <1>1, <1>2, <1>3, <1>4, <1>5, <1>6, <1>7

(* An output is moved aside only if there was a file of it.               *)
LEMMA ReserveIInv == IInv /\ Reserve => IInv'
<1> SUFFICES ASSUME IInv, Reserve PROVE IInv'
  OBVIOUS
<1> USE Facts DEF IInv, TypeInv, Reserve, Unchanged, Advance, Unwind, paths, local, others
<1>1. TypeInv'
  OBVIOUS
<1>2. HomeInv'
  BY DEF HomeInv
<1>3. BackupInv'
  BY DEF BackupInv
<1>4. TempInv'
  BY DEF TempInv
<1>5. ReportInv'
  BY DEF ReportInv
<1>6. UntouchedInv'
  BY DEF UntouchedInv, Forward, Backward, InPlace, Aside, Replaced, Found
<1>7. NothingOfOthersLost'
  BY DEF NothingOfOthersLost, SomewhereStill
<1> QED
  BY <1>1, <1>2, <1>3, <1>4, <1>5, <1>6, <1>7

(* What is moved aside, the original or not, buries nothing: its backup is*)
(* free.                                                                  *)
LEMMA MoveAsideIInv == IInv /\ MoveAside => IInv'
<1> SUFFICES ASSUME IInv, MoveAside PROVE IInv'
  OBVIOUS
<1> USE Facts DEF IInv, TypeInv, MoveAside, Unwind, paths, local, others
<1>1. TypeInv'
  <2>1. /\ target' \in [Outputs -> File] /\ temp' \in [Outputs -> File]
        /\ backup' \in [Outputs -> File] /\ theirs' \subseteq File
    OBVIOUS
  <2>2. pc' \in Places /\ at' \in Outputs
    OBVIOUS
  <2>3. /\ kept' \subseteq Existing /\ problems' \subseteq Outputs /\ touched' \subseteq Outputs
        /\ changes' \in Nat /\ faults' \in Nat /\ published' \in BOOLEAN
    OBVIOUS
  <2> QED
    BY <2>1, <2>2, <2>3
<1>2. HomeInv'
  BY DEF HomeInv
<1>3. BackupInv'
  BY DEF BackupInv
<1>4. TempInv'
  BY DEF TempInv
<1>5. ReportInv'
  BY DEF ReportInv
<1>6. UntouchedInv'
  BY DEF UntouchedInv, Forward, Backward, InPlace, Aside, Replaced, Found
<1>7. NothingOfOthersLost'
  <2> SUFFICES ASSUME NEW file \in theirs, SomewhereStill(file)
               PROVE  SomewhereStill(file)'
    BY DEF NothingOfOthersLost
  <2>1. PICK i \in Outputs : file \in {target[i], temp[i], backup[i]}
    BY DEF SomewhereStill
  <2>2. file # Nothing
    BY DEF HomeInv
  <2>3. file \in {target'[i], temp'[i], backup'[i]}
    BY <2>1, <2>2 DEF HomeInv, BackupInv, TempInv
  <2> QED
    BY <2>3 DEF SomewhereStill
<1> QED
  BY <1>1, <1>2, <1>3, <1>4, <1>5, <1>6, <1>7

(* Only an original that went to its backup counts as kept.               *)
LEMMA MovedIInv == IInv /\ Moved => IInv'
<1> SUFFICES ASSUME IInv, Moved PROVE IInv'
  OBVIOUS
<1> USE Facts DEF IInv, TypeInv, Moved, Advance, Unwind, paths, local, others
<1>1. TypeInv'
  <2>1. /\ target' \in [Outputs -> File] /\ temp' \in [Outputs -> File]
        /\ backup' \in [Outputs -> File] /\ theirs' \subseteq File
    OBVIOUS
  <2>2. pc' \in Places /\ at' \in Outputs
    OBVIOUS
  <2>3. /\ kept' \subseteq Existing /\ problems' \subseteq Outputs /\ touched' \subseteq Outputs
        /\ changes' \in Nat /\ faults' \in Nat /\ published' \in BOOLEAN
    BY DEF BackupInv
  <2> QED
    BY <2>1, <2>2, <2>3
<1>2. HomeInv'
  BY DEF HomeInv
<1>3. BackupInv'
  BY DEF BackupInv
<1>4. TempInv'
  BY DEF TempInv
<1>5. ReportInv'
  BY DEF ReportInv
<1>6. UntouchedInv'
  BY DEF UntouchedInv, Forward, Backward, InPlace, Aside, Replaced, Found
<1>7. NothingOfOthersLost'
  BY DEF NothingOfOthersLost, SomewhereStill
<1> QED
  BY <1>1, <1>2, <1>3, <1>4, <1>5, <1>6, <1>7

(* The target is free and the staged file there before it is installed.   *)
LEMMA CheckIInv == IInv /\ Check => IInv'
<1> SUFFICES ASSUME IInv, Check PROVE IInv'
  OBVIOUS
<1> USE Facts DEF IInv, TypeInv, Check, Unwind, paths, local, others
<1>1. TypeInv'
  OBVIOUS
<1>2. HomeInv'
  BY DEF HomeInv
<1>3. BackupInv'
  BY DEF BackupInv
<1>4. TempInv'
  BY DEF TempInv
<1>5. ReportInv'
  BY DEF ReportInv
<1>6. UntouchedInv'
  BY DEF UntouchedInv, Forward, Backward, InPlace, Aside, Replaced, Found
<1>7. NothingOfOthersLost'
  BY DEF NothingOfOthersLost, SomewhereStill
<1> QED
  BY <1>1, <1>2, <1>3, <1>4, <1>5, <1>6, <1>7

(* A file is installed over nothing.                                      *)
LEMMA InstallIInv == IInv /\ Install => IInv'
<1> SUFFICES ASSUME IInv, Install PROVE IInv'
  OBVIOUS
<1> USE Facts DEF IInv, TypeInv, Install, Unwind, paths, local, others
<1>1. TypeInv'
  <2>1. /\ target' \in [Outputs -> File] /\ temp' \in [Outputs -> File]
        /\ backup' \in [Outputs -> File] /\ theirs' \subseteq File
    OBVIOUS
  <2>2. pc' \in Places /\ at' \in Outputs
    OBVIOUS
  <2>3. /\ kept' \subseteq Existing /\ problems' \subseteq Outputs /\ touched' \subseteq Outputs
        /\ changes' \in Nat /\ faults' \in Nat /\ published' \in BOOLEAN
    OBVIOUS
  <2> QED
    BY <2>1, <2>2, <2>3
<1>2. HomeInv'
  BY DEF HomeInv
<1>3. BackupInv'
  BY DEF BackupInv, HomeInv, TempInv
<1>4. TempInv'
  BY SMTT(30) DEF TempInv
<1>5. ReportInv'
  BY DEF ReportInv
<1>6. UntouchedInv'
  BY DEF UntouchedInv, Forward, Backward, InPlace, Aside, Replaced, Found, BackupInv, TempInv
<1>7. NothingOfOthersLost'
  <2> SUFFICES ASSUME NEW file \in theirs, SomewhereStill(file)
               PROVE  SomewhereStill(file)'
    BY DEF NothingOfOthersLost
  <2>1. PICK i \in Outputs : file \in {target[i], temp[i], backup[i]}
    BY DEF SomewhereStill
  <2>2. file # Nothing
    BY DEF HomeInv
  <2>3. file \in {target'[i], temp'[i], backup'[i]}
    BY <2>1, <2>2 DEF HomeInv, BackupInv, TempInv
  <2> QED
    BY <2>3 DEF SomewhereStill
<1> QED
  BY <1>1, <1>2, <1>3, <1>4, <1>5, <1>6, <1>7

(* What another process put there meanwhile was not untouched.            *)
LEMMA InstalledIInv == IInv /\ Installed => IInv'
<1> SUFFICES ASSUME IInv, Installed PROVE IInv'
  OBVIOUS
<1> USE Facts DEF IInv, TypeInv, Installed, Advance, Unwind, paths, local, others
<1>1. TypeInv'
  OBVIOUS
<1>2. HomeInv'
  BY DEF HomeInv
<1>3. BackupInv'
  BY DEF BackupInv
<1>4. TempInv'
  BY DEF TempInv
<1>5. ReportInv'
  BY DEF ReportInv
<1>6. UntouchedInv'
  BY DEF UntouchedInv, Forward, Backward, InPlace, Aside, Replaced, Found
<1>7. NothingOfOthersLost'
  BY DEF NothingOfOthersLost, SomewhereStill
<1> QED
  BY <1>1, <1>2, <1>3, <1>4, <1>5, <1>6, <1>7

(* All is installed, and nothing is staged any more.                      *)
LEMMA PublishIInv == IInv /\ Publish => IInv'
<1> SUFFICES ASSUME IInv, Publish PROVE IInv'
  OBVIOUS
<1> USE Facts DEF IInv, TypeInv, Publish, paths, local, others
<1>1. TypeInv'
  OBVIOUS
<1>2. HomeInv'
  BY DEF HomeInv
<1>3. BackupInv'
  BY DEF BackupInv
<1>4. TempInv'
  BY DEF TempInv
<1>5. ReportInv'
  BY DEF ReportInv
<1>6. UntouchedInv'
  BY DEF UntouchedInv, Forward, Backward, InPlace, Aside, Replaced, Found
<1>7. NothingOfOthersLost'
  BY DEF NothingOfOthersLost, SomewhereStill
<1> QED
  BY <1>1, <1>2, <1>3, <1>4, <1>5, <1>6, <1>7

(* Only originals are removed, and only after the commit.                 *)
LEMMA CleanUpIInv == IInv /\ CleanUp => IInv'
<1> SUFFICES ASSUME IInv, CleanUp PROVE IInv'
  OBVIOUS
<1> USE Facts DEF IInv, TypeInv, CleanUp, Advance, paths, local, others
<1>1. TypeInv'
  OBVIOUS
<1>2. HomeInv'
  BY DEF HomeInv
<1>3. BackupInv'
  BY DEF BackupInv
<1>4. TempInv'
  BY DEF TempInv
<1>5. ReportInv'
  BY DEF ReportInv
<1>6. UntouchedInv'
  BY DEF UntouchedInv, Forward, Backward, InPlace, Aside, Replaced, Found
<1>7. NothingOfOthersLost'
  <2> SUFFICES ASSUME NEW file \in theirs, SomewhereStill(file)
               PROVE  SomewhereStill(file)' \/ file.id \in {Original(i).id : i \in Existing}
    BY DEF NothingOfOthersLost, HomeInv
  <2>1. PICK i \in Outputs : file \in {target[i], temp[i], backup[i]}
    BY DEF SomewhereStill
  <2>2. CASE file \in {target'[i], temp'[i], backup'[i]}
    BY <2>2 DEF SomewhereStill
  <2>3. CASE file \notin {target'[i], temp'[i], backup'[i]}
    BY <2>1, <2>3
  <2> QED
    BY <2>2, <2>3
<1> QED
  BY <1>1, <1>2, <1>3, <1>4, <1>5, <1>6, <1>7

(* What the rollback reads of a target decides whether its backup is free.*)
LEMMA LookIInv == IInv /\ Look => IInv'
<1> SUFFICES ASSUME IInv, Look PROVE IInv'
  OBVIOUS
<1> USE Facts DEF IInv, TypeInv, Look, paths, local, others
<1>1. TypeInv'
  OBVIOUS
<1>2. HomeInv'
  BY DEF HomeInv
<1>3. BackupInv'
  BY DEF BackupInv
<1>4. TempInv'
  BY DEF TempInv
<1>5. ReportInv'
  BY DEF ReportInv
<1>6. UntouchedInv'
  BY DEF UntouchedInv, Forward, Backward, InPlace, Aside, Replaced, Found
<1>7. NothingOfOthersLost'
  BY DEF NothingOfOthersLost, SomewhereStill
<1> QED
  BY <1>1, <1>2, <1>3, <1>4, <1>5, <1>6, <1>7

(* The installed file is moved back only to where nothing is.             *)
LEMMA ConfirmIInv == IInv /\ Confirm => IInv'
<1> SUFFICES ASSUME IInv, Confirm PROVE IInv'
  OBVIOUS
<1> USE Facts DEF IInv, TypeInv, Confirm, Problem, Back, paths, local, others
<1>1. TypeInv'
  <2>1. /\ target' \in [Outputs -> File] /\ temp' \in [Outputs -> File]
        /\ backup' \in [Outputs -> File] /\ theirs' \subseteq File
    OBVIOUS
  <2>2. pc' \in Places /\ at' \in Outputs
    OBVIOUS
  <2>3. /\ kept' \subseteq Existing /\ problems' \subseteq Outputs /\ touched' \subseteq Outputs
        /\ changes' \in Nat /\ faults' \in Nat /\ published' \in BOOLEAN
    OBVIOUS
  <2> QED
    BY <2>1, <2>2, <2>3
<1>2. HomeInv'
  BY DEF HomeInv
<1>3. BackupInv'
  BY DEF BackupInv
<1>4. TempInv'
  BY DEF TempInv
<1>5. ReportInv'
  BY DEF ReportInv
<1>6. UntouchedInv'
  BY DEF UntouchedInv, Forward, Backward, InPlace, Aside, Replaced, Found
<1>7. NothingOfOthersLost'
  BY DEF NothingOfOthersLost, SomewhereStill
<1> QED
  BY <1>1, <1>2, <1>3, <1>4, <1>5, <1>6, <1>7

(* Another process may have replaced it: its file is moved, not lost.     *)
LEMMA QuarantineIInv == IInv /\ Quarantine => IInv'
<1> SUFFICES ASSUME IInv, Quarantine PROVE IInv'
  OBVIOUS
<1> USE Facts DEF IInv, TypeInv, Quarantine, Problem, Back, paths, local, others
<1>1. TypeInv'
  <2>0. target[at] \in File /\ temp[at] \in File /\ backup[at] \in File
    OBVIOUS
  <2>1. /\ target' \in [Outputs -> File] /\ temp' \in [Outputs -> File]
        /\ backup' \in [Outputs -> File]
    BY <2>0, PathKeepsType
  <2>2. pc' \in Places /\ at' \in Outputs
    OBVIOUS
  <2>3. problems' \subseteq Outputs
    OBVIOUS
  <2> QED
    BY <2>1, <2>2, <2>3
<1>2. HomeInv'
  BY SMTT(30) DEF HomeInv
<1>3. BackupInv'
  BY DEF BackupInv
<1>4. TempInv'
  BY DEF TempInv
<1>5. ReportInv'
  BY DEF ReportInv
<1>6. UntouchedInv'
  BY DEF UntouchedInv, Forward, Backward, InPlace, Aside, Replaced, Found
<1>7. NothingOfOthersLost'
  <2> SUFFICES ASSUME NEW file \in theirs, SomewhereStill(file)
               PROVE  SomewhereStill(file)'
    BY DEF NothingOfOthersLost
  <2>1. PICK i \in Outputs : file \in {target[i], temp[i], backup[i]}
    BY DEF SomewhereStill
  <2>2. file # Nothing
    BY DEF HomeInv
  <2>3. file \in {target'[i], temp'[i], backup'[i]}
    BY <2>1, <2>2 DEF HomeInv, BackupInv, TempInv
  <2> QED
    BY <2>3 DEF SomewhereStill
<1> QED
  BY <1>1, <1>2, <1>3, <1>4, <1>5, <1>6, <1>7

(* What should not have been moved goes back, or is reported.             *)
LEMMA QuarantinedIInv == IInv /\ Quarantined => IInv'
<1> SUFFICES ASSUME IInv, Quarantined PROVE IInv'
  OBVIOUS
<1> USE Facts DEF IInv, TypeInv, Quarantined, Problem, Back, paths, local, others
<1>1. TypeInv'
  <2>1. /\ target' \in [Outputs -> File] /\ temp' \in [Outputs -> File]
        /\ backup' \in [Outputs -> File] /\ theirs' \subseteq File
    OBVIOUS
  <2>2. pc' \in Places /\ at' \in Outputs
    OBVIOUS
  <2>3. /\ kept' \subseteq Existing /\ problems' \subseteq Outputs /\ touched' \subseteq Outputs
        /\ changes' \in Nat /\ faults' \in Nat /\ published' \in BOOLEAN
    OBVIOUS
  <2> QED
    BY <2>1, <2>2, <2>3
<1>2. HomeInv'
  BY DEF HomeInv
<1>3. BackupInv'
  BY SMTT(30) DEF BackupInv, HomeInv, TempInv
<1>4. TempInv'
  BY DEF TempInv
<1>5. ReportInv'
  BY DEF ReportInv
<1>6. UntouchedInv'
  BY DEF UntouchedInv, Forward, Backward, InPlace, Aside, Replaced, Found
<1>7. NothingOfOthersLost'
  <2> SUFFICES ASSUME NEW file \in theirs, SomewhereStill(file)
               PROVE  SomewhereStill(file)'
    BY DEF NothingOfOthersLost
  <2>1. PICK i \in Outputs : file \in {target[i], temp[i], backup[i]}
    BY DEF SomewhereStill
  <2>2. file # Nothing
    BY DEF HomeInv
  <2>3. file \in {target'[i], temp'[i], backup'[i]}
    BY <2>1, <2>2 DEF HomeInv, BackupInv, TempInv
  <2> QED
    BY <2>3 DEF SomewhereStill
<1> QED
  BY <1>1, <1>2, <1>3, <1>4, <1>5, <1>6, <1>7

(* An output is passed over only if its backup is free, or it is reported.*)
LEMMA RestoreIInv == IInv /\ Restore => IInv'
<1> SUFFICES ASSUME IInv, Restore PROVE IInv'
  OBVIOUS
<1> USE Facts DEF IInv, TypeInv, Restore, Problem, Back, paths, local, others
<1>1. TypeInv'
  <2>1. /\ target' \in [Outputs -> File] /\ temp' \in [Outputs -> File]
        /\ backup' \in [Outputs -> File] /\ theirs' \subseteq File
    OBVIOUS
  <2>2. pc' \in Places /\ at' \in Outputs
    OBVIOUS
  <2>3. /\ kept' \subseteq Existing /\ problems' \subseteq Outputs /\ touched' \subseteq Outputs
        /\ changes' \in Nat /\ faults' \in Nat /\ published' \in BOOLEAN
    OBVIOUS
  <2> QED
    BY <2>1, <2>2, <2>3
<1>2. HomeInv'
  BY DEF HomeInv
<1>3. BackupInv'
  BY DEF BackupInv
<1>4. TempInv'
  BY DEF TempInv
<1>5. ReportInv'
  BY DEF ReportInv, BackupInv, TempInv
<1>6. UntouchedInv'
  BY DEF UntouchedInv, Forward, Backward, InPlace, Aside, Replaced, Found
<1>7. NothingOfOthersLost'
  BY DEF NothingOfOthersLost, SomewhereStill
<1> QED
  BY <1>1, <1>2, <1>3, <1>4, <1>5, <1>6, <1>7

(* An original is put back over nothing.                                  *)
LEMMA PutBackIInv == IInv /\ PutBack => IInv'
<1> SUFFICES ASSUME IInv, PutBack PROVE IInv'
  OBVIOUS
<1> USE Facts DEF IInv, TypeInv, PutBack, Problem, Back, paths, local, others
<1>1. TypeInv'
  <2>1. /\ target' \in [Outputs -> File] /\ temp' \in [Outputs -> File]
        /\ backup' \in [Outputs -> File] /\ theirs' \subseteq File
    OBVIOUS
  <2>2. pc' \in Places /\ at' \in Outputs
    OBVIOUS
  <2>3. /\ kept' \subseteq Existing /\ problems' \subseteq Outputs /\ touched' \subseteq Outputs
        /\ changes' \in Nat /\ faults' \in Nat /\ published' \in BOOLEAN
    OBVIOUS
  <2> QED
    BY <2>1, <2>2, <2>3
<1>2. HomeInv'
  BY DEF HomeInv
<1>3. BackupInv'
  BY DEF BackupInv
<1>4. TempInv'
  BY DEF TempInv
<1>5. ReportInv'
  BY DEF ReportInv
<1>6. UntouchedInv'
  BY DEF UntouchedInv, Forward, Backward, InPlace, Aside, Replaced, Found
<1>7. NothingOfOthersLost'
  <2> SUFFICES ASSUME NEW file \in theirs, SomewhereStill(file)
               PROVE  SomewhereStill(file)'
    BY DEF NothingOfOthersLost
  <2>1. PICK i \in Outputs : file \in {target[i], temp[i], backup[i]}
    BY DEF SomewhereStill
  <2>2. file # Nothing
    BY DEF HomeInv
  <2>3. file \in {target'[i], temp'[i], backup'[i]}
    BY <2>1, <2>2 DEF HomeInv, BackupInv, TempInv
  <2> QED
    BY <2>3 DEF SomewhereStill
<1> QED
  BY <1>1, <1>2, <1>3, <1>4, <1>5, <1>6, <1>7

(* What came to the target meanwhile goes to the backup, which is free.   *)
LEMMA BackInPlaceIInv == IInv /\ BackInPlace => IInv'
<1> SUFFICES ASSUME IInv, BackInPlace PROVE IInv'
  OBVIOUS
<1> USE Facts DEF IInv, TypeInv, BackInPlace, Problem, Back, paths, local, others
<1>1. TypeInv'
  <2>0. target[at] \in File /\ temp[at] \in File /\ backup[at] \in File
    OBVIOUS
  <2>1. /\ target' \in [Outputs -> File] /\ temp' \in [Outputs -> File]
        /\ backup' \in [Outputs -> File]
    BY <2>0, PathKeepsType, SMTT(30)
  <2>2. pc' \in Places /\ at' \in Outputs
    OBVIOUS
  <2>3. problems' \subseteq Outputs
    OBVIOUS
  <2> QED
    BY <2>1, <2>2, <2>3
<1>2. HomeInv'
  <2>1. CASE target[at].id = Original(at).id
    BY <2>1 DEF HomeInv
  <2>2. CASE target[at].id # Original(at).id
    <3>1. \A i, j \in Outputs : /\ target'[j].id = Original(i).id => j = i
                              /\ backup'[j].id = Original(i).id => j = i
      BY <2>2 DEF HomeInv
    <3>2. pc' \in {"look", "tidy"} /\ UNCHANGED <<temp, theirs>>
      BY <2>2
    <3> QED
      BY <3>1, <3>2 DEF HomeInv
  <2> QED
    BY <2>1, <2>2
<1>3. BackupInv'
  BY DEF BackupInv
<1>4. TempInv'
  BY DEF TempInv
<1>5. ReportInv'
  BY DEF ReportInv, BackupInv, TempInv
<1>6. UntouchedInv'
  BY DEF UntouchedInv, Forward, Backward, InPlace, Aside, Replaced, Found
<1>7. NothingOfOthersLost'
  <2> SUFFICES ASSUME NEW file \in theirs, SomewhereStill(file)
               PROVE  SomewhereStill(file)'
    BY DEF NothingOfOthersLost
  <2>1. PICK i \in Outputs : file \in {target[i], temp[i], backup[i]}
    BY DEF SomewhereStill
  <2>2. file # Nothing
    BY DEF HomeInv
  <2>3. file \in {target'[i], temp'[i], backup'[i]}
    BY <2>1, <2>2 DEF HomeInv, BackupInv, TempInv
  <2> QED
    BY <2>3 DEF SomewhereStill
<1> QED
  BY <1>1, <1>2, <1>3, <1>4, <1>5, <1>6, <1>7

(* What is not a staged file stays and is reported.                       *)
LEMMA TidyIInv == IInv /\ Tidy => IInv'
<1> SUFFICES ASSUME IInv, Tidy PROVE IInv'
  OBVIOUS
<1> USE Facts DEF IInv, TypeInv, Tidy, Unlinked, Advance, paths, local, others
<1>1. TypeInv'
  OBVIOUS
<1>2. HomeInv'
  BY DEF HomeInv
<1>3. BackupInv'
  BY DEF BackupInv
<1>4. TempInv'
  BY DEF TempInv
<1>5. ReportInv'
  BY DEF ReportInv
<1>6. UntouchedInv'
  BY DEF UntouchedInv, Forward, Backward, InPlace, Aside, Replaced, Found
<1>7. NothingOfOthersLost'
  <2> SUFFICES ASSUME NEW file \in theirs, SomewhereStill(file)
               PROVE  SomewhereStill(file)'
    BY DEF NothingOfOthersLost
  <2>1. PICK i \in Outputs : file \in {target[i], temp[i], backup[i]}
    BY DEF SomewhereStill
  <2>2. file # Nothing
    BY DEF HomeInv
  <2>3. file \in {target'[i], temp'[i], backup'[i]}
    BY <2>1, <2>2 DEF HomeInv, BackupInv, TempInv
  <2> QED
    BY <2>3 DEF SomewhereStill
<1> QED
  BY <1>1, <1>2, <1>3, <1>4, <1>5, <1>6, <1>7

(* An exception leaves the paths as they are and passes on or reports.    *)
LEMMA FaultIInv == IInv /\ Fault => IInv'
<1> SUFFICES ASSUME IInv, Fault PROVE IInv'
  OBVIOUS
<1> USE Facts DEF IInv, TypeInv, Fault, Problem, Back, Advance, Discard, Unwind, paths, local, others
<1>1. TypeInv'
  <2>1. /\ target' \in [Outputs -> File] /\ temp' \in [Outputs -> File]
        /\ backup' \in [Outputs -> File] /\ theirs' \subseteq File
    OBVIOUS
  <2>2. pc' \in Places /\ at' \in Outputs
    OBVIOUS
  <2>3. problems' \subseteq Outputs
    OBVIOUS
  <2>4. /\ kept' \subseteq Existing /\ touched' \subseteq Outputs
        /\ changes' \in Nat /\ faults' \in Nat /\ published' \in BOOLEAN
    OBVIOUS
  <2> QED
    BY <2>1, <2>2, <2>3, <2>4
<1>2. HomeInv'
  BY DEF HomeInv
<1>3. BackupInv'
  BY DEF BackupInv
<1>4. TempInv'
  BY DEF TempInv
<1>5. ReportInv'
  BY DEF ReportInv, BackupInv, TempInv
<1>6. UntouchedInv'
  BY DEF UntouchedInv, Forward, Backward, InPlace, Aside, Replaced, Found
<1>7. NothingOfOthersLost'
  BY DEF NothingOfOthersLost, SomewhereStill
<1> QED
  BY <1>1, <1>2, <1>3, <1>4, <1>5, <1>6, <1>7

(* Another process puts a file of its own, takes one away, or writes.      *)
LEMMA InterfereIInv == IInv /\ Interfere => IInv'
<1> SUFFICES ASSUME IInv, Interfere PROVE IInv'
  OBVIOUS
<1>0. PICK k \in Outputs : (Put(k) \/ Take(k) \/ Write(k)) /\ touched' = touched \cup {k}
  BY DEF Interfere
<1> USE Facts DEF IInv, TypeInv, Interfere, local
<1>1. CASE Put(k)
  <2> DEFINE file == Foreign(changes + 1)
  <2>0. file \in File
    OBVIOUS
  <2> USE <1>0, <1>1, <2>0 DEF Put
  <2>1. TypeInv'
    BY PathKeepsType
  <2>2. HomeInv'
    BY DEF HomeInv
  <2>3. BackupInv'
    BY DEF BackupInv
  <2>4. TempInv'
    BY DEF TempInv
  <2>5. ReportInv'
    BY DEF ReportInv
  <2>6. UntouchedInv'
    BY DEF UntouchedInv, Forward, Backward, InPlace, Aside, Replaced, Found
  <2>7. NothingOfOthersLost'
    BY SMTT(30) DEF NothingOfOthersLost, SomewhereStill
  <2> QED
    BY <2>1, <2>2, <2>3, <2>4, <2>5, <2>6, <2>7
<1>2. CASE Take(k)
  <2> USE <1>0, <1>2 DEF Take
  <2>1. TypeInv'
    BY PathKeepsType
  <2>2. HomeInv'
    BY DEF HomeInv
  <2>3. BackupInv'
    BY DEF BackupInv
  <2>4. TempInv'
    BY DEF TempInv
  <2>5. ReportInv'
    BY DEF ReportInv
  <2>6. UntouchedInv'
    BY DEF UntouchedInv, Forward, Backward, InPlace, Aside, Replaced, Found
  <2>7. NothingOfOthersLost'
    BY DEF NothingOfOthersLost, SomewhereStill
  <2> QED
    BY <2>1, <2>2, <2>3, <2>4, <2>5, <2>6, <2>7
<1>3. CASE Write(k)
  <2>0. /\ \A i \in Outputs : target'[i] = IF i = k THEN Rewritten(target[i], k) ELSE target[i]
        /\ \A i \in Outputs : backup'[i] = IF i = k THEN Rewritten(backup[i], k) ELSE backup[i]
        /\ theirs' = {Rewritten(file, k) : file \in theirs}
        /\ UNCHANGED temp
    BY <1>3 DEF Write
  <2>a. \A file \in File : /\ Rewritten(file, k) \in File
                           /\ Rewritten(file, k).id = file.id
                           /\ file.id # Original(k).id => Rewritten(file, k) = file
    BY RewrittenKeepsId
  <2>b. \A i \in Outputs : /\ target'[i].id = target[i].id
                           /\ backup'[i].id = backup[i].id
                           /\ backup[i] = Nothing => backup'[i] = Nothing
                           /\ i # k => target'[i] = target[i] /\ backup'[i] = backup[i]
    BY <2>0, <2>a
  <2>1. TypeInv'
    <3>1. target' \in [Outputs -> File] /\ backup' \in [Outputs -> File]
      BY <1>3, <2>a, PathKeepsType DEF Write
    <3>2. theirs' \subseteq File
      BY <2>0, <2>a
    <3> QED
      BY <1>0, <2>0, <3>1, <3>2
  <2>c. pc' = pc /\ at' = at /\ kept' = kept /\ problems' = problems /\ seen' = seen
        /\ published' = published /\ touched' = touched \cup {k}
    BY <1>0
  <2>2. HomeInv'
    <3>1. \A file \in theirs' : file # Nothing /\ \A i \in Outputs : file.id # Staged(i).id
      BY <2>0, <2>a DEF HomeInv
    <3>2. \A i, j \in Outputs :
             /\ target'[j].id = Original(i).id => j = i
             /\ backup'[j].id = Original(i).id => j = i
             /\ temp'[j].id # Original(i).id
      BY <2>0, <2>b DEF HomeInv
    <3>3. /\ pc' = "quarantine" => target'[at].id # Original(at).id
          /\ pc' \in {"cleanup", "committed"} => published'
      BY <2>b, <2>c DEF HomeInv
    <3> QED
      BY <2>c, <3>1, <3>2, <3>3 DEF HomeInv
  <2>3. BackupInv'
    BY <2>b, <2>c DEF BackupInv
  <2>4. TempInv'
    BY <2>0, <2>c DEF TempInv
  <2>5. ReportInv'
    BY <2>0, <2>b, <2>c DEF ReportInv
  <2>6. UntouchedInv'
    BY <2>b, <2>c DEF UntouchedInv, Forward, Backward, InPlace, Aside, Replaced, Found
  <2>7. NothingOfOthersLost'
    <3> SUFFICES ASSUME NEW file \in theirs
                 PROVE  \/ SomewhereStill(Rewritten(file, k))'
                        \/ published' /\ Rewritten(file, k).id \in {Original(i).id : i \in Existing}
      BY <2>0 DEF NothingOfOthersLost
    <3>1. CASE SomewhereStill(file)
      <4>1. PICK i \in Outputs : file \in {target[i], temp[i], backup[i]}
        BY <3>1 DEF SomewhereStill
      <4>2. Rewritten(file, k) \in {target'[i], temp'[i], backup'[i]}
        <5>1. CASE file.id = Original(k).id
          <6>1. i = k /\ file # temp[i]
            BY <4>1, <5>1 DEF HomeInv
          <6> QED
            BY <2>0, <4>1, <6>1
        <5>2. CASE file.id # Original(k).id
          <6>1. Rewritten(file, k) = file
            BY <2>a, <5>2
          <6>2. \A j \in Outputs : /\ target[j] = file => target'[j] = file
                                 /\ backup[j] = file => backup'[j] = file
            BY <2>0, <6>1
          <6> QED
            BY <2>0, <4>1, <6>1, <6>2
        <5> QED
          BY <5>1, <5>2
      <4> QED
        BY <4>2 DEF SomewhereStill
    <3>2. CASE ~SomewhereStill(file)
      <4>1. published /\ file.id \in {Original(i).id : i \in Existing}
        BY <3>2 DEF NothingOfOthersLost
      <4>2. file \in File /\ Rewritten(file, k).id = file.id
        BY <2>a
      <4> QED
        BY <2>c, <4>1, <4>2
    <3> QED
      BY <3>1, <3>2
  <2> QED
    BY <2>1, <2>2, <2>3, <2>4, <2>5, <2>6, <2>7
<1> QED
  BY <1>0, <1>1, <1>2, <1>3

(* A step of none of the variables disturbs nothing.                       *)
LEMMA StutterIInv == IInv /\ UNCHANGED vars => IInv'
<1> SUFFICES ASSUME IInv, UNCHANGED vars PROVE IInv'
  OBVIOUS
<1> USE DEF IInv, vars, paths, local, others
<1>1. TypeInv' /\ HomeInv' /\ BackupInv' /\ TempInv' /\ ReportInv'
  BY DEF TypeInv, HomeInv, BackupInv, TempInv, ReportInv
<1>2. UntouchedInv' /\ NothingOfOthersLost'
  BY DEF UntouchedInv, Forward, Backward, InPlace, Aside, Replaced,
         NothingOfOthersLost, SomewhereStill
<1> QED
  BY <1>1, <1>2

(* The invariant of the transaction: where every file may be, and how far  *)
(* the outputs nobody else has touched have come, at every place.          *)
THEOREM Invariance == Spec => []IInv
<1>1. Init => IInv
  BY InitIInv
<1>2. IInv /\ [Next]_vars => IInv'
  <2> SUFFICES ASSUME IInv, [Next]_vars PROVE IInv'
    OBVIOUS
  <2>1. CASE Stage \/ Recheck \/ DiscardOne \/ Verify \/ Reserve \/ MoveAside \/ Moved
    BY <2>1, StageIInv, RecheckIInv, DiscardOneIInv, VerifyIInv, ReserveIInv,
       MoveAsideIInv, MovedIInv
  <2>2. CASE Check \/ Install \/ Installed \/ Publish \/ CleanUp
    BY <2>2, CheckIInv, InstallIInv, InstalledIInv, PublishIInv, CleanUpIInv
  <2>3. CASE Look \/ Confirm \/ Quarantine \/ Quarantined
    BY <2>3, LookIInv, ConfirmIInv, QuarantineIInv, QuarantinedIInv
  <2>4. CASE Restore \/ PutBack \/ BackInPlace \/ Tidy
    BY <2>4, RestoreIInv, PutBackIInv, BackInPlaceIInv, TidyIInv
  <2>5. CASE Fault
    BY <2>5, FaultIInv
  <2>6. CASE Interfere
    BY <2>6, InterfereIInv
  <2>7. CASE UNCHANGED vars
    BY <2>7, StutterIInv
  <2> QED
    BY <2>1, <2>2, <2>3, <2>4, <2>5, <2>6, <2>7 DEF Next, Step, Terminating
<1> QED
  BY <1>1, <1>2, PTL DEF Spec

(* Whatever is renamed, rolled back or swept away, for any interference    *)
(* and at every instant (so also when the command dies there), a file that *)
(* another process has put or written is at one of the paths still, except *)
(* an original whose replacement was committed.                            *)
THEOREM OthersKeepTheirFiles == Spec => []NothingOfOthersLost
<1>1. IInv => NothingOfOthersLost
  BY DEF IInv
<1> QED
  BY <1>1, Invariance, PTL

(* A file the command could not put back never stays behind unreported.    *)
THEOREM NothingStrandedInSilence == Spec => []StrandedIsReported
<1>1. IInv => StrandedIsReported
  BY DEF IInv, TempInv, ReportInv, StrandedIsReported
<1> QED
  BY <1>1, Invariance, PTL

(* Of the outputs that nobody else touched and no error was reported of,   *)
(* all are replaced or all are as they were, with nothing left beside them.*)
THEOREM CommitIsAtomic == Spec => []AllOrNothing
<1>1. IInv => AllOrNothing
  BY DEF IInv, TempInv, ReportInv, UntouchedInv, Forward, Backward, InPlace, Found,
         AllOrNothing
<1> QED
  BY <1>1, Invariance, PTL

=============================================================================
