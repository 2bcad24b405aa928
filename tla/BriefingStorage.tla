-------------------------- MODULE BriefingStorage --------------------------
(***************************************************************************)
(* BriefingStorage._save_paths: a result is a JSON and a Markdown file,    *)
(* replaced together through temporary files and backups.                  *)
(*                                                                         *)
(* A save is a plan of file operations.  Each may raise, which turns to    *)
(* the except clause and then to the finally clause, and the process may   *)
(* die between any two.  Contents are versions, one for every save; 0 is a *)
(* file that does not exist.  The pair here may be saved again when it is  *)
(* complete, as manual validations are; the pipeline saves a regular       *)
(* result only when the pair is not complete.                              *)
(***************************************************************************)
EXTENDS Naturals, Sequences, SequencesExt

CONSTANTS
    MaxVersion,  \* saves in one run
    Faults       \* what may go wrong: a subset of {"raise", "crash"}

ASSUME StorageAssumption ==
    /\ MaxVersion \in Nat
    /\ Faults \subseteq {"raise", "crash"}

Files == {"json", "md"}
Versions == 0 .. MaxVersion

VARIABLES
    final,    \* what json_path and markdown_path hold
    temp,     \* the temporary files of this save
    backup,   \* the backups of this save
    attic,    \* contents of backup files that nobody will restore
    mode,     \* the clause that is executed
    todo,     \* its file operations still to come
    version,  \* the version this save writes
    \* history
    before,   \* the final files when the save began
    fault,    \* the last thing that went wrong in this save
    best      \* the newest version that was ever complete

svars == <<final, temp, backup, attic, mode, todo, version, before, fault, best>>

NoFiles == [f \in Files |-> 0]
Operations == {"write", "back_up", "install", "drop", "restore",
               "unlink_temp", "unlink_backup"}

STypeOK ==
    /\ final \in [Files -> Versions]
    /\ temp \in [Files -> Versions]
    /\ backup \in [Files -> Versions]
    /\ attic \in [Files -> SUBSET Versions]
    /\ mode \in {"idle", "saving", "undoing", "tidying"}
    /\ todo \in Seq(Operations \X Files)
    /\ version \in Versions
    /\ before \in [Files -> Versions]
    /\ fault \in {"none", "save", "undo", "tidy", "crash"}
    /\ best \in Versions

SInit ==
    /\ final = NoFiles
    /\ temp = NoFiles
    /\ backup = NoFiles
    /\ attic = [f \in Files |-> {}]
    /\ mode = "idle"
    /\ todo = <<>>
    /\ version = 0
    /\ before = NoFiles
    /\ fault = "none"
    /\ best = 0

-----------------------------------------------------------------------------
\* What a reader finds: a result counts only when both files are there.
Pair == IF final["json"] = final["md"] THEN final["json"] ELSE 0

Both(op) == <<<<op, "json">>, <<op, "md">>>>

\* The try clause: both files are written before either final path changes.
SavePlan == Both("write") \o Both("back_up") \o Both("install")

\* Mutant of UndoPlan: the backups stay where they are.
UndoWithoutRestore == Both("drop")

\* The except clause.
UndoPlan == Both("drop") \o Both("restore")

\* The finally clause.
TidyPlan(cleanup) ==
    Both("unlink_temp") \o (IF cleanup THEN Both("unlink_backup") ELSE <<>>)

\* A file operation that succeeds.  To write a temporary file is one, with its
\* fsync, and to name a backup and to move the file there is one: one that raises
\* inside leaves nothing here, and in the code at most a new file with a name of
\* its own, unfinished or empty, which no reader looks for.
Perform(op, f) ==
    \/ /\ op = "write"
       /\ temp' = [temp EXCEPT ![f] = version]
       /\ UNCHANGED <<final, backup>>
    \/ /\ op = "back_up"
       /\ backup' = [backup EXCEPT ![f] = final[f]]
       /\ final' = [final EXCEPT ![f] = 0]
       /\ UNCHANGED temp
    \/ /\ op = "install"
       /\ final' = [final EXCEPT ![f] = temp[f]]
       /\ temp' = [temp EXCEPT ![f] = 0]
       /\ UNCHANGED backup
    \/ /\ op = "drop"
       /\ final' = [final EXCEPT ![f] = IF @ = version THEN 0 ELSE @]
       /\ UNCHANGED <<temp, backup>>
    \/ /\ op = "restore"
       /\ final' = [final EXCEPT ![f] = IF backup[f] = 0 THEN @ ELSE backup[f]]
       /\ backup' = [backup EXCEPT ![f] = 0]
       /\ UNCHANGED temp
    \/ /\ op = "unlink_temp"
       /\ temp' = [temp EXCEPT ![f] = 0]
       /\ UNCHANGED <<final, backup>>
    \/ /\ op = "unlink_backup"
       /\ backup' = [backup EXCEPT ![f] = 0]
       /\ UNCHANGED <<final, temp>>

\* What is left of the backups of a save that is over.
Abandoned(b) ==
    [f \in Files |-> attic[f] \cup (IF b[f] = 0 THEN {} ELSE {b[f]})]

\* _save_paths is called.
BeginSave ==
    /\ mode = "idle" /\ version < MaxVersion
    /\ mode' = "saving"
    /\ todo' = SavePlan
    /\ version' = version + 1
    /\ before' = final
    /\ fault' = "none"
    /\ temp' = NoFiles
    /\ backup' = NoFiles
    /\ attic' = Abandoned(backup)
    /\ UNCHANGED <<final, best>>

\* The next operation of the clause; after the last one, the next clause.
NextOperation ==
    /\ mode # "idle"
    /\ Perform(todo[1][1], todo[1][2])
    /\ best' = IF Pair' > best THEN Pair' ELSE best
    /\ IF Len(todo) > 1
       THEN todo' = Tail(todo) /\ UNCHANGED mode
       ELSE IF mode = "tidying"
            THEN mode' = "idle" /\ todo' = <<>>
            ELSE mode' = "tidying" /\ todo' = TidyPlan(TRUE)
    /\ UNCHANGED <<attic, version, before, fault>>

\* Mutant of Raise: an error in the finally clause is handled like any other.
RaiseUndoesAll ==
    /\ "raise" \in Faults /\ mode # "idle"
    /\ mode' = "undoing" /\ todo' = UndoPlan /\ fault' = "save"
    /\ UNCHANGED <<final, temp, backup, attic, version, before, best>>

\* An operation raises, an OSError for instance.
Raise ==
    /\ "raise" \in Faults
    /\ \/ mode = "saving" /\ mode' = "undoing" /\ todo' = UndoPlan /\ fault' = "save"
       \/ mode = "undoing" /\ mode' = "tidying" /\ todo' = TidyPlan(FALSE) /\ fault' = "undo"
       \/ mode = "tidying" /\ mode' = "idle" /\ todo' = <<>> /\ fault' = "tidy"
    /\ UNCHANGED <<final, temp, backup, attic, version, before, best>>

\* The process dies, and another one is started.
Crash ==
    /\ "crash" \in Faults /\ mode # "idle"
    /\ mode' = "idle" /\ todo' = <<>> /\ fault' = "crash"
    /\ UNCHANGED <<final, temp, backup, attic, version, before, best>>

SNext == BeginSave \/ NextOperation \/ Raise \/ Crash

SSpec == SInit /\ [][SNext]_svars

-----------------------------------------------------------------------------
\* Two files that are both there belong to one save, at every moment a reader
\* or a restarted process may look.
NoTornPair == 0 \notin {final["json"], final["md"]} => final["json"] = final["md"]

\* Whatever fails, both files of the newest complete result are still on disk,
\* in place or in a backup.
ContentSurvives ==
    best # 0 =>
        \E v \in best .. version : \A f \in Files :
            v \in {final[f], backup[f]} \cup attic[f]

\* A save that raises has changed nothing, unless undoing it failed as well.
RaiseChangesNothing == mode = "idle" /\ fault = "save" => final = before

\* A save that ends, well or not, leaves no file of its own behind.
NothingLeftBehind ==
    mode = "idle" /\ fault \in {"none", "save"} => temp = NoFiles /\ backup = NoFiles

\* The readers' view implements the register.
Register == INSTANCE ResultRegister WITH shown <- Pair
ImplementsRegister == Register!Spec

\* A save is all or nothing for a reader at any moment, for a save that raises,
\* and for what a restart finds on the disk.  Only a kill after the old pair was
\* moved away and before the new one is in place leaves a reader without a pair,
\* and then both files are in place or in a backup.
DiskSound ==
    STypeOK /\ NoTornPair /\ ContentSurvives /\ RaiseChangesNothing /\ NothingLeftBehind
=============================================================================
