------------------------- MODULE SnapshotFileProofs -------------------------
(***************************************************************************)
(* SnapshotFile implements AtomicFile, for any number of files and saves.  *)
(*                                                                         *)
(* The argument is that no call touches a file that has the target's name, *)
(* in the directory as processes see it or in the one on the disk: the     *)
(* temporary file is never one of these, and a file that gets the name is  *)
(* synced, so that from then on what processes see of it is what the disk  *)
(* has of it, and whole.                                                   *)
(***************************************************************************)
EXTENDS SnapshotFile, TLAPS

Saving == {"created", "writing", "flushed", "synced"}

Synced(i) == cached[i] = stored[i] /\ cached[i].size = "whole"

\* In either directory the target, if there is one, is synced.
TargetsSynced ==
  \A dir \in {names, entries} : dir["target"] # NoInode => Synced(dir["target"])

\* The temporary file is not the target of either directory; nor does the
\* disk have one file under both names.
TmpApart ==
  /\ names["tmp"] # NoInode => names["tmp"] \notin {names["target"], entries["target"]}
  /\ entries["tmp"] # NoInode => entries["tmp"] # entries["target"]

\* How far the save in progress has come with its temporary file.
Progress ==
  /\ pc \in Saving => names["tmp"] # NoInode /\ saved < attempt
  /\ pc \in {"flushed", "synced"} =>
       cached[names["tmp"]] = [of |-> attempt, size |-> "whole"]
  /\ pc = "synced" => stored[names["tmp"]] = cached[names["tmp"]]

IInv ==
  /\ TypeOK
  /\ TargetsSynced
  /\ TmpApart
  /\ Progress
  /\ LatestSaveKept

-----------------------------------------------------------------------------
LEMMA InitInv == Init => IInv
<1> SUFFICES ASSUME Init PROVE IInv
  OBVIOUS
<1> USE FileAssumption DEF Init
<1>1. TypeOK
  BY DEF TypeOK, Contents, Nothing, Names
<1>2. TargetsSynced /\ TmpApart
  BY DEF TargetsSynced, TmpApart, Names
<1>3. Progress
  BY DEF Progress, Saving
<1>4. LatestSaveKept
  BY DEF LatestSaveKept, Loaded, Names
<1> QED
  BY <1>1, <1>2, <1>3, <1>4 DEF IInv

\* A call that leaves the directories alone, and of the files touches none
\* that is a target, leaves the targets what they were.
LEMMA TargetsUntouched ==
  ASSUME IInv,
         UNCHANGED <<names, entries, saved>>,
         \A dir \in {names, entries} : dir["target"] # NoInode =>
           /\ cached'[dir["target"]] = cached[dir["target"]]
           /\ stored'[dir["target"]] = stored[dir["target"]]
  PROVE  /\ TargetsSynced'
         /\ TmpApart'
         /\ LatestSaveKept'
         /\ Loaded(names, cached)' = Loaded(names, cached)
         /\ Loaded(entries, stored)' = Loaded(entries, stored)
BY DEF IInv, TargetsSynced, TmpApart, LatestSaveKept, Loaded, Synced

\* The calls of a save before the rename write to the temporary file, which
\* is nobody's target.
LEMMA WriteInv == IInv /\ (Write \/ Flush \/ Sync) => IInv' /\ UNCHANGED Register!vars
<1> SUFFICES ASSUME IInv, Write \/ Flush \/ Sync
             PROVE  IInv' /\ UNCHANGED Register!vars
  OBVIOUS
<1>1. /\ UNCHANGED <<names, entries, saved, attempt>>
      /\ names["tmp"] \in Inodes
      /\ \A i \in Inodes : i # names["tmp"] =>
           cached'[i] = cached[i] /\ stored'[i] = stored[i]
  BY FileAssumption DEF Write, Flush, Sync, IInv, TypeOK, Progress, Saving, Names
<1>2. \A dir \in {names, entries} : dir["target"] # NoInode =>
        /\ cached'[dir["target"]] = cached[dir["target"]]
        /\ stored'[dir["target"]] = stored[dir["target"]]
  BY <1>1, FileAssumption DEF IInv, TypeOK, TmpApart, Names
<1>3. /\ TargetsSynced' /\ TmpApart' /\ LatestSaveKept'
      /\ UNCHANGED Register!vars
  BY <1>1, <1>2, TargetsUntouched DEF Register!vars
<1>4. TypeOK'
  <2>1. Contents' = Contents /\ stored' \in [Inodes -> Contents]
    BY <1>1 DEF Write, Flush, Sync, IInv, TypeOK, Contents
  <2>2. cached' \in [Inodes -> Contents]
    BY <1>1, FileAssumption DEF Write, Flush, Sync, IInv, TypeOK, Contents
  <2> QED
    BY <1>1, <2>1, <2>2 DEF Write, Flush, Sync, IInv, TypeOK
<1>5. Progress'
  BY <1>1, FileAssumption
  DEF Write, Flush, Sync, IInv, TypeOK, Progress, Saving
<1> QED
  BY <1>3, <1>4, <1>5 DEF IInv

\* A new temporary file is one that has no name in either directory.
LEMMA BeginSaveInv == IInv /\ BeginSave => IInv' /\ UNCHANGED Register!vars
<1> SUFFICES ASSUME IInv, BeginSave
             PROVE  IInv' /\ UNCHANGED Register!vars
  OBVIOUS
<1>1. PICK i \in Inodes :
        /\ names' = [names EXCEPT !["tmp"] = i]
        /\ i \notin {names["target"], entries["target"]}
        /\ cached' = [cached EXCEPT ![i] = Nothing]
        /\ stored' \in {stored, [stored EXCEPT ![i] = Nothing]}
  BY FileAssumption DEF BeginSave, IInv, TypeOK, TmpApart, Unused, Names
<1>2. /\ UNCHANGED <<entries, saved>>
      /\ attempt' = attempt + 1 /\ attempt < MaxSaves /\ pc' = "created"
  BY DEF BeginSave
<1>3. TypeOK'
  BY <1>1, <1>2, FileAssumption DEF IInv, TypeOK, Contents, Nothing, Names
<1>4. TmpApart'
  BY <1>1, <1>2 DEF IInv, TypeOK, TmpApart, Names
<1>5. \A dir \in {names, entries} : dir["target"] # NoInode =>
        /\ cached'[dir["target"]] = cached[dir["target"]]
        /\ stored'[dir["target"]] = stored[dir["target"]]
  BY <1>1 DEF IInv, TypeOK, Names
<1>6. names'["target"] = names["target"] /\ names'["tmp"] # NoInode
  BY <1>1, FileAssumption DEF IInv, TypeOK, Names
<1>7. TargetsSynced'
  BY <1>2, <1>5, <1>6 DEF IInv, TargetsSynced, Synced
<1>8. UNCHANGED Register!vars /\ LatestSaveKept'
  BY <1>2, <1>5, <1>6 DEF IInv, Register!vars, Loaded, LatestSaveKept
<1>9. Progress'
  BY <1>2, <1>6, FileAssumption DEF IInv, TypeOK, Progress, Saving
<1> QED
  BY <1>3, <1>4, <1>7, <1>8, <1>9 DEF IInv

\* The rename replaces the register as a whole, with a later save.
LEMMA RenameInv == IInv /\ Rename => IInv' /\ Register!Replace
<1> SUFFICES ASSUME IInv, Rename
             PROVE  IInv' /\ Register!Replace
  OBVIOUS
<1>1. /\ pc = "synced" /\ pc' = "idle" /\ saved' = attempt
      /\ UNCHANGED <<attempt, cached, stored, entries>>
      /\ names'["tmp"] = NoInode /\ names'["target"] = names["tmp"]
      /\ names' \in [Names -> Inodes \cup {NoInode}]
  BY DEF Rename, IInv, TypeOK, Names
<1>2. /\ names["tmp"] # NoInode /\ Synced(names["tmp"])
      /\ cached[names["tmp"]] = [of |-> attempt, size |-> "whole"]
      /\ saved < attempt
  BY <1>1 DEF IInv, Progress, Synced, Saving
<1>3. TypeOK'
  BY <1>1, <1>2, FileAssumption DEF IInv, TypeOK, Contents
<1>4. TargetsSynced' /\ TmpApart'
  BY <1>1, <1>2 DEF IInv, TargetsSynced, TmpApart, Synced
<1>5. Progress'
  BY <1>1 DEF Progress, Saving
<1>6. /\ Loaded(names, cached)' = attempt /\ LatestSaveKept'
      /\ UNCHANGED Loaded(entries, stored)
  BY <1>1, <1>2 DEF Loaded, LatestSaveKept
<1>7. Register!Replace
  BY <1>1, <1>2, <1>6, FileAssumption
  DEF Register!Replace, IInv, TypeOK, LatestSaveKept
<1> QED
  BY <1>3, <1>4, <1>5, <1>6, <1>7 DEF IInv

\* What stops a save, and what follows, leaves the files alone.
LEMMA StopInv == IInv /\ (Fail \/ Kill \/ Restart) => IInv' /\ UNCHANGED Register!vars
BY DEF Fail, Kill, Restart, fileVars, IInv, TypeOK, Contents, TargetsSynced,
       TmpApart, Progress, Saving, Synced, LatestSaveKept, Loaded, Register!vars

\* Writing a file back changes nothing of a target, which is synced.
LEMMA WriteBackFileInv ==
  ASSUME IInv, NEW i \in Inodes, WriteBackFile(i)
  PROVE  IInv' /\ UNCHANGED Register!vars
<1>1. /\ UNCHANGED <<pc, attempt, saved, cached, names, entries>>
      /\ stored' = [stored EXCEPT ![i] = cached[i]]
  BY DEF WriteBackFile, procVars
<1>2. \A dir \in {names, entries} : dir["target"] # NoInode =>
        /\ cached'[dir["target"]] = cached[dir["target"]]
        /\ stored'[dir["target"]] = stored[dir["target"]]
  BY <1>1 DEF IInv, TypeOK, TargetsSynced, Synced, Names
<1>3. /\ TargetsSynced' /\ TmpApart' /\ LatestSaveKept'
      /\ UNCHANGED Register!vars
  BY <1>1, <1>2, TargetsUntouched DEF Register!vars
<1>4. TypeOK'
  BY <1>1 DEF IInv, TypeOK, Contents
<1>5. Progress'
  BY <1>1 DEF IInv, TypeOK, Progress, Saving, Names
<1> QED
  BY <1>3, <1>4, <1>5 DEF IInv

\* Writing the directory back puts the visible target on the disk.
LEMMA WriteBackDirectoryInv ==
  IInv /\ WriteBackDirectory => IInv' /\ Register!Persist
BY DEF WriteBackDirectory, procVars, IInv, TypeOK, Contents, TargetsSynced,
       TmpApart, Progress, Saving, Synced, LatestSaveKept, Loaded, Register!Persist

\* A loss of power takes the register back to what is on the disk.
LEMMA PowerLossInv == IInv /\ PowerLoss => IInv' /\ Register!PowerLoss
<1> SUFFICES ASSUME IInv, PowerLoss
             PROVE  IInv' /\ Register!PowerLoss
  OBVIOUS
<1>1. /\ pc' = "down" /\ cached' = stored /\ names' = entries
      /\ saved' = Loaded(entries, stored)
      /\ UNCHANGED <<attempt, stored, entries>>
  BY DEF PowerLoss
<1>2. TargetsSynced' /\ TmpApart' /\ Progress'
  BY <1>1 DEF IInv, TargetsSynced, Synced, TmpApart, Progress, Saving
<1>3. TypeOK'
  BY <1>1, FileAssumption DEF IInv, TypeOK, TmpApart, Names, Contents, Loaded
<1>4. LatestSaveKept' /\ Register!PowerLoss
  BY <1>1 DEF LatestSaveKept, Loaded, Register!PowerLoss
<1> QED
  BY <1>2, <1>3, <1>4 DEF IInv

LEMMA NextInv == IInv /\ [Next]_vars => IInv' /\ [Register!Next]_(Register!vars)
<1> SUFFICES ASSUME IInv, [Next]_vars
             PROVE  IInv' /\ [Register!Next]_(Register!vars)
  OBVIOUS
<1>1. CASE BeginSave
  BY <1>1, BeginSaveInv
<1>2. CASE Write \/ Flush \/ Sync
  BY <1>2, WriteInv
<1>3. CASE Rename
  BY <1>3, RenameInv DEF Register!Next
<1>4. CASE Fail \/ Kill \/ Restart
  BY <1>4, StopInv
<1>5. CASE \E i \in Inodes : WriteBackFile(i)
  BY <1>5, WriteBackFileInv
<1>6. CASE WriteBackDirectory
  BY <1>6, WriteBackDirectoryInv DEF Register!Next
<1>7. CASE PowerLoss
  BY <1>7, PowerLossInv DEF Register!Next
<1>8. CASE UNCHANGED vars
  BY <1>8 DEF vars, procVars, fileVars, IInv, TypeOK, Contents, TargetsSynced,
              TmpApart, Progress, Synced, LatestSaveKept, Loaded, Register!vars
<1> QED
  BY <1>1, <1>2, <1>3, <1>4, <1>5, <1>6, <1>7, <1>8 DEF Next

THEOREM Invariance == Spec => []IInv
  BY InitInv, NextInv, PTL DEF Spec

-----------------------------------------------------------------------------
\* Every variable keeps its range, and the temporary name never leads to the
\* file the target leads to.
THEOREM TypeCorrect == Spec => []TypeOK
<1>1. IInv => TypeOK
  BY DEF IInv
<1> QED
  BY <1>1, Invariance, PTL

\* Wherever a save is cut short, by the end of the process or of the power,
\* the snapshot is whole (src/snapshot.rs: the temporary file is synced
\* before it is renamed).
THEOREM NeverTornHolds == Spec => []NeverTorn
<1>1. IInv => NeverTorn
  BY DEF IInv, TargetsSynced, Synced, NeverTorn
<1> QED
  BY <1>1, Invariance, PTL

\* A save that returned Ok is what the next process starts from, unless the
\* power failed (src/snapshot.rs: save writes to nothing but the temporary
\* file).
THEOREM LatestSaveAlwaysKept == Spec => []LatestSaveKept
<1>1. IInv => LatestSaveKept
  BY DEF IInv
<1> QED
  BY <1>1, Invariance, PTL

\* The snapshot file is an atomic register that a loss of power can take
\* back to an earlier replacement and nothing can tear.
THEOREM Refinement == Spec => ImplementsAtomicFile
<1>1. Init => Register!Init
  BY FileAssumption DEF Init, Register!Init, Loaded, Names
<1> QED
  BY <1>1, NextInv, Invariance, PTL DEF Spec, ImplementsAtomicFile, Register!Spec

=============================================================================
