---------------------------- MODULE SnapshotFile ----------------------------
(***************************************************************************)
(* How a snapshot gets onto the disk and back (src/snapshot.rs, `save` and *)
(* `load`; src/main.rs, `restore`): written to a temporary file, synced,   *)
(* renamed over the target.  A save may fail at any call, the process may  *)
(* be killed between any two, and the power may fail.                      *)
(*                                                                         *)
(* A file's contents are represented by the number of the save that wrote  *)
(* them and how much of them is there.  The file system is the weakest     *)
(* POSIX one that journals its directories: contents and directory reach   *)
(* the disk independently, at any time, and contents surely only when they *)
(* are synced; a rename is on the disk entirely or not at all.             *)
(***************************************************************************)
EXTENDS Naturals

CONSTANTS
  Inodes,    \* bound: files that can exist at once; more than four never do
  NoInode,   \* where a directory has no entry
  MaxSaves   \* bound: saves are numbered 1..MaxSaves

ASSUME FileAssumption ==
  /\ NoInode \notin Inodes
  /\ MaxSaves \in Nat

Names    == {"tmp", "target"}
Nothing  == [of |-> 0, size |-> "empty"]

VARIABLES
  pc,        \* where `save` is; "idle" outside of it; "down" without a process
  attempt,   \* the number of the latest save begun
  saved,     \* the latest save that returned Ok and that no loss of power
             \* has undone
  cached,    \* Inodes -> contents, as processes see them
  stored,    \* Inodes -> contents, as the disk has them
  names,     \* the directory as processes see it
  entries    \* the directory as the disk has it

\* What a file can hold.
Contents == [of : 0..attempt, size : {"empty", "part", "whole"}]

procVars == <<pc, attempt, saved>>
fileVars == <<cached, stored, names, entries>>
vars == <<procVars, fileVars>>

TypeOK ==
  /\ pc \in {"idle", "created", "writing", "flushed", "synced", "down"}
  /\ attempt \in 0..MaxSaves
  /\ saved \in 0..attempt
  /\ cached \in [Inodes -> Contents]
  /\ stored \in [Inodes -> Contents]
  /\ names \in [Names -> Inodes \cup {NoInode}]
  /\ entries \in [Names -> Inodes \cup {NoInode}]
  /\ \A dir \in {names, entries} :
       dir["tmp"] # NoInode => dir["tmp"] # dir["target"]

\* The save a process starts from with this directory and these contents:
\* `load` rejects a file that ends early, and `restore` then starts empty,
\* as it does without a file.
Loaded(dir, contents) ==
  IF dir["target"] # NoInode /\ contents[dir["target"]].size = "whole"
  THEN contents[dir["target"]].of
  ELSE 0

-----------------------------------------------------------------------------
Init ==
  /\ pc = "idle"
  /\ attempt = 0 /\ saved = 0
  /\ cached = [i \in Inodes |-> Nothing]
  /\ stored = cached
  /\ names = [n \in Names |-> NoInode]
  /\ entries = names

Unused == {i \in Inodes : \A n \in Names : names[n] # i /\ entries[n] # i}

\* A variant with a bug, for mutation runs: the snapshot makes room for its
\* successor.
BeginSaveRemovingTarget ==
  /\ pc = "idle" /\ attempt < MaxSaves
  /\ pc' = "created"
  /\ attempt' = attempt + 1
  /\ \E i \in Unused :
       /\ names' = [tmp |-> i, target |-> NoInode]
       /\ cached' = [cached EXCEPT ![i] = Nothing]
       /\ stored' = [stored EXCEPT ![i] = Nothing]
  /\ UNCHANGED <<saved, entries>>

\* File::create of the temporary file.  One that an earlier attempt left is
\* truncated.
BeginSave ==
  /\ pc = "idle" /\ attempt < MaxSaves
  /\ pc' = "created"
  /\ attempt' = attempt + 1
  /\ \/ /\ names["tmp"] # NoInode
        /\ cached' = [cached EXCEPT ![names["tmp"]] = Nothing]
        /\ UNCHANGED <<stored, names>>
     \/ /\ names["tmp"] = NoInode
        /\ \E i \in Unused :
             /\ names' = [names EXCEPT !["tmp"] = i]
             /\ cached' = [cached EXCEPT ![i] = Nothing]
             /\ stored' = [stored EXCEPT ![i] = Nothing]
  /\ UNCHANGED <<saved, entries>>

\* The BufWriter passes on some of what it was given.
Write ==
  /\ pc = "created"
  /\ pc' = "writing"
  /\ cached' = [cached EXCEPT ![names["tmp"]] =
                  [of |-> attempt, size |-> "part"]]
  /\ UNCHANGED <<attempt, saved, stored, names, entries>>

\* out.flush()
Flush ==
  /\ pc \in {"created", "writing"}
  /\ pc' = "flushed"
  /\ cached' = [cached EXCEPT ![names["tmp"]] =
                  [of |-> attempt, size |-> "whole"]]
  /\ UNCHANGED <<attempt, saved, stored, names, entries>>

\* Variants with a bug, for mutation runs: the contents are not synced; a
\* file that could not be written to its end is renamed all the same.
SyncNothing ==
  /\ pc = "flushed"
  /\ pc' = "synced"
  /\ UNCHANGED <<attempt, saved, fileVars>>

SyncUnflushed ==
  /\ pc \in {"writing", "flushed"}
  /\ pc' = "synced"
  /\ stored' = [stored EXCEPT ![names["tmp"]] = cached[names["tmp"]]]
  /\ UNCHANGED <<attempt, saved, cached, names, entries>>

\* sync_all()
Sync ==
  /\ pc = "flushed"
  /\ pc' = "synced"
  /\ stored' = [stored EXCEPT ![names["tmp"]] = cached[names["tmp"]]]
  /\ UNCHANGED <<attempt, saved, cached, names, entries>>

\* A variant with a bug, for mutation runs: the file gets its second name
\* and keeps the first.
Link ==
  /\ pc = "synced"
  /\ pc' = "idle"
  /\ saved' = attempt
  /\ names' = [names EXCEPT !["target"] = names["tmp"]]
  /\ UNCHANGED <<attempt, cached, stored, entries>>

\* rename(), the last call of a save.
Rename ==
  /\ pc = "synced"
  /\ pc' = "idle"
  /\ saved' = attempt
  /\ names' = [tmp |-> NoInode, target |-> names["tmp"]]
  /\ UNCHANGED <<attempt, cached, stored, entries>>

\* Any of the calls fails: the volume is full or gone.  The temporary file
\* stays as it is.
Fail ==
  /\ pc \in {"created", "writing", "flushed", "synced"}
  /\ pc' = "idle"
  /\ UNCHANGED <<attempt, saved, fileVars>>

\* The kernel writes back, in the order it likes.
WriteBackFile(i) ==
  /\ stored[i] # cached[i]
  /\ stored' = [stored EXCEPT ![i] = cached[i]]
  /\ UNCHANGED <<procVars, cached, names, entries>>

WriteBackDirectory ==
  /\ entries # names
  /\ entries' = names
  /\ UNCHANGED <<procVars, cached, stored, names>>

\* The process is killed: the file system is as it was.
Kill ==
  /\ pc # "down"
  /\ pc' = "down"
  /\ UNCHANGED <<attempt, saved, fileVars>>

\* The machine loses power: what the disk has is what there is.
PowerLoss ==
  /\ pc' = "down"
  /\ cached' = stored
  /\ names' = entries
  /\ saved' = Loaded(entries, stored)
  /\ UNCHANGED <<attempt, stored, entries>>

\* The next process, which starts from Loaded(names, cached).
Restart ==
  /\ pc = "down"
  /\ pc' = "idle"
  /\ UNCHANGED <<attempt, saved, fileVars>>

Next ==
  \/ BeginSave \/ Write \/ Flush \/ Sync \/ Rename \/ Fail
  \/ (\E i \in Inodes : WriteBackFile(i)) \/ WriteBackDirectory
  \/ Kill \/ PowerLoss \/ Restart

Spec == Init /\ [][Next]_vars

-----------------------------------------------------------------------------
\* "A process killed mid-write leaves the previous good snapshot untouched":
\* wherever a save was interrupted, by the end of the process or of the
\* power, a snapshot file that is there is whole.
NeverTorn ==
  /\ names["target"] # NoInode => cached[names["target"]].size = "whole"
  /\ entries["target"] # NoInode => stored[entries["target"]].size = "whole"

\* The file is an AtomicFile: a save that fails or is cut short changes
\* nothing a reader can see, and power loss takes it back to an earlier
\* snapshot at worst.
Register == INSTANCE AtomicFile
              WITH visible <- Loaded(names, cached),
                   durable <- Loaded(entries, stored)

ImplementsAtomicFile == Register!Spec

\* Whatever has failed, was cut short or was left behind since, a process
\* starts from the latest save that returned Ok, unless a loss of power has
\* undone it.
LatestSaveKept == Loaded(names, cached) = saved

\* "A temporary file renamed over the target, then fsynced": a save that has
\* returned Ok is not undone by a loss of power.
SavedSurvivesPowerLoss == Loaded(entries, stored) >= saved

=============================================================================
