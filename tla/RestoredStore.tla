--------------------------- MODULE RestoredStore ---------------------------
(***************************************************************************)
(* The store across restarts: what src/snapshot.rs writes of it and what   *)
(* `load` makes of that at a later, or an earlier, reading of the clock.   *)
(*                                                                         *)
(* The file is represented by what it tells the loader: the version and,   *)
(* for each series, the sealed chunks as they are and the raw samples.     *)
(* That the file is there whole is the business of SnapshotFile.           *)
(***************************************************************************)
EXTENDS SampleStore

CONSTANTS
  OldHistories,  \* what a series of a version 1 file may hold
  NoFile

\* A version 1 file is a store of an earlier release: "Timestamps are
\* ascending in the file".
ASSUME OldHistoriesAssumption ==
  \A h \in OldHistories : h \in Seq(Int) /\ Ascending(h)

VARIABLE file

rvars == <<vars, file>>

\* save: every series, the chunks verbatim.
Saved == [version |-> 2, content |-> series]

\* read_raw_samples: the samples that have not aged out and are in order.
ReadRaw(samples, cutoff) ==
  LET Takes(read, t) == t >= cutoff /\ (read = <<>> \/ LastOf(read) < t)
      read[i \in 0..Len(samples)] ==
        IF i = 0 THEN <<>>
        ELSE IF Takes(read[i - 1], samples[i]) THEN Append(read[i - 1], samples[i])
        ELSE read[i - 1]
  IN  read[Len(samples)]

\* A variant with a bug, for mutation runs: a chunk with an aged-out sample
\* is dropped.
ReadChunksInWindow(chunks, cutoff) ==
  Retain(chunks, {chunk \in Chunk : chunk.first_t >= cutoff})

\* The chunks that have not aged out entirely.
ReadChunks(chunks, cutoff) ==
  Retain(chunks, {chunk \in Chunk : chunk.last_t >= cutoff})

\* A variant with a bug, for mutation runs: only full chunks are taken.
PackExact(samples) ==
  LET full == Len(samples) \div MaxChunkSamples
  IN  [chunks |-> [i \in 1..full |->
                     Encode(SubSeq(samples, (i - 1) * MaxChunkSamples + 1,
                                            i * MaxChunkSamples))],
       head   |-> <<>>]

\* Store::insert_series: all but the tail goes into full chunks; the span of
\* a chunk is not looked at.
Pack(samples) ==
  LET full == Len(samples) \div MaxChunkSamples
  IN  [chunks |-> [i \in 1..full |->
                     Encode(SubSeq(samples, (i - 1) * MaxChunkSamples + 1,
                                            i * MaxChunkSamples))],
       head   |-> DropFirst(samples, full * MaxChunkSamples)]

\* One series of the file, as the loader hands it to the store.
ReadSeries(version, ser, cutoff) ==
  IF version = 1 THEN Pack(ReadRaw(ser.head, cutoff))
  ELSE [chunks |-> ReadChunks(ser.chunks, cutoff),
        head   |-> ReadRaw(ser.head, cutoff)]

\* The loader refuses the file for a chunk that does not decode to what its
\* header says, or a head that does not follow the chunks that are left.
Refused(saved, cutoff) ==
  saved.version = 2 /\ \E k \in DOMAIN saved.content :
    LET ser  == saved.content[k]
        read == ReadSeries(2, ser, cutoff)
    IN  \/ \E c \in DOMAIN ser.chunks : ~WellFormedChunk(ser.chunks[c])
        \/ /\ read.chunks # <<>> /\ read.head # <<>>
           /\ LastOf(read.chunks).last_t >= read.head[1]

\* A variant with a bug, for mutation runs: a series of which nothing is left
\* is kept.
LoadKeepingEmptied(saved, cutoff) ==
  IF saved = NoFile \/ (saved # NoFile /\ Refused(saved, cutoff))
  THEN [k \in {} |-> EmptySeries]
  ELSE [k \in DOMAIN saved.content |->
          ReadSeries(saved.version, saved.content[k], cutoff)]

\* load and restore: without a file, or when it is refused, the store starts
\* empty; insert_chunked and insert_series skip a series of which nothing is
\* left.
Load(saved, cutoff) ==
  IF saved = NoFile \/ (saved # NoFile /\ Refused(saved, cutoff))
  THEN [k \in {} |-> EmptySeries]
  ELSE LET read(k) == ReadSeries(saved.version, saved.content[k], cutoff)
       IN  [k \in {x \in DOMAIN saved.content : ~IsEmpty(read(x))} |-> read(k)]

-----------------------------------------------------------------------------
\* Nothing was saved, or an earlier release left its snapshot.
OldFile(history) ==
  [version |-> 1,
   content |-> [k \in DOMAIN history |-> [chunks |-> <<>>, head |-> history[k]]]]

RInit ==
  /\ Init
  /\ file \in {NoFile} \cup {OldFile(h) : h \in [Keys -> OldHistories]}

\* collector_loop, after a pass.
Save ==
  /\ ~inPass
  /\ file' = Saved
  /\ UNCHANGED vars

\* A process starts at `now` from a file; index() enters each series once.
StartFrom(saved, now) ==
  LET loaded == Load(saved, now - Retention)
  IN  /\ series' = loaded
      /\ byName' = [n \in {NameOf[k] : k \in DOMAIN loaded} |->
                      [k \in Keys |->
                         IF k \in DOMAIN loaded /\ NameOf[k] = n THEN 1 ELSE 0]]
      /\ started' = now /\ pruned' = now
      /\ inPass' = FALSE

\* The process is killed, whatever it was doing, and the next one starts.
KillAndRestart(now) ==
  /\ StartFrom(file, now)
  /\ UNCHANGED file

\* The process is stopped: a pass is aborted where it is, with some of its
\* samples appended and nothing pruned, and the store is saved like that.
StopAndRestart(now) ==
  /\ file' = Saved
  /\ StartFrom(Saved, now)

RNext ==
  \/ Next /\ UNCHANGED file
  \/ Save
  \/ \E now \in 0..MaxTime : KillAndRestart(now) \/ StopAndRestart(now)

RSpec == RInit /\ [][RNext]_rvars

-----------------------------------------------------------------------------
\* The loader takes whatever the daemon has saved, at any time later or, on a
\* clock that was set back, earlier: a restart never costs the history for
\* the loader's own checks.
OwnSnapshotLoads ==
  file # NoFile => \A now \in 0..MaxTime : ~Refused(file, now - Retention)

\* "Retention applies at chunk granularity, matching the store": a store that
\* was saved and loaded is the one a pass at that time would have left.
LoadMatchesPrune ==
  file # NoFile /\ file.version = 2 =>
    \A now \in 0..MaxTime :
      LET cutoff == now - Retention
          left(k) == PruneSeries(file.content[k], cutoff)
      IN  Load(file, cutoff) =
            [k \in {x \in DOMAIN file.content : ~IsEmpty(left(x))} |-> left(k)]

\* No sample in the window is lost to a restart, and none is made up, also
\* when the snapshot is of the older layout.
LoadKeepsWindow ==
  file # NoFile =>
    \A now \in 0..MaxTime, k \in Keys :
      LET cutoff == now - Retention
          before == IF k \in DOMAIN file.content THEN Times(file.content[k]) ELSE {}
          after  == IF k \in DOMAIN Load(file, cutoff)
                    THEN Times(Load(file, cutoff)[k]) ELSE {}
      IN  /\ after \subseteq before
          /\ \A t \in before : t >= cutoff => t \in after

=============================================================================
