# Verification of kubeloupe

kubeloupe is a small Prometheus stand-in for one Kubernetes cluster: it scrapes
the kubelets, keeps a day of samples in memory, snapshots them to disk and
answers a subset of PromQL. These TLA+ modules model its core, TLC checks them
on small instances and TLAPS proves the properties that matter most for every
value of the constants. Paths below are relative to the repository's `src/`.

Contents: [Inventory](#inventory) · [Modules](#modules) ·
[Runs](#runs-and-what-they-show) · [Fairness](#fairness) · [Proofs](#proofs) ·
[Divergences](#divergences-from-the-documentation) ·
[Not modelled](#what-is-not-modelled-and-why) · [Plan](#plan)

## Inventory

One process, one thread (`tokio`, `flavor = "current_thread"`), three kinds of
tasks: `main`, the collector it spawns, and one handler per HTTP request. They
share one thing, the store, behind tokio's fair read-write lock.

| component | state it keeps | operations | hard about it | correct if |
| --- | --- | --- | --- | --- |
| sample store, `store.rs` | map from label set to series; a series is sealed chunks and a raw head; index from metric name to keys | append, seal, prune, value_at, range_at, insert_series, insert_chunked | long sequences of appends, gaps, seals and prunes under a wall clock that may step; two structures to keep in agreement | order is kept, index and map agree, nothing in the window is lost, the overhang is bounded, reads are exact |
| chunk codec, `chunk.rs` | none | encode, decode | machine integers, run lengths | decode inverts encode |
| snapshot, `snapshot.rs` | two files | save, load | failure and power loss at each call; the loader's own consistency checks; two layouts | the target is always a whole snapshot, the daemon's own file is never refused, loading is pruning |
| collector loop, shutdown, restart, `main.rs` | `last_snapshot`, ticker, the lock | pass, snapshot, signal, abort, final save, restore | interleaving with queries, synchronous disk writes on the only thread, kills, an API server that fails or hangs | bounded loss on a kill, a final snapshot of a store at rest; queries are answered; a signal ends the process |
| collection pass, `collect.rs` | pod list held between passes, with its age and whether it is stale | refresh, resource samples, scrape of each node | the cluster changes between the calls of a pass; each call can fail | series keep their labels, a deleted pod is forgotten wherever the clock is set, no needless refetch |
| PromQL, `promql/` | none | lex, parse, eval, query_range | escapes, precedence, two places for `by`; counter resets, labels that stop being unique once a name is dropped | one tree per query, the one of the grammar; no series lost or counted twice; one answer |
| HTTP, `api.rs`, `discovery.rs` | none | range, instant, labels, series, label values | reads `now` before it waits for the lock; 64-bit times from a client | a late answer is the same answer; the loop over instants ends; discovery offers what a query shows |
| Kubernetes client, `kube.rs` | a connection pool | nodes, pods, node_stats; parse_quantity | I/O | every call returns within 20 s |

How they interact: the collector takes the write lock for a whole pass
(`collect`, then `prune`, also after an error), drops it, and takes the read
lock for a snapshot when one is due. A handler takes the read lock, evaluates
and lets go without awaiting anything in between. On SIGTERM `main` aborts the
collector, which drops its guard at whichever await it is, takes the read lock
and saves a last time. The next process loads the file before it starts.

The hazards this leads to are listed with their lines in `PROJECT.json`, each
with the properties aimed at it or the reason there is none yet.

## Modules

| module | models | |
| --- | --- | --- |
| `SeriesData` | one series, as pure operators: `Push` (append and seal), `PruneSeries`, `Accepts`, `WellFormedSeries` | `store.rs:42-235`, `chunk.rs:49-128` |
| `SeriesQuery` | `ValueAt`, `RangeAt` and their reference definitions over the set of samples | `store.rs:69-123` |
| `SampleStore` | the store as the collector drives it | extends `SeriesData` |
| `SeriesLog` | what the store promises: an append-only log per series that forgets only from its old end and only what has aged out | abstract |
| `RestoredStore` | the store with what `save` writes of it and what `load` makes of that | extends `SampleStore` |
| `SnapshotFile` | `save` call by call over a file system with a page cache | `snapshot.rs:65-122` |
| `AtomicFile` | a register that is replaced at once, and that a loss of power can take back to an earlier replacement | abstract |
| `Daemon` | tasks, lock, snapshots, signals, kills, restarts | `main.rs:76-246`, `api.rs` |
| `ChunkCodec` | the bytes of a chunk: `EncodeChunk`, `DecodeChunk`, and `Accepted`, the chunks `load` takes | `chunk.rs`, `snapshot.rs:171-203` |
| `ChunkInputs` | what the codec is given: sealed samples, bytes of any kind, damaged chunks | extends `ChunkCodec` |
| `PodCache` | a collection pass over a changing cluster | `collect.rs` |
| `PromQL` | the syntax tree, and what a matcher matches | `promql/mod.rs` |
| `PromLexer`, `PromParser` | the tokeniser, character by character; the recursive descent, token by token | `promql/parser.rs` |
| `PromGrammar` | what the parser promises: the trees the documented grammar derives a query from | abstract |
| `PromSelect` | the store as queries find it: samples have readings, a selector picks series by their labels | extends `SeriesQuery`, `PromQL` |
| `PromVector` | what a query reads of the store: instants and rates | `eval.rs:31-70`, extends `PromSelect` |
| `PromEval` | the rest of an evaluation: sums, joins, arithmetic | extends `PromVector` |
| `Discovery` | labels, label values and series, as offered | `discovery.rs`, extends `PromSelect` |
| `RangeRequest` | the instants of a range query, in words that wrap | `api.rs:80-99`, `eval.rs:188-219` |
| `QueryApi` | what the handlers answer | extends `PromEval`, `Discovery`, `RangeRequest` |
| `MC…` | the small instances of each for TLC; `MCInputs` also grows the texts for the tokeniser and the parser | |
| `ProofBasics` | what the proofs need of numbers, loops, sums in any order and common divisors | |
| `SampleStoreProofs`, `RestoredStoreProofs`, `QueryProofs`, `ChunkProofs`, `DaemonProofs`, `SnapshotFileProofs`, `PodCacheProofs` | theorems and proofs | |

`SampleStore` implements `SeriesLog`, and `SnapshotFile` implements
`AtomicFile`, each by an `INSTANCE … WITH` a refinement mapping.
The modules share no state where the code shares none. `SeriesData` takes from
`ChunkCodec` that a chunk decodes to the samples it was made of. `Daemon` uses
two facts about other modules as abstractions: a snapshot replaces the file at once
(`SnapshotFile` shows it does as long as the power stays on), and loading
leaves what pruning would (`RestoredStore`).

### Store

A sample is its timestamp: no operation of the store looks at a value. A chunk
is its header (`first_t`, `last_t`) and what it decodes to, kept apart so that
the code's reliance on the header can go wrong. `partition_point` is `Boundary`:
on a sequence that is not ordered, as on a slice that is not, it may return any
boundary. The bag `byName[n]` is the `Vec` of keys under a name, counting
duplicates; its order decides nothing. A pass is `BeginPass` (the clock is
read), any number of `AppendExisting` / `AppendNew`, and `EndPass` (prune);
an API outage is a pass without appends. The clock may step back, stand still
or jump between passes, at most `MaxGap` ahead of the latest pruning.

`RestoredStore` adds the file. `KillAndRestart` loads the latest file at any
reading of the clock; `StopAndRestart` saves the store as it is, a pass cut in
half included, and loads that. The initial file is absent or of version 1, the
raw layout, which the loader packs into chunks by count alone. Its histories
are ascending (`OldHistoriesAssumption`): they were written by the daemon. That is why
`ChunksSpanCapped` is claimed of a store that was not loaded from such a file
only.

### Chunk codec

Pure operators, one for each function of `chunk.rs`. The `&mut &[u8]` that the
code reads from is the input and how much of it has been read (`at`); what bails
yields the empty set, and the `?` is `Then`. `ChunkInputs` grows the inputs
sample by sample and byte by byte, and damages what was encoded. The integers have `WordBits` bits, so the sums and differences that the code checks
do overflow. A byte of a varint carries `PayloadBits`, so that some take two
bytes and some are too long. A float is an integer, in units of
`Radix^-MaxScale`, taken to come back at every scale that leaves no fraction of
it, or a model value that comes back at none (negative zero) or is not finite.
What rounding in `f64` does beyond that is not modelled. A raw float is one
element of the stream instead of eight bytes. The decoder's bound on a run
(`chunk.rs:282`) only decides how soon it fails, as the total is checked at the
end; that the sum may wrap, and the process run out of memory, is a listed
hazard.

### Snapshot file

The steps of `save` are `BeginSave` (create the temporary file, truncating one
that is left over), `Write`, `Flush`, `Sync`, `Rename`; `Fail` is an error at
any of them, `Kill` the end of the process between any two. The file system has
contents and a directory, each both as processes see them and as the disk has
them; `WriteBackFile` and `WriteBackDirectory` bring the disk up to date
in any order, and `PowerLoss` makes the disk's version the only one. A
rename reaches the disk whole or not at all, which is what a journal gives. A
directory without a journal is outside the model.

### Daemon

The store is the set of clock readings of the passes it holds. `queue` and
`granted` are tokio's `RwLock`: first come, first served, a writer alone.
`ThreadFree` says that no task is in the middle of a synchronous file write:
while one is, only the clock, signals and kills go on. Where a guard is held
across an await there are two actions (`StartPass`/`EndPass`); where
the code holds it for a stretch without an await, as a query does, there is one.
A connection outlives the server that `main` drops on a signal, so queries arrive
until the process is gone. `JoinHandle::abort` only asks: the collector is dropped
in a step of its own (`DropCollector`), and `NothingMidWrite` is what the lock
makes of the comment at `main.rs:121`.
The ticker goes by the time that passes (`clock`), `now()` reads the system's
clock, which `SetBack` may set back, by `MaxSetBack` in all. While it catches up
no snapshot is due, since the difference to `last_snapshot` is negative: the
properties say what that costs. `setBack`, `passBack` and `savedBack` (how far
the clock had been set back when the latest pass and the latest snapshot read
it) are history variables.

### Collection pass

`pc` is where `collect` is; between any two of its calls `Cluster` may create,
start, resolve, stop or delete pods. A pod is in the API server before its
container runs and after it has stopped (graceful deletion). A pod has one
container; a container that is not in `Listed` is a native sidecar, which the
deserialised `PodSpec` has no field for; such a container makes every list stale
and every scrape a refetch, which is why `IntervalGoverns` is about clusters
without one. `wrong` counts how many samples in a
row went to a series labelled with another image than the pod's, `changed` says
whether anything in the cluster has moved since the list was fetched, `newest`
what the latest reading of any pass was, `deletedAfter` what it was when a pod was
deleted: history variables, which no action's guard reads. There is no clock but
the readings: `BeginPass` reads any time, the same as the last or an earlier one
too, since `collect.rs:74` compares readings of the system's clock, which may be
set back. A clock that is set back has a held list kept for the interval and what
it was set back by: a list of 1000, a clock put to 800, and a pod deleted at 810
still gets a sample at 1290. No bound on the time since the deletion holds then,
and `DeletedPodForgotten` does not claim one. It bounds the samples by what passes
had read before the deletion (here 1000, plus the interval of 300), which is the
time of the deletion at the latest when the clock was left alone. `resourceAt` is
the newest time a series was given, as the store refuses a sample no newer than
that. `world` is fixed for a
behaviour and says which calls may fail in it, which images its pods may name and
what the clock may read.
`WindowIsOneScrape` is the comment's claim, `SettledAfterOneScrape` the worlds
it holds in.

### Queries

`PromQL`, `PromLexer` and `PromParser` follow the code function by function. A
function that bails yields the empty set, so the `?` of the code is `Then`. The
parser's texts are model values and a regular expression is known by the
values it matches; the tokeniser's texts are sequences of characters.
`PromGrammar` derives trees by splitting a run of tokens anywhere, and so
shares no order of reading with the parser it is compared to.

`PromSelect` gives every sample a reading, a whole number, and every key its
labels. Of two equalities on `__name__` the last one goes to the index and the
other one is forgotten (`Overridden`), as in the code. A float is a fraction, with infinities and NaN.
`EvalOne` is one call of `eval`, given the values of its operands, and `Eval` the
recursive function it makes on `Exprs`: any set of expressions that has the
operands of its members, each with a `Depth`, since an `Expr` is a finite tree.
Written so, rather than as a `RECURSIVE` operator, it can be proved about.
The order of a vector is left out. It decides
one thing, which of two entries with the same labels a join finds, so an
evaluation yields the set of its possible outcomes, and `NamedAnswersDetermined`
says when there is just one: for the expressions of `Named`, whose selectors name
their metrics, at any depth. A range query chooses one of the outcomes at each
instant. `QueryApi` has the handlers as operators, since
they change nothing; how they wait for the lock is in `Daemon`. Queries see
the store between passes, as the lock has it.

`RangeRequest` has sums and differences that wrap at `Half`, as they do in the
release build.

## Runs and what they show

| run | instance | shows |
| --- | --- | --- |
| `store_series` | one series, 3 samples or a span of 3 to a chunk, window 3, clock 0–10 | `HeadsBelowCaps`, `ChunksSpanCapped`, `AgedOutSeriesGone`, `RetentionCeiling`, `QueriesExact` |
| `queries` | three series of two metrics, a counter that resets, chunks of 2, window 2, clock 0–3; selectors, rates, sums, joins, range queries | of the store: `TypeOK`, `SeriesWellFormed`, `IndexConsistent`, `ImplementsLog`; of the answers: `SelectionByLabels`, `RateCorrected`, `SumCountsEach`, `NamedAnswersDetermined`, `SampledIsOffered`, `PastAnswersKept` |
| `store_overhang` | one series, clock 0–9 | violation of `OverhangCapped` |
| `store_restarts` | one series, chunks of 2, four version 1 histories or no file, clock 0–6 | `OwnSnapshotLoads`, `LoadMatchesPrune`, `LoadKeepsWindow`, `SeriesWellFormed` |
| `file_safety` | four saves, four inodes (symmetric) | `TypeOK`, `NeverTorn`, `LatestSaveKept`, `ImplementsAtomicFile` |
| `file_power_loss` | two saves | violation of `SavedSurvivesPowerLoss` |
| `daemon_safety` | two handlers (symmetric), snapshot every 3, clock 0–6, set back by up to 2 | `TypeOK`, `LossBounded`, `NothingMidWrite`, `OutageStillAges`, `FailedSaveRetried` |
| `daemon_live` | two handlers, clock 0–3, `FairSpec` | `QueriesAnswered`, `SignalStops` |
| `daemon_loss` | one handler, clock never set back | violation of `LossWithinInterval` |
| `inputs` | chunks: words of 4 bits, bytes of 2 bits and a flag, scales 1 and 2; up to four samples, any five bytes, any byte replaced in a chunk of three. Queries: four alphabets of tokens and short runs of them, up to six or seven; up to four of eleven characters | `CodecLossless`, `AcceptedIsWhole`, `ParserMatchesGrammar`, `LexerFaithful` |
| `pods` | one node, two containers, interval 2; `Steady`: an image for life for each, `now()` 0, 1 or 3, calls for nodes and stats may fail; `Rough`: images change, `now()` 0 or 2, every call may fail | `TypeOK`, `ListHeld`, `SettledAfterOneScrape`, `DeletedPodForgotten`, `NamedStaysNamed`, `IntervalGoverns` |
| `pods_renamed` | two nodes, interval 3, images change, nothing fails | violation of `WindowIsOneScrape` |

Every property of a passing run has a mutant in `PROJECT.json`: a bug of a
plausible kind in one of the mapped definitions, under which the same run finds
the property violated. The variants stand next to what they are variants of.

### Bounds

Every bound is a constant and marked as one where it is declared. `MaxTime`
caps the clock (in `PodCache` the readings of a world do); the instances let it run several windows (`store_series`:
three), so that chunks are sealed by length and by span, age out whole and
leave series that come back. Retention, intervals and chunk sizes are small but
keep the code's relations: a window holds several samples, a chunk's span is a
fraction of the window, a snapshot is taken every few passes. `MaxGap` is the
longest time from one pass to the next, and appears in the properties that
depend on it. `queries` needs three keys because a wrong removal shows only in
a bucket with two keys beside another bucket, and because a join needs a partner
and one that is none. Its `Readings` say what a series may read at which time:
enough for a counter to grow, stand still and reset, and for a gauge to miss
passes. `Exprs`, `Matchers`, `Clauses` and `Asked` are the queries it
asks: two of the shape Lens sends, with all their parts (`Named`), and one selector
without a name; each kind of expression and of matcher is among them. `MaxLength` caps the
inputs, each sort by what its hardest case needs: seven tokens for an operator
inside brackets between two others, six for two matchers or for a `by` on either
side of a sum, seven for a rate with all its brackets. A clock that is set back
by two of six (`MaxSetBack`) falls behind a snapshot and catches up again; in
`daemon_live` and `daemon_loss` it is not set back at all. Three readings and an
interval of two let `Steady` keep a list, refresh it, and be set back by more than the
interval in between. Four inodes are enough because
two directories of two names refer to no more. Four saves let one be
truncated, one be renamed, one be lost and one follow. The proofs make the bounds
of what they cover immaterial.

## Fairness

Only `daemon_live` needs any. `ExecutorFairness`: weak fairness for the steps
that stay enabled until they happen (the next pass, the return from a file
write), strong for the steps of tasks that have what they wait for but share
the thread with others, which is what tokio's run queue gives each task that is
woken. `QueriesAnswered` has one more premise, `PassesEnd`, since `kube.rs`
gives every call 20 seconds; `SignalStops` does without, so that an API server
which never answers cannot keep the process from stopping. Nothing is assumed
of signals, kills, restarts or of requests arriving, and a save may fail every
time.

## Proofs

Every theorem is `Spec => …` over constants that satisfy the named
assumptions, which are the clamps of `Config::from_env` and the shape of the
instance; TLC evaluates them in every run.

- **`ProofBasics`**: the technique for loops and sums. The induction rules of the
  library take an operator, which the provers cannot instantiate; so an induction
  is over a set of numbers, `{i \in 0..n : …}` (`Ascent`, from the well-foundedness
  of `<`). A loop of the code is a recursive function on `0..n`, hence a `CHOOSE` of
  one that satisfies the equations; `LoopExists` says there is one, whatever the
  round, and from then on the equations are facts; `DescentExists` is its like for
  a value that is made from one at any smaller number, as a varint is from what is
  left of it after a shift. `FoldExists` and `FoldAddsUp` do the same for the folds over
  sets of the community modules, whose order is a `CHOOSE`: of an addition that is
  commutative and associative (`IsAddition`), the order does not matter. Sums of
  integers are one instance, those of floats another. `DivisorMadeOfThem` is Bézout's
  identity, from the well-foundedness of `<` again.
- **`SampleStoreProofs`**: first the lemmas about the operators. `BoundaryFound` (what
  `partition_point` returns on an ordered sequence), `PushSound`, `PruneCuts`
  and `PruneSound`: from a well formed series, pushing a newer timestamp adds
  exactly it, and pruning removes only what has aged out and everything that is
  in a chunk or part of the head that has. Both keep the order and the caps.
  Then the properties, of which none is inductive. `IInv` joins the
  type, every series being well formed, below the caps and spanned by
  `Retention + MaxGap` (`SeriesSound`), `IndexConsistent`, and `Recent`: during
  a pass a head holds what the latest pruning left in it and at most the
  sample of this pass. `RetentionCeiling` follows, as a chunk is kept for its
  newest sample and its oldest was in the window when the head was last pruned.
  Then the refinement, `Spec => ImplementsLog`: an append adds its
  timestamp to what a series holds, and nothing else (`PushTimes`); what is held
  after pruning is an upper part of what was held, with everything in the window
  (`PruneTimes`). Every step of a pass is a step of the log or a stutter.
- **`RestoredStoreProofs`**: the same store with a file, restarts and kills.
  The invariant adds what is said of the file: it is absent, or a version 1 file
  whose histories are in order, or what `save` made of a well formed store. The
  loops of the loader, over the chunks, the raw samples and the runs it packs
  them into, each keep the order (`Takes` skips what is not newer), so what is
  loaded is well formed (`SeriesWellFormed`), the daemon's own file is never
  refused (`OwnSnapshotLoads`), loading it leaves exactly what pruning the store
  would have (`LoadMatchesPrune`), and no file, of either version, loses a sample
  inside the window (`LoadKeepsWindow`).
- **`QueryProofs`**: first the two reads. `QueriesExact`: the newest sample of the
  head is that of the series (`HeadHasNewest`), else that of the last chunk to
  start in time is (`LastStartedHasNewest`), as chunks do not overlap; the chunks
  that a window touches, flattened, filtered and joined with a slice of the head,
  are its samples in order (`DecodedInOrder`, `WindowOfHead`). Then the selectors:
  `SelectionByLabels` from `IndexConsistent` and from what `selector_from` does
  with a list of matchers of any length (`SelectorLoop`, `SelectorTakesAll`).
  `SampledIsOffered`: the first timestamp of a well formed series is its oldest,
  the last its newest (`EndsOfSeries`). `RateCorrected`: the loop of `rate` telescopes,
  and what does not cancel is one reading per reset (`GrowthWithResets`); that the
  readings are numbers is an invariant of its own (`ReadingsTyped`).
  `PastAnswersKept`: instants and rates are functions of the samples that are held
  and of their readings (`InstantsOfHeld`, `RatesOfHeld`), of which a step of a pass
  changes none that is older than its clock and inside its window (`KeepsReach`),
  by the refinement of the log. `AdmittedEnds`: a request that is let in is
  evaluated at `MAX_POINTS + 1` instants at most, and then the loop ends. Its
  premises are that the span and the last step fit a word; without them neither
  the check nor the loop can be relied on (see below).
  Then sums and whole expressions. Fractions in lowest terms, infinities and NaN
  form an addition (`FloatsAdd`; that lowest terms are unique is Bézout's identity
  again), so a total does not depend on the order, and those of two disjoint parts
  add up (`TotalOfUnion`): a sum keeps the total of what it groups, entries with
  the same labels included (`SumKeepsTheTotal`). `eval` is defined because the
  depth decreases (`EvaluationsExist`, `EvaluationsAgree`, `EvalUnfolds`), and an
  induction over depth shows that every value is a float or a finite set of entries
  with floats (`EvaluationsAreValues`), hence `SumCountsEach`. Series of one name
  have labels that differ without it, sums have one entry a group, arithmetic keeps
  labels, and so, again by depth, the entries of a named expression have labels of
  their own (`NamedEvaluationsAreClear`). A join then has one map to look its
  partners up in, so each step has one outcome, and so has a range query, at each
  instant: `NamedAnswersDetermined`. Assumed are that `Exprs` and `Named` are closed
  under operands, that the selectors of `Named` name a metric, that labels are maps
  of strings with the name among them, and that requests are let in at `MaxTime`.
- **`ChunkProofs`**: `CodecLossless`, for samples of any number and value, words of
  any width, bytes of any payload and any radix. A varint comes back
  (`UvarintComesBack`): its payloads are the digits of the number, so they add up
  again, and there are too few for the shift to leave the word (`PutRounds`). Pieces
  that are flattened are found again one after the other (`PiecesHaveTheirPlaces`),
  hence a stream in either layout is (`PlainComesBack`, `RunsComeBack`, where the
  runs are known by where they end), and so either layout may be the shorter one
  (`StreamComesBack`). Differences telescope, twice (`DifferencesAddUp`,
  `SecondDifferences`); on the way the decoder meets the sums the encoder started
  from, so its overflow checks pass because the encoder's did. A value taken at a
  scale has no fraction there and is within the limit, hence in the word
  (`ValueAtScale`); a chunk whose values are not, or whose differences overflow, is
  raw. `ChunkInv` is what the codec may rely on: what is sealed is ascending, its
  clock readings are words that are not negative, and it is no longer than a word
  counts (`InputsAssumption`). `AcceptedIsWhole`: whatever the bytes, what comes out
  of a stream has the length that was asked for (`StreamIsWhole`), and both value
  layouts then yield as many samples as the header says (`DecodedIsWhole`).
- **`DaemonProofs`**: `LossBounded` needs the order of the latest snapshot, the
  latest pass and the clock in the time that passes, however the clock that is
  read was set back in between (`Ordered`); that whatever is not on disk came
  after that snapshot, give or take that (`LostIsRecent`); and that a pass that
  is over leaves no snapshot overdue unless saving fails (`NotOverdue`,
  `StaysOverdue`). The lock does not enter the argument: who waits for it only
  decides when the steps happen. It does enter `TypeOK`, and `NothingMidWrite`: the
  collector is in the queue at most once and not while it has the lock (`QueueInv`),
  so what the lock hands out is a prefix of the queue (`AdmittedPrefix`), a writer is
  alone (`WriterAlone`), and the final save has the lock (`ExclusionInv`).
- **`SnapshotFileProofs`**: no call touches a file that has the target's name in
  either directory (`TmpApart`), and a file that gets the name has been synced
  (`TargetsSynced`, `Progress`). This gives `NeverTorn`, `LatestSaveKept` and,
  step by step, the refinement theorem `Spec => ImplementsAtomicFile`.
- **`PodCacheProofs`**: `ListHeld`; `NamedStaysNamed`, since the list that is
  held has every container whose latest sample is named and whose pod is still
  there (`NamedAreHeld`); `DeletedPodForgotten`, since a pod that is gone but
  still in the list was deleted after the list was fetched, so some pass had read
  the time the list is dated with by then (`HeldOutlived`), and a list is kept only
  by passes that read less than that and one interval.
  `SettledAfterOneScrape` needs a second invariant, `Labelled`: a container
  that was mislabelled is named by the held list, or the list is stale, or will
  be at the end of the pass (`SettledSoon`). `IntervalGoverns` needs a third: as long
  as nothing has changed since the list was fetched, it names every container
  that a kubelet can report, and so no scrape makes it stale.

Only model-checked:

- liveness, `QueriesAnswered` and `SignalStops`: TLAPS has no rule for fairness
  here, nor for `ENABLED`;
- tokeniser and parser (`LexerFaithful`, `ParserMatchesGrammar`): their operators
  call each other recursively, on runs of characters and of tokens, which takes
  `RECURSIVE` declarations, and with them the provers lose arithmetic. The grammar
  they are compared with is recursive too.

## Divergences from the documentation

Each but the third is a run that TLC ends with a counterexample, and a finding in
`PROJECT.json` with the lines it is about.

- **Overhang** (`store_overhang`): the span cap is tested after the new sample
  has joined the head, so a series that was silent is sealed across the silence
  and its oldest samples outlive the window by up to another window, where the
  comment has the capped span. `RetentionCeiling` is what holds instead.
- **Loss on a kill** (`daemon_loss`): `SNAPSHOT_INTERVAL_SECONDS` is not an
  upper bound; one gap between passes comes on top. `LossBounded` is what holds.
- **Blocking** (no run of its own): the file write runs on the only thread, so
  queries do wait for it, read lock or not, where the comment at `src/main.rs:210`
  says they do not. `Daemon` has it so (`ThreadFree`).
- **Durability** (`file_power_loss`): the rename is not synced, so a loss of
  power can undo a save that returned `Ok`. The file that is left is whole.
- **Labels** (`pods_renamed`): an image that changes under a name the held list
  already knows is labelled wrongly until the interval is over, not for one
  scrape.

Smaller ones, without a run:

- `src/main.rs:43` has a scrape interval of 30 s give `rate()` two samples of a
  60 s step. A window of 60 s is open at its start, so a pass that is late by a
  second can leave one, and the rate has no value there (`RateCorrected` says
  when it has one).
- `src/discovery.rs:82` restricts discovery to series "with a sample inside the
  window". The code compares the first and the last sample, so a series with a gap
  around the window is offered as well. `SampledIsOffered` is the direction
  that holds.
- `src/api.rs:97` bounds the points of a range query by `end - start`, which wraps
  in the release build when the two are further apart than half of the words;
  so does the `t += step` of the loop next to the last word. The premises of
  `AdmittedEnds` leave these requests out.

## What is not modelled, and why

- Kubernetes client: I/O and deserialisation. What its answers tell, and that each
  call can fail or never return, is in `PodCache` and `Daemon`. `parse_quantity`
  is one match on a suffix.
- Metric values and which metrics are derived: a mapping without control.
- Configuration: its clamps are the assumptions on the constants. Deployment: its
  single replica is why one process writes the file.
- Rendering as JSON, decoding of query strings and of times, `/-/stats`: wording.
- `f64` rounding and negative zero in evaluation: fractions are exact.
- A server that ends in an error, a panic in the collector, a process without
  `SNAPSHOT_PATH`, a volume shared by two processes: left out of `Daemon` and
  `SnapshotFile`.
- A snapshot the daemon did not write, and the limits the loader puts on counts
  and lengths: left out of `RestoredStore`.

## Plan

Done, in this order: the store (`SeriesData`, `SampleStore`, `SeriesLog`,
`SeriesQuery`); `Daemon`; `SnapshotFile` over `AtomicFile` and `RestoredStore`;
`PodCache`; `ChunkCodec`; a clock that is set back; the query language, its
evaluation and the handlers; the proofs listed above, the two refinements, the
loader, the reads, the codec and whole expressions among them.

Left: `Daemon` with a server that ends in an error and a collector that panics, once
the code says what is to happen then.
