------------------------------- MODULE Daemon -------------------------------
(***************************************************************************)
(* The process (src/main.rs): the collector task, the query handlers and   *)
(* the main task on one single-threaded executor, sharing the store under  *)
(* tokio's fair read-write lock; the snapshot that survives the process;   *)
(* its restart.                                                            *)
(*                                                                         *)
(* The store is represented by the clock readings of the passes whose      *)
(* samples it holds, whichever series they are of.  A query holds the lock *)
(* for no await, so its read is one step.  Writing a snapshot is           *)
(* synchronous: it takes time, during which the clock advances, signals    *)
(* arrive and the process may be killed, but no other task runs.  To the   *)
(* file system the snapshot is replaced at once, by the rename.            *)
(*                                                                         *)
(* There are two clocks.  The ticker goes by the time that has passed;     *)
(* now() reads the system's, which may be set back.                        *)
(***************************************************************************)
EXTENDS Integers, Sequences, FiniteSets

CONSTANTS
  Queries,           \* query handlers, each for one request at a time
  Collector, Main,   \* the other two tasks
  Retention,         \* RETENTION_HOURS
  ScrapeInterval,    \* SCRAPE_INTERVAL_SECONDS
  SnapshotInterval,  \* SNAPSHOT_INTERVAL_SECONDS
  MaxGap,            \* bound: from one pass reading the clock to the next:
                     \* the interval, the pass itself and what delays it
  MaxTime,           \* bound: the time that passes
  MaxSetBack         \* bound: how far the system's clock is set back in all

\* from_env clamps the intervals to at least 1.
ASSUME DaemonAssumption ==
  /\ Retention \in Nat
  /\ ScrapeInterval \in Nat \ {0}
  /\ SnapshotInterval \in Nat \ {0}
  /\ MaxGap \in Nat /\ MaxGap >= ScrapeInterval
  /\ MaxTime \in Nat /\ MaxSetBack \in Nat
  /\ Collector # Main /\ Collector \notin Queries /\ Main \notin Queries

Tasks == Queries \cup {Collector, Main}

VARIABLES
  clock,         \* the time that has passed
  setBack,       \* how far the system's clock has been set back
  collector,     \* where collector_loop is
  main,          \* where main is
  queue,         \* tasks waiting for the lock, in the order of their requests
  granted,       \* tasks that have it
  mem,           \* passes held in memory; of a dead process, when it died
  disk,          \* passes in the snapshot file
  started,       \* the reading of now() of the current or the latest pass
  nextTick,      \* when the ticker fires next
  lastSnapshot,  \* last_snapshot
  passBack,      \* setBack when `started` was read
  savedBack,     \* setBack when `lastSnapshot` was read
  saveFailed,    \* has the latest attempt to save in the loop failed?
  sigterm        \* has a signal arrived that main has not seen?

lockVars == <<queue, granted>>
timeVars == <<clock, setBack>>
loopVars == <<started, nextTick, lastSnapshot, passBack, savedBack, saveFailed>>
vars == <<timeVars, collector, main, lockVars, mem, disk, loopVars, sigterm>>

\* now(), and what it can have been.
Now     == clock - setBack
Reading == {t \in Int : t + setBack \in Nat}

TypeOK ==
  /\ clock \in Nat /\ setBack \in Nat
  /\ collector \in {"sleep", "pass", "due", "saving"}
  /\ main \in {"serving", "stopping", "saving", "down"}
  /\ queue \in Seq(Tasks)
  /\ granted \subseteq Tasks
  /\ mem \subseteq Reading
  /\ disk \subseteq Reading
  /\ started \in Reading
  /\ nextTick \in Nat
  /\ lastSnapshot \in Reading
  /\ passBack \in Nat /\ savedBack \in Nat
  /\ saveFailed \in BOOLEAN
  /\ sigterm \in BOOLEAN

Running == main # "down"

\* No task runs while one of them is in the file system.
ThreadFree == Running /\ collector # "saving" /\ main # "saving"

\* Without its oldest samples, as Store::prune and snapshot::load leave it.
Within(passes, now) == {t \in passes : t >= now - Retention}

-----------------------------------------------------------------------------
\* tokio::sync::RwLock: first come, first served.  Only the collector writes,
\* and only in a pass; w tells whether its request is that one.

\* The places in q of those who get the lock beside those that have it: the
\* writer alone, or the readers ahead of it.
Admitted(q, holders, w) ==
  LET writes(task) == w /\ task = Collector
  IN  IF \E h \in holders : writes(h) THEN {}
      ELSE IF q # <<>> /\ writes(Head(q)) THEN IF holders = {} THEN {1} ELSE {}
      ELSE {i \in 1..Len(q) : \A j \in 1..i : ~writes(q[j])}

\* The lock is left to `holders`, and q waits for it.
Settle(q, holders, w) ==
  LET places == Admitted(q, holders, w)
  IN  /\ granted' = holders \cup {q[i] : i \in places}
      /\ queue' = SubSeq(q, Cardinality(places) + 1, Len(q))

\* Of requests that change nothing about the collector's.
PassPending == collector = "pass"

Waiting(task) == task \in granted \/ \E i \in DOMAIN queue : queue[i] = task

\* A queue, when a task gives up its place in it.
Without(q, task) ==
  LET places == {i \in 1..Len(q) : q[i] = task}
      i      == CHOOSE x \in places : TRUE
  IN  IF places = {} THEN q ELSE SubSeq(q, 1, i - 1) \o SubSeq(q, i + 1, Len(q))

-----------------------------------------------------------------------------
\* The latest state is the one a process starts from when nothing was saved.
Init ==
  /\ clock = 0 /\ setBack = 0
  /\ collector = "sleep" /\ main = "serving"
  /\ queue = <<>> /\ granted = {}
  /\ mem = {} /\ disk = {}
  /\ started = Now /\ nextTick = clock /\ lastSnapshot = Now
  /\ passBack = setBack /\ savedBack = setBack
  /\ saveFailed = FALSE
  /\ sigterm = FALSE

\* Time passes; a serving process is never MaxGap behind with its next pass.
Tick ==
  /\ clock < MaxTime
  /\ main = "serving" => clock < started + passBack + MaxGap
  /\ clock' = clock + 1
  /\ UNCHANGED <<setBack, collector, main, lockVars, mem, disk, loopVars, sigterm>>

\* The system's clock is set back, whatever the process is doing.
SetBack ==
  /\ setBack' \in setBack + 1..MaxSetBack
  /\ UNCHANGED <<clock, collector, main, lockVars, mem, disk, loopVars, sigterm>>

\* collector_loop: the ticker fires, the clock is read, the write lock is
\* asked for.  A late tick delays the next (MissedTickBehavior::Delay).
StartPass ==
  /\ ThreadFree /\ main = "serving"
  /\ collector = "sleep" /\ clock >= nextTick
  /\ collector' = "pass"
  /\ started' = Now /\ passBack' = setBack
  /\ nextTick' = clock + ScrapeInterval
  /\ Settle(Append(queue, Collector), granted, TRUE)
  /\ UNCHANGED <<timeVars, main, mem, disk, lastSnapshot, savedBack,
                 saveFailed, sigterm>>

\* collect: an answer of the API server puts samples into the store, under
\* the reading the pass started with.  A series takes only newer samples; so
\* when some are newer, only another or a new series takes this one.
Collect ==
  /\ ThreadFree /\ main = "serving"
  /\ collector = "pass" /\ Collector \in granted
  /\ \/ mem' = mem \cup {started}
     \/ (\E t \in mem : t >= started) /\ UNCHANGED mem
  /\ UNCHANGED <<timeVars, collector, main, lockVars, disk, loopVars, sigterm>>

\* Variants with a bug, for mutation runs: an error returns before pruning;
\* the guard is still held when the lock for the snapshot is asked for; a
\* snapshot is due only after the interval.
EndPassPruningOnSuccess ==
  /\ ThreadFree /\ main = "serving"
  /\ collector = "pass" /\ Collector \in granted
  /\ mem' = IF started \in mem THEN Within(mem, started) ELSE mem
  /\ collector' = "sleep"
  /\ Settle(queue, granted \ {Collector}, FALSE)
  /\ UNCHANGED <<timeVars, main, disk, loopVars, sigterm>>

EndPassHoldingGuard ==
  /\ ThreadFree /\ main = "serving"
  /\ collector = "pass" /\ Collector \in granted
  /\ \A i \in DOMAIN queue : queue[i] # Collector
  /\ mem' = Within(mem, started)
  /\ IF started - lastSnapshot >= SnapshotInterval
     THEN queue' = Append(queue, Collector) /\ UNCHANGED <<collector, granted>>
     ELSE collector' = "sleep" /\ Settle(queue, granted \ {Collector}, FALSE)
  /\ UNCHANGED <<timeVars, main, disk, loopVars, sigterm>>

EndPassSavingLate ==
  /\ ThreadFree /\ main = "serving"
  /\ collector = "pass" /\ Collector \in granted
  /\ mem' = Within(mem, started)
  /\ IF started - lastSnapshot > SnapshotInterval
     THEN /\ collector' = "due"
          /\ Settle(Append(queue, Collector), granted \ {Collector}, FALSE)
     ELSE /\ collector' = "sleep"
          /\ Settle(queue, granted \ {Collector}, FALSE)
  /\ UNCHANGED <<timeVars, main, disk, loopVars, sigterm>>

\* The pass ends, all answered or in error, and prunes in both cases; the
\* write guard is dropped.  If a snapshot is due the read lock is asked for.
EndPass ==
  /\ ThreadFree /\ main = "serving"
  /\ collector = "pass" /\ Collector \in granted
  /\ mem' = Within(mem, started)
  /\ IF started - lastSnapshot >= SnapshotInterval
     THEN /\ collector' = "due"
          /\ Settle(Append(queue, Collector), granted \ {Collector}, FALSE)
     ELSE /\ collector' = "sleep"
          /\ Settle(queue, granted \ {Collector}, FALSE)
  /\ UNCHANGED <<timeVars, main, disk, loopVars, sigterm>>

BeginSave ==
  /\ ThreadFree /\ main = "serving"
  /\ collector = "due" /\ Collector \in granted
  /\ collector' = "saving"
  /\ UNCHANGED <<timeVars, main, lockVars, mem, disk, loopVars, sigterm>>

\* A variant with a bug, for mutation runs: a failed save counts as one.
EndSaveCountingFailure ==
  /\ Running /\ collector = "saving"
  /\ collector' = "sleep"
  /\ Settle(queue, granted \ {Collector}, FALSE)
  /\ lastSnapshot' = started /\ savedBack' = passBack
  /\ \/ disk' = mem /\ saveFailed' = FALSE
     \/ saveFailed' = TRUE /\ UNCHANGED disk
  /\ UNCHANGED <<timeVars, main, mem, started, nextTick, passBack, sigterm>>

\* snapshot::save returns, and the read guard is dropped.
EndSave ==
  /\ Running /\ collector = "saving"
  /\ collector' = "sleep"
  /\ Settle(queue, granted \ {Collector}, FALSE)
  /\ \/ /\ disk' = mem /\ saveFailed' = FALSE
        /\ lastSnapshot' = started /\ savedBack' = passBack
     \/ saveFailed' = TRUE /\ UNCHANGED <<disk, lastSnapshot, savedBack>>
  /\ UNCHANGED <<timeVars, main, mem, started, nextTick, passBack, sigterm>>

\* A handler of api.rs asks for the read lock; connections outlive the server
\* that a signal makes main drop ...
AskQuery(q) ==
  /\ ThreadFree /\ ~Waiting(q)
  /\ Settle(Append(queue, q), granted, PassPending)
  /\ UNCHANGED <<timeVars, collector, main, mem, disk, loopVars, sigterm>>

\* ... and, when it has it, evaluates the query and answers.
AnswerQuery(q) ==
  /\ ThreadFree /\ q \in granted
  /\ Settle(queue, granted \ {q}, PassPending)
  /\ UNCHANGED <<timeVars, collector, main, mem, disk, loopVars, sigterm>>

\* SIGTERM arrives, at any time.
Signal ==
  /\ Running /\ ~sigterm
  /\ sigterm' = TRUE
  /\ UNCHANGED <<timeVars, collector, main, lockVars, mem, disk, loopVars>>

\* main: select! sees the signal; the collector is aborted; the read lock is
\* asked for.
Stop ==
  /\ ThreadFree /\ main = "serving" /\ sigterm
  /\ main' = "stopping"
  /\ Settle(Append(queue, Main), granted, PassPending)
  /\ UNCHANGED <<timeVars, collector, mem, disk, loopVars, sigterm>>

\* A variant with a bug, for mutation runs: without the abort, a pass that
\* holds the guard keeps it.
DropIdleCollector ==
  /\ ThreadFree /\ main = "stopping" /\ Waiting(Collector)
  /\ ~(collector = "pass" /\ Collector \in granted)
  /\ collector' = "sleep"
  /\ Settle(Without(queue, Collector), granted \ {Collector}, FALSE)
  /\ UNCHANGED <<timeVars, main, mem, disk, loopVars, sigterm>>

\* The executor drops the aborted collector, wherever it was waiting, and
\* with it the guard it holds and its place in the queue.
DropCollector ==
  /\ ThreadFree /\ main = "stopping" /\ Waiting(Collector)
  /\ collector' = "sleep"
  /\ Settle(Without(queue, Collector), granted \ {Collector}, FALSE)
  /\ UNCHANGED <<timeVars, main, mem, disk, loopVars, sigterm>>

\* A variant with a bug, for mutation runs: main relies on the abort and takes
\* no lock.
BeginFinalSaveUnlocked ==
  /\ ThreadFree /\ main = "stopping"
  /\ main' = "saving"
  /\ UNCHANGED <<timeVars, collector, lockVars, mem, disk, loopVars, sigterm>>

\* main has the lock, and writes.
BeginFinalSave ==
  /\ ThreadFree /\ main = "stopping" /\ Main \in granted
  /\ main' = "saving"
  /\ UNCHANGED <<timeVars, collector, lockVars, mem, disk, loopVars, sigterm>>

\* The process is gone, and with it the lock and what waited for it.
Die ==
  /\ main' = "down"
  /\ collector' = "sleep"
  /\ queue' = <<>> /\ granted' = {}
  /\ sigterm' = FALSE

\* The final save returns, if it could save or not, and the process exits.
EndFinalSave ==
  /\ main = "saving"
  /\ disk' \in {disk, mem}
  /\ Die
  /\ UNCHANGED <<timeVars, mem, loopVars>>

\* SIGKILL, an OOM kill or a crash: memory is lost, the snapshot file stays.
Kill ==
  /\ Running
  /\ Die
  /\ UNCHANGED <<timeVars, mem, disk, loopVars>>

\* A variant with a bug, for mutation runs: last_snapshot is set back, past
\* the epoch, for the first pass to be followed by a snapshot.
RestartDueAtOnce ==
  /\ ~Running
  /\ main' = "serving"
  /\ mem' = Within(disk, Now)
  /\ started' = Now /\ nextTick' = clock
  /\ lastSnapshot' = Now - SnapshotInterval
  /\ passBack' = setBack /\ savedBack' = setBack
  /\ saveFailed' = FALSE
  /\ UNCHANGED <<timeVars, collector, lockVars, disk, sigterm>>

\* main of the next process: restore, then the collector with a first tick
\* at once.
Restart ==
  /\ ~Running
  /\ main' = "serving"
  /\ mem' = Within(disk, Now)
  /\ started' = Now /\ nextTick' = clock /\ lastSnapshot' = Now
  /\ passBack' = setBack /\ savedBack' = setBack
  /\ saveFailed' = FALSE
  /\ UNCHANGED <<timeVars, collector, lockVars, disk, sigterm>>

Next ==
  \/ Tick \/ SetBack
  \/ StartPass \/ Collect \/ EndPass \/ BeginSave \/ EndSave
  \/ \E q \in Queries : AskQuery(q) \/ AnswerQuery(q)
  \/ Signal \/ Stop \/ DropCollector \/ BeginFinalSave \/ EndFinalSave
  \/ Kill \/ Restart

Spec == Init /\ [][Next]_vars

\* What the executor and the file system owe: a task that can run gets its
\* turn although others take the thread in between, and a write to the
\* snapshot returns.
ExecutorFairness ==
  /\ WF_vars(StartPass) /\ WF_vars(EndSave) /\ WF_vars(EndFinalSave)
  /\ SF_vars(BeginSave) /\ SF_vars(Stop) /\ SF_vars(DropCollector)
  /\ SF_vars(BeginFinalSave)
  /\ \A q \in Queries : SF_vars(AnswerQuery(q))

\* The API server may accept calls and never answer them ...
FairSpec == Spec /\ ExecutorFairness

\* ... unless kube.rs, which gives each call 20 seconds, sees to it that a
\* pass ends.
PassesEnd == SF_vars(EndPass)

-----------------------------------------------------------------------------
Lost == mem \ disk

\* However the process is killed, unless the volume refused the latest save,
\* the passes that die with it span less than one snapshot interval, one gap
\* between passes and what the clock was set back by since the latest
\* snapshot, for until it has caught up no other is due.
LossBounded ==
  ~saveFailed => \A t, u \in Lost :
    t - u < SnapshotInterval + MaxGap + (setBack - savedBack)

\* "The upper bound on how much history an unclean kill can cost", as the
\* comment on Config::snapshot_interval has it.
LossWithinInterval ==
  ~saveFailed => \A t, u \in Lost : t - u <= SnapshotInterval

\* "Nothing is mid-write below": the final snapshot is not written while a
\* pass is at work on the store.  The abort alone would not see to it, for it
\* returns before the collector is dropped.
NothingMidWrite ==
  main = "saving" => ~(collector = "pass" /\ Collector \in granted)

\* An API server that is out does not stop samples from ageing out: between
\* passes nothing is older than the window at the latest one.
OutageStillAges ==
  main = "serving" /\ collector # "pass" => \A t \in mem : t >= started - Retention

\* "try again next time": after a failed save the next pass that ends is
\* followed by another, if the clock was not set back in between.
FailedSaveRetried ==
  [][saveFailed /\ setBack = savedBack /\ EndPass => collector' = "due"]_vars

\* When passes end, every query is answered, or goes down with the process.
QueriesAnswered ==
  PassesEnd => \A q \in Queries : Waiting(q) ~> ~Waiting(q)

\* A signal leads to the end of the process whatever the collector was
\* waiting for, so that the final snapshot is not left to a SIGKILL.
SignalStops == sigterm ~> ~Running

=============================================================================
