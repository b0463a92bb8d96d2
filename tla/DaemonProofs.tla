---------------------------- MODULE DaemonProofs ----------------------------
(***************************************************************************)
(* What Daemon promises of the history a process can lose, for every       *)
(* window, interval and number of query handlers.                          *)
(*                                                                         *)
(* What it loses and keeps does not depend on the lock: who waits for it   *)
(* only decides when the collector's steps happen, and those facts hold    *)
(* whenever they do.  So their invariant, IInv, says nothing of `queue`    *)
(* and `granted`, and no step of its proof looks into Settle.  That a stop *)
(* saves a store nobody is writing to is the lock's doing: LockInv.        *)
(***************************************************************************)
EXTENDS Daemon, FiniteSetTheorems, SequenceTheorems, TLAPS

\* The readings of the clock, and how far it was set back when they were made.
Readings ==
  /\ clock \in Int /\ started \in Int /\ lastSnapshot \in Int
  /\ setBack \in Nat /\ passBack \in Nat /\ savedBack \in Nat
  /\ savedBack <= passBack /\ passBack <= setBack
  /\ mem \subseteq Int /\ disk \subseteq Int

\* In the order of the time that passes the latest snapshot comes before the
\* latest pass, and a serving process is at most MaxGap away from that.
Ordered ==
  /\ lastSnapshot + savedBack <= started + passBack
  /\ started + passBack <= clock
  /\ main = "serving" => clock <= started + passBack + MaxGap

\* What is not on disk came after the latest snapshot, by a clock that may
\* have been set back since; unless saving fails it came before the next one.
LostIsRecent ==
  \A t \in Lost :
    /\ t + setBack >= lastSnapshot + savedBack
    /\ ~saveFailed => t < lastSnapshot + SnapshotInterval + MaxGap

\* Unless saving fails, a pass that is over left no snapshot overdue, so the
\* latest pass is at most one gap past the point where it would be.
NotOverdue ==
  ~saveFailed =>
    /\ started - lastSnapshot < SnapshotInterval + MaxGap
    /\ main = "serving" /\ collector = "sleep" =>
         started - lastSnapshot < SnapshotInterval

\* When it does fail, it stays overdue while the clock is left alone; and
\* saving is tried only when due.
StaysOverdue ==
  \/ saveFailed /\ setBack = savedBack
  \/ collector \in {"due", "saving"}
  => started - lastSnapshot >= SnapshotInterval

\* A process that is gone has no collector in a pass.
IdleWhenDown == main = "down" => collector = "sleep"

IInv ==
  /\ Readings
  /\ Ordered
  /\ LostIsRecent
  /\ NotOverdue
  /\ StaysOverdue
  /\ IdleWhenDown
  /\ OutageStillAges

-----------------------------------------------------------------------------
\* Restoring or pruning leaves some of the passes and none too old.
LEMMA WithinSound ==
  ASSUME NEW P, P \subseteq Int, NEW now \in Int
  PROVE  /\ Within(P, now) \subseteq P
         /\ \A t \in Within(P, now) : t >= now - Retention
BY DEF Within

LEMMA InitInv == Init => IInv
<1> SUFFICES ASSUME Init PROVE IInv
  OBVIOUS
<1>1. Lost = {}
  BY DEF Init, Lost
<1>2. Readings /\ Ordered /\ IdleWhenDown
  BY DaemonAssumption DEF Init, Now, Readings, Ordered, IdleWhenDown
<1>3. LostIsRecent /\ OutageStillAges
  BY <1>1 DEF Init, LostIsRecent, OutageStillAges
<1>4. NotOverdue /\ StaysOverdue
  BY DaemonAssumption DEF Init, Now, NotOverdue, StaysOverdue
<1> QED
  BY <1>2, <1>3, <1>4 DEF IInv

\* Time passing.
LEMMA TickInv == IInv /\ Tick => IInv'
BY DaemonAssumption
DEF IInv, Tick, lockVars, loopVars, Readings, Ordered, LostIsRecent,
    NotOverdue, StaysOverdue, IdleWhenDown, OutageStillAges, Lost

\* The clock being set back, which only widens what can have been lost.
LEMMA SetBackInv == IInv /\ SetBack => IInv'
<1> SUFFICES ASSUME IInv, SetBack PROVE IInv'
  OBVIOUS
<1>1. PICK b \in setBack + 1..MaxSetBack : setBack' = b
  BY DEF SetBack
<1>2. UNCHANGED <<clock, collector, main, mem, disk, started, lastSnapshot,
                  passBack, savedBack, saveFailed, Lost>>
  BY DEF SetBack, loopVars, Lost
<1>3. Readings /\ b \in Nat /\ setBack < b
  BY DaemonAssumption DEF IInv, Readings
<1>4. Readings' /\ Ordered' /\ IdleWhenDown'
  BY <1>1, <1>2, <1>3 DEF IInv, Readings, Ordered, IdleWhenDown
<1>5. LostIsRecent'
  <2> SUFFICES ASSUME NEW t \in Lost
               PROVE  /\ t + b >= lastSnapshot + savedBack
                      /\ ~saveFailed => t < lastSnapshot + SnapshotInterval + MaxGap
    BY <1>1, <1>2 DEF LostIsRecent
  <2>1. /\ t + setBack >= lastSnapshot + savedBack
        /\ ~saveFailed => t < lastSnapshot + SnapshotInterval + MaxGap
    BY DEF IInv, LostIsRecent
  <2> QED
    BY <1>3, <2>1, DaemonAssumption DEF Readings, Lost
<1>6. NotOverdue' /\ StaysOverdue'
  BY <1>1, <1>2, <1>3 DEF IInv, Readings, NotOverdue, StaysOverdue
<1>7. OutageStillAges'
  BY <1>2 DEF IInv, OutageStillAges
<1> QED
  BY <1>4, <1>5, <1>6, <1>7 DEF IInv

\* A pass starts at most one gap after the one before it.
LEMMA StartPassInv == IInv /\ StartPass => IInv'
<1> SUFFICES ASSUME IInv, StartPass PROVE IInv'
  OBVIOUS
<1>1. /\ UNCHANGED <<clock, setBack, main, mem, disk, lastSnapshot, savedBack,
                     saveFailed, Lost>>
      /\ main = "serving" /\ collector = "sleep" /\ collector' = "pass"
      /\ started' = clock - setBack /\ passBack' = setBack
  BY DEF StartPass, timeVars, Now, Lost
<1>2. Readings' /\ Ordered' /\ IdleWhenDown'
  BY <1>1, DaemonAssumption DEF IInv, Readings, Ordered, IdleWhenDown
<1>3. LostIsRecent'
  BY <1>1 DEF IInv, LostIsRecent
<1>4. NotOverdue'
  BY <1>1, DaemonAssumption DEF IInv, Readings, Ordered, NotOverdue
<1>5. StaysOverdue'
  BY <1>1, DaemonAssumption DEF IInv, Readings, Ordered, StaysOverdue
<1>6. OutageStillAges'
  BY <1>1 DEF OutageStillAges
<1> QED
  BY <1>2, <1>3, <1>4, <1>5, <1>6 DEF IInv

\* What is collected carries the reading of the pass.
LEMMA CollectInv == IInv /\ Collect => IInv'
<1> SUFFICES ASSUME IInv, Collect PROVE IInv'
  OBVIOUS
<1>1. /\ UNCHANGED <<clock, setBack, collector, main, disk, started,
                     lastSnapshot, passBack, savedBack, saveFailed>>
      /\ main = "serving" /\ collector = "pass"
      /\ mem' \subseteq mem \cup {started}
      /\ Lost' \subseteq Lost \cup {started}
  BY DEF Collect, timeVars, loopVars, Lost
<1>2. Readings' /\ Ordered' /\ IdleWhenDown'
  BY <1>1 DEF IInv, Readings, Ordered, IdleWhenDown
<1>3. LostIsRecent'
  <2> SUFFICES ASSUME NEW t \in Lost'
               PROVE  /\ t + setBack >= lastSnapshot + savedBack
                      /\ ~saveFailed => t < lastSnapshot + SnapshotInterval + MaxGap
    BY <1>1 DEF LostIsRecent
  <2>1. CASE t \in Lost
    BY <2>1 DEF IInv, LostIsRecent
  <2>2. CASE t = started
    BY <2>2, DaemonAssumption DEF IInv, Readings, Ordered, NotOverdue
  <2> QED
    BY <1>1, <2>1, <2>2
<1>4. NotOverdue' /\ StaysOverdue'
  BY <1>1 DEF IInv, NotOverdue, StaysOverdue
<1>5. OutageStillAges'
  BY <1>1 DEF IInv, IdleWhenDown, OutageStillAges
<1> QED
  BY <1>2, <1>3, <1>4, <1>5 DEF IInv

\* The end of a pass forgets what is too old and leaves nothing overdue.
LEMMA EndPassInv == IInv /\ EndPass => IInv'
<1> SUFFICES ASSUME IInv, EndPass PROVE IInv'
  OBVIOUS
<1> USE DaemonAssumption
<1>1. /\ UNCHANGED <<timeVars, main, disk, started, lastSnapshot, passBack,
                     savedBack, saveFailed>>
      /\ main = "serving"
      /\ mem' = Within(mem, started)
      /\ collector' \in {"due", "sleep"}
      /\ collector' = "due" <=> started - lastSnapshot >= SnapshotInterval
  BY DEF EndPass, IInv, loopVars, Readings
<1> USE DEF timeVars
<1>2. /\ mem' \subseteq mem
      /\ \A t \in mem' : t >= started - Retention
  BY <1>1, WithinSound DEF IInv, Readings
<1>3. Readings' /\ Ordered' /\ IdleWhenDown'
  BY <1>1, <1>2 DEF IInv, Readings, Ordered, IdleWhenDown
<1>4. LostIsRecent'
  BY <1>1, <1>2 DEF IInv, LostIsRecent, Lost
<1>5. NotOverdue' /\ StaysOverdue'
  BY <1>1 DEF IInv, Readings, NotOverdue, StaysOverdue
<1>6. OutageStillAges'
  BY <1>1, <1>2 DEF OutageStillAges
<1> QED
  BY <1>3, <1>4, <1>5, <1>6 DEF IInv

\* A snapshot, when it is written, holds everything in memory.
LEMMA EndSaveInv == IInv /\ EndSave => IInv'
<1> SUFFICES ASSUME IInv, EndSave PROVE IInv'
  OBVIOUS
<1>1. /\ UNCHANGED <<clock, setBack, main, mem, started, passBack>>
      /\ main # "down" /\ collector = "saving" /\ collector' = "sleep"
      /\ \/ /\ disk' = mem /\ saveFailed' = FALSE
            /\ lastSnapshot' = started /\ savedBack' = passBack
         \/ saveFailed' = TRUE /\ UNCHANGED <<disk, lastSnapshot, savedBack>>
  BY DEF EndSave, Running, timeVars
<1>2. Readings'
  <2>1. Readings
    BY DEF IInv
  <2>2. CASE disk' = mem /\ lastSnapshot' = started /\ savedBack' = passBack
    BY <1>1, <2>1, <2>2 DEF Readings
  <2>3. CASE UNCHANGED <<disk, lastSnapshot, savedBack>>
    BY <1>1, <2>1, <2>3 DEF Readings
  <2> QED
    BY <1>1, <2>2, <2>3
<1>3. Ordered' /\ IdleWhenDown'
  BY <1>1 DEF IInv, Readings, Ordered, IdleWhenDown
<1>4. LostIsRecent'
  <2>1. \/ Lost' = {}
        \/ saveFailed' = TRUE /\ UNCHANGED <<Lost, lastSnapshot, savedBack>>
    BY <1>1 DEF Lost
  <2> QED
    BY <1>1, <2>1 DEF IInv, LostIsRecent, IdleWhenDown
<1>5. NotOverdue' /\ StaysOverdue'
  BY <1>1, DaemonAssumption DEF IInv, Readings, NotOverdue, StaysOverdue
<1>6. OutageStillAges'
  BY <1>1 DEF IInv, OutageStillAges
<1> QED
  BY <1>2, <1>3, <1>4, <1>5, <1>6 DEF IInv

\* The process exits, and what it saved last is all it held.
LEMMA EndFinalSaveInv == IInv /\ EndFinalSave => IInv'
<1> SUFFICES ASSUME IInv, EndFinalSave PROVE IInv'
  OBVIOUS
<1>1. /\ UNCHANGED <<clock, setBack, mem, started, lastSnapshot, passBack, savedBack,
                     saveFailed>>
      /\ main' = "down" /\ collector' = "sleep"
      /\ disk' \in {disk, mem}
  BY DEF EndFinalSave, Die, timeVars, loopVars
<1>2. Readings' /\ Ordered' /\ IdleWhenDown'
  BY <1>1 DEF IInv, Readings, Ordered, IdleWhenDown
<1>3. LostIsRecent'
  <2>1. Lost' \subseteq Lost
    BY <1>1 DEF Lost
  <2> QED
    BY <1>1, <2>1 DEF IInv, LostIsRecent
<1>4. NotOverdue' /\ StaysOverdue' /\ OutageStillAges'
  BY <1>1 DEF IInv, NotOverdue, StaysOverdue, OutageStillAges
<1> QED
  BY <1>2, <1>3, <1>4 DEF IInv

LEMMA KillInv == IInv /\ Kill => IInv'
BY DaemonAssumption
DEF IInv, Kill, Die, timeVars, loopVars, Readings, Ordered, LostIsRecent, NotOverdue,
    StaysOverdue, IdleWhenDown, OutageStillAges, Lost

\* A process starts with nothing that is not on disk.
LEMMA RestartInv == IInv /\ Restart => IInv'
<1> SUFFICES ASSUME IInv, Restart PROVE IInv'
  OBVIOUS
<1>1. PICK now \in Int : now = Now /\ now + setBack = clock
  BY DEF IInv, Readings, Now
<1>2. /\ main' = "serving"
      /\ started' = now /\ lastSnapshot' = now
      /\ passBack' = setBack /\ savedBack' = setBack /\ saveFailed' = FALSE
      /\ UNCHANGED <<clock, setBack, collector, disk>>
  BY <1>1 DEF Restart, timeVars
<1>3. /\ mem' \subseteq disk
      /\ \A t \in mem' : t >= now - Retention
  BY <1>1, WithinSound DEF Restart, IInv, Readings
<1>4. collector = "sleep"
  BY DEF Restart, Running, IInv, IdleWhenDown
<1>5. Lost' = {}
  BY <1>2, <1>3 DEF Lost
<1>6. Readings' /\ Ordered' /\ IdleWhenDown'
  <2>1. Readings
    BY DEF IInv
  <2>2. Readings'
    BY <1>2, <1>3, <2>1 DEF Readings
  <2>3. Ordered' /\ IdleWhenDown'
    BY <1>1, <1>2, <2>1, DaemonAssumption DEF Readings, Ordered, IdleWhenDown
  <2> QED
    BY <2>2, <2>3
<1>7. LostIsRecent' /\ OutageStillAges'
  BY <1>2, <1>3, <1>5 DEF LostIsRecent, OutageStillAges
<1>8. NotOverdue' /\ StaysOverdue'
  BY <1>2, <1>4, DaemonAssumption DEF NotOverdue, StaysOverdue
<1> QED
  BY <1>6, <1>7, <1>8 DEF IInv

\* The steps that touch neither the passes nor the readings of the clock, and leave
\* the collector closer to its next pass or where it is.
LEMMA OtherInv ==
  ASSUME IInv,
         UNCHANGED <<timeVars, mem, disk, loopVars>>,
         \/ UNCHANGED <<main, collector>>
         \/ UNCHANGED main /\ collector = "due" /\ collector' = "saving"
         \/ UNCHANGED collector /\ main = "serving" /\ main' = "stopping"
         \/ UNCHANGED collector /\ main = "stopping" /\ main' = "saving"
         \/ UNCHANGED main /\ main = "stopping" /\ collector' = "sleep"
  PROVE  IInv'
BY DaemonAssumption
DEF IInv, timeVars, loopVars, Readings, Ordered, LostIsRecent, NotOverdue,
    StaysOverdue, IdleWhenDown, OutageStillAges, Lost

LEMMA NextInv == IInv /\ [Next]_vars => IInv'
<1> SUFFICES ASSUME IInv, [Next]_vars PROVE IInv'
  OBVIOUS
<1>1. CASE Tick
  BY <1>1, TickInv
<1>2. CASE StartPass
  BY <1>2, StartPassInv
<1>3. CASE Collect
  BY <1>3, CollectInv
<1>4. CASE EndPass
  BY <1>4, EndPassInv
<1>5. CASE BeginSave
  BY <1>5, OtherInv DEF BeginSave
<1>6. CASE EndSave
  BY <1>6, EndSaveInv
<1>7. CASE \E q \in Queries : AskQuery(q) \/ AnswerQuery(q)
  BY <1>7, OtherInv DEF AskQuery, AnswerQuery
<1>8. CASE Signal
  BY <1>8, OtherInv DEF Signal
<1>9. CASE Stop
  BY <1>9, OtherInv DEF Stop
<1>10. CASE DropCollector
  BY <1>10, OtherInv DEF DropCollector
<1>11. CASE BeginFinalSave
  BY <1>11, OtherInv DEF BeginFinalSave
<1>12. CASE EndFinalSave
  BY <1>12, EndFinalSaveInv
<1>13. CASE Kill
  BY <1>13, KillInv
<1>14. CASE Restart
  BY <1>14, RestartInv
<1>15. CASE UNCHANGED vars
  BY <1>15, OtherInv DEF vars
<1>16. CASE SetBack
  BY <1>16, SetBackInv
<1> QED
  BY <1>1, <1>2, <1>3, <1>4, <1>5, <1>6, <1>7, <1>8, <1>9, <1>10, <1>11,
     <1>12, <1>13, <1>14, <1>15, <1>16 DEF Next

THEOREM Invariance == Spec => []IInv
  BY InitInv, NextInv, PTL DEF Spec

-----------------------------------------------------------------------------
\* However the daemon is scheduled, killed and restarted and its clock set
\* back, unless the volume refused the latest save of the loop the passes
\* that are only in memory span less than one snapshot interval, one gap
\* between passes and what the clock was set back by since the latest
\* snapshot (src/main.rs: the test of last_snapshot in collector_loop).
THEOREM LossAlwaysBounded == Spec => []LossBounded
<1>1. IInv => LossBounded
  <2> SUFFICES ASSUME IInv, ~saveFailed, NEW t \in Lost, NEW u \in Lost
               PROVE  t - u < SnapshotInterval + MaxGap + (setBack - savedBack)
    BY DEF LossBounded
  <2>1. /\ u + setBack >= lastSnapshot + savedBack
        /\ t < lastSnapshot + SnapshotInterval + MaxGap
    BY DEF IInv, LostIsRecent
  <2> QED
    BY <2>1, DaemonAssumption DEF IInv, Readings, Lost
<1> QED
  BY <1>1, Invariance, PTL

\* Between passes nothing in memory is older than the window, whether the
\* API server answers or not (src/main.rs: guard.prune outside the error
\* path).
THEOREM OutageAlwaysAges == Spec => []OutageStillAges
<1>1. IInv => OutageStillAges
  BY DEF IInv
<1> QED
  BY <1>1, Invariance, PTL

\* After a failed save the next pass that ends is followed by another try,
\* if the clock was not set back in between (src/main.rs: last_snapshot is
\* set only by a save that succeeds).
THEOREM FailedSaveAlwaysRetried == Spec => FailedSaveRetried
<1>1. IInv /\ [Next]_vars =>
        [saveFailed /\ setBack = savedBack /\ EndPass => collector' = "due"]_vars
  BY DaemonAssumption DEF EndPass, IInv, StaysOverdue
<1> QED
  BY <1>1, Invariance, PTL DEF Spec, FailedSaveRetried

-----------------------------------------------------------------------------
\* The lock hands tasks from the queue to the holders and makes none up.
LEMMA SettleTypes ==
  ASSUME NEW q \in Seq(Tasks), NEW h \in SUBSET Tasks, NEW w \in BOOLEAN,
         Settle(q, h, w)
  PROVE  queue' \in Seq(Tasks) /\ granted' \subseteq Tasks
<1> DEFINE places == Admitted(q, h, w)
<1>1. Len(q) \in Nat /\ \A i \in 1..Len(q) : q[i] \in Tasks
  OBVIOUS
<1>2. places \subseteq 1..Len(q)
  <2>1. q # <<>> => 1 \in 1..Len(q)
    BY <1>1, EmptySeq
  <2> QED
    BY <2>1 DEF Admitted
<1>3. Cardinality(places) \in Nat
  <2>1. IsFiniteSet(1..Len(q))
    BY <1>1, FS_Interval
  <2>2. IsFiniteSet(places)
    BY <1>2, <2>1, FS_Subset
  <2> QED
    BY <2>2, FS_CardinalityType
<1> HIDE DEF places
<1>4. granted' \subseteq Tasks
  BY <1>1, <1>2 DEF Settle, places
<1>5. SubSeq(q, Cardinality(places) + 1, Len(q)) \in Seq(Tasks)
  <2>1. \A i \in Cardinality(places) + 1..Len(q) : q[i] \in Tasks
    BY <1>1, <1>3
  <2> QED
    BY <1>1, <1>3, <2>1, SubSeqProperties
<1> QED
  BY <1>4, <1>5 DEF Settle, places

\* A task that gives up its place leaves the others theirs.
LEMMA WithoutTypes ==
  ASSUME NEW q \in Seq(Tasks), NEW task \in Tasks
  PROVE  Without(q, task) \in Seq(Tasks)
<1>1. Len(q) \in Nat /\ \A i \in 1..Len(q) : q[i] \in Tasks
  OBVIOUS
<1>2. ASSUME NEW i \in 1..Len(q)
      PROVE  SubSeq(q, 1, i - 1) \o SubSeq(q, i + 1, Len(q)) \in Seq(Tasks)
  <2>1. \A j \in 1..i - 1 : q[j] \in Tasks
    BY <1>1
  <2>2. \A j \in i + 1..Len(q) : q[j] \in Tasks
    BY <1>1
  <2>3. SubSeq(q, 1, i - 1) \in Seq(Tasks)
    BY <1>1, <2>1, SubSeqProperties
  <2>4. SubSeq(q, i + 1, Len(q)) \in Seq(Tasks)
    BY <1>1, <2>2, SubSeqProperties
  <2> QED
    BY <2>3, <2>4, ConcatProperties
<1>3. CASE {i \in 1..Len(q) : q[i] = task} = {}
  BY <1>3 DEF Without
<1>4. CASE {i \in 1..Len(q) : q[i] = task} # {}
  <2>1. (CHOOSE x \in {i \in 1..Len(q) : q[i] = task} : TRUE) \in 1..Len(q)
    BY <1>4
  <2> QED
    BY <1>2, <1>4, <2>1 DEF Without
<1> QED
  BY <1>3, <1>4

LEMMA InitTypes == Init => TypeOK
<1> SUFFICES ASSUME Init PROVE TypeOK
  OBVIOUS
<1>1. Now = 0 /\ 0 \in Reading
  BY DEF Init, Now, Reading
<1>2. queue \in Seq(Tasks) /\ granted \subseteq Tasks
  BY DEF Init
<1> QED
  BY <1>1, <1>2 DEF Init, TypeOK

\* A step that leaves the clocks and what was read from them alone.
LEMMA LockStepTypes ==
  ASSUME TypeOK, UNCHANGED <<timeVars, loopVars>>,
         queue' \in Seq(Tasks), granted' \subseteq Tasks,
         mem' \subseteq mem \cup {started}, disk' \in {disk, mem},
         collector' \in {"sleep", "pass", "due", "saving"},
         main' \in {"serving", "stopping", "saving", "down"},
         sigterm' \in BOOLEAN
  PROVE  TypeOK'
<1>1. UNCHANGED Reading
  BY DEF Reading, timeVars
<1> QED
  BY <1>1 DEF TypeOK, timeVars, loopVars

LEMMA NextTypes == TypeOK /\ [Next]_vars => TypeOK'
<1> SUFFICES ASSUME TypeOK, [Next]_vars PROVE TypeOK'
  OBVIOUS
<1>a. /\ queue \in Seq(Tasks) /\ granted \in SUBSET Tasks
      /\ \A task \in Tasks : /\ granted \ {task} \in SUBSET Tasks
                             /\ Append(queue, task) \in Seq(Tasks)
                             /\ Without(queue, task) \in Seq(Tasks)
      /\ Collector \in Tasks /\ Main \in Tasks /\ Queries \subseteq Tasks
      /\ PassPending \in BOOLEAN
  BY WithoutTypes, AppendProperties DEF TypeOK, PassPending, Tasks
<1>1. CASE Tick
  BY <1>1 DEF Tick, TypeOK, lockVars, loopVars, Reading
<1>2. CASE SetBack
  <2>1. PICK b \in setBack + 1..MaxSetBack : setBack' = b
    BY <1>2 DEF SetBack
  <2>2. setBack \in Nat /\ b \in Nat /\ setBack < b
    BY <2>1, DaemonAssumption DEF TypeOK
  <2>3. Reading \subseteq {t \in Int : t + b \in Nat}
    BY <2>2 DEF Reading
  <2>4. Reading' = {t \in Int : t + b \in Nat}
    BY <2>1 DEF Reading
  <2> QED
    BY <1>2, <2>1, <2>2, <2>3, <2>4 DEF SetBack, TypeOK, lockVars, loopVars
<1>3. CASE StartPass
  <2>1. queue' \in Seq(Tasks) /\ granted' \subseteq Tasks
    BY <1>3, <1>a, SettleTypes DEF StartPass
  <2>2. started' \in Reading /\ nextTick' \in Nat /\ UNCHANGED Reading
    BY <1>3, DaemonAssumption DEF StartPass, TypeOK, Now, Reading, timeVars
  <2> QED
    BY <1>3, <2>1, <2>2 DEF StartPass, TypeOK, timeVars
<1>4. CASE Collect
  BY <1>4, LockStepTypes DEF Collect, TypeOK, lockVars, timeVars, loopVars
<1>5. CASE EndPass
  <2>1. queue' \in Seq(Tasks) /\ granted' \subseteq Tasks
    BY <1>5, <1>a, SettleTypes DEF EndPass
  <2>2. mem' \subseteq mem
    BY <1>5 DEF EndPass, Within
  <2> QED
    BY <1>5, <2>1, <2>2, LockStepTypes DEF EndPass, TypeOK
<1>6. CASE BeginSave
  BY <1>6, LockStepTypes DEF BeginSave, TypeOK, lockVars
<1>7. CASE EndSave
  <2>1. queue' \in Seq(Tasks) /\ granted' \subseteq Tasks
    BY <1>7, <1>a, SettleTypes DEF EndSave
  <2>2. UNCHANGED Reading
    BY <1>7 DEF EndSave, Reading, timeVars
  <2> QED
    BY <1>7, <2>1, <2>2 DEF EndSave, TypeOK, timeVars
<1>8. ASSUME NEW q \in Queries, AskQuery(q) \/ AnswerQuery(q) PROVE TypeOK'
  <2>1. queue' \in Seq(Tasks) /\ granted' \subseteq Tasks
    <3>1. /\ Append(queue, q) \in Seq(Tasks) /\ queue \in Seq(Tasks)
          /\ granted \in SUBSET Tasks /\ granted \ {q} \in SUBSET Tasks
      BY <1>a
    <3>2. PassPending \in BOOLEAN
      BY <1>a
    <3>3. CASE Settle(Append(queue, q), granted, PassPending)
      BY <3>1, <3>2, <3>3, SettleTypes
    <3>4. CASE Settle(queue, granted \ {q}, PassPending)
      BY <3>1, <3>2, <3>4, SettleTypes
    <3> QED
      BY <1>8, <3>3, <3>4 DEF AskQuery, AnswerQuery
  <2> QED
    BY <1>8, <2>1, LockStepTypes DEF AskQuery, AnswerQuery, TypeOK
<1>9. CASE Signal
  BY <1>9, LockStepTypes DEF Signal, TypeOK, lockVars
<1>10. CASE Stop
  <2>1. queue' \in Seq(Tasks) /\ granted' \subseteq Tasks
    <3>1. Append(queue, Main) \in Seq(Tasks) /\ granted \in SUBSET Tasks
      BY <1>a
    <3>2. PassPending \in BOOLEAN
      BY <1>a
    <3> QED
      BY <1>10, <3>1, <3>2, SettleTypes DEF Stop
  <2> QED
    BY <1>10, <2>1, LockStepTypes DEF Stop, TypeOK
<1>11. CASE DropCollector
  <2>1. queue' \in Seq(Tasks) /\ granted' \subseteq Tasks
    <3>1. Without(queue, Collector) \in Seq(Tasks)
      BY <1>a
    <3>2. granted \ {Collector} \in SUBSET Tasks
      BY <1>a
    <3> QED
      BY <1>11, <3>1, <3>2, SettleTypes DEF DropCollector
  <2> QED
    BY <1>11, <2>1, LockStepTypes DEF DropCollector, TypeOK
<1>12. CASE BeginFinalSave
  BY <1>12, LockStepTypes DEF BeginFinalSave, TypeOK, lockVars
<1>13. CASE EndFinalSave
  <2>1. queue' \in Seq(Tasks) /\ granted' \subseteq Tasks
    <3>1. queue' = <<>> /\ granted' = {}
      BY <1>13 DEF EndFinalSave, Die
    <3> QED
      BY <3>1
  <2> QED
    BY <1>13, <2>1, LockStepTypes DEF EndFinalSave, Die, TypeOK
<1>14. CASE Kill
  <2>1. queue' \in Seq(Tasks) /\ granted' \subseteq Tasks
    <3>1. queue' = <<>> /\ granted' = {}
      BY <1>14 DEF Kill, Die
    <3> QED
      BY <3>1
  <2> QED
    BY <1>14, <2>1, LockStepTypes DEF Kill, Die, TypeOK
<1>15. CASE Restart
  <2>1. Now \in Reading /\ UNCHANGED Reading
    BY <1>15 DEF Restart, TypeOK, Now, Reading, timeVars
  <2>2. mem' \subseteq disk
    BY <1>15 DEF Restart, Within
  <2> QED
    BY <1>15, <2>1, <2>2 DEF Restart, TypeOK, timeVars, lockVars
<1>16. CASE UNCHANGED vars
  BY <1>16, LockStepTypes DEF vars, TypeOK, lockVars
<1> QED
  BY <1>1, <1>2, <1>3, <1>4, <1>5, <1>6, <1>7, <1>8, <1>9, <1>10, <1>11,
     <1>12, <1>13, <1>14, <1>15, <1>16 DEF Next

\* Every variable keeps its range, the queue and the holders of the lock are
\* tasks, and every reading is one the system's clock can have given.
THEOREM TypeCorrect == Spec => []TypeOK
  BY InitTypes, NextTypes, PTL DEF Spec

-----------------------------------------------------------------------------
\* The collector asks for the lock once at a time, ...
Once(q) ==
  \A i, j \in 1..Len(q) : q[i] = Collector /\ q[j] = Collector => i = j

Queued(q) == \E i \in 1..Len(q) : q[i] = Collector

\* ... to write in a pass or to read when a snapshot is due; it neither holds
\* the lock while it waits for it nor keeps it when it sleeps.
QueueInv ==
  /\ Once(queue)
  /\ Queued(queue) => collector \in {"pass", "due"} /\ Collector \notin granted
  /\ collector = "sleep" => Collector \notin granted

\* Who writes is alone, and the final save holds the lock.
ExclusionInv ==
  /\ collector = "pass" /\ Collector \in granted => granted = {Collector}
  /\ main = "saving" => Main \in granted

LockInv == TypeOK /\ QueueInv /\ ExclusionInv

\* The lock goes to the tasks at the head of the queue.  (That these are the
\* first k for some k needs no induction: a writer is there only once.)
LEMMA AdmittedPrefix ==
  ASSUME NEW q \in Seq(Tasks), NEW h \in SUBSET Tasks, NEW w \in BOOLEAN,
         Once(q)
  PROVE  \E k \in 0..Len(q) :
           Admitted(q, h, w) = 1..k /\ Cardinality(Admitted(q, h, w)) = k
<1>1. Len(q) \in Nat
  OBVIOUS
<1>2. SUFFICES \E k \in 0..Len(q) : Admitted(q, h, w) = 1..k
  <2>1. ASSUME NEW k \in 0..Len(q) PROVE Cardinality(1..k) = k
    BY <1>1, FS_Interval
  <2> QED
    BY <2>1
<1>3. CASE Admitted(q, h, w) = {}
  BY <1>1, <1>3
<1>4. CASE Admitted(q, h, w) = {1} /\ q # <<>>
  <2>1. 1 \in 0..Len(q)
    BY <1>1, <1>4, EmptySeq
  <2> QED
    BY <1>4, <2>1
<1>5. CASE Admitted(q, h, w) =
             {i \in 1..Len(q) : \A j \in 1..i : ~(w /\ q[j] = Collector)}
  <2>1. CASE \E p \in 1..Len(q) : w /\ q[p] = Collector
    <3>1. PICK p \in 1..Len(q) : w /\ q[p] = Collector
      BY <2>1
    <3>2. p - 1 \in 0..Len(q) /\ p \in Nat
      BY <1>1
    <3>3. \A j \in 1..Len(q) : w /\ q[j] = Collector <=> j = p
      BY <3>1 DEF Once
    <3>4. Admitted(q, h, w) = 1..p - 1
      BY <1>1, <1>5, <3>2, <3>3
    <3> QED
      BY <3>2, <3>4
  <2>2. CASE ~\E p \in 1..Len(q) : w /\ q[p] = Collector
    <3>1. Admitted(q, h, w) = 1..Len(q)
      BY <1>1, <1>5, <2>2
    <3> QED
      BY <1>1, <3>1
  <2> QED
    BY <2>1, <2>2
<1> QED
  BY <1>3, <1>4, <1>5 DEF Admitted

\* Nobody loses the lock to others; the collector gets it only from its place
\* in the queue, and leaves that.
LEMMA SettleKeepsPlaces ==
  ASSUME NEW q \in Seq(Tasks), NEW h \in SUBSET Tasks, NEW w \in BOOLEAN,
         Once(q), Queued(q) => Collector \notin h, Settle(q, h, w)
  PROVE  /\ h \subseteq granted'
         /\ Collector \in granted' => Collector \in h \/ Queued(q)
         /\ Once(queue)'
         /\ Queued(queue)' => Queued(q) /\ Collector \notin granted'
<1>1. PICK k \in 0..Len(q) :
        Admitted(q, h, w) = 1..k /\ Cardinality(Admitted(q, h, w)) = k
  BY AdmittedPrefix
<1>2. Len(q) \in Nat /\ k \in Nat /\ k <= Len(q)
  OBVIOUS
<1>3. granted' = h \cup {q[i] : i \in 1..k} /\ queue' = SubSeq(q, k + 1, Len(q))
  BY <1>1 DEF Settle
<1>4. /\ Len(queue') = Len(q) - k
      /\ \A i \in 1..Len(queue') : k + i \in 1..Len(q) /\ queue'[i] = q[k + i]
  <2>1. \A i \in k + 1..Len(q) : q[i] \in Tasks
    BY <1>2
  <2>2. Len(queue') = IF k + 1 <= Len(q) THEN Len(q) - (k + 1) + 1 ELSE 0
    BY <1>2, <1>3, <2>1, SubSeqProperties
  <2>3. \A i \in 1..Len(q) - k : queue'[i] = q[k + 1 + i - 1]
    BY <1>2, <1>3, <2>1, SubSeqProperties
  <2>4. \A i \in 1..Len(q) - k : k + 1 + i - 1 = k + i /\ k + i \in 1..Len(q)
    BY <1>2
  <2>5. Len(queue') = Len(q) - k
    BY <1>2, <2>2
  <2>6. \A i \in 1..Len(q) - k : k + i \in 1..Len(q) /\ queue'[i] = q[k + i]
    BY <2>3, <2>4
  <2> QED
    BY <2>5, <2>6
<1>5. /\ h \subseteq granted'
      /\ Collector \in granted' => Collector \in h \/ Queued(q)
  BY <1>2, <1>3 DEF Queued
<1>6. Once(queue)'
  <2> SUFFICES ASSUME NEW i \in 1..Len(queue'), NEW j \in 1..Len(queue'),
                      queue'[i] = Collector, queue'[j] = Collector
               PROVE  i = j
    BY DEF Once
  <2>1. k + i = k + j
    BY <1>4 DEF Once
  <2> QED
    BY <1>2, <1>4, <2>1
<1>7. ASSUME NEW i \in 1..Len(queue'), queue'[i] = Collector
      PROVE  Queued(q) /\ Collector \notin granted'
  <2>1. k + i \in 1..Len(q) /\ q[k + i] = Collector /\ i \in Nat /\ i >= 1
    BY <1>2, <1>4, <1>7
  <2>2. Queued(q)
    BY <2>1 DEF Queued
  <2>3. \A j \in 1..k : q[j] # Collector
    <3> SUFFICES ASSUME NEW j \in 1..k, q[j] = Collector PROVE FALSE
      OBVIOUS
    <3>1. j \in 1..Len(q)
      BY <1>2
    <3>2. j = k + i
      BY <2>1, <3>1 DEF Once
    <3> QED
      BY <1>2, <2>1, <3>2
  <2> QED
    BY <1>3, <2>2, <2>3
<1> QED
  BY <1>5, <1>6, <1>7 DEF Queued

\* A writer gets the lock when nobody else has it, and while it has it nobody
\* else gets it.
LEMMA WriterAlone ==
  ASSUME NEW q \in Seq(Tasks), NEW h \in SUBSET Tasks,
         Collector \in h => h = {Collector}, Settle(q, h, TRUE),
         Collector \in granted'
  PROVE  granted' = {Collector}
<1>1. granted' = h \cup {q[i] : i \in Admitted(q, h, TRUE)}
  BY DEF Settle
<1>2. CASE Collector \in h
  BY <1>1, <1>2 DEF Admitted
<1>3. CASE Collector \notin h
  <2>1. PICK i \in Admitted(q, h, TRUE) : q[i] = Collector
    BY <1>1, <1>3
  <2>2. CASE q # <<>> /\ Head(q) = Collector
    <3>1. h = {} /\ Admitted(q, h, TRUE) = {1}
      BY <1>3, <2>1, <2>2 DEF Admitted
    <3> QED
      BY <1>1, <2>1, <3>1
  <2>3. CASE ~(q # <<>> /\ Head(q) = Collector)
    <3>1. i \in 1..Len(q) /\ \A j \in 1..i : q[j] # Collector
      BY <1>3, <2>1, <2>3 DEF Admitted
    <3>2. i \in 1..i
      BY <3>1
    <3> QED
      BY <2>1, <3>1, <3>2
  <2> QED
    BY <2>2, <2>3
<1> QED
  BY <1>2, <1>3

\* A task joins the queue at its end, ...
LEMMA AppendPlaces ==
  ASSUME NEW q \in Seq(Tasks), NEW task \in Tasks, Once(q),
         task = Collector => ~Queued(q)
  PROVE  /\ Append(q, task) \in Seq(Tasks)
         /\ Once(Append(q, task))
         /\ Queued(Append(q, task)) => Queued(q) \/ task = Collector
<1>1. /\ Append(q, task) \in Seq(Tasks) /\ Len(q) \in Nat
      /\ Len(Append(q, task)) = Len(q) + 1
      /\ Append(q, task)[Len(q) + 1] = task
      /\ \A i \in 1..Len(q) : Append(q, task)[i] = q[i]
  BY AppendProperties
<1>2. \A i \in 1..Len(q) + 1 : i \in 1..Len(q) \/ i = Len(q) + 1
  BY <1>1
<1>3. Queued(Append(q, task)) => Queued(q) \/ task = Collector
  BY <1>1, <1>2 DEF Queued
<1>4. Once(Append(q, task))
  BY <1>1, <1>2 DEF Once, Queued
<1> QED
  BY <1>1, <1>3, <1>4

\* ... and the collector, aborted, is out of it.
LEMMA WithoutPlaces ==
  ASSUME NEW q \in Seq(Tasks), Once(q)
  PROVE  ~Queued(Without(q, Collector))
<1> DEFINE places == {i \in 1..Len(q) : q[i] = Collector}
<1>1. CASE places = {}
  BY <1>1 DEF Without, Queued
<1>2. CASE places # {}
  <2>1. PICK p \in 1..Len(q) : p = CHOOSE x \in places : TRUE
    BY <1>2
  <2>2. /\ q[p] = Collector /\ Len(q) \in Nat
        /\ \A j \in 1..Len(q) : q[j] = Collector => j = p
    BY <1>2, <2>1 DEF Once
  <2> DEFINE ahead  == SubSeq(q, 1, p - 1)
             behind == SubSeq(q, p + 1, Len(q))
  <2>3. Without(q, Collector) = ahead \o behind
    BY <1>2, <2>1 DEF Without
  <2>4. /\ ahead \in Seq(Tasks) /\ Len(ahead) = p - 1
        /\ \A i \in 1..p - 1 : ahead[i] = q[i]
    <3>1. \A i \in 1..p - 1 : q[i] \in Tasks
      BY <2>2
    <3>2. /\ ahead \in Seq(Tasks)
          /\ Len(ahead) = IF 1 <= p - 1 THEN p - 1 - 1 + 1 ELSE 0
          /\ \A i \in 1..p - 1 - 1 + 1 : ahead[i] = q[1 + i - 1]
      BY <2>2, <3>1, SubSeqProperties
    <3>3. \A i \in 1..p - 1 : i \in 1..p - 1 - 1 + 1 /\ 1 + i - 1 = i
      OBVIOUS
    <3> QED
      BY <3>2, <3>3
  <2>5. /\ behind \in Seq(Tasks) /\ Len(behind) = Len(q) - p
        /\ \A i \in 1..Len(q) - p : behind[i] = q[p + i]
    <3>1. \A i \in p + 1..Len(q) : q[i] \in Tasks
      BY <2>2
    <3>2. /\ behind \in Seq(Tasks)
          /\ Len(behind) = IF p + 1 <= Len(q) THEN Len(q) - (p + 1) + 1 ELSE 0
          /\ \A i \in 1..Len(q) - (p + 1) + 1 : behind[i] = q[p + 1 + i - 1]
      BY <2>2, <3>1, SubSeqProperties
    <3>3. \A i \in 1..Len(q) - p :
            i \in 1..Len(q) - (p + 1) + 1 /\ p + 1 + i - 1 = p + i
      BY <2>2
    <3> QED
      BY <2>2, <3>2, <3>3
  <2> HIDE DEF places, ahead, behind
  <2> SUFFICES ASSUME NEW i \in 1..Len(ahead \o behind),
                      (ahead \o behind)[i] = Collector
               PROVE  FALSE
    BY <2>3 DEF Queued
  <2>6. /\ Len(ahead \o behind) = p - 1 + (Len(q) - p)
        /\ i <= p - 1 => (ahead \o behind)[i] = ahead[i]
        /\ i > p - 1 => (ahead \o behind)[i] = behind[i - (p - 1)]
    <3>1. /\ Len(ahead \o behind) = Len(ahead) + Len(behind)
          /\ \A j \in 1..Len(ahead) + Len(behind) :
               (ahead \o behind)[j] = IF j <= Len(ahead) THEN ahead[j]
                                      ELSE behind[j - Len(ahead)]
      BY <2>4, <2>5, ConcatProperties
    <3>2. Len(ahead) = p - 1 /\ Len(behind) = Len(q) - p
      BY <2>4, <2>5
    <3>3. i \in 1..Len(ahead) + Len(behind)
      BY <3>1
    <3>4. (ahead \o behind)[i] = IF i <= Len(ahead) THEN ahead[i]
                               ELSE behind[i - Len(ahead)]
      BY <3>1, <3>3
    <3>5. i \in Int /\ p \in Int
      OBVIOUS
    <3> QED
      BY <3>1, <3>2, <3>4, <3>5
  <2>7. CASE i <= p - 1
    <3>1. q[i] = Collector /\ i \in 1..Len(q) /\ i # p
      BY <2>2, <2>4, <2>6, <2>7
    <3> QED
      BY <2>2, <3>1
  <2>8. CASE i > p - 1
    <3>1. i - (p - 1) \in 1..Len(q) - p
      BY <2>2, <2>6, <2>8
    <3>2. q[p + (i - (p - 1))] = Collector /\ p + (i - (p - 1)) \in 1..Len(q)
          /\ p + (i - (p - 1)) # p
      BY <2>2, <2>5, <2>6, <2>8, <3>1
    <3> QED
      BY <2>2, <3>2
  <2> QED
    BY <2>6, <2>7, <2>8
<1> QED
  BY <1>1, <1>2

\* What a step that asks for the lock or returns it has to see to.
LEMMA SettleInv ==
  ASSUME NEW q \in Seq(Tasks), NEW h \in SUBSET Tasks, NEW w \in BOOLEAN,
         Settle(q, h, w), Once(q),
         Queued(q) => collector' \in {"pass", "due"} /\ Collector \notin h,
         collector' = "sleep" => Collector \notin h,
         collector' = "pass" => w /\ (Collector \in h => h = {Collector}),
         main' = "saving" => Main \in h
  PROVE  QueueInv' /\ ExclusionInv'
<1>1. /\ h \subseteq granted'
      /\ Collector \in granted' => Collector \in h \/ Queued(q)
      /\ Once(queue)'
      /\ Queued(queue)' => Queued(q) /\ Collector \notin granted'
  BY SettleKeepsPlaces
<1>2. QueueInv'
  BY <1>1 DEF QueueInv
<1>3. ExclusionInv'
  <2>1. ASSUME collector' = "pass", Collector \in granted'
        PROVE  granted' = {Collector}
    <3>1. Settle(q, h, TRUE)
      BY <2>1
    <3> QED
      BY <2>1, <3>1, WriterAlone
  <2> QED
    BY <1>1, <2>1 DEF ExclusionInv
<1> QED
  BY <1>2, <1>3

LEMMA LockNext ==
  ASSUME LockInv, [Next]_vars
  PROVE  QueueInv' /\ ExclusionInv'
<1> USE DaemonAssumption
<1>1. /\ queue \in Seq(Tasks) /\ granted \in SUBSET Tasks /\ Once(queue)
      /\ \A task \in Tasks : granted \ {task} \in SUBSET Tasks
      /\ Collector \in Tasks /\ Main \in Tasks /\ Queries \subseteq Tasks
      /\ Collector # Main /\ Collector \notin Queries
      /\ PassPending \in BOOLEAN
  BY DEF LockInv, TypeOK, QueueInv, Tasks, PassPending
<1>2. /\ Queued(queue) => collector \in {"pass", "due"} /\ Collector \notin granted
      /\ collector = "sleep" => Collector \notin granted
      /\ collector = "pass" /\ Collector \in granted => granted = {Collector}
      /\ main = "saving" => Main \in granted
  BY DEF LockInv, QueueInv, ExclusionInv
<1>3. ASSUME UNCHANGED lockVars,
             \/ UNCHANGED collector
             \/ collector' = "saving" /\ Collector \in granted,
             main' = "saving" => main = "saving" \/ Main \in granted
      PROVE  QueueInv' /\ ExclusionInv'
  BY <1>1, <1>2, <1>3 DEF lockVars, QueueInv, ExclusionInv, Queued, Once
<1>4. CASE StartPass
  <2>1. /\ Settle(Append(queue, Collector), granted, TRUE)
        /\ collector = "sleep" /\ collector' = "pass" /\ main' = "serving"
    BY <1>4 DEF StartPass
  <2>2. ~Queued(queue) /\ Collector \notin granted
    BY <1>2, <2>1
  <2>3. Append(queue, Collector) \in Seq(Tasks) /\ Once(Append(queue, Collector))
    BY <1>1, <2>2, AppendPlaces
  <2> QED
    BY <1>1, <2>1, <2>2, <2>3, SettleInv
<1>5. CASE EndPass
  <2>1. /\ Collector \in granted /\ main' = "serving"
        /\ \/ /\ collector' = "due"
              /\ Settle(Append(queue, Collector), granted \ {Collector}, FALSE)
           \/ /\ collector' = "sleep"
              /\ Settle(queue, granted \ {Collector}, FALSE)
    BY <1>5 DEF EndPass
  <2>2. ~Queued(queue)
    BY <1>2, <2>1
  <2>3. Append(queue, Collector) \in Seq(Tasks) /\ Once(Append(queue, Collector))
    BY <1>1, <2>2, AppendPlaces
  <2>4. Collector \notin granted \ {Collector} /\ granted \ {Collector} \in SUBSET Tasks
    BY <1>1
  <2>5. CASE collector' = "due" /\ Settle(Append(queue, Collector), granted \ {Collector}, FALSE)
    BY <2>1, <2>3, <2>4, <2>5, SettleInv
  <2>6. CASE collector' = "sleep" /\ Settle(queue, granted \ {Collector}, FALSE)
    BY <1>1, <2>1, <2>2, <2>4, <2>6, SettleInv
  <2> QED
    BY <2>1, <2>5, <2>6
<1>6. CASE EndSave
  <2>1. /\ Settle(queue, granted \ {Collector}, FALSE)
        /\ collector = "saving" /\ collector' = "sleep" /\ main' = main
    BY <1>6 DEF EndSave
  <2>2. ~Queued(queue)
    BY <1>2, <2>1
  <2>3. /\ Collector \notin granted \ {Collector}
        /\ granted \ {Collector} \in SUBSET Tasks
        /\ main' = "saving" => Main \in granted \ {Collector}
    BY <1>1, <1>2, <2>1
  <2> QED
    BY <1>1, <2>1, <2>2, <2>3, SettleInv
<1>7. ASSUME NEW q \in Queries, AskQuery(q)
      PROVE  QueueInv' /\ ExclusionInv'
  <2>1. /\ Settle(Append(queue, q), granted, PassPending)
        /\ collector' = collector /\ main' # "saving"
    BY <1>7 DEF AskQuery, ThreadFree
  <2>2. q \in Tasks /\ q # Collector
    BY <1>1
  <2>3. /\ Append(queue, q) \in Seq(Tasks) /\ Once(Append(queue, q))
        /\ Queued(Append(queue, q)) => Queued(queue)
    BY <1>1, <2>2, AppendPlaces
  <2>4. collector' = "pass" => PassPending
    BY <2>1 DEF PassPending
  <2> QED
    BY <1>1, <1>2, <2>1, <2>3, <2>4, SettleInv
<1>8. ASSUME NEW q \in Queries, AnswerQuery(q)
      PROVE  QueueInv' /\ ExclusionInv'
  <2>1. /\ Settle(queue, granted \ {q}, PassPending)
        /\ collector' = collector /\ main' # "saving"
    BY <1>8 DEF AnswerQuery, ThreadFree
  <2>2. /\ q \in Tasks /\ q # Collector
        /\ granted \ {q} \in SUBSET Tasks
    BY <1>1
  <2>3. collector' = "pass" =>
          /\ PassPending
          /\ Collector \in granted \ {q} => granted \ {q} = {Collector}
    BY <1>2, <2>1, <2>2 DEF PassPending
  <2> QED
    BY <1>1, <1>2, <2>1, <2>2, <2>3, SettleInv
<1>9. CASE Stop
  <2>1. /\ Settle(Append(queue, Main), granted, PassPending)
        /\ collector' = collector /\ main' = "stopping"
    BY <1>9 DEF Stop
  <2>2. /\ Append(queue, Main) \in Seq(Tasks) /\ Once(Append(queue, Main))
        /\ Queued(Append(queue, Main)) => Queued(queue)
    BY <1>1, AppendPlaces
  <2>3. collector' = "pass" => PassPending
    BY <2>1 DEF PassPending
  <2> QED
    BY <1>1, <1>2, <2>1, <2>2, <2>3, SettleInv
<1>10. CASE DropCollector
  <2>1. /\ Settle(Without(queue, Collector), granted \ {Collector}, FALSE)
        /\ collector' = "sleep" /\ main' # "saving"
    BY <1>10 DEF DropCollector
  <2>2. Without(queue, Collector) \in Seq(Tasks) /\ ~Queued(Without(queue, Collector))
    BY <1>1, WithoutTypes, WithoutPlaces
  <2>3. Once(Without(queue, Collector))
    BY <2>2 DEF Once, Queued
  <2>4. Collector \notin granted \ {Collector} /\ granted \ {Collector} \in SUBSET Tasks
    BY <1>1
  <2> QED
    BY <2>1, <2>2, <2>3, <2>4, SettleInv
<1>11. CASE EndFinalSave \/ Kill
  <2>1. queue' = <<>> /\ granted' = {} /\ main' = "down" /\ collector' = "sleep"
    BY <1>11 DEF EndFinalSave, Kill, Die
  <2>2. ~Queued(queue)' /\ Once(queue)'
    BY <2>1 DEF Queued, Once
  <2> QED
    BY <2>1, <2>2 DEF QueueInv, ExclusionInv
<1>12. CASE Tick \/ SetBack \/ Collect \/ Signal \/ Restart \/ UNCHANGED vars
  BY <1>3, <1>12 DEF Tick, SetBack, Collect, Signal, Restart, vars, lockVars
<1>13. CASE BeginSave
  BY <1>3, <1>13 DEF BeginSave
<1>14. CASE BeginFinalSave
  BY <1>3, <1>14 DEF BeginFinalSave
<1> QED
  BY <1>4, <1>5, <1>6, <1>7, <1>8, <1>9, <1>10, <1>11, <1>12, <1>13, <1>14 DEF Next

\* The final snapshot is not written while a pass is at work on the store,
\* wherever in a pass the signal came and however many queries are waiting
\* (src/main.rs: "nothing is mid-write below").
THEOREM NeverMidWrite == Spec => []NothingMidWrite
<1>1. Init => LockInv
  <2> SUFFICES ASSUME Init PROVE QueueInv /\ ExclusionInv
    BY InitTypes DEF LockInv
  <2>1. queue = <<>> /\ granted = {} /\ main = "serving" /\ Len(<<>>) = 0
    BY DEF Init
  <2> QED
    BY <2>1 DEF QueueInv, ExclusionInv, Once, Queued
<1>2. LockInv /\ [Next]_vars => LockInv'
  BY LockNext, NextTypes DEF LockInv
<1>3. LockInv => NothingMidWrite
  BY DaemonAssumption DEF LockInv, ExclusionInv, NothingMidWrite
<1> QED
  BY <1>1, <1>2, <1>3, PTL DEF Spec

=============================================================================
