--------------------------- MODULE UpgradeProofs ---------------------------
(***************************************************************************)
(* What holds of upgrades.  Of one node's, for any number of updaters and  *)
(* starts: no teardown is forced, and unless two daemons were once in      *)
(* acquireLock together, the lock covers a running updater and a recorded  *)
(* outcome says what is installed.  Of a fleet's, for any peers and calls: *)
(* one node at a time is at risk, the first failure is the last, this node *)
(* goes last, no loop outlives the daemon, and a failure that stops a      *)
(* rollout is of an attempt that was not over when the peer was last heard *)
(* before the push.                                                        *)
(***************************************************************************)
EXTENDS NodeUpgrade, FleetRollout, FiniteSetTheorems, TLAPS


(* A process that does not serve has no upgrade in hand and no timer set.  *)
IdleUnlessServing ==
  \A p \in Pids : proc[p].phase \in {"none", "starting", "dead"} =>
    proc[p].run = "none" /\ proc[p].timers = {}

(* What an updater may wait for, or kill, is a process: the daemon that    *)
(* started it, and one that it has started.                                *)
ProcessesKnown ==
  \A u \in Updaters :
    /\ Running(u) => upd[u].old # 0
    /\ upd[u].pc \in {"checking", "killing", "rechecking"} => upd[u].child # 0

(* One daemon at a time is in acquireLock.                                 *)
OneInside == \A p, q \in Pids : Inside(p) /\ Inside(q) => p = q

(* The file is that of the daemon that writes it, and until the updater is *)
(* started that of the daemon that wrote it.                               *)
WriterHoldsLock ==
  \A p \in Pids : proc[p].run = "writing" => lock.pid = p /\ ~lock.body /\ ~lock.aged
LockedHoldsLock ==
  \A p \in Pids : proc[p].run = "locked" => lock.pid = p /\ lock.body /\ ~lock.aged

(* A running updater has a lock that nobody may take over: it names the    *)
(* daemon that started it.                                                 *)
RunningHoldsLock ==
  \A u \in Updaters : Running(u) => lock.pid = upd[u].old /\ lock.body /\ ~lock.aged

(* Nobody's lock is about to be removed.                                   *)
RemovesFree ==
  \A p \in Pids : proc[p].run \in {"removing", "clearing"} =>
    /\ \A q \in Pids : proc[q].run # "locked"
    /\ \A u \in Updaters : ~Running(u)

(* The lock covers a daemon about to start an updater, or an updater, and  *)
(* never both.                                                             *)
OneHolder ==
  /\ \A u, w \in Updaters : Running(u) /\ Running(w) => u = w
  /\ \A p \in Pids, u \in Updaters : proc[p].run = "locked" => ~Running(u)

Exclusive == /\ OneInside /\ WriterHoldsLock /\ LockedHoldsLock
             /\ RunningHoldsLock /\ RemovesFree /\ OneHolder

(* Where an updater is says what it left installed: from its install on    *)
(* the new release, from its rollback on the previous one.                 *)
InstalledAsFar ==
  \A u \in Updaters :
    /\ upd[u].pc \in {"launching", "checking", "killing"} => installed = "new"
    /\ At(u, "rechecking") => installed = "old"

UpgradeInv == /\ TypeOK /\ NoForcedExit
              /\ IdleUnlessServing /\ ProcessesKnown
              /\ ~overlapped => Exclusive /\ InstalledAsFar
              /\ OutcomeTruthful

-----------------------------------------------------------------------------
(* The shapes of a process and of an updater, as TypeOK writes them.       *)
Process == [phase : {"none", "starting", "up", "stopping", "dead"},
            version : {"old", "new"},
            run : Acquiring \cup {"none", "preparing", "locked", "handed"},
            asked : BOOLEAN, timers : SUBSET {"stop", "upgrade"}]
Updater == [pc : {"none", "waiting", "installing", "launching", "checking", "killing",
                  "recovering", "rechecking", "ended", "done", "dead"},
            old : Pids \cup {0}, child : Pids \cup {0}, rollback : BOOLEAN,
            outcome : {"none", "succeeded", "rolled-back", "failed"}]

Lock == [pid : Pids \cup {0}, body : BOOLEAN, aged : BOOLEAN]

LEMMA UpgradeConstants ==
  /\ NoProc \in Process /\ Dead \in Process /\ NoUpdater \in Updater
  /\ Dead.run = "none" /\ Dead.timers = {} /\ Dead.phase = "dead"
  /\ NoLock \in Lock /\ NoLock.pid = 0 /\ NoLock.body = FALSE /\ NoLock.aged = FALSE
  /\ 0 \notin Pids /\ 1 \in Pids
<1>1. NoProc \in Process /\ Dead \in Process /\ NoUpdater \in Updater
  BY DEF NoProc, Dead, Process, NoUpdater, Updater
<1>2. Dead.run = "none" /\ Dead.timers = {} /\ Dead.phase = "dead"
  BY DEF NoProc, Dead
<1>3. NoLock \in Lock /\ NoLock.pid = 0 /\ NoLock.body = FALSE /\ NoLock.aged = FALSE
  BY DEF NoLock, Lock
<1>4. 0 \notin Pids /\ 1 \in Pids
  BY UpgradeAssumption DEF Pids
<1> QED BY <1>1, <1>2, <1>3, <1>4

(* A launched process is idle; one that is killed keeps what it had in     *)
(* hand only while it stops.                                               *)
LEMMA LaunchedKeeps ==
  ASSUME TypeOK, IdleUnlessServing, NEW p \in Pids,
         NEW release \in {"old", "new", "broken"}, Launched(p, release)
  PROVE  /\ proc' \in [Pids -> Process]
         /\ proc'[p].run = "none" /\ proc'[p].timers = {}
         /\ \A q \in Pids \ {p} : proc'[q] = proc[q]
<1>1. proc \in [Pids -> Process]
  BY DEF TypeOK, Process
<1>2. CASE release = "broken"
  BY <1>1, <1>2, UpgradeConstants DEF Launched
<1>3. CASE release # "broken"
  <2> DEFINE fresh == [NoProc EXCEPT !.phase = "starting", !.version = release]
  <2>1. fresh \in Process /\ fresh.run = "none" /\ fresh.timers = {}
    BY <1>3 DEF NoProc, Process
  <2>2. proc' = [proc EXCEPT ![p] = fresh]
    BY <1>3 DEF Launched
  <2> QED BY <1>1, <2>1, <2>2
<1> QED BY <1>2, <1>3

LEMMA KilledKeeps ==
  ASSUME TypeOK, IdleUnlessServing, NEW p \in Pids, Killed(p)
  PROVE  /\ proc' \in [Pids -> Process]
         /\ IdleUnlessServing'
         /\ \A q \in Pids : proc'[q].run \in {proc[q].run, "none"}
<1>1. proc \in [Pids -> Process]
  BY DEF TypeOK, Process
<1>2. CASE proc[p].phase = "stopping"
  <2>1. proc' = [proc EXCEPT ![p] = Dead]
    BY <1>2 DEF Killed
  <2> QED BY <1>1, <2>1, UpgradeConstants DEF IdleUnlessServing
<1>3. CASE proc[p].phase # "stopping"
  <2> DEFINE stopping == [proc[p] EXCEPT !.phase = "stopping"]
  <2>1. proc' = [proc EXCEPT ![p] = stopping]
    BY <1>3 DEF Killed
  <2>2. /\ stopping \in Process /\ stopping.phase = "stopping"
        /\ stopping.run = proc[p].run
    BY <1>1 DEF Process
  <2> HIDE DEF stopping
  <2> QED BY <1>1, <2>1, <2>2 DEF IdleUnlessServing
<1> QED BY <1>2, <1>3

LEMMA ShutdownKeeps ==
  ASSUME TypeOK, IdleUnlessServing, NEW p \in Pids, Up(p),
         NEW timer \in {"stop", "upgrade"}, Shutdown(p, timer)
  PROVE  /\ proc' \in [Pids -> Process]
         /\ IdleUnlessServing'
         /\ \A q \in Pids : proc'[q].run = proc[q].run
         /\ forced' = forced
<1>1. proc \in [Pids -> Process]
  BY DEF TypeOK, Process
<1> DEFINE leaving == [proc[p] EXCEPT !.phase = "stopping", !.asked = TRUE,
                                      !.timers = @ \ {timer}]
<1>2. proc' = [proc EXCEPT ![p] = leaving] /\ forced' = forced
  BY DEF Shutdown
<1>3. leaving \in Process /\ leaving.phase = "stopping" /\ leaving.run = proc[p].run
  BY <1>1 DEF Process
<1> HIDE DEF leaving
<1> QED BY <1>1, <1>2, <1>3 DEF IdleUnlessServing

LEMMA TimerDroppedKeeps ==
  ASSUME TypeOK, IdleUnlessServing, NEW p \in Pids,
         NEW timer \in {"stop", "upgrade"}, TimerDropped(p, timer)
  PROVE  /\ proc' \in [Pids -> Process]
         /\ IdleUnlessServing'
         /\ \A q \in Pids : proc'[q].run = proc[q].run
         /\ forced' = forced
<1>1. proc \in [Pids -> Process]
  BY DEF TypeOK, Process
<1> DEFINE left == [proc[p] EXCEPT !.timers = @ \ {timer}]
<1>2. proc' = [proc EXCEPT ![p] = left] /\ forced' = forced
  BY DEF TimerDropped
<1>3. /\ left \in Process /\ left.phase = proc[p].phase /\ left.run = proc[p].run
      /\ left.timers \subseteq proc[p].timers
  BY <1>1 DEF Process
<1> HIDE DEF left
<1> QED BY <1>1, <1>2, <1>3 DEF IdleUnlessServing

(* A step of acquireLock moves a daemon that has an upgrade in hand.       *)
LEMMA AcquireStepIs ==
  ASSUME NEW p \in Pids, AcquireStep(p)
  PROVE  /\ proc[p].run # "none" /\ Alive(p)
         /\ \E to \in Acquiring \cup {"none", "locked"} : Acquires(p, to)
BY DEF AcquireStep, LockCreated, LockWritten, LockFound, LockRead, LockRemoved, Acquires, Acquiring

(* What a step does to the processes: it leaves them well formed, and idle *)
(* unless they serve; and no teardown is forced, because the daemon's own  *)
(* requests reach homefleetd's shutdown only while it is up.               *)
LEMMA ProcessStep ==
  ASSUME UpgradeInv, Next
  PROVE  proc' \in [Pids -> Process] /\ IdleUnlessServing' /\ forced' = {}
<1> USE DEF UpgradeInv, NoForcedExit
<1>1. proc \in [Pids -> Process]
  BY DEF TypeOK, Process
<1>2. ASSUME UNCHANGED <<proc, forced>>
      PROVE  proc' \in [Pids -> Process] /\ IdleUnlessServing' /\ forced' = {}
  BY <1>1, <1>2 DEF IdleUnlessServing
<1>3. ASSUME NEW p \in Pids, NEW release \in {"old", "new", "broken"},
             Launched(p, release), UNCHANGED forced
      PROVE  proc' \in [Pids -> Process] /\ IdleUnlessServing' /\ forced' = {}
  BY <1>3, LaunchedKeeps DEF IdleUnlessServing
<1>4. ASSUME NEW p \in Pids, IF Alive(p) THEN Killed(p) ELSE UNCHANGED proc,
             UNCHANGED forced
      PROVE  proc' \in [Pids -> Process] /\ IdleUnlessServing' /\ forced' = {}
  BY <1>1, <1>2, <1>4, KilledKeeps
<1>5. ASSUME NEW p \in Pids, NEW d \in Process, proc' = [proc EXCEPT ![p] = d],
             d.phase \in {"up", "stopping"} \/ (d.run = "none" /\ d.timers = {}),
             UNCHANGED forced
      PROVE  proc' \in [Pids -> Process] /\ IdleUnlessServing' /\ forced' = {}
  BY <1>1, <1>5 DEF IdleUnlessServing
<1>6. installed \in {"old", "new", "broken"}
  BY DEF TypeOK
<1>7. ASSUME NEW p \in Pids, DaemonStep(p)
      PROVE  proc' \in [Pids -> Process] /\ IdleUnlessServing' /\ forced' = {}
  <2>1. CASE UserStart(p)
    BY <1>3, <1>6, <2>1 DEF UserStart
  <2>2. CASE ComesUp(p)
    <3> DEFINE d == [proc[p] EXCEPT !.phase = "up"]
    <3>1. proc' = [proc EXCEPT ![p] = d] /\ UNCHANGED forced
      BY <2>2 DEF ComesUp
    <3>2. d \in Process /\ d.phase = "up"
      BY <1>1 DEF Process
    <3> QED BY <1>5, <3>1, <3>2
  <2>3. CASE Exits(p)
    BY <1>5, <2>3, UpgradeConstants DEF Exits
  <2>4. CASE Signal(p)
    <3> DEFINE d == [proc[p] EXCEPT !.phase = "stopping"]
    <3>1. proc' = [proc EXCEPT ![p] = d] /\ UNCHANGED forced
      BY <2>4 DEF Signal
    <3>2. d \in Process /\ d.phase = "stopping"
      BY <1>1 DEF Process
    <3> QED BY <1>5, <3>1, <3>2
  <2>5. CASE StopRequested(p)
    <3> DEFINE d == [proc[p] EXCEPT !.asked = TRUE, !.timers = @ \cup {"stop"}]
    <3>1. proc' = [proc EXCEPT ![p] = d] /\ UNCHANGED forced
      BY <2>5 DEF StopRequested
    <3>2. d \in Process /\ d.phase = "up"
      BY <1>1, <2>5 DEF Process, StopRequested, Up
    <3> QED BY <1>5, <3>1, <3>2
  <2>6. CASE StopTimer(p)
    <3>1. CASE Up(p)
      BY <2>6, <3>1, ShutdownKeeps DEF StopTimer
    <3>2. CASE ~Up(p)
      BY <2>6, <3>2, TimerDroppedKeeps DEF StopTimer
    <3> QED BY <3>1, <3>2
  <2>7. CASE UpgradeTimer(p)
    <3>1. CASE IsStopping(p)
      BY <2>7, <3>1, TimerDroppedKeeps DEF UpgradeTimer
    <3>2. CASE ~IsStopping(p)
      <4>1. Up(p)
        BY <2>7, <3>2 DEF UpgradeTimer, IsStopping, Alive, Up, IdleUnlessServing
      <4> QED BY <2>7, <3>2, <4>1, ShutdownKeeps DEF UpgradeTimer
    <3> QED BY <3>1, <3>2
  <2>8. CASE UpgradeClaimed(p)
    <3> DEFINE d == [proc[p] EXCEPT !.run = "preparing"]
    <3>1. proc' = [proc EXCEPT ![p] = d] /\ UNCHANGED forced
      BY <2>8 DEF UpgradeClaimed
    <3>2. d \in Process /\ d.phase = "up"
      BY <1>1, <2>8 DEF Process, UpgradeClaimed, Up
    <3> QED BY <1>5, <3>1, <3>2
  <2>9. ASSUME Alive(p), proc[p].run # "none"
        PROVE  proc[p].phase \in {"up", "stopping"}
    BY <1>1, <2>9 DEF Alive, IdleUnlessServing, Process
  <2>10. CASE UpgradeRefused(p)
    <3> DEFINE d == [proc[p] EXCEPT !.run = "none"]
    <3>1. proc' = [proc EXCEPT ![p] = d] /\ UNCHANGED forced
      BY <2>10 DEF UpgradeRefused
    <3>2. d \in Process /\ d.phase \in {"up", "stopping"}
      BY <1>1, <2>9, <2>10 DEF Process, UpgradeRefused
    <3> QED BY <1>5, <3>1, <3>2
  <2>11. CASE AcquireStep(p)
    <3>1. PICK to \in Acquiring \cup {"none", "locked"} : Acquires(p, to)
      BY <2>11, AcquireStepIs
    <3> DEFINE d == [proc[p] EXCEPT !.run = to]
    <3>2. proc' = [proc EXCEPT ![p] = d] /\ UNCHANGED forced
      BY <3>1 DEF Acquires
    <3>3. d \in Process /\ d.phase \in {"up", "stopping"}
      BY <1>1, <2>9, <2>11, <3>1, AcquireStepIs DEF Process, Acquires
    <3> QED BY <1>5, <3>2, <3>3
  <2>12. CASE SpawnFails(p)
    <3> DEFINE d == [proc[p] EXCEPT !.run = "none"]
    <3>1. proc' = [proc EXCEPT ![p] = d] /\ UNCHANGED forced
      BY <2>12 DEF SpawnFails
    <3>2. d \in Process /\ d.phase \in {"up", "stopping"}
      BY <1>1, <2>9, <2>12 DEF Process, SpawnFails
    <3> QED BY <1>5, <3>1, <3>2
  <2>13. ASSUME NEW u \in Updaters, UpdaterSpawned(p, u)
         PROVE  proc' \in [Pids -> Process] /\ IdleUnlessServing' /\ forced' = {}
    <3> DEFINE d == [proc[p] EXCEPT !.run = "handed", !.timers = @ \cup {"upgrade"}]
    <3>1. proc' = [proc EXCEPT ![p] = d] /\ UNCHANGED forced
      BY <2>13 DEF UpdaterSpawned
    <3>2. proc[p].phase \in {"up", "stopping"}
      BY <2>9, <2>13 DEF UpdaterSpawned
    <3>3. d \in Process /\ d.phase \in {"up", "stopping"}
      BY <1>1, <3>2 DEF Process
    <3> QED BY <1>5, <3>1, <3>3
  <2> QED BY <1>7, <2>1, <2>2, <2>3, <2>4, <2>5, <2>6, <2>7, <2>8, <2>10, <2>11, <2>12,
             <2>13 DEF DaemonStep
<1>8. ASSUME NEW u \in Updaters, UpdaterStep(u) \/ UpdaterDies(u)
      PROVE  proc' \in [Pids -> Process] /\ IdleUnlessServing' /\ forced' = {}
  <2>1. \/ UNCHANGED <<proc, forced>>
        \/ \E p \in Pids :
             (IF Alive(p) THEN Killed(p) ELSE UNCHANGED proc) /\ UNCHANGED forced
        \/ \E p \in Pids, release \in {"old", "new", "broken"} :
             Launched(p, release) /\ UNCHANGED forced
    <3>1. upd[u].old \in Pids \cup {0} /\ upd[u].child \in Pids \cup {0}
      BY DEF TypeOK
    <3>2. CASE OldDaemonGone(u) \/ Unhealthy(u) \/ ChildGone(u) \/ RollbackUnhealthy(u)
      <4>1. CASE OldDaemonGone(u)
        <5>1. upd[u].old \in Pids
          BY <3>1, <4>1 DEF OldDaemonGone, ProcessesKnown, Running, At
        <5> QED BY <4>1, <5>1 DEF OldDaemonGone, WaitEnds
      <4>2. CASE Unhealthy(u) \/ ChildGone(u) \/ RollbackUnhealthy(u)
        <5>1. upd[u].child \in Pids
          BY <3>1, <4>2 DEF Unhealthy, ChildGone, RollbackUnhealthy, ProcessesKnown, At
        <5> QED BY <4>2, <5>1 DEF Unhealthy, ChildGone, RollbackUnhealthy, WaitEnds
      <4> QED BY <3>2, <4>1, <4>2
    <3>3. CASE Launches(u) \/ RollsBack(u)
      BY <1>6, <3>3 DEF Launches, RollsBack
    <3>4. CASE GivesUp(u)
      <4>1. installed' \in {"old", "new", "broken"}
        BY <1>6, <3>4 DEF GivesUp
      <4> QED BY <3>4, <4>1 DEF GivesUp
    <3>5. CASE Installs(u) \/ InstallFails(u) \/ Healthy(u) \/ RolledBack(u) \/ Throws(u)
               \/ Finishes(u) \/ UpdaterDies(u)
      BY <3>5 DEF Installs, InstallFails, Healthy, RolledBack, Throws, Finishes, UpdaterDies
    <3> QED BY <1>8, <3>2, <3>3, <3>4, <3>5 DEF UpdaterStep
  <2> QED BY <1>2, <1>3, <1>4, <2>1
<1> QED BY <1>2, <1>7, <1>8 DEF Next, LockAges

-----------------------------------------------------------------------------
(* Nobody enters or goes on in acquireLock, or comes out with the lock;    *)
(* and the updaters stay or go on under it.                                *)
NoneLocks ==
  \A p \in Pids : proc'[p].run \in Acquiring \cup {"locked"} => proc'[p].run = proc[p].run
NoneStarts ==
  \A u \in Updaters : Running(u)' => Running(u) /\ upd'[u].old = upd[u].old

(* The lock as the steps that have nothing to do with it leave it.         *)
LEMMA HoldersKept ==
  ASSUME Exclusive, NoneLocks, NoneStarts, lock' = lock
  PROVE  Exclusive'
<1>1. \A p \in Pids : /\ Inside(p)' => Inside(p)
                      /\ proc'[p].run \in {"writing", "locked", "removing", "clearing"} =>
                           proc'[p].run = proc[p].run
  BY DEF NoneLocks, Inside, Acquiring
<1>2. OneInside' /\ WriterHoldsLock' /\ LockedHoldsLock'
  BY <1>1 DEF Exclusive, OneInside, WriterHoldsLock, LockedHoldsLock
<1>3. RunningHoldsLock' /\ OneHolder'
  BY <1>1 DEF Exclusive, NoneStarts, RunningHoldsLock, OneHolder
<1>4. RemovesFree'
  BY <1>1 DEF Exclusive, NoneStarts, RemovesFree
<1> QED BY <1>2, <1>3, <1>4 DEF Exclusive

(* Of the steps of a daemon only those of acquireLock make it its holder.  *)
LEMMA DaemonNoneLocks ==
  ASSUME UpgradeInv, NEW p \in Pids, DaemonStep(p), ~AcquireStep(p)
  PROVE  NoneLocks
<1> USE DEF UpgradeInv
<1>1. proc \in [Pids -> Process] /\ installed \in {"old", "new", "broken"}
  BY DEF TypeOK, Process
<1>2. ASSUME NEW d \in Process, proc' = [proc EXCEPT ![p] = d],
             d.run \in {proc[p].run, "none", "preparing", "handed"}
      PROVE  NoneLocks
  BY <1>1, <1>2 DEF NoneLocks, Acquiring
<1>3. CASE UserStart(p)
  BY <1>1, <1>3, LaunchedKeeps DEF UserStart, NoneLocks, Acquiring
<1>4. CASE ComesUp(p)
  BY <1>1, <1>4 DEF ComesUp, NoneLocks, Process, Acquiring
<1>5. CASE Exits(p)
  BY <1>2, <1>5, UpgradeConstants DEF Exits
<1>6. CASE Signal(p)
  BY <1>1, <1>6 DEF Signal, NoneLocks, Process, Acquiring
<1>7. CASE StopRequested(p)
  BY <1>1, <1>7 DEF StopRequested, NoneLocks, Process, Acquiring
<1>8. CASE StopTimer(p)
  <2>1. CASE Up(p)
    BY <1>8, <2>1, ShutdownKeeps DEF StopTimer, NoneLocks
  <2>2. CASE ~Up(p)
    BY <1>8, <2>2, TimerDroppedKeeps DEF StopTimer, NoneLocks
  <2> QED BY <2>1, <2>2
<1>9. CASE UpgradeTimer(p)
  <2>1. CASE IsStopping(p)
    BY <1>9, <2>1, TimerDroppedKeeps DEF UpgradeTimer, NoneLocks
  <2>2. CASE ~IsStopping(p)
    <3>1. Up(p)
      BY <1>9, <2>2 DEF UpgradeTimer, IsStopping, Alive, Up, IdleUnlessServing
    <3> QED BY <1>9, <2>2, <3>1, ShutdownKeeps DEF UpgradeTimer, NoneLocks
  <2> QED BY <2>1, <2>2
<1>10. CASE UpgradeClaimed(p)
  BY <1>1, <1>10 DEF UpgradeClaimed, NoneLocks, Process, Acquiring
<1>11. CASE UpgradeRefused(p)
  BY <1>1, <1>11 DEF UpgradeRefused, NoneLocks, Process, Acquiring
<1>12. CASE SpawnFails(p)
  BY <1>1, <1>12 DEF SpawnFails, NoneLocks, Process, Acquiring
<1>13. ASSUME NEW u \in Updaters, UpdaterSpawned(p, u)
       PROVE  NoneLocks
  <2>1. proc' = [proc EXCEPT ![p].run = "handed", ![p].timers = @ \cup {"upgrade"}]
    BY <1>13 DEF UpdaterSpawned
  <2> QED BY <1>1, <2>1 DEF NoneLocks, Process, Acquiring
<1> QED BY <1>3, <1>4, <1>5, <1>6, <1>7, <1>8, <1>9, <1>10, <1>11, <1>12, <1>13
        DEF DaemonStep

(* An updater goes on, or ends, and starts nobody's upgrade; only its last *)
(* step touches the lock.                                                  *)
LEMMA UpdaterNoneLocks ==
  ASSUME UpgradeInv, NEW u \in Updaters, UpdaterStep(u) \/ UpdaterDies(u)
  PROVE  /\ NoneLocks /\ NoneStarts /\ Running(u)
         /\ upd' \in [Updaters -> Updater]
         /\ \A w \in Updaters \ {u} : upd'[w] = upd[w]
         /\ ProcessesKnown'
         /\ lock' = lock \/ Finishes(u)
         /\ overlapped' = overlapped
<1> USE DEF UpgradeInv
<1>1. /\ proc \in [Pids -> Process] /\ installed \in {"old", "new", "broken"}
      /\ upd \in [Updaters -> Updater]
  BY DEF TypeOK, Process, Updater
<1>2. ASSUME NEW to \in Updater, upd' = [upd EXCEPT ![u] = to],
             to.pc \in {"none", "done", "dead"} \/ to.old = upd[u].old,
             to.pc \in {"checking", "killing", "rechecking"} => to.child # 0,
             Running(u)
      PROVE  /\ NoneStarts /\ ProcessesKnown'
             /\ upd' \in [Updaters -> Updater]
             /\ \A w \in Updaters \ {u} : upd'[w] = upd[w]
  BY <1>1, <1>2 DEF NoneStarts, ProcessesKnown, Running
<1>3. ASSUME NEW where \in {"installing", "launching", "killing", "recovering"},
             Goes(u, where), where = "killing" => upd[u].child # 0, Running(u)
      PROVE  /\ NoneStarts /\ ProcessesKnown'
             /\ upd' \in [Updaters -> Updater]
             /\ \A w \in Updaters \ {u} : upd'[w] = upd[w]
  <2> DEFINE to == [upd[u] EXCEPT !.pc = where]
  <2>1. upd' = [upd EXCEPT ![u] = to]
    BY <1>3 DEF Goes
  <2>2. to \in Updater /\ to.pc = where /\ to.old = upd[u].old /\ to.child = upd[u].child
    BY <1>1 DEF Updater
  <2> HIDE DEF to
  <2> QED BY <1>2, <1>3, <2>1, <2>2
<1>4. ASSUME NEW outcome \in {"succeeded", "rolled-back", "failed"},
             Ends(u, outcome), Running(u)
      PROVE  /\ NoneStarts /\ ProcessesKnown'
             /\ upd' \in [Updaters -> Updater]
             /\ \A w \in Updaters \ {u} : upd'[w] = upd[w]
  <2> DEFINE to == [upd[u] EXCEPT !.pc = "ended", !.outcome = outcome]
  <2>1. upd' = [upd EXCEPT ![u] = to]
    BY <1>4 DEF Ends
  <2>2. to \in Updater /\ to.pc = "ended" /\ to.old = upd[u].old
    BY <1>1 DEF Updater
  <2> HIDE DEF to
  <2> QED BY <1>2, <1>4, <2>1, <2>2
<1>5. ASSUME NEW p \in Pids, NEW where \in {"checking", "rechecking"}, Running(u),
             upd' = [upd EXCEPT ![u].pc = where, ![u].child = p]
      PROVE  /\ NoneStarts /\ ProcessesKnown'
             /\ upd' \in [Updaters -> Updater]
             /\ \A w \in Updaters \ {u} : upd'[w] = upd[w]
  <2> DEFINE to == [upd[u] EXCEPT !.pc = where, !.child = p]
  <2>1. upd' = [upd EXCEPT ![u] = to]
    BY <1>5
  <2>2. to \in Updater /\ to.pc = where /\ to.old = upd[u].old /\ to.child # 0
    BY <1>1, UpgradeConstants DEF Updater
  <2> HIDE DEF to
  <2> QED BY <1>2, <1>5, <2>1, <2>2
<1>6. ASSUME NEW where \in {"done", "dead"}, Running(u),
             upd' = [upd EXCEPT ![u] = [NoUpdater EXCEPT !.pc = where]]
      PROVE  /\ NoneStarts /\ ProcessesKnown'
             /\ upd' \in [Updaters -> Updater]
             /\ \A w \in Updaters \ {u} : upd'[w] = upd[w]
  <2> DEFINE to == [NoUpdater EXCEPT !.pc = where]
  <2>1. to \in Updater /\ to.pc = where
    BY DEF NoUpdater, Updater
  <2>2. upd' = [upd EXCEPT ![u] = to]
    BY <1>6
  <2> HIDE DEF to
  <2> QED BY <1>2, <1>6, <2>1, <2>2
<1>7. ASSUME NEW p \in Pids, IF Alive(p) THEN Killed(p) ELSE UNCHANGED proc
      PROVE  NoneLocks
  BY <1>7, KilledKeeps DEF NoneLocks, Acquiring
<1>8. ASSUME NEW p \in Pids, NEW release \in {"old", "new", "broken"}, Launched(p, release)
      PROVE  NoneLocks
  BY <1>8, LaunchedKeeps DEF NoneLocks, Acquiring
<1>9. ASSUME UNCHANGED proc PROVE NoneLocks
  BY <1>9 DEF NoneLocks
<1>10. upd[u].old \in Pids \cup {0} /\ upd[u].child \in Pids \cup {0}
  BY <1>1 DEF Updater
<1>11. CASE OldDaemonGone(u)
  <2>1. Running(u) /\ UNCHANGED <<lock, overlapped>> /\ Goes(u, "installing")
    BY <1>11 DEF OldDaemonGone, WaitEnds, Running, At
  <2>2. upd[u].old \in Pids
    BY <1>10, <2>1 DEF ProcessesKnown
  <2>3. NoneLocks
    BY <1>7, <1>11, <2>2 DEF OldDaemonGone, WaitEnds
  <2> QED BY <1>3, <2>1, <2>3
<1>12. CASE Installs(u)
  BY <1>3, <1>9, <1>12 DEF Installs, Running, At
<1>13. CASE InstallFails(u)
  BY <1>3, <1>9, <1>13 DEF InstallFails, Running, At
<1>14. CASE Launches(u)
  <2>1. PICK p \in Pids : /\ Launched(p, installed)
                          /\ upd' = [upd EXCEPT ![u].pc = "checking", ![u].child = p]
    BY <1>14 DEF Launches
  <2>2. Running(u) /\ UNCHANGED <<lock, overlapped>>
    BY <1>14 DEF Launches, Running, At
  <2> QED BY <1>1, <1>5, <1>8, <2>1, <2>2
<1>15. CASE Healthy(u)
  BY <1>4, <1>9, <1>15 DEF Healthy, Running, At
<1>16. CASE Unhealthy(u)
  <2>1. Running(u) /\ UNCHANGED <<lock, overlapped>> /\ Goes(u, "killing") /\ upd[u].child \in Pids
    BY <1>10, <1>16 DEF Unhealthy, Running, At, ProcessesKnown
  <2>2. NoneLocks
    BY <1>7, <1>16, <2>1 DEF Unhealthy
  <2>3. upd[u].child # 0
    BY <2>1, UpgradeConstants
  <2> QED BY <1>3, <2>1, <2>2, <2>3
<1>17. CASE ChildGone(u)
  <2>1. Running(u) /\ UNCHANGED <<lock, overlapped>> /\ Goes(u, "recovering") /\ upd[u].child \in Pids
    BY <1>10, <1>17 DEF ChildGone, WaitEnds, Running, At, ProcessesKnown
  <2>2. NoneLocks
    BY <1>7, <1>17, <2>1 DEF ChildGone, WaitEnds
  <2> QED BY <1>3, <2>1, <2>2
<1>18. CASE RollsBack(u)
  <2>1. PICK p \in Pids : /\ Launched(p, "old")
                          /\ upd' = [upd EXCEPT ![u].pc = "rechecking", ![u].child = p]
    BY <1>18 DEF RollsBack
  <2>2. Running(u) /\ UNCHANGED <<lock, overlapped>>
    BY <1>18 DEF RollsBack, Running, At
  <2> QED BY <1>5, <1>8, <2>1, <2>2
<1>19. CASE RolledBack(u)
  BY <1>4, <1>9, <1>19 DEF RolledBack, Running, At
<1>20. CASE RollbackUnhealthy(u)
  <2>1. Running(u) /\ UNCHANGED <<lock, overlapped>> /\ Ends(u, "failed") /\ upd[u].child \in Pids
    BY <1>10, <1>20 DEF RollbackUnhealthy, Running, At, ProcessesKnown
  <2>2. NoneLocks
    BY <1>7, <1>20, <2>1 DEF RollbackUnhealthy
  <2> QED BY <1>4, <2>1, <2>2
<1>21. CASE GivesUp(u)
  <2>1. installed' \in {"old", "new", "broken"}
    BY <1>1, <1>21 DEF GivesUp
  <2>2. PICK p \in Pids : Launched(p, installed')
    BY <1>21 DEF GivesUp
  <2>3. Running(u) /\ UNCHANGED <<lock, overlapped>> /\ Ends(u, "failed")
    BY <1>21 DEF GivesUp, Running, At
  <2> QED BY <1>4, <1>8, <2>1, <2>2, <2>3
<1>22. CASE Throws(u)
  BY <1>4, <1>9, <1>22 DEF Throws, Running
<1>23. CASE Finishes(u)
  BY <1>6, <1>9, <1>23 DEF Finishes, Running, At
<1>24. CASE UpdaterDies(u)
  BY <1>6, <1>9, <1>24 DEF UpdaterDies
<1> QED
  BY <1>11, <1>12, <1>13, <1>14, <1>15, <1>16, <1>17, <1>18, <1>19, <1>20, <1>21, <1>22,
     <1>23, <1>24 DEF UpdaterStep

-----------------------------------------------------------------------------
(* While one daemon at a time is in acquireLock, it takes the lock only    *)
(* when it covers nobody.                                                  *)
LEMMA AcquireKeeps ==
  ASSUME UpgradeInv, NEW p \in Pids, AcquireStep(p)
  PROVE  /\ lock' \in Lock /\ upd' = upd
         /\ overlapped' \in BOOLEAN /\ (overlapped => overlapped')
         /\ ~overlapped' => Exclusive'
<1>1. /\ proc \in [Pids -> Process] /\ lock \in Lock /\ overlapped \in BOOLEAN
      /\ ~overlapped => Exclusive
  BY DEF UpgradeInv, TypeOK, Process, Lock
<1>2. upd' = upd /\ (\A u \in Updaters : Running(u)' <=> Running(u))
  BY DEF AcquireStep, LockCreated, LockWritten, LockFound, LockRead, LockRemoved, Acquires, Running
<1>3. ASSUME NEW to, Acquires(p, to)
      PROVE  proc'[p].run = to /\ \A q \in Pids \ {p} : proc'[q] = proc[q]
  BY <1>1, <1>3 DEF Acquires, Process
<1>4. CASE LockCreated(p)
  <2>1. /\ lock = NoLock /\ lock' = [NoLock EXCEPT !.pid = p]
        /\ Acquires(p, "writing") /\ Enters(p)
    BY <1>4 DEF LockCreated
  <2>2. lock' \in Lock /\ lock'.pid = p /\ ~lock'.body /\ ~lock'.aged /\ ~lock.body
    BY <2>1, UpgradeConstants DEF Lock, NoLock
  <2>3. overlapped' \in BOOLEAN /\ (overlapped => overlapped')
    BY <1>1, <2>1 DEF Enters
  <2>4. ASSUME ~overlapped' PROVE Exclusive'
    <3>1. Exclusive /\ \A q \in Pids \ {p} : ~Inside(q)
      BY <1>1, <2>1, <2>4 DEF Enters
    <3>2. \A q \in Pids : proc'[q].run # "locked" /\ (Inside(q)' => q = p)
                          /\ proc'[q].run \notin {"removing", "clearing"}
      BY <1>3, <2>1, <2>2, <3>1 DEF Exclusive, LockedHoldsLock, Inside, Acquiring
    <3>3. \A u \in Updaters : ~Running(u)'
      BY <1>2, <2>2, <3>1 DEF Exclusive, RunningHoldsLock
    <3>4. \A q \in Pids : proc'[q].run = "writing" => q = p
      BY <3>2 DEF Inside, Acquiring
    <3>. QED
      BY <2>2, <3>2, <3>3, <3>4 DEF Exclusive, OneInside, WriterHoldsLock, LockedHoldsLock,
                                     RunningHoldsLock, RemovesFree, OneHolder
  <2>. QED
    BY <1>2, <2>2, <2>3, <2>4
<1>5. CASE LockWritten(p)
  <2>1. /\ proc[p].run = "writing" /\ lock' = [lock EXCEPT !.body = @ \/ lock.pid = p]
        /\ Acquires(p, "locked") /\ overlapped' = overlapped
    BY <1>5 DEF LockWritten
  <2>2. /\ lock' \in Lock /\ lock'.pid = lock.pid /\ lock'.aged = lock.aged
        /\ lock'.body <=> lock.body \/ lock.pid = p
    BY <1>1, <2>1 DEF Lock
  <2>3. ASSUME ~overlapped' PROVE Exclusive'
    <3>1. Exclusive /\ lock.pid = p /\ ~lock.body /\ ~lock.aged
      BY <1>1, <2>1, <2>3 DEF Exclusive, WriterHoldsLock
    <3>2. \A q \in Pids : Inside(q) => q = p
      BY <2>1, <3>1 DEF Exclusive, OneInside, Inside, Acquiring
    <3>3. \A q \in Pids : ~Inside(q)' /\ (proc'[q].run = "locked" => q = p)
      BY <1>3, <2>1, <3>1, <3>2 DEF Exclusive, LockedHoldsLock, Inside, Acquiring
    <3>4. \A u \in Updaters : ~Running(u)'
      BY <1>2, <3>1 DEF Exclusive, RunningHoldsLock
    <3>5. \A q \in Pids : proc'[q].run \notin {"writing", "removing", "clearing"}
      BY <3>3 DEF Inside, Acquiring
    <3>. QED
      BY <2>2, <3>1, <3>3, <3>4, <3>5 DEF Exclusive, OneInside, WriterHoldsLock, LockedHoldsLock,
                                     RunningHoldsLock, RemovesFree, OneHolder
  <2>. QED
    BY <1>1, <1>2, <2>1, <2>2, <2>3
<1>6. CASE LockFound(p)
  <2>1. PICK to \in {"reading", "rereading"} : Acquires(p, to)
    BY <1>6 DEF LockFound
  <2>2. Enters(p) /\ lock' = lock
    BY <1>6 DEF LockFound
  <2>3. overlapped' \in BOOLEAN /\ (overlapped => overlapped')
    BY <1>1, <2>2 DEF Enters
  <2>4. ASSUME ~overlapped' PROVE Exclusive'
    <3>1. Exclusive /\ \A q \in Pids \ {p} : ~Inside(q)
      BY <1>1, <2>2, <2>4 DEF Enters
    <3>2. \A q \in Pids : /\ proc'[q].run = "locked" => proc[q].run = "locked"
                          /\ Inside(q)' => q = p
                          /\ proc'[q].run \notin {"writing", "removing", "clearing"}
      BY <1>3, <2>1, <3>1 DEF Inside, Acquiring
    <3>. QED
      BY <1>2, <2>2, <3>1, <3>2 DEF Exclusive, OneInside, WriterHoldsLock, LockedHoldsLock,
                                     RunningHoldsLock, RemovesFree, OneHolder
  <2>. QED
    BY <1>1, <1>2, <2>2, <2>3, <2>4
<1>7. CASE LockRead(p)
  <2>1. PICK to : Acquires(p, to) /\ to \in {"none", "removing", "clearing"}
                  /\ (to # "none" => Stale)
    BY <1>7 DEF LockRead
  <2>2. lock' = lock /\ overlapped' = overlapped /\ Inside(p)
    BY <1>7 DEF LockRead, Inside, Acquiring
  <2>3. ASSUME ~overlapped' PROVE Exclusive'
    <3>1. Exclusive
      BY <1>1, <2>2, <2>3
    <3>2. \A q \in Pids : Inside(q) => q = p
      BY <2>2, <3>1 DEF Exclusive, OneInside
    <3>3. \A q \in Pids : /\ proc'[q].run = "locked" => proc[q].run = "locked"
                          /\ Inside(q)' => q = p
                          /\ proc'[q].run # "writing"
                          /\ proc'[q].run \in {"removing", "clearing"} => Stale
      BY <1>3, <2>1, <3>2 DEF Inside, Acquiring
    <3>4. Stale => /\ \A q \in Pids : proc[q].run # "locked"
                   /\ \A u \in Updaters : ~Running(u)
      BY <3>1 DEF Stale, Exclusive, LockedHoldsLock, RunningHoldsLock
    <3>. QED
      BY <1>2, <2>2, <3>1, <3>3, <3>4 DEF Exclusive, OneInside, WriterHoldsLock, LockedHoldsLock,
                                     RunningHoldsLock, RemovesFree, OneHolder
  <2>. QED
    BY <1>1, <1>2, <2>2, <2>3
<1>8. CASE LockRemoved(p)
  <2>1. PICK to \in {"retrying", "none"} : Acquires(p, to)
    BY <1>8 DEF LockRemoved
  <2>2. /\ lock' = NoLock /\ overlapped' = overlapped /\ Inside(p)
        /\ proc[p].run \in {"removing", "clearing"}
    BY <1>8 DEF LockRemoved, Inside, Acquiring
  <2>3. ASSUME ~overlapped' PROVE Exclusive'
    <3>1. Exclusive
      BY <1>1, <2>2, <2>3
    <3>2. \A q \in Pids : Inside(q) => q = p
      BY <2>2, <3>1 DEF Exclusive, OneInside
    <3>3. /\ \A q \in Pids : proc[q].run # "locked"
          /\ \A u \in Updaters : ~Running(u)'
      BY <1>2, <2>2, <3>1 DEF Exclusive, RemovesFree
    <3>4. \A q \in Pids : /\ proc'[q].run # "locked"
                          /\ Inside(q)' => q = p
                          /\ proc'[q].run \notin {"writing", "removing", "clearing"}
      BY <1>3, <2>1, <3>2, <3>3 DEF Inside, Acquiring
    <3>. QED
      BY <3>3, <3>4 DEF Exclusive, OneInside, WriterHoldsLock, LockedHoldsLock,
                        RunningHoldsLock, RemovesFree, OneHolder
  <2>. QED
    BY <1>1, <1>2, <2>2, <2>3, UpgradeConstants
<1>. QED
  BY <1>4, <1>5, <1>6, <1>7, <1>8 DEF AcquireStep

(* It covers one daemon or one updater, and is removed by the one that it  *)
(* covers.                                                                 *)
LEMMA HoldersStep ==
  ASSUME UpgradeInv, Next
  PROVE  /\ ProcessesKnown' /\ upd' \in [Updaters -> Updater] /\ lock' \in Lock
         /\ overlapped' \in BOOLEAN /\ (overlapped => overlapped')
         /\ ~overlapped' => Exclusive'
<1> DEFINE Kept == /\ ProcessesKnown' /\ upd' \in [Updaters -> Updater] /\ lock' \in Lock
                   /\ overlapped' \in BOOLEAN /\ (overlapped => overlapped')
                   /\ ~overlapped' => Exclusive'
<1>1. /\ proc \in [Pids -> Process] /\ upd \in [Updaters -> Updater] /\ lock \in Lock
      /\ overlapped \in BOOLEAN /\ ProcessesKnown /\ (~overlapped => Exclusive)
  BY DEF UpgradeInv, TypeOK, Process, Updater, Lock
<1>2. NoLock \in Lock
  BY UpgradeConstants
<1>3. ASSUME upd' = upd
      PROVE  NoneStarts /\ ProcessesKnown' /\ upd' \in [Updaters -> Updater]
  BY <1>1, <1>3 DEF NoneStarts, ProcessesKnown, Running
<1>4. ASSUME NEW p \in Pids, SpawnFails(p) PROVE Kept
  <2>1. /\ proc[p].run = "locked" /\ lock' = NoLock /\ upd' = upd /\ overlapped' = overlapped
        /\ proc' = [proc EXCEPT ![p].run = "none"]
    BY <1>4 DEF SpawnFails
  <2>2. ASSUME ~overlapped PROVE Exclusive'
    <3>1. Exclusive /\ lock.pid = p /\ lock.body
      BY <1>1, <2>1, <2>2 DEF Exclusive, LockedHoldsLock
    <3>2. \A q \in Pids : /\ proc'[q].run \in Acquiring => proc'[q].run = proc[q].run
                          /\ proc'[q].run \notin {"locked", "writing"}
      BY <1>1, <2>1, <3>1 DEF Exclusive, LockedHoldsLock, WriterHoldsLock, Process, Acquiring
    <3>3. \A u \in Updaters : ~Running(u)'
      BY <2>1, <3>1 DEF Exclusive, OneHolder, Running
    <3>4. OneInside'
      BY <3>1, <3>2 DEF Exclusive, OneInside, Inside
    <3>. QED
      BY <3>2, <3>3, <3>4 DEF Exclusive, LockedHoldsLock, WriterHoldsLock, RunningHoldsLock,
                              RemovesFree, OneHolder
  <2>. QED
    BY <1>1, <1>2, <1>3, <2>1, <2>2
<1>5. ASSUME NEW p \in Pids, NEW u \in Updaters, UpdaterSpawned(p, u) PROVE Kept
  <2>1. /\ proc[p].run = "locked" /\ lock' = lock /\ overlapped' = overlapped
        /\ proc' = [proc EXCEPT ![p].run = "handed", ![p].timers = @ \cup {"upgrade"}]
    BY <1>5 DEF UpdaterSpawned
  <2>2. PICK rollback \in BOOLEAN :
          upd' = [upd EXCEPT ![u] = [NoUpdater EXCEPT !.pc = "waiting", !.old = p,
                                                      !.rollback = rollback]]
    BY <1>5 DEF UpdaterSpawned
  <2> DEFINE to == [NoUpdater EXCEPT !.pc = "waiting", !.old = p, !.rollback = rollback]
  <2>3. to \in Updater /\ to.pc = "waiting" /\ to.old = p
    BY DEF NoUpdater, Updater
  <2>4. upd' = [upd EXCEPT ![u] = to]
    BY <2>2
  <2> HIDE DEF to
  <2>5. ProcessesKnown' /\ upd' \in [Updaters -> Updater]
    BY <1>1, <2>3, <2>4, UpgradeConstants DEF ProcessesKnown, Running
  <2>6. ASSUME ~overlapped PROVE Exclusive'
    <3>1. Exclusive /\ lock.pid = p /\ lock.body /\ ~lock.aged
      BY <1>1, <2>1, <2>6 DEF Exclusive, LockedHoldsLock
    <3>2. \A q \in Pids : /\ proc'[q].run \in Acquiring => proc'[q].run = proc[q].run
                          /\ proc'[q].run # "locked"
      BY <1>1, <2>1, <3>1 DEF Exclusive, LockedHoldsLock, Process, Acquiring
    <3>3. \A w \in Updaters : Running(w)' => w = u
      BY <1>1, <2>1, <2>4, <3>1 DEF Exclusive, OneHolder, Running
    <3>4. OneInside' /\ WriterHoldsLock' /\ LockedHoldsLock'
      BY <2>1, <3>1, <3>2 DEF Exclusive, OneInside, WriterHoldsLock, LockedHoldsLock, Inside, Acquiring
    <3>5. RunningHoldsLock'
      BY <1>1, <2>1, <2>3, <2>4, <3>1, <3>3 DEF RunningHoldsLock
    <3>6. RemovesFree'
      BY <2>1, <3>1, <3>2 DEF Exclusive, RemovesFree, Acquiring
    <3>. QED
      BY <3>2, <3>3, <3>4, <3>5, <3>6 DEF Exclusive, OneHolder
  <2>. QED
    BY <1>1, <2>1, <2>5, <2>6
<1>6. ASSUME NoneLocks, NoneStarts, lock' = lock, overlapped' = overlapped,
             ProcessesKnown', upd' \in [Updaters -> Updater]
      PROVE  Kept
  BY <1>1, <1>6, HoldersKept
<1>7. ASSUME NEW p \in Pids, DaemonStep(p) PROVE Kept
  <2>1. CASE AcquireStep(p)
    BY <1>3, <2>1, AcquireKeeps
  <2>2. CASE SpawnFails(p) \/ \E u \in Updaters : UpdaterSpawned(p, u)
    BY <1>4, <1>5, <2>2
  <2>3. CASE ~AcquireStep(p) /\ ~SpawnFails(p) /\ \A u \in Updaters : ~UpdaterSpawned(p, u)
    <3>1. lock' = lock /\ upd' = upd /\ overlapped' = overlapped
      BY <1>7, <2>3 DEF DaemonStep, UserStart, ComesUp, Exits, Signal, StopRequested, StopTimer,
              UpgradeTimer, UpgradeClaimed, UpgradeRefused
    <3>2. NoneLocks
      BY <1>7, <2>3, DaemonNoneLocks
    <3> QED BY <1>3, <1>6, <3>1, <3>2
  <2> QED BY <2>1, <2>2, <2>3
<1>8. ASSUME NEW u \in Updaters, UpdaterStep(u) \/ UpdaterDies(u) PROVE Kept
  <2>1. /\ NoneLocks /\ NoneStarts /\ Running(u) /\ upd' \in [Updaters -> Updater]
        /\ \A w \in Updaters \ {u} : upd'[w] = upd[w]
        /\ ProcessesKnown' /\ (lock' = lock \/ Finishes(u)) /\ overlapped' = overlapped
    BY <1>8, UpdaterNoneLocks
  <2>2. CASE lock' = lock
    BY <1>6, <2>1, <2>2
  <2>3. CASE Finishes(u)
    <3>1. lock' = NoLock /\ upd' = [upd EXCEPT ![u] = [NoUpdater EXCEPT !.pc = "done"]]
          /\ proc' = proc
      BY <2>3 DEF Finishes
    <3>2. ~Running(u)'
      BY <1>1, <3>1 DEF Running, NoUpdater
    <3>3. ASSUME ~overlapped PROVE Exclusive'
      <4>1. Exclusive /\ lock.body
        BY <1>1, <2>1, <3>3 DEF Exclusive, RunningHoldsLock
      <4>2. \A w \in Updaters : ~Running(w)'
        BY <2>1, <3>2, <4>1 DEF Exclusive, NoneStarts, OneHolder
      <4>3. \A p \in Pids : proc[p].run \notin {"locked", "writing"}
        BY <2>1, <4>1 DEF Exclusive, OneHolder, WriterHoldsLock
      <4> QED
        BY <3>1, <4>1, <4>2, <4>3 DEF Exclusive, OneInside, Inside, LockedHoldsLock, WriterHoldsLock,
                                 RunningHoldsLock, RemovesFree, OneHolder
    <3> QED
      BY <1>1, <1>2, <2>1, <3>1, <3>3
  <2> QED BY <2>1, <2>2, <2>3
<1>9. CASE LockAges
  <2>1. /\ lock' = [lock EXCEPT !.aged = TRUE] /\ upd' = upd /\ proc' = proc
        /\ overlapped' = overlapped
        /\ \A u \in Updaters : ~Running(u)
        /\ \A p \in Pids : proc[p].run \notin {"writing", "locked"}
    BY <1>9 DEF LockAges
  <2>2. \A u \in Updaters : ~Running(u)'
    BY <2>1 DEF Running
  <2>3. lock' \in Lock
    BY <1>1, <2>1 DEF Lock
  <2>4. ASSUME ~overlapped PROVE Exclusive'
    BY <1>1, <2>1, <2>2, <2>4 DEF Exclusive, OneInside, Inside, LockedHoldsLock, WriterHoldsLock,
                             RunningHoldsLock, RemovesFree, OneHolder
  <2> QED
    BY <1>1, <1>3, <2>1, <2>3, <2>4
<1> QED BY <1>7, <1>8, <1>9 DEF Next

-----------------------------------------------------------------------------
(* What is installed changes only under the one updater that is running,   *)
(* on its way to the place that says so.                                   *)
LEMMA InstalledStep ==
  ASSUME UpgradeInv, Next
  PROVE  /\ installed' \in {"old", "new", "broken"}
         /\ ~overlapped' => InstalledAsFar' /\ OutcomeTruthful'
<1> DEFINE Told == /\ installed' \in {"old", "new", "broken"}
                   /\ ~overlapped' => InstalledAsFar' /\ OutcomeTruthful'
<1> USE DEF UpgradeInv
<1>0. ~overlapped' => ~overlapped /\ OneHolder /\ InstalledAsFar
  BY HoldersStep DEF Exclusive
<1>1. installed \in {"old", "new", "broken"} /\ upd \in [Updaters -> Updater]
  BY DEF TypeOK, Updater
<1>2. ASSUME UNCHANGED <<installed, upd>>
      PROVE  Told
  BY <1>0, <1>1, <1>2 DEF InstalledAsFar, OutcomeTruthful, At
<1>3. ASSUME NEW p \in Pids, NEW u \in Updaters, UpdaterSpawned(p, u)
      PROVE  Told
  <2>1. /\ installed' = installed
        /\ \E rollback \in BOOLEAN :
             upd' = [upd EXCEPT ![u] = [NoUpdater EXCEPT !.pc = "waiting", !.old = p,
                                                         !.rollback = rollback]]
    BY <1>3 DEF UpdaterSpawned
  <2>2. upd'[u].pc = "waiting" /\ \A w \in Updaters \ {u} : upd'[w] = upd[w]
    BY <1>1, <2>1 DEF NoUpdater
  <2> QED BY <1>0, <1>1, <2>1, <2>2 DEF InstalledAsFar, OutcomeTruthful, At
<1>4. ASSUME NEW u \in Updaters, UpdaterStep(u) \/ UpdaterDies(u)
      PROVE  Told
  <2>1. Running(u) /\ \A w \in Updaters \ {u} : upd'[w] = upd[w]
    BY <1>4, UpdaterNoneLocks
  <2>2. ~overlapped' => \A w \in Updaters \ {u} : ~Running(w)
    BY <1>0, <2>1 DEF OneHolder
  <2>3. ~overlapped' => \A w \in Updaters \ {u} : upd'[w].pc \in {"none", "done", "dead"}
    BY <2>1, <2>2 DEF Running
  \* It is enough that the updater itself is truthful.
  <2> DEFINE
        Far(pc) == /\ pc \in {"launching", "checking", "killing"} => installed' = "new"
                   /\ pc = "rechecking" => installed' = "old"
        True(outcome) == /\ outcome = "succeeded" => installed' = "new"
                         /\ outcome = "rolled-back" => installed' = "old"
  <2>4. ASSUME installed' \in {"old", "new", "broken"},
               ~overlapped' => Far(upd'[u].pc),
               ~overlapped' => (upd'[u].pc = "ended" => True(upd'[u].outcome))
        PROVE  Told
    BY <2>3, <2>4 DEF InstalledAsFar, OutcomeTruthful, At
  <2>5. ASSUME NEW where, Goes(u, where)
        PROVE  upd'[u].pc = where
    BY <1>1, <2>5 DEF Goes, Updater
  <2>6. ASSUME NEW outcome, Ends(u, outcome)
        PROVE  upd'[u].pc = "ended" /\ upd'[u].outcome = outcome
    BY <1>1, <2>6 DEF Ends, Updater
  <2>7. ASSUME NEW where, NEW p \in Pids,
               upd' = [upd EXCEPT ![u].pc = where, ![u].child = p]
        PROVE  upd'[u].pc = where
    BY <1>1, <2>7 DEF Updater
  <2>8. CASE OldDaemonGone(u) \/ InstallFails(u) \/ ChildGone(u)
    <3>1. upd'[u].pc \in {"installing", "recovering"} /\ installed' \in {"old", "new", "broken"}
      BY <1>1, <2>5, <2>8 DEF OldDaemonGone, InstallFails, ChildGone, WaitEnds
    <3> QED BY <2>4, <3>1
  <2>9. CASE Installs(u)
    <3>1. upd'[u].pc = "launching" /\ installed' = "new"
      BY <2>5, <2>9 DEF Installs
    <3> QED BY <2>4, <3>1
  <2>10. CASE Launches(u)
    <3>1. upd'[u].pc = "checking" /\ installed' = installed
      BY <2>7, <2>10 DEF Launches
    <3>2. ~overlapped' => installed = "new"
      <4>1. ~overlapped' => InstalledAsFar
        BY <1>0
      <4> QED BY <2>10, <4>1 DEF Launches, InstalledAsFar, At
    <3> QED BY <1>1, <2>4, <3>1, <3>2
  <2>11. CASE Healthy(u)
    <3>1. upd'[u].pc = "ended" /\ upd'[u].outcome = "succeeded" /\ installed' = installed
      BY <2>6, <2>11 DEF Healthy
    <3>2. ~overlapped' => installed = "new"
      <4>1. ~overlapped' => InstalledAsFar
        BY <1>0
      <4> QED BY <2>11, <4>1 DEF Healthy, InstalledAsFar, At
    <3> QED BY <1>1, <2>4, <3>1, <3>2
  <2>12. CASE Unhealthy(u)
    <3>1. upd'[u].pc = "killing" /\ installed' = installed
      BY <2>5, <2>12 DEF Unhealthy
    <3>2. ~overlapped' => installed = "new"
      <4>1. ~overlapped' => InstalledAsFar
        BY <1>0
      <4> QED BY <2>12, <4>1 DEF Unhealthy, InstalledAsFar, At
    <3> QED BY <1>1, <2>4, <3>1, <3>2
  <2>13. CASE RollsBack(u)
    <3>1. upd'[u].pc = "rechecking" /\ installed' = "old"
      BY <2>7, <2>13 DEF RollsBack
    <3> QED BY <2>4, <3>1
  <2>14. CASE RolledBack(u)
    <3>1. upd'[u].pc = "ended" /\ upd'[u].outcome = "rolled-back" /\ installed' = installed
      BY <2>6, <2>14 DEF RolledBack
    <3>2. ~overlapped' => installed = "old"
      <4>1. ~overlapped' => InstalledAsFar
        BY <1>0
      <4> QED BY <2>14, <4>1 DEF RolledBack, InstalledAsFar, At
    <3> QED BY <1>1, <2>4, <3>1, <3>2
  <2>15. CASE RollbackUnhealthy(u) \/ GivesUp(u) \/ Throws(u)
    <3>1. /\ upd'[u].pc = "ended" /\ upd'[u].outcome = "failed"
          /\ installed' \in {"old", "new", "broken"}
      BY <1>1, <2>6, <2>15 DEF RollbackUnhealthy, GivesUp, Throws
    <3> QED BY <2>4, <3>1
  <2>16. CASE Finishes(u) \/ UpdaterDies(u)
    <3>1. upd'[u].pc \in {"done", "dead"} /\ installed' = installed
      BY <1>1, <2>16 DEF Finishes, UpdaterDies, NoUpdater
    <3> QED BY <1>1, <2>4, <3>1
  <2> QED BY <1>4, <2>8, <2>9, <2>10, <2>11, <2>12, <2>13, <2>14, <2>15, <2>16
          DEF UpdaterStep
<1>5. ASSUME NEW p \in Pids, DaemonStep(p)
      PROVE  Told
  <2>1. CASE \A u \in Updaters : ~UpdaterSpawned(p, u)
    <3>1. UNCHANGED <<installed, upd>>
      BY <1>5, <2>1 DEF DaemonStep, UserStart, ComesUp, Exits, Signal, StopRequested,
                        StopTimer, UpgradeTimer, UpgradeClaimed, UpgradeRefused, SpawnFails,
                        AcquireStep, LockCreated, LockWritten, LockFound, LockRead,
                        LockRemoved, Acquires
    <3> QED BY <1>2, <3>1
  <2> QED BY <1>3, <1>5, <2>1
<1> QED BY <1>2, <1>4, <1>5 DEF Next, LockAges

LEMMA UpgradeStarts == Init => UpgradeInv
<1> SUFFICES ASSUME Init PROVE UpgradeInv
  OBVIOUS
<1> USE UpgradeConstants DEF Init
<1> DEFINE first == [NoProc EXCEPT !.phase = "up"]
<1>1. first \in Process /\ first.phase = "up" /\ first.run = "none"
  BY DEF NoProc, Process
<1>2. NoProc.run = "none" /\ NoProc.timers = {}
  BY DEF NoProc
<1>3. proc \in [Pids -> Process] /\ \A p \in Pids : proc[p] = first \/ proc[p] = NoProc
  BY <1>1
<1>4. /\ NoLock \in Lock
      /\ upd \in [Updaters -> Updater] /\ \A u \in Updaters : upd[u].pc = "none"
  BY DEF NoUpdater
<1> HIDE DEF first
<1>5. TypeOK
  BY <1>3, <1>4 DEF TypeOK, Process, Updater, Lock
<1>6. IdleUnlessServing
  BY <1>1, <1>2, <1>3 DEF IdleUnlessServing
<1>7. \A p \in Pids : proc[p].run = "none"
  BY <1>1, <1>2, <1>3
<1>8. OneInside /\ WriterHoldsLock /\ LockedHoldsLock /\ RemovesFree
  BY <1>7 DEF OneInside, WriterHoldsLock, LockedHoldsLock, RemovesFree, Inside, Acquiring
<1>9. RunningHoldsLock /\ OneHolder /\ ProcessesKnown
  BY <1>4, <1>7 DEF RunningHoldsLock, OneHolder, ProcessesKnown, Running
<1>10. InstalledAsFar /\ OutcomeTruthful
  BY <1>4 DEF InstalledAsFar, OutcomeTruthful, At
<1> QED BY <1>5, <1>6, <1>8, <1>9, <1>10 DEF UpgradeInv, Exclusive, NoForcedExit

LEMMA UpgradeSteps == UpgradeInv /\ [Next]_vars => UpgradeInv'
<1>1. ASSUME UpgradeInv, Next
      PROVE  UpgradeInv'
  <2>1. /\ proc' \in [Pids -> Process] /\ IdleUnlessServing' /\ forced' = {}
    BY <1>1, ProcessStep
  <2>2. /\ ProcessesKnown' /\ upd' \in [Updaters -> Updater] /\ lock' \in Lock
        /\ overlapped' \in BOOLEAN /\ (~overlapped' => Exclusive')
    BY <1>1, HoldersStep
  <2>3. /\ installed' \in {"old", "new", "broken"}
        /\ ~overlapped' => InstalledAsFar' /\ OutcomeTruthful'
    BY <1>1, InstalledStep
  <2>4. TypeOK'
    BY <2>1, <2>2, <2>3 DEF TypeOK, Process, Updater, Lock
  <2>5. OutcomeTruthful'
    BY <2>3 DEF OutcomeTruthful
  <2> QED BY <2>1, <2>2, <2>3, <2>4, <2>5 DEF UpgradeInv, NoForcedExit
<1>2. ASSUME UpgradeInv, UNCHANGED vars
      PROVE  UpgradeInv'
  <2> USE <1>2 DEF vars
  <2>1. TypeOK' /\ NoForcedExit' /\ IdleUnlessServing' /\ ProcessesKnown'
    BY DEF UpgradeInv, TypeOK, NoForcedExit, IdleUnlessServing, ProcessesKnown, Running
  <2>2. ~overlapped' => Exclusive'
    BY HoldersKept DEF UpgradeInv, NoneLocks, NoneStarts, Running
  <2>3. (~overlapped' => InstalledAsFar') /\ OutcomeTruthful'
    BY DEF UpgradeInv, InstalledAsFar, OutcomeTruthful, At
  <2> QED BY <2>1, <2>2, <2>3 DEF UpgradeInv
<1> QED BY <1>1, <1>2

THEOREM UpgradeInductive == Spec => []UpgradeInv
BY UpgradeStarts, UpgradeSteps, PTL DEF Spec

(* Unless two daemons were once in acquireLock at the same time, at most   *)
(* one updater runs, under a lock nobody may take over (files.ts           *)
(* acquireLock, coordinator.ts, updater.mjs); and the requests of the      *)
(* daemon itself never cut a teardown short (daemon.ts, shutdown.ts).      *)
THEOREM LockAlwaysCovers == Spec => []LockCoversUpgrade
<1>1. UpgradeInv => LockCoversUpgrade
  <2> SUFFICES ASSUME UpgradeInv PROVE LockCoversUpgrade
    OBVIOUS
  <2>1. ASSUME ~overlapped
        PROVE  /\ \A u, w \in Updaters : Running(u) /\ Running(w) => u = w
               /\ (\E u \in Updaters : Running(u)) => lock.body
    BY <2>1 DEF UpgradeInv, Exclusive, RunningHoldsLock, OneHolder
  <2> QED BY <2>1 DEF UpgradeInv, LockCoversUpgrade
<1> QED BY <1>1, UpgradeInductive, PTL

(* With the same exception, a recorded success leaves the new release      *)
(* installed, and a recorded rollback the previous one, whoever answered   *)
(* the version check (updater.mjs run and recover).                        *)
THEOREM OutcomesAreTrue == Spec => []OutcomeTruthful
<1>1. UpgradeInv => OutcomeTruthful
  BY DEF UpgradeInv
<1> QED BY <1>1, UpgradeInductive, PTL

-----------------------------------------------------------------------------
(* Rollouts over the fleet.                                                *)
Risky == {"pushing", "restarting", "failed", "timeout"}
Active(r) == loop[r].pc \notin {"off", "saving"}
OnPeer(r) == loop[r].pc \in {"asking", "pushing", "watching"}

(* The rollout that runs is the current one, and only it has a loop that   *)
(* goes on.                                                                *)
OnlyCurrentRuns ==
  \A r \in Rollouts :
    /\ status[r].state = "running" => r = current
    /\ Active(r) => status[r].state = "running"

(* A call that is under way has the surface for itself.                    *)
StartingAlone ==
  \A r \in Rollouts : call[r] = "starting" =>
    /\ ~RolloutRuns
    /\ \A s \in Rollouts : call[s] = "starting" => s = r

(* A rollout that has not begun has left nothing behind.                   *)
NothingBefore ==
  \A r \in Rollouts : call[r] # "over" =>
    loop[r].pc = "off" /\ status[r].state = "none" /\ node.by # r

(* The peer the loop is at is one of the fleet's, and only a push that is  *)
(* awaited is on the wire.                                                 *)
LoopKnowsPeer ==
  \A r \in Rollouts :
    /\ OnPeer(r) => loop[r].peer \in Peers
    /\ loop[r].wire # "none" => loop[r].pc = "pushing"

(* While a rollout runs, the peer at risk is the one its loop is at.       *)
RiskIsAtLoop ==
  \A r \in Rollouts : \A p \in Peers :
    /\ status[r].state = "running" /\ status[r].peers[p] \in Risky =>
         OnPeer(r) /\ loop[r].peer = p
    /\ status[r].peers[p] \in {"failed", "timeout"} => status[r].state = "stopped"

(* No rollout ever puts a second peer at risk.                             *)
OneAtRisk ==
  \A r \in Rollouts : \A p, q \in Peers :
    status[r].peers[p] \in Risky /\ status[r].peers[q] \in Risky => p = q

(* This node is claimed by a rollout that is through with its peers.       *)
SelfIsLast ==
  \A r \in Rollouts : node.by = r =>
    /\ loop[r].pc \in {"self", "saving", "off"}
    /\ \A p \in Peers : status[r].peers[p] \notin Risky \cup {"pending"}

(* A daemon that stops waits for the only loop that can be awaiting        *)
(* something, and has stopped after it.                                    *)
StopAwaitsLoop ==
  /\ node.phase = "stopping" => \A r \in Rollouts : OnPeer(r) \/ LoopAt(r, "self") => r = node.awaits
  /\ NoLoopOutlivesDaemon

(* A peer was heard when h of its attempts had ended: the failure of one   *)
(* of these that it still has on record is the one it had then.            *)
HeardOf(p, before, h) ==
  \/ h = Unknown
  \/ /\ before # Unknown /\ h <= Ended(p)
     /\ peer[p].record \in {0, before} \/ peer[p].record > h

(* What it had then: with the loop that is at it, or else with the picked. *)
Before(r, p) == IF OnPeer(r) /\ loop[r].peer = p THEN loop[r].before ELSE picked[r][p]

RecordsGrow ==
  /\ \A p \in Peers : peer[p].record <= Ended(p)
  /\ \A r \in Rollouts :
       /\ OnPeer(r) => picked[r][loop[r].peer] # Unknown
       /\ LoopAt(r, "asking") => heard[r][loop[r].peer] = Unknown
       /\ \A p \in Peers : HeardOf(p, Before(r, p), heard[r][p])

RolloutInv == /\ RolloutTypeOK
        /\ OnlyCurrentRuns /\ StartingAlone /\ NothingBefore
        /\ LoopKnowsPeer /\ RiskIsAtLoop /\ OneAtRisk /\ SelfIsLast
        /\ StopAwaitsLoop /\ RecordsGrow

-----------------------------------------------------------------------------
(* The shapes of the state, as RolloutTypeOK writes them.                  *)
NodeType == [phase : {"up", "stopping", "stopped"},
             version : {"old", "new"}, claim : {"none", "preparing", "handed"},
             by : Rollouts \cup {NoRollout, Other}, awaits : Rollouts \cup {NoRollout}]
LoopType == [pc : {"off", "next", "asking", "pushing", "watching", "self", "saving"},
             peer : Peers \cup {NoPeer}, before : 0..MaxTries,
             wire : {"none", "sent", "accepted", "refused"}]
StatusType == [state : {"none", "running", "stopped", "done"},
               peers : [Peers -> PeerStates \cup {"none"}],
               self : {"none", "pending", "skipped", "refused", "restarting"}]
PeerType == [version : {"old", "new"}, phase : {"up", "down"},
             attempt : {"none", "preparing", "handed", "checking", "recovering"},
             record : 0..MaxTries, tries : 0..MaxTries]
PickedType == [Rollouts -> [Peers -> 0..Unknown]]

LEMMA Types ==
  RolloutTypeOK <=> /\ node \in NodeType /\ saved \in BOOLEAN
             /\ call \in [Rollouts -> {"none", "starting", "over"}]
             /\ current \in Rollouts \cup {NoRollout}
             /\ loop \in [Rollouts -> LoopType] /\ status \in [Rollouts -> StatusType]
             /\ picked \in PickedType /\ heard \in PickedType
             /\ peer \in [Peers -> PeerType]
BY DEF RolloutTypeOK, NodeType, LoopType, StatusType, PeerType, PickedType

LEMMA RolloutConstants ==
  /\ NoRollout \notin Rollouts /\ Other \notin Rollouts /\ NoRollout # Other
  /\ Unknown \in Nat /\ \A x \in 0..MaxTries : x # Unknown /\ x \in 0..Unknown
  /\ \A x \in 0..Unknown : x # Unknown => x \in 0..MaxTries
  /\ 0 \in 0..MaxTries /\ 0 \in 0..Unknown /\ 1 \in 0..MaxTries
  /\ MaxTries \in Nat /\ MaxRollouts \in Nat
BY RolloutAssumption DEF NoRollout, Other, Rollouts, Unknown

LEMMA Nothings ==
  /\ NoLoop \in LoopType /\ NoStatus \in StatusType /\ NonePicked \in [Peers -> 0..Unknown]
  /\ NoLoop.pc = "off" /\ NoLoop.wire = "none" /\ NoLoop.before = 0
  /\ NoStatus.state = "none" /\ \A p \in Peers : NoStatus.peers[p] = "none"
  /\ \A p \in Peers : NonePicked[p] = 0
BY RolloutConstants DEF NoLoop, NoStatus, NonePicked, NoPeers, LoopType, StatusType, PeerStates

(* What a step of one rollout's loop may do to the state.                  *)
OnlyOf(r) ==
  \A s \in Rollouts \ {r} :
    /\ status'[s] = status[s] /\ loop'[s] = loop[s]
    /\ picked'[s] = picked[s] /\ heard'[s] = heard[s]

NodeAsBefore(r) ==
  /\ node' \in NodeType
  /\ node'.phase = node.phase /\ node'.awaits = node.awaits
  /\ node'.by \in {node.by, NoRollout, r}

LoopAsDue(r) ==
  /\ loop' \in [Rollouts -> LoopType]
  /\ OnPeer(r)' => loop'[r].peer \in Peers
  /\ loop'[r].wire # "none" => loop'[r].pc = "pushing"
  /\ OnPeer(r)' \/ LoopAt(r, "self")' => OnPeer(r) \/ LoopAt(r, "self") \/ node.phase = "up"

StatusAsDue(r) ==
  /\ status' \in [Rollouts -> StatusType]
  /\ Active(r)' => status'[r].state = "running"
  /\ status'[r].state = "running" => status[r].state = "running"
  /\ \A p \in Peers :
       /\ status'[r].state = "running" /\ status'[r].peers[p] \in Risky =>
            OnPeer(r)' /\ loop'[r].peer = p
       /\ status'[r].peers[p] \in {"failed", "timeout"} => status'[r].state = "stopped"
  /\ \A p, q \in Peers :
       status'[r].peers[p] \in Risky /\ status'[r].peers[q] \in Risky => p = q
  /\ node'.by = r =>
       /\ loop'[r].pc \in {"self", "saving", "off"}
       /\ \A p \in Peers : status'[r].peers[p] \notin Risky \cup {"pending"}

HeardAsDue(r) ==
  /\ picked' \in PickedType /\ heard' \in PickedType
  /\ OnPeer(r)' => picked'[r][loop'[r].peer] # Unknown
  /\ LoopAt(r, "asking")' => heard'[r][loop'[r].peer] = Unknown
  /\ \A p \in Peers : HeardOf(p, Before(r, p)', heard'[r][p])

LoopMoves(r) ==
  /\ loop[r].pc # "off"
  /\ OnlyOf(r) /\ NodeAsBefore(r) /\ LoopAsDue(r) /\ StatusAsDue(r) /\ HeardAsDue(r)
  /\ saved' \in BOOLEAN /\ call' = call /\ current' = current /\ peer' = peer

LEMMA LoopMovesKeeps ==
  ASSUME RolloutInv, NEW r \in Rollouts, LoopMoves(r)
  PROVE  RolloutInv'
<1> USE RolloutConstants DEF RolloutInv, LoopMoves
<1>1. /\ node \in NodeType /\ saved \in BOOLEAN
      /\ call \in [Rollouts -> {"none", "starting", "over"}]
      /\ current \in Rollouts \cup {NoRollout}
      /\ loop \in [Rollouts -> LoopType] /\ status \in [Rollouts -> StatusType]
      /\ picked \in PickedType /\ heard \in PickedType /\ peer \in [Peers -> PeerType]
  BY Types
<1>2. call[r] = "over"
  BY <1>1 DEF NothingBefore
<1>3. RolloutTypeOK'
  <2>1. /\ node' \in NodeType /\ loop' \in [Rollouts -> LoopType]
        /\ status' \in [Rollouts -> StatusType] /\ picked' \in PickedType /\ heard' \in PickedType
    BY DEF NodeAsBefore, LoopAsDue, StatusAsDue, HeardAsDue
  <2> QED BY <1>1, <2>1 DEF RolloutTypeOK, NodeType, LoopType, StatusType, PeerType, PickedType
<1>4. OnlyCurrentRuns'
  BY DEF OnlyCurrentRuns, OnlyOf, StatusAsDue, Active
<1>5. StartingAlone'
  BY <1>1 DEF StartingAlone, RolloutRuns, OnlyOf, StatusAsDue
<1>6. NothingBefore'
  BY <1>1, <1>2 DEF NothingBefore, OnlyOf, NodeAsBefore
<1>7. LoopKnowsPeer'
  BY DEF LoopKnowsPeer, OnlyOf, LoopAsDue, OnPeer
<1>8. RiskIsAtLoop'
  BY DEF RiskIsAtLoop, OnlyOf, StatusAsDue, OnPeer
<1>9. OneAtRisk'
  BY DEF OneAtRisk, OnlyOf, StatusAsDue
<1>10. SelfIsLast'
  BY DEF SelfIsLast, OnlyOf, StatusAsDue, NodeAsBefore
<1>11. StopAwaitsLoop'
  <2>1. node'.phase = node.phase /\ node'.awaits = node.awaits
    BY DEF NodeAsBefore
  <2>2. \A s \in Rollouts : OnPeer(s)' \/ LoopAt(s, "self")' =>
          OnPeer(s) \/ LoopAt(s, "self") \/ node.phase = "up"
    BY DEF OnlyOf, LoopAsDue, OnPeer, LoopAt
  <2>3. loop' \in [Rollouts -> LoopType]
    BY DEF LoopAsDue
  <2> QED
    BY <1>1, <2>1, <2>2, <2>3
       DEF StopAwaitsLoop, NoLoopOutlivesDaemon, OnPeer, LoopAt, NodeType, LoopType
<1>12. RecordsGrow'
  <2>1. \A p \in Peers : peer'[p].record <= Ended(p)'
    BY DEF RecordsGrow, Ended
  <2>2. ASSUME NEW s \in Rollouts
        PROVE  /\ OnPeer(s)' => picked'[s][loop'[s].peer] # Unknown
               /\ LoopAt(s, "asking")' => heard'[s][loop'[s].peer] = Unknown
               /\ \A p \in Peers : HeardOf(p, Before(s, p)', heard'[s][p])
    <3>1. CASE s = r
      BY <3>1 DEF HeardAsDue
    <3>2. CASE s # r
      <4>1. loop'[s] = loop[s] /\ picked'[s] = picked[s] /\ heard'[s] = heard[s]
        BY <3>2 DEF OnlyOf
      <4>2. \A p \in Peers : Before(s, p)' = Before(s, p)
        BY <4>1 DEF Before, OnPeer
      <4>3. \A p \in Peers : HeardOf(p, Before(s, p), heard[s][p])
        BY DEF RecordsGrow
      <4> QED BY <4>1, <4>2, <4>3 DEF RecordsGrow, OnPeer, LoopAt
    <3> QED BY <3>1, <3>2
  <2>3. \A t \in Rollouts, p \in Peers : HeardOf(p, Before(t, p), heard[t][p])'
    BY <2>2 DEF HeardOf, Ended
  <2> QED BY <2>1, <2>2, <2>3 DEF RecordsGrow
<1> QED BY <1>3, <1>4, <1>5, <1>6, <1>7, <1>8, <1>9, <1>10, <1>11, <1>12

-----------------------------------------------------------------------------
(* What every step of a loop starts from.                                  *)
LEMMA LoopHas ==
  ASSUME RolloutInv, NEW r \in Rollouts
  PROVE  /\ node \in NodeType /\ loop[r] \in LoopType /\ status[r] \in StatusType
         /\ loop \in [Rollouts -> LoopType] /\ status \in [Rollouts -> StatusType]
         /\ picked \in PickedType /\ heard \in PickedType /\ saved \in BOOLEAN
         /\ peer \in [Peers -> PeerType]
         /\ Active(r) => status[r].state = "running"
         /\ Active(r) => \A p \in Peers :
              /\ status[r].peers[p] \in Risky => OnPeer(r) /\ loop[r].peer = p
              /\ status[r].peers[p] \notin {"failed", "timeout"}
         /\ OnPeer(r) => loop[r].peer \in Peers /\ node.by # r
         /\ LoopAt(r, "next") => node.by # r
<1>1. /\ node \in NodeType /\ loop[r] \in LoopType /\ status[r] \in StatusType
      /\ loop \in [Rollouts -> LoopType] /\ status \in [Rollouts -> StatusType]
      /\ picked \in PickedType /\ heard \in PickedType /\ saved \in BOOLEAN
      /\ peer \in [Peers -> PeerType]
  BY Types DEF RolloutInv
<1>2. Active(r) => status[r].state = "running"
  BY DEF RolloutInv, OnlyCurrentRuns
<1>3. Active(r) => \A p \in Peers :
        /\ status[r].peers[p] \in Risky => OnPeer(r) /\ loop[r].peer = p
        /\ status[r].peers[p] \notin {"failed", "timeout"}
  BY <1>2 DEF RolloutInv, RiskIsAtLoop
<1>4. OnPeer(r) => loop[r].peer \in Peers /\ node.by # r
  BY DEF RolloutInv, LoopKnowsPeer, SelfIsLast, OnPeer
<1>5. LoopAt(r, "next") => node.by # r
  BY DEF RolloutInv, SelfIsLast, LoopAt
<1> QED BY <1>1, <1>2, <1>3, <1>4, <1>5

(* A step that leaves the node as it is.                                   *)
LEMMA NodeUntouched ==
  ASSUME RolloutInv, NEW r \in Rollouts, node' = node
  PROVE  NodeAsBefore(r)
BY LoopHas DEF NodeAsBefore

(* The attempts that have ended are counted.                               *)
LEMMA EndedIs ==
  ASSUME RolloutInv, NEW p \in Peers
  PROVE  /\ Ended(p) \in 0..MaxTries /\ Ended(p) \in 0..Unknown /\ Ended(p) # Unknown
         /\ peer[p].record \in 0..MaxTries /\ peer[p].record <= Ended(p)
<1>1. peer[p] \in PeerType /\ peer[p].record <= Ended(p)
  BY Types DEF RolloutInv, RecordsGrow
<1>2. Ended(p) \in 0..MaxTries
  BY <1>1, RolloutConstants DEF Ended, PeerType
<1> QED BY <1>1, <1>2, RolloutConstants DEF PeerType

(* What was picked and heard is let go of when the run is over, and kept   *)
(* by a loop that is at no peer.                                           *)
LEMMA HeardLetGo ==
  ASSUME RolloutInv, NEW r \in Rollouts, ~OnPeer(r)',
         picked' = [picked EXCEPT ![r] = NonePicked],
         heard' = [heard EXCEPT ![r] = NonePicked]
  PROVE  /\ HeardAsDue(r)
         /\ \A s \in Rollouts \ {r} : picked'[s] = picked[s] /\ heard'[s] = heard[s]
<1>1. picked \in [Rollouts -> [Peers -> 0..Unknown]] /\ heard \in [Rollouts -> [Peers -> 0..Unknown]]
  BY LoopHas DEF PickedType
<1>2. /\ picked' \in PickedType /\ heard' \in PickedType
      /\ picked'[r] = NonePicked /\ heard'[r] = NonePicked
      /\ \A s \in Rollouts \ {r} : picked'[s] = picked[s] /\ heard'[s] = heard[s]
  BY <1>1, Nothings DEF PickedType
<1>3. ASSUME NEW p \in Peers
      PROVE  HeardOf(p, Before(r, p)', heard'[r][p])
  <2>1. Before(r, p)' = 0 /\ heard'[r][p] = 0
    BY <1>2, Nothings DEF Before
  <2>2. HeardOf(p, 0, 0)
    BY EndedIs, RolloutConstants DEF HeardOf
  <2> QED BY <2>1, <2>2
<1>4. ~LoopAt(r, "asking")'
  BY DEF OnPeer, LoopAt
<1> QED BY <1>2, <1>3, <1>4 DEF HeardAsDue

LEMMA HeardStays ==
  ASSUME RolloutInv, NEW r \in Rollouts, ~OnPeer(r), ~OnPeer(r)',
         picked' = picked, heard' = heard
  PROVE  /\ HeardAsDue(r)
         /\ \A s \in Rollouts \ {r} : picked'[s] = picked[s] /\ heard'[s] = heard[s]
<1>1. picked \in PickedType /\ heard \in PickedType
  BY LoopHas
<1>2. ASSUME NEW p \in Peers
      PROVE  HeardOf(p, Before(r, p)', heard'[r][p])
  <2>1. Before(r, p)' = Before(r, p)
    BY DEF Before
  <2>2. HeardOf(p, Before(r, p), heard[r][p])
    BY DEF RolloutInv, RecordsGrow
  <2> QED BY <2>1, <2>2
<1>3. ~LoopAt(r, "asking")'
  BY DEF OnPeer, LoopAt
<1> QED BY <1>1, <1>2, <1>3 DEF HeardAsDue

(* A loop that is done with its peers: what it has at risk stays so.       *)
LEMMA LoopEnds ==
  ASSUME RolloutInv, NEW r \in Rollouts, Active(r),
         NEW final \in {"stopped", "done", "running"},
         NEW self \in {"none", "pending", "skipped", "refused", "restarting"},
         status' = [status EXCEPT ![r].state = final, ![r].self = self],
         NEW to \in LoopType, to.pc = "saving", to.wire = "none",
         loop' = [loop EXCEPT ![r] = to],
         final = "running" => \A p \in Peers : status[r].peers[p] \notin Risky,
         NodeAsBefore(r), node'.by = r => node.by = r
  PROVE  LoopAsDue(r) /\ StatusAsDue(r) /\ ~OnPeer(r)'
         /\ \A s \in Rollouts \ {r} : status'[s] = status[s] /\ loop'[s] = loop[s]
<1> DEFINE st == [status[r] EXCEPT !.state = final, !.self = self]
<1>1. status' = [status EXCEPT ![r] = st]
  OBVIOUS
<1>2. st \in StatusType /\ st.state = final /\ st.peers = status[r].peers
  BY LoopHas DEF StatusType
<1> HIDE DEF st
<1>0. status \in [Rollouts -> StatusType]
  BY LoopHas
<1>3. status' \in [Rollouts -> StatusType] /\ status'[r] = st
  BY <1>0, <1>1, <1>2
<1>4. loop' \in [Rollouts -> LoopType] /\ loop'[r] = to
  BY LoopHas
<1>5. LoopAsDue(r)
  BY <1>4 DEF LoopAsDue, OnPeer, LoopAt
<1>6. /\ Active(r)' => status'[r].state = "running"
      /\ status'[r].state = "running" => status[r].state = "running"
  BY <1>4, LoopHas DEF Active
<1>7. \A p \in Peers :
        /\ status'[r].state = "running" /\ status'[r].peers[p] \in Risky =>
             OnPeer(r)' /\ loop'[r].peer = p
        /\ status'[r].peers[p] \in {"failed", "timeout"} => status'[r].state = "stopped"
  BY <1>2, <1>3, LoopHas
<1>8. \A p, q \in Peers :
        status'[r].peers[p] \in Risky /\ status'[r].peers[q] \in Risky => p = q
  BY <1>2, <1>3 DEF RolloutInv, OneAtRisk
<1>9. node'.by = r =>
        /\ loop'[r].pc \in {"self", "saving", "off"}
        /\ \A p \in Peers : status'[r].peers[p] \notin Risky \cup {"pending"}
  BY <1>2, <1>3, <1>4 DEF RolloutInv, SelfIsLast
<1>10. StatusAsDue(r)
  BY <1>3, <1>6, <1>7, <1>8, <1>9 DEF StatusAsDue
<1>11. ~OnPeer(r)'
  BY <1>4 DEF OnPeer
<1> QED BY <1>1, <1>5, <1>10, <1>11, LoopHas

LEMMA SavingLoop ==
  [NoLoop EXCEPT !.pc = "saving"] \in LoopType
  /\ [NoLoop EXCEPT !.pc = "saving"].pc = "saving"
  /\ [NoLoop EXCEPT !.pc = "saving"].wire = "none"
BY Nothings DEF NoLoop, LoopType

LEMMA RunEndsMoves ==
  ASSUME RolloutInv, NEW r \in Rollouts, Active(r), NEW final \in {"stopped", "done"},
         RunEnds(r, final)
  PROVE  LoopMoves(r)
<1>1. /\ status' = [status EXCEPT ![r].state = final]
      /\ loop' = [loop EXCEPT ![r] = [NoLoop EXCEPT !.pc = "saving"]]
      /\ picked' = [picked EXCEPT ![r] = NonePicked]
      /\ heard' = [heard EXCEPT ![r] = NonePicked]
      /\ node' = node /\ saved' = saved /\ call' = call /\ current' = current /\ peer' = peer
  BY DEF RunEnds
<1>2. status' = [status EXCEPT ![r].state = final, ![r].self = status[r].self]
      /\ status[r].self \in {"none", "pending", "skipped", "refused", "restarting"}
  BY <1>1, LoopHas DEF StatusType
<1>3. NodeAsBefore(r)
  BY <1>1, NodeUntouched
<1>4. LoopAsDue(r) /\ StatusAsDue(r) /\ ~OnPeer(r)'
      /\ \A s \in Rollouts \ {r} : status'[s] = status[s] /\ loop'[s] = loop[s]
  BY <1>1, <1>2, <1>3, SavingLoop, LoopEnds
<1>5. HeardAsDue(r) /\ \A s \in Rollouts \ {r} : picked'[s] = picked[s] /\ heard'[s] = heard[s]
  BY <1>1, <1>4, HeardLetGo
<1> QED BY <1>1, <1>3, <1>4, <1>5, LoopHas DEF LoopMoves, OnlyOf, Active

(* The peer at hand is settled: the loop goes on to the next, or the       *)
(* rollout has stopped with it.                                            *)
LEMMA PeerEndsMoves ==
  ASSUME RolloutInv, NEW r \in Rollouts, OnPeer(r), NEW proceed \in BOOLEAN,
         NEW outcome \in IF proceed THEN {"passed", "succeeded"} ELSE {"failed", "timeout"},
         PeerEnds(r, outcome, proceed)
  PROVE  LoopMoves(r)
<1> DEFINE p == loop[r].peer
           st == [status[r] EXCEPT !.peers[p] = outcome,
                                   !.state = IF proceed THEN @ ELSE "stopped"]
           to == [NoLoop EXCEPT !.pc = IF proceed THEN "next" ELSE "saving"]
<1>1. /\ status' = [status EXCEPT ![r] = st] /\ loop' = [loop EXCEPT ![r] = to]
      /\ node' = node /\ saved' = saved /\ call' = call /\ current' = current /\ peer' = peer
  BY DEF PeerEnds
<1>2. Active(r) /\ p \in Peers /\ node.by # r
  BY LoopHas DEF Active, OnPeer
<1>3. /\ st \in StatusType
      /\ st.state = IF proceed THEN "running" ELSE "stopped"
      /\ st.peers[p] = outcome
      /\ \A q \in Peers \ {p} : st.peers[q] = status[r].peers[q]
  <2>1. status[r] \in StatusType /\ status[r].state = "running"
    BY <1>2, LoopHas
  <2>2. outcome \in PeerStates
    BY DEF PeerStates
  <2> DEFINE ps == [status[r].peers EXCEPT ![p] = outcome]
             now == IF proceed THEN "running" ELSE "stopped"
  <2>3. ps \in [Peers -> PeerStates \cup {"none"}]
    BY <2>1, <2>2 DEF StatusType
  <2>4. /\ ps[p] = outcome
        /\ \A q \in Peers \ {p} : ps[q] = status[r].peers[q]
    BY <1>2, <2>1 DEF StatusType
  <2>5. st = [status[r] EXCEPT !.peers = ps, !.state = now]
    BY <2>1
  <2>6. now \in {"running", "stopped"}
    OBVIOUS
  <2> HIDE DEF ps, st
  <2>7. st \in StatusType /\ st.state = now /\ st.peers = ps
    BY <2>1, <2>3, <2>5, <2>6 DEF StatusType
  <2> QED BY <2>4, <2>7
<1>4. /\ to \in LoopType /\ to.pc = IF proceed THEN "next" ELSE "saving"
      /\ to.wire = "none"
  BY Nothings DEF NoLoop, LoopType
<1> HIDE DEF st, to
<1>5. /\ status' \in [Rollouts -> StatusType] /\ status'[r] = st
      /\ loop' \in [Rollouts -> LoopType] /\ loop'[r] = to
      /\ \A s \in Rollouts \ {r} : status'[s] = status[s] /\ loop'[s] = loop[s]
  BY <1>1, <1>3, <1>4, LoopHas
<1>6. \A q \in Peers \ {p} : status'[r].peers[q] \notin Risky
  BY <1>2, <1>3, <1>5, LoopHas
<1>7. NodeAsBefore(r) /\ node'.by # r
  BY <1>1, <1>2, NodeUntouched
<1>8. LoopAsDue(r)
  BY <1>4, <1>5 DEF LoopAsDue, OnPeer, LoopAt
<1>9. StatusAsDue(r)
  <2>1. Active(r)' => status'[r].state = "running"
    BY <1>3, <1>4, <1>5 DEF Active
  <2>2. status'[r].state = "running" => status[r].state = "running"
    BY <1>2, LoopHas
  <2>3. \A q \in Peers :
          /\ status'[r].state = "running" /\ status'[r].peers[q] \in Risky =>
               OnPeer(r)' /\ loop'[r].peer = q
          /\ status'[r].peers[q] \in {"failed", "timeout"} => status'[r].state = "stopped"
    BY <1>3, <1>5, <1>6 DEF Risky
  <2>4. \A q1, q2 \in Peers :
          status'[r].peers[q1] \in Risky /\ status'[r].peers[q2] \in Risky => q1 = q2
    BY <1>6
  <2> QED BY <1>5, <1>7, <2>1, <2>2, <2>3, <2>4 DEF StatusAsDue
<1>10. ~OnPeer(r)'
  BY <1>4, <1>5 DEF OnPeer
<1>11. HeardAsDue(r) /\ \A s \in Rollouts \ {r} : picked'[s] = picked[s] /\ heard'[s] = heard[s]
  <2>1. CASE proceed
    <3>1. picked \in [Rollouts -> [Peers -> 0..Unknown]] /\ heard \in [Rollouts -> [Peers -> 0..Unknown]]
      BY LoopHas DEF PickedType
    <3>2. picked' = picked /\ heard' = [heard EXCEPT ![r] = [heard[r] EXCEPT ![p] = 0]]
      BY <2>1, <3>1 DEF PeerEnds
    <3>3. /\ heard' \in PickedType /\ picked' \in PickedType
          /\ heard'[r][p] = 0 /\ \A q \in Peers \ {p} : heard'[r][q] = heard[r][q]
          /\ \A s \in Rollouts \ {r} : heard'[s] = heard[s]
      BY <1>2, <3>1, <3>2, RolloutConstants DEF PickedType
    <3>4. ASSUME NEW q \in Peers
          PROVE  HeardOf(q, Before(r, q)', heard'[r][q])
      <4>1. Before(r, q)' = picked[r][q]
        BY <1>10, <3>2 DEF Before
      <4>2. CASE q = p
        <5>1. picked[r][p] # Unknown
          BY DEF RolloutInv, RecordsGrow
        <5> QED BY <3>3, <4>1, <4>2, <5>1, EndedIs, RolloutConstants DEF HeardOf
      <4>3. CASE q # p
        <5>1. Before(r, q) = picked[r][q] /\ heard'[r][q] = heard[r][q]
          BY <3>3, <4>3 DEF Before
        <5>2. HeardOf(q, Before(r, q), heard[r][q])
          BY DEF RolloutInv, RecordsGrow
        <5> QED BY <4>1, <5>1, <5>2
      <4> QED BY <4>2, <4>3
    <3>5. ~LoopAt(r, "asking")'
      BY <1>10 DEF OnPeer, LoopAt
    <3> QED BY <1>10, <3>2, <3>3, <3>4, <3>5 DEF HeardAsDue
  <2>2. CASE ~proceed
    <3>1. /\ picked' = [picked EXCEPT ![r] = NonePicked]
          /\ heard' = [heard EXCEPT ![r] = NonePicked]
      BY <2>2 DEF PeerEnds
    <3> QED BY <1>10, <3>1, HeardLetGo
  <2> QED BY <2>1, <2>2
<1> QED BY <1>1, <1>2, <1>5, <1>7, <1>8, <1>9, <1>11, LoopHas
        DEF LoopMoves, OnlyOf, Active

(* The next peer is taken when none is at risk.                            *)
LEMMA TakesPeerMoves ==
  ASSUME RolloutInv, NEW r \in Rollouts, TakesPeer(r)
  PROVE  LoopMoves(r)
<1>1. PICK p \in Pending(r) :
        /\ status' = [status EXCEPT ![r].peers[p] = "pushing"]
        /\ loop' = [loop EXCEPT ![r] =
             IF picked[r][p] = Unknown
             THEN [NoLoop EXCEPT !.pc = "asking", !.peer = p]
             ELSE [pc |-> "pushing", peer |-> p, before |-> picked[r][p], wire |-> "sent"]]
        /\ picked' = [picked EXCEPT ![r][p] = 0]
  BY DEF TakesPeer
<1>2. /\ LoopAt(r, "next") /\ node.phase = "up" /\ p \in Peers
      /\ UNCHANGED <<node, saved, call, current, heard, peer>>
  BY DEF TakesPeer, Aborted, Pending
<1>3. Active(r) /\ status[r].state = "running" /\ node.by # r
      /\ \A q \in Peers : status[r].peers[q] \notin Risky
  BY <1>2, LoopHas DEF Active, LoopAt, OnPeer
<1> DEFINE ps == [status[r].peers EXCEPT ![p] = "pushing"]
           st == [status[r] EXCEPT !.peers = ps]
           to == IF picked[r][p] = Unknown
                 THEN [NoLoop EXCEPT !.pc = "asking", !.peer = p]
                 ELSE [pc |-> "pushing", peer |-> p, before |-> picked[r][p], wire |-> "sent"]
<1>4. status' = [status EXCEPT ![r] = st] /\ loop' = [loop EXCEPT ![r] = to]
  BY <1>1
<1>5. ps \in [Peers -> PeerStates \cup {"none"}] /\ ps[p] = "pushing"
      /\ \A q \in Peers \ {p} : ps[q] = status[r].peers[q]
  BY <1>2, LoopHas DEF StatusType, PeerStates
<1> HIDE DEF ps
<1>6. st \in StatusType /\ st.state = "running" /\ st.peers = ps
  BY <1>3, <1>5, LoopHas DEF StatusType
<1>7. picked[r][p] \in 0..Unknown
  BY <1>2, LoopHas DEF PickedType
<1>8. /\ to \in LoopType /\ to.peer = p /\ to.pc \in {"asking", "pushing"}
      /\ to.wire # "none" => to.pc = "pushing"
  <2>1. CASE picked[r][p] = Unknown
    BY <1>2, <2>1, Nothings DEF LoopType, NoLoop
  <2>2. CASE picked[r][p] # Unknown
    <3>1. picked[r][p] \in 0..MaxTries
      BY <1>7, <2>2, RolloutConstants
    <3> QED BY <1>2, <2>2, <3>1 DEF LoopType
  <2> QED BY <2>1, <2>2
<1>9. /\ HeardOf(p, to.before, heard[r][p])
      /\ to.pc = "asking" => heard[r][p] = Unknown
  <2>0. ~OnPeer(r)
    BY <1>2 DEF OnPeer, LoopAt
  <2>1. HeardOf(p, picked[r][p], heard[r][p])
    BY <1>2, <2>0 DEF RolloutInv, RecordsGrow, Before
  <2>2. CASE picked[r][p] = Unknown
    BY <2>1, <2>2 DEF HeardOf
  <2>3. CASE picked[r][p] # Unknown
    BY <2>1, <2>3
  <2> QED BY <2>2, <2>3
<1> HIDE DEF st, to
<1>10. status \in [Rollouts -> StatusType] /\ loop \in [Rollouts -> LoopType]
       /\ picked \in [Rollouts -> [Peers -> 0..Unknown]]
  BY LoopHas DEF PickedType
<1>11. /\ status' \in [Rollouts -> StatusType] /\ status'[r] = st
       /\ loop' \in [Rollouts -> LoopType] /\ loop'[r] = to
       /\ \A s \in Rollouts \ {r} : status'[s] = status[s] /\ loop'[s] = loop[s]
  BY <1>4, <1>6, <1>8, <1>10
<1>12. /\ picked' \in PickedType /\ heard' = heard /\ heard \in PickedType
       /\ picked'[r][p] = 0 /\ \A q \in Peers \ {p} : picked'[r][q] = picked[r][q]
       /\ \A s \in Rollouts \ {r} : picked'[s] = picked[s] /\ heard'[s] = heard[s]
  BY <1>1, <1>2, <1>10, LoopHas, RolloutConstants DEF PickedType
<1>13. LoopAsDue(r)
  BY <1>2, <1>8, <1>11 DEF LoopAsDue, OnPeer
<1>18. HeardAsDue(r)
  <2>1. OnPeer(r)' /\ loop'[r].peer = p /\ loop'[r].before = to.before /\ ~OnPeer(r)
    BY <1>2, <1>8, <1>11 DEF OnPeer, LoopAt
  <2>2. ASSUME NEW q \in Peers
        PROVE  HeardOf(q, Before(r, q)', heard'[r][q])
    <3>1. CASE q = p
      <4>1. Before(r, q)' = to.before
        BY <2>1, <3>1 DEF Before
      <4> QED BY <1>9, <1>12, <3>1, <4>1
    <3>2. CASE q # p
      <4>1. Before(r, q)' = Before(r, q)
        BY <1>12, <2>1, <3>2 DEF Before
      <4>2. HeardOf(q, Before(r, q), heard[r][q])
        BY DEF RolloutInv, RecordsGrow
      <4> QED BY <1>12, <4>1, <4>2
    <3> QED BY <3>1, <3>2
  <2>3. LoopAt(r, "asking")' => heard'[r][loop'[r].peer] = Unknown
    BY <1>9, <1>11, <1>12, <2>1 DEF LoopAt
  <2> QED BY <1>12, <2>1, <2>2, <2>3, RolloutConstants DEF HeardAsDue
<1>14. \A q \in Peers : status'[r].peers[q] \in Risky \cup {"failed", "timeout"} => q = p
  BY <1>3, <1>5, <1>6, <1>11 DEF Risky
<1>15. OnPeer(r)' /\ loop'[r].peer = p /\ status'[r].peers[p] = "pushing"
  BY <1>5, <1>6, <1>8, <1>11 DEF OnPeer
<1>16. NodeAsBefore(r) /\ node'.by # r
  BY <1>2, <1>3, NodeUntouched
<1>17. StatusAsDue(r)
  BY <1>3, <1>6, <1>11, <1>14, <1>15, <1>16 DEF StatusAsDue
<1> QED BY <1>2, <1>11, <1>12, <1>13, <1>16, <1>17, <1>18, LoopHas DEF LoopMoves, OnlyOf, LoopAt

(* The peer at hand stays the one at risk.                                 *)
LEMMA SamePeer ==
  ASSUME RolloutInv, NEW r \in Rollouts, OnPeer(r),
         NEW to \in LoopType, loop' = [loop EXCEPT ![r] = to],
         to.pc \in {"pushing", "watching"}, to.peer = loop[r].peer,
         to.wire # "none" => to.pc = "pushing",
         \/ status' = status
         \/ status' = [status EXCEPT ![r].peers[loop[r].peer] = "restarting"],
         picked' = picked, UNCHANGED <<node, saved, call, current, peer>>,
         \/ /\ heard' = heard
            /\ to.before = loop[r].before \/ heard[r][loop[r].peer] = Unknown
         \/ /\ heard' = [heard EXCEPT ![r][to.peer] = Ended(to.peer)]
            /\ to.before = peer[to.peer].record
  PROVE  LoopMoves(r)
<1> DEFINE p == loop[r].peer
<1>1. Active(r) /\ p \in Peers /\ node.by # r /\ status[r].state = "running"
  BY LoopHas DEF Active, OnPeer
<1>2. /\ status[r] \in StatusType /\ status \in [Rollouts -> StatusType]
      /\ loop \in [Rollouts -> LoopType]
      /\ \A q \in Peers : status[r].peers[q] \in Risky => q = p
      /\ \A q \in Peers : status[r].peers[q] \notin {"failed", "timeout"}
  BY <1>1, LoopHas
<1>3. /\ status' \in [Rollouts -> StatusType] /\ status'[r].state = "running"
      /\ \A s \in Rollouts \ {r} : status'[s] = status[s]
      /\ \A q \in Peers : status'[r].peers[q] \in Risky => q = p
      /\ \A q \in Peers : status'[r].peers[q] \notin {"failed", "timeout"}
  <2>1. CASE status' = status
    BY <1>1, <1>2, <2>1
  <2>2. CASE status' = [status EXCEPT ![r].peers[loop[r].peer] = "restarting"]
    <3> DEFINE ps == [status[r].peers EXCEPT ![p] = "restarting"]
               st == [status[r] EXCEPT !.peers = ps]
    <3>1. status' = [status EXCEPT ![r] = st]
      BY <2>2
    <3>2. ps \in [Peers -> PeerStates \cup {"none"}] /\ ps[p] = "restarting"
          /\ \A q \in Peers \ {p} : ps[q] = status[r].peers[q]
      BY <1>1, <1>2 DEF StatusType, PeerStates
    <3> HIDE DEF ps
    <3>3. st \in StatusType /\ st.state = "running" /\ st.peers = ps
      BY <1>1, <1>2, <3>2 DEF StatusType
    <3> HIDE DEF st, p
    <3>4. /\ status' \in [Rollouts -> StatusType] /\ status'[r] = st
          /\ \A s \in Rollouts \ {r} : status'[s] = status[s]
      BY <1>2, <3>1, <3>3
    <3>5. \A q \in Peers : ps[q] \in Risky => q = p
      BY <1>2, <3>2
    <3>6. \A q \in Peers : ps[q] \notin {"failed", "timeout"}
      BY <1>2, <3>2
    <3> QED BY <3>3, <3>4, <3>5, <3>6
  <2> QED BY <2>1, <2>2
<1>4. /\ loop' \in [Rollouts -> LoopType] /\ loop'[r] = to
      /\ \A s \in Rollouts \ {r} : loop'[s] = loop[s]
  BY <1>2
<1>5. NodeAsBefore(r) /\ node'.by # r
  BY <1>1, NodeUntouched
<1>6. LoopAsDue(r)
  BY <1>1, <1>4 DEF LoopAsDue, OnPeer
<1>7. OnPeer(r)' /\ loop'[r].peer = p
  BY <1>4 DEF OnPeer
<1>8. StatusAsDue(r)
  BY <1>1, <1>3, <1>5, <1>7 DEF StatusAsDue
<1>9. /\ picked \in [Rollouts -> [Peers -> 0..Unknown]]
      /\ heard \in [Rollouts -> [Peers -> 0..Unknown]] /\ picked' \in PickedType
  BY LoopHas DEF PickedType
<1>10. /\ heard' \in PickedType /\ \A s \in Rollouts \ {r} : heard'[s] = heard[s]
       /\ \A q \in Peers \ {p} : heard'[r][q] = heard[r][q]
  <2>1. CASE heard' = heard
    BY <1>9, <2>1 DEF PickedType
  <2>2. CASE heard' = [heard EXCEPT ![r][to.peer] = Ended(to.peer)]
    <3> DEFINE row == [heard[r] EXCEPT ![p] = Ended(p)]
    <3>1. heard' = [heard EXCEPT ![r] = row]
      BY <2>2
    <3>2. heard[r] \in [Peers -> 0..Unknown] /\ Ended(p) \in 0..Unknown
      BY <1>1, <1>9, EndedIs
    <3>3. row \in [Peers -> 0..Unknown] /\ \A q \in Peers \ {p} : row[q] = heard[r][q]
      BY <3>2
    <3> HIDE DEF row, p
    <3> QED BY <1>9, <3>1, <3>3 DEF PickedType
  <2> QED BY <2>1, <2>2
<1>11. ASSUME NEW q \in Peers
       PROVE  HeardOf(q, Before(r, q)', heard'[r][q])
  <2>1. HeardOf(q, Before(r, q), heard[r][q])
    BY DEF RolloutInv, RecordsGrow
  <2>2. CASE q # p
    <3>1. Before(r, q)' = Before(r, q)
      BY <1>7, <2>2 DEF Before
    <3> QED BY <1>10, <2>1, <2>2, <3>1
  <2>3. CASE q = p
    <3>1. Before(r, q)' = to.before /\ Before(r, q) = loop[r].before
      BY <1>4, <1>7, <2>3 DEF Before
    <3>2. CASE heard' = heard /\ (to.before = loop[r].before \/ heard[r][p] = Unknown)
      BY <2>1, <2>3, <3>1, <3>2 DEF HeardOf
    <3>3. CASE heard' = [heard EXCEPT ![r][to.peer] = Ended(to.peer)]
               /\ to.before = peer[to.peer].record
      <4>1. heard'[r][q] = Ended(q) /\ to.before = peer[q].record
        BY <1>1, <1>9, <2>3, <3>3
      <4>2. HeardOf(q, peer[q].record, Ended(q))
        BY EndedIs, RolloutConstants DEF HeardOf
      <4> QED BY <3>1, <4>1, <4>2
    <3> QED BY <3>2, <3>3
  <2> QED BY <2>2, <2>3
<1>12. ~LoopAt(r, "asking")' /\ picked[r][p] # Unknown
  BY <1>4 DEF LoopAt, RolloutInv, RecordsGrow
<1>13. HeardAsDue(r)
  BY <1>7, <1>9, <1>10, <1>11, <1>12 DEF HeardAsDue
<1> QED BY <1>1, <1>3, <1>4, <1>5, <1>6, <1>8, <1>10, <1>13, LoopHas
        DEF LoopMoves, OnlyOf, Active

LEMMA AskedMoves ==
  ASSUME RolloutInv, NEW r \in Rollouts, Asked(r)
  PROVE  LoopMoves(r)
<1> DEFINE p == loop[r].peer
<1>1. PICK answered \in {FALSE, Answers(p)} :
        /\ loop' = [loop EXCEPT ![r].pc = "pushing", ![r].wire = "sent",
                                ![r].before = IF answered THEN peer[p].record ELSE 0]
        /\ heard' = IF answered THEN [heard EXCEPT ![r][p] = Ended(p)] ELSE heard
  BY DEF Asked
<1>2. LoopAt(r, "asking") /\ UNCHANGED <<node, saved, call, current, status, picked, peer>>
  BY DEF Asked
<1>3. OnPeer(r) /\ p \in Peers
  BY <1>2, LoopHas DEF OnPeer, LoopAt
<1>4. peer[p].record \in 0..MaxTries /\ 0 \in 0..MaxTries
  BY <1>3, EndedIs, RolloutConstants
<1> DEFINE known == IF answered THEN peer[p].record ELSE 0
           to == [loop[r] EXCEPT !.pc = "pushing", !.wire = "sent", !.before = known]
<1>5. loop' = [loop EXCEPT ![r] = to]
  BY <1>1
<1>6. to \in LoopType /\ to.pc = "pushing" /\ to.peer = p /\ to.before = known
  <2>1. loop[r] \in LoopType
    BY LoopHas
  <2>2. known \in 0..MaxTries
    BY <1>4
  <2> HIDE DEF known
  <2> QED BY <2>1, <2>2 DEF LoopType
<1>7. CASE answered
  <2>1. heard' = [heard EXCEPT ![r][to.peer] = Ended(to.peer)] /\ to.before = peer[to.peer].record
    BY <1>1, <1>6, <1>7
  <2> HIDE DEF to, p, known
  <2> QED BY <1>2, <1>3, <1>5, <1>6, <2>1, SamePeer DEF p
<1>8. CASE ~answered
  <2>1. heard' = heard /\ to.before = 0 /\ heard[r][p] = Unknown
    BY <1>1, <1>2, <1>6, <1>8 DEF RolloutInv, RecordsGrow
  <2> HIDE DEF to, p, known
  <2> QED BY <1>2, <1>3, <1>5, <1>6, <2>1, SamePeer DEF p
<1> QED BY <1>7, <1>8

LEMMA PushAcceptedMoves ==
  ASSUME RolloutInv, NEW r \in Rollouts, PushAccepted(r)
  PROVE  LoopMoves(r)
<1> DEFINE to == [loop[r] EXCEPT !.pc = "watching", !.wire = "none"]
<1>1. /\ OnPeer(r) /\ UNCHANGED <<node, saved, call, current, picked, heard, peer>>
      /\ status' = [status EXCEPT ![r].peers[loop[r].peer] = "restarting"]
      /\ loop' = [loop EXCEPT ![r] = to]
  BY DEF PushAccepted, OnPeer, LoopAt
<1>2. /\ to \in LoopType /\ to.pc = "watching" /\ to.peer = loop[r].peer
      /\ to.before = loop[r].before /\ to.wire = "none"
  <2>1. loop[r] \in LoopType
    BY LoopHas
  <2> QED BY <2>1 DEF LoopType
<1>3. picked' = picked /\ heard' = heard /\ UNCHANGED <<node, saved, call, current, peer>>
  BY <1>1
<1> HIDE DEF to
<1> QED BY <1>1, <1>2, <1>3, SamePeer

-----------------------------------------------------------------------------
(* This node's turn: it is taken with no peer left, and given back or      *)
(* handed over.                                                            *)
LEMMA SelfRefusedMoves ==
  ASSUME RolloutInv, NEW r \in Rollouts, Active(r), ~OnPeer(r), SelfRefused(r),
         NodeAsBefore(r), node'.by = r => node.by = r
  PROVE  LoopMoves(r)
<1> DEFINE to == [NoLoop EXCEPT !.pc = "saving"]
<1>1. /\ status' = [status EXCEPT ![r].self = "refused", ![r].state = "done"]
      /\ loop' = [loop EXCEPT ![r] = to]
      /\ picked' = picked /\ heard' = heard /\ saved' = saved /\ call' = call /\ current' = current /\ peer' = peer
  BY DEF SelfRefused
<1>2. status' = [status EXCEPT ![r].state = "done", ![r].self = "refused"]
  <2>1. status[r] \in StatusType /\ status \in [Rollouts -> StatusType]
    BY LoopHas
  <2>2. [status[r] EXCEPT !.self = "refused", !.state = "done"]
          = [status[r] EXCEPT !.state = "done", !.self = "refused"]
    BY <2>1 DEF StatusType
  <2> QED BY <1>1, <2>1, <2>2
<1>3. to \in LoopType /\ to.pc = "saving" /\ to.wire = "none"
  BY SavingLoop
<1> HIDE DEF to
<1>4. /\ LoopAsDue(r) /\ StatusAsDue(r) /\ ~OnPeer(r)'
      /\ \A s \in Rollouts \ {r} : status'[s] = status[s] /\ loop'[s] = loop[s]
  BY <1>1, <1>2, <1>3, LoopEnds
<1>5. HeardAsDue(r)
  BY <1>1, <1>4, HeardStays
<1> QED BY <1>1, <1>4, <1>5, LoopHas DEF LoopMoves, OnlyOf, Active

LEMMA TakesSelfMoves ==
  ASSUME RolloutInv, NEW r \in Rollouts, TakesSelf(r)
  PROVE  LoopMoves(r)
<1> DEFINE to == [loop[r] EXCEPT !.pc = "self"]
           nd == [node EXCEPT !.claim = "preparing", !.by = r]
<1>1. /\ LoopAt(r, "next") /\ node.phase = "up" /\ Pending(r) = {}
      /\ node' = nd /\ loop' = [loop EXCEPT ![r] = to]
      /\ UNCHANGED <<saved, call, current, status, picked, heard, peer>>
  BY DEF TakesSelf, Aborted
<1>2. loop[r] \in LoopType /\ node \in NodeType /\ loop \in [Rollouts -> LoopType]
      /\ status \in [Rollouts -> StatusType]
  BY LoopHas
<1>3. Active(r) /\ status[r].state = "running"
      /\ \A q \in Peers : status[r].peers[q] \notin Risky
  BY <1>1, LoopHas DEF Active, LoopAt, OnPeer
<1>4. to \in LoopType /\ to.pc = "self" /\ to.wire = loop[r].wire
  BY <1>2 DEF LoopType
<1>5. loop[r].wire = "none"
  BY <1>1, <1>2 DEF RolloutInv, LoopKnowsPeer, LoopAt, LoopType
<1>6. nd \in NodeType /\ nd.phase = node.phase /\ nd.awaits = node.awaits /\ nd.by = r
  BY <1>2 DEF NodeType
<1> HIDE DEF to, nd
<1>7. /\ loop' \in [Rollouts -> LoopType] /\ loop'[r] = to
      /\ \A s \in Rollouts \ {r} : loop'[s] = loop[s]
  BY <1>1, <1>2, <1>4
<1>8. NodeAsBefore(r)
  BY <1>1, <1>6 DEF NodeAsBefore
<1>9. LoopAsDue(r)
  BY <1>1, <1>4, <1>5, <1>7 DEF LoopAsDue, OnPeer
<1>10. \A p \in Peers : status[r].peers[p] # "pending"
  BY <1>1 DEF Pending
<1>11. StatusAsDue(r)
  BY <1>1, <1>2, <1>3, <1>4, <1>7, <1>10 DEF StatusAsDue, Risky
<1>12. ~OnPeer(r) /\ ~OnPeer(r)'
  BY <1>1, <1>4, <1>7 DEF OnPeer, LoopAt
<1>13. HeardAsDue(r)
  BY <1>1, <1>12, HeardStays
<1> QED BY <1>1, <1>3, <1>7, <1>8, <1>9, <1>11, <1>13, LoopHas
        DEF LoopMoves, OnlyOf, Active

LEMMA SelfHandedMoves ==
  ASSUME RolloutInv, NEW r \in Rollouts, SelfHanded(r)
  PROVE  LoopMoves(r)
<1> DEFINE to == [loop[r] EXCEPT !.pc = "saving"]
           nd == [node EXCEPT !.claim = "handed"]
<1>1. /\ LoopAt(r, "self") /\ node' = nd /\ loop' = [loop EXCEPT ![r] = to]
      /\ status' = [status EXCEPT ![r].self = "restarting"]
      /\ UNCHANGED <<saved, call, current, picked, heard, peer>>
  BY DEF SelfHanded
<1>2. loop[r] \in LoopType /\ node \in NodeType /\ status[r] \in StatusType
      /\ status \in [Rollouts -> StatusType]
  BY LoopHas
<1>3. Active(r) /\ status[r].state = "running"
      /\ \A q \in Peers : status[r].peers[q] \notin Risky
  BY <1>1, LoopHas DEF Active, LoopAt, OnPeer
<1>4. to \in LoopType /\ to.pc = "saving" /\ to.wire = loop[r].wire
  BY <1>2 DEF LoopType
<1>5. loop[r].wire = "none"
  BY <1>1, <1>2 DEF RolloutInv, LoopKnowsPeer, LoopAt, LoopType
<1>6. nd \in NodeType /\ nd.phase = node.phase /\ nd.awaits = node.awaits /\ nd.by = node.by
  BY <1>2 DEF NodeType
<1> HIDE DEF to, nd
<1>7. NodeAsBefore(r) /\ (node'.by = r => node.by = r)
  BY <1>1, <1>6 DEF NodeAsBefore
<1>8. status' = [status EXCEPT ![r].state = "running", ![r].self = "restarting"]
  <2>1. [status[r] EXCEPT !.self = "restarting"]
          = [status[r] EXCEPT !.state = "running", !.self = "restarting"]
    BY <1>2, <1>3 DEF StatusType
  <2> QED BY <1>1, <1>2, <2>1
<1>9. /\ LoopAsDue(r) /\ StatusAsDue(r) /\ ~OnPeer(r)'
      /\ \A s \in Rollouts \ {r} : status'[s] = status[s] /\ loop'[s] = loop[s]
  BY <1>1, <1>3, <1>4, <1>5, <1>7, <1>8, LoopEnds
<1>10. HeardAsDue(r)
  <2>1. ~OnPeer(r)
    BY <1>1 DEF OnPeer, LoopAt
  <2> QED BY <1>1, <1>9, <2>1, HeardStays
<1> QED BY <1>1, <1>3, <1>7, <1>9, <1>10, LoopHas DEF LoopMoves, OnlyOf, Active

(* A rollout that is over is let go of, except for its state.              *)
LEMMA SavesMoves ==
  ASSUME RolloutInv, NEW r \in Rollouts, Saves(r)
  PROVE  LoopMoves(r)
<1> DEFINE final == IF r = current THEN status[r].state ELSE "none"
           st == [NoStatus EXCEPT !.state = final]
<1>1. /\ LoopAt(r, "saving") /\ loop' = [loop EXCEPT ![r] = NoLoop]
      /\ saved' \in {saved, status[r].state = "running"}
      /\ status' = [status EXCEPT ![r] = st]
      /\ UNCHANGED <<node, call, current, picked, heard, peer>>
  BY DEF Saves
<1>2. status[r] \in StatusType /\ loop \in [Rollouts -> LoopType]
      /\ status \in [Rollouts -> StatusType] /\ saved \in BOOLEAN
  BY LoopHas
<1>3. final \in {"none", "running", "stopped", "done"} /\ final \in {status[r].state, "none"}
  BY <1>2 DEF StatusType
<1> HIDE DEF final
<1>4. st \in StatusType /\ st.state = final /\ st.peers = NoPeers
  BY <1>3, Nothings DEF StatusType, NoStatus
<1> HIDE DEF st
<1>5. /\ status' \in [Rollouts -> StatusType] /\ status'[r] = st
      /\ loop' \in [Rollouts -> LoopType] /\ loop'[r] = NoLoop
      /\ \A s \in Rollouts \ {r} : status'[s] = status[s] /\ loop'[s] = loop[s]
  BY <1>1, <1>2, <1>4, Nothings
<1>6. \A p \in Peers : status'[r].peers[p] = "none"
  BY <1>4, <1>5 DEF NoPeers
<1>7. NodeAsBefore(r)
  BY <1>1, NodeUntouched
<1>8. LoopAsDue(r)
  BY <1>5, Nothings DEF LoopAsDue, OnPeer, LoopAt
<1>9. status'[r].state = "running" => status[r].state = "running"
  BY <1>3, <1>4, <1>5
<1>10. StatusAsDue(r)
  BY <1>5, <1>6, <1>9, Nothings DEF StatusAsDue, Active, Risky
<1>11. saved' \in BOOLEAN
  BY <1>1, <1>2
<1>12. ~OnPeer(r) /\ ~OnPeer(r)'
  BY <1>1, <1>5, Nothings DEF OnPeer, LoopAt
<1>13. HeardAsDue(r)
  BY <1>1, <1>12, HeardStays
<1> QED BY <1>1, <1>5, <1>7, <1>8, <1>10, <1>11, <1>13 DEF LoopMoves, OnlyOf, LoopAt

LEMMA LoopStepKeeps ==
  ASSUME RolloutInv, NEW r \in Rollouts, LoopStep(r)
  PROVE  RolloutInv'
<1> SUFFICES LoopMoves(r)
  BY LoopMovesKeeps
<1>1. CASE StopsAborted(r) \/ WatchAborted(r) \/ SkipsSelf(r)
  <2>1. Active(r) /\ \E final \in {"stopped", "done"} : RunEnds(r, final)
    BY <1>1 DEF StopsAborted, WatchAborted, SkipsSelf, LoopAt, Active
  <2> QED BY <2>1, RunEndsMoves
<1>2. CASE PushRefused(r) \/ PushLost(r) \/ PollSucceeds(r)
  <2>1. OnPeer(r) /\ \E outcome \in {"passed", "succeeded"} : PeerEnds(r, outcome, TRUE)
    BY <1>2 DEF PushRefused, PushLost, PollSucceeds, LoopAt, OnPeer
  <2> QED BY <2>1, PeerEndsMoves
<1>3. CASE PollFails(r) \/ PeerTimesOut(r)
  <2>1. OnPeer(r) /\ \E outcome \in {"failed", "timeout"} : PeerEnds(r, outcome, FALSE)
    BY <1>3 DEF PollFails, PeerTimesOut, LoopAt, OnPeer
  <2> QED BY <2>1, PeerEndsMoves
<1>4. CASE ClaimRefused(r)
  <2>1. Active(r) /\ ~OnPeer(r) /\ SelfRefused(r) /\ node' = node
    BY <1>4 DEF ClaimRefused, LoopAt, Active, OnPeer
  <2> QED BY <2>1, NodeUntouched, SelfRefusedMoves
<1>5. CASE SelfFails(r)
  <2> DEFINE nd == [node EXCEPT !.claim = "none", !.by = NoRollout]
  <2>1. Active(r) /\ ~OnPeer(r) /\ SelfRefused(r) /\ node' = nd
    BY <1>5 DEF SelfFails, LoopAt, Active, OnPeer
  <2>2. node \in NodeType
    BY LoopHas
  <2>3. nd \in NodeType /\ nd.phase = node.phase /\ nd.awaits = node.awaits
        /\ nd.by = NoRollout
    BY <2>2 DEF NodeType
  <2> HIDE DEF nd
  <2>4. NodeAsBefore(r) /\ node'.by # r
    BY <2>1, <2>3, RolloutConstants DEF NodeAsBefore
  <2> QED BY <2>1, <2>4, SelfRefusedMoves
<1>6. CASE TakesPeer(r) \/ Asked(r) \/ PushAccepted(r)
  BY <1>6, TakesPeerMoves, AskedMoves, PushAcceptedMoves
<1>7. CASE TakesSelf(r) \/ SelfHanded(r) \/ Saves(r)
  BY <1>7, TakesSelfMoves, SelfHandedMoves, SavesMoves
<1> QED BY <1>1, <1>2, <1>3, <1>4, <1>5, <1>6, <1>7 DEF LoopStep

-----------------------------------------------------------------------------
(* A call is admitted only while no other is and no rollout runs.          *)
LEMMA StartKeeps ==
  ASSUME RolloutInv, NEW r \in Rollouts, StartAsked(r) \/ StartFails(r)
  PROVE  RolloutInv'
<1> USE DEF RolloutInv
<1>1. UNCHANGED <<node, saved, current, loop, status, picked, heard, peer>>
  BY DEF StartAsked, StartFails
<1>2. call \in [Rollouts -> {"none", "starting", "over"}]
  BY Types
<1>3. /\ call' \in [Rollouts -> {"none", "starting", "over"}]
      /\ \A s \in Rollouts : call'[s] # "over" => call[s] # "over"
  BY <1>2 DEF StartAsked, StartFails, NewCall
<1>4. RolloutTypeOK'
  BY <1>1, <1>3 DEF RolloutTypeOK
<1>5. StartingAlone'
  <2>1. CASE StartAsked(r)
    <3>1. ~RolloutRuns /\ \A s \in Rollouts : call[s] # "starting"
      BY <2>1 DEF StartAsked, RolloutBusy
    <3>2. \A s \in Rollouts : call'[s] = "starting" => s = r
      BY <1>2, <2>1, <3>1 DEF StartAsked
    <3> QED BY <1>1, <3>1, <3>2 DEF StartingAlone, RolloutRuns
  <2>2. CASE StartFails(r)
    <3>1. \A s \in Rollouts : call'[s] = "starting" => call[s] = "starting"
      BY <1>2, <2>2 DEF StartFails
    <3> QED BY <1>1, <3>1 DEF StartingAlone, RolloutRuns
  <2> QED BY <2>1, <2>2
<1>6. NothingBefore'
  BY <1>1, <1>3 DEF NothingBefore
<1>7. OnlyCurrentRuns' /\ LoopKnowsPeer' /\ RiskIsAtLoop' /\ OneAtRisk' /\ SelfIsLast'
  BY <1>1 DEF OnlyCurrentRuns, LoopKnowsPeer, RiskIsAtLoop, OneAtRisk, SelfIsLast, Active, OnPeer
<1>8. StopAwaitsLoop' /\ RecordsGrow'
  BY <1>1 DEF StopAwaitsLoop, NoLoopOutlivesDaemon, RecordsGrow, HeardOf, Before, Ended, OnPeer, LoopAt
<1> QED BY <1>4, <1>5, <1>6, <1>7, <1>8

(* A rollout begins when none runs, and takes the place of the current one.*)
LEMMA BeginsKeeps ==
  ASSUME RolloutInv, NEW r \in Rollouts, Begins(r)
  PROVE  RolloutInv'
<1> USE RolloutConstants DEF RolloutInv
<1>1. /\ node \in NodeType /\ saved \in BOOLEAN
      /\ call \in [Rollouts -> {"none", "starting", "over"}]
      /\ loop \in [Rollouts -> LoopType] /\ status \in [Rollouts -> StatusType]
      /\ picked \in [Rollouts -> [Peers -> 0..Unknown]]
      /\ heard \in [Rollouts -> [Peers -> 0..Unknown]] /\ peer \in [Peers -> PeerType]
  BY Types DEF PickedType
<1>2. PICK selected \in SUBSET Peers, self \in {"pending", "skipped"}, named \in BOOLEAN :
        /\ status' = [s \in Rollouts |->
             IF s = r
             THEN [state |-> "running", self |-> self,
                   peers |-> [p \in Peers |-> IF p \in selected THEN "pending" ELSE "none"]]
             ELSE IF status[s].state = "running" THEN status[s] ELSE NoStatus]
        /\ \E answered \in SUBSET {p \in selected : Answers(p)} :
             /\ picked' = [picked EXCEPT ![r] =
                  [p \in Peers |-> IF p \notin selected THEN 0
                                   ELSE IF p \in answered THEN peer[p].record ELSE Unknown]]
             /\ heard' = [heard EXCEPT ![r] =
                  [p \in Peers |-> IF p \notin selected THEN 0
                                   ELSE IF p \in answered THEN Ended(p) ELSE Unknown]]
  BY DEF Begins
<1>3. /\ call[r] = "starting" /\ call' = [call EXCEPT ![r] = "over"] /\ current' = r
      /\ loop' = [loop EXCEPT ![r].pc = "next"]
      /\ UNCHANGED <<node, saved, peer>>
  BY DEF Begins
<1>4. /\ ~RolloutRuns /\ \A s \in Rollouts : call[s] = "starting" => s = r
      /\ loop[r].pc = "off" /\ node.by # r
  BY <1>3 DEF StartingAlone, NothingBefore
<1>5. \A s \in Rollouts : status[s].state # "running"
  BY <1>4 DEF OnlyCurrentRuns, RolloutRuns
<1>6. \A s \in Rollouts : loop[s].pc \in {"off", "saving"}
  BY <1>5 DEF OnlyCurrentRuns, Active
<1> DEFINE chosen == [p \in Peers |-> IF p \in selected THEN "pending" ELSE "none"]
           st == [state |-> "running", self |-> self, peers |-> chosen]
           to == [loop[r] EXCEPT !.pc = "next"]
<1>7. st \in StatusType /\ st.state = "running"
      /\ \A p \in Peers : st.peers[p] \in {"pending", "none"}
  BY DEF StatusType, PeerStates
<1>8. to \in LoopType /\ to.pc = "next" /\ to.wire = "none"
  <2> HIDE DEF RolloutInv, st
  <2>1. loop[r] \in LoopType
    BY <1>1
  <2>2. loop[r].wire = "none"
    <3>1. LoopKnowsPeer
      BY DEF RolloutInv
    <3> QED BY <1>4, <3>1 DEF LoopKnowsPeer
  <2>3. to = [pc |-> "next", peer |-> loop[r].peer,
              before |-> loop[r].before, wire |-> loop[r].wire]
    BY <2>1 DEF LoopType
  <2> HIDE DEF to
  <2> QED BY <2>1, <2>2, <2>3 DEF LoopType
<1>9. status' = [s \in Rollouts |-> IF s = r THEN st ELSE NoStatus]
  BY <1>2, <1>5
<1>10. loop' = [loop EXCEPT ![r] = to]
  BY <1>3
<1> HIDE DEF st, to
<1>11. /\ status' \in [Rollouts -> StatusType] /\ status'[r] = st
       /\ \A s \in Rollouts \ {r} : status'[s] = NoStatus
  BY <1>7, <1>9, Nothings
<1>12. /\ loop' \in [Rollouts -> LoopType] /\ loop'[r] = to
       /\ \A s \in Rollouts \ {r} : loop'[s] = loop[s]
  BY <1>1, <1>8, <1>10
<1>13. PICK answered \in SUBSET {p \in selected : Answers(p)} :
         /\ picked' = [picked EXCEPT ![r] =
              [p \in Peers |-> IF p \notin selected THEN 0
                               ELSE IF p \in answered THEN peer[p].record ELSE Unknown]]
         /\ heard' = [heard EXCEPT ![r] =
              [p \in Peers |-> IF p \notin selected THEN 0
                               ELSE IF p \in answered THEN Ended(p) ELSE Unknown]]
  BY <1>2
<1>14. \A p \in Peers : /\ peer[p].record \in 0..MaxTries /\ peer[p].record <= Ended(p)
                        /\ Ended(p) \in 0..MaxTries
  BY EndedIs
<1>15. /\ picked' \in [Rollouts -> [Peers -> 0..Unknown]]
       /\ heard' \in [Rollouts -> [Peers -> 0..Unknown]]
       /\ \A p \in Peers : \/ picked'[r][p] = 0 /\ heard'[r][p] = 0
                           \/ picked'[r][p] = peer[p].record /\ heard'[r][p] = Ended(p)
                           \/ heard'[r][p] = Unknown
       /\ \A s \in Rollouts \ {r} : picked'[s] = picked[s] /\ heard'[s] = heard[s]
  <2> DEFINE row == [p \in Peers |-> IF p \notin selected THEN 0
                                     ELSE IF p \in answered THEN peer[p].record ELSE Unknown]
             ear == [p \in Peers |-> IF p \notin selected THEN 0
                                     ELSE IF p \in answered THEN Ended(p) ELSE Unknown]
  <2>1. picked' = [picked EXCEPT ![r] = row] /\ heard' = [heard EXCEPT ![r] = ear]
    BY <1>13
  <2>2. Unknown \in 0..Unknown
        /\ \A p \in Peers : peer[p].record \in 0..Unknown /\ Ended(p) \in 0..Unknown
    BY <1>14
  <2>3. /\ row \in [Peers -> 0..Unknown] /\ ear \in [Peers -> 0..Unknown]
        /\ \A p \in Peers : \/ row[p] = 0 /\ ear[p] = 0
                            \/ row[p] = peer[p].record /\ ear[p] = Ended(p)
                            \/ ear[p] = Unknown
    BY <2>2
  <2> HIDE DEF row, ear
  <2> QED BY <1>1, <2>1, <2>3
<1>16. call' \in [Rollouts -> {"none", "starting", "over"}] /\ call'[r] = "over"
       /\ \A s \in Rollouts : call'[s] # "starting"
       /\ \A t \in Rollouts \ {r} : call'[t] = call[t]
  BY <1>1, <1>3, <1>4
<1>17. RolloutTypeOK'
  <2>1. current' \in Rollouts \cup {NoRollout}
    BY <1>3
  <2>2. node' \in NodeType /\ saved' \in BOOLEAN /\ peer' \in [Peers -> PeerType]
    BY <1>1, <1>3
  <2>3. picked' \in PickedType /\ heard' \in PickedType
    BY <1>15 DEF PickedType
  <2> QED BY <1>11, <1>12, <1>16, <2>1, <2>2, <2>3
          DEF RolloutTypeOK, NodeType, LoopType, StatusType, PeerType, PickedType
<1>18. OnlyCurrentRuns'
  BY <1>3, <1>6, <1>7, <1>11, <1>12, Nothings DEF OnlyCurrentRuns, Active
<1>19. StartingAlone'
  BY <1>16 DEF StartingAlone
<1>20. NothingBefore'
  BY <1>3, <1>11, <1>12, <1>16, Nothings DEF NothingBefore
<1>21. LoopKnowsPeer'
  BY <1>6, <1>8, <1>12 DEF LoopKnowsPeer, OnPeer
<1>22. RiskIsAtLoop' /\ OneAtRisk'
  <2>1. \A s \in Rollouts : \A p \in Peers : status'[s].peers[p] \in {"pending", "none"}
    BY <1>7, <1>11, Nothings
  <2> QED BY <2>1 DEF RiskIsAtLoop, OneAtRisk, Risky
<1>23. SelfIsLast'
  BY <1>3, <1>4, <1>6, <1>11, <1>12, Nothings DEF SelfIsLast, Risky
<1>24. StopAwaitsLoop'
  BY <1>3, <1>6, <1>8, <1>12 DEF StopAwaitsLoop, NoLoopOutlivesDaemon, OnPeer, LoopAt
<1>25. RecordsGrow'
  <2>1. \A p \in Peers : HeardOf(p, 0, 0) /\ HeardOf(p, peer[p].record, Ended(p))
    BY <1>14 DEF HeardOf
  <2>2. \A s \in Rollouts : ~OnPeer(s) /\ ~OnPeer(s)' /\ ~LoopAt(s, "asking")'
    BY <1>6, <1>8, <1>12 DEF OnPeer, LoopAt
  <2>3. \A s \in Rollouts : \A p \in Peers : Before(s, p) = picked[s][p] /\ Before(s, p)' = picked'[s][p]
    BY <2>2 DEF Before
  <2>4. \A s \in Rollouts : \A p \in Peers : HeardOf(p, picked[s][p], heard[s][p])
    BY <2>3 DEF RecordsGrow
  <2>5. \A s \in Rollouts : \A p \in Peers : HeardOf(p, picked'[s][p], heard'[s][p])
    <3> SUFFICES ASSUME NEW s \in Rollouts, NEW p \in Peers
                 PROVE  HeardOf(p, picked'[s][p], heard'[s][p])
      OBVIOUS
    <3>1. CASE s # r
      BY <1>15, <2>4, <3>1
    <3>2. CASE s = r /\ heard'[r][p] = Unknown
      BY <3>2 DEF HeardOf
    <3>3. CASE s = r /\ heard'[r][p] # Unknown
      BY <1>15, <2>1, <3>3
    <3> QED BY <3>1, <3>2, <3>3
  <2>6. \A s \in Rollouts : \A p \in Peers : HeardOf(p, Before(s, p), heard[s][p])'
    BY <1>3, <2>3, <2>5 DEF HeardOf, Ended
  <2>7. \A p \in Peers : (peer[p].record <= Ended(p))'
    BY <1>3, <1>14 DEF Ended
  <2> QED BY <2>2, <2>6, <2>7 DEF RecordsGrow
<1> QED BY <1>17, <1>18, <1>19, <1>20, <1>21, <1>22, <1>23, <1>24, <1>25

-----------------------------------------------------------------------------
(* What the peers do leaves the rollouts as they are, and puts a record    *)
(* only of an attempt that had not ended.                                  *)
PeersGoOn ==
  /\ peer' \in [Peers -> PeerType]
  /\ \A p \in Peers :
       /\ peer'[p].record <= Ended(p)' /\ Ended(p) <= Ended(p)'
       /\ peer'[p].record \in {0, peer[p].record} \/ peer'[p].record > Ended(p)

LEMMA PeersGoOnKeeps ==
  ASSUME RolloutInv, PeersGoOn, UNCHANGED <<node, saved, call, current, status, picked, heard>>,
         loop' = loop \/ \E r \in Rollouts, w \in {"accepted", "refused"} :
           loop[r].wire = "sent" /\ loop' = [loop EXCEPT ![r].wire = w]
  PROVE  RolloutInv'
<1> USE DEF RolloutInv
<1>1. peer \in [Peers -> PeerType] /\ loop \in [Rollouts -> LoopType]
      /\ picked \in PickedType /\ heard \in PickedType
  BY Types
<1>2. /\ loop' \in [Rollouts -> LoopType]
      /\ \A r \in Rollouts : /\ loop'[r].pc = loop[r].pc /\ loop'[r].peer = loop[r].peer
                             /\ loop'[r].before = loop[r].before
                             /\ loop'[r].wire # "none" => loop[r].wire # "none"
  BY <1>1 DEF LoopType
<1>3. RolloutTypeOK'
  BY <1>2, Types DEF PeersGoOn, RolloutTypeOK, NodeType, LoopType, StatusType, PeerType, PickedType
<1>4. \A r \in Rollouts : /\ OnPeer(r)' <=> OnPeer(r)
                          /\ Active(r)' <=> Active(r)
                          /\ LoopAt(r, "self")' <=> LoopAt(r, "self")
  BY <1>2 DEF OnPeer, Active, LoopAt
<1>5. OnlyCurrentRuns' /\ StartingAlone' /\ NothingBefore'
  BY <1>2, <1>4 DEF OnlyCurrentRuns, StartingAlone, NothingBefore, RolloutRuns
<1>6. LoopKnowsPeer' /\ RiskIsAtLoop' /\ OneAtRisk' /\ SelfIsLast'
  BY <1>2, <1>4 DEF LoopKnowsPeer, RiskIsAtLoop, OneAtRisk, SelfIsLast
<1>7. StopAwaitsLoop'
  BY <1>2, <1>4 DEF StopAwaitsLoop, NoLoopOutlivesDaemon
<1>8. ASSUME NEW p \in Peers, NEW before, NEW h \in 0..Unknown, HeardOf(p, before, h)
      PROVE  \/ h = Unknown
             \/ /\ before # Unknown /\ h <= Ended(p)'
                /\ peer'[p].record \in {0, before} \/ peer'[p].record > h
  <2>1. CASE h = Unknown
    BY <2>1
  <2>2. CASE h # Unknown
    <3>1. /\ before # Unknown /\ h <= Ended(p)
          /\ peer[p].record \in {0, before} \/ peer[p].record > h
      BY <1>8, <2>2 DEF HeardOf
    <3>2. Ended(p) \in Nat /\ h \in Nat
      BY EndedIs, RolloutConstants
    <3>3. peer'[p].record \in Nat /\ Ended(p)' \in Int
      BY RolloutConstants DEF PeersGoOn, PeerType, Ended
    <3>4. /\ Ended(p) <= Ended(p)'
          /\ peer'[p].record \in {0, peer[p].record} \/ peer'[p].record > Ended(p)
      BY DEF PeersGoOn
    <3>5. h <= Ended(p)'
      BY <3>1, <3>2, <3>3, <3>4
    <3>6. peer'[p].record \in {0, before} \/ peer'[p].record > h
      BY <3>1, <3>2, <3>3, <3>4
    <3> QED BY <3>1, <3>5, <3>6
  <2> QED BY <2>1, <2>2
<1>9. \A r \in Rollouts : \A p \in Peers : Before(r, p)' = Before(r, p)
  BY <1>2, <1>4 DEF Before
<1>10. ASSUME NEW r \in Rollouts, NEW p \in Peers
       PROVE  HeardOf(p, Before(r, p), heard[r][p])'
  <2>1. heard[r][p] \in 0..Unknown /\ HeardOf(p, Before(r, p), heard[r][p])
    BY <1>1 DEF PickedType, RecordsGrow
  <2> QED BY <1>8, <1>9, <2>1 DEF HeardOf
<1>11. ASSUME NEW r \in Rollouts
       PROVE  /\ OnPeer(r)' => picked'[r][loop'[r].peer] # Unknown
              /\ LoopAt(r, "asking")' => heard'[r][loop'[r].peer] = Unknown
  BY <1>2, <1>4 DEF RecordsGrow, LoopAt
<1>12. RecordsGrow'
  BY <1>10, <1>11 DEF RecordsGrow, PeersGoOn
<1> QED BY <1>3, <1>5, <1>6, <1>7, <1>12

EndedOf(x) == IF x.attempt = "none" THEN x.tries ELSE x.tries - 1

LEMMA PeerIsGoesOn ==
  ASSUME RolloutInv, NEW p \in Peers, NEW change \in PeerType, peer' = [peer EXCEPT ![p] = change],
         change.record <= EndedOf(change), Ended(p) <= EndedOf(change),
         change.record \in {0, peer[p].record} \/ change.record > Ended(p)
  PROVE  PeersGoOn
<1>1. peer \in [Peers -> PeerType]
  BY LoopHas, Types DEF RolloutInv
<1>2. peer' \in [Peers -> PeerType] /\ peer'[p] = change
      /\ \A q \in Peers \ {p} : peer'[q] = peer[q]
  BY <1>1
<1>3. ASSUME NEW q \in Peers
      PROVE  /\ peer'[q].record <= Ended(q)' /\ Ended(q) <= Ended(q)'
             /\ peer'[q].record \in {0, peer[q].record} \/ peer'[q].record > Ended(q)
  <2>1. CASE q = p
    BY <1>2, <2>1 DEF Ended, EndedOf
  <2>2. CASE q # p
    <3>1. peer'[q] = peer[q] /\ Ended(q)' = Ended(q)
      BY <1>2, <2>2 DEF Ended
    <3>2. peer[q].record <= Ended(q) /\ Ended(q) \in 0..MaxTries
      BY EndedIs
    <3> QED BY <3>1, <3>2, RolloutConstants
  <2> QED BY <2>1, <2>2
<1> QED BY <1>2, <1>3 DEF PeersGoOn

LEMMA ClaimsGoesOn ==
  ASSUME RolloutInv, NEW p \in Peers, CanClaim(p), peer' = [peer EXCEPT ![p] = Claims(p)]
  PROVE  PeersGoOn
<1> DEFINE change == Claims(p)
<1>1. peer[p] \in PeerType
  BY Types DEF RolloutInv
<1>0. peer[p].tries + 1 \in 0..MaxTries
  BY <1>1, RolloutConstants DEF CanClaim, PeerType
<1>2. /\ change \in PeerType /\ change.attempt = "preparing"
      /\ change.record = peer[p].record /\ change.tries = peer[p].tries + 1
  BY <1>0, <1>1 DEF Claims, PeerType
<1>3. peer' = [peer EXCEPT ![p] = change]
  OBVIOUS
<1> HIDE DEF change
<1>4. EndedOf(change) = Ended(p)
  BY <1>1, <1>2, RolloutConstants DEF EndedOf, Ended, CanClaim, PeerType
<1>5. peer[p].record <= Ended(p) /\ Ended(p) \in 0..MaxTries
  BY EndedIs
<1>6. change.record <= EndedOf(change) /\ Ended(p) <= EndedOf(change)
  BY <1>2, <1>4, <1>5, RolloutConstants
<1> QED BY <1>2, <1>3, <1>6, PeerIsGoesOn

LEMMA DeliveryKeeps ==
  ASSUME RolloutInv, NEW r \in Rollouts, PeerAccepts(r) \/ PeerRefuses(r)
  PROVE  RolloutInv'
<1>1. /\ loop[r].wire = "sent" /\ UNCHANGED <<node, saved, call, current, status, picked, heard>>
      /\ \E w \in {"accepted", "refused"} : loop' = [loop EXCEPT ![r].wire = w]
  BY DEF PeerAccepts, PeerRefuses
<1>2. loop[r].peer \in Peers
  BY <1>1 DEF RolloutInv, LoopKnowsPeer, OnPeer
<1>3. PeersGoOn
  <2>1. CASE PeerAccepts(r)
    BY <1>2, <2>1, ClaimsGoesOn DEF PeerAccepts
  <2>2. CASE PeerRefuses(r)
    <3>1. peer' = peer /\ peer \in [Peers -> PeerType]
      BY <2>2, Types DEF PeerRefuses, RolloutInv
    <3>2. \A q \in Peers : Ended(q)' = Ended(q) /\ Ended(q) <= Ended(q) /\ peer[q].record <= Ended(q)
      BY <3>1, EndedIs, RolloutConstants DEF Ended
    <3> QED BY <3>1, <3>2 DEF PeersGoOn
  <2> QED BY <2>1, <2>2
<1> QED BY <1>1, <1>3, PeersGoOnKeeps

LEMMA PeerStepKeeps ==
  ASSUME RolloutInv, NEW p \in Peers, PeerStep(p)
  PROVE  RolloutInv'
<1>1. /\ peer[p] \in PeerType /\ peer[p].tries \in 0..MaxTries
      /\ peer[p].record \in 0..MaxTries /\ peer[p].record <= Ended(p)
      /\ Ended(p) \in 0..MaxTries
  BY Types, EndedIs DEF RolloutInv, PeerType
<1>2. UNCHANGED <<node, saved, rolloutVars>>
  BY DEF PeerStep, OtherUpgrade, AttemptFails, GoesDown, PeerComesUp, Settles, PeerRollsBack, PeerIs
<1>3. PeersGoOn
  <2>1. CASE OtherUpgrade(p)
    BY <2>1, ClaimsGoesOn DEF OtherUpgrade, PeerIs
  <2>2. CASE AttemptFails(p)
    <3> DEFINE change == [peer[p] EXCEPT !.attempt = "none", !.record = peer[p].tries]
    <3>1. peer' = [peer EXCEPT ![p] = change]
      BY <2>2 DEF AttemptFails, PeerIs
    <3>2. /\ change \in PeerType /\ change.record = peer[p].tries
          /\ change.tries = peer[p].tries /\ change.attempt = "none"
          /\ peer[p].attempt # "none"
      BY <1>1, <2>2 DEF AttemptFails, PeerType
    <3> HIDE DEF change
    <3>3. /\ change.record <= EndedOf(change) /\ Ended(p) <= EndedOf(change)
          /\ change.record \in {0, peer[p].record} \/ change.record > Ended(p)
      BY <1>1, <3>2, RolloutConstants DEF EndedOf, Ended
    <3> QED BY <3>1, <3>2, <3>3, PeerIsGoesOn
  <2>3. CASE GoesDown(p)
    <3> DEFINE change == [peer[p] EXCEPT !.attempt = "handed", !.phase = "down"]
    <3>1. peer' = [peer EXCEPT ![p] = change]
      BY <2>3 DEF GoesDown, PeerIs
    <3>2. /\ change \in PeerType /\ change.record = peer[p].record
          /\ change.tries = peer[p].tries /\ change.attempt = "handed"
          /\ peer[p].attempt # "none"
      BY <1>1, <2>3 DEF GoesDown, PeerType
    <3> HIDE DEF change
    <3>3. /\ change.record <= EndedOf(change) /\ Ended(p) <= EndedOf(change)
          /\ change.record \in {0, peer[p].record} \/ change.record > Ended(p)
      BY <1>1, <3>2, RolloutConstants DEF EndedOf, Ended
    <3> QED BY <3>1, <3>2, <3>3, PeerIsGoesOn
  <2>4. CASE PeerComesUp(p)
    <3> DEFINE change == [peer[p] EXCEPT !.attempt = "checking", !.phase = "up", !.version = "new"]
    <3>1. peer' = [peer EXCEPT ![p] = change]
      BY <2>4 DEF PeerComesUp, PeerIs
    <3>2. /\ change \in PeerType /\ change.record = peer[p].record
          /\ change.tries = peer[p].tries /\ change.attempt = "checking"
          /\ peer[p].attempt # "none"
      BY <1>1, <2>4 DEF PeerComesUp, PeerType
    <3> HIDE DEF change
    <3>3. /\ change.record <= EndedOf(change) /\ Ended(p) <= EndedOf(change)
          /\ change.record \in {0, peer[p].record} \/ change.record > Ended(p)
      BY <1>1, <3>2, RolloutConstants DEF EndedOf, Ended
    <3> QED BY <3>1, <3>2, <3>3, PeerIsGoesOn
  <2>5. CASE Settles(p)
    <3> DEFINE change == [peer[p] EXCEPT !.attempt = "none", !.record = 0]
    <3>1. peer' = [peer EXCEPT ![p] = change]
      BY <2>5 DEF Settles, PeerIs
    <3>2. /\ change \in PeerType /\ change.record = 0
          /\ change.tries = peer[p].tries /\ change.attempt = "none"
          /\ peer[p].attempt # "none"
      BY <1>1, <2>5, RolloutConstants DEF Settles, PeerType
    <3> HIDE DEF change
    <3>3. /\ change.record <= EndedOf(change) /\ Ended(p) <= EndedOf(change)
          /\ change.record \in {0, peer[p].record} \/ change.record > Ended(p)
      BY <1>1, <3>2, RolloutConstants DEF EndedOf, Ended
    <3> QED BY <3>1, <3>2, <3>3, PeerIsGoesOn
  <2>6. CASE PeerRollsBack(p)
    <3> DEFINE change == [peer[p] EXCEPT !.attempt = "recovering", !.phase = "up",
                                         !.version = "old"]
    <3>1. peer' = [peer EXCEPT ![p] = change]
      BY <2>6 DEF PeerRollsBack, PeerIs
    <3>2. /\ change \in PeerType /\ change.record = peer[p].record
          /\ change.tries = peer[p].tries /\ change.attempt = "recovering"
          /\ peer[p].attempt # "none"
      BY <1>1, <2>6 DEF PeerRollsBack, PeerType
    <3> HIDE DEF change
    <3>3. /\ change.record <= EndedOf(change) /\ Ended(p) <= EndedOf(change)
          /\ change.record \in {0, peer[p].record} \/ change.record > Ended(p)
      BY <1>1, <3>2, RolloutConstants DEF EndedOf, Ended
    <3> QED BY <3>1, <3>2, <3>3, PeerIsGoesOn
  <2> QED BY <2>1, <2>2, <2>3, <2>4, <2>5, <2>6 DEF PeerStep
<1> QED BY <1>2, <1>3, PeersGoOnKeeps DEF rolloutVars

-----------------------------------------------------------------------------
(* What other nodes and users do to this node, and its stop.               *)
LEMMA NodeOnlyKeeps ==
  ASSUME RolloutInv, UNCHANGED <<saved, rolloutVars, peer>>, node' \in NodeType,
         node'.by \in {node.by, NoRollout, Other},
         \/ node'.phase = node.phase /\ node'.awaits = node.awaits
         \/ node.phase = "up" /\ node'.phase = "stopping" /\ node'.awaits = current
         \/ node.phase = "stopping" /\ node'.phase = "stopped" /\ node.awaits \notin Loops
  PROVE  RolloutInv'
<1> USE RolloutConstants DEF RolloutInv, rolloutVars
<1>1. loop \in [Rollouts -> LoopType]
  BY Types
<1>2. RolloutTypeOK'
  BY Types DEF RolloutTypeOK, NodeType, LoopType, StatusType, PeerType, PickedType
<1>3. OnlyCurrentRuns' /\ LoopKnowsPeer' /\ RiskIsAtLoop' /\ OneAtRisk'
  BY DEF OnlyCurrentRuns, LoopKnowsPeer, RiskIsAtLoop, OneAtRisk, Active, OnPeer
<1>4. StartingAlone' /\ RecordsGrow'
  BY DEF StartingAlone, RolloutRuns, RecordsGrow, HeardOf, Before, Ended, OnPeer, LoopAt
<1>5. NothingBefore' /\ SelfIsLast'
  BY DEF NothingBefore, SelfIsLast
<1>6. StopAwaitsLoop'
  <2>1. CASE node'.phase = node.phase /\ node'.awaits = node.awaits
    BY <2>1 DEF StopAwaitsLoop, NoLoopOutlivesDaemon, OnPeer, LoopAt
  <2>2. CASE node.phase = "up" /\ node'.phase = "stopping" /\ node'.awaits = current
    <3>1. \A r \in Rollouts : OnPeer(r) \/ LoopAt(r, "self") => r = current
      BY DEF OnlyCurrentRuns, Active, OnPeer, LoopAt
    <3> QED BY <2>2, <3>1 DEF StopAwaitsLoop, NoLoopOutlivesDaemon, OnPeer, LoopAt
  <2>3. CASE node.phase = "stopping" /\ node'.phase = "stopped" /\ node.awaits \notin Loops
    <3>1. \A r \in Rollouts : OnPeer(r) \/ LoopAt(r, "self") => loop[r].pc = "off"
      BY <2>3 DEF StopAwaitsLoop, Loops
    <3>2. \A r \in Rollouts : loop[r].pc \in {"off", "next", "saving"}
      BY <1>1, <3>1 DEF OnPeer, LoopAt, LoopType
    <3> QED BY <2>3, <3>2 DEF StopAwaitsLoop, NoLoopOutlivesDaemon
  <2> QED BY <2>1, <2>2, <2>3
<1> QED BY <1>2, <1>3, <1>4, <1>5, <1>6

(* A new process starts with nothing in memory.                            *)
LEMMA RestartsKeeps ==
  ASSUME RolloutInv, Restarts
  PROVE  RolloutInv'
<1> USE RolloutConstants, Nothings DEF RolloutInv
<1>1. PICK v \in {node.version} \cup {w \in {"new"} : node.claim = "handed"} :
        node' = NewDaemon(v)
  BY DEF Restarts
<1>2. node \in NodeType /\ saved \in BOOLEAN /\ peer \in [Peers -> PeerType]
      /\ call \in [Rollouts -> {"none", "starting", "over"}]
  BY Types
<1>3. /\ node' \in NodeType /\ node'.phase = "up" /\ node'.by = NoRollout
  <2>1. v \in {"old", "new"}
    BY <1>2 DEF NodeType
  <2> QED BY <1>1, <2>1 DEF NewDaemon, NodeType
<1>4. /\ call' = [r \in Rollouts |-> IF call[r] = "starting" THEN "over" ELSE call[r]]
      /\ current' = NoRollout /\ loop' = [r \in Rollouts |-> NoLoop]
      /\ status' = [r \in Rollouts |-> NoStatus] /\ picked' = [r \in Rollouts |-> NonePicked]
      /\ heard' = [r \in Rollouts |-> NonePicked] /\ saved' = saved /\ peer' = peer
  BY DEF Restarts
<1>5. call' \in [Rollouts -> {"none", "starting", "over"}]
      /\ \A r \in Rollouts : call'[r] # "starting"
  BY <1>2, <1>4
<1>6. /\ loop' \in [Rollouts -> LoopType] /\ \A r \in Rollouts : loop'[r] = NoLoop
      /\ status' \in [Rollouts -> StatusType] /\ \A r \in Rollouts : status'[r] = NoStatus
      /\ picked' \in [Rollouts -> [Peers -> 0..Unknown]]
      /\ heard' \in [Rollouts -> [Peers -> 0..Unknown]]
      /\ \A r \in Rollouts : picked'[r] = NonePicked /\ heard'[r] = NonePicked
  BY <1>4
<1>7. RolloutTypeOK'
  BY <1>2, <1>3, <1>4, <1>5, <1>6
     DEF RolloutTypeOK, NodeType, LoopType, StatusType, PeerType
<1>8. OnlyCurrentRuns' /\ StartingAlone' /\ LoopKnowsPeer'
  BY <1>5, <1>6 DEF OnlyCurrentRuns, StartingAlone, LoopKnowsPeer, Active, OnPeer
<1>9. NothingBefore' /\ SelfIsLast'
  BY <1>3, <1>6 DEF NothingBefore, SelfIsLast
<1>10. RiskIsAtLoop' /\ OneAtRisk'
  BY <1>6 DEF RiskIsAtLoop, OneAtRisk, Risky
<1>11. StopAwaitsLoop'
  BY <1>3 DEF StopAwaitsLoop, NoLoopOutlivesDaemon
<1>12. RecordsGrow'
  <2>1. \A r \in Rollouts : ~OnPeer(r)' /\ ~LoopAt(r, "asking")'
    BY <1>6 DEF OnPeer, LoopAt
  <2>2. \A p \in Peers : /\ Ended(p)' = Ended(p) /\ Ended(p) \in 0..MaxTries
                         /\ peer[p].record \in 0..MaxTries /\ peer[p].record <= Ended(p)
    BY <1>4, EndedIs DEF Ended
  <2>3. \A r \in Rollouts : \A p \in Peers : Before(r, p)' = 0 /\ heard'[r][p] = 0
    BY <1>6, <2>1 DEF Before
  <2>4. \A r \in Rollouts : \A p \in Peers : HeardOf(p, Before(r, p), heard[r][p])'
    BY <1>4, <2>2, <2>3 DEF HeardOf
  <2> QED BY <1>4, <2>1, <2>2, <2>4 DEF RecordsGrow
<1> QED BY <1>7, <1>8, <1>9, <1>10, <1>11, <1>12

LEMMA NodeStepKeeps ==
  ASSUME RolloutInv, NodeStep
  PROVE  RolloutInv'
<1>1. node \in NodeType /\ current \in Rollouts \cup {NoRollout}
  BY Types DEF RolloutInv
<1>2. CASE PushedTo \/ UpgradedByUser
  <2> DEFINE nd == [node EXCEPT !.claim = "preparing", !.by = Other]
  <2>1. node' = nd /\ UNCHANGED <<saved, rolloutVars, peer>>
    BY <1>2 DEF PushedTo, UpgradedByUser, ClaimedByOther
  <2>2. nd \in NodeType /\ nd.by = Other /\ nd.phase = node.phase /\ nd.awaits = node.awaits
    BY <1>1 DEF NodeType
  <2> QED BY <2>1, <2>2, NodeOnlyKeeps
<1>3. CASE ClaimFails
  <2> DEFINE nd == [node EXCEPT !.claim = "none", !.by = NoRollout]
  <2>1. node' = nd /\ UNCHANGED <<saved, rolloutVars, peer>>
    BY <1>3 DEF ClaimFails
  <2>2. nd \in NodeType /\ nd.by = NoRollout /\ nd.phase = node.phase /\ nd.awaits = node.awaits
    BY <1>1 DEF NodeType
  <2> QED BY <2>1, <2>2, NodeOnlyKeeps
<1>4. CASE ClaimHanded
  <2> DEFINE nd == [node EXCEPT !.claim = "handed"]
  <2>1. node' = nd /\ UNCHANGED <<saved, rolloutVars, peer>>
    BY <1>4 DEF ClaimHanded
  <2>2. nd \in NodeType /\ nd.by = node.by /\ nd.phase = node.phase /\ nd.awaits = node.awaits
    BY <1>1 DEF NodeType
  <2> QED BY <2>1, <2>2, NodeOnlyKeeps
<1>5. CASE StopBegins
  <2> DEFINE nd == [node EXCEPT !.phase = "stopping", !.awaits = current]
  <2>1. node.phase = "up" /\ node' = nd /\ UNCHANGED <<saved, rolloutVars, peer>>
    BY <1>5 DEF StopBegins
  <2>2. nd \in NodeType /\ nd.by = node.by /\ nd.phase = "stopping" /\ nd.awaits = current
    BY <1>1 DEF NodeType
  <2> QED BY <2>1, <2>2, NodeOnlyKeeps
<1>6. CASE AbortReturns
  <2> DEFINE nd == [node EXCEPT !.phase = "stopped"]
  <2>1. /\ node.phase = "stopping" /\ node.awaits \notin Loops
        /\ node' = nd /\ UNCHANGED <<saved, rolloutVars, peer>>
    BY <1>6 DEF AbortReturns
  <2>2. nd \in NodeType /\ nd.by = node.by /\ nd.phase = "stopped"
    BY <1>1 DEF NodeType
  <2> QED BY <2>1, <2>2, NodeOnlyKeeps
<1>7. CASE Restarts
  BY <1>7, RestartsKeeps
<1> QED BY <1>2, <1>3, <1>4, <1>5, <1>6, <1>7 DEF NodeStep

-----------------------------------------------------------------------------
LEMMA RolloutStarts == RolloutInit => RolloutInv
<1> SUFFICES ASSUME RolloutInit PROVE RolloutInv
  OBVIOUS
<1> USE RolloutConstants, Nothings DEF RolloutInit
<1>1. node \in NodeType /\ node.phase = "up" /\ node.by = NoRollout
  BY DEF NewDaemon, NodeType
<1>2. /\ loop \in [Rollouts -> LoopType] /\ \A r \in Rollouts : loop[r] = NoLoop
      /\ status \in [Rollouts -> StatusType] /\ \A r \in Rollouts : status[r] = NoStatus
      /\ picked \in [Rollouts -> [Peers -> 0..Unknown]]
      /\ heard \in [Rollouts -> [Peers -> 0..Unknown]]
      /\ \A r \in Rollouts : picked[r] = NonePicked /\ heard[r] = NonePicked
      /\ call \in [Rollouts -> {"none", "starting", "over"}]
      /\ \A r \in Rollouts : call[r] = "none"
  OBVIOUS
<1>3. /\ peer \in [Peers -> PeerType]
      /\ \A p \in Peers : peer[p].record \in {0, 1} /\ Ended(p) = 1
  BY DEF PeerType, Ended
<1>4. RolloutTypeOK
  BY <1>1, <1>2, <1>3 DEF RolloutTypeOK, NodeType, LoopType, StatusType, PeerType
<1>5. OnlyCurrentRuns /\ StartingAlone /\ LoopKnowsPeer
  BY <1>2 DEF OnlyCurrentRuns, StartingAlone, LoopKnowsPeer, Active, OnPeer
<1>6. NothingBefore /\ SelfIsLast
  BY <1>1, <1>2 DEF NothingBefore, SelfIsLast
<1>7. RiskIsAtLoop /\ OneAtRisk
  BY <1>2 DEF RiskIsAtLoop, OneAtRisk, Risky
<1>8. StopAwaitsLoop
  BY <1>1 DEF StopAwaitsLoop, NoLoopOutlivesDaemon
<1>9. RecordsGrow
  <2>1. \A r \in Rollouts : ~OnPeer(r) /\ ~LoopAt(r, "asking")
    BY <1>2 DEF OnPeer, LoopAt
  <2>2. \A r \in Rollouts : \A p \in Peers : Before(r, p) = 0 /\ heard[r][p] = 0
    BY <1>2, <2>1 DEF Before
  <2>3. \A r \in Rollouts : \A p \in Peers : HeardOf(p, Before(r, p), heard[r][p])
    BY <1>3, <2>2 DEF HeardOf
  <2> QED BY <1>3, <2>1, <2>3 DEF RecordsGrow
<1> QED BY <1>4, <1>5, <1>6, <1>7, <1>8, <1>9 DEF RolloutInv

LEMMA RolloutSteps == RolloutInv /\ [RolloutNext]_fleetVars => RolloutInv'
<1>1. ASSUME RolloutInv, RolloutNext
      PROVE  RolloutInv'
  BY <1>1, StartKeeps, BeginsKeeps, LoopStepKeeps, DeliveryKeeps, NodeStepKeeps,
     PeerStepKeeps DEF RolloutNext
<1>2. ASSUME RolloutInv, UNCHANGED fleetVars
      PROVE  RolloutInv'
  BY <1>2 DEF RolloutInv, fleetVars, rolloutVars, RolloutTypeOK, OnlyCurrentRuns, StartingAlone, RolloutRuns,
              NothingBefore, LoopKnowsPeer, RiskIsAtLoop, OneAtRisk, SelfIsLast,
              StopAwaitsLoop, NoLoopOutlivesDaemon, RecordsGrow, HeardOf, Before, Ended,
              OnPeer, Active, LoopAt
<1> QED BY <1>1, <1>2

THEOREM RolloutInductive == RolloutSpec => []RolloutInv
BY RolloutStarts, RolloutSteps, PTL DEF RolloutSpec

(* Two peers are not in a set whose members are all the same.              *)
LEMMA AtMostOne ==
  ASSUME NEW S, \A x, y \in S : x = y
  PROVE  Cardinality(S) <= 1
<1>1. CASE S = {}
  BY <1>1, FS_EmptySet
<1>2. CASE S # {}
  <2>1. PICK x : x \in S
    BY <1>2
  <2>2. S = {x}
    BY <2>1
  <2> QED BY <2>2, FS_Singleton
<1> QED BY <1>1, <1>2

(* Over all rollouts at most one peer is pushed to or watched, none after  *)
(* one that failed, this node after all of them, and nothing in a daemon   *)
(* that has stopped (rollout.ts, fleet-upgrade.ts, daemon.ts).             *)
THEOREM OneNodeAtATime == RolloutSpec => []OneNodeAtRisk
<1>1. RolloutInv => OneNodeAtRisk
  <2> SUFFICES ASSUME RolloutInv PROVE OneNodeAtRisk
    OBVIOUS
  <2> USE DEF RolloutInv
  <2>1. ASSUME NEW r \in Rollouts
        PROVE  Cardinality(InState(r, Risky)) <= 1
    <3>1. \A p, q \in InState(r, Risky) : p = q
      BY DEF OneAtRisk, InState
    <3> QED BY <3>1, AtMostOne
  <2>2. ASSUME NEW r \in Rollouts, InState(r, {"failed", "timeout"}) # {}
        PROVE  status[r].state = "stopped"
    BY <2>2 DEF RiskIsAtLoop, InState
  <2>3. ASSUME NEW r \in Rollouts, node.by = r
        PROVE  InState(r, {"pending", "pushing", "restarting", "failed", "timeout"}) = {}
    BY <2>3 DEF SelfIsLast, InState, Risky
  <2>4. ASSUME NEW r \in Rollouts, NEW s \in Rollouts \ {r}, status[r].state = "running"
        PROVE  status[s].state # "running" /\ loop[s].pc \in {"off", "saving"}
    BY <2>4 DEF OnlyCurrentRuns, Active
  <2> QED BY <2>1, <2>2, <2>3, <2>4 DEF OneNodeAtRisk, StopAwaitsLoop, Risky
<1> QED BY <1>1, RolloutInductive, PTL

(* A failure that stops a rollout is of an attempt that was not over when  *)
(* the peer was last heard before the push, whoever else pushes to it; but *)
(* of one that was never heard any record counts (rolloutPeer).            *)
THEOREM FailuresAreFresh == RolloutSpec => FailureIsFresh
<1> DEFINE Late(r) == LET p == loop[r].peer
                       IN heard[r][p] = Unknown \/ peer[p].record > heard[r][p]
<1>1. ASSUME RolloutInv, NEW r \in Rollouts, PollFails(r)
      PROVE  Late(r)
  <2>1. OnPeer(r) /\ loop[r].peer \in Peers
    BY <1>1 DEF PollFails, LoopAt, OnPeer, RolloutInv, LoopKnowsPeer
  <2>2. HeardOf(loop[r].peer, loop[r].before, heard[r][loop[r].peer])
    BY <1>1, <2>1 DEF RolloutInv, RecordsGrow, Before
  <2>3. peer[loop[r].peer].record \notin {0, loop[r].before}
    BY <1>1 DEF PollFails
  <2> QED BY <2>2, <2>3 DEF HeardOf
<1>2. RolloutInv /\ [RolloutNext]_fleetVars =>
        [\A r \in Rollouts : PollFails(r) => Late(r)]_fleetVars
  BY <1>1
<1> QED BY <1>2, RolloutInductive, PTL DEF RolloutSpec, FailureIsFresh
=============================================================================
