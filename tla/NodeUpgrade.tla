---------------------------- MODULE NodeUpgrade -----------------------------
(***************************************************************************)
(* One node upgrading itself: the daemon prepares a release, takes         *)
(* upgrades/upgrade.lock, starts a detached updater and shuts down         *)
(* (upgrade/coordinator.ts, daemon.ts, bin/homefleetd.ts); the updater     *)
(* waits for its exit, installs, relaunches, checks the version that       *)
(* answers and rolls back (upgrade/updater.mjs).  Meanwhile users stop the *)
(* daemon, signal it, start another, and processes die.                    *)
(*                                                                         *)
(* The steps of a process are interleaved with all the others'; a step of  *)
(* the updater is what it does between two sleeps or spawns.  An upgrade is*)
(* from "old" to "new"; downloads, signatures, guards and pushed upgrades  *)
(* (which claim the node in the same way) are a run that may be refused.   *)
(* A process that is killed by SIGTERM stops gracefully, or exits at once  *)
(* if it was stopping.  Process ids are not reused.                        *)
(***************************************************************************)
EXTENDS Naturals

CONSTANTS
  Updaters,
  MaxPid,         \* bound on the processes started
  UserStarts      \* bound on the pids a user's start may take

ASSUME UpgradeAssumption == MaxPid \in Nat \ {0} /\ UserStarts \in Nat

Pids == 1..MaxPid

VARIABLES
  proc,       \* daemon processes
  installed,  \* what npm -g has: "old", "new", or "broken" by a failed install
  lock,       \* upgrade.lock
  upd,        \* updater processes
  forced,     \* daemons that cut their own teardown short
  overlapped  \* two daemons have been in acquireLock at once; no step reads it

vars == <<proc, installed, lock, upd, forced, overlapped>>

\* The steps of acquireLock: it writes the file it created, or reads the one
\* it found, removes it and tries once more.
Acquiring == {"writing", "reading", "removing", "retrying", "rereading", "clearing"}

\* run: from "preparing" to "locked" the coordinator's pending is set,
\* "handed" is its inProgress.  asked is daemon.ts's shutdownRequested.
NoProc == [phase |-> "none", version |-> "old", run |-> "none",
           asked |-> FALSE, timers |-> {}]
Dead == [NoProc EXCEPT !.phase = "dead"]
\* body: it has been written, and can be parsed.
NoLock == [pid |-> 0, body |-> FALSE, aged |-> FALSE]
NoUpdater == [pc |-> "none", old |-> 0, child |-> 0, rollback |-> FALSE,
              outcome |-> "none"]

Alive(p) == proc[p].phase \in {"starting", "up", "stopping"}
Up(p) == proc[p].phase = "up"
IsStopping(p) == proc[p].asked \/ proc[p].phase = "stopping"
Busy(p) == proc[p].run # "none"
PortFree == \A p \in Pids : ~Up(p)
Fresh(p) == proc[p].phase = "none" /\ \A q \in 1..(p - 1) : proc[q].phase # "none"
Inside(p) == proc[p].run \in Acquiring
Running(u) == upd[u].pc \notin {"none", "done", "dead"}

Init ==
  /\ proc = [p \in Pids |-> IF p = 1 THEN [NoProc EXCEPT !.phase = "up"] ELSE NoProc]
  /\ installed = "old"
  /\ lock = NoLock
  /\ upd = [u \in Updaters |-> NoUpdater]
  /\ forced = {}
  /\ overlapped = FALSE

-----------------------------------------------------------------------------
\* A process started from a release; a broken one dies at once.
Launched(p, release) ==
  proc' = [proc EXCEPT ![p] =
    IF release = "broken" THEN Dead
    ELSE [NoProc EXCEPT !.phase = "starting", !.version = release]]

(* homefleet daemon start, when nothing answers. *)
UserStart(p) ==
  /\ p <= UserStarts /\ Fresh(p) /\ PortFree
  /\ Launched(p, installed)
  /\ UNCHANGED <<installed, lock, upd, forced, overlapped>>

ComesUp(p) ==
  /\ proc[p].phase = "starting" /\ PortFree
  /\ proc' = [proc EXCEPT ![p].phase = "up"]
  /\ UNCHANGED <<installed, lock, upd, forced, overlapped>>

(* It fails to start, crashes, is killed, or has finished stopping. *)
Exits(p) ==
  /\ Alive(p)
  /\ proc' = [proc EXCEPT ![p] = Dead]
  /\ UNCHANGED <<installed, lock, upd, forced, overlapped>>

(* SIGINT or SIGTERM: a second one is the operator's escape hatch. *)
Signal(p) ==
  /\ Up(p)
  /\ proc' = [proc EXCEPT ![p].phase = "stopping"]
  /\ UNCHANGED <<installed, lock, upd, forced, overlapped>>

(* The daemon calls homefleetd's shutdown itself. *)
Shutdown(p, timer) ==
  IF Up(p)
  THEN /\ proc' = [proc EXCEPT ![p].phase = "stopping", ![p].asked = TRUE,
                               ![p].timers = @ \ {timer}]
       /\ UNCHANGED forced
  ELSE /\ proc' = [proc EXCEPT ![p] = Dead]
       /\ forced' = forced \cup {p}
TimerDropped(p, timer) ==
  proc' = [proc EXCEPT ![p].timers = @ \ {timer}] /\ UNCHANGED forced

(* POST /control/shutdown: refused during an upgrade, a repeat answered    *)
(* without asking again; otherwise the flag now and the shutdown 250 ms    *)
(* later.                                                                  *)
StopRequested(p) ==
  /\ Up(p) /\ ~Busy(p) /\ ~IsStopping(p)
  /\ proc' = [proc EXCEPT ![p].asked = TRUE, ![p].timers = @ \cup {"stop"}]
  /\ UNCHANGED <<installed, lock, upd, forced, overlapped>>

StopTimer(p) ==
  /\ Alive(p) /\ "stop" \in proc[p].timers
  /\ IF Up(p) THEN Shutdown(p, "stop") ELSE TimerDropped(p, "stop")
  /\ UNCHANGED <<installed, lock, upd, overlapped>>

(* requestShutdownOnce, 250 ms after the updater was started. *)
UpgradeTimer(p) ==
  /\ Alive(p) /\ "upgrade" \in proc[p].timers
  /\ IF IsStopping(p) THEN TimerDropped(p, "upgrade") ELSE Shutdown(p, "upgrade")
  /\ UNCHANGED <<installed, lock, upd, overlapped>>

-----------------------------------------------------------------------------
(* upgradeSelf, or a pushed upgrade: claims the node, then prepares. *)
UpgradeClaimed(p) ==
  /\ Up(p) /\ ~IsStopping(p) /\ ~Busy(p)
  /\ proc[p].version = "old"
  /\ proc' = [proc EXCEPT ![p].run = "preparing"]
  /\ UNCHANGED <<installed, lock, upd, forced, overlapped>>

(* Nothing to fetch, refused by the guards; or acquireLock throws, and a   *)
(* file that it has created stays without a body.                          *)
UpgradeRefused(p) ==
  /\ Alive(p)
  /\ proc[p].run \in {"preparing", "writing", "removing", "retrying", "clearing"}
  /\ proc' = [proc EXCEPT ![p].run = "none"]
  /\ UNCHANGED <<installed, lock, upd, forced, overlapped>>

(* acquireLock: the exclusive create.                                      *)
Acquires(p, run) ==
  /\ Alive(p)
  /\ proc' = [proc EXCEPT ![p].run = run]
  /\ UNCHANGED <<installed, upd, forced>>
Enters(p) ==
  overlapped' = (overlapped \/ \E q \in Pids \ {p} : Inside(q))

LockCreated(p) ==
  /\ proc[p].run \in {"preparing", "retrying"} /\ lock = NoLock
  /\ Acquires(p, "writing") /\ Enters(p)
  /\ lock' = [NoLock EXCEPT !.pid = p]

LockWritten(p) ==
  /\ proc[p].run = "writing"
  /\ Acquires(p, "locked")
  /\ lock' = [lock EXCEPT !.body = @ \/ lock.pid = p]
  /\ UNCHANGED overlapped

LockFound(p) ==
  /\ proc[p].run \in {"preparing", "retrying"} /\ lock # NoLock
  /\ Acquires(p, IF proc[p].run = "preparing" THEN "reading" ELSE "rereading") /\ Enters(p)
  /\ UNCHANGED lock

Stale_DeadHolder == ~lock.body \/ ~Alive(lock.pid)

(* What is read is stale: gone, not to be parsed, or old and its holder    *)
(* dead.                                                                   *)
Stale == ~lock.body \/ (lock.aged /\ ~Alive(lock.pid))

LockRead(p) ==
  /\ proc[p].run \in {"reading", "rereading"}
  /\ Acquires(p, CASE ~Stale -> "none"
                   [] Stale /\ proc[p].run = "reading" -> "removing"
                   [] Stale /\ proc[p].run = "rereading" -> "clearing")
  /\ UNCHANGED <<lock, overlapped>>

(* Whatever is there by then is removed; the second time in vain.          *)
LockRemoved(p) ==
  /\ proc[p].run \in {"removing", "clearing"}
  /\ Acquires(p, IF proc[p].run = "removing" THEN "retrying" ELSE "none")
  /\ lock' = NoLock
  /\ UNCHANGED overlapped

AcquireStep(p) ==
  LockCreated(p) \/ LockWritten(p) \/ LockFound(p) \/ LockRead(p) \/ LockRemoved(p)

(* STALE_LOCK_MS pass.  Assumed: not during an upgrade, so only a lock that *)
(* was left behind gets old.                                               *)
LockAges ==
  /\ lock.body /\ ~lock.aged
  /\ \A u \in Updaters : ~Running(u)
  /\ \A p \in Pids : proc[p].run \notin {"writing", "locked"}
  /\ lock' = [lock EXCEPT !.aged = TRUE]
  /\ UNCHANGED <<proc, installed, upd, forced, overlapped>>

(* The state is written and the updater started, with or without a copy to *)
(* roll back to; the daemon will shut down.                                *)
UpdaterSpawned(p, u) ==
  /\ Alive(p) /\ proc[p].run = "locked"
  /\ upd[u] = NoUpdater
  /\ \E rollback \in BOOLEAN :
       upd' = [upd EXCEPT ![u] = [NoUpdater EXCEPT !.pc = "waiting", !.old = p,
                                                   !.rollback = rollback]]
  /\ proc' = [proc EXCEPT ![p].run = "handed", ![p].timers = @ \cup {"upgrade"}]
  /\ UNCHANGED <<installed, lock, forced, overlapped>>

SpawnFails(p) ==
  /\ Alive(p) /\ proc[p].run = "locked"
  /\ lock' = NoLock
  /\ proc' = [proc EXCEPT ![p].run = "none"]
  /\ UNCHANGED <<installed, upd, forced, overlapped>>

-----------------------------------------------------------------------------
At(u, where) == upd[u].pc = where
Goes(u, where) == upd' = [upd EXCEPT ![u].pc = where]
Ends(u, outcome) == upd' = [upd EXCEPT ![u].pc = "ended", ![u].outcome = outcome]
Killed(p) ==
  proc' = [proc EXCEPT ![p] =
    IF @.phase = "stopping" THEN Dead ELSE [@ EXCEPT !.phase = "stopping"]]
Reports(v) == \E p \in Pids : Up(p) /\ proc[p].version = v

(* waitForExit returns, or kills at its deadline and goes on a second later. *)
WaitEnds(u, p, next) ==
  /\ IF Alive(p) THEN Killed(p) ELSE UNCHANGED proc
  /\ Goes(u, next)
  /\ UNCHANGED <<installed, lock, forced, overlapped>>
OldDaemonGone_NoDeadline(u) ==
  /\ At(u, "waiting") /\ ~Alive(upd[u].old)
  /\ Goes(u, "installing")
  /\ UNCHANGED <<proc, installed, lock, forced, overlapped>>

OldDaemonGone(u) == At(u, "waiting") /\ WaitEnds(u, upd[u].old, "installing")

Installs(u) ==
  /\ At(u, "installing")
  /\ installed' = "new"
  /\ Goes(u, "launching")
  /\ UNCHANGED <<proc, lock, forced, overlapped>>

InstallFails(u) ==
  /\ At(u, "installing")
  /\ installed' \in {installed, "broken"}
  /\ Goes(u, "recovering")
  /\ UNCHANGED <<proc, lock, forced, overlapped>>

Launches(u) ==
  /\ At(u, "launching")
  /\ \E p \in Pids :
       /\ Fresh(p) /\ Launched(p, installed)
       /\ upd' = [upd EXCEPT ![u].pc = "checking", ![u].child = p]
  /\ UNCHANGED <<installed, lock, forced, overlapped>>

(* reportsVersion: whoever has the control port answers with its version. *)
Healthy(u) ==
  /\ At(u, "checking") /\ Reports("new")
  /\ Ends(u, "succeeded")
  /\ UNCHANGED <<proc, installed, lock, forced, overlapped>>

(* healthTimeoutMs are over: the child is killed and waited for. *)
Unhealthy(u) ==
  /\ At(u, "checking")
  /\ IF Alive(upd[u].child) THEN Killed(upd[u].child) ELSE UNCHANGED proc
  /\ Goes(u, "killing")
  /\ UNCHANGED <<installed, lock, forced, overlapped>>
ChildGone(u) == At(u, "killing") /\ WaitEnds(u, upd[u].child, "recovering")

RollsBack_SkipsInstall(u) ==
  /\ At(u, "recovering") /\ upd[u].rollback
  /\ \E p \in Pids :
       /\ Fresh(p) /\ Launched(p, "old")
       /\ upd' = [upd EXCEPT ![u].pc = "rechecking", ![u].child = p]
  /\ UNCHANGED <<installed, lock, forced, overlapped>>

(* recover: the previous release is installed and launched. *)
RollsBack(u) ==
  /\ At(u, "recovering") /\ upd[u].rollback
  /\ installed' = "old"
  /\ \E p \in Pids :
       /\ Fresh(p) /\ Launched(p, "old")
       /\ upd' = [upd EXCEPT ![u].pc = "rechecking", ![u].child = p]
  /\ UNCHANGED <<lock, forced, overlapped>>

RolledBack(u) ==
  /\ At(u, "rechecking") /\ Reports("old")
  /\ Ends(u, "rolled-back")
  /\ UNCHANGED <<proc, installed, lock, forced, overlapped>>

RollbackUnhealthy(u) ==
  /\ At(u, "rechecking")
  /\ IF Alive(upd[u].child) THEN Killed(upd[u].child) ELSE UNCHANGED proc
  /\ Ends(u, "failed")
  /\ UNCHANGED <<installed, lock, forced, overlapped>>

(* No copy, or its install fails: whatever is installed is started. *)
GivesUp(u) ==
  /\ At(u, "recovering")
  /\ installed' \in IF upd[u].rollback THEN {installed, "broken"} ELSE {installed}
  /\ \E p \in Pids : Fresh(p) /\ Launched(p, installed')
  /\ Ends(u, "failed")
  /\ UNCHANGED <<lock, forced, overlapped>>

(* A file or process cannot be opened or started: run throws. *)
Throws(u) ==
  /\ upd[u].pc \in {"launching", "recovering"}
  /\ installed' \in {installed} \cup
       {v \in {"old"} : At(u, "recovering") /\ upd[u].rollback}
  /\ Ends(u, "failed")
  /\ UNCHANGED <<proc, lock, forced, overlapped>>

(* The result is written and the lock removed. *)
Finishes(u) ==
  /\ At(u, "ended")
  /\ lock' = NoLock
  /\ upd' = [upd EXCEPT ![u] = [NoUpdater EXCEPT !.pc = "done"]]
  /\ UNCHANGED <<proc, installed, forced, overlapped>>

(* The machine goes down, or someone kills it. *)
UpdaterDies(u) ==
  /\ Running(u)
  /\ upd' = [upd EXCEPT ![u] = [NoUpdater EXCEPT !.pc = "dead"]]
  /\ UNCHANGED <<proc, installed, lock, forced, overlapped>>

-----------------------------------------------------------------------------
DaemonStep(p) ==
  \/ UserStart(p) \/ ComesUp(p) \/ Exits(p) \/ Signal(p)
  \/ StopRequested(p) \/ StopTimer(p) \/ UpgradeTimer(p)
  \/ UpgradeClaimed(p) \/ UpgradeRefused(p) \/ AcquireStep(p) \/ SpawnFails(p)
  \/ \E u \in Updaters : UpdaterSpawned(p, u)

UpdaterStep(u) ==
  \/ OldDaemonGone(u) \/ Installs(u) \/ InstallFails(u) \/ Launches(u)
  \/ Healthy(u) \/ Unhealthy(u) \/ ChildGone(u)
  \/ RollsBack(u) \/ RolledBack(u) \/ RollbackUnhealthy(u) \/ GivesUp(u)
  \/ Throws(u) \/ Finishes(u)

Next ==
  \/ \E p \in Pids : DaemonStep(p)
  \/ \E u \in Updaters : UpdaterStep(u) \/ UpdaterDies(u)
  \/ LockAges

Spec == Init /\ [][Next]_vars

(* Fairness: the updater runs on, unless it is killed; its waits have      *)
(* deadlines and npm ends.                                                 *)
FairSpec == Spec /\ \A u \in Updaters : WF_vars(UpdaterStep(u))

-----------------------------------------------------------------------------
TypeOK ==
  /\ proc \in [Pids -> [phase : {"none", "starting", "up", "stopping", "dead"},
                        version : {"old", "new"},
                        run : Acquiring \cup {"none", "preparing", "locked", "handed"},
                        asked : BOOLEAN, timers : SUBSET {"stop", "upgrade"}]]
  /\ installed \in {"old", "new", "broken"}
  /\ lock \in [pid : Pids \cup {0}, body : BOOLEAN, aged : BOOLEAN]
  /\ upd \in [Updaters ->
       [pc : {"none", "waiting", "installing", "launching", "checking", "killing",
              "recovering", "rechecking", "ended", "done", "dead"},
        old : Pids \cup {0}, child : Pids \cup {0}, rollback : BOOLEAN,
        outcome : {"none", "succeeded", "rolled-back", "failed"}]]
  /\ forced \subseteq Pids
  /\ overlapped \in BOOLEAN

(* The daemon's own requests, a stop and an upgrade that cross each other  *)
(* or a signal, never take homefleetd's "force exit now" path, which cuts  *)
(* daemon.stop() short (daemon.ts, shutdown.ts).                           *)
NoForcedExit == forced = {}

(* "One upgrade at a time" (files.ts:10): unless two daemons were once in  *)
(* acquireLock at the same time, a running updater is alone and covered by *)
(* a lock that can be read until its outcome is recorded, although the     *)
(* lock names a daemon that is dead by then (files.ts:89), and although    *)
(* locks left behind, half written or by dead updaters, are taken over.    *)
(* No teardown is ever forced.                                             *)
LockCoversUpgrade ==
  /\ TypeOK /\ NoForcedExit
  /\ ~overlapped =>
       /\ \A u, w \in Updaters : Running(u) /\ Running(w) => u = w
       /\ (\E u \in Updaters : Running(u)) => lock.body

(* An outcome says what is left on the node: after "succeeded" the new     *)
(* release is installed, after "rolled-back" the previous one, whoever     *)
(* answered the version check; with the same exception.                    *)
OutcomeTruthful ==
  ~overlapped => \A u \in Updaters : At(u, "ended") =>
    /\ upd[u].outcome = "succeeded" => installed = "new"
    /\ upd[u].outcome = "rolled-back" => installed = "old"

(* Every upgrade handed to an updater ends with a recorded outcome and a   *)
(* free lock, whatever the daemons do.                                     *)
UpgradeSettles ==
  \A u \in Updaters : At(u, "waiting") ~> (At(u, "done") \/ At(u, "dead"))
=============================================================================
