-------------------------- MODULE DaemonLifecycle ---------------------------
(***************************************************************************)
(* How a daemon comes up and goes down (daemon.ts start and stop,          *)
(* homefleetd.ts), who may ask it to (signals, control/shutdown.ts), and   *)
(* the `homefleet daemon` commands that do (cli/daemon-command.ts).        *)
(*                                                                         *)
(* Processes share a data directory and its configuration, so they want    *)
(* the same ports.  start() brings the components up  *)
(* in order and pushes a teardown step after each; stop() and the unwind   *)
(* of a failed start() pop what was pushed.  Both await each step, so a    *)
(* stop() may run in the middle of start(), which then goes on.            *)
(*                                                                         *)
(* Five components stand for all: discovery and the rest, which have no    *)
(* port others want, come and go with their neighbours.  Write jobs stand  *)
(* for all jobs.                                                           *)
(***************************************************************************)
EXTENDS Naturals, Sequences, FiniteSets, SequencesExt

CONSTANTS
  Procs,       \* the processes ever launched on this data directory
  Cmds,        \* CLI commands
  Signalled,   \* the processes that are sent signals,
  MaxSignals   \* and how many at most

Nobody == "nobody"

ASSUME LifecycleAssumption == Nobody \notin Procs

Store == 1
Jobs == 2
Hfp == 3
Mcp == 4
Control == 5
Fronts == {Hfp, Mcp, Control}
Ups == 1..5

VARIABLES
  proc,    \* the processes
  token,   \* whose token the control-token file holds
  reused,  \* dead processes a command knows whose pid another program has now
  cmd      \* the commands

daemonVars == <<proc, token, reused, cmd>>

Idle == [on |-> FALSE, rest |-> <<>>]
NotLaunched ==
  [life |-> "none",       \* none, alive, exit0, exit1, forced, killed
   state |-> "new",       \* Daemon.state
   next |-> Store,        \* the component start() brings up next
   up |-> {},
   teardown |-> <<>>,
   early |-> FALSE,       \* history: stop() began before start() was through
   stop |-> Idle,         \* the steps stop() has still to await
   unwind |-> Idle,       \* the same for a failed start()
   halting |-> FALSE,     \* homefleetd's stopping flag
   asked |-> FALSE,       \* shutdownRequested
   timer |-> FALSE,       \* the 250 ms of a control stop
   job |-> "none",        \* none, running, ruined
   signals |-> 0]
Launched == [NotLaunched EXCEPT !.life = "alive", !.state = "started"]
NoCmd == [pc |-> "idle", restarts |-> FALSE, pid |-> Nobody, child |-> Nobody,
          stopped |-> FALSE]

(* A dead process holds nothing. *)
Dead(r, life) == [NotLaunched EXCEPT !.life = life, !.early = r.early]

Alive(p) == proc[p].life = "alive"
Holds(p, c) == Alive(p) /\ c \in proc[p].up
Answering == {p \in Procs : Holds(p, Control)}

DaemonInit ==
  /\ proc = [p \in Procs |-> NotLaunched]
  /\ token = Nobody /\ reused = {}
  /\ cmd = [c \in Cmds |-> NoCmd]

Set(p, r) == proc' = [proc EXCEPT ![p] = r]

-----------------------------------------------------------------------------
Unlaunched == {p \in Procs : proc[p].life = "none"}
NextProcess == IF Unlaunched = {} THEN Nobody ELSE CHOOSE p \in Unlaunched : TRUE

(* Run by hand, by the login task, or by the CLI: nothing in homefleetd    *)
(* checks for another process on the data directory.                       *)
Launch(p) ==
  /\ p = NextProcess
  /\ Set(p, Launched)
  /\ UNCHANGED <<token, reused, cmd>>

(* purgeWriteWorktrees, sweepLeakedWriteRefs: everything under jobs/ goes. *)
Purged(p) ==
  [q \in Procs |->
     IF q # p /\ Alive(q) /\ proc[q].job = "running"
     THEN [proc[q] EXCEPT !.job = "ruined"] ELSE proc[q]]

Brought(p, c) ==
  [proc[p] EXCEPT !.next = c + 1, !.up = @ \cup {c}, !.teardown = Append(@, c)]

TokenWritten_First(p, c) == IF c = Store THEN p ELSE token

(* Written just before the control server starts. *)
TokenWritten(p, c) == IF c = Control THEN p ELSE token

StartComponent(p) ==
  LET c == proc[p].next IN
  /\ Alive(p) /\ c \in Ups /\ ~proc[p].unwind.on
  /\ c \in Fronts => \A q \in Procs \ {p} : ~Holds(q, c)
  /\ proc' = [(IF c = Store THEN Purged(p) ELSE proc) EXCEPT ![p] = Brought(p, c)]
  /\ token' = TokenWritten(p, c)
  /\ UNCHANGED <<reused, cmd>>

(* A component throws, as one whose port is taken does. *)
StartFails(p) ==
  LET c == proc[p].next IN
  /\ Alive(p) /\ c \in Ups /\ ~proc[p].unwind.on
  /\ Set(p, [proc[p] EXCEPT
       !.state = "stopped", !.next = 0, !.teardown = <<>>,
       !.unwind = [on |-> TRUE, rest |-> Reverse(proc[p].teardown)]])
  /\ token' = TokenWritten(p, c)
  /\ UNCHANGED <<reused, cmd>>

(* Daemon.stop, up to its first await. *)
Stopped(r) ==
  IF r.state = "stopped" THEN [r EXCEPT !.stop.on = TRUE]
  ELSE [r EXCEPT !.state = "stopped", !.early = r.next \in Ups, !.teardown = <<>>,
                 !.stop = [on |-> TRUE, rest |-> Reverse(r.teardown)]]

(* homefleetd's shutdown: the second request exits at once. *)
ShutDown(r) ==
  IF r.halting THEN Dead(r, "forced")
  ELSE Stopped([r EXCEPT !.halting = TRUE])

(* A component's stop.  The job manager's aborts the jobs and waits, but   *)
(* not for ever.                                                           *)
Torn(r, c, overrun) ==
  [r EXCEPT !.up = @ \ {c}, !.job = IF c = Jobs /\ ~overrun THEN "none" ELSE @]

StopStep(p) ==
  /\ Alive(p) /\ proc[p].stop.on
  /\ IF proc[p].stop.rest = <<>>
     THEN Set(p, Dead(proc[p], "exit0"))
     ELSE \E overrun \in BOOLEAN :
            Set(p, [Torn(proc[p], Head(proc[p].stop.rest), overrun)
                      EXCEPT !.stop.rest = Tail(@)])
  /\ UNCHANGED <<token, reused, cmd>>

UnwindStep(p) ==
  /\ Alive(p) /\ proc[p].unwind.on
  /\ IF proc[p].unwind.rest = <<>>
     THEN Set(p, Dead(proc[p], "exit1"))
     ELSE \E overrun \in BOOLEAN :
            Set(p, [Torn(proc[p], Head(proc[p].unwind.rest), overrun)
                      EXCEPT !.unwind.rest = Tail(@)])
  /\ UNCHANGED <<token, reused, cmd>>

(* SIGINT, SIGTERM. *)
Signal(p) ==
  /\ Alive(p) /\ p \in Signalled /\ proc[p].signals < MaxSignals
  /\ Set(p, ShutDown([proc[p] EXCEPT !.signals = @ + 1]))
  /\ UNCHANGED <<token, reused, cmd>>

(* The deferred half of a control stop: a signal inside the delay already  *)
(* began stopping.                                                         *)
StopTimerFires(p) ==
  /\ Alive(p) /\ proc[p].timer
  /\ LET r == [proc[p] EXCEPT !.timer = FALSE]
     IN Set(p, IF r.state # "stopped" THEN ShutDown(r) ELSE r)
  /\ UNCHANGED <<token, reused, cmd>>

Crash(p) ==
  /\ Alive(p)
  /\ Set(p, Dead(proc[p], "killed"))
  /\ UNCHANGED <<token, reused, cmd>>

PidReused(p) ==
  /\ proc[p].life \notin {"none", "alive"} /\ p \notin reused
  /\ \E c \in Cmds : cmd[c].pid = p
  /\ reused' = reused \cup {p}
  /\ UNCHANGED <<proc, token, cmd>>

(* A peer delegates a write job, and it ends. *)
JobArrives(p) ==
  /\ {Jobs, Hfp} \subseteq proc[p].up /\ Alive(p) /\ proc[p].job = "none"
  /\ Set(p, [proc[p] EXCEPT !.job = "running"])
  /\ UNCHANGED <<token, reused, cmd>>

JobEnds(p) ==
  /\ Alive(p) /\ proc[p].job # "none"
  /\ Set(p, [proc[p] EXCEPT !.job = "none"])
  /\ UNCHANGED <<token, reused, cmd>>

-----------------------------------------------------------------------------
(* The commands.  A wait that runs out is a step of its own. *)
Goes(c, pc) == cmd' = [cmd EXCEPT ![c].pc = pc]
CmdEnds(c) == cmd' = [cmd EXCEPT ![c].pc = "done"]

(* Where a stop succeeded a restart goes on to start. *)
StopEnds(c, died) ==
  cmd' = [cmd EXCEPT ![c].pc = IF cmd[c].restarts THEN "start" ELSE "done",
                     ![c].stopped = died]

Issue(c) ==
  /\ cmd[c].pc = "idle"
  /\ \/ \E restarts \in BOOLEAN :
          cmd' = [cmd EXCEPT ![c].pc = "stop", ![c].restarts = restarts]
     \/ Goes(c, "start")
  /\ UNCHANGED <<proc, token, reused>>

(* probe: a daemon that is starting or stopping does not answer. *)
StopProbes(c) ==
  /\ cmd[c].pc = "stop"
  /\ IF Answering = {} THEN StopEnds(c, FALSE) ELSE Goes(c, "post")
  /\ UNCHANGED <<proc, token, reused>>

(* POST /control/shutdown with the token read from the file, and           *)
(* decideShutdown.                                                         *)
Decides(p, force) ==
  IF proc[p].asked \/ proc[p].state = "stopped" THEN "already"
  ELSE IF proc[p].job # "none" /\ ~force THEN "busy"
  ELSE "request"

StopPosts(c) ==
  /\ cmd[c].pc = "post"
  /\ IF Answering = {} THEN StopEnds(c, FALSE) /\ UNCHANGED proc
     ELSE \E p \in Answering, force \in BOOLEAN :
       IF token # p THEN CmdEnds(c) /\ UNCHANGED proc
       ELSE IF Decides(p, force) = "busy" THEN CmdEnds(c) /\ UNCHANGED proc
       ELSE /\ cmd' = [cmd EXCEPT ![c].pc = "waitExit", ![c].pid = p]
            /\ IF Decides(p, force) = "already" THEN UNCHANGED proc
               ELSE Set(p, [proc[p] EXCEPT !.asked = TRUE, !.timer = TRUE])
  /\ UNCHANGED <<token, reused>>

PidAlive(p) == Alive(p) \/ p \in reused

ExitSeen(c) ==
  /\ cmd[c].pc = "waitExit" /\ ~PidAlive(cmd[c].pid)
  /\ StopEnds(c, TRUE)
  /\ UNCHANGED <<proc, token, reused>>

StopWaitOver_TrustsThePid(c) ==
  /\ cmd[c].pc = "waitExit" /\ PidAlive(cmd[c].pid)
  /\ StopEnds(c, TRUE)
  /\ UNCHANGED <<proc, token, reused>>

(* Only a pid that still runs homefleetd is killed; one whose command line *)
(* cannot be read is left alone; a kill may fail.                          *)
StopWaitOver(c) ==
  LET p == cmd[c].pid IN
  /\ cmd[c].pc = "waitExit" /\ PidAlive(p)
  /\ \/ /\ p \in reused
        /\ StopEnds(c, TRUE) /\ UNCHANGED proc
     \/ /\ CmdEnds(c) /\ UNCHANGED proc
     \/ /\ p \notin reused
        /\ Goes(c, "waitKill")
        /\ UNCHANGED proc \/ Set(p, Dead(proc[p], "killed"))
  /\ UNCHANGED <<token, reused>>

KillSeen(c) ==
  /\ cmd[c].pc = "waitKill" /\ ~PidAlive(cmd[c].pid)
  /\ StopEnds(c, TRUE)
  /\ UNCHANGED <<proc, token, reused>>

KillWaitOver_NoDeadline(c) ==
  /\ cmd[c].pc = "waitKill" /\ PidAlive(cmd[c].pid)
  /\ UNCHANGED daemonVars

KillWaitOver(c) ==
  /\ cmd[c].pc = "waitKill" /\ PidAlive(cmd[c].pid)
  /\ CmdEnds(c)
  /\ UNCHANGED <<proc, token, reused>>

StartProbes(c) ==
  /\ cmd[c].pc = "start" /\ Answering # {}
  /\ CmdEnds(c)
  /\ UNCHANGED <<proc, token, reused>>

CliLaunches(c) ==
  /\ cmd[c].pc = "start" /\ Answering = {}
  /\ \/ \E p \in Procs :
          /\ proc[p].life = "none"
          /\ Set(p, Launched)
          /\ cmd' = [cmd EXCEPT ![c].pc = "waitStart", ![c].child = p]
     \/ CmdEnds(c) /\ UNCHANGED proc     \* the spawn fails
  /\ UNCHANGED <<token, reused>>

(* Only an answer of the process it launched counts. *)
StartSeen(c) ==
  /\ cmd[c].pc = "waitStart" /\ cmd[c].child \in Answering
  /\ CmdEnds(c)
  /\ UNCHANGED <<proc, token, reused>>

StartExited(c) ==
  /\ cmd[c].pc = "waitStart" /\ ~Alive(cmd[c].child)
  /\ CmdEnds(c)
  /\ UNCHANGED <<proc, token, reused>>

StartWaitOver(c) ==
  /\ cmd[c].pc = "waitStart" /\ cmd[c].child \notin Answering /\ Alive(cmd[c].child)
  /\ CmdEnds(c)
  /\ UNCHANGED <<proc, token, reused>>

-----------------------------------------------------------------------------
Daemon(p) ==
  \/ StartComponent(p) \/ StartFails(p) \/ StopStep(p) \/ UnwindStep(p) \/ StopTimerFires(p)

Cli(c) ==
  \/ StopProbes(c) \/ StopPosts(c) \/ ExitSeen(c) \/ StopWaitOver(c) \/ KillSeen(c)
  \/ KillWaitOver(c) \/ StartProbes(c) \/ CliLaunches(c) \/ StartSeen(c) \/ StartExited(c)
  \/ StartWaitOver(c)

DaemonNext ==
  \/ \E p \in Procs :
       \/ Launch(p) \/ Daemon(p) \/ Signal(p) \/ Crash(p) \/ PidReused(p)
       \/ JobArrives(p) \/ JobEnds(p)
  \/ \E c \in Cmds : Issue(c) \/ Cli(c)

DaemonSpec == DaemonInit /\ [][DaemonNext]_daemonVars

(* Fairness: a command goes on polling until its deadline, and a daemon's  *)
(* components start and stop or fail.                                      *)
FairSpec ==
  /\ DaemonSpec
  /\ \A c \in Cmds : WF_daemonVars(Cli(c))
  /\ \A p \in Procs : WF_daemonVars(Daemon(p))

-----------------------------------------------------------------------------

(* No front is served over a job manager or a store already stopped, in a  *)
(* stop or in the unwind of a failed start (daemon.ts stop: "ORDERED       *)
(* teardown"), again but for what start() brings up under a stop().        *)
FrontsNeedJobs ==
  \A p \in Procs :
    Alive(p) /\ ~proc[p].early /\ proc[p].up \cap Fronts # {} =>
      {Store, Jobs} \subseteq proc[p].up

(* The token a command reads is that of the daemon that serves: a process  *)
(* that fails to start on a data directory in use does not lock the user   *)
(* out of the one that runs (daemon.ts, the token written just before the  *)
(* control server starts, after the other ports are bound).  A start that  *)
(* goes on under a stop() binds and writes late, and is excepted.  What is *)
(* served has its job manager and its store behind it.                     *)
TokenMatchesListener ==
  /\ FrontsNeedJobs
  /\ (\A p \in Procs : ~proc[p].early) =>
       \A p \in Answering : proc[p].state = "started" => token = p

(* A stop reported as done is done: the daemon it asked is dead, even if   *)
(* its pid lives on as another program; so a restart launches nothing      *)
(* beside the daemon it stopped (daemon-command.ts runDaemonStop).         *)
StopTruthful == \A c \in Cmds : cmd[c].stopped => ~Alive(cmd[c].pid)

(* Every command comes to an end, whatever happens to the daemon.          *)
CommandsEnd == \A c \in Cmds : (cmd[c].pc # "idle") ~> (cmd[c].pc = "done")
=============================================================================
