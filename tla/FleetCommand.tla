---------------------------- MODULE FleetCommand ----------------------------
(***************************************************************************)
(* `homefleet fleet upgrade` (cli.ts runFleetUpgrade) beside the daemon    *)
(* that runs its rollout: it starts one over the control API, polls the    *)
(* rollout status every two seconds, waits out this node's own restart     *)
(* (waitForUpgrade), and reports with its exit code (summarizeRollout).    *)
(*                                                                         *)
(* The daemon is module FleetRollout's; other commands and the dashboard   *)
(* start rollouts on it too.  Added here are what status() has of a        *)
(* rollout whose loop has ended, the contents of rollout-status.json, and  *)
(* whether this node recorded a failed upgrade since the command waits.    *)
(* The control server closes before a stopping daemon gets to the rollout; *)
(* a poll can also fall between a stop or a crash and the next start.      *)
(***************************************************************************)
EXTENDS FleetRollout

VARIABLES
  command,   \* the command: where it is, its rollout, the status it saw last
  full,      \* the RolloutStatus of each rollout, also once its loop ended
  file,      \* rollout-status.json
  failure    \* upgrade-result.json has a failure newer than the wait

commandVars == <<command, full, file, failure>>
allVars == <<fleetVars, commandVars>>

Report(r, s) == [id |-> r, state |-> s.state, peers |-> s.peers, self |-> s.self]
Nothing == Report(NoRollout, NoStatus)
Idle == [at |-> "idle", mine |-> NoRollout, last |-> Nothing, exit |-> NoRollout]
Success == 1
Problem == 2

CommandInit ==
  /\ RolloutInit
  /\ command = Idle
  /\ full = [r \in Rollouts |-> NoStatus]
  /\ file = Nothing
  /\ failure = FALSE

Reachable == node.phase = "up"

(* restoreRolloutStatus: a saved status is not running, and a restart it   *)
(* was waiting for is settled.                                             *)
Restored(s) ==
  [s EXCEPT !.state = IF @ = "running" THEN "done" ELSE @,
            !.self = IF @ # "restarting" THEN @
                     ELSE IF node.version = "new" THEN "succeeded"
                     ELSE IF failure THEN "rolled-back" ELSE @]

(* GET upgrades: FleetRollout.status(), or Nothing for null.               *)
Upgrades == IF current # NoRollout THEN Report(current, full[current]) ELSE Restored(file)

-----------------------------------------------------------------------------
(* What the daemon's step leaves for status() and in the files.            *)
Serves ==
  full' = [r \in Rollouts |->
             IF loop'[r].pc = "off" \/ status'[r] = NoStatus THEN full[r] ELSE status'[r]]

(* A remote push that fails is recorded (so is a rollback: DaemonRestarts). *)
Records == failure' = (failure \/ ClaimFails)

SavesReport(r) ==
  /\ Saves(r)
  /\ file' \in {file, Report(r, status[r])}
  /\ saved' = (file'.state = "running")

DaemonStep ==
  /\ \/ \E r \in Rollouts : SavesReport(r)
     \/ /\ \/ \E r \in Rollouts : \/ StartAsked(r) \/ (LoopStep(r) /\ ~Saves(r))
                                  \/ PeerAccepts(r) \/ PeerRefuses(r)
                                  \/ (r # command.mine /\ (StartFails(r) \/ Begins(r)))
           \/ PushedTo \/ ClaimFails \/ ClaimHanded \/ StopBegins \/ AbortReturns
           \/ \E p \in Peers : PeerStep(p)
        /\ UNCHANGED file
  /\ Serves /\ Records /\ UNCHANGED command

-----------------------------------------------------------------------------
Exits(code) == [command EXCEPT !.at = "done", !.exit = code]
Waits == [command EXCEPT !.at = "waiting"]

(* summarizeRollout. *)
Summary(s) ==
  IF /\ \A p \in Peers : s.peers[p] \in {"none", "succeeded"}
     /\ s.self # "refused" /\ s.state # "stopped"
  THEN Success ELSE Problem

(* The head of the polling loop, with the status just received: whichever  *)
(* rollout it is of.                                                       *)
Decides(s) ==
  IF s.self = "restarting" THEN [Waits EXCEPT !.last = s]
  ELSE IF s.state # "running" THEN [Exits(Summary(s)) EXCEPT !.last = s]
  ELSE [command EXCEPT !.at = "polling", !.last = s]

(* No answer, or null: this node's restart if that was due, else an end.   *)
Vanished == IF command.last.self = "pending" THEN Waits ELSE Exits(Problem)

CommandStarts(r) ==
  /\ command.at = "idle" /\ StartAsked(r)
  /\ command' = [command EXCEPT !.at = "asked", !.mine = r]
  /\ Serves /\ Records /\ UNCHANGED file

CommandRefused(r) ==
  /\ command.mine = r /\ StartFails(r)
  /\ command' = Exits(Problem)
  /\ Serves /\ Records /\ UNCHANGED file

(* The answer to the start: there may be nothing to do.                    *)
CommandPlans(r) ==
  /\ command.mine = r /\ Begins(r)
  /\ LET s == Report(r, status'[r])
     IN command' = IF s.self = "skipped" /\ \A p \in Peers : s.peers[p] = "none"
                   THEN Exits(Success) ELSE Decides(s)
  /\ Serves /\ Records /\ UNCHANGED file

CommandPolls ==
  /\ command.at = "polling"
  /\ command' = IF Reachable /\ Upgrades # Nothing THEN Decides(Upgrades) ELSE Vanished
  /\ failure' = (failure /\ command'.at # "waiting")
  /\ UNCHANGED <<fleetVars, full, file>>

(* waitForUpgrade: a fresh failure, or the new version, ends the wait; so  *)
(* does its deadline, with what is in upgrade-result.json.                 *)
CommandWaits ==
  /\ command.at = "waiting"
  /\ \/ /\ Reachable /\ ~failure /\ node.version = "new"
        /\ command' = [command EXCEPT !.at = "summing"]
     \/ command' = Exits(Problem)
  /\ UNCHANGED <<fleetVars, full, file, failure>>

(* finishWithSelf: the status saved for the restart, if it is the one that *)
(* was followed, else the last one seen.                                   *)
CommandSums ==
  /\ command.at = "summing"
  /\ command' = Exits(Summary(IF Reachable /\ Upgrades.id = command.last.id
                              THEN Upgrades ELSE command.last))
  /\ UNCHANGED <<fleetVars, full, file, failure>>

(* The daemon goes and comes back: a start in progress is lost, and a poll *)
(* may find nobody.                                                        *)
DaemonRestarts ==
  /\ Restarts
  /\ command' \in CASE command.at = "asked" -> {Exits(Problem)}
                    [] command.at = "polling" -> {command, Vanished}
                    [] OTHER -> {command}
  /\ Serves /\ UNCHANGED file
  /\ failure' = (\/ node.claim = "handed" /\ node'.version = "old"
                 \/ failure /\ ~(command.at = "polling" /\ command'.at = "waiting"))

CommandNext ==
  \/ DaemonStep \/ DaemonRestarts
  \/ \E r \in Rollouts : CommandStarts(r) \/ CommandRefused(r) \/ CommandPlans(r)
  \/ CommandPolls \/ CommandWaits \/ CommandSums

CommandSpec == CommandInit /\ [][CommandNext]_allVars

-----------------------------------------------------------------------------
(* "0 only when every selected peer succeeded and this node succeeded or   *)
(* was skipped" (cli.ts, summarizeRollout): the peers selected by the      *)
(* rollout that the command started.                                       *)
ExitTellsTruth ==
  command.exit = Success =>
    \A p \in Peers : full[command.mine].peers[p] \in {"none", "succeeded"}
=============================================================================
