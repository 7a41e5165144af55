----------------------------- MODULE SafeSpawn -----------------------------
(***************************************************************************)
(* One run of a command by spawn.ts: the checks before the spawn, the kill *)
(* path the timeout and the job's signal share, and the watchdog that      *)
(* settles for a child the kill does not reach.                            *)
(*                                                                         *)
(* A child has exited when exitCode or signalCode is set and has closed    *)
(* when its pipes have too: a descendant that inherited them holds them    *)
(* open.  Durations are left out: an armed timer may fire at any moment.   *)
(* Output is left out but for the exit code.                               *)
(***************************************************************************)

VARIABLES
  spawn,      \* where the call is
  child,      \* the process
  exit,       \* how it exited
  killedBy,
  timer, watchdog, listening,  \* the two timers and the abort listener
  outcome,    \* what the call resolved to
  aborted     \* the job's signal

spawnVars == <<spawn, child, exit, killedBy, timer, watchdog, listening, outcome>>
svars == <<spawnVars, aborted>>

Kinds == {"completed", "timeout", "canceled", "refused"}
ExitCodes == {"zero", "nonzero"}
NoOutcome == [kind |-> "none", exit |-> "null"]

SpawnInit ==
  /\ spawn = "idle" /\ child = "none" /\ exit = "null" /\ killedBy = "none"
  /\ timer = FALSE /\ watchdog = FALSE /\ listening = FALSE
  /\ outcome = NoOutcome
  /\ aborted = FALSE

-----------------------------------------------------------------------------
(* Returned before there was a process. *)
Answer(kind) ==
  /\ spawn' = "settled"
  /\ outcome' = [kind |-> kind, exit |-> "null"]
  /\ child' = "none" /\ exit' = "null" /\ killedBy' = "none"
  /\ UNCHANGED <<timer, watchdog, listening>>

(* The allowlist is looked at before anything else, then the directory. *)
SpawnCall(listed) ==
  /\ spawn \in {"idle", "settled"}
  /\ UNCHANGED aborted
  /\ IF listed
     THEN /\ spawn' = "checking"
          /\ child' = "none" /\ exit' = "null" /\ killedBy' = "none"
          /\ outcome' = NoOutcome
          /\ UNCHANGED <<timer, watchdog, listening>>
     ELSE Answer("refused")

(* The directory has been looked at.  An abort that came meanwhile has no  *)
(* listener yet: it is asked for.  The spawn itself may fail.              *)
SpawnChecked(isDirectory, quotable, starts) ==
  /\ spawn = "checking"
  /\ UNCHANGED aborted
  /\ CASE ~isDirectory -> Answer("refused")
       [] isDirectory /\ aborted -> Answer("canceled")
       [] isDirectory /\ ~aborted /\ ~(quotable /\ starts) -> Answer("refused")
       [] OTHER ->
            /\ spawn' = "running" /\ child' = "running"
            /\ timer' = TRUE /\ listening' = TRUE
            /\ UNCHANGED <<exit, killedBy, watchdog, outcome>>

-----------------------------------------------------------------------------
Settle_KeepsWatchdog(kind, code) ==
  IF spawn = "settled" THEN UNCHANGED <<spawn, outcome, timer, watchdog, listening>>
  ELSE /\ spawn' = "settled"
       /\ outcome' = [kind |-> kind, exit |-> code]
       /\ timer' = FALSE /\ listening' = FALSE
       /\ UNCHANGED watchdog

Settle(kind, code) ==
  IF spawn = "settled" THEN UNCHANGED <<spawn, outcome, timer, watchdog, listening>>
  ELSE /\ spawn' = "settled"
       /\ outcome' = [kind |-> kind, exit |-> code]
       /\ timer' = FALSE /\ watchdog' = FALSE /\ listening' = FALSE

(* The first reason wins, and a child that exited is not relabelled. *)
Kill(reason) ==
  IF spawn = "settled" \/ killedBy # "none" \/ child \in {"exited", "closed"}
  THEN UNCHANGED <<killedBy, watchdog>>
  ELSE killedBy' = reason /\ watchdog' = TRUE

TimerFires ==
  /\ timer
  /\ timer' = FALSE
  /\ Kill("timeout")
  /\ UNCHANGED <<spawn, child, exit, listening, outcome, aborted>>

(* The signal fires once; its listeners run at once. *)
Abort ==
  /\ ~aborted
  /\ aborted' = TRUE
  /\ IF listening
     THEN listening' = FALSE /\ Kill("canceled")
     ELSE UNCHANGED <<listening, killedBy, watchdog>>
  /\ UNCHANGED <<spawn, child, exit, timer, outcome>>

WatchdogFires ==
  /\ watchdog
  /\ Settle(killedBy, "null")
  /\ UNCHANGED <<child, exit, killedBy, aborted>>

ChildExits(code) ==
  /\ child = "running"
  /\ child' = "exited" /\ exit' = code
  /\ UNCHANGED <<spawn, killedBy, timer, watchdog, listening, outcome, aborted>>

ChildCloses ==
  /\ child = "exited"
  /\ child' = "closed"
  /\ IF killedBy = "none" THEN Settle("completed", exit) ELSE Settle(killedBy, "null")
  /\ UNCHANGED <<exit, killedBy, aborted>>

-----------------------------------------------------------------------------
Calls == \E listed \in BOOLEAN : SpawnCall(listed)
Checked == \E d, q, s \in BOOLEAN : SpawnChecked(d, q, s)
Exits == \E code \in ExitCodes : ChildExits(code)

SpawnNext == Checked \/ TimerFires \/ WatchdogFires \/ Exits \/ ChildCloses

Next == Calls \/ Abort \/ SpawnNext
Spec == SpawnInit /\ [][Next]_svars

(* The timers fire and the checks end.  Whether the child ever exits, or   *)
(* lets go of its pipes, is not the caller's to say.                       *)
TimersFair == WF_svars(Checked) /\ WF_svars(TimerFires) /\ WF_svars(WatchdogFires)
OneCallSpec ==
  SpawnInit /\ [][(spawn = "idle" /\ Calls) \/ Abort \/ SpawnNext]_svars /\ TimersFair

-----------------------------------------------------------------------------
SpawnTypeOK ==
  /\ spawn \in {"idle", "checking", "running", "settled"}
  /\ child \in {"none", "running", "exited", "closed"}
  /\ exit \in ExitCodes \cup {"null"}
  /\ killedBy \in {"none", "timeout", "canceled"}
  /\ timer \in BOOLEAN /\ watchdog \in BOOLEAN /\ listening \in BOOLEAN
  /\ outcome \in [kind : Kinds \cup {"none"}, exit : ExitCodes \cup {"null"}]
  /\ aborted \in BOOLEAN

(* An outcome says what happened to the process: completed is a child that *)
(* closed by itself, with its own exit code; a kill reports its first      *)
(* reason and no code, and canceled is only said of an aborted job.        *)
OutcomeNamesTheEnd ==
  spawn = "settled" =>
    /\ outcome.kind \in Kinds
    /\ outcome.kind = "completed" =>
         killedBy = "none" /\ child = "closed" /\ outcome.exit = exit /\ exit # "null"
    /\ outcome.kind # "completed" => outcome.exit = "null"
    /\ outcome.kind = "timeout" => killedBy = "timeout"
    /\ outcome.kind = "canceled" => aborted

(* Once it resolved nothing of the call is left armed: no timer fires into *)
(* the next command of the same job.                                       *)
NothingLeftArmed == spawn # "running" => ~timer /\ ~watchdog /\ ~listening

(* A running call always has something that will settle it: the timeout,   *)
(* the watchdog of a kill, or the close of a child that exited.            *)
SomethingSettles ==
  spawn = "running" =>
    \/ child = "running" /\ killedBy = "none" /\ timer
    \/ killedBy # "none" /\ watchdog
    \/ child = "exited"

SpawnTruth == OutcomeNamesTheEnd /\ NothingLeftArmed /\ SomethingSettles

=============================================================================
