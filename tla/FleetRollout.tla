---------------------------- MODULE FleetRollout ----------------------------
(***************************************************************************)
(* A fleet rollout, run inside the daemon that was asked for it: push the  *)
(* release to one older peer at a time, watch it restart, stop at the      *)
(* first that fails, upgrade this node last (upgrade/rollout.ts), behind   *)
(* the surface that admits one rollout at a time (fleet-upgrade.ts), the   *)
(* daemon's own claim on upgrading itself, which other nodes' pushes       *)
(* compete for (coordinator.ts), and the daemon's stop and restart         *)
(* (daemon.ts).                                                            *)
(*                                                                         *)
(* A rollout is a call of startFleet with the loop it leaves running.  A   *)
(* peer accepts a push, prepares, restarts under its updater and settles,  *)
(* or fails and records it; others push to it too.  Versions are "old" and *)
(* "new", the target.  An upgrade record is the number of the attempt that *)
(* failed, 0 if none did.  A peer that is unreachable, refuses or is too   *)
(* old is "passed" over.  Time is left out: a deadline may pass, and an    *)
(* answer be lost, whenever it is awaited.  A peer that accepts does so    *)
(* before the push is given up, if at all.                                 *)
(***************************************************************************)
EXTENDS Naturals, FiniteSets

CONSTANTS
  Peers,
  MaxRollouts,    \* bound on the calls of startFleet
  FailedBefore,   \* peers with a failure of the target on record
  MaxTries        \* bound on the upgrades a peer accepts, the first being past

ASSUME RolloutAssumption ==
  /\ IsFiniteSet(Peers) /\ MaxRollouts \in Nat
  /\ MaxTries \in Nat \ {0} /\ FailedBefore \subseteq Peers

VARIABLES
  node,     \* this daemon
  saved,    \* rollout-status.json has a rollout that is running
  call,     \* startFleet calls
  current,  \* the rollout status() reports
  loop,     \* where each rollout's loop is suspended
  status,   \* RolloutStatus
  picked,   \* failures on record when the peers were selected
  heard,    \* what had ended on the peers when the rollouts heard them; no step reads it
  peer      \* the other nodes

rolloutVars == <<call, current, loop, status, picked, heard>>
fleetVars == <<node, saved, rolloutVars, peer>>

Rollouts == 1..MaxRollouts
NoRollout == 0
Other == MaxRollouts + 1
NoPeer == "none"
Unknown == MaxTries + 1
\* claim: "preparing" is the coordinator's pending, "handed" its inProgress;
\* by is the rollout it is for, or Other.  awaits is the
\* rollout whose loop abort() awaits.
NewDaemon(v) == [phase |-> "up", version |-> v, claim |-> "none",
                 by |-> NoRollout, awaits |-> NoRollout]
NoLoop == [pc |-> "off", peer |-> NoPeer, before |-> 0, wire |-> "none"]
NoPeers == [p \in Peers |-> "none"]
NoStatus == [state |-> "none", peers |-> NoPeers, self |-> "none"]
NonePicked == [p \in Peers |-> 0]
\* The attempts of a peer that have ended: all, but one that is under way.
Ended(p) == IF peer[p].attempt = "none" THEN peer[p].tries ELSE peer[p].tries - 1

NewCall(r) == call[r] = "none" /\ \A s \in 1..(r - 1) : call[s] # "none"
Aborted == node.phase # "up"
Loops == {r \in Rollouts : loop[r].pc # "off"}
\* status() after a restart: a restored status is never "running".
RolloutRuns_AsSaved == IF current = NoRollout THEN saved ELSE status[current].state = "running"
RolloutRuns == current # NoRollout /\ status[current].state = "running"
RolloutBusy == RolloutRuns \/ \E r \in Rollouts : call[r] = "starting"
Answers(p) == peer[p].phase = "up"
Pending(r) == {p \in Peers : status[r].peers[p] = "pending"}

RolloutInit ==
  /\ node = NewDaemon("old")
  /\ saved = FALSE
  /\ call = [r \in Rollouts |-> "none"]
  /\ current = NoRollout
  /\ loop = [r \in Rollouts |-> NoLoop]
  /\ status = [r \in Rollouts |-> NoStatus]
  /\ picked = [r \in Rollouts |-> NonePicked]
  /\ heard = [r \in Rollouts |-> NonePicked]
  /\ peer = [p \in Peers |-> [version |-> "old", phase |-> "up", attempt |-> "none",
                              record |-> IF p \in FailedBefore THEN 1 ELSE 0,
                              tries |-> 1]]

-----------------------------------------------------------------------------
StartAsked_RunningOnly(r) ==
  /\ node.phase = "up" /\ NewCall(r) /\ ~RolloutRuns
  /\ call' = [call EXCEPT ![r] = "starting"]
  /\ UNCHANGED <<node, saved, current, loop, status, picked, heard, peer>>

(* startFleet is entered: refused while another is, or a rollout runs. *)
StartAsked(r) ==
  /\ node.phase = "up" /\ NewCall(r) /\ ~RolloutBusy
  /\ call' = [call EXCEPT ![r] = "starting"]
  /\ UNCHANGED <<node, saved, current, loop, status, picked, heard, peer>>

(* An unknown device, or no release that can be fetched and verified. *)
StartFails(r) ==
  /\ call[r] = "starting"
  /\ call' = [call EXCEPT ![r] = "over"]
  /\ UNCHANGED <<node, saved, current, loop, status, picked, heard, peer>>

(* FleetRollout.start: the peers selected are those that answer with an    *)
(* older version, or those that were named, which may be of any version    *)
(* and without an answer.  Named ones without an address are passed over   *)
(* from the start, as if not selected.  The status it replaces is not read *)
(* any more, unless it is running.                                         *)
Begins(r) ==
  /\ call[r] = "starting"
  /\ \E selected \in SUBSET Peers, self \in {"pending", "skipped"}, named \in BOOLEAN :
       /\ ~named => \A p \in selected : Answers(p) /\ peer[p].version = "old"
       /\ self = "pending" => node.version = "old"
       /\ status' = [s \in Rollouts |->
            IF s = r
            THEN [state |-> "running", self |-> self,
                  peers |-> [p \in Peers |-> IF p \in selected THEN "pending" ELSE "none"]]
            ELSE IF status[s].state = "running" THEN status[s] ELSE NoStatus]
       /\ \E answered \in SUBSET {p \in selected : Answers(p)} :
            /\ ~named => answered = selected
            /\ picked' = [picked EXCEPT ![r] =
                 [p \in Peers |-> IF p \notin selected THEN 0
                                  ELSE IF p \in answered THEN peer[p].record ELSE Unknown]]
            /\ heard' = [heard EXCEPT ![r] =
                 [p \in Peers |-> IF p \notin selected THEN 0
                                  ELSE IF p \in answered THEN Ended(p) ELSE Unknown]]
  /\ call' = [call EXCEPT ![r] = "over"]
  /\ current' = r
  /\ loop' = [loop EXCEPT ![r].pc = "next"]
  /\ UNCHANGED <<node, saved, peer>>

-----------------------------------------------------------------------------
LoopAt(r, where) == loop[r].pc = where

(* The run ends with a state, which is then saved. *)
RunEnds(r, final) ==
  /\ status' = [status EXCEPT ![r].state = final]
  /\ loop' = [loop EXCEPT ![r] = [NoLoop EXCEPT !.pc = "saving"]]
  /\ picked' = [picked EXCEPT ![r] = NonePicked]
  /\ heard' = [heard EXCEPT ![r] = NonePicked]
  /\ UNCHANGED <<node, saved, call, current, peer>>

(* What became of the peer being pushed to or watched; whether to go on. *)
PeerEnds(r, outcome, proceed) ==
  /\ status' = [status EXCEPT ![r].peers[loop[r].peer] = outcome,
                              ![r].state = IF proceed THEN @ ELSE "stopped"]
  /\ loop' = [loop EXCEPT ![r] = [NoLoop EXCEPT !.pc = IF proceed THEN "next"
                                                                ELSE "saving"]]
  /\ picked' = [picked EXCEPT ![r] = IF proceed THEN @ ELSE NonePicked]
  /\ heard' = [heard EXCEPT ![r] = IF proceed THEN [@ EXCEPT ![loop[r].peer] = 0]
                                              ELSE NonePicked]
  /\ UNCHANGED <<node, saved, call, current, peer>>

StopsAborted(r) ==
  /\ LoopAt(r, "next") /\ Aborted
  /\ RunEnds(r, "stopped")

(* rolloutPeer up to its first await: a peer that was selected without an  *)
(* answer is asked for its record, any other is pushed to.                 *)
TakesPeer(r) ==
  /\ LoopAt(r, "next") /\ ~Aborted
  /\ \E p \in Pending(r) :
       /\ status' = [status EXCEPT ![r].peers[p] = "pushing"]
       /\ loop' = [loop EXCEPT ![r] =
            IF picked[r][p] = Unknown
            THEN [NoLoop EXCEPT !.pc = "asking", !.peer = p]
            ELSE [pc |-> "pushing", peer |-> p, before |-> picked[r][p], wire |-> "sent"]]
       /\ picked' = [picked EXCEPT ![r][p] = 0]
  /\ UNCHANGED <<node, saved, call, current, heard, peer>>

(* The hello is answered, or not: then any record will look fresh. *)
Asked(r) ==
  /\ LoopAt(r, "asking")
  /\ LET p == loop[r].peer
     IN \E answered \in {FALSE, Answers(p)} :
       /\ loop' = [loop EXCEPT ![r].pc = "pushing", ![r].wire = "sent",
                               ![r].before = IF answered THEN peer[p].record ELSE 0]
       /\ heard' = IF answered THEN [heard EXCEPT ![r][p] = Ended(p)] ELSE heard
  /\ UNCHANGED <<node, saved, call, current, status, picked, peer>>

PushAccepted(r) ==
  /\ LoopAt(r, "pushing") /\ loop[r].wire = "accepted"
  /\ status' = [status EXCEPT ![r].peers[loop[r].peer] = "restarting"]
  /\ loop' = [loop EXCEPT ![r].pc = "watching", ![r].wire = "none"]
  /\ UNCHANGED <<node, saved, call, current, picked, heard, peer>>

(* A refusal, or a peer without the route ("too-old"): the next is taken.  *)
PushRefused(r) ==
  /\ LoopAt(r, "pushing") /\ loop[r].wire = "refused"
  /\ PeerEnds(r, "passed", TRUE)

(* No connection, or no answer in time. *)
PushLost(r) ==
  /\ LoopAt(r, "pushing")
  /\ PeerEnds(r, "passed", TRUE)

WatchAborted(r) ==
  /\ LoopAt(r, "watching") /\ Aborted
  /\ RunEnds(r, "stopped")

PollSucceeds(r) ==
  /\ LoopAt(r, "watching") /\ ~Aborted
  /\ Answers(loop[r].peer) /\ peer[loop[r].peer].version = "new"
  /\ PeerEnds(r, "succeeded", TRUE)

PollFails_AnyRecord(r) ==
  /\ LoopAt(r, "watching") /\ ~Aborted
  /\ LET p == loop[r].peer
     IN Answers(p) /\ peer[p].version = "old" /\ peer[p].record # 0
  /\ PeerEnds(r, "failed", FALSE)

PollFails(r) ==
  /\ LoopAt(r, "watching") /\ ~Aborted
  /\ LET p == loop[r].peer
     IN /\ Answers(p) /\ peer[p].version = "old"
        /\ peer[p].record \notin {0, loop[r].before}
  /\ PeerEnds(r, "failed", FALSE)

PeerTimesOut(r) ==
  /\ LoopAt(r, "watching")
  /\ PeerEnds(r, "timeout", FALSE)

(* No peer is left: this node, if it is due. *)
SkipsSelf(r) ==
  /\ LoopAt(r, "next") /\ ~Aborted /\ Pending(r) = {}
  /\ status[r].self # "pending"
  /\ RunEnds(r, "done")

SelfRefused(r) ==
  /\ status' = [status EXCEPT ![r].self = "refused", ![r].state = "done"]
  /\ loop' = [loop EXCEPT ![r] = [NoLoop EXCEPT !.pc = "saving"]]
  /\ UNCHANGED <<saved, call, current, picked, heard, peer>>

(* upgradeSelf: its claim is refused, or taken at once. *)
ClaimRefused(r) ==
  /\ LoopAt(r, "next") /\ ~Aborted /\ Pending(r) = {}
  /\ status[r].self = "pending" /\ node.claim # "none"
  /\ SelfRefused(r) /\ UNCHANGED node

TakesSelf(r) ==
  /\ LoopAt(r, "next") /\ ~Aborted /\ Pending(r) = {}
  /\ status[r].self = "pending" /\ node.claim = "none"
  /\ node' = [node EXCEPT !.claim = "preparing", !.by = r]
  /\ loop' = [loop EXCEPT ![r].pc = "self"]
  /\ UNCHANGED <<saved, call, current, status, picked, heard, peer>>

SelfFails(r) ==
  /\ LoopAt(r, "self")
  /\ SelfRefused(r)
  /\ node' = [node EXCEPT !.claim = "none", !.by = NoRollout]

SelfHanded(r) ==
  /\ LoopAt(r, "self")
  /\ node' = [node EXCEPT !.claim = "handed"]
  /\ status' = [status EXCEPT ![r].self = "restarting"]
  /\ loop' = [loop EXCEPT ![r].pc = "saving"]
  /\ UNCHANGED <<saved, call, current, picked, heard, peer>>

(* The status is saved, at best.  All but the state of the current one is  *)
(* not read by the daemon again, and let go.                               *)
Saves(r) ==
  /\ LoopAt(r, "saving")
  /\ saved' \in {saved, status[r].state = "running"}
  /\ loop' = [loop EXCEPT ![r] = NoLoop]
  /\ status' = [status EXCEPT ![r] =
       [NoStatus EXCEPT !.state = IF r = current THEN status[r].state ELSE "none"]]
  /\ UNCHANGED <<node, call, current, picked, heard, peer>>

-----------------------------------------------------------------------------
(* This node is pushed to by another, or upgraded by its own user.  Only   *)
(* the latter looks for a rollout.                                         *)
ClaimedByOther ==
  /\ node.phase = "up" /\ node.claim = "none" /\ node.version = "old"
  /\ node' = [node EXCEPT !.claim = "preparing", !.by = Other]
  /\ UNCHANGED <<saved, rolloutVars, peer>>
PushedTo == ClaimedByOther
UpgradedByUser == ~RolloutBusy /\ ClaimedByOther

ClaimFails ==
  /\ node.claim = "preparing" /\ node.by = Other
  /\ node' = [node EXCEPT !.claim = "none", !.by = NoRollout]
  /\ UNCHANGED <<saved, rolloutVars, peer>>

ClaimHanded ==
  /\ node.claim = "preparing" /\ node.by = Other
  /\ node' = [node EXCEPT !.claim = "handed"]
  /\ UNCHANGED <<saved, rolloutVars, peer>>

(* The shutdown that follows a hand-over, or one that the user asked for   *)
(* by a signal or over the control API: its teardown gets to the rollout,  *)
(* aborts it and awaits the loop.                                          *)
StopBegins ==
  /\ node.phase = "up"
  /\ node' = [node EXCEPT !.phase = "stopping", !.awaits = current]
  /\ UNCHANGED <<saved, rolloutVars, peer>>

AbortReturns ==
  /\ node.phase = "stopping"
  /\ node.awaits \notin Loops
  /\ node' = [node EXCEPT !.phase = "stopped"]
  /\ UNCHANGED <<saved, rolloutVars, peer>>

(* The process exits when it has stopped, or crashes, and is started again, *)
(* with the new version if an updater has it: what was in memory is gone.  *)
Restarts ==
  /\ \E v \in {node.version} \cup {w \in {"new"} : node.claim = "handed"} :
       node' = NewDaemon(v)
  /\ call' = [r \in Rollouts |-> IF call[r] = "starting" THEN "over" ELSE call[r]]
  /\ current' = NoRollout
  /\ loop' = [r \in Rollouts |-> NoLoop]
  /\ status' = [r \in Rollouts |-> NoStatus]
  /\ picked' = [r \in Rollouts |-> NonePicked]
  /\ heard' = [r \in Rollouts |-> NonePicked]
  /\ UNCHANGED <<saved, peer>>

-----------------------------------------------------------------------------
PeerIs(p, change) ==
  /\ peer' = [peer EXCEPT ![p] = change]
  /\ UNCHANGED <<node, saved, rolloutVars>>

Claims(p) == [peer[p] EXCEPT !.attempt = "preparing", !.tries = @ + 1]
CanClaim(p) ==
  /\ peer[p].phase = "up" /\ peer[p].attempt = "none" /\ peer[p].version = "old"
  /\ peer[p].tries < MaxTries

(* The push arrives: the peer claims its own upgrade, or refuses. *)
PeerAccepts(r) ==
  /\ loop[r].wire = "sent" /\ CanClaim(loop[r].peer)
  /\ peer' = [peer EXCEPT ![loop[r].peer] = Claims(loop[r].peer)]
  /\ loop' = [loop EXCEPT ![r].wire = "accepted"]
  /\ UNCHANGED <<node, saved, call, current, status, picked, heard>>

PeerRefuses(r) ==
  /\ loop[r].wire = "sent" /\ Answers(loop[r].peer)
  /\ loop' = [loop EXCEPT ![r].wire = "refused"]
  /\ UNCHANGED <<node, saved, call, current, status, picked, heard, peer>>

(* It is upgraded by someone else, to the same release. *)
OtherUpgrade(p) == CanClaim(p) /\ PeerIs(p, Claims(p))

AttemptFails(p) ==
  /\ peer[p].attempt \in {"preparing", "recovering"}
  /\ PeerIs(p, [peer[p] EXCEPT !.attempt = "none", !.record = peer[p].tries])

GoesDown(p) ==
  /\ peer[p].attempt = "preparing"
  /\ PeerIs(p, [peer[p] EXCEPT !.attempt = "handed", !.phase = "down"])

(* The new release answers; then its updater is satisfied with it. *)
PeerComesUp(p) ==
  /\ peer[p].attempt = "handed"
  /\ PeerIs(p, [peer[p] EXCEPT !.attempt = "checking", !.phase = "up", !.version = "new"])

Settles(p) ==
  /\ peer[p].attempt = "checking"
  /\ PeerIs(p, [peer[p] EXCEPT !.attempt = "none", !.record = 0])

(* It is not, or nothing answered: the old one is back before it is recorded. *)
PeerRollsBack(p) ==
  /\ peer[p].attempt \in {"handed", "checking"}
  /\ PeerIs(p, [peer[p] EXCEPT !.attempt = "recovering", !.phase = "up", !.version = "old"])

-----------------------------------------------------------------------------
LoopStep(r) ==
  \/ StopsAborted(r) \/ TakesPeer(r) \/ Asked(r)
  \/ PushAccepted(r) \/ PushRefused(r) \/ PushLost(r)
  \/ WatchAborted(r) \/ PollSucceeds(r) \/ PollFails(r) \/ PeerTimesOut(r)
  \/ SkipsSelf(r) \/ ClaimRefused(r) \/ TakesSelf(r) \/ SelfFails(r) \/ SelfHanded(r)
  \/ Saves(r)

NodeStep ==
  \/ PushedTo \/ UpgradedByUser \/ ClaimFails \/ ClaimHanded
  \/ StopBegins \/ AbortReturns \/ Restarts

PeerStep(p) ==
  \/ OtherUpgrade(p) \/ AttemptFails(p) \/ GoesDown(p)
  \/ PeerComesUp(p) \/ Settles(p) \/ PeerRollsBack(p)

RolloutNext ==
  \/ \E r \in Rollouts : StartAsked(r) \/ StartFails(r) \/ Begins(r) \/ LoopStep(r)
                         \/ PeerAccepts(r) \/ PeerRefuses(r)
  \/ NodeStep
  \/ \E p \in Peers : PeerStep(p)

RolloutSpec == RolloutInit /\ [][RolloutNext]_fleetVars

(* Fairness: a call and a loop go on, because every fetch, push and poll   *)
(* they await has a timeout and the watch a deadline; a daemon that handed *)
(* itself over stops, and one that stops gets to its end.                  *)
RolloutFairSpec ==
  /\ RolloutSpec
  /\ \A r \in Rollouts : WF_fleetVars(StartFails(r) \/ Begins(r)) /\ WF_fleetVars(LoopStep(r))
  /\ WF_fleetVars(node.claim = "handed" /\ StopBegins)
  /\ WF_fleetVars(AbortReturns) /\ WF_fleetVars(node.phase = "stopped" /\ Restarts)

-----------------------------------------------------------------------------
PeerStates == {"pending", "pushing", "restarting", "succeeded", "passed",
               "failed", "timeout"}

RolloutTypeOK ==
  /\ node \in [phase : {"up", "stopping", "stopped"},
               version : {"old", "new"}, claim : {"none", "preparing", "handed"},
               by : Rollouts \cup {NoRollout, Other},
               awaits : Rollouts \cup {NoRollout}]
  /\ saved \in BOOLEAN
  /\ call \in [Rollouts -> {"none", "starting", "over"}]
  /\ current \in Rollouts \cup {NoRollout}
  /\ loop \in [Rollouts ->
       [pc : {"off", "next", "asking", "pushing", "watching", "self", "saving"},
        peer : Peers \cup {NoPeer}, before : 0..MaxTries,
        wire : {"none", "sent", "accepted", "refused"}]]
  /\ status \in [Rollouts ->
       [state : {"none", "running", "stopped", "done"},
        peers : [Peers -> PeerStates \cup {"none"}],
        self : {"none", "pending", "skipped", "refused", "restarting"}]]
  /\ picked \in [Rollouts -> [Peers -> 0..Unknown]]
  /\ heard \in [Rollouts -> [Peers -> 0..Unknown]]
  /\ peer \in [Peers ->
       [version : {"old", "new"}, phase : {"up", "down"},
        attempt : {"none", "preparing", "handed", "checking", "recovering"},
        record : 0..MaxTries, tries : 0..MaxTries]]

(* "A rollout still polling a peer must not outlive the daemon"            *)
(* (daemon.ts:740): once it has stopped, neither the rollout that ran nor  *)
(* one whose start was under way pushes, polls or upgrades this node.      *)
NoLoopOutlivesDaemon ==
  node.phase = "stopped" =>
    \A r \in Rollouts : loop[r].pc \in {"off", "next", "saving"}

InState(r, states) == {p \in Peers : status[r].peers[p] \in states}

(* One node at a time: over all rollouts, whose starts overlap, at most one *)
(* peer is being pushed to or watched; after a peer that failed or never   *)
(* came back no other is touched; and this node goes last                  *)
(* (rollout.ts, Failure policy).  No loop goes on in a stopped daemon.     *)
OneNodeAtRisk ==
  /\ RolloutTypeOK /\ NoLoopOutlivesDaemon
  /\ \A r \in Rollouts :
       /\ Cardinality(InState(r, {"pushing", "restarting", "failed", "timeout"})) <= 1
       /\ InState(r, {"failed", "timeout"}) # {} => status[r].state = "stopped"
       /\ node.by = r =>
            InState(r, {"pending", "pushing", "restarting", "failed", "timeout"}) = {}
       /\ \A s \in Rollouts \ {r} :
            status[r].state = "running" =>
              status[s].state # "running" /\ loop[s].pc \in {"off", "saving"}

(* The failure that stops a rollout is of an attempt that was not over when *)
(* the rollout last heard the peer before its push, although the peer keeps *)
(* one record of the target, others push to it too, and the records carry  *)
(* no attempt (rolloutPeer:367-372).  A peer that never answered before the *)
(* push, the hello of rolloutPeer included, is excepted: any record counts. *)
FailureIsFresh ==
  [][\A r \in Rollouts : PollFails(r) =>
       LET p == loop[r].peer
       IN heard[r][p] = Unknown \/ peer[p].record > heard[r][p]]_fleetVars

(* A rollout never blocks the next one for good: it ends, or this daemon   *)
(* restarts, after which what it saved is not taken for a running one.     *)
SurfaceFrees == RolloutBusy ~> ~RolloutBusy
=============================================================================
