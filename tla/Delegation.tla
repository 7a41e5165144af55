----------------------------- MODULE Delegation -----------------------------
(***************************************************************************)
(* The delegating node's MCP tools (mcp/tools.ts) over the delegation      *)
(* registry (delegation-registry.ts) and the artifact applier              *)
(* (artifact-applier.ts, artifact-apply.ts), against one worker node       *)
(* (module WriteJobs).                                                     *)
(*                                                                         *)
(* A call is one MCP tool call; each wait of the handler is a phase.       *)
(* Requests and answers may be lost or time out, the worker may die        *)
(* between any two steps, and the operator may move the result branch.     *)
(* The bundle that is fetched may differ from the one that was inspected.  *)
(* A call that is refused before its first wait (unknown or unpaired node, *)
(* no address, no repository mapped, unknown job) changes nothing and is   *)
(* left out.                                                               *)
(***************************************************************************)
EXTENDS WriteJobs, Sequences, SequencesExt

CONSTANTS
  Calls,        \* tool calls in progress at once, at most
  MaxTracked    \* MAX_TRACKED_DELEGATIONS

ASSUME TrackedAssumption == MaxTracked \in Nat \ {0}

VARIABLES
  call,         \* the tool calls
  entries,      \* the registry's keys, oldest first
  lastStatus,   \* last-seen status of each entry
  remembered,   \* entries whose artifact was applied
  flight,       \* leader of the apply in flight for each job
  branch,       \* refs/heads/homefleet/<job> in the local repository
  verified      \* jobs whose branch was re-read at the claimed head

registryVars == <<entries, lastStatus, remembered, flight>>
dvars == <<call, registryVars, branch, verified>>
vars == <<workerVars, dvars>>

NoJob == "no_job"
OtherJob == "other_job"
NoCall == "no_call"
ASSUME CallsAssumption == NoCall \notin Calls
ASSUME OthersAssumption == OtherJob \notin Jobs

Phases == {"idle", "hello", "sync", "post", "posted", "ask", "told", "joined",
           "download", "inspect", "fetch", "reread", "cleanup"}
Idle == [tool |-> "none", job |-> NoJob, phase |-> "idle", got |-> "none",
         claims |-> FALSE, surface |-> "no_answer"]

Tracked(j) == \E i \in DOMAIN entries : entries[i] = j

Init ==
  /\ WorkerInit
  /\ call = [c \in Calls |-> Idle]
  /\ entries = <<>>
  /\ lastStatus = [j \in Jobs |-> "none"]
  /\ remembered = {} /\ flight = [j \in Jobs |-> NoCall]
  /\ branch = [j \in Jobs |-> "none"]
  /\ verified = {}

At(c, p) == call[c].phase = p
MoveTo(c, p) == call' = [call EXCEPT ![c].phase = p]

(* The tool call returns.  Of the answers only an artifact surface of      *)
(* "applied" or "none" is kept, until the slot's next call.                *)
Answer(c) == call' = [call EXCEPT ![c] = Idle]
Returned(c, s) == IF s = "failed" THEN Idle ELSE [c EXCEPT !.phase = "idle", !.surface = s]
Surface(c, s) == call' = [call EXCEPT ![c] = Returned(@, s)]

-----------------------------------------------------------------------------
(* delegate_task.  j is the id the worker will mint.                       *)

Begin(c, tool, j, p) ==
  call' = [call EXCEPT ![c] = [Idle EXCEPT !.tool = tool, !.job = j, !.phase = p]]

DelegateTask(c, j, namesModel) ==
  /\ At(c, "idle") /\ rec[j] = "none" /\ \A d \in Calls : At(d, "idle") \/ call[d].job # j
  /\ Begin(c, "delegate", j, IF namesModel THEN "hello" ELSE "sync")
  /\ UNCHANGED <<workerVars, registryVars, branch, verified>>

(* The advisory model check: only a list without the model refuses; no     *)
(* answer, or an empty catalog, is for the worker to judge.                *)
ModelAdvice(c) ==
  /\ At(c, "hello")
  /\ MoveTo(c, "sync") \/ (worker = "up" /\ Answer(c))
  /\ UNCHANGED <<workerVars, registryVars, branch, verified>>

(* The workspace sync; then toJobParams may refuse the task.               *)
Synced(c) ==
  /\ At(c, "sync") /\ worker = "up"
  /\ MoveTo(c, "post") \/ Answer(c)
  /\ UNCHANGED <<workerVars, registryVars, branch, verified>>

(* POST /jobs reaches the worker, which takes the job or refuses it.       *)
WorkerTakesJob(c) ==
  /\ At(c, "post")
  /\ \/ Submit(call[c].job) /\ MoveTo(c, "posted")
     \/ worker = "up" /\ Answer(c) /\ UNCHANGED workerVars
  /\ UNCHANGED <<registryVars, branch, verified>>

\* The registry's keys without j.
Without(j) ==
  LET at == {i \in DOMAIN entries : entries[i] = j}
  IN IF at = {} THEN entries ELSE RemoveAt(entries, CHOOSE i \in at : TRUE)

(* record(): the key moves to the newest place, and the oldest entries     *)
(* beyond the cap go.                                                      *)
Recorded(j) ==
  LET moved == Append(Without(j), j)
      over == IF Len(moved) > MaxTracked THEN Len(moved) - MaxTracked ELSE 0
  IN SubSeq(moved, over + 1, Len(moved))

Record(j) ==
  /\ entries' = Recorded(j)
  /\ lastStatus' = [k \in Jobs |-> IF k = j THEN "active"
                                   ELSE IF k \in ToSet(Recorded(j)) THEN lastStatus[k]
                                   ELSE "none"]
  /\ remembered' = (remembered \cap ToSet(Recorded(j))) \ {j}
  /\ UNCHANGED flight

Delegated(c) ==
  /\ At(c, "posted")
  /\ Record(call[c].job)
  /\ Answer(c)
  /\ UNCHANGED <<workerVars, branch, verified>>

DelegateFails_RecordsAnyway(c) ==
  /\ call[c].phase \in {"hello", "sync", "post", "posted"}
  /\ Record(call[c].job)
  /\ Answer(c)
  /\ UNCHANGED <<workerVars, branch, verified>>

(* Any failure or timeout on the way.  After the worker has taken the job  *)
(* the loss is only this side's: the job runs, and no route leads to it.   *)
DelegateFails(c) ==
  /\ call[c].phase \in {"hello", "sync", "post", "posted"}
  /\ IF At(c, "hello") THEN MoveTo(c, "sync") ELSE Answer(c)
  /\ UNCHANGED <<workerVars, registryVars, branch, verified>>

-----------------------------------------------------------------------------
(* job_status, job_result and cancel_job.                                  *)

AskAbout(c, tool, j) ==
  /\ At(c, "idle") /\ Tracked(j)
  /\ Begin(c, tool, j, "ask")
  /\ UNCHANGED <<workerVars, registryVars, branch, verified>>

Told(c, status, claims) ==
  call' = [call EXCEPT ![c].phase = "told", ![c].got = status, ![c].claims = claims,
                       ![c].tool = IF @ = "cancel" THEN "status" ELSE @]

(* The worker's answer is a snapshot of the moment it was made; it may     *)
(* reach the caller after a later one.                                     *)
WorkerSnapshot(c) ==
  LET j == call[c].job IN
  /\ At(c, "ask") /\ worker = "up"
  /\ IF rec[j] \in {"none", "evicted"}
     THEN Answer(c)
     ELSE Told(c, rec[j], rec[j] = "succeeded" /\ artifact[j])
  /\ IF call[c].tool = "cancel" /\ rec[j] = "active"
     THEN CancelOnWorker(j) ELSE UNCHANGED workerVars
  /\ UNCHANGED <<registryVars, branch, verified>>

ObserveStatus(j, s) ==
  lastStatus' = IF Tracked(j) THEN [lastStatus EXCEPT ![j] = s] ELSE lastStatus

StatusObserved(c) ==
  /\ At(c, "told") /\ (call[c].tool # "result" \/ call[c].got = "active")
  /\ ObserveStatus(call[c].job, call[c].got)
  /\ Answer(c)
  /\ UNCHANGED <<workerVars, entries, remembered, flight, branch, verified>>

AskFails(c) ==
  /\ call[c].phase \in {"ask", "told"}
  /\ Answer(c)
  /\ UNCHANGED <<workerVars, registryVars, branch, verified>>

-----------------------------------------------------------------------------
(* writeArtifactSurface under singleFlightApply.                           *)

(* A call joins the flight of its job, or leads a new one; what needs no   *)
(* download settles in the same turn.                                      *)
JoinFlight(c) ==
  LET j == call[c].job IN
  /\ At(c, "told") /\ call[c].tool = "result" /\ call[c].got # "active"
  /\ ObserveStatus(j, call[c].got)
  /\ CASE flight[j] # NoCall -> MoveTo(c, "joined") /\ UNCHANGED flight
       [] flight[j] = NoCall /\ j \in remembered -> Surface(c, "applied") /\ UNCHANGED flight
       [] flight[j] = NoCall /\ j \notin remembered /\ ~call[c].claims ->
            Surface(c, "none") /\ UNCHANGED flight
       [] OTHER -> MoveTo(c, "download") /\ flight' = [flight EXCEPT ![j] = c]
  /\ UNCHANGED <<workerVars, entries, remembered, branch, verified>>

(* GET /jobs/:id/artifact: served while the record is retained, the bundle *)
(* registered and its file there to open.                                  *)
Served(j) == /\ worker = "up" /\ rec[j] \notin {"none", "evicted"}
             /\ j \in registered /\ j \in disk

Download(c) ==
  /\ At(c, "download") /\ Served(call[c].job)
  /\ MoveTo(c, "inspect")
  /\ UNCHANGED <<workerVars, registryVars, branch, verified>>

(* Schema gate, list-heads, the advertised tip, verify.                    *)
Inspect(c) ==
  /\ At(c, "inspect")
  /\ MoveTo(c, "fetch")
  /\ UNCHANGED <<workerVars, registryVars, branch, verified>>

(* The fetch does not force: it creates the branch, leaves one at the same *)
(* tip alone, brings one at an ancestor (the base commit, say) forward,    *)
(* and is rejected by any other.  tip is what the file holds by now.       *)
Fetch(c, tip) ==
  LET j == call[c].job IN
  /\ At(c, "fetch")
  /\ branch[j] \in {"none", "ancestor", tip}
  /\ branch' = [branch EXCEPT ![j] = tip]
  /\ MoveTo(c, "reread")
  /\ UNCHANGED <<workerVars, registryVars, verified>>

Reread_Skipped(c) ==
  /\ At(c, "reread")
  /\ MoveTo(c, "cleanup")
  /\ UNCHANGED <<workerVars, registryVars, branch, verified>>

(* Only a tip that is re-read as the claimed head is a success.            *)
Reread(c) ==
  LET j == call[c].job IN
  /\ At(c, "reread") /\ branch[j] = "claimed"
  /\ MoveTo(c, "cleanup")
  /\ verified' = verified \cup {j}
  /\ UNCHANGED <<workerVars, registryVars, branch>>

Settle_LeaderOnly(c, s) ==
  /\ flight' = [flight EXCEPT ![call[c].job] = IF @ = c THEN NoCall ELSE @]
  /\ call' = [call EXCEPT ![c] = Returned(@, s)]
  /\ UNCHANGED <<workerVars, entries, lastStatus, branch, verified>>

(* The flight settles: every call that joined it answers the same.         *)
Settle(c, s) ==
  LET j == call[c].job IN
  /\ flight' = [flight EXCEPT ![j] = IF @ = c THEN NoCall ELSE @]
  /\ call' = [d \in Calls |->
                IF d = c \/ (At(d, "joined") /\ call[d].job = j /\ flight[j] = c)
                THEN Returned(call[d], s) ELSE call[d]]
  /\ UNCHANGED <<workerVars, entries, lastStatus, branch, verified>>

(* recordApplied forgets an entry evicted meanwhile.                       *)
Applied(c) ==
  /\ At(c, "cleanup")
  /\ remembered' = remembered \cup ({call[c].job} \cap ToSet(entries))
  /\ Settle(c, "applied")

(* A refusal or failure at any stage, and a temporary directory that does  *)
(* not go away at the end.                                                 *)
ApplyFails(c) ==
  /\ call[c].phase \in {"download", "inspect", "fetch", "reread", "cleanup"}
  /\ Settle(c, "failed")
  /\ UNCHANGED remembered

-----------------------------------------------------------------------------
(* The operator owns the repository the branch is in.                      *)
MoveBranch(j, tip) == branch[j] # tip /\ branch' = [branch EXCEPT ![j] = tip]
  /\ UNCHANGED <<workerVars, call, registryVars, verified>>

(* Other tasks are delegated too, and take their places in the registry.   *)
OtherDelegated ==
  /\ \E j \in Jobs : Tracked(j)
  /\ Record(OtherJob)
  /\ UNCHANGED <<workerVars, call, branch, verified>>

CallStep(c) ==
  \/ ModelAdvice(c) \/ Synced(c) \/ WorkerTakesJob(c) \/ Delegated(c) \/ DelegateFails(c)
  \/ WorkerSnapshot(c) \/ StatusObserved(c) \/ AskFails(c)
  \/ JoinFlight(c) \/ Download(c) \/ Inspect(c)
  \/ \E tip \in {"claimed", "other"} : Fetch(c, tip)
  \/ Reread(c) \/ Applied(c) \/ ApplyFails(c)

Next ==
  \/ WorkerNext /\ UNCHANGED dvars
  \/ \E c \in Calls :
       \/ CallStep(c)
       \/ \E j \in Jobs : \/ \E m \in BOOLEAN : DelegateTask(c, j, m)
                          \/ \E t \in {"status", "result", "cancel"} : AskAbout(c, t, j)
  \/ OtherDelegated
  \/ \E j \in Jobs, tip \in {"none", "ancestor", "other"} : MoveBranch(j, tip)

(* Every wait of a tool call is bounded by a client or git timeout.        *)
Spec == Init /\ [][Next]_vars /\ \A c \in Calls : WF_vars(CallStep(c))

-----------------------------------------------------------------------------
Applying(c) == call[c].phase \in {"download", "inspect", "fetch", "reread", "cleanup"}

(* One apply at a time per job, and everyone who waits for it has a leader *)
(* that is still working: no two overlapping job_results fight over the    *)
(* ref or contradict each other (singleFlightApply).                       *)
OneApplyAtATime ==
  \A c \in Calls :
    /\ Applying(c) => flight[call[c].job] = c
    /\ At(c, "joined") => /\ flight[call[c].job] # NoCall
                          /\ Applying(flight[call[c].job])
                          /\ call[flight[call[c].job]].job = call[c].job

(* A job_result that says "applied" speaks of a job that succeeded with an *)
(* artifact, and of a branch that was re-read at the head its result       *)
(* claims, in this flight or the one that is remembered; other surfaces    *)
(* are for the other outcomes.  (applyWriteArtifact's backstop; "success   *)
(* must never be reported for an unverified tip"; singleFlightApply.)       *)
AppliedIsVerified ==
  /\ OneApplyAtATime
  /\ \A c \in Calls :
       /\ call[c].surface = "applied" => call[c].job \in verified /\ call[c].got = "succeeded"
       /\ call[c].surface = "none" => ~call[c].claims
  /\ remembered \subseteq verified

(* Routes lead to jobs the worker did take, however many answers were      *)
(* lost; there are no more of them than the cap, one per job; and a        *)
(* terminal status in the registry is the job's own, whatever order the    *)
(* snapshots arrived in (delegate_task records only on success; a result   *)
(* can be lost with its worker, never changed).                            *)
RoutesHonest ==
  /\ Len(entries) <= MaxTracked
  /\ IsInjective(entries)
  /\ \A j \in ToSet(entries) \cap Jobs :
       /\ rec[j] # "none"
       /\ lastStatus[j] \in Terminals => rec[j] \in {lastStatus[j], "evicted"}
  /\ remembered \subseteq ToSet(entries)

(* Every tool call answers.                                                *)
ToolCallsAnswer == \A c \in Calls : ~At(c, "idle") ~> At(c, "idle")
=============================================================================
