----------------------------- MODULE JobManager -----------------------------
(***************************************************************************)
(* The worker's dispatch engine, packages/daemon/src/jobs/job-manager.ts:  *)
(* peers submit jobs, at most MaxConcurrentJobs of them run at a time, the *)
(* rest wait in a FIFO queue of at most MaxQueuedJobs, terminal jobs are   *)
(* retained for polling and evicted oldest first.                          *)
(*                                                                         *)
(* JavaScript runs one callback at a time, so an action is what runs       *)
(* between two awaits: a whole synchronous call (submit, the queued path   *)
(* of cancel, cancelOwnedBy), or one leg of the coroutine runJob, whose    *)
(* suspension point is at[j].  Every step that finishes a job includes the *)
(* eviction finishJob ends with, and every step that frees a slot includes *)
(* the pump that runJob's finally block ends with.                         *)
(*                                                                         *)
(* A job is its id.  The queue and terminalOrder arrays are sets: turn     *)
(* gives the submission order (the insertion order of the records Map,     *)
(* which is also the order of the queue) and ended the order of the pushes *)
(* on terminalOrder.  Model resolution, parameters, results and the text   *)
(* of events are left out; a rejected submit changes nothing and is a      *)
(* stuttering step.                                                        *)
(*                                                                         *)
(* X_Fault is a seeded fault: a form of X that a plausible mistake in the  *)
(* code would have, not part of the model.                                 *)
(***************************************************************************)
EXTENDS Integers, FiniteSets, Sequences

CONSTANTS
  Jobs,               \* the ids the manager may mint in a behaviour
  Peers,              \* device ids of the submitting peers
  MaxConcurrentJobs,  \* run slots
  MaxQueuedJobs,      \* jobs that may wait for a slot
  MaxRetainedJobs,    \* retention cap on records
  MaxEmits            \* bound: events the executors log in a behaviour

ASSUME JobsAssumption == IsFiniteSet(Jobs)

\* The constructor rejects maxConcurrentJobs < 1; the other two limits come
\* from a configuration schema of positive integers (config.ts:326-328).
ASSUME LimitsAssumption ==
  /\ MaxConcurrentJobs \in Nat \ {0}
  /\ MaxQueuedJobs \in Nat
  /\ MaxRetainedJobs \in Nat
  /\ MaxEmits \in Nat

VARIABLES
  (* fields of JobManager *)
  mgr,            \* "up", "stopping" (inside stop's wait) or "stopped"
  records,        \* ids of the retained JobRecords
  queue,          \* ids waiting for a slot
  running,        \* ids holding a slot
  terminalOrder,  \* ids of terminal jobs not yet shifted for eviction
  (* fields of the JobRecords; a record outlives its entry in records for *)
  (* as long as the coroutine that runs it                                *)
  owner,          \* the peer that submitted the job
  turn,           \* position of the submission, 0 before it
  status,         \* JobStatus, "unminted" before the submission
  ended,          \* position of the push on terminalOrder, 0 before it
  aborted,        \* ids whose AbortController fired
  events,         \* kinds of the buffered events, in seq order
  (* calls in progress *)
  at,             \* where runJob/executeJob is suspended for the job
  unwinding,      \* running jobs some cancel call awaits
  awaited,        \* jobs whose execution stop awaits
  (* the daemon's side of the onJobEvicted hook *)
  notices         \* times the hook was called for the job

recordVars == <<owner, turn, status, ended, aborted, events>>
callVars == <<unwinding, awaited>>
vars == <<mgr, records, queue, running, terminalOrder, owner, turn, status,
          ended, aborted, events, at, unwinding, awaited, notices>>

Terminal == {"succeeded", "failed", "canceled"}
Statuses == {"queued", "running"} \cup Terminal
EventKinds == {"running", "log", "ended", "result"}

Minted == {j \in Jobs : status[j] # "unminted"}
Ended == {j \in Jobs : status[j] \in Terminal}
NoOwner == "none"

-----------------------------------------------------------------------------
Init ==
  /\ mgr = "up"
  /\ records = {} /\ queue = {} /\ running = {} /\ terminalOrder = {}
  /\ owner = [j \in Jobs |-> NoOwner]
  /\ turn = [j \in Jobs |-> 0]
  /\ status = [j \in Jobs |-> "unminted"]
  /\ ended = [j \in Jobs |-> 0]
  /\ aborted = {}
  /\ events = [j \in Jobs |-> <<>>]
  /\ at = [j \in Jobs |-> "idle"]
  /\ unwinding = {} /\ awaited = {}
  /\ notices = [j \in Jobs |-> 0]

-----------------------------------------------------------------------------
(***************************************************************************)
(* pump: shift ids off queue q while a slot is free, starting those still  *)
(* recorded as queued.  k is the turn of the last id shifted: the loop     *)
(* condition fails there and held at every smaller one.  Starting a job is *)
(* the synchronous prefix of runJob: the slot is taken, the status is      *)
(* "running", the status event is appended, the resolver is called.        *)
(***************************************************************************)
Shifted(q, k) == {j \in q : turn'[j] <= k}
Startable(q, st, k) == {j \in Shifted(q, k) : j \in records' /\ st[j] = "queued"}
PumpStops_OneTooMany(q, run, st, k) ==
  \/ Cardinality(run \cup Startable(q, st, k)) > MaxConcurrentJobs
  \/ Shifted(q, k) = q
PumpStops(q, run, st, k) ==
  \/ Cardinality(run \cup Startable(q, st, k)) >= MaxConcurrentJobs
  \/ Shifted(q, k) = q

Pump(q, run, st, pc) ==
  \E k \in 0..Cardinality(Jobs) :
    /\ PumpStops(q, run, st, k)
    /\ \A n \in 0..(k - 1) : ~PumpStops(q, run, st, n)
    /\ queue' = q \ Shifted(q, k)
    /\ running' = run \cup Startable(q, st, k)
    /\ status' = [j \in Jobs |->
                    IF j \in Startable(q, st, k) THEN "running" ELSE st[j]]
    /\ events' = [j \in Jobs |->
                    IF j \in Startable(q, st, k) THEN Append(events[j], "running")
                                                 ELSE events[j]]
    /\ at' = [j \in Jobs |->
                IF j \in Startable(q, st, k) THEN "resolving" ELSE pc[j]]

(***************************************************************************)
(* evictIfNeeded: shift ids off terminalOrder, oldest first, while more    *)
(* than MaxRetainedJobs records are kept.  A shifted id that is still a    *)
(* terminal record is dropped and the hook is told.                        *)
(***************************************************************************)
ShiftedTerminal(order, k) == {j \in order : ended'[j] <= k}
Evictable_AnyRecord(order, k) == {j \in records : turn[j] <= k}
Evictable(order, k) ==
  {j \in ShiftedTerminal(order, k) : j \in records /\ status'[j] \in Terminal}
EvictionStops(order, k) ==
  \/ Cardinality(records \ Evictable(order, k)) <= MaxRetainedJobs
  \/ ShiftedTerminal(order, k) = order

EvictIfNeeded(order) ==
  \E k \in 0..Cardinality(Jobs) :
    /\ EvictionStops(order, k)
    /\ \A n \in 0..(k - 1) : ~EvictionStops(order, n)
    /\ records' = records \ Evictable(order, k)
    /\ terminalOrder' = order \ ShiftedTerminal(order, k)
    /\ notices' = [j \in Jobs |->
                     IF j \in Evictable(order, k) THEN notices[j] + 1
                                                  ELSE notices[j]]

(***************************************************************************)
(* finishJob for the jobs of S, one after the other in submission order,   *)
(* skipping those already terminal: the status, the push on terminalOrder, *)
(* the terminal status event, then the result event, then eviction.  The   *)
(* evictions of consecutive calls drop what one eviction after the last    *)
(* call drops, since only evictions change the number of records here.     *)
(***************************************************************************)
Fresh(S) == {j \in S : status[j] \notin Terminal}
FinalEvents == <<"ended", "result">>

FinishJobs(S, outcome) ==
  /\ status' = [j \in Jobs |-> IF j \in Fresh(S) THEN outcome ELSE status[j]]
  /\ ended' = [j \in Jobs |->
                 IF j \in Fresh(S)
                 THEN Cardinality(Ended)
                        + Cardinality({i \in Fresh(S) : turn[i] <= turn[j]})
                 ELSE ended[j]]
  /\ events' = [j \in Jobs |->
                  IF j \in Fresh(S) THEN events[j] \o FinalEvents
                                    ELSE events[j]]
  /\ EvictIfNeeded(terminalOrder \cup Fresh(S))

-----------------------------------------------------------------------------
Submit_AfterStop(j, p) ==
  /\ status[j] = "unminted"
  /\ ~ /\ Cardinality(running) >= MaxConcurrentJobs
       /\ Cardinality(queue) >= MaxQueuedJobs
  /\ owner' = [owner EXCEPT ![j] = p]
  /\ turn' = [turn EXCEPT ![j] = Cardinality(Minted) + 1]
  /\ records' = records \cup {j}
  /\ Pump(queue \cup {j}, running, [status EXCEPT ![j] = "queued"], at)
  /\ UNCHANGED <<mgr, terminalOrder, ended, aborted, callVars, notices>>

(* submit: refused when stopped or when no slot is free and the queue is   *)
(* full; otherwise the id is minted, recorded, queued, and pump runs.      *)
Submit(j, p) ==
  /\ mgr = "up"
  /\ status[j] = "unminted"
  /\ ~ /\ Cardinality(running) >= MaxConcurrentJobs
       /\ Cardinality(queue) >= MaxQueuedJobs
  /\ owner' = [owner EXCEPT ![j] = p]
  /\ turn' = [turn EXCEPT ![j] = Cardinality(Minted) + 1]
  /\ records' = records \cup {j}
  /\ Pump(queue \cup {j}, running, [status EXCEPT ![j] = "queued"], at)
  /\ UNCHANGED <<mgr, terminalOrder, ended, aborted, callVars, notices>>

(* executeJob, the resolver's promise fulfilled: the workspace handle is   *)
(* held from here on.                                                      *)
WorkspaceReady(j) ==
  /\ at[j] = "resolving" /\ j \notin aborted
  /\ at' = [at EXCEPT ![j] = "executing"]
  /\ UNCHANGED <<mgr, records, queue, running, terminalOrder, recordVars,
                 callVars, notices>>

(* ... but the job was aborted while the resolver ran. *)
WorkspaceReadyTooLate(j) ==
  /\ at[j] = "resolving" /\ j \in aborted
  /\ FinishJobs({j}, "canceled")
  /\ at' = [at EXCEPT ![j] = "releasing"]
  /\ UNCHANGED <<mgr, queue, running, owner, turn, aborted, callVars>>

(* executeJob, the resolver rejects: WORKSPACE_UNAVAILABLE, aborted or not, *)
(* and there is no handle to release.                                       *)
WorkspaceFails(j) ==
  /\ at[j] = "resolving"
  /\ FinishJobs({j}, "failed")
  /\ at' = [at EXCEPT ![j] = "returning"]
  /\ UNCHANGED <<mgr, queue, running, owner, turn, aborted, callVars>>

Logged == UNION {{j} \X {n \in DOMAIN events[j] : events[j][n] = "log"} : j \in Jobs}

Emit_Late(j) ==
  /\ at[j] \in {"executing", "releasing", "returning", "done"}
  /\ Cardinality(Logged) < MaxEmits
  /\ events' = [events EXCEPT ![j] = Append(@, "log")]
  /\ UNCHANGED <<mgr, records, queue, running, terminalOrder, owner, turn,
                 status, ended, aborted, at, callVars, notices>>

(* emitExecutorEvent: the executor's emit closure may be called late; an   *)
(* event that arrives after the job ended is dropped.                      *)
Emit(j) ==
  /\ at[j] \in {"executing", "releasing", "returning", "done"}
  /\ Cardinality(Logged) < MaxEmits
  /\ events' = IF status[j] \in Terminal
               THEN events
               ELSE [events EXCEPT ![j] = Append(@, "log")]
  /\ UNCHANGED <<mgr, records, queue, running, terminalOrder, owner, turn,
                 status, ended, aborted, at, callVars, notices>>

(* executeJob, the executor settles, a rejection being a failed result.    *)
(* Every executor reports "canceled" only after its signal fired, and may  *)
(* still report another outcome that raced the signal.                     *)
ExecutorReturns(j, outcome) ==
  /\ at[j] = "executing"
  /\ outcome = "canceled" => j \in aborted
  /\ FinishJobs({j}, outcome)
  /\ at' = [at EXCEPT ![j] = "releasing"]
  /\ UNCHANGED <<mgr, queue, running, owner, turn, aborted, callVars>>

(* executeJob's finally: handle.release() has settled. *)
ReleaseSettles(j) ==
  /\ at[j] = "releasing"
  /\ at' = [at EXCEPT ![j] = "returning"]
  /\ UNCHANGED <<mgr, records, queue, running, terminalOrder, recordVars,
                 callVars, notices>>

RunJobEnds_NoPump(j) ==
  /\ at[j] = "returning"
  /\ running' = running \ {j}
  /\ at' = [at EXCEPT ![j] = "done"]
  /\ UNCHANGED <<mgr, records, queue, terminalOrder, recordVars, callVars,
                 notices>>

(* runJob's finally: the slot is freed and pump runs, unless stopped. *)
RunJobEnds(j) ==
  /\ at[j] = "returning"
  /\ IF mgr = "up"
     THEN /\ UNCHANGED <<turn, records>>
          /\ Pump(queue, running \ {j}, status, [at EXCEPT ![j] = "done"])
     ELSE /\ running' = running \ {j}
          /\ at' = [at EXCEPT ![j] = "done"]
          /\ UNCHANGED <<turn, records, queue, status, events>>
  /\ UNCHANGED <<mgr, terminalOrder, owner, ended, aborted, callVars, notices>>

-----------------------------------------------------------------------------
(***************************************************************************)
(* cancel, by the owner.  A terminal job: its status is the answer and     *)
(* nothing changes.  A queued job leaves the queue and is finished without *)
(* having run.  A running job is aborted and the call waits for its        *)
(* execution to settle, or for the unwind timer; the answer is the status  *)
(* read then.                                                              *)
(***************************************************************************)
CancelQueued(j, p) ==
  /\ j \in records /\ owner[j] = p
  /\ status[j] = "queued"
  /\ queue' = queue \ {j}
  /\ FinishJobs({j}, "canceled")
  /\ UNCHANGED <<mgr, running, owner, turn, aborted, at, callVars>>

CancelRunning(j, p) ==
  /\ j \in records /\ owner[j] = p
  /\ status[j] = "running"
  /\ aborted' = aborted \cup {j}
  /\ unwinding' = unwinding \cup {j}
  /\ UNCHANGED <<mgr, records, queue, running, terminalOrder, owner, turn,
                 status, ended, events, at, awaited, notices>>

CancelAnswers(j) ==
  /\ unwinding' = unwinding \ {j}
  /\ UNCHANGED <<mgr, records, queue, running, terminalOrder, recordVars, at,
                 awaited, notices>>

(* The awaited execution resolved: runJob has run to its end. *)
CancelSettles(j) ==
  /\ j \in unwinding /\ at[j] = "done"
  /\ CancelAnswers(j)

(* The unwind timer fired first: the current status is reported. *)
CancelTimesOut(j) ==
  /\ j \in unwinding /\ at[j] # "done"
  /\ CancelAnswers(j)

(* cancelOwnedBy: cancel() without await for every live job of the peer.   *)
CancelOwnedBy(p) ==
  LET live == {j \in records : owner[j] = p /\ status[j] \notin Terminal}
      waiting == {j \in live : status[j] = "queued"}
  IN /\ live # {}
     /\ queue' = queue \ waiting
     /\ FinishJobs(waiting, "canceled")
     /\ aborted' = aborted \cup (live \ waiting)
     /\ UNCHANGED <<mgr, running, owner, turn, at, callVars>>

(***************************************************************************)
(* stop: refuse new jobs, cancel the queue, abort the running jobs that    *)
(* still have a record and await their executions, bounded by the unwind   *)
(* timer; then drop every record, telling the hook.                        *)
(***************************************************************************)
StopBegins ==
  /\ mgr = "up"
  /\ mgr' = "stopping"
  /\ queue' = {}
  /\ FinishJobs({j \in queue : j \in records /\ status[j] = "queued"}, "canceled")
  /\ aborted' = aborted \cup (running \cap records')
  /\ awaited' = running \cap records'
  /\ UNCHANGED <<running, owner, turn, at, unwinding>>

StopTearsDown_Silently ==
  /\ mgr = "stopping"
  /\ mgr' = "stopped"
  /\ records' = {} /\ terminalOrder' = {}
  /\ UNCHANGED <<queue, running, recordVars, at, unwinding, awaited, notices>>

StopTearsDown ==
  /\ mgr = "stopping"
  /\ mgr' = "stopped"
  /\ records' = {} /\ terminalOrder' = {}
  /\ notices' = [j \in Jobs |-> IF j \in records THEN notices[j] + 1
                                                 ELSE notices[j]]
  /\ UNCHANGED <<queue, running, recordVars, at, unwinding, awaited>>

StopSettles ==
  /\ \A j \in awaited : at[j] = "done"
  /\ StopTearsDown

StopTimesOut ==
  /\ \E j \in awaited : at[j] # "done"
  /\ StopTearsDown

-----------------------------------------------------------------------------
JobStep(j) ==
  \/ WorkspaceReady(j) \/ WorkspaceReadyTooLate(j) \/ WorkspaceFails(j)
  \/ Emit(j)
  \/ \E outcome \in Terminal : ExecutorReturns(j, outcome)
  \/ ReleaseSettles(j) \/ RunJobEnds(j)
  \/ CancelSettles(j) \/ CancelTimesOut(j)

PeerStep(p) ==
  \/ \E j \in Jobs : \/ Submit(j, p)
                     \/ CancelQueued(j, p)
                     \/ CancelRunning(j, p)
  \/ CancelOwnedBy(p)

Next ==
  \/ \E j \in Jobs : JobStep(j)
  \/ \E p \in Peers : PeerStep(p)
  \/ StopBegins \/ StopSettles \/ StopTimesOut

Spec == Init /\ [][Next]_vars

-----------------------------------------------------------------------------
TypeOK ==
  /\ mgr \in {"up", "stopping", "stopped"}
  /\ records \subseteq Jobs /\ queue \subseteq Jobs /\ running \subseteq Jobs
  /\ terminalOrder \subseteq Jobs
  /\ owner \in [Jobs -> Peers \cup {NoOwner}]
  /\ turn \in [Jobs -> Nat] /\ ended \in [Jobs -> Nat]
  /\ status \in [Jobs -> Statuses \cup {"unminted"}]
  /\ aborted \subseteq Jobs
  /\ events \in [Jobs -> Seq(EventKinds)]
  /\ at \in [Jobs -> {"idle", "resolving", "executing", "releasing",
                      "returning", "done"}]
  /\ unwinding \subseteq Jobs /\ awaited \subseteq Jobs
  /\ notices \in [Jobs -> Nat]

(* A slot is held from the pump that starts a job until its workspace is   *)
(* torn down (job-manager.ts:703-709), so the limit bounds the running     *)
(* jobs and the live workspaces alike, and no slot idles while a job waits. *)
(* The queue bound rests on the latter: submit tests the queue only when   *)
(* every slot is taken.                                                    *)
LiveWorkspaces == {j \in Jobs : at[j] \in {"executing", "releasing"}}

SlotsRespected ==
  /\ Cardinality({j \in Jobs : status[j] = "running"} \cup LiveWorkspaces)
       <= MaxConcurrentJobs
  /\ queue # {} => Cardinality(running) = MaxConcurrentJobs
  /\ Cardinality(queue) <= MaxQueuedJobs

(* An accepted job is never lost: until the manager is torn down it can be *)
(* polled, and it waits in the queue or has a live coroutine, even as other *)
(* jobs end, are canceled in the queue and are evicted around it.          *)
NoActiveJobLost ==
  \A j \in Jobs : status[j] \in {"queued", "running"} =>
    /\ mgr # "stopped" => j \in records
    /\ status[j] = "queued" => j \in queue /\ at[j] = "idle"
    /\ status[j] = "running" => j \in running /\ at[j] \in {"resolving", "executing"}

(* The event log of a job is the one the RFC describes: a running status   *)
(* event first unless the job never ran, the terminal status event and then *)
(* the result event last and exactly once, stragglers notwithstanding.     *)
EventLogWellFormed ==
  \A j \in Jobs :
    LET log == events[j]
        n == Len(log)
    IN /\ status[j] = "queued" => log = <<>>
       /\ status[j] = "running" => n >= 1 /\ log[1] = "running"
       /\ \A i \in 1..n : log[i] = "running" => i = 1
       /\ \A i \in 1..n : log[i] = "result" <=> (status[j] \in Terminal /\ i = n)
       /\ \A i \in 1..n : log[i] = "ended" <=> (status[j] \in Terminal /\ i = n - 1)

(* What a peer can make the manager keep is bounded, and what goes is told: *)
(* evictIfNeeded runs only when a job ends, yet no more than               *)
(* MaxRetainedJobs terminal records are ever kept and each can still be    *)
(* evicted; the daemon, which reaps the artifact of a job when it is told  *)
(* the record is gone, is told exactly once, through eviction or stop.     *)
RecordsAccountedFor ==
  /\ Cardinality(records \cap Ended) <= MaxRetainedJobs
  /\ records \cap Ended \subseteq terminalOrder
  /\ \A j \in Jobs :
       notices[j] = IF j \in Minted /\ j \notin records THEN 1 ELSE 0

(* What a job ended as is final, and so is its event log, whatever the     *)
(* executor, a cancel or stop still do (finishJob:719, emit:747).          *)
TerminalIsFinal ==
  [][\A j \in Jobs : status[j] \in Terminal =>
       status'[j] = status[j] /\ events'[j] = events[j]]_vars

=============================================================================
