---------------------------- MODULE JobLifecycle ----------------------------
(***************************************************************************)
(* What the dispatch engine promises, with no queue, records, coroutines   *)
(* or timers: the state machine of the RFC's "Job Lifecycle" for each job, *)
(* and the three limits.  A job is absent, then queued or running, then    *)
(* ended with one outcome, then forgotten.  JobManager implements it.      *)
(***************************************************************************)
EXTENDS Integers, FiniteSets

CONSTANTS Jobs, MaxConcurrentJobs, MaxQueuedJobs, MaxRetainedJobs

VARIABLES
  open,   \* the worker accepts jobs
  phase   \* where each job is in its life

lifecycleVars == <<open, phase>>

Outcomes == {"succeeded", "failed", "canceled"}
In(ps) == {j \in Jobs : phase[j] \in ps}

LifecycleInit == open = TRUE /\ phase = [j \in Jobs |-> "absent"]

(* The worker never runs, queues or remembers more than its limits. *)
WithinLimits ==
  /\ Cardinality(In({"running"})) <= MaxConcurrentJobs
  /\ Cardinality(In({"queued"})) <= MaxQueuedJobs
  /\ Cardinality(In(Outcomes)) <= MaxRetainedJobs

(* A job is accepted: it starts at once or waits. *)
Accept(j) ==
  /\ open /\ phase[j] = "absent"
  /\ \E p \in {"queued", "running"} : phase' = [phase EXCEPT ![j] = p]
  /\ UNCHANGED open

(* A waiting job starts; only an open worker starts jobs. *)
Start(j) ==
  /\ open /\ phase[j] = "queued"
  /\ phase' = [phase EXCEPT ![j] = "running"]
  /\ UNCHANGED open

(* The jobs of S end with one outcome, and the ended jobs of F are forgotten *)
(* to make room.  A job that never ran can only be canceled.                 *)
End(S, outcome, F) ==
  /\ S \subseteq In(IF outcome = "canceled" THEN {"queued", "running"}
                                            ELSE {"running"})
  /\ F \subseteq S \cup In(Outcomes)
  /\ phase' = [j \in Jobs |-> IF j \in F THEN "forgotten"
                              ELSE IF j \in S THEN outcome ELSE phase[j]]

EndSome ==
  /\ \E S, F \in SUBSET Jobs, outcome \in Outcomes : End(S, outcome, F)
  /\ UNCHANGED open

(* The worker closes: what still waits is canceled. *)
Close ==
  /\ open /\ open' = FALSE
  /\ \E F \in SUBSET Jobs : End(In({"queued"}), "canceled", F)

(* A closed worker forgets every job, ended or given up on. *)
ForgetAll ==
  /\ ~open /\ UNCHANGED open
  /\ phase' = [j \in Jobs |-> IF phase[j] = "absent" THEN "absent" ELSE "forgotten"]

LifecycleNext ==
  /\ \/ \E j \in Jobs : Accept(j) \/ Start(j)
     \/ EndSome \/ Close \/ ForgetAll
  /\ WithinLimits'

LifecycleSpec == LifecycleInit /\ [][LifecycleNext]_lifecycleVars
=============================================================================
