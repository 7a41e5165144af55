---------------------------- MODULE MCJobManager ----------------------------
(***************************************************************************)
(* Model-checking instance of JobManager.  Jobs are interchangeable.  The  *)
(* refinement mapping reads a job's phase off its record: what has no      *)
(* record any more is forgotten, whatever its coroutine still does.        *)
(***************************************************************************)
EXTENDS JobManager, TLC

JobSymmetry == Permutations(Jobs)

Lifecycle ==
  INSTANCE JobLifecycle WITH
    open <- mgr = "up",
    phase <- [j \in Jobs |->
                IF status[j] = "unminted" THEN "absent"
                ELSE IF j \in records THEN status[j] ELSE "forgotten"]

(* Every step of the manager is a step of the life cycle the RFC promises, *)
(* within the three limits, or changes nothing a peer can see.             *)
ImplementsLifecycle == Lifecycle!LifecycleSpec
=============================================================================
