-------------------------- MODULE DelegationProofs --------------------------
(***************************************************************************)
(* Deliverables are accounted for, and what a retained result promises can *)
(* be downloaded, for any jobs, any number of lives of the worker and      *)
(* every failure on the way; they stay so under real delegators, for any   *)
(* tool calls and registry size; what job_result reports as applied was    *)
(* verified, and the registry's routes lead to jobs the worker took.       *)
(***************************************************************************)
EXTENDS Delegation, SequenceTheorems, TLAPS

Steps == {"idle", "work", "queued", "commit", "mint", "bundle", "unref",
          "returned", "verify", "done"}

(* The variables' types; leftovers is a set of whatever was left.          *)
WorkerTypes ==
  /\ worker \in {"up", "stopping", "sweeping", "down"}
  /\ rec \in [Jobs -> {"none", "active", "evicted"} \cup Terminals]
  /\ artifact \in [Jobs -> BOOLEAN]
  /\ step \in [Jobs -> Steps]
  /\ delivers \in [Jobs -> {"nothing", "null", "bundle", "failure"}]
  /\ lock \in Jobs \cup {Free, Others}
  /\ refs \subseteq Jobs /\ disk \subseteq Jobs
  /\ registered \subseteq Jobs /\ removing \subseteq Jobs

(* The lock is held exactly while its holder is between the commit and the *)
(* end of the finally.                                                     *)
LockHeld ==
  \A j \in Jobs : lock = j <=> step[j] \in {"commit", "mint", "bundle", "unref"}

(* The record follows execute() until the manager is torn down.            *)
RecordFollows ==
  /\ \A j \in Jobs : rec[j] = "none" <=> step[j] = "idle"
  /\ worker \in {"up", "stopping"} =>
       \A j \in Jobs : rec[j] = "active" <=> step[j] \notin {"idle", "done"}
  /\ worker = "down" =>
       /\ registered = {} /\ removing = {} /\ lock = Free
       /\ \A j \in Jobs : rec[j] \in {"none", "evicted"} /\ step[j] \in {"idle", "done"}

(* A bundle is made, handed to the registration and registered without a   *)
(* gap, and removed only after its record went.                            *)
BundleHandedOver ==
  worker = "up" => \A j \in Jobs :
    /\ j \in registered =>
         j \in disk /\ rec[j] \in {"active", "succeeded"} /\ step[j] \in {"verify", "done"}
    /\ j \in removing => rec[j] = "evicted"
    /\ delivers[j] = "bundle" /\ step[j] \in {"unref", "returned"} => j \in disk
    /\ delivers[j] = "bundle" /\ step[j] = "verify" => j \in registered
    /\ rec[j] = "succeeded" /\ artifact[j] => j \in registered

(* Where each file and ref belongs. *)
FilesBelong ==
  worker = "up" =>
    /\ \A j \in disk : \/ j \in registered \cup removing
                       \/ delivers[j] = "bundle" /\ step[j] \in {"unref", "returned"}
                       \/ <<"bundle", j>> \in leftovers
    /\ \A j \in refs : \/ lock = j /\ step[j] \in {"bundle", "unref"}
                       \/ <<"ref", j>> \in leftovers

WorkerInv == WorkerTypes /\ LockHeld /\ RecordFollows /\ BundleHandedOver /\ FilesBelong
-----------------------------------------------------------------------------
(* What an execute() that ends leaves of its own fields (job-manager.ts    *)
(* finishJob), and one that goes on.                                       *)
LEMMA FinishTyped ==
  ASSUME WorkerTypes, NEW j \in Jobs, NEW status \in Terminals, NEW given \in BOOLEAN,
         Finish(j, status, given)
  PROVE  /\ rec' \in [Jobs -> {"none", "active", "evicted"} \cup Terminals]
         /\ artifact' \in [Jobs -> BOOLEAN]
         /\ step' \in [Jobs -> Steps]
         /\ delivers' \in [Jobs -> {"nothing", "null", "bundle", "failure"}]
<1>1. CASE rec[j] = "active"
  BY <1>1 DEF Finish, WorkerTypes, Steps
<1>2. CASE rec[j] # "active"
  BY <1>2 DEF Finish, WorkerTypes, Steps
<1>. QED
  BY <1>1, <1>2

(* A failure is one of the ways to end. *)
LEMMA FailureTyped ==
  ASSUME WorkerTypes, NEW j \in Jobs, FinalizeFails(j)
  PROVE  /\ rec' \in [Jobs -> {"none", "active", "evicted"} \cup Terminals]
         /\ artifact' \in [Jobs -> BOOLEAN]
         /\ step' \in [Jobs -> Steps]
         /\ delivers' \in [Jobs -> {"nothing", "null", "bundle", "failure"}]
  BY FinishTyped DEF FinalizeFails, Terminals

(* The executor gave up or was stopped: nothing was delivered.             *)
LEMMA WorkEndsKeeps ==
  ASSUME WorkerInv, NEW j \in Jobs, WorkEnds(j)
  PROVE  WorkerInv'
<1> USE JobsAssumption DEF WorkerInv, WorkerTypes, Steps, Terminals, Alive
<1>1. WorkerTypes'
  BY DEF WorkEnds, FinalizeFails, Finish, LockHeld, RecordFollows, BundleHandedOver, FilesBelong
<1>2. LockHeld'
  BY DEF WorkEnds, FinalizeFails, Finish, LockHeld, RecordFollows, BundleHandedOver, FilesBelong
<1>3. RecordFollows'
  BY DEF WorkEnds, FinalizeFails, Finish, LockHeld, RecordFollows, BundleHandedOver, FilesBelong
<1>4. BundleHandedOver'
  BY DEF WorkEnds, FinalizeFails, Finish, LockHeld, RecordFollows, BundleHandedOver, FilesBelong
<1>5. FilesBelong'
  BY DEF WorkEnds, FinalizeFails, Finish, LockHeld, RecordFollows, BundleHandedOver, FilesBelong
<1>. QED
  BY <1>1, <1>2, <1>3, <1>4, <1>5 DEF WorkerInv

(* To the lock, or out of it again on an abort.                            *)
LEMMA DeclareDoneKeeps ==
  ASSUME WorkerInv, NEW j \in Jobs, DeclareDone(j)
  PROVE  WorkerInv'
<1> USE JobsAssumption DEF WorkerInv, WorkerTypes, Steps, Terminals, Alive
<1>1. WorkerTypes'
  BY DEF DeclareDone, FinalizeFails, Finish, GoOn, LockHeld, RecordFollows, BundleHandedOver, FilesBelong
<1>2. LockHeld'
  BY DEF DeclareDone, FinalizeFails, Finish, GoOn, LockHeld, RecordFollows, BundleHandedOver, FilesBelong
<1>3. RecordFollows'
  BY DEF DeclareDone, FinalizeFails, Finish, GoOn, LockHeld, RecordFollows, BundleHandedOver, FilesBelong
<1>4. BundleHandedOver'
  BY DEF DeclareDone, FinalizeFails, Finish, GoOn, LockHeld, RecordFollows, BundleHandedOver, FilesBelong
<1>5. FilesBelong'
  BY DEF DeclareDone, FinalizeFails, Finish, GoOn, LockHeld, RecordFollows, BundleHandedOver, FilesBelong
<1>. QED
  BY <1>1, <1>2, <1>3, <1>4, <1>5 DEF WorkerInv

(* The lock is taken free, and not kept by a job that was aborted.         *)
LEMMA EnterLockKeeps ==
  ASSUME WorkerInv, NEW j \in Jobs, EnterLock(j)
  PROVE  WorkerInv'
<1> USE JobsAssumption DEF WorkerInv, WorkerTypes, Steps, Terminals, Alive
<1>1. WorkerTypes'
  <2>1. CASE j \in aborted
    BY <2>1, FailureTyped DEF EnterLock
  <2>2. CASE j \notin aborted
    BY <2>2 DEF EnterLock, GoOn
  <2>. QED
    BY <2>1, <2>2
<1>2. LockHeld'
  BY DEF EnterLock, FinalizeFails, Finish, GoOn, LockHeld, RecordFollows, BundleHandedOver, FilesBelong
<1>3. RecordFollows'
  BY DEF EnterLock, FinalizeFails, Finish, GoOn, LockHeld, RecordFollows, BundleHandedOver, FilesBelong
<1>4. BundleHandedOver'
  BY DEF EnterLock, FinalizeFails, Finish, GoOn, LockHeld, RecordFollows, BundleHandedOver, FilesBelong
<1>5. FilesBelong'
  BY DEF EnterLock, FinalizeFails, Finish, GoOn, LockHeld, RecordFollows, BundleHandedOver, FilesBelong
<1>. QED
  BY <1>1, <1>2, <1>3, <1>4, <1>5 DEF WorkerInv

(* A commit, a clean tree that delivers null, or a failure.                *)
LEMMA CommitKeeps ==
  ASSUME WorkerInv, NEW j \in Jobs, Commit(j)
  PROVE  WorkerInv'
<1> USE JobsAssumption DEF WorkerInv, WorkerTypes, Steps, Terminals, Alive
<1>1. WorkerTypes'
  <2>1. CASE FinalizeFails(j) /\ lock' = Free
    BY <2>1, FailureTyped DEF Commit
  <2>2. CASE GoOn(j, "mint") /\ UNCHANGED <<delivers, lock>>
    BY <2>2 DEF Commit, GoOn
  <2>3. CASE GoOn(j, "returned") /\ delivers' = [delivers EXCEPT ![j] = "null"] /\ lock' = Free
    BY <2>3 DEF Commit, GoOn
  <2>. QED
    BY <2>1, <2>2, <2>3 DEF Commit
<1>2. LockHeld'
  BY DEF Commit, FinalizeFails, Finish, GoOn, LockHeld, RecordFollows, BundleHandedOver, FilesBelong
<1>3. RecordFollows'
  BY DEF Commit, FinalizeFails, Finish, GoOn, LockHeld, RecordFollows, BundleHandedOver, FilesBelong
<1>4. BundleHandedOver'
  BY DEF Commit, FinalizeFails, Finish, GoOn, LockHeld, RecordFollows, BundleHandedOver, FilesBelong
<1>5. FilesBelong'
  BY DEF Commit, FinalizeFails, Finish, GoOn, LockHeld, RecordFollows, BundleHandedOver, FilesBelong
<1>. QED
  BY <1>1, <1>2, <1>3, <1>4, <1>5 DEF WorkerInv

(* The ref is there only under the lock, or is what a killed update-ref    *)
(* left.                                                                   *)
LEMMA MintRefKeeps ==
  ASSUME WorkerInv, NEW j \in Jobs, MintRef(j)
  PROVE  WorkerInv'
<1> USE JobsAssumption DEF WorkerInv, WorkerTypes, Steps, Terminals, Alive
<1>1. WorkerTypes'
  <2>1. CASE FinalizeFails(j) /\ lock' = Free /\ refs' \in {refs, refs \cup {j}}
    BY <2>1, FailureTyped DEF MintRef
  <2>2. CASE GoOn(j, "bundle") /\ refs' = refs \cup {j} /\ UNCHANGED <<delivers, lock>>
    BY <2>2 DEF MintRef, GoOn
  <2>. QED
    BY <2>1, <2>2 DEF MintRef
<1>2. LockHeld'
  BY DEF MintRef, FinalizeFails, Finish, GoOn, LockHeld, RecordFollows, BundleHandedOver, FilesBelong
<1>3. RecordFollows'
  BY DEF MintRef, FinalizeFails, Finish, GoOn, LockHeld, RecordFollows, BundleHandedOver, FilesBelong
<1>4. BundleHandedOver'
  BY DEF MintRef, FinalizeFails, Finish, GoOn, LockHeld, RecordFollows, BundleHandedOver, FilesBelong
<1>5. FilesBelong'
  BY DEF MintRef, FinalizeFails, Finish, GoOn, LockHeld, RecordFollows, BundleHandedOver, FilesBelong
<1>. QED
  BY <1>1, <1>2, <1>3, <1>4, <1>5 DEF WorkerInv

(* A bundle to hand over, none, or one left to the next init.              *)
LEMMA CreateBundleKeeps ==
  ASSUME WorkerInv, NEW j \in Jobs, CreateBundle(j)
  PROVE  WorkerInv'
<1> USE JobsAssumption DEF WorkerInv, WorkerTypes, Steps, Terminals, Alive
<1>1. WorkerTypes'
  BY DEF CreateBundle, GoOn, LockHeld, RecordFollows, BundleHandedOver, FilesBelong
<1>2. LockHeld'
  BY DEF CreateBundle, GoOn, LockHeld, RecordFollows, BundleHandedOver, FilesBelong
<1>3. RecordFollows'
  BY DEF CreateBundle, GoOn, LockHeld, RecordFollows, BundleHandedOver, FilesBelong
<1>4. BundleHandedOver'
  BY DEF CreateBundle, GoOn, LockHeld, RecordFollows, BundleHandedOver, FilesBelong
<1>5. FilesBelong'
  BY DEF CreateBundle, GoOn, LockHeld, RecordFollows, BundleHandedOver, FilesBelong
<1>. QED
  BY <1>1, <1>2, <1>3, <1>4, <1>5 DEF WorkerInv

(* The finally: the ref goes, or is left to the next init.                 *)
LEMMA DropRefKeeps ==
  ASSUME WorkerInv, NEW j \in Jobs, DropRef(j)
  PROVE  WorkerInv'
<1> USE JobsAssumption DEF WorkerInv, WorkerTypes, Steps, Terminals, Alive
<1>1. WorkerTypes'
  BY DEF DropRef, LeaveLock, FinalizeFails, Finish, GoOn, LockHeld, RecordFollows, BundleHandedOver, FilesBelong
<1>2. LockHeld'
  BY DEF DropRef, LeaveLock, FinalizeFails, Finish, GoOn, LockHeld, RecordFollows, BundleHandedOver, FilesBelong
<1>3. RecordFollows'
  BY DEF DropRef, LeaveLock, FinalizeFails, Finish, GoOn, LockHeld, RecordFollows, BundleHandedOver, FilesBelong
<1>4. BundleHandedOver'
  BY DEF DropRef, LeaveLock, FinalizeFails, Finish, GoOn, LockHeld, RecordFollows, BundleHandedOver, FilesBelong
<1>5. FilesBelong'
  BY DEF DropRef, LeaveLock, FinalizeFails, Finish, GoOn, LockHeld, RecordFollows, BundleHandedOver, FilesBelong
<1>. QED
  BY <1>1, <1>2, <1>3, <1>4, <1>5 DEF WorkerInv

(* The bundle changes hands in one turn (daemon.ts:491-521).               *)
LEMMA RegisterKeeps ==
  ASSUME WorkerInv, NEW j \in Jobs, Register(j)
  PROVE  WorkerInv'
<1> USE JobsAssumption DEF WorkerInv, WorkerTypes, Steps, Terminals, Alive
<1>1. WorkerTypes'
  BY DEF Register, GoOn, LockHeld, RecordFollows, BundleHandedOver, FilesBelong
<1>2. LockHeld'
  BY DEF Register, GoOn, LockHeld, RecordFollows, BundleHandedOver, FilesBelong
<1>3. RecordFollows'
  BY DEF Register, GoOn, LockHeld, RecordFollows, BundleHandedOver, FilesBelong
<1>4. BundleHandedOver'
  BY DEF Register, GoOn, LockHeld, RecordFollows, BundleHandedOver, FilesBelong
<1>5. FilesBelong'
  BY DEF Register, GoOn, LockHeld, RecordFollows, BundleHandedOver, FilesBelong
<1>. QED
  BY <1>1, <1>2, <1>3, <1>4, <1>5 DEF WorkerInv

(* The result names an artifact only if it is registered.                  *)
LEMMA SucceedKeeps ==
  ASSUME WorkerInv, NEW j \in Jobs, Succeed(j)
  PROVE  WorkerInv'
<1> USE JobsAssumption DEF WorkerInv, WorkerTypes, Steps, Terminals, Alive
<1>1. WorkerTypes'
  BY DEF Succeed, Finish, LockHeld, RecordFollows, BundleHandedOver, FilesBelong
<1>2. LockHeld'
  BY DEF Succeed, Finish, LockHeld, RecordFollows, BundleHandedOver, FilesBelong
<1>3. RecordFollows'
  BY DEF Succeed, Finish, LockHeld, RecordFollows, BundleHandedOver, FilesBelong
<1>4. BundleHandedOver'
  <2>1. CASE worker = "up"
    <3>1. /\ rec[j] = "active" /\ step[j] = "verify"
          /\ rec' = [rec EXCEPT ![j] = "succeeded"]
          /\ artifact' = [artifact EXCEPT ![j] = (delivers[j] = "bundle")]
          /\ step' = [step EXCEPT ![j] = "done"]
          /\ delivers' = [delivers EXCEPT ![j] = "nothing"]
          /\ UNCHANGED <<worker, registered, removing, disk>>
      BY <2>1 DEF Succeed, Finish, RecordFollows
    <3>2. ASSUME NEW i \in Jobs, rec'[i] = "succeeded", artifact'[i] PROVE i \in registered
      BY <2>1, <3>1, <3>2 DEF BundleHandedOver
    <3>. QED
      BY <2>1, <3>1, <3>2 DEF BundleHandedOver
  <2>2. CASE worker # "up"
    BY <2>2 DEF Succeed, BundleHandedOver
  <2>. QED
    BY <2>1, <2>2
<1>5. FilesBelong'
  BY DEF Succeed, Finish, LockHeld, RecordFollows, BundleHandedOver, FilesBelong
<1>. QED
  BY <1>1, <1>2, <1>3, <1>4, <1>5 DEF WorkerInv

(* Only what nobody can ask for any more is deleted.                       *)
LEMMA FileRemovedKeeps ==
  ASSUME WorkerInv, NEW j \in Jobs, FileRemoved(j)
  PROVE  WorkerInv'
<1> USE JobsAssumption DEF WorkerInv, WorkerTypes, Steps, Terminals, Alive
<1>1. WorkerTypes'
  BY DEF FileRemoved, LockHeld, RecordFollows, BundleHandedOver, FilesBelong
<1>2. LockHeld'
  BY DEF FileRemoved, LockHeld, RecordFollows, BundleHandedOver, FilesBelong
<1>3. RecordFollows'
  BY DEF FileRemoved, LockHeld, RecordFollows, BundleHandedOver, FilesBelong
<1>4. BundleHandedOver'
  BY DEF FileRemoved, LockHeld, RecordFollows, BundleHandedOver, FilesBelong
<1>5. FilesBelong'
  BY DEF FileRemoved, LockHeld, RecordFollows, BundleHandedOver, FilesBelong
<1>. QED
  BY <1>1, <1>2, <1>3, <1>4, <1>5 DEF WorkerInv

(* The hook takes the entry with the record (daemon.ts:530-541).           *)
LEMMA EvictKeeps ==
  ASSUME WorkerInv, NEW j \in Jobs, Evict(j)
  PROVE  WorkerInv'
<1> USE JobsAssumption DEF WorkerInv, WorkerTypes, Steps, Terminals, Alive
<1>1. WorkerTypes'
  BY DEF Evict, RemoveArtifact, LockHeld, RecordFollows, BundleHandedOver, FilesBelong
<1>2. LockHeld'
  BY DEF Evict, RemoveArtifact, LockHeld, RecordFollows, BundleHandedOver, FilesBelong
<1>3. RecordFollows'
  BY DEF Evict, RemoveArtifact, LockHeld, RecordFollows, BundleHandedOver, FilesBelong
<1>4. BundleHandedOver'
  BY DEF Evict, RemoveArtifact, LockHeld, RecordFollows, BundleHandedOver, FilesBelong
<1>5. FilesBelong'
  BY DEF Evict, RemoveArtifact, LockHeld, RecordFollows, BundleHandedOver, FilesBelong
<1>. QED
  BY <1>1, <1>2, <1>3, <1>4, <1>5 DEF WorkerInv

(* A job that is taken has yet to touch the repository.                    *)
LEMMA SubmitKeeps ==
  ASSUME WorkerInv, NEW j \in Jobs, Submit(j)
  PROVE  WorkerInv'
<1> USE JobsAssumption DEF WorkerInv, WorkerTypes, Steps, Terminals, Alive
<1>1. WorkerTypes'
  BY DEF Submit, LockHeld, RecordFollows, BundleHandedOver, FilesBelong
<1>2. LockHeld'
  BY DEF Submit, LockHeld, RecordFollows, BundleHandedOver, FilesBelong
<1>3. RecordFollows'
  BY DEF Submit, LockHeld, RecordFollows, BundleHandedOver, FilesBelong
<1>4. BundleHandedOver'
  BY DEF Submit, LockHeld, RecordFollows, BundleHandedOver, FilesBelong
<1>5. FilesBelong'
  BY DEF Submit, LockHeld, RecordFollows, BundleHandedOver, FilesBelong
<1>. QED
  BY <1>1, <1>2, <1>3, <1>4, <1>5 DEF WorkerInv

(* An abort alone moves nothing.                                           *)
LEMMA CancelOnWorkerKeeps ==
  ASSUME WorkerInv, NEW j \in Jobs, CancelOnWorker(j)
  PROVE  WorkerInv'
<1> USE JobsAssumption DEF WorkerInv, WorkerTypes, Steps, Terminals, Alive
<1>1. WorkerTypes'
  BY DEF CancelOnWorker, LockHeld, RecordFollows, BundleHandedOver, FilesBelong
<1>2. LockHeld'
  BY DEF CancelOnWorker, LockHeld, RecordFollows, BundleHandedOver, FilesBelong
<1>3. RecordFollows'
  BY DEF CancelOnWorker, LockHeld, RecordFollows, BundleHandedOver, FilesBelong
<1>4. BundleHandedOver'
  BY DEF CancelOnWorker, LockHeld, RecordFollows, BundleHandedOver, FilesBelong
<1>5. FilesBelong'
  BY DEF CancelOnWorker, LockHeld, RecordFollows, BundleHandedOver, FilesBelong
<1>. QED
  BY <1>1, <1>2, <1>3, <1>4, <1>5 DEF WorkerInv

(* Other users of the repository take the lock only when it is free.       *)
LEMMA OthersLockKeeps ==
  ASSUME WorkerInv, OthersLock
  PROVE  WorkerInv'
<1> USE JobsAssumption DEF WorkerInv, WorkerTypes, Steps, Terminals, Alive
<1>1. WorkerTypes'
  BY DEF OthersLock, LockHeld, RecordFollows, BundleHandedOver, FilesBelong
<1>2. LockHeld'
  BY DEF OthersLock, LockHeld, RecordFollows, BundleHandedOver, FilesBelong
<1>3. RecordFollows'
  BY DEF OthersLock, LockHeld, RecordFollows, BundleHandedOver, FilesBelong
<1>4. BundleHandedOver'
  BY DEF OthersLock, LockHeld, RecordFollows, BundleHandedOver, FilesBelong
<1>5. FilesBelong'
  BY DEF OthersLock, LockHeld, RecordFollows, BundleHandedOver, FilesBelong
<1>. QED
  BY <1>1, <1>2, <1>3, <1>4, <1>5 DEF WorkerInv

(* A stop aborts, and leaves records and files to the unwind.              *)
LEMMA StopManagerKeeps ==
  ASSUME WorkerInv, StopManager
  PROVE  WorkerInv'
<1> USE JobsAssumption DEF WorkerInv, WorkerTypes, Steps, Terminals, Alive
<1>1. WorkerTypes'
  BY DEF StopManager, LockHeld, RecordFollows, BundleHandedOver, FilesBelong
<1>2. LockHeld'
  BY DEF StopManager, LockHeld, RecordFollows, BundleHandedOver, FilesBelong
<1>3. RecordFollows'
  BY DEF StopManager, LockHeld, RecordFollows, BundleHandedOver, FilesBelong
<1>4. BundleHandedOver'
  BY DEF StopManager, LockHeld, RecordFollows, BundleHandedOver, FilesBelong
<1>5. FilesBelong'
  BY DEF StopManager, LockHeld, RecordFollows, BundleHandedOver, FilesBelong
<1>. QED
  BY <1>1, <1>2, <1>3, <1>4, <1>5 DEF WorkerInv

(* Once the manager is torn down execute() may run on by itself.           *)
LEMMA ManagerStoppedKeeps ==
  ASSUME WorkerInv, ManagerStopped
  PROVE  WorkerInv'
<1> USE JobsAssumption DEF WorkerInv, WorkerTypes, Steps, Terminals, Alive
<1>1. WorkerTypes'
  BY DEF ManagerStopped, RemoveArtifact, LockHeld, RecordFollows, BundleHandedOver, FilesBelong
<1>2. LockHeld'
  BY DEF ManagerStopped, RemoveArtifact, LockHeld, RecordFollows, BundleHandedOver, FilesBelong
<1>3. RecordFollows'
  BY DEF ManagerStopped, RemoveArtifact, LockHeld, RecordFollows, BundleHandedOver, FilesBelong
<1>4. BundleHandedOver'
  BY DEF ManagerStopped, RemoveArtifact, LockHeld, RecordFollows, BundleHandedOver, FilesBelong
<1>5. FilesBelong'
  BY DEF ManagerStopped, RemoveArtifact, LockHeld, RecordFollows, BundleHandedOver, FilesBelong
<1>. QED
  BY <1>1, <1>2, <1>3, <1>4, <1>5 DEF WorkerInv

(* The sweep ends the life of the process, with files left or not.         *)
LEMMA ShutdownKeeps ==
  ASSUME WorkerInv, Shutdown
  PROVE  WorkerInv'
<1> USE JobsAssumption DEF WorkerInv, WorkerTypes, Steps, Terminals, Alive
<1>1. WorkerTypes'
  BY DEF Shutdown, Dies, LockHeld, RecordFollows, BundleHandedOver, FilesBelong
<1>2. LockHeld'
  BY DEF Shutdown, Dies, LockHeld, RecordFollows, BundleHandedOver, FilesBelong
<1>3. RecordFollows'
  BY DEF Shutdown, Dies, LockHeld, RecordFollows, BundleHandedOver, FilesBelong
<1>4. BundleHandedOver'
  BY DEF Shutdown, Dies, LockHeld, RecordFollows, BundleHandedOver, FilesBelong
<1>5. FilesBelong'
  BY DEF Shutdown, Dies, LockHeld, RecordFollows, BundleHandedOver, FilesBelong
<1>. QED
  BY <1>1, <1>2, <1>3, <1>4, <1>5 DEF WorkerInv

(* A crash leaves files and refs, but no lock, entry or record.            *)
LEMMA CrashKeeps ==
  ASSUME WorkerInv, Crash
  PROVE  WorkerInv'
<1> USE JobsAssumption DEF WorkerInv, WorkerTypes, Steps, Terminals, Alive
<1>1. WorkerTypes'
  BY DEF Crash, Dies, LockHeld, RecordFollows, BundleHandedOver, FilesBelong
<1>2. LockHeld'
  BY DEF Crash, Dies, LockHeld, RecordFollows, BundleHandedOver, FilesBelong
<1>3. RecordFollows'
  BY DEF Crash, Dies, LockHeld, RecordFollows, BundleHandedOver, FilesBelong
<1>4. BundleHandedOver'
  BY DEF Crash, Dies, LockHeld, RecordFollows, BundleHandedOver, FilesBelong
<1>5. FilesBelong'
  BY DEF Crash, Dies, LockHeld, RecordFollows, BundleHandedOver, FilesBelong
<1>. QED
  BY <1>1, <1>2, <1>3, <1>4, <1>5 DEF WorkerInv

(* init() starts from the files and refs that its deletions left.          *)
LEMMA RestartKeeps ==
  ASSUME WorkerInv, Restart
  PROVE  WorkerInv'
<1> USE JobsAssumption DEF WorkerInv, WorkerTypes, Steps, Terminals, Alive
<1>1. WorkerTypes'
  BY DEF Restart, LockHeld, RecordFollows, BundleHandedOver, FilesBelong
<1>2. LockHeld'
  BY DEF Restart, LockHeld, RecordFollows, BundleHandedOver, FilesBelong
<1>3. RecordFollows'
  BY DEF Restart, LockHeld, RecordFollows, BundleHandedOver, FilesBelong
<1>4. BundleHandedOver'
  BY DEF Restart, LockHeld, RecordFollows, BundleHandedOver, FilesBelong
<1>5. FilesBelong'
  BY DEF Restart, LockHeld, RecordFollows, BundleHandedOver, FilesBelong
<1>. QED
  BY <1>1, <1>2, <1>3, <1>4, <1>5 DEF WorkerInv

-----------------------------------------------------------------------------
(* A worker that never ran holds nothing. *)
LEMMA WorkerStarts == WorkerInit => WorkerInv
  BY JobsAssumption
  DEF WorkerInit, WorkerInv, WorkerTypes, LockHeld, RecordFollows, BundleHandedOver,
      FilesBelong, Steps, Terminals, Alive

(* Every step of the worker, and what delegators do to it, keep the        *)
(* invariant.                                                              *)
LEMMA WorkerKeeps ==
  ASSUME WorkerInv,
         [WorkerNext \/ \E j \in Jobs : Submit(j) \/ CancelOnWorker(j)]_workerVars
  PROVE  WorkerInv'
<1>1. ASSUME NEW j \in Jobs, WorkerStep(j) \/ Evict(j) PROVE WorkerInv'
  BY <1>1, WorkEndsKeeps, DeclareDoneKeeps, EnterLockKeeps, CommitKeeps, MintRefKeeps,
     CreateBundleKeeps, DropRefKeeps, RegisterKeeps, SucceedKeeps, FileRemovedKeeps,
     EvictKeeps DEF WorkerStep
<1>2. ASSUME NEW j \in Jobs, Submit(j) \/ CancelOnWorker(j) PROVE WorkerInv'
  BY <1>2, SubmitKeeps, CancelOnWorkerKeeps
<1>3. CASE OthersLock \/ StopManager \/ ManagerStopped \/ Shutdown \/ Crash \/ Restart
  BY <1>3, OthersLockKeeps, StopManagerKeeps, ManagerStoppedKeeps, ShutdownKeeps,
     CrashKeeps, RestartKeeps
<1>4. CASE UNCHANGED workerVars
  BY <1>4 DEF workerVars, WorkerInv, WorkerTypes, LockHeld, RecordFollows,
     BundleHandedOver, FilesBelong
<1>. QED
  BY <1>1, <1>2, <1>3, <1>4 DEF WorkerNext

(* What the invariant is for. *)
LEMMA InvariantDelivers == WorkerInv => DeliverablesAccountedFor
  BY DEF WorkerInv, WorkerTypes, LockHeld, BundleHandedOver, FilesBelong,
         DeliverablesAccountedFor, ResultsAreDownloadable

(* Between the two ends of a life of the worker, every bundle and every    *)
(* transient ref has an owner that will remove it or is what a failed or   *)
(* killed command left to the next init, and an artifact named by a        *)
(* retained result is there to download, whatever fails in finalize,       *)
(* eviction, stop and start (finalizeWriteJobLocked's finally,             *)
(* artifact-store.ts remove, sweepLeakedWriteRefs).                        *)
THEOREM WorkerAccounts == WorkerSpec => []DeliverablesAccountedFor
<1>1. WorkerInv /\ [WorkerNext \/ \E j \in Jobs : Submit(j) \/ CancelOnWorker(j)]_workerVars
        => WorkerInv'
  BY WorkerKeeps
<1>. QED
  BY <1>1, WorkerStarts, InvariantDelivers, PTL DEF WorkerSpec

-----------------------------------------------------------------------------
(***************************************************************************)
(* The delegating node: its tool calls, registry and applies.              *)
(***************************************************************************)
Called == [tool : {"none", "delegate", "status", "result", "cancel"},
           job : Jobs \cup {NoJob}, phase : Phases,
           got : {"none", "active"} \cup Terminals, claims : BOOLEAN,
           surface : {"no_answer", "applied", "none"}]

ApplyPhases == {"download", "inspect", "fetch", "reread", "cleanup"}

(* The job has been told to the call as ended. *)
ToldEnd(c) == call[c].phase # "idle" /\ call[c].got \in Terminals

CallTypes ==
  /\ call \in [Calls -> Called]
  /\ flight \in [Jobs -> Calls \cup {NoCall}]
  /\ verified \subseteq Jobs /\ remembered \subseteq verified
  /\ \A c \in Calls : call[c].phase # "idle" => call[c].job \in Jobs

(* The flight of a job and its leader know each other; a call that joined  *)
(* knows that the job ended.                                               *)
FlightInv ==
  /\ \A c \in Calls : call[c].phase \in ApplyPhases =>
       flight[call[c].job] = c /\ call[c].got = "succeeded"
  /\ \A j \in Jobs : flight[j] # NoCall =>
       call[flight[j]].phase \in ApplyPhases /\ call[flight[j]].job = j
  /\ \A c \in Calls : call[c].phase = "joined" =>
       flight[call[c].job] # NoCall /\ call[c].got \in Terminals
  /\ \A c \in Calls : call[c].phase = "cleanup" => call[c].job \in verified
  /\ \A c \in Calls : call[c].phase = "told" => call[c].got # "none"

(* What was told of a job's end is what its record says as long as there   *)
(* is one; so all calls were told the same, and of a verified job success. *)
ToldInv ==
  /\ \A c \in Calls : ToldEnd(c) => rec[call[c].job] \in {call[c].got, "evicted"}
  /\ \A c, d \in Calls :
       ToldEnd(c) /\ ToldEnd(d) /\ call[c].job = call[d].job => call[c].got = call[d].got
  /\ \A j \in verified : rec[j] \in {"succeeded", "evicted"}
  /\ \A c \in Calls : ToldEnd(c) /\ call[c].job \in verified => call[c].got = "succeeded"
  /\ \A c \in Calls : call[c].claims => call[c].got = "succeeded"

SurfaceInv ==
  \A c \in Calls :
    /\ call[c].surface = "applied" => call[c].job \in verified /\ call[c].got = "succeeded"
    /\ call[c].surface = "none" => ~call[c].claims
    /\ call[c].phase # "idle" => call[c].surface = "no_answer"

CallInv == CallTypes /\ FlightInv /\ ToldInv /\ SurfaceInv

-----------------------------------------------------------------------------
(* A record that ended only ever goes away. *)
LEMMA RecordsEnd ==
  ASSUME WorkerInv, NEW j \in Jobs, NEW t \in Terminals, rec[j] \in {t, "evicted"},
         [WorkerNext \/ \E i \in Jobs : Submit(i) \/ CancelOnWorker(i)]_workerVars
  PROVE  rec'[j] \in {t, "evicted"}
<1> USE DEF Terminals
<1>1. ASSUME NEW i \in Jobs, WorkerStep(i) \/ Evict(i) PROVE rec'[j] \in {t, "evicted"}
  BY <1>1 DEF WorkerStep, WorkEnds, DeclareDone, EnterLock, Commit, MintRef, CreateBundle,
     DropRef, LeaveLock, Register, Succeed, FileRemoved, Evict, FinalizeFails, Finish, GoOn,
     WorkerInv, WorkerTypes
<1>2. ASSUME NEW i \in Jobs, Submit(i) \/ CancelOnWorker(i) PROVE rec'[j] \in {t, "evicted"}
  BY <1>2 DEF Submit, CancelOnWorker, WorkerInv, WorkerTypes
<1>3. CASE OthersLock \/ StopManager \/ ManagerStopped \/ Shutdown \/ Crash \/ Restart
  BY <1>3 DEF OthersLock, StopManager, ManagerStopped, Shutdown, Crash, Dies, Restart
<1>4. CASE UNCHANGED workerVars
  BY <1>4 DEF workerVars
<1>. QED
  BY <1>1, <1>2, <1>3, <1>4 DEF WorkerNext

RecordsOnlyEnd ==
  \A j \in Jobs, t \in Terminals : rec[j] \in {t, "evicted"} => rec'[j] \in {t, "evicted"}

(* What the worker does by itself is no news to the calls. *)
LEMMA WorkerLeavesCalls ==
  ASSUME CallInv, RecordsOnlyEnd, UNCHANGED dvars
  PROVE  CallInv'
<1> USE DEF dvars, registryVars, CallInv, CallTypes, Called
<1>1. CallTypes' /\ FlightInv' /\ SurfaceInv'
  BY DEF FlightInv, SurfaceInv
<1>2. ToldInv'
  BY DEF ToldInv, ToldEnd, RecordsOnlyEnd, Terminals
<1>. QED
  BY <1>1, <1>2

(* A call that takes no part in a flight, before and after: it may go      *)
(* idle, keep what it was told, or be told what the record says.           *)
LEMMA OneCallMoves ==
  ASSUME CallInv, RecordsOnlyEnd, NEW c \in Calls, NEW r \in Called,
         call' = [call EXCEPT ![c] = r],
         UNCHANGED <<flight, verified>>, remembered' \subseteq remembered,
         call[c].phase \notin ApplyPhases \cup {"joined"},
         r.phase \notin ApplyPhases \cup {"joined"},
         r.phase # "idle" => r.job \in Jobs /\ r.surface = "no_answer",
         r.phase = "told" => r.got # "none",
         r.claims => r.got = "succeeded",
         r.phase # "idle" /\ r.got \in Terminals =>
           \/ r.job = call[c].job /\ r.got = call[c].got /\ call[c].phase # "idle"
           \/ rec[r.job] = r.got,
         r.surface = "applied" => r.job \in verified /\ r.got = "succeeded",
         r.surface = "none" => ~r.claims
  PROVE  CallInv'
<1> USE DEF CallInv, CallTypes
<1>1. \A d \in Calls : call'[d] = IF d = c THEN r ELSE call[d]
  OBVIOUS
<1>2. CallTypes'
  BY <1>1
<1>3. FlightInv'
  BY <1>1, CallsAssumption DEF FlightInv, ApplyPhases
<1>4. SurfaceInv'
  BY <1>1 DEF SurfaceInv
<1>5. ToldEnd(c)' => \/ ToldEnd(c) /\ call'[c].job = call[c].job /\ call'[c].got = call[c].got
                     \/ rec[call'[c].job] = call'[c].got
  BY <1>1 DEF ToldEnd
<1>6. \A d \in Calls : d # c => (ToldEnd(d)' <=> ToldEnd(d))
  BY <1>1 DEF ToldEnd
<1>7. \A d \in Calls : ToldEnd(d)' =>
        rec[call'[d].job] \in {call'[d].got, "evicted"} /\ call'[d].job \in Jobs
  BY <1>1, <1>5, <1>6 DEF ToldInv, ToldEnd
<1>8. \A d \in Calls : ToldEnd(d)' => rec'[call'[d].job] \in {call'[d].got, "evicted"}
  BY <1>7 DEF ToldEnd, RecordsOnlyEnd
<1>9. \A d, e \in Calls :
        ToldEnd(d)' /\ ToldEnd(e)' /\ call'[d].job = call'[e].job => call'[d].got = call'[e].got
  BY <1>1, <1>5, <1>6 DEF ToldInv, ToldEnd, Terminals
<1>10. \A d \in Calls : ToldEnd(d)' /\ call'[d].job \in verified => call'[d].got = "succeeded"
  BY <1>1, <1>5, <1>6 DEF ToldInv, ToldEnd, Terminals
<1>11. \A j \in verified' : rec'[j] \in {"succeeded", "evicted"}
  BY DEF ToldInv, RecordsOnlyEnd, Terminals
<1>12. \A d \in Calls : call'[d].claims => call'[d].got = "succeeded"
  BY <1>1 DEF ToldInv
<1>13. ToldInv'
  BY <1>8, <1>9, <1>10, <1>11, <1>12 DEF ToldInv
<1>. QED
  BY <1>2, <1>3, <1>4, <1>13

(* The leader of a flight goes on: only re-reading the branch adds to what *)
(* is verified, and nothing is cleaned up before.                          *)
LEMMA LeaderMoves ==
  ASSUME CallInv, NEW c \in Calls, NEW p \in ApplyPhases,
         call[c].phase \in ApplyPhases, call' = [call EXCEPT ![c].phase = p],
         verified' \in {verified, verified \cup {call[c].job}},
         p = "cleanup" => call[c].job \in verified',
         UNCHANGED <<rec, flight, remembered>>
  PROVE  CallInv'
<1> USE DEF CallInv, CallTypes, Called, ApplyPhases, Phases
<1>1. call[c].job \in Jobs /\ call[c].got = "succeeded" /\ flight[call[c].job] = c
  BY DEF FlightInv
<1>2. \A d \in Calls :
        /\ call'[d].phase = IF d = c THEN p ELSE call[d].phase
        /\ call'[d].job = call[d].job /\ call'[d].got = call[d].got
        /\ call'[d].claims = call[d].claims /\ call'[d].surface = call[d].surface
  OBVIOUS
<1>3. CallTypes'
  BY <1>1, <1>2
<1>4. FlightInv'
  BY <1>1, <1>2, CallsAssumption DEF FlightInv
<1>5. SurfaceInv'
  BY <1>2 DEF SurfaceInv
<1>6. \A d \in Calls : ToldEnd(d)' <=> ToldEnd(d)
  BY <1>2 DEF ToldEnd
<1>7. ToldEnd(c) /\ \A d \in Calls :
        ToldEnd(d) /\ call[d].job = call[c].job => call[d].got = "succeeded"
  BY <1>1 DEF ToldEnd, ToldInv, Terminals
<1>8. rec[call[c].job] \in {"succeeded", "evicted"}
  BY <1>1, <1>7 DEF ToldInv
<1>9. ToldInv'
  BY <1>2, <1>6, <1>7, <1>8 DEF ToldInv
<1>. QED
  BY <1>3, <1>4, <1>5, <1>9

(* A call that was told of the end of the job waits for the flight there   *)
(* is, or leads one.                                                       *)
LEMMA FlightBoarded ==
  ASSUME CallInv, NEW c \in Calls, NEW p \in {"joined", "download"},
         call[c].phase = "told", call[c].got # "active",
         call' = [call EXCEPT ![c].phase = p],
         p = "joined" => flight[call[c].job] # NoCall /\ flight' = flight,
         p = "download" => /\ flight[call[c].job] = NoCall /\ call[c].claims
                           /\ flight' = [flight EXCEPT ![call[c].job] = c],
         UNCHANGED <<rec, verified, remembered>>
  PROVE  CallInv'
<1> USE DEF CallInv, CallTypes, Called, ApplyPhases, Phases
<1>1. call[c].job \in Jobs /\ call[c].got \in Terminals
  BY DEF FlightInv, Terminals
<1>2. \A d \in Calls :
        /\ call'[d].phase = IF d = c THEN p ELSE call[d].phase
        /\ call'[d].job = call[d].job /\ call'[d].got = call[d].got
        /\ call'[d].claims = call[d].claims /\ call'[d].surface = call[d].surface
  OBVIOUS
<1>3. CallTypes'
  BY <1>1, <1>2
<1>4. FlightInv'
  <2>1. CASE p = "joined"
    BY <2>1, <1>1, <1>2, CallsAssumption DEF FlightInv
  <2>2. CASE p = "download"
    <3>1. \A j \in Jobs : flight'[j] = IF j = call[c].job THEN c ELSE flight[j]
      BY <2>2, <1>1
    <3>2. call[c].got = "succeeded"
      BY <2>2 DEF ToldInv
    <3>. QED
      BY <2>2, <3>1, <3>2, <1>1, <1>2, CallsAssumption DEF FlightInv
  <2>. QED
    BY <2>1, <2>2
<1>5. SurfaceInv'
  BY <1>2 DEF SurfaceInv
<1>6. \A d \in Calls : ToldEnd(d)' <=> ToldEnd(d)
  BY <1>2 DEF ToldEnd
<1>7. ToldInv'
  BY <1>2, <1>6 DEF ToldInv
<1>. QED
  BY <1>3, <1>4, <1>5, <1>7

(* A call that returns is idle; a failed one keeps nothing of its job. *)
LEMMA ReturnedCall ==
  ASSUME NEW x \in Called, NEW answer \in {"applied", "failed"}
  PROVE  /\ Returned(x, answer) \in Called /\ Returned(x, answer).phase = "idle"
         /\ answer = "failed" =>
              /\ Returned(x, answer).surface = "no_answer"
              /\ ~Returned(x, answer).claims /\ Returned(x, answer).job = NoJob
         /\ answer = "applied" =>
              /\ Returned(x, answer).surface = "applied"
              /\ Returned(x, answer).job = x.job /\ Returned(x, answer).got = x.got
              /\ Returned(x, answer).claims = x.claims
<1>1. CASE answer = "failed"
  <2>1. Returned(x, answer) = Idle
    BY <1>1 DEF Returned
  <2>2. Idle \in Called
    BY DEF Idle, Called, Phases
  <2>3. /\ Idle.phase = "idle" /\ Idle.surface = "no_answer" /\ Idle.job = NoJob
        /\ Idle.claims = FALSE
    BY DEF Idle
  <2>. QED
    BY <1>1, <2>1, <2>2, <2>3
<1>2. CASE answer = "applied"
  <2>1. Returned(x, answer) = [x EXCEPT !.phase = "idle", !.surface = "applied"]
    BY <1>2 DEF Returned
  <2>2. "idle" \in Phases /\ "applied" \in {"no_answer", "applied", "none"}
    BY DEF Phases
  <2>3. Returned(x, answer) = [tool |-> x.tool, job |-> x.job, phase |-> "idle", got |-> x.got,
                               claims |-> x.claims, surface |-> "applied"]
    BY <2>1 DEF Called
  <2>4. /\ x.tool \in {"none", "delegate", "status", "result", "cancel"}
        /\ x.job \in Jobs \cup {NoJob} /\ x.got \in {"none", "active"} \cup Terminals
        /\ x.claims \in BOOLEAN
    BY DEF Called
  <2>5. Returned(x, answer) \in Called
    BY <2>2, <2>3, <2>4 DEF Called
  <2>. QED
    BY <1>2, <2>3, <2>5
<1>. QED
  BY <1>1, <1>2

(* The leader settles its flight: it and all who joined get one answer, of *)
(* success only from a branch that was re-read.                            *)
LEMMA FlightSettles ==
  ASSUME CallInv, NEW c \in Calls, NEW answer \in {"applied", "failed"},
         call[c].phase \in ApplyPhases, answer = "applied" => call[c].phase = "cleanup",
         Settle(c, answer), remembered' \subseteq verified
  PROVE  CallInv'
<1> USE DEF CallInv, CallTypes, Called, ApplyPhases, Phases
<1> DEFINE j == call[c].job
           out(d) == d = c \/ (call[d].phase = "joined" /\ call[d].job = j)
<1>1. j \in Jobs /\ call[c].got = "succeeded" /\ flight[j] = c
  BY DEF FlightInv
<1>2. /\ flight' = [flight EXCEPT ![j] = NoCall]
      /\ call' = [d \in Calls |-> IF out(d) THEN Returned(call[d], answer) ELSE call[d]]
      /\ UNCHANGED <<rec, verified>>
  BY <1>1 DEF Settle, At, workerVars
<1>3. \A d \in Calls : out(d) =>
        /\ call'[d] \in Called /\ call'[d].phase = "idle"
        /\ answer = "failed" =>
             call'[d].surface = "no_answer" /\ ~call'[d].claims /\ call'[d].job = NoJob
        /\ answer = "applied" =>
             /\ call'[d].surface = "applied" /\ call'[d].job = j
             /\ call'[d].got = call[d].got /\ call'[d].claims = call[d].claims
  <2>1. \A d \in Calls : out(d) => /\ call[d] \in Called /\ call[d].job = j
                                   /\ call'[d] = Returned(call[d], answer)
    BY <1>2
  <2> HIDE DEF CallInv, CallTypes, Called, ApplyPhases, Phases
  <2>. QED
    BY <2>1, ReturnedCall
<1>4. \A d \in Calls : ~out(d) => call'[d] = call[d]
  BY <1>2
<1>5. CallTypes'
  BY <1>1, <1>2, <1>3, <1>4
<1>6. \A i \in Jobs : flight'[i] = IF i = j THEN NoCall ELSE flight[i]
  BY <1>1, <1>2
<1>7. FlightInv'
  BY <1>1, <1>2, <1>3, <1>4, <1>6, CallsAssumption DEF FlightInv
<1>8. answer = "applied" => j \in verified /\ \A d \in Calls : out(d) => call[d].got = "succeeded"
  BY <1>1 DEF FlightInv, ToldInv, ToldEnd
<1>9. SurfaceInv'
  BY <1>2, <1>3, <1>4, <1>8 DEF SurfaceInv
<1>10. \A d \in Calls : ToldEnd(d)' => ~out(d) /\ ToldEnd(d)
  BY <1>3, <1>4 DEF ToldEnd
<1>11. ToldInv'
  BY <1>2, <1>3, <1>4, <1>8, <1>10 DEF ToldInv
<1>. QED
  BY <1>5, <1>7, <1>9, <1>11

-----------------------------------------------------------------------------
(* A call answers, outside of any flight, and its slot is free.            *)
LEMMA AnswerKeeps ==
  ASSUME CallInv, RecordsOnlyEnd, NEW c \in Calls, Answer(c),
         call[c].phase \notin ApplyPhases \cup {"joined"},
         UNCHANGED <<flight, verified>>, remembered' \subseteq remembered
  PROVE  CallInv'
<1>1. Idle \in Called
  BY DEF Idle, Called, Phases
<1>2. /\ Idle.phase = "idle" /\ Idle.surface = "no_answer" /\ Idle.claims = FALSE
  BY DEF Idle
<1>. QED
  BY <1>1, <1>2, OneCallMoves DEF Answer, ApplyPhases

(* A call is begun: nothing has been told to it (delegate_task, the        *)
(* questions about a job).                                                 *)
LEMMA BeginKeeps ==
  ASSUME CallInv, RecordsOnlyEnd, NEW c \in Calls, NEW j \in Jobs,
         NEW tool \in {"delegate", "status", "result", "cancel"},
         NEW p \in {"hello", "sync", "ask"},
         call[c].phase = "idle", Begin(c, tool, j, p), UNCHANGED <<flight, verified, remembered>>
  PROVE  CallInv'
<1> DEFINE r == [Idle EXCEPT !.tool = tool, !.job = j, !.phase = p]
<1>1. r \in Called /\ r.phase = p /\ r.job = j /\ r.surface = "no_answer"
      /\ r.got = "none" /\ r.claims = FALSE
  BY DEF Idle, Called, Phases
<1>2. call' = [call EXCEPT ![c] = r]
  BY DEF Begin
<1> HIDE DEF r
<1>. QED
  BY <1>1, <1>2, OneCallMoves DEF ApplyPhases, Terminals

(* delegate_task goes from one wait to the next.                           *)
LEMMA MoveKeeps ==
  ASSUME CallInv, RecordsOnlyEnd, NEW c \in Calls, NEW p \in {"sync", "post", "posted"},
         call[c].phase \in {"hello", "sync", "post"}, MoveTo(c, p),
         UNCHANGED <<flight, verified, remembered>>
  PROVE  CallInv'
<1> DEFINE r == [call[c] EXCEPT !.phase = p]
<1>1. /\ r \in Called /\ r.phase = p /\ r.job = call[c].job /\ r.got = call[c].got
      /\ r.surface = call[c].surface /\ r.claims = call[c].claims
  BY DEF CallInv, CallTypes, Called, Phases
<1>2. call' = [call EXCEPT ![c] = r]
  BY DEF MoveTo, CallInv, CallTypes
<1>3. /\ call[c].job \in Jobs /\ call[c].surface = "no_answer"
      /\ call[c].claims => call[c].got = "succeeded"
  BY DEF CallInv, CallTypes, SurfaceInv, ToldInv
<1> HIDE DEF r
<1>. QED
  BY <1>1, <1>2, <1>3, OneCallMoves DEF ApplyPhases, Terminals

(* The worker's answer is what its record says at that moment. *)
LEMMA ToldKeeps ==
  ASSUME CallInv, RecordsOnlyEnd, NEW c \in Calls, call[c].phase = "ask",
         WorkerInv, rec[call[c].job] \notin {"none", "evicted"},
         Told(c, rec[call[c].job],
              rec[call[c].job] = "succeeded" /\ artifact[call[c].job]),
         UNCHANGED <<flight, verified, remembered>>
  PROVE  CallInv'
<1> DEFINE j == call[c].job
           claims == rec[j] = "succeeded" /\ artifact[j]
           r == [call[c] EXCEPT !.phase = "told", !.got = rec[j], !.claims = claims,
                                !.tool = IF @ = "cancel" THEN "status" ELSE @]
<1>1. j \in Jobs /\ call[c].surface = "no_answer" /\ call[c] \in Called
  BY DEF CallInv, CallTypes, SurfaceInv
<1>2. rec[j] \in {"active"} \cup Terminals /\ claims \in BOOLEAN
  BY <1>1 DEF WorkerInv, WorkerTypes
<1> HIDE DEF claims
<1>3. /\ r \in Called /\ r.phase = "told" /\ r.job = j /\ r.got = rec[j]
      /\ r.surface = "no_answer" /\ r.claims = claims
  BY <1>1, <1>2 DEF Called, Phases
<1>4. call' = [call EXCEPT ![c] = r]
  BY DEF Told, CallInv, CallTypes, claims
<1>5. claims => rec[j] = "succeeded"
  BY DEF claims
<1> HIDE DEF r, j
<1>. QED
  BY <1>1, <1>2, <1>3, <1>4, <1>5, OneCallMoves DEF ApplyPhases, Terminals, j

(* What needs no download: success is remembered of verified branches      *)
(* only, and without a claim there is nothing to apply.                    *)
LEMMA SurfaceKeeps ==
  ASSUME CallInv, RecordsOnlyEnd, NEW c \in Calls, NEW answer \in {"applied", "none"},
         call[c].phase = "told", call[c].got # "active", Surface(c, answer),
         answer = "applied" => call[c].job \in remembered,
         answer = "none" => ~call[c].claims,
         UNCHANGED <<flight, verified, remembered>>
  PROVE  CallInv'
<1> DEFINE r == [call[c] EXCEPT !.phase = "idle", !.surface = answer]
<1>1. /\ r \in Called /\ r.phase = "idle" /\ r.job = call[c].job /\ r.got = call[c].got
      /\ r.surface = answer /\ r.claims = call[c].claims
  BY DEF CallInv, CallTypes, Called, Phases
<1>2. call' = [call EXCEPT ![c] = r]
  BY DEF Surface, Returned, CallInv, CallTypes
<1>3. /\ call[c].claims => call[c].got = "succeeded"
      /\ answer = "applied" => call[c].job \in verified /\ call[c].got = "succeeded"
  BY DEF CallInv, CallTypes, Called, FlightInv, ToldInv, ToldEnd, Terminals
<1> HIDE DEF r
<1>. QED
  BY <1>1, <1>2, <1>3, OneCallMoves DEF ApplyPhases, Terminals

(* What is tracked of other tasks, and where the operator moves a branch,  *)
(* is no news to the calls: success is remembered, not looked up.          *)
LEMMA OthersLeaveCalls ==
  ASSUME CallInv, UNCHANGED <<rec, call, flight, verified>>, remembered' \subseteq remembered
  PROVE  CallInv'
<1> USE DEF CallInv, CallTypes, Called
<1>1. CallTypes' /\ FlightInv' /\ SurfaceInv'
  BY DEF FlightInv, SurfaceInv
<1>2. ToldInv'
  BY DEF ToldInv, ToldEnd
<1>. QED
  BY <1>1, <1>2

-----------------------------------------------------------------------------
(* What a step of the delegating node does to the worker is a request.     *)
WorkerMoves == [WorkerNext \/ \E i \in Jobs : Submit(i) \/ CancelOnWorker(i)]_workerVars

(* A record forgets, and never remembers (delegation-registry.ts record).  *)
LEMMA RecordForgets ==
  ASSUME NEW j, Record(j)
  PROVE  remembered' \subseteq remembered /\ UNCHANGED flight
  BY DEF Record

(* A tool call that waits for the worker or the flight goes on.            *)
LEMMA CallStepRequests ==
  ASSUME CallInv, NEW c \in Calls, CallStep(c)
  PROVE  WorkerMoves
<1>1. call[c].phase # "idle" => call[c].job \in Jobs
  BY DEF CallInv, CallTypes
<1>2. CASE WorkerTakesJob(c)
  BY <1>1, <1>2 DEF WorkerTakesJob, WorkerMoves, At
<1>3. CASE WorkerSnapshot(c)
  BY <1>1, <1>3 DEF WorkerSnapshot, WorkerMoves, At
<1>4. CASE \/ ModelAdvice(c) \/ Synced(c) \/ Delegated(c) \/ DelegateFails(c)
           \/ StatusObserved(c) \/ AskFails(c) \/ JoinFlight(c) \/ Download(c) \/ Inspect(c)
           \/ (\E tip \in {"claimed", "other"} : Fetch(c, tip))
           \/ Reread(c) \/ Applied(c) \/ ApplyFails(c)
  <2>1. UNCHANGED workerVars
    BY <1>4 DEF ModelAdvice, Synced, Delegated, DelegateFails, StatusObserved, AskFails,
       JoinFlight, Download, Inspect, Fetch, Reread, Applied, ApplyFails, Settle
  <2>. QED
    BY <2>1 DEF WorkerMoves
<1>. QED
  BY <1>2, <1>3, <1>4 DEF CallStep

(* Every step of the system is one of the worker, a request to it, or      *)
(* leaves it alone.                                                        *)
LEMMA StepsOnWorker ==
  ASSUME CallInv, [Next]_vars
  PROVE  WorkerMoves
<1>1. CASE WorkerNext
  BY <1>1 DEF WorkerMoves
<1>2. ASSUME NEW c \in Calls, CallStep(c) PROVE WorkerMoves
  BY <1>2, CallStepRequests
<1>3. ASSUME NEW c \in Calls, NEW j \in Jobs,
             \/ \E m \in BOOLEAN : DelegateTask(c, j, m)
             \/ \E t \in {"status", "result", "cancel"} : AskAbout(c, t, j)
      PROVE WorkerMoves
  BY <1>3 DEF DelegateTask, AskAbout, WorkerMoves
<1>4. CASE OtherDelegated \/ \E j \in Jobs, tip \in {"none", "ancestor", "other"} : MoveBranch(j, tip)
  BY <1>4 DEF OtherDelegated, MoveBranch, WorkerMoves
<1>5. CASE UNCHANGED vars
  BY <1>5 DEF vars, WorkerMoves
<1>. QED
  BY <1>1, <1>2, <1>3, <1>4, <1>5 DEF Next

(* delegate_task, wherever it fails. *)
LEMMA DelegateKeeps ==
  ASSUME CallInv, RecordsOnlyEnd, NEW c \in Calls,
         \/ ModelAdvice(c) \/ Synced(c) \/ WorkerTakesJob(c) \/ Delegated(c)
         \/ DelegateFails(c)
  PROVE  CallInv'
<1> USE DEF ApplyPhases, At, registryVars
<1>1. CASE ModelAdvice(c)
  BY <1>1, MoveKeeps, AnswerKeeps DEF ModelAdvice
<1>2. CASE Synced(c)
  BY <1>2, MoveKeeps, AnswerKeeps DEF Synced
<1>3. CASE WorkerTakesJob(c)
  BY <1>3, MoveKeeps, AnswerKeeps DEF WorkerTakesJob
<1>4. CASE Delegated(c)
  <2>1. remembered' \subseteq remembered /\ UNCHANGED <<flight, verified>>
    BY <1>4, RecordForgets DEF Delegated
  <2>. QED
    BY <1>4, <2>1, AnswerKeeps DEF Delegated
<1>5. CASE DelegateFails(c)
  BY <1>5, MoveKeeps, AnswerKeeps DEF DelegateFails
<1>. QED
  BY <1>1, <1>2, <1>3, <1>4, <1>5

(* job_status, cancel_job, and job_result up to its surface. *)
LEMMA AskKeeps ==
  ASSUME CallInv, WorkerInv, RecordsOnlyEnd, NEW c \in Calls,
         WorkerSnapshot(c) \/ StatusObserved(c) \/ AskFails(c) \/ JoinFlight(c)
  PROVE  CallInv'
<1> USE DEF ApplyPhases, At, registryVars
<1>1. CASE WorkerSnapshot(c)
  <2>1. call[c].phase = "ask" /\ UNCHANGED <<flight, verified, remembered>>
    BY <1>1 DEF WorkerSnapshot
  <2>2. CASE rec[call[c].job] \in {"none", "evicted"}
    BY <1>1, <2>1, <2>2, AnswerKeeps DEF WorkerSnapshot
  <2>3. CASE rec[call[c].job] \notin {"none", "evicted"}
    BY <1>1, <2>1, <2>3, ToldKeeps DEF WorkerSnapshot
  <2>. QED
    BY <2>2, <2>3
<1>2. CASE StatusObserved(c) \/ AskFails(c)
  BY <1>2, AnswerKeeps DEF StatusObserved, AskFails
<1>3. CASE JoinFlight(c)
  <2>1. /\ call[c].phase = "told" /\ call[c].got # "active"
        /\ UNCHANGED <<rec, verified, remembered>>
    BY <1>3 DEF JoinFlight, workerVars
  <2>2. CASE flight[call[c].job] # NoCall
    BY <1>3, <2>1, <2>2, FlightBoarded DEF JoinFlight, MoveTo
  <2>3. CASE flight[call[c].job] = NoCall /\ call[c].job \in remembered
    BY <1>3, <2>1, <2>3, SurfaceKeeps DEF JoinFlight
  <2>4. CASE flight[call[c].job] = NoCall /\ call[c].job \notin remembered /\ ~call[c].claims
    BY <1>3, <2>1, <2>4, SurfaceKeeps DEF JoinFlight
  <2>5. CASE flight[call[c].job] = NoCall /\ call[c].job \notin remembered /\ call[c].claims
    BY <1>3, <2>1, <2>5, FlightBoarded DEF JoinFlight, MoveTo
  <2>. QED
    BY <2>2, <2>3, <2>4, <2>5
<1>. QED
  BY <1>1, <1>2, <1>3

(* applyWriteArtifact, from the download to the answer. *)
LEMMA ApplyKeeps ==
  ASSUME CallInv, NEW c \in Calls,
         \/ Download(c) \/ Inspect(c) \/ (\E tip \in {"claimed", "other"} : Fetch(c, tip))
         \/ Reread(c) \/ Applied(c) \/ ApplyFails(c)
  PROVE  CallInv'
<1> USE DEF ApplyPhases, At, registryVars, workerVars
<1>1. CASE Download(c)
  BY <1>1, LeaderMoves DEF Download, MoveTo
<1>2. CASE Inspect(c)
  BY <1>2, LeaderMoves DEF Inspect, MoveTo
<1>3. ASSUME NEW tip \in {"claimed", "other"}, Fetch(c, tip) PROVE CallInv'
  BY <1>3, LeaderMoves DEF Fetch, MoveTo
<1>4. CASE Reread(c)
  BY <1>4, LeaderMoves DEF Reread, MoveTo
<1>5. CASE Applied(c)
  <2>1. call[c].job \in verified /\ remembered \subseteq verified
    BY <1>5 DEF Applied, CallInv, CallTypes, FlightInv
  <2>. QED
    BY <1>5, <2>1, FlightSettles DEF Applied
<1>6. CASE ApplyFails(c)
  BY <1>6, FlightSettles DEF ApplyFails, CallInv, CallTypes
<1>. QED
  BY <1>1, <1>2, <1>3, <1>4, <1>5, <1>6

-----------------------------------------------------------------------------
SystemInv == WorkerInv /\ CallInv

(* Nothing is asked yet. *)
LEMMA SystemStarts == Init => SystemInv
<1> SUFFICES ASSUME Init PROVE SystemInv
  OBVIOUS
<1>1. WorkerInv
  BY WorkerStarts DEF Init
<1>2. Idle \in Called /\ Idle.phase = "idle" /\ Idle.surface = "no_answer" /\ ~Idle.claims
  BY DEF Idle, Called, Phases
<1>3. /\ \A c \in Calls : call[c] = Idle
      /\ call = [c \in Calls |-> Idle] /\ flight = [j \in Jobs |-> NoCall]
      /\ verified = {} /\ remembered = {}
  BY DEF Init
<1>4. CallTypes
  BY <1>2, <1>3 DEF CallTypes
<1>5. FlightInv
  BY <1>2, <1>3 DEF FlightInv, ApplyPhases
<1>6. ToldInv /\ SurfaceInv
  BY <1>2, <1>3 DEF ToldInv, ToldEnd, SurfaceInv
<1>. QED
  BY <1>1, <1>4, <1>5, <1>6 DEF SystemInv, CallInv

(* The two nodes together keep both invariants. *)
LEMMA SystemKeeps == SystemInv /\ [Next]_vars => SystemInv'
<1> SUFFICES ASSUME WorkerInv, CallInv, [Next]_vars PROVE WorkerInv' /\ CallInv'
  BY DEF SystemInv
<1>1. WorkerMoves
  BY StepsOnWorker
<1>2. WorkerInv'
  BY <1>1, WorkerKeeps DEF WorkerMoves
<1>3. RecordsOnlyEnd
  BY <1>1, RecordsEnd DEF WorkerMoves, RecordsOnlyEnd
<1>4. CallInv'
  <2>1. CASE WorkerNext /\ UNCHANGED dvars
    BY <2>1, <1>3, WorkerLeavesCalls
  <2>2. ASSUME NEW c \in Calls, CallStep(c) PROVE CallInv'
    BY <2>2, <1>3, DelegateKeeps, AskKeeps, ApplyKeeps DEF CallStep
  <2>3. ASSUME NEW c \in Calls, NEW j \in Jobs, NEW m \in BOOLEAN, DelegateTask(c, j, m)
        PROVE CallInv'
    BY <2>3, <1>3, BeginKeeps DEF DelegateTask, At, registryVars
  <2>4. ASSUME NEW c \in Calls, NEW j \in Jobs, NEW t \in {"status", "result", "cancel"},
               AskAbout(c, t, j)
        PROVE CallInv'
    BY <2>4, <1>3, BeginKeeps DEF AskAbout, At, registryVars
  <2>5. CASE OtherDelegated
    BY <2>5, OthersLeaveCalls, RecordForgets DEF OtherDelegated, workerVars
  <2>6. ASSUME NEW j \in Jobs, NEW tip \in {"none", "ancestor", "other"}, MoveBranch(j, tip)
        PROVE CallInv'
    BY <2>6, OthersLeaveCalls DEF MoveBranch, workerVars, registryVars
  <2>7. CASE UNCHANGED vars
    BY <2>7, <1>3, WorkerLeavesCalls DEF vars
  <2>. QED
    BY <2>1, <2>2, <2>3, <2>4, <2>5, <2>6, <2>7 DEF Next
<1>. QED
  BY <1>2, <1>4

(* What the invariant is for. *)
LEMMA InvariantVerifies == CallInv => AppliedIsVerified
<1> SUFFICES ASSUME CallInv PROVE AppliedIsVerified
  OBVIOUS
<1>1. OneApplyAtATime
  BY DEF CallInv, CallTypes, FlightInv, OneApplyAtATime, Applying, At, ApplyPhases
<1>. QED
  BY <1>1 DEF CallInv, CallTypes, SurfaceInv, AppliedIsVerified

(* The registry's keys as a sequence (a Map keeps the order of insertion). *)
LEMMA RemoveAtOf ==
  ASSUME NEW S, NEW s \in Seq(S), NEW i \in 1..Len(s)
  PROVE  /\ RemoveAt(s, i) \in Seq(S) /\ Len(RemoveAt(s, i)) = Len(s) - 1
         /\ \A n \in 1..(Len(s) - 1) : RemoveAt(s, i)[n] = IF n < i THEN s[n] ELSE s[n + 1]
<1> DEFINE a == SubSeq(s, 1, i - 1)
           b == SubSeq(s, i + 1, Len(s))
<1>1. a \in Seq(S) /\ Len(a) = i - 1 /\ \A n \in 1..(i - 1) : a[n] = s[n]
  BY SubSeqProperties
<1>2. b \in Seq(S) /\ Len(b) = Len(s) - i /\ \A n \in 1..(Len(s) - i) : b[n] = s[i + n]
  BY SubSeqProperties
<1>3. RemoveAt(s, i) = a \o b
  BY DEF RemoveAt
<1> HIDE DEF a, b
<1>4. /\ a \o b \in Seq(S) /\ Len(a \o b) = Len(a) + Len(b)
      /\ \A n \in 1..(Len(a) + Len(b)) : (a \o b)[n] = IF n <= Len(a) THEN a[n] ELSE b[n - Len(a)]
  BY <1>1, <1>2, ConcatProperties
<1>5. Len(a) + Len(b) = Len(s) - 1
  BY <1>1, <1>2
<1>6. ASSUME NEW n \in 1..(Len(s) - 1)
      PROVE  (a \o b)[n] = IF n < i THEN s[n] ELSE s[n + 1]
  <2>1. (a \o b)[n] = IF n <= Len(a) THEN a[n] ELSE b[n - Len(a)]
    BY <1>4, <1>5
  <2>2. CASE n < i
    BY <1>1, <2>1, <2>2
  <2>3. CASE ~(n < i)
    <3>1. n - Len(a) \in 1..(Len(s) - i) /\ i + (n - Len(a)) = n + 1
      BY <1>1, <2>3
    <3>2. b[n - Len(a)] = s[n + 1]
      BY <1>2, <3>1
    <3>. QED
      BY <1>1, <2>1, <2>3, <3>2
  <2>. QED
    BY <2>2, <2>3
<1>. QED
  BY <1>3, <1>4, <1>5, <1>6

OnceIn(s) == \A i, n \in DOMAIN s : s[i] = s[n] => i = n

LEMMA WithoutOf ==
  ASSUME NEW S, entries \in Seq(S), OnceIn(entries), NEW k
  PROVE  Without(k) \in Seq(S \ {k}) /\ OnceIn(Without(k))
<1> DEFINE at == {i \in DOMAIN entries : entries[i] = k}
<1>1. CASE at = {}
  <2>1. Without(k) = entries
    BY <1>1 DEF Without
  <2>2. \A i \in 1..Len(entries) : entries[i] \in S \ {k}
    BY <1>1
  <2>3. entries \in Seq(S \ {k})
    BY <2>2
  <2>. QED
    BY <2>1, <2>3 DEF OnceIn
<1>2. CASE at # {}
  <2> DEFINE i == CHOOSE i \in at : TRUE
             s == RemoveAt(entries, i)
  <2>1. Without(k) = s
    BY <1>2 DEF Without
  <2>2. i \in 1..Len(entries) /\ entries[i] = k
    BY <1>2
  <2> HIDE DEF i, at
  <2>3. /\ s \in Seq(S) /\ Len(s) = Len(entries) - 1
        /\ \A n \in 1..(Len(entries) - 1) : s[n] = IF n < i THEN entries[n] ELSE entries[n + 1]
    BY <2>2, RemoveAtOf
  <2> HIDE DEF s
  <2>4. \A n \in 1..Len(s) : \E m \in 1..Len(entries) :
          s[n] = entries[m] /\ m # i /\ m = IF n < i THEN n ELSE n + 1
    BY <2>2, <2>3
  <2>5. \A m \in 1..Len(entries) : entries[m] = k => m = i
    BY <2>2 DEF OnceIn
  <2>6. ASSUME NEW n \in 1..Len(s)
        PROVE  s[n] \in S \ {k}
    <3>1. PICK m \in 1..Len(entries) : s[n] = entries[m] /\ m # i
      BY <2>4
    <3>2. entries[m] \in S
      OBVIOUS
    <3>3. entries[m] # k
      BY <2>5, <3>1
    <3>. QED
      BY <3>1, <3>2, <3>3
  <2>7. s \in Seq(S \ {k})
    BY <2>3, <2>6
  <2>8. ASSUME NEW n \in DOMAIN s, NEW m \in DOMAIN s, s[n] = s[m]
        PROVE  n = m
    <3>1. n \in 1..Len(s) /\ m \in 1..Len(s)
      BY <2>3
    <3>2. PICK x \in 1..Len(entries) : s[n] = entries[x] /\ x = IF n < i THEN n ELSE n + 1
      BY <2>4, <3>1
    <3>3. PICK y \in 1..Len(entries) : s[m] = entries[y] /\ y = IF m < i THEN m ELSE m + 1
      BY <2>4, <3>1
    <3>5. entries[x] = entries[y]
      BY <2>8, <3>2, <3>3
    <3>6. DOMAIN entries = 1..Len(entries)
      OBVIOUS
    <3>4. x = y
      BY <3>5, <3>6 DEF OnceIn
    <3>. QED
      BY <2>2, <3>1, <3>2, <3>3, <3>4
  <2>. QED
    BY <2>1, <2>7, <2>8 DEF OnceIn
<1>. QED
  BY <1>1, <1>2

LEMMA AppendOnce ==
  ASSUME NEW S, NEW k, NEW s \in Seq(S \ {k}), OnceIn(s)
  PROVE  Append(s, k) \in Seq(S \cup {k}) /\ OnceIn(Append(s, k))
<1>1. /\ Len(Append(s, k)) = Len(s) + 1
      /\ \A n \in 1..Len(s) : Append(s, k)[n] = s[n] /\ s[n] \in S \ {k}
      /\ Append(s, k)[Len(s) + 1] = k
      /\ DOMAIN Append(s, k) = 1..(Len(s) + 1) /\ DOMAIN s = 1..Len(s)
  OBVIOUS
<1>2. s \in Seq(S \cup {k})
  BY <1>1
<1>3. Append(s, k) \in Seq(S \cup {k})
  BY <1>2
<1>4. ASSUME NEW n \in 1..(Len(s) + 1), NEW m \in 1..(Len(s) + 1),
             Append(s, k)[n] = Append(s, k)[m]
      PROVE  n = m
  <2>1. CASE n \in 1..Len(s) /\ m \in 1..Len(s)
    BY <1>1, <1>4, <2>1 DEF OnceIn
  <2>2. CASE n = Len(s) + 1 \/ m = Len(s) + 1
    BY <1>1, <1>4, <2>2
  <2>. QED
    BY <2>1, <2>2
<1>. QED
  BY <1>1, <1>3, <1>4 DEF OnceIn

(* Without its n oldest, a sequence has no other keys. *)
LEMMA NewestOf ==
  ASSUME NEW S, NEW s \in Seq(S), OnceIn(s), NEW n \in Nat, n <= Len(s)
  PROVE  LET rest == SubSeq(s, n + 1, Len(s))
         IN rest \in Seq(S) /\ OnceIn(rest) /\ Len(rest) = Len(s) - n
<1> DEFINE rest == SubSeq(s, n + 1, Len(s))
           m == Len(s)
<1>1. DOMAIN s = 1..m /\ m \in Nat /\ n <= m
  OBVIOUS
<1>2. \A i \in (n + 1)..m : s[i] \in S
  BY <1>1
<1>3. /\ rest \in Seq(S)
      /\ Len(rest) = IF n + 1 <= m THEN m - (n + 1) + 1 ELSE 0
      /\ \A i \in 1..(m - (n + 1) + 1) : rest[i] = s[(n + 1) + i - 1]
  BY <1>1, <1>2, SubSeqProperties
<1> HIDE DEF rest, m
<1>4. Len(rest) = m - n /\ m - (n + 1) + 1 = m - n
  BY <1>1, <1>3
<1>5. ASSUME NEW i \in 1..(m - n) PROVE rest[i] = s[n + i] /\ n + i \in 1..m
  <2>1. (n + 1) + i - 1 = n + i
    BY <1>1
  <2>. QED
    BY <1>1, <1>3, <1>4, <2>1
<1>6. OnceIn(rest)
  <2>1. DOMAIN rest = 1..(m - n)
    BY <1>3, <1>4
  <2>2. ASSUME NEW i \in 1..(m - n), NEW k \in 1..(m - n), rest[i] = rest[k]
        PROVE  i = k
    <3>1. s[n + i] = s[n + k] /\ n + i \in DOMAIN s /\ n + k \in DOMAIN s
      BY <1>1, <1>5, <2>2
    <3>2. n + i = n + k
      BY <3>1 DEF OnceIn
    <3>. QED
      BY <1>1, <3>2
  <2>. QED
    BY <2>1, <2>2 DEF OnceIn
<1>. QED
  BY <1>3, <1>4, <1>6 DEF rest, m

(* record() keeps the keys distinct and within the cap, and brings in no   *)
(* other key than the one it records.                                      *)
LEMMA RecordedOf ==
  ASSUME NEW T, entries \in Seq(T), OnceIn(entries), NEW k
  PROVE  /\ Recorded(k) \in Seq(T \cup {k}) /\ OnceIn(Recorded(k))
         /\ Len(Recorded(k)) <= MaxTracked
<1> DEFINE moved == Append(Without(k), k)
           over == IF Len(moved) > MaxTracked THEN Len(moved) - MaxTracked ELSE 0
<1>1. Without(k) \in Seq(T \ {k}) /\ OnceIn(Without(k))
  BY WithoutOf
<1>2. moved \in Seq(T \cup {k}) /\ OnceIn(moved)
  BY <1>1, AppendOnce
<1>3. Recorded(k) = SubSeq(moved, over + 1, Len(moved))
  BY DEF Recorded
<1> HIDE DEF moved
<1>4. Len(moved) \in Nat /\ MaxTracked \in Nat
  BY <1>2, TrackedAssumption
<1>5. over \in Nat /\ over <= Len(moved) /\ Len(moved) - over <= MaxTracked
  BY <1>4
<1> HIDE DEF over
<1>6. LET rest == SubSeq(moved, over + 1, Len(moved))
      IN rest \in Seq(T \cup {k}) /\ OnceIn(rest) /\ Len(rest) = Len(moved) - over
  BY <1>2, <1>5, NewestOf
<1>. QED
  BY <1>3, <1>5, <1>6

(* Who is tracked was taken by the worker, and what is last known of an    *)
(* end is the job's own; a delegation about to be recorded was taken.      *)
Statuses == {"none", "active"} \cup Terminals
RouteTypes ==
  /\ entries \in Seq(Jobs \cup {OtherJob}) /\ OnceIn(entries) /\ Len(entries) <= MaxTracked
  /\ lastStatus \in [Jobs -> Statuses]
TrackedWasTaken ==
  \A j \in ToSet(entries) \cap Jobs :
    /\ rec[j] # "none"
    /\ lastStatus[j] \in Terminals => rec[j] \in {lastStatus[j], "evicted"}
PostedWasTaken == \A c \in Calls : call[c].phase = "posted" => rec[call[c].job] # "none"
RouteInv ==
  RouteTypes /\ TrackedWasTaken /\ PostedWasTaken /\ remembered \subseteq ToSet(entries)

(* A job that was taken has a record for good, retained or evicted. *)
RecordsStay == \A j \in Jobs : rec[j] # "none" => rec'[j] # "none"

LEMMA TakenStays ==
  ASSUME WorkerInv, WorkerMoves
  PROVE  RecordsStay
<1> SUFFICES ASSUME NEW j \in Jobs, rec[j] # "none" PROVE rec'[j] # "none"
  BY DEF RecordsStay
<1>1. ASSUME NEW i \in Jobs, WorkerStep(i) \/ Evict(i) PROVE rec'[j] # "none"
  BY <1>1 DEF WorkerStep, WorkEnds, DeclareDone, EnterLock, Commit, MintRef, CreateBundle,
     DropRef, LeaveLock, Register, Succeed, FileRemoved, Evict, FinalizeFails, Finish, GoOn,
     WorkerInv, WorkerTypes
<1>2. ASSUME NEW i \in Jobs, Submit(i) \/ CancelOnWorker(i) PROVE rec'[j] # "none"
  BY <1>2 DEF Submit, CancelOnWorker, WorkerInv, WorkerTypes
<1>3. CASE OthersLock \/ StopManager \/ ManagerStopped \/ Shutdown \/ Crash \/ Restart
  BY <1>3 DEF OthersLock, StopManager, ManagerStopped, Shutdown, Crash, Dies, Restart
<1>4. CASE UNCHANGED workerVars
  BY <1>4 DEF workerVars
<1>. QED
  BY <1>1, <1>2, <1>3, <1>4 DEF WorkerNext, WorkerMoves

(* record() of a job that was taken, or of another task. *)
LEMMA RecordKeeps ==
  ASSUME RouteInv, UNCHANGED rec, NEW k \in Jobs \cup {OtherJob}, Record(k),
         k \in Jobs => rec[k] # "none"
  PROVE  RouteTypes' /\ TrackedWasTaken' /\ remembered' \subseteq ToSet(entries')
<1> DEFINE s == Recorded(k)
           T == ToSet(entries)
<1>1. entries \in Seq(Jobs \cup {OtherJob}) /\ OnceIn(entries) /\ lastStatus \in [Jobs -> Statuses]
  BY DEF RouteInv, RouteTypes
<1>2. s \in Seq((Jobs \cup {OtherJob}) \cup {k}) /\ OnceIn(s) /\ Len(s) <= MaxTracked
  BY <1>1, RecordedOf
<1>3. entries \in Seq(T)
  BY <1>1 DEF ToSet
<1>4. s \in Seq(T \cup {k})
  BY <1>1, <1>3, RecordedOf
<1>5. /\ entries' = s
      /\ lastStatus' = [j \in Jobs |-> IF j = k THEN "active"
                                       ELSE IF j \in ToSet(s) THEN lastStatus[j] ELSE "none"]
      /\ remembered' \subseteq ToSet(s)
  BY DEF Record
<1> HIDE DEF s
<1>6. ToSet(s) \subseteq T \cup {k}
  BY <1>4 DEF ToSet
<1>7. RouteTypes'
  <2>1. (Jobs \cup {OtherJob}) \cup {k} = Jobs \cup {OtherJob}
    OBVIOUS
  <2>2. OnceIn(entries')
    BY <1>2, <1>5
  <2>3. lastStatus' \in [Jobs -> Statuses]
    BY <1>1, <1>5 DEF Statuses
  <2>. QED
    BY <1>2, <1>5, <2>1, <2>2, <2>3 DEF RouteTypes, OnceIn
<1>8. ASSUME NEW j \in ToSet(s) \cap Jobs
      PROVE  /\ rec[j] # "none"
             /\ lastStatus'[j] \in Terminals => rec[j] \in {lastStatus'[j], "evicted"}
  <2>1. CASE j = k
    BY <1>5, <2>1 DEF Terminals
  <2>2. CASE j # k
    <3>1. j \in T \cap Jobs /\ lastStatus'[j] = lastStatus[j]
      BY <1>5, <1>6, <2>2
    <3>. QED
      BY <3>1 DEF RouteInv, TrackedWasTaken
  <2>. QED
    BY <2>1, <2>2
<1>9. TrackedWasTaken'
  BY <1>5, <1>8 DEF TrackedWasTaken
<1>. QED
  BY <1>5, <1>7, <1>9

(* What changes neither the keys nor what is known of them. *)
LEMMA RegistryKept ==
  ASSUME RouteInv, RecordsStay, RecordsOnlyEnd, UNCHANGED <<entries, lastStatus>>
  PROVE  RouteTypes' /\ TrackedWasTaken'
<1>1. RouteTypes'
  BY DEF RouteInv, RouteTypes, OnceIn
<1>2. TrackedWasTaken'
  BY DEF RouteInv, TrackedWasTaken, RecordsStay, RecordsOnlyEnd
<1>. QED
  BY <1>1, <1>2

(* What a call saw of a job is noted, if the job is tracked.               *)
LEMMA ObserveKeeps ==
  ASSUME RouteInv, CallInv, UNCHANGED <<rec, entries>>, NEW c \in Calls, call[c].phase = "told",
         ObserveStatus(call[c].job, call[c].got)
  PROVE  RouteTypes' /\ TrackedWasTaken'
<1> DEFINE j == call[c].job
           got == call[c].got
<1>1. j \in Jobs /\ got \in Statuses /\ (got \in Terminals => rec[j] \in {got, "evicted"})
  BY DEF CallInv, CallTypes, Called, ToldInv, ToldEnd, Statuses
<1>2. lastStatus' \in {lastStatus, [lastStatus EXCEPT ![j] = got]}
  BY DEF ObserveStatus
<1> HIDE DEF j, got
<1>3. lastStatus \in [Jobs -> Statuses]
  BY DEF RouteInv, RouteTypes
<1>4. RouteTypes'
  BY <1>1, <1>2, <1>3 DEF RouteInv, RouteTypes, OnceIn
<1>5. \A i \in Jobs : lastStatus'[i] = lastStatus[i] \/ (i = j /\ lastStatus'[i] = got)
  BY <1>1, <1>2, <1>3
<1>6. TrackedWasTaken'
  BY <1>1, <1>5 DEF RouteInv, TrackedWasTaken
<1>. QED
  BY <1>4, <1>6

(* One call moves; if it goes to wait for the recording, it was taken.     *)
LEMMA PostedByOne ==
  ASSUME CallInv, PostedWasTaken, RecordsStay, NEW c \in Calls, NEW r,
         call' = [call EXCEPT ![c] = r], r.phase = "posted" => rec'[r.job] # "none"
  PROVE  PostedWasTaken'
<1>1. \A d \in Calls : call'[d] = IF d = c THEN r ELSE call[d]
  BY DEF CallInv, CallTypes
<1>2. \A d \in Calls : call[d].phase = "posted" => rec'[call[d].job] # "none"
  BY DEF CallInv, CallTypes, PostedWasTaken, RecordsStay
<1>. QED
  BY <1>1, <1>2 DEF PostedWasTaken

LEMMA PostedByMove ==
  ASSUME CallInv, PostedWasTaken, RecordsStay, NEW c \in Calls, NEW p \in Phases,
         MoveTo(c, p), p = "posted" => rec'[call[c].job] # "none"
  PROVE  PostedWasTaken'
<1> DEFINE r == [call[c] EXCEPT !.phase = p]
<1>1. r.phase = p /\ r.job = call[c].job
  BY DEF CallInv, CallTypes, Called
<1>2. call' = [call EXCEPT ![c] = r]
  BY DEF MoveTo, CallInv, CallTypes
<1> HIDE DEF r
<1>. QED
  BY <1>1, <1>2, PostedByOne

LEMMA PostedByAnswer ==
  ASSUME CallInv, PostedWasTaken, RecordsStay, NEW c \in Calls, Answer(c)
  PROVE  PostedWasTaken'
BY PostedByOne DEF Answer, Idle

LEMMA PostedKeeps ==
  ASSUME WorkerInv, CallInv, PostedWasTaken, RecordsStay, NEW c \in Calls, CallStep(c)
  PROVE  PostedWasTaken'
<1> USE DEF Phases
<1>1. CASE \/ ModelAdvice(c) \/ Synced(c) \/ Delegated(c) \/ DelegateFails(c)
           \/ StatusObserved(c) \/ AskFails(c)
  <2>1. MoveTo(c, "sync") \/ MoveTo(c, "post") \/ Answer(c)
    BY <1>1 DEF ModelAdvice, Synced, Delegated, DelegateFails, StatusObserved, AskFails
  <2>. QED
    BY <2>1, PostedByMove, PostedByAnswer
<1>2. CASE WorkerTakesJob(c)
  <2>1. CASE Answer(c)
    BY <2>1, PostedByAnswer
  <2>2. CASE Submit(call[c].job) /\ MoveTo(c, "posted")
    <3>1. rec[call[c].job] = "none" /\ rec' = [rec EXCEPT ![call[c].job] = "active"]
      BY <2>2 DEF Submit
    <3>2. CASE call[c].phase = "idle"
      BY <1>2, <3>2 DEF WorkerTakesJob, At
    <3>3. CASE call[c].phase # "idle"
      <4>1. call[c].job \in Jobs
        BY <3>3 DEF CallInv, CallTypes
      <4>2. rec'[call[c].job] # "none"
        BY <3>1, <4>1 DEF WorkerInv, WorkerTypes
      <4>. QED
        BY <2>2, <4>2, PostedByMove
    <3>. QED
      BY <3>2, <3>3
  <2>. QED
    BY <1>2, <2>1, <2>2 DEF WorkerTakesJob
<1>3. CASE WorkerSnapshot(c)
  <2> DEFINE j == call[c].job
             claims == rec[j] = "succeeded" /\ artifact[j]
             r == [call[c] EXCEPT !.phase = "told", !.got = rec[j], !.claims = claims,
                                  !.tool = IF @ = "cancel" THEN "status" ELSE @]
  <2>1. r.phase = "told"
    BY DEF CallInv, CallTypes, Called
  <2>2. Answer(c) \/ call' = [call EXCEPT ![c] = r]
    BY <1>3 DEF WorkerSnapshot, Told, CallInv, CallTypes
  <2> HIDE DEF r
  <2>. QED
    BY <2>1, <2>2, PostedByAnswer, PostedByOne
<1>4. CASE JoinFlight(c)
  <2>1. \/ MoveTo(c, "joined") \/ MoveTo(c, "download")
        \/ Surface(c, "applied") \/ Surface(c, "none")
    BY <1>4 DEF JoinFlight
  <2>2. ASSUME NEW a \in {"applied", "none"}, Surface(c, a) PROVE PostedWasTaken'
    <3> DEFINE r == [call[c] EXCEPT !.phase = "idle", !.surface = a]
    <3>1. r.phase = "idle"
      BY DEF CallInv, CallTypes, Called
    <3>2. call' = [call EXCEPT ![c] = r]
      BY <2>2 DEF Surface, Returned, CallInv, CallTypes
    <3> HIDE DEF r
    <3>. QED
      BY <3>1, <3>2, PostedByOne
  <2>. QED
    BY <2>1, <2>2, PostedByMove
<1>5. CASE Download(c) \/ Inspect(c) \/ (\E tip \in {"claimed", "other"} : Fetch(c, tip))
           \/ Reread(c)
  <2>1. \E p \in ApplyPhases : MoveTo(c, p)
    BY <1>5 DEF Download, Inspect, Fetch, Reread, ApplyPhases
  <2>. QED
    BY <2>1, PostedByMove DEF ApplyPhases
<1>6. CASE Applied(c) \/ ApplyFails(c)
  <2>1. PICK a \in {"applied", "failed"} : Settle(c, a)
    BY <1>6 DEF Applied, ApplyFails
  <2>2. \A d \in Calls : call'[d] \in {call[d], Returned(call[d], a)}
    BY <2>1 DEF Settle
  <2>3. \A d \in Calls : Returned(call[d], a).phase = "idle"
    BY DEF Returned, Idle, CallInv, CallTypes, Called
  <2>4. \A d \in Calls : call'[d].phase = "posted" => call'[d] = call[d]
    BY <2>2, <2>3
  <2>5. \A d \in Calls : call[d].phase = "posted" => rec'[call[d].job] # "none"
    BY DEF CallInv, CallTypes, PostedWasTaken, RecordsStay
  <2>. QED
    BY <2>4, <2>5 DEF PostedWasTaken
<1>. QED
  BY <1>1, <1>2, <1>3, <1>4, <1>5, <1>6 DEF CallStep

-----------------------------------------------------------------------------
RoutedInv == SystemInv /\ RouteInv

(* No one is tracked yet. *)
LEMMA RoutesStart == Init => RouteInv
<1> SUFFICES ASSUME Init PROVE RouteInv
  OBVIOUS
<1>1. entries = <<>> /\ lastStatus = [j \in Jobs |-> "none"] /\ remembered = {}
      /\ \A c \in Calls : call[c].phase = "idle"
  BY DEF Init, Idle
<1>2. entries \in Seq(Jobs \cup {OtherJob}) /\ OnceIn(entries) /\ Len(entries) <= MaxTracked
  BY <1>1, TrackedAssumption DEF OnceIn
<1>3. ToSet(entries) = {}
  BY <1>1 DEF ToSet
<1>. QED
  BY <1>1, <1>2, <1>3 DEF RouteInv, RouteTypes, TrackedWasTaken, PostedWasTaken, Statuses

(* A tool call's step, at the registry. *)
LEMMA RegistrySteps ==
  ASSUME CallInv, RouteInv, RecordsStay, RecordsOnlyEnd, NEW c \in Calls, CallStep(c)
  PROVE  RouteTypes' /\ TrackedWasTaken' /\ remembered' \subseteq ToSet(entries')
<1>1. remembered \subseteq ToSet(entries)
  BY DEF RouteInv
<1>2. CASE Delegated(c)
  <2>1. call[c].phase = "posted" /\ Record(call[c].job) /\ UNCHANGED rec
    BY <1>2 DEF Delegated, At, workerVars
  <2>2. call[c].job \in Jobs /\ rec[call[c].job] # "none"
    BY <2>1 DEF CallInv, CallTypes, RouteInv, PostedWasTaken
  <2>. QED
    BY <2>1, <2>2, RecordKeeps
<1>3. CASE StatusObserved(c) \/ JoinFlight(c)
  <2>1. /\ call[c].phase = "told" /\ ObserveStatus(call[c].job, call[c].got)
        /\ UNCHANGED <<rec, entries, remembered>>
    BY <1>3 DEF StatusObserved, JoinFlight, At, workerVars
  <2>. QED
    BY <1>1, <2>1, ObserveKeeps
<1>4. CASE Applied(c)
  <2>1. UNCHANGED <<entries, lastStatus>>
        /\ remembered' = remembered \cup ({call[c].job} \cap ToSet(entries))
    BY <1>4 DEF Applied, Settle
  <2>. QED
    BY <1>1, <2>1, RegistryKept
<1>5. CASE \/ ModelAdvice(c) \/ Synced(c) \/ WorkerTakesJob(c) \/ DelegateFails(c)
           \/ WorkerSnapshot(c) \/ AskFails(c) \/ Download(c) \/ Inspect(c)
           \/ (\E tip \in {"claimed", "other"} : Fetch(c, tip)) \/ Reread(c) \/ ApplyFails(c)
  <2>1. UNCHANGED <<entries, lastStatus, remembered>>
    BY <1>5 DEF ModelAdvice, Synced, WorkerTakesJob, DelegateFails, WorkerSnapshot, AskFails,
       Download, Inspect, Fetch, Reread, ApplyFails, Settle, registryVars
  <2>. QED
    BY <1>1, <2>1, RegistryKept
<1>. QED
  BY <1>2, <1>3, <1>4, <1>5 DEF CallStep

(* The registry's own invariant, under the two nodes' steps. *)
LEMMA RoutesKeep == RoutedInv /\ [Next]_vars => RoutedInv'
<1> SUFFICES ASSUME WorkerInv, CallInv, RouteInv, [Next]_vars
             PROVE  SystemInv' /\ RouteInv'
  BY DEF RoutedInv, SystemInv
<1>1. SystemInv'
  BY SystemKeeps DEF SystemInv
<1>2. WorkerMoves
  BY StepsOnWorker
<1>3. RecordsStay
  BY <1>2, TakenStays
<1>4. RecordsOnlyEnd
  BY <1>2, RecordsEnd DEF WorkerMoves, RecordsOnlyEnd
<1>5. PostedWasTaken /\ remembered \subseteq ToSet(entries)
  BY DEF RouteInv
<1>6. UNCHANGED <<call, entries, lastStatus, remembered>> => RouteInv'
  <2> SUFFICES ASSUME UNCHANGED <<call, entries, lastStatus, remembered>> PROVE RouteInv'
    OBVIOUS
  <2>1. RouteTypes' /\ TrackedWasTaken'
    BY <1>3, <1>4, RegistryKept
  <2>2. PostedWasTaken'
    BY <1>3, <1>5 DEF PostedWasTaken, RecordsStay, CallInv, CallTypes
  <2>. QED
    BY <1>5, <2>1, <2>2 DEF RouteInv
<1>7. ASSUME NEW c \in Calls, CallStep(c) PROVE RouteInv'
  BY <1>3, <1>4, <1>5, <1>7, RegistrySteps, PostedKeeps DEF RouteInv
<1>8. ASSUME NEW c \in Calls, NEW j \in Jobs, NEW tool \in {"delegate", "status", "result", "cancel"},
             NEW p \in {"hello", "sync", "ask"}, Begin(c, tool, j, p),
             UNCHANGED <<entries, lastStatus, remembered>>
      PROVE  RouteInv'
  <2> DEFINE r == [Idle EXCEPT !.tool = tool, !.job = j, !.phase = p]
  <2>1. r.phase # "posted" /\ call' = [call EXCEPT ![c] = r]
    BY <1>8 DEF Begin, Idle
  <2> HIDE DEF r
  <2>2. PostedWasTaken'
    BY <1>3, <1>5, <2>1, PostedByOne
  <2>3. RouteTypes' /\ TrackedWasTaken'
    BY <1>3, <1>4, <1>8, RegistryKept
  <2>. QED
    BY <1>5, <1>8, <2>2, <2>3 DEF RouteInv
<1>9. CASE OtherDelegated
  <2>1. Record(OtherJob) /\ UNCHANGED <<rec, call>>
    BY <1>9 DEF OtherDelegated, workerVars
  <2>2. RouteTypes' /\ TrackedWasTaken' /\ remembered' \subseteq ToSet(entries')
    BY <2>1, RecordKeeps, OthersAssumption
  <2>3. PostedWasTaken'
    BY <1>5, <2>1 DEF PostedWasTaken
  <2>. QED
    BY <1>1, <2>2, <2>3 DEF RouteInv
<1>10. CASE WorkerNext /\ UNCHANGED dvars
  BY <1>1, <1>6, <1>10 DEF dvars, registryVars
<1>11. ASSUME NEW c \in Calls, NEW j \in Jobs, NEW m \in BOOLEAN, DelegateTask(c, j, m)
       PROVE  RouteInv'
  <2>1. /\ \E p \in {"hello", "sync"} : Begin(c, "delegate", j, p)
        /\ UNCHANGED <<entries, lastStatus, remembered>>
    BY <1>11 DEF DelegateTask, registryVars
  <2>. QED
    BY <1>8, <2>1
<1>12. ASSUME NEW c \in Calls, NEW j \in Jobs, NEW t \in {"status", "result", "cancel"},
              AskAbout(c, t, j)
       PROVE  RouteInv'
  <2>1. Begin(c, t, j, "ask") /\ UNCHANGED <<entries, lastStatus, remembered>>
    BY <1>12 DEF AskAbout, registryVars
  <2>. QED
    BY <1>8, <2>1
<1>13. CASE \E j \in Jobs, tip \in {"none", "ancestor", "other"} : MoveBranch(j, tip)
  BY <1>1, <1>6, <1>13 DEF MoveBranch, registryVars
<1>14. CASE UNCHANGED vars
  BY <1>1, <1>6, <1>14 DEF vars, dvars, registryVars
<1>. QED
  BY <1>1, <1>7, <1>9, <1>10, <1>11, <1>12, <1>13, <1>14 DEF Next

(* Deliverables stay accounted for under the delegating node's own tool    *)
(* calls (mcp/tools.ts, workspace-store.ts finalizeWriteJob).              *)
THEOREM DeliveredUnderCalls == Spec => []DeliverablesAccountedFor
<1>1. SystemInv => DeliverablesAccountedFor
  BY InvariantDelivers DEF SystemInv
<1>. QED
  BY <1>1, SystemStarts, SystemKeeps, PTL DEF Spec

(* job_result says "applied" only of a job that succeeded and a branch     *)
(* that was re-read at the claimed head, with one apply at a time per job, *)
(* for any number of overlapping calls, whatever is lost, evicted or moved *)
(* in between (mcp/tools.ts, delegation-registry.ts singleFlightApply,     *)
(* artifact-apply.ts).                                                     *)
THEOREM AppliedWasVerified == Spec => []AppliedIsVerified
<1>1. SystemInv => AppliedIsVerified
  BY InvariantVerifies DEF SystemInv
<1>. QED
  BY <1>1, SystemStarts, SystemKeeps, PTL DEF Spec

(* Routes lead to jobs the worker did take, at most MaxTracked and one per *)
(* job, and a terminal status in the registry is the job's own, whatever   *)
(* answers were lost or came late (delegation-registry.ts record and       *)
(* observeStatus, mcp/tools.ts delegate_task).                             *)
THEOREM RoutesAreHonest == Spec => []RoutesHonest
<1>1. RoutedInv => RoutesHonest
  BY DEF RoutedInv, RouteInv, RouteTypes, TrackedWasTaken, RoutesHonest, OnceIn, IsInjective
<1>2. Init => RoutedInv
  BY SystemStarts, RoutesStart DEF RoutedInv
<1>. QED
  BY <1>1, <1>2, RoutesKeep, PTL DEF Spec
=============================================================================
