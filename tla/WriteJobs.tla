----------------------------- MODULE WriteJobs -----------------------------
(***************************************************************************)
(* The deliverable of a write job on the worker (workspace-store.ts        *)
(* finalizeWriteJob, artifact-store.ts, daemon.ts finalizeWrite, the       *)
(* teardown and the next init): work tree -> commit -> transient branch    *)
(* ref -> bundle file -> registration -> eviction or sweep.                *)
(*                                                                         *)
(* All jobs write to one repository, whose lock serialises finalize.  The  *)
(* job manager is kept to the record's status; module JobManager has the   *)
(* rest.  A git command may fail or be killed at every step; deletions are *)
(* best effort.                                                            *)
(***************************************************************************)
EXTENDS Naturals, FiniteSets

CONSTANTS
  Jobs,
  MaxRuns   \* lives of the worker daemon that are modelled

VARIABLES
  worker,      \* "up", "stopping" (manager being stopped), "sweeping"
               \* (removeAll), "down"
  runs,
  rec,         \* the job manager's record of each job
  artifact,    \* the artifact in the record's result: present or null
  aborted,     \* jobs whose signal fired
  step,        \* where each execute() is
  delivers,    \* what the finalize in progress will return
  lock,        \* holder of the repository lock
  refs,        \* refs/heads/homefleet/* in the bare repository
  disk,        \* bundle files under jobs/
  registered,  \* ArtifactStore entries
  removing,    \* bundle deletions awaited by remove()
  leftovers    \* failed deletions, refs of a killed update-ref and bundles
               \* not registered, left to init: <<"bundle" or "ref", job>>

workerVars == <<worker, runs, rec, artifact, aborted, step, delivers, lock,
                refs, disk, registered, removing, leftovers>>

Terminals == {"succeeded", "failed", "canceled"}
Free == "free"
Others == "others"
ASSUME JobsAssumption == Free \notin Jobs /\ Others \notin Jobs

Alive == worker # "down"

WorkerInit ==
  /\ worker = "up" /\ runs = 1
  /\ rec = [j \in Jobs |-> "none"]
  /\ artifact = [j \in Jobs |-> FALSE]
  /\ aborted = {}
  /\ step = [j \in Jobs |-> "idle"]
  /\ delivers = [j \in Jobs |-> "nothing"]
  /\ lock = Free
  /\ refs = {} /\ disk = {} /\ registered = {} /\ removing = {} /\ leftovers = {}

-----------------------------------------------------------------------------
(* The job manager, as far as deliverables see it.                         *)

Submit(j) ==
  /\ worker = "up" /\ rec[j] = "none"
  /\ rec' = [rec EXCEPT ![j] = "active"]
  /\ step' = [step EXCEPT ![j] = "work"]
  /\ UNCHANGED <<worker, runs, artifact, aborted, delivers, lock, refs, disk,
                 registered, removing, leftovers>>

CancelOnWorker(j) ==
  /\ worker = "up" /\ rec[j] = "active"
  /\ aborted' = aborted \cup {j}
  /\ UNCHANGED <<worker, runs, rec, artifact, step, delivers, lock, refs, disk,
                 registered, removing, leftovers>>

(* finishJob; a record that stop() cleared takes no result.                *)
Finish(j, status, hasArtifact) ==
  /\ step' = [step EXCEPT ![j] = "done"]
  /\ delivers' = [delivers EXCEPT ![j] = "nothing"]
  /\ aborted' = aborted \ {j}
  /\ IF rec[j] = "active"
     THEN /\ rec' = [rec EXCEPT ![j] = status]
          /\ artifact' = [artifact EXCEPT ![j] = hasArtifact]
     ELSE UNCHANGED <<rec, artifact>>

GoOn(j, s) == step' = [step EXCEPT ![j] = s] /\ UNCHANGED <<aborted, rec, artifact>>

(* ArtifactStore.remove: the entry goes at once, the file follows.         *)
RemoveArtifact(S) ==
  /\ registered' = registered \ S
  /\ removing' = removing \cup (registered \cap S)

FileRemoved(j) ==
  /\ Alive /\ j \in removing
  /\ removing' = removing \ {j}
  /\ \/ disk' = disk \ {j} /\ UNCHANGED leftovers
     \/ leftovers' = leftovers \cup {<<"bundle", j>>} /\ UNCHANGED disk
  /\ UNCHANGED <<worker, runs, rec, artifact, aborted, step, delivers, lock,
                 refs, registered>>

(* Other jobs push a terminal record over the retention cap; the hook      *)
(* drops its artifact.                                                     *)
Evict(j) ==
  /\ worker = "up" /\ rec[j] \in Terminals
  /\ rec' = [rec EXCEPT ![j] = "evicted"]
  /\ RemoveArtifact({j})
  /\ UNCHANGED <<worker, runs, artifact, aborted, step, delivers, lock, refs,
                 disk, leftovers>>

-----------------------------------------------------------------------------
(* finalizeWriteJob.                                                       *)

(* An abort makes a failure a cancellation.                                *)
FinalizeFails(j) ==
  Finish(j, IF j \in aborted THEN "canceled" ELSE "failed", FALSE)

(* The executor ends without declaring done.                               *)
WorkEnds(j) ==
  /\ Alive /\ step[j] = "work"
  /\ FinalizeFails(j)
  /\ UNCHANGED <<worker, runs, lock, refs, disk, registered, removing, leftovers>>

(* The model declared done: finalize queues for the repository lock, or    *)
(* rejects on an abort that already fired.                                 *)
DeclareDone(j) ==
  /\ Alive /\ step[j] = "work"
  /\ IF j \in aborted THEN FinalizeFails(j) ELSE GoOn(j, "queued") /\ UNCHANGED delivers
  /\ UNCHANGED <<worker, runs, lock, refs, disk, registered, removing, leftovers>>

(* Under the lock the abort is checked again.                              *)
EnterLock(j) ==
  /\ Alive /\ step[j] = "queued" /\ lock = Free
  /\ IF j \in aborted
     THEN FinalizeFails(j) /\ UNCHANGED lock
     ELSE GoOn(j, "commit") /\ lock' = j /\ UNCHANGED delivers
  /\ UNCHANGED <<worker, runs, refs, disk, registered, removing, leftovers>>

(* commitAllInWorktree: a clean tree delivers null, and no ref or bundle.  *)
Commit(j) ==
  /\ Alive /\ step[j] = "commit"
  /\ \/ j \notin aborted /\ GoOn(j, "mint") /\ UNCHANGED <<delivers, lock>>
     \/ /\ j \notin aborted /\ GoOn(j, "returned")
        /\ delivers' = [delivers EXCEPT ![j] = "null"]
        /\ lock' = Free
     \/ FinalizeFails(j) /\ lock' = Free
  /\ UNCHANGED <<worker, runs, refs, disk, registered, removing, leftovers>>

(* updateRef, before the try whose finally deletes the ref: a command      *)
(* killed at its end has made the ref, and nothing deletes it here.        *)
MintRef(j) ==
  /\ Alive /\ step[j] = "mint"
  /\ \/ /\ j \notin aborted /\ GoOn(j, "bundle")
        /\ refs' = refs \cup {j}
        /\ UNCHANGED <<delivers, lock, leftovers>>
     \/ /\ FinalizeFails(j) /\ lock' = Free
        /\ \/ UNCHANGED <<refs, leftovers>>
           \/ refs' = refs \cup {j} /\ leftovers' = leftovers \cup {<<"ref", j>>}
  /\ UNCHANGED <<worker, runs, disk, registered, removing>>

(* Diffstat, bundle create, stat.  A failed create removes its partial     *)
(* file; a failed stat leaves a whole bundle that nothing registers.       *)
CreateBundle(j) ==
  /\ Alive /\ step[j] = "bundle"
  /\ GoOn(j, "unref")
  /\ \/ /\ j \notin aborted
        /\ disk' = disk \cup {j}
        /\ delivers' = [delivers EXCEPT ![j] = "bundle"]
        /\ UNCHANGED leftovers
     \/ /\ delivers' = [delivers EXCEPT ![j] = "failure"]
        /\ \/ UNCHANGED <<disk, leftovers>>
           \/ disk' = disk \cup {j} /\ leftovers' = leftovers \cup {<<"bundle", j>>}
  /\ UNCHANGED <<worker, runs, lock, refs, registered, removing>>

LeaveLock(j) ==
  /\ lock' = Free
  /\ IF delivers[j] = "failure" THEN FinalizeFails(j)
                                ELSE GoOn(j, "returned") /\ UNCHANGED delivers

DropRef_OnlyOnSuccess(j) ==
  /\ Alive /\ step[j] = "unref"
  /\ refs' = IF delivers[j] = "failure" THEN refs ELSE refs \ {j}
  /\ LeaveLock(j)
  /\ UNCHANGED <<worker, runs, disk, registered, removing, leftovers>>

(* The finally: the ref is deleted, at best effort, by the store's own     *)
(* worker, which a job abort does not kill; then the lock is released.     *)
DropRef(j) ==
  /\ Alive /\ step[j] = "unref"
  /\ \/ refs' = refs \ {j} /\ UNCHANGED leftovers
     \/ leftovers' = leftovers \cup {<<"ref", j>>} /\ UNCHANGED refs
  /\ LeaveLock(j)
  /\ UNCHANGED <<worker, runs, disk, registered, removing>>

(* The daemon's closure registers the bundle in the turn that resolves;    *)
(* the verify command may then run before the result is recorded.          *)
Register(j) ==
  /\ Alive /\ step[j] = "returned"
  /\ GoOn(j, "verify")
  /\ registered' = registered \cup (IF delivers[j] = "bundle" THEN {j} ELSE {})
  /\ UNCHANGED <<worker, runs, delivers, lock, refs, disk, removing, leftovers>>

Succeed(j) ==
  /\ Alive /\ step[j] = "verify"
  /\ Finish(j, "succeeded", delivers[j] = "bundle")
  /\ UNCHANGED <<worker, runs, lock, refs, disk, registered, removing, leftovers>>

-----------------------------------------------------------------------------
(* Teardown, in the reverse order of assembly, and the next start.         *)

StopManager ==
  /\ worker = "up"
  /\ worker' = "stopping"
  /\ aborted' = aborted \cup {j \in Jobs : rec[j] = "active"}
  /\ UNCHANGED <<runs, rec, artifact, step, delivers, lock, refs, disk,
                 registered, removing, leftovers>>

(* The unwind is awaited, but not for ever: a stuck execute() goes on.     *)
(* Every record left is cleared and its hook called.                       *)
ManagerStopped ==
  /\ worker = "stopping"
  /\ worker' = "sweeping"
  /\ rec' = [j \in Jobs |-> IF rec[j] = "none" THEN "none" ELSE "evicted"]
  /\ RemoveArtifact({j \in Jobs : rec[j] \notin {"none", "evicted"}})
  /\ UNCHANGED <<runs, artifact, aborted, step, delivers, lock, refs, disk, leftovers>>

(* removeAll, the store's own stop and the end of the process; or, at any  *)
(* moment, a crash.  What is being finalized ends where it stands.         *)
Dies ==
  /\ worker' = "down"
  /\ step' = [j \in Jobs |-> IF step[j] = "idle" THEN "idle" ELSE "done"]
  /\ rec' = [j \in Jobs |-> IF rec[j] = "none" THEN "none" ELSE "evicted"]
  /\ delivers' = [j \in Jobs |-> "nothing"] /\ aborted' = {}
  /\ lock' = Free /\ registered' = {} /\ removing' = {}
  /\ UNCHANGED <<runs, artifact, refs>>

Shutdown ==
  /\ worker = "sweeping" /\ removing = {}
  /\ \E kept \in SUBSET registered : disk' = disk \ (registered \ kept)
  /\ Dies
  /\ UNCHANGED leftovers

Crash == Alive /\ Dies /\ UNCHANGED <<disk, leftovers>>

(* init() purges jobs/ and sweeps the leaked refs before anything serves.  *)
(* Each deletion is at best effort: what it leaves, the next init finds.   *)
Restart ==
  /\ worker = "down" /\ runs < MaxRuns
  /\ worker' = "up" /\ runs' = runs + 1
  /\ disk' \in SUBSET disk /\ refs' \in SUBSET refs
  /\ leftovers' = ({"bundle"} \X disk') \cup ({"ref"} \X refs')
  /\ UNCHANGED <<rec, artifact, aborted, step, delivers, lock, registered, removing>>

WorkerStep(j) ==
  \/ WorkEnds(j) \/ DeclareDone(j) \/ EnterLock(j) \/ Commit(j) \/ MintRef(j)
  \/ CreateBundle(j) \/ DropRef(j) \/ Register(j) \/ Succeed(j) \/ FileRemoved(j)

(* Syncs, checkouts and other jobs hold the repository lock in between.    *)
OthersLock ==
  /\ Alive
  /\ \/ lock = Free /\ (\E j \in Jobs : step[j] = "queued") /\ lock' = Others
     \/ lock = Others /\ lock' = Free
  /\ UNCHANGED <<worker, runs, rec, artifact, aborted, step, delivers, refs,
                 disk, registered, removing, leftovers>>

WorkerNext ==
  \/ \E j \in Jobs : WorkerStep(j) \/ Evict(j)
  \/ OthersLock \/ StopManager \/ ManagerStopped \/ Shutdown \/ Crash \/ Restart

(* The worker with any delegators, whatever they keep of it themselves.    *)
WorkerSpec ==
  /\ WorkerInit
  /\ [][WorkerNext \/ \E j \in Jobs : Submit(j) \/ CancelOnWorker(j)]_workerVars

-----------------------------------------------------------------------------
(* A succeeded job whose result carries an artifact can be downloaded as   *)
(* long as its record is retained: the bundle is on disk and registered    *)
(* (daemon.ts registers before it hands the artifact back), and a job that *)
(* was canceled or failed has nothing to download.                         *)
ResultsAreDownloadable ==
  worker = "up" => \A j \in Jobs :
    /\ rec[j] = "succeeded" /\ artifact[j] => j \in registered \cap disk
    /\ rec[j] \in {"failed", "canceled"} => j \notin registered

(* Every bundle on disk and every transient ref belongs to something: a    *)
(* running finalize, a registration of a job whose record is still there,  *)
(* a deletion under way, or a command that failed, and the next init has   *)
(* it to delete.                                                           *)
(* (finalizeWriteJob's finally, onJobEvicted, removeAll and init's purge   *)
(* share this job.)  And what is registered is what can be downloaded.     *)
DeliverablesAccountedFor ==
  /\ ResultsAreDownloadable
  /\ worker = "up" =>
       /\ \A j \in disk : \/ j \in registered \cup removing
                          \/ step[j] \in {"unref", "returned"}
                          \/ <<"bundle", j>> \in leftovers
       /\ \A j \in refs : \/ lock = j /\ step[j] \in {"bundle", "unref"}
                          \/ <<"ref", j>> \in leftovers
       /\ \A j \in registered : rec[j] \in {"active", "succeeded"}
=============================================================================
