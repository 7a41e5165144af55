--------------------------- MODULE WorkspaceStore ---------------------------
(***************************************************************************)
(* The worker's cache of delegators' repositories,                         *)
(* packages/daemon/src/workspace/workspace-store.ts: bundles advance a     *)
(* per-repo tip, read jobs share cached checkouts that are pinned while in *)
(* use and evicted least recently used first, write jobs get a worktree of *)
(* their own, and unreachable objects are collected every so many fetches. *)
(*                                                                         *)
(* Git is not safe to run concurrently on one repository, so every call    *)
(* queues a callback on the repo's promise chain; lock[r] is that chain,   *)
(* its head the callback that runs.  What is NOT under the lock is what    *)
(* makes the store hard: the pins and the checkouts map are also changed   *)
(* by releases and by eviction passes, which pick a victim first and queue *)
(* for its repo's lock second.                                             *)
(*                                                                         *)
(* An action is what runs between two awaits that matter: while a callback *)
(* holds the lock its git commands are one step unless something outside   *)
(* the lock can interfere between them.  Any git command may fail, because *)
(* it is bounded by a timeout and killed by stop; a killed `worktree add`  *)
(* leaves no directory, one with its gitlink and part of the files, or the *)
(* whole of it, and a removal that fails may leave as much.                *)
(*                                                                         *)
(* haveTip only reads the tip, so its turn on the chain is not modelled.   *)
(* The allowlist, bundle sizes and paths are left out.                     *)
(***************************************************************************)
EXTENDS Integers, FiniteSets, Sequences, SequencesExt

CONSTANTS
  Repos,               \* repoKeys
  Commits,
  CommitKey,           \* the truncated name of a commit's checkout directory
  Reach,               \* the commits reachable from a commit, itself included
  Handles,             \* resolve calls, each with the handle it may return
  Syncs,               \* delegators' syncs
  MaxCachedCheckouts,
  GcAfterFetches,
  InitialTip,          \* what an earlier run of the daemon left in the cache:
  InitialCheckouts,    \* per repo the synced tip, and commits checked out
  RmFails,             \* whether removing a directory may fail (in use, EBUSY)
  NoCommit

ASSUME StoreAssumption ==
  /\ IsFiniteSet(Repos) /\ IsFiniteSet(Commits)   \* an allowlist, and hashes
  /\ Handles \cap Syncs = {}
  /\ MaxCachedCheckouts \in Nat \ {0}
  /\ GcAfterFetches \in Nat \ {0}
  /\ RmFails \in BOOLEAN
  /\ NoCommit \notin Commits
  /\ InitialTip \in [Repos -> Commits \cup {NoCommit}]
  /\ InitialCheckouts \in [Repos -> SUBSET Commits]
  /\ Reach \in [Commits -> SUBSET Commits]
  /\ \A c \in Commits : c \in Reach[c] /\ \A d \in Reach[c] : Reach[d] \subseteq Reach[c]

ShortKeys == {CommitKey[c] : c \in Commits}
Keys == Repos \X ShortKeys    \* a checkout directory, and its key in the map

VARIABLES
  stopped,
  tip,        \* refs/homefleet/tip of each repo
  objects,    \* commits in each repo's object store
  fetches,    \* fetchesSinceGc
  disk,       \* the checkout directories
  strays,     \* whole checkouts that a failed command left out of the map
              \* (no step reads it)
  writeDir,   \* the commit in the worktree directory of each write job,
              \* in full or in part
  checkouts,  \* keys of the checkouts map
  lastUse,    \* the same keys by usedAt, least recent first
  refcount,   \* pins of each map entry
  lock,       \* per repo, the calls on its promise chain
  pc,         \* where each call is
  want,       \* what a call asked for
  victim      \* the entry an eviction pass dropped and is about to remove

diskVars == <<tip, objects, fetches, disk, strays, writeDir>>
mapVars == <<checkouts, lastUse, refcount>>
vars == <<stopped, diskVars, mapVars, lock, pc, want, victim>>

Calls == Handles \cup Syncs
Absent == [commit |-> NoCommit, whole |-> FALSE]
Whole(c) == [commit |-> c, whole |-> TRUE]
Torn(c) == [commit |-> c, whole |-> FALSE]   \* gitlink and HEAD, not all files
Dirs == [commit : Commits, whole : BOOLEAN] \cup {Absent}
NoWant == [mode |-> "none"]
NoKey == <<>>

Key(h) == <<want[h].repo, CommitKey[want[h].commit]>>
Populated(dir) == dir # Absent
(* What a removal may leave: nothing, or all or part of the directory.     *)
Remains(dir) ==
  IF RmFails /\ Populated(dir) THEN {Absent, Torn(dir.commit), dir} ELSE {Absent}

\* h runs its callback on its repo's chain, or on its victim's repo's chain.
Holds(h, r) == lock[r] # <<>> /\ Head(lock[r]) = h
Unlock(r) == lock' = [lock EXCEPT ![r] = Tail(@)]
Enqueue(h, r) == lock' = [lock EXCEPT ![r] = Append(@, h)]
Goto(h, where) == pc' = [pc EXCEPT ![h] = where]

\* The entries by usedAt, without that of k.
Without(k) ==
  LET at == {i \in DOMAIN lastUse : lastUse[i] = k}
  IN IF at = {} THEN lastUse ELSE RemoveAt(lastUse, CHOOSE i \in at : TRUE)

-----------------------------------------------------------------------------
FoundIn(k) ==
  LET found == {c \in InitialCheckouts[k[1]] : CommitKey[c] = k[2]}
  IN IF found = {} THEN Absent ELSE Whole(CHOOSE c \in found : TRUE)

Init ==
  /\ stopped = FALSE
  /\ tip = InitialTip
  /\ objects = [r \in Repos |-> IF InitialTip[r] = NoCommit
                                THEN {} ELSE Reach[InitialTip[r]]]
  /\ fetches = [r \in Repos |-> 0]
  /\ disk = [k \in Keys |-> FoundIn(k)]
  /\ strays = {} /\ writeDir = [h \in Handles |-> NoCommit]
  /\ checkouts = {k \in Keys : Populated(disk[k])}
  /\ lastUse \in SetToSeqs(checkouts)
  /\ refcount = [k \in Keys |-> 0]
  /\ lock = [r \in Repos |-> <<>>]
  /\ pc = [c \in Calls |-> "idle"]
  /\ want = [c \in Calls |-> NoWant]
  /\ victim = [h \in Handles |-> NoKey]

-----------------------------------------------------------------------------
(* resolve: a new call queues on the repo's chain.  A write job's id is    *)
(* its call, so the reservation in writeWorkspaces is the call itself.     *)
Resolve(h, r, c, mode) ==
  /\ pc[h] = "idle" /\ ~stopped
  /\ want' = [want EXCEPT ![h] = [mode |-> mode, repo |-> r, commit |-> c]]
  /\ Enqueue(h, r)
  /\ Goto(h, "queued")
  /\ UNCHANGED <<stopped, diskVars, mapVars, victim>>

Turn(h, mode) == pc[h] = "queued" /\ want[h].mode = mode /\ Holds(h, want[h].repo)
CommitPresent(r, c) == c \in objects[r]
Synced(h) == CommitPresent(want[h].repo, want[h].commit)
WorktreeHead(k) == disk[k].commit

(* The callback throws: not synced, a git command failed, or the directory *)
(* holds another commit, or cannot be read, while a job has it pinned.     *)
ResolveFails(h) ==
  /\ pc[h] = "queued" /\ Holds(h, want[h].repo)
  /\ Unlock(want[h].repo)
  /\ Goto(h, "failed")
  /\ UNCHANGED <<stopped, diskVars, mapVars, want, victim>>

(* The directory exists and its HEAD is the requested commit. *)
ReuseCheckout(h) ==
  /\ Turn(h, "read") /\ Synced(h) /\ ~stopped
  /\ WorktreeHead(Key(h)) = want[h].commit
  /\ Goto(h, "tracking")
  /\ UNCHANGED <<stopped, diskVars, mapVars, lock, want, victim>>

(* It exists but holds another commit, or its HEAD cannot be read, and no  *)
(* job has it pinned: it is removed before the worktree is added again.    *)
ReplaceCheckout(h) ==
  /\ Turn(h, "read") /\ Synced(h) /\ ~stopped
  /\ Populated(disk[Key(h)])
  /\ refcount[Key(h)] = 0
  /\ disk' = [disk EXCEPT ![Key(h)] = Absent]
  /\ strays' = strays \ {Key(h)}
  /\ Goto(h, "adding")
  /\ UNCHANGED <<stopped, tip, objects, fetches, writeDir, mapVars, lock, want, victim>>

(* The old directory cannot be removed: resolve throws. *)
ReplaceCheckoutFails(h) ==
  /\ Turn(h, "read") /\ Synced(h) /\ RmFails /\ ~stopped
  /\ Populated(disk[Key(h)])
  /\ refcount[Key(h)] = 0
  /\ disk' \in {[disk EXCEPT ![Key(h)] = dir] : dir \in Remains(disk[Key(h)])}
  /\ strays' = {k \in strays : disk'[k].whole}
  /\ Unlock(want[h].repo)
  /\ Goto(h, "failed")
  /\ UNCHANGED <<stopped, tip, objects, fetches, writeDir, mapVars, want, victim>>

AddCheckout(h) ==
  /\ Turn(h, "read") /\ Synced(h)
  /\ ~Populated(disk[Key(h)])
  /\ Goto(h, "adding")
  /\ UNCHANGED <<stopped, diskVars, mapVars, lock, want, victim>>

(* resolveForWrite, inside the lock: nothing is touched once stopped; what *)
(* an earlier attempt left is cleared.                                     *)
AddWriteWorktree(h) ==
  /\ Turn(h, "write") /\ Synced(h) /\ ~stopped
  /\ writeDir' = [writeDir EXCEPT ![h] = NoCommit]
  /\ Goto(h, "adding")
  /\ UNCHANGED <<stopped, tip, objects, fetches, disk, strays, mapVars, lock, want, victim>>

SetDir(h, dir) ==
  IF want[h].mode = "read"
  THEN disk' = [disk EXCEPT ![Key(h)] = dir] /\ UNCHANGED writeDir
  ELSE writeDir' = [writeDir EXCEPT ![h] = dir.commit] /\ UNCHANGED disk

(* A failed command left k as it is now: if whole, only the map could have *)
(* known of it.                                                            *)
LeftStray(k) ==
  strays' = IF disk'[k].whole /\ k \notin checkouts THEN strays \cup {k} ELSE strays \ {k}

(* git worktree add succeeds; a write job's handle is complete with it. *)
WorktreeAdded(h) ==
  /\ pc[h] = "adding" /\ ~stopped
  /\ SetDir(h, Whole(want[h].commit))
  /\ IF want[h].mode = "read"
     THEN Goto(h, "tracking") /\ UNCHANGED lock
     ELSE Goto(h, "held") /\ Unlock(want[h].repo)
  /\ UNCHANGED <<stopped, tip, objects, fetches, strays, mapVars, want, victim>>

(* ... or fails, or is killed by its timeout or by stop, at its end even;  *)
(* nothing cleans up.                                                      *)
WorktreeAddFails(h) ==
  /\ pc[h] = "adding"
  /\ \E dir \in {Absent, Torn(want[h].commit), Whole(want[h].commit)} : SetDir(h, dir)
  /\ IF want[h].mode = "read" THEN LeftStray(Key(h)) ELSE UNCHANGED strays
  /\ Unlock(want[h].repo)
  /\ Goto(h, "failed")
  /\ UNCHANGED <<stopped, tip, objects, fetches, mapVars, want, victim>>

Track_StillLocked(h) ==
  /\ pc[h] = "tracking"
  /\ checkouts' = checkouts \cup {Key(h)}
  /\ lastUse' = Append(Without(Key(h)), Key(h))
  /\ refcount' = [refcount EXCEPT ![Key(h)] = @ + 1]
  /\ strays' = strays \ {Key(h)}
  /\ Goto(h, "evicting")
  /\ UNCHANGED <<stopped, tip, objects, fetches, disk, writeDir, lock, want, victim>>

Track_PinOnly(h) ==
  /\ pc[h] = "tracking"
  /\ refcount' = [refcount EXCEPT ![Key(h)] = @ + 1]
  /\ Unlock(want[h].repo)
  /\ Goto(h, "evicting")
  /\ UNCHANGED <<stopped, diskVars, checkouts, lastUse, want, victim>>

(* touch and pin, the last thing done under the lock. *)
Track(h) ==
  /\ pc[h] = "tracking"
  /\ checkouts' = checkouts \cup {Key(h)}
  /\ lastUse' = Append(Without(Key(h)), Key(h))
  /\ refcount' = [refcount EXCEPT ![Key(h)] = @ + 1]
  /\ Unlock(want[h].repo)
  /\ strays' = strays \ {Key(h)}
  /\ Goto(h, "evicting")
  /\ UNCHANGED <<stopped, tip, objects, fetches, disk, writeDir, want, victim>>

-----------------------------------------------------------------------------
(***************************************************************************)
(* evictToCapacity, the pass every read resolve makes after its own lock.  *)
(***************************************************************************)
Evictable == {k \in checkouts : refcount[k] = 0}
LeastRecent(k) ==
  \E i \in DOMAIN lastUse :
    lastUse[i] = k /\ \A n \in 1..(i - 1) : lastUse[n] \notin Evictable

(* The victim leaves the map at once; its removal queues for its repo. *)
EvictPick(h) ==
  /\ pc[h] = "evicting" /\ ~stopped
  /\ Cardinality(checkouts) > MaxCachedCheckouts
  /\ \E k \in Evictable :
       /\ LeastRecent(k)
       /\ checkouts' = checkouts \ {k}
       /\ lastUse' = Without(k)
       /\ victim' = [victim EXCEPT ![h] = k]
       /\ Enqueue(h, k[1])
  /\ Goto(h, "evictQueued")
  /\ UNCHANGED <<stopped, diskVars, refcount, want>>

(* Within the cap, stopped, or blocked by pins: resolve returns the handle. *)
EvictDone(h) ==
  /\ pc[h] = "evicting"
  /\ \/ Cardinality(checkouts) <= MaxCachedCheckouts
     \/ stopped
     \/ Evictable = {}
  /\ Goto(h, "held")
  /\ UNCHANGED <<stopped, diskVars, mapVars, lock, want, victim>>

VictimTurn(h) == pc[h] = "evictQueued" /\ Holds(h, victim[h][1])

(* stop landed while the removal waited for the lock. *)
EvictHalted(h) ==
  /\ VictimTurn(h) /\ stopped
  /\ Unlock(victim[h][1])
  /\ victim' = [victim EXCEPT ![h] = NoKey]
  /\ Goto(h, "held")
  /\ UNCHANGED <<stopped, diskVars, mapVars, want>>

(* A resolve that queued ahead took the directory into use again. *)
EvictReused(h) ==
  /\ VictimTurn(h) /\ ~stopped
  /\ victim[h] \in checkouts
  /\ Unlock(victim[h][1])
  /\ victim' = [victim EXCEPT ![h] = NoKey]
  /\ Goto(h, "evicting")
  /\ UNCHANGED <<stopped, diskVars, mapVars, want>>

EvictRemoves_NoRecheck(h) ==
  /\ VictimTurn(h) /\ ~stopped
  /\ Goto(h, "removing")
  /\ UNCHANGED <<stopped, diskVars, mapVars, lock, want, victim>>

EvictRemoves(h) ==
  /\ VictimTurn(h) /\ ~stopped
  /\ victim[h] \notin checkouts
  /\ Goto(h, "removing")
  /\ UNCHANGED <<stopped, diskVars, mapVars, lock, want, victim>>

(* worktree remove and rm are done.  A failure is only logged, and what it *)
(* leaves has no entry any more.                                           *)
EvictRemoved(h) ==
  /\ pc[h] = "removing"
  /\ disk' \in {[disk EXCEPT ![victim[h]] = dir] : dir \in Remains(disk[victim[h]])}
  /\ LeftStray(victim[h])
  /\ Unlock(victim[h][1])
  /\ victim' = [victim EXCEPT ![h] = NoKey]
  /\ Goto(h, "evicting")
  /\ UNCHANGED <<stopped, tip, objects, fetches, writeDir, mapVars, want>>

-----------------------------------------------------------------------------
(* release of a read handle: unpin, without the lock. *)
Release(h) ==
  /\ pc[h] = "held" /\ want[h].mode = "read"
  /\ refcount' = [refcount EXCEPT ![Key(h)] = IF Key(h) \in checkouts /\ @ > 0
                                              THEN @ - 1 ELSE @]
  /\ Goto(h, "released")
  /\ UNCHANGED <<stopped, diskVars, checkouts, lastUse, lock, want, victim>>

(* release of a write handle: its teardown queues, unless stopped. *)
ReleaseWrite(h) ==
  /\ pc[h] = "held" /\ want[h].mode = "write"
  /\ IF stopped
     THEN Goto(h, "released") /\ UNCHANGED lock
     ELSE Goto(h, "releasing") /\ Enqueue(h, want[h].repo)
  /\ UNCHANGED <<stopped, diskVars, mapVars, want, victim>>

WriteTornDown(h) ==
  /\ pc[h] = "releasing" /\ Holds(h, want[h].repo)
  /\ IF stopped
     THEN UNCHANGED writeDir
     ELSE \/ writeDir' = [writeDir EXCEPT ![h] = NoCommit]
          \/ RmFails /\ UNCHANGED writeDir
  /\ Unlock(want[h].repo)
  /\ Goto(h, "released")
  /\ UNCHANGED <<stopped, tip, objects, fetches, disk, strays, mapVars, want, victim>>

-----------------------------------------------------------------------------
(***************************************************************************)
(* A sync, seen from the delegator (HfpClient.syncWorkspace): ask for the  *)
(* tip, make a bundle of what the worker lacks, upload it.                 *)
(***************************************************************************)
HaveTip(r) == tip[r]
(* The prerequisite of the bundle: what the worker has, if it is an         *)
(* ancestor of the head; otherwise the bundle is a full one.                *)
Base(r, c) == IF HaveTip(r) \in Reach[c] THEN HaveTip(r) ELSE NoCommit

SyncAsks(s, r, c) ==
  /\ pc[s] = "idle" /\ ~stopped
  /\ want' = [want EXCEPT ![s] =
       [mode |-> "sync", repo |-> r, commit |-> c, base |-> Base(r, c)]]
  /\ Goto(s, IF HaveTip(r) = c THEN "synced" ELSE "asked")
  /\ UNCHANGED <<stopped, diskVars, mapVars, lock, victim>>

SyncUploads(s) ==
  /\ pc[s] = "asked" /\ ~stopped
  /\ Enqueue(s, want[s].repo)
  /\ Goto(s, "queued")
  /\ UNCHANGED <<stopped, diskVars, mapVars, want, victim>>

Applying(s) == pc[s] = "queued" /\ Holds(s, want[s].repo)
\* git bundle verify: the prerequisite of an incremental bundle is present.
Prerequisite(s) == want[s].base # NoCommit => CommitPresent(want[s].repo, want[s].base)
\* fetchBundleHead: the objects there are once the bundle is fetched.
Fetched(s) == objects[want[s].repo] \cup Reach[want[s].commit]
\* maybeGc: this fetch is one after which garbage is collected.
GcDue(r) == fetches[r] + 1 >= GcAfterFetches

BundleFails_TipFirst(s) ==
  /\ Applying(s)
  /\ tip' = [tip EXCEPT ![want[s].repo] = want[s].commit]
  /\ Unlock(want[s].repo)
  /\ Goto(s, "failed")
  /\ UNCHANGED <<stopped, objects, fetches, disk, strays, writeDir, mapVars, want, victim>>

(* applyBundle throws: verification fails, or a git command does, possibly *)
(* after the objects were imported and before the tip moved.               *)
BundleFails(s) ==
  /\ Applying(s)
  /\ \/ UNCHANGED objects
     \/ /\ Prerequisite(s)
        /\ objects' = [objects EXCEPT ![want[s].repo] = Fetched(s)]
  /\ Unlock(want[s].repo)
  /\ Goto(s, "failed")
  /\ UNCHANGED <<stopped, tip, fetches, disk, strays, writeDir, mapVars, want, victim>>

(* What git gc --prune=now keeps: the tip's history and the worktrees'. *)
Anchored(r) ==
  Reach[tip'[r]]
    \cup (UNION {Reach[disk[k].commit] : k \in {l \in Keys : l[1] = r /\ Populated(disk[l])}})
    \cup (UNION {Reach[writeDir[h]] :
                   h \in {g \in Handles : writeDir[g] # NoCommit /\ want[g].repo = r}})

MoveTip(r, c) == tip' = [tip EXCEPT ![r] = c]

(* applyBundle: import, move the tip, and collect garbage at every         *)
(* GcAfterFetches-th fetch; a failing gc only logs.                        *)
BundleApplied(s) ==
  LET r == want[s].repo
  IN /\ Applying(s) /\ Prerequisite(s) /\ ~stopped
     /\ MoveTip(r, want[s].commit)
     /\ fetches' = [fetches EXCEPT ![r] = IF GcDue(r) THEN 0 ELSE @ + 1]
     /\ \/ objects' = [objects EXCEPT ![r] = Fetched(s)]
        \/ GcDue(r) /\ objects' = [objects EXCEPT ![r] = Fetched(s) \cap Anchored(r)]
     /\ Unlock(r)
     /\ Goto(s, "synced")
     /\ UNCHANGED <<stopped, disk, strays, writeDir, mapVars, want, victim>>

-----------------------------------------------------------------------------
Stop ==
  /\ ~stopped
  /\ stopped' = TRUE
  /\ UNCHANGED <<diskVars, mapVars, lock, pc, want, victim>>

(***************************************************************************)
(* The process ends, by stop or by a crash, and the daemon starts again.   *)
(* A directory that was being added or removed is left absent, torn or     *)
(* whole; init purges the write worktrees, registers the populated         *)
(* checkouts oldest first (by mtime: any order) and evicts down to the     *)
(* cap.  A purge or an eviction that fails is only logged.                 *)
(***************************************************************************)
InUse(p) == p \notin {"idle", "asked", "synced", "failed", "released"}
Adding(k) == {h \in Handles : pc[h] = "adding" /\ want[h].mode = "read" /\ Key(h) = k}
Removing(k) == {h \in Handles : pc[h] = "removing" /\ victim[h] = k}
(* What the process may leave of a checkout when it ends. *)
LeftBehind(k) ==
  {disk[k]}
    \cup {Torn(want[h].commit) : h \in Adding(k)}
    \cup {Whole(want[h].commit) : h \in Adding(k)}
    \cup {dir \in {Absent, Torn(disk[k].commit)} :
             Removing(k) # {} /\ Populated(disk[k])}

Changing == {k \in Keys : Adding(k) \cup Removing(k) # {}}

(* registerExistingCheckouts: as many as are over the cap are evicted, the *)
(* oldest ones.                                                            *)
Surplus(entries) ==
  IF Cardinality(entries) > MaxCachedCheckouts
  THEN Cardinality(entries) - MaxCachedCheckouts ELSE 0

(* init's evictions: each victim is removed, or what its removal left      *)
(* stays, with no entry.                                                   *)
EvictFound(found, evicted) ==
  \E kept \in [evicted -> UNION {Remains(found[k]) : k \in evicted}] :
    /\ \A k \in evicted : kept[k] \in Remains(found[k])
    /\ disk' = [k \in Keys |-> IF k \in evicted THEN kept[k] ELSE found[k]]
    /\ strays' = {k \in evicted : kept[k].whole}

Restart ==
  \E left \in [Changing -> UNION {LeftBehind(k) : k \in Changing}] :
    LET found == [k \in Keys |-> IF k \in Changing THEN left[k] ELSE disk[k]]
        registered == {k \in Keys : Populated(found[k])}
    IN /\ \A k \in Changing : left[k] \in LeftBehind(k)
       /\ \E evicted \in SUBSET registered :
            /\ Cardinality(evicted) = Surplus(registered)
            /\ EvictFound(found, evicted)
            /\ checkouts' = registered \ evicted
            /\ lastUse' \in SetToSeqs(registered \ evicted)
       /\ refcount' = [k \in Keys |-> 0]
       /\ \E kept \in SUBSET {h \in Handles : RmFails /\ writeDir[h] # NoCommit} :
            writeDir' = [h \in Handles |-> IF h \in kept THEN writeDir[h] ELSE NoCommit]
       /\ fetches' = [r \in Repos |-> 0]
       /\ lock' = [r \in Repos |-> <<>>]
       /\ pc' = [c \in Calls |-> IF InUse(pc[c]) THEN "failed" ELSE pc[c]]
       /\ victim' = [h \in Handles |-> NoKey]
       /\ stopped' = FALSE
       /\ UNCHANGED <<tip, objects, want>>

-----------------------------------------------------------------------------
LockedStep(h) ==
  \/ ResolveFails(h)
  \/ ReuseCheckout(h) \/ ReplaceCheckout(h) \/ ReplaceCheckoutFails(h)
  \/ AddCheckout(h)
  \/ AddWriteWorktree(h)
  \/ WorktreeAdded(h) \/ WorktreeAddFails(h) \/ Track(h)
  \/ WriteTornDown(h)

EvictStep(h) ==
  \/ EvictPick(h) \/ EvictDone(h)
  \/ EvictHalted(h) \/ EvictReused(h) \/ EvictRemoves(h) \/ EvictRemoved(h)

SyncStep(s) == SyncUploads(s) \/ BundleFails(s) \/ BundleApplied(s)

Next ==
  \/ \E h \in Handles :
       \/ \E r \in Repos, c \in Commits, mode \in {"read", "write"} :
            Resolve(h, r, c, mode)
       \/ LockedStep(h) \/ EvictStep(h)
       \/ Release(h) \/ ReleaseWrite(h)
  \/ \E s \in Syncs :
       \/ \E r \in Repos, c \in Commits : SyncAsks(s, r, c)
       \/ SyncStep(s)
  \/ Stop \/ Restart

Spec == Init /\ [][Next]_vars

(* Fairness: a promise chain runs its callbacks in order, and every git    *)
(* command in them is bounded by gitTimeoutMs, killed and force-settled.   *)
(* Nothing is assumed of the callers that hold handles.                    *)
FairSpec ==
  /\ Spec
  /\ \A h \in Handles : WF_vars(LockedStep(h) \/ EvictStep(h))
  /\ \A s \in Syncs : WF_vars(BundleFails(s) \/ BundleApplied(s))

-----------------------------------------------------------------------------
TypeOK ==
  /\ stopped \in BOOLEAN
  /\ tip \in [Repos -> Commits \cup {NoCommit}]
  /\ objects \in [Repos -> SUBSET Commits]
  /\ fetches \in [Repos -> 0..(GcAfterFetches - 1)]
  /\ disk \in [Keys -> Dirs] /\ strays \subseteq Keys
  /\ writeDir \in [Handles -> Commits \cup {NoCommit}]
  /\ checkouts \subseteq Keys /\ lastUse \in Seq(checkouts)
  /\ refcount \in [Keys -> Nat]
  /\ lock \in [Repos -> Seq(Calls)]
  /\ pc \in [Calls -> {"idle", "queued", "adding", "tracking", "evicting",
                       "evictQueued", "removing", "held", "releasing",
                       "released", "failed", "asked", "synced"}]
  /\ \A h \in Handles : victim[h] \in Keys \cup {NoKey}

Pinning(h) == /\ want[h].mode = "read"
              /\ pc[h] \in {"evicting", "evictQueued", "removing", "held"}
Working(h) == Pinning(h) \/ (want[h].mode = "write" /\ pc[h] = "held")
CommitIn(h) == IF want[h].mode = "read" THEN disk[Key(h)].commit ELSE writeDir[h]

(* The pins of an entry are the live handles on it: none leaks, which      *)
(* would keep the checkout for ever, and none is lost with its entry.      *)
PinsExact ==
  \A k \in Keys :
    /\ refcount[k] = Cardinality({h \in Handles : Pinning(h) /\ Key(h) = k})
    /\ refcount[k] > 0 => k \in checkouts

(* The directory of a live handle holds the commit the job asked for: no   *)
(* eviction pass, replacement, other job or gc takes it away or swaps it,  *)
(* although passes pick their victims without the lock (1256-1340); and    *)
(* the pins that see to it are exactly the live handles.                   *)
HeldNotYanked ==
  /\ TypeOK /\ PinsExact
  /\ \A h \in Handles : Working(h) =>
       /\ CommitIn(h) = want[h].commit
       /\ Reach[want[h].commit] \subseteq objects[want[h].repo]

(* A complete checkout is in the map, where the cap counts it, or some     *)
(* call that will register or remove it is on its way, or it is what a     *)
(* command that failed at it left (a removal, a worktree add, an eviction  *)
(* of init), until a resolve or the next init takes it up: a victim        *)
(* dropped from the map first and removed later is not forgotten on disk   *)
(* in any order of events without a failure.                               *)
DiskAccountedFor ==
  /\ ~stopped => \A k \in Keys : disk[k].whole =>
       \/ k \in checkouts
       \/ \E h \in Handles : pc[h] \in {"evictQueued", "removing"} /\ victim[h] = k
       \/ \E h \in Handles : pc[h] = "tracking" /\ Key(h) = k
       \/ k \in strays
  /\ \A k \in strays : disk[k].whole /\ k \notin checkouts

(* The tip a delegator is told is usable as the base of an incremental     *)
(* bundle: its whole history is in the object store, whatever failed.      *)
TipComplete ==
  \A r \in Repos : tip[r] # NoCommit => Reach[tip[r]] \subseteq objects[r]

(* Every queued resolve ends with a handle or an error: the passes take    *)
(* one repo lock at a time, after their own is free.                       *)
ResolveSettles ==
  \A h \in Handles :
    (pc[h] = "queued") ~> (pc[h] \in {"held", "released", "failed"})
=============================================================================
