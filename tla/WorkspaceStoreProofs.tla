------------------------ MODULE WorkspaceStoreProofs ------------------------
(***************************************************************************)
(* The directory under a live handle stays what was asked for, complete    *)
(* checkouts are accounted for, and the tip is a usable base, for any      *)
(* repos, histories, keys, callers and limits, and whatever fails.         *)
(***************************************************************************)
EXTENDS WorkspaceStore, FiniteSetTheorems, SequenceTheorems, TLAPS

Asked == [mode : {"read", "write"}, repo : Repos, commit : Commits]
AskedSync == [mode : {"sync"}, repo : Repos, commit : Commits,
              base : Commits \cup {NoCommit}]

(* The types, and what a call is at each place.                            *)
CallTypes ==
  /\ victim \in [Handles -> Keys \cup {NoKey}]
  /\ want \in [Calls -> Asked \cup AskedSync \cup {NoWant}]
  /\ \A h \in Handles : pc[h] # "idle" =>
       /\ want[h] \in Asked
       /\ pc[h] \notin {"asked", "synced"}
       /\ pc[h] \in {"tracking", "evicting", "evictQueued", "removing"} =>
            want[h].mode = "read"
       /\ pc[h] = "releasing" => want[h].mode = "write"
       /\ pc[h] \in {"evictQueued", "removing"} => victim[h] \in Keys
  /\ \A s \in Syncs : pc[s] # "idle" => want[s] \in AskedSync

(* The entries by use, each once. *)
UsedOnce == \A i, n \in DOMAIN lastUse : lastUse[i] = lastUse[n] => i = n

(* A call in the middle of its git commands is at the head of its chain.   *)
Active(h) == pc[h] \in {"adding", "tracking", "removing"}
RepoOf(h) == IF pc[h] = "removing" THEN victim[h][1] ELSE want[h].repo
LockInv == \A h \in Handles : Active(h) => Holds(h, RepoOf(h))

(* The pins are the live handles. *)
Pins(k) == {h \in Handles : Pinning(h) /\ Key(h) = k}
PinsInv ==
  \A k \in Keys : /\ IsFiniteSet(Pins(k))
                  /\ refcount[k] = Cardinality(Pins(k))
                  /\ refcount[k] > 0 => k \in checkouts

(* Nobody has a pin on what is being added or removed.                     *)
AddingAlone ==
  \A h \in Handles : pc[h] = "adding" /\ want[h].mode = "read" => refcount[Key(h)] = 0
RemovingAlone ==
  \A h \in Handles : pc[h] = "removing" => victim[h] \notin checkouts

(* The directory of a handle, from before its pin is taken.                *)
Tracked(h) == Pinning(h) \/ pc[h] = "tracking"
DirInv ==
  \A h \in Handles :
    /\ Tracked(h) => disk[Key(h)].commit = want[h].commit
    /\ want[h].mode = "write" /\ pc[h] \in {"held", "releasing"} =>
         writeDir[h] = want[h].commit

(* What is asked for, once seen in the object store, stays there, with all *)
(* its history.                                                            *)
Closed == \A r \in Repos : \A c \in objects[r] : Reach[c] \subseteq objects[r]
Needs(h) == Working(h) \/ pc[h] \in {"adding", "tracking"}
Kept == \A h \in Handles : Needs(h) => want[h].commit \in objects[want[h].repo]
ObjectsInv == Closed /\ Kept /\ TipComplete

IInv ==
  /\ TypeOK /\ CallTypes /\ UsedOnce /\ LockInv
  /\ PinsInv /\ AddingAlone /\ RemovingAlone /\ DirInv
  /\ ObjectsInv /\ DiskAccountedFor

-----------------------------------------------------------------------------
Places == {"idle", "queued", "adding", "tracking", "evicting", "evictQueued", "removing",
           "held", "releasing", "released", "failed", "asked", "synced"}

HandleStep(h) == LockedStep(h) \/ EvictStep(h) \/ Release(h) \/ ReleaseWrite(h)

(* A call that asked has a repo, a commit and a directory. *)
LEMMA CallFacts ==
  ASSUME CallTypes, NEW h \in Handles, pc[h] # "idle"
  PROVE  /\ want[h] \in Asked /\ want[h].repo \in Repos /\ want[h].commit \in Commits
         /\ want[h].mode \in {"read", "write"}
         /\ Key(h) \in Keys /\ Key(h)[1] = want[h].repo
<1>1. want[h] \in Asked
  BY DEF CallTypes
<1>2. want[h].repo \in Repos /\ want[h].commit \in Commits /\ want[h].mode \in {"read", "write"}
  BY <1>1 DEF Asked
<1>3. CommitKey[want[h].commit] \in ShortKeys
  BY <1>2 DEF ShortKeys
<1>. QED
  BY <1>1, <1>2, <1>3 DEF Key, Keys

LEMMA DirFacts ==
  /\ Absent \in Dirs /\ Absent.commit = NoCommit /\ ~Absent.whole
  /\ \A c \in Commits : /\ Whole(c) \in Dirs /\ Whole(c).commit = c /\ Whole(c).whole
                        /\ Torn(c) \in Dirs /\ Torn(c).commit = c /\ ~Torn(c).whole
  /\ \A d \in Dirs : /\ Populated(d) <=> d.commit \in Commits
                     /\ d.whole => Populated(d)
                     /\ d.commit \in Commits \cup {NoCommit}
BY StoreAssumption DEF Absent, Whole, Torn, Dirs, Populated

(* A removal leaves nothing whole but what was.                            *)
LEMMA RemainsOf ==
  ASSUME NEW d \in Dirs, NEW e \in Remains(d)
  PROVE  e \in Dirs /\ (e.whole => e = d)
BY DirFacts DEF Remains

(* The chains: a call queues at an end or leaves from the head.            *)
LockEffect(h) ==
  \/ lock' = lock
  \/ \E r \in Repos : Enqueue(h, r) \/ (Holds(h, r) /\ Unlock(r))

LEMMA LockTyped ==
  ASSUME lock \in [Repos -> Seq(Calls)], NEW h \in Calls, LockEffect(h)
  PROVE  lock' \in [Repos -> Seq(Calls)]
<1>1. ASSUME NEW r \in Repos, Enqueue(h, r)
      PROVE  lock' \in [Repos -> Seq(Calls)]
  <2>1. Append(lock[r], h) \in Seq(Calls)
    OBVIOUS
  <2>. QED
    BY <1>1, <2>1 DEF Enqueue
<1>2. ASSUME NEW r \in Repos, Holds(h, r), Unlock(r)
      PROVE  lock' \in [Repos -> Seq(Calls)]
  <2>1. Tail(lock[r]) \in Seq(Calls)
    BY <1>2 DEF Holds
  <2>. QED
    BY <1>2, <2>1 DEF Unlock
<1>. QED
  BY <1>1, <1>2 DEF LockEffect

(* Who held a chain and did not step still does.                           *)
LEMMA HoldsOn ==
  ASSUME lock \in [Repos -> Seq(Calls)], NEW h \in Calls, LockEffect(h),
         NEW g \in Calls, g # h, NEW q \in Repos, Holds(g, q)
  PROVE  Holds(g, q)'
<1>1. lock[q] \in Seq(Calls) /\ lock[q] # <<>> /\ Head(lock[q]) = g
  BY DEF Holds
<1>2. ASSUME NEW r \in Repos, Enqueue(h, r)
      PROVE  Holds(g, q)'
  <2>1. lock'[q] = lock[q] \/ lock'[q] = Append(lock[q], h)
    BY <1>2 DEF Enqueue
  <2>2. Append(lock[q], h) # <<>> /\ Head(Append(lock[q], h)) = Head(lock[q])
    BY <1>1
  <2>. QED
    BY <1>1, <2>1, <2>2 DEF Holds
<1>3. ASSUME NEW r \in Repos, Holds(h, r), Unlock(r)
      PROVE  Holds(g, q)'
  <2>1. r # q
    BY <1>1, <1>3 DEF Holds
  <2>2. lock'[q] = lock[q]
    BY <1>3, <2>1 DEF Unlock
  <2>. QED
    BY <1>1, <2>2 DEF Holds
<1>4. CASE lock' = lock
  BY <1>4 DEF Holds
<1>. QED
  BY <1>2, <1>3, <1>4 DEF LockEffect

-----------------------------------------------------------------------------
(* What the steps of a call have in common.                                *)
LEMMA StepFrame ==
  ASSUME NEW h \in Handles, HandleStep(h)
  PROVE  /\ pc[h] # "idle" /\ want' = want /\ UNCHANGED <<stopped, tip, objects, fetches>>
         /\ \E q \in Places \ {"idle", "asked", "synced"} : Goto(h, q)
<1>1. want' = want /\ UNCHANGED <<stopped, tip, objects, fetches>>
  <2>1. CASE LockedStep(h)
    BY <2>1 DEF LockedStep, ResolveFails, ReuseCheckout, ReplaceCheckout, ReplaceCheckoutFails,
       AddCheckout, AddWriteWorktree, WorktreeAdded, WorktreeAddFails, Track, WriteTornDown,
       diskVars, mapVars
  <2>2. CASE EvictStep(h)
    BY <2>2 DEF EvictStep, EvictPick, EvictDone, EvictHalted, EvictReused, EvictRemoves,
       EvictRemoved, diskVars, mapVars
  <2>3. CASE Release(h) \/ ReleaseWrite(h)
    BY <2>3 DEF Release, ReleaseWrite, diskVars, mapVars
  <2>. QED
    BY <2>1, <2>2, <2>3 DEF HandleStep
<1>2. /\ pc[h] # "idle"
      /\ \E q \in {"adding", "tracking", "evicting", "evictQueued", "removing", "held",
                   "releasing", "released", "failed"} : Goto(h, q)
  <2>1. CASE LockedStep(h)
    BY <2>1 DEF LockedStep, ResolveFails, ReuseCheckout, ReplaceCheckout, ReplaceCheckoutFails,
       AddCheckout, AddWriteWorktree, WorktreeAdded, WorktreeAddFails, Track, WriteTornDown,
       Turn
  <2>2. CASE EvictStep(h)
    BY <2>2 DEF EvictStep, EvictPick, EvictDone, EvictHalted, EvictReused, EvictRemoves,
       EvictRemoved, VictimTurn
  <2>3. CASE Release(h) \/ ReleaseWrite(h)
    BY <2>3 DEF Release, ReleaseWrite
  <2>. QED
    BY <2>1, <2>2, <2>3 DEF HandleStep
<1>. QED
  BY <1>1, <1>2 DEF Places

LEMMA StepLocks ==
  ASSUME TypeOK, CallTypes, LockInv, NEW h \in Handles, HandleStep(h)
  PROVE  LockEffect(h)
<1>1. pc[h] # "idle"
  BY StepFrame
<1>2. want[h].repo \in Repos
  BY <1>1, CallFacts
<1>3. pc[h] \in {"evictQueued", "removing"} => victim[h][1] \in Repos
  BY <1>1 DEF CallTypes, Keys
<1>4. pc[h] \in {"adding", "tracking"} => Holds(h, want[h].repo)
  BY DEF LockInv, Active, RepoOf
<1>5. pc[h] = "removing" => Holds(h, victim[h][1])
  BY DEF LockInv, Active, RepoOf
<1>6. CASE LockedStep(h)
  BY <1>2, <1>4, <1>6 DEF LockedStep, ResolveFails, ReuseCheckout, ReplaceCheckout,
     ReplaceCheckoutFails, AddCheckout, AddWriteWorktree, WorktreeAdded, WorktreeAddFails, Track,
     WriteTornDown, Turn, LockEffect
<1>7. CASE EvictStep(h)
  <2>1. CASE EvictPick(h)
    <3>1. PICK k \in Keys : Enqueue(h, k[1])
      BY <2>1 DEF EvictPick, Evictable, TypeOK
    <3>2. k[1] \in Repos
      BY DEF Keys
    <3>. QED
      BY <3>1, <3>2 DEF LockEffect
  <2>. QED
    BY <1>3, <1>5, <1>7, <2>1 DEF EvictStep, EvictDone, EvictHalted, EvictReused, EvictRemoves,
       EvictRemoved, VictimTurn, LockEffect
<1>8. CASE Release(h) \/ ReleaseWrite(h)
  BY <1>2, <1>8 DEF Release, ReleaseWrite, LockEffect
<1>. QED
  BY <1>6, <1>7, <1>8 DEF HandleStep

(* On one chain one call is active. *)
LEMMA Exclusion ==
  ASSUME LockInv, NEW g \in Handles, Active(g), NEW h, NEW r, Holds(h, r), RepoOf(g) = r
  PROVE  g = h
BY DEF LockInv, Holds

(* A checkout directory changes under its repo's lock, unpinned and not    *)
(* waited for; a step that goes on to track has what was asked for.        *)
DiskEffect(h) ==
  \/ disk' = disk /\ (pc'[h] = "tracking" => disk[Key(h)].commit = want[h].commit)
  \/ \E k \in Keys, d \in Dirs :
       /\ disk' = [disk EXCEPT ![k] = d] /\ refcount[k] = 0
       /\ \A g \in Handles \ {h} : pc[g] = "tracking" => Key(g) # k
       /\ pc'[h] = "tracking" => k = Key(h) /\ d = Whole(want[h].commit)

LEMMA StepDisk ==
  ASSUME TypeOK, CallTypes, LockInv, PinsInv, AddingAlone, RemovingAlone,
         NEW h \in Handles, HandleStep(h)
  PROVE  DiskEffect(h)
<1>1. pc[h] # "idle" /\ pc \in [Calls -> Places] /\ h \in Calls
  BY StepFrame DEF TypeOK, Places, Calls
<1>2. /\ want[h].repo \in Repos /\ want[h].commit \in Commits
      /\ want[h].mode \in {"read", "write"} /\ Key(h) \in Keys /\ Key(h)[1] = want[h].repo
  BY <1>1, CallFacts
<1>3. disk \in [Keys -> Dirs]
  BY DEF TypeOK
<1>4. ASSUME NEW k \in Keys, Holds(h, k[1])
      PROVE  \A g \in Handles \ {h} : pc[g] = "tracking" => Key(g) # k
  <2> SUFFICES ASSUME NEW g \in Handles \ {h}, pc[g] = "tracking", Key(g) = k PROVE FALSE
    OBVIOUS
  <2>1. Key(g)[1] = want[g].repo
    BY CallFacts
  <2>2. Active(g) /\ RepoOf(g) = k[1]
    BY <2>1 DEF Active, RepoOf
  <2>. QED
    BY <1>4, <2>2, Exclusion
<1>5. ASSUME NEW q, Goto(h, q) PROVE pc'[h] = q
  BY <1>1, <1>5 DEF Goto
<1>6. CASE disk' = disk
  <2>1. ASSUME pc'[h] = "tracking" PROVE disk[Key(h)].commit = want[h].commit
    <3>1. CASE ReuseCheckout(h)
      BY <3>1 DEF ReuseCheckout, WorktreeHead
    <3>2. CASE WorktreeAdded(h)
      <4>1. want[h].mode = "read"
        BY <1>1, <2>1, <3>2 DEF WorktreeAdded, Goto
      <4>2. disk' = [disk EXCEPT ![Key(h)] = Whole(want[h].commit)]
        BY <3>2, <4>1 DEF WorktreeAdded, SetDir
      <4>. QED
        BY <1>2, <1>3, <1>6, <4>2, DirFacts
    <3>3. \/ ReuseCheckout(h) \/ WorktreeAdded(h)
          \/ \E q \in Places \ {"tracking"} : Goto(h, q)
      BY DEF HandleStep, LockedStep, EvictStep, ResolveFails, ReplaceCheckout,
         ReplaceCheckoutFails, AddCheckout, AddWriteWorktree, WorktreeAddFails, Track,
         WriteTornDown, EvictPick, EvictDone, EvictHalted, EvictReused, EvictRemoves,
         EvictRemoved, Release, ReleaseWrite, Places
    <3>. QED
      BY <1>5, <2>1, <3>1, <3>2, <3>3
  <2>. QED
    BY <1>6, <2>1 DEF DiskEffect
<1>7. ASSUME NEW k \in Keys, NEW d \in Dirs, disk' = [disk EXCEPT ![k] = d], refcount[k] = 0,
             Holds(h, k[1]),
             pc'[h] = "tracking" => k = Key(h) /\ d = Whole(want[h].commit)
      PROVE  DiskEffect(h)
  BY <1>4, <1>7 DEF DiskEffect
<1>8. CASE ReplaceCheckout(h)
  BY <1>2, <1>5, <1>7, <1>8, DirFacts DEF ReplaceCheckout, Turn
<1>9. CASE ReplaceCheckoutFails(h)
  <2>1. PICK d \in Remains(disk[Key(h)]) : disk' = [disk EXCEPT ![Key(h)] = d]
    BY <1>9 DEF ReplaceCheckoutFails
  <2>2. refcount[Key(h)] = 0 /\ Holds(h, want[h].repo) /\ d \in Dirs
    BY <1>2, <1>3, <1>9, <2>1, RemainsOf DEF ReplaceCheckoutFails, Turn
  <2>3. pc'[h] = "failed"
    BY <1>5, <1>9 DEF ReplaceCheckoutFails
  <2>. QED
    BY <1>2, <1>7, <2>1, <2>2, <2>3
<1>10. ASSUME pc[h] = "adding", NEW d \in Dirs, SetDir(h, d),
              pc'[h] = "tracking" => d = Whole(want[h].commit),
              disk' # disk
       PROVE  DiskEffect(h)
  <2>1. want[h].mode = "read" /\ disk' = [disk EXCEPT ![Key(h)] = d]
    BY <1>10 DEF SetDir
  <2>2. refcount[Key(h)] = 0 /\ Holds(h, want[h].repo)
    BY <1>10, <2>1 DEF AddingAlone, LockInv, Active, RepoOf
  <2>. QED
    BY <1>2, <1>7, <1>10, <2>1, <2>2
<1>11. CASE WorktreeAdded(h) /\ disk' # disk
  <2>1. pc[h] = "adding" /\ SetDir(h, Whole(want[h].commit)) /\ want[h].mode = "read"
        /\ Goto(h, "tracking")
    BY <1>11 DEF WorktreeAdded, SetDir
  <2>. QED
    BY <1>2, <1>5, <1>10, <1>11, <2>1, DirFacts
<1>12. CASE WorktreeAddFails(h) /\ disk' # disk
  <2>1. PICK d \in {Absent, Torn(want[h].commit), Whole(want[h].commit)} : SetDir(h, d)
    BY <1>12 DEF WorktreeAddFails
  <2>2. pc[h] = "adding" /\ Goto(h, "failed")
    BY <1>12 DEF WorktreeAddFails
  <2>3. d \in Dirs /\ pc'[h] = "failed"
    BY <1>2, <1>5, <2>2, DirFacts
  <2>. QED
    BY <1>10, <1>12, <2>1, <2>2, <2>3
<1>13. CASE EvictRemoved(h)
  <2>1. pc[h] = "removing" /\ victim[h] \in Keys /\ Holds(h, victim[h][1])
        /\ victim[h] \notin checkouts
    BY <1>1, <1>13 DEF EvictRemoved, CallTypes, LockInv, Active, RepoOf, RemovingAlone
  <2>2. refcount[victim[h]] = 0
    BY <2>1 DEF PinsInv, TypeOK
  <2>3. PICK d \in Remains(disk[victim[h]]) : disk' = [disk EXCEPT ![victim[h]] = d]
    BY <1>13 DEF EvictRemoved
  <2>4. d \in Dirs
    BY <1>3, <2>1, <2>3, RemainsOf
  <2>5. pc'[h] = "evicting"
    BY <1>5, <1>13 DEF EvictRemoved
  <2>. QED
    BY <1>7, <2>1, <2>2, <2>3, <2>4, <2>5
<1>14. \/ disk' = disk \/ ReplaceCheckout(h) \/ ReplaceCheckoutFails(h)
       \/ WorktreeAdded(h) \/ WorktreeAddFails(h) \/ EvictRemoved(h)
  BY DEF HandleStep, LockedStep, EvictStep, ResolveFails, ReuseCheckout, AddCheckout,
     AddWriteWorktree, Track, WriteTornDown, EvictPick, EvictDone, EvictHalted, EvictReused,
     EvictRemoves, Release, ReleaseWrite, diskVars
<1>. QED
  BY <1>6, <1>8, <1>9, <1>11, <1>12, <1>13, <1>14

(* A directory that a step leaves whole and makes nobody's, it leaves      *)
(* among the strays; and strays are whole and not in the map.              *)
StrayEffect(h) ==
  /\ strays' \subseteq Keys
  /\ \A k \in strays' : disk'[k].whole /\ k \notin checkouts'
  /\ \A k \in Keys : disk'[k].whole =>
       \/ k \in strays' \cup checkouts'
       \/ pc'[h] = "tracking" /\ k = Key(h)
       \/ disk[k].whole /\ k \notin strays /\ ~EvictRemoved(h)
       \/ disk[k].whole /\ k \notin strays /\ k # victim[h]

LEMMA StepStrays ==
  ASSUME TypeOK, CallTypes, DiskAccountedFor, NEW h \in Handles, HandleStep(h)
  PROVE  StrayEffect(h)
<1>1. pc[h] # "idle" /\ pc \in [Calls -> Places] /\ h \in Calls
  BY StepFrame DEF TypeOK, Places, Calls
<1>2. Key(h) \in Keys /\ want[h].commit \in Commits
  BY <1>1, CallFacts
<1>3. /\ disk \in [Keys -> Dirs] /\ strays \subseteq Keys
      /\ \A k \in strays : disk[k].whole /\ k \notin checkouts
  BY DEF TypeOK, DiskAccountedFor
<1>4. CASE UNCHANGED <<disk, strays>> /\ checkouts' \subseteq checkouts /\ ~EvictRemoved(h)
  BY <1>3, <1>4 DEF StrayEffect
<1>5. CASE Track(h)
  <2>1. /\ disk' = disk /\ strays' = strays \ {Key(h)} /\ checkouts' = checkouts \cup {Key(h)}
        /\ ~EvictRemoved(h)
    BY <1>5 DEF Track, EvictRemoved
  <2>. QED
    BY <1>3, <2>1 DEF StrayEffect
<1>6. CASE ReplaceCheckout(h)
  <2>1. /\ disk' = [disk EXCEPT ![Key(h)] = Absent] /\ strays' = strays \ {Key(h)}
        /\ checkouts' = checkouts /\ ~EvictRemoved(h)
    BY <1>6 DEF ReplaceCheckout, EvictRemoved, Turn, mapVars
  <2>. QED
    BY <1>2, <1>3, <2>1, DirFacts DEF StrayEffect
<1>7. CASE ReplaceCheckoutFails(h)
  <2>1. PICK d \in Remains(disk[Key(h)]) : disk' = [disk EXCEPT ![Key(h)] = d]
    BY <1>7 DEF ReplaceCheckoutFails
  <2>2. /\ strays' = {k \in strays : disk'[k].whole} /\ checkouts' = checkouts
        /\ ~EvictRemoved(h)
    BY <1>7 DEF ReplaceCheckoutFails, EvictRemoved, Turn, mapVars
  <2>3. \A k \in Keys : disk'[k].whole => disk'[k] = disk[k]
    BY <1>2, <1>3, <2>1, RemainsOf
  <2>. QED
    BY <1>3, <2>2, <2>3 DEF StrayEffect
<1>8. CASE WorktreeAdded(h) /\ want[h].mode = "read"
  <2>1. /\ disk' = [disk EXCEPT ![Key(h)] = Whole(want[h].commit)]
        /\ strays' = strays /\ checkouts' = checkouts /\ Goto(h, "tracking") /\ ~EvictRemoved(h)
    BY <1>8 DEF WorktreeAdded, EvictRemoved, SetDir, mapVars
  <2>2. pc'[h] = "tracking" /\ \A k \in Keys \ {Key(h)} : disk'[k] = disk[k]
    BY <1>1, <1>3, <2>1 DEF Goto
  <2>3. disk'[Key(h)].whole
    BY <1>2, <1>3, <2>1, DirFacts
  <2>. QED
    BY <1>3, <2>1, <2>2, <2>3 DEF StrayEffect
<1>9. ASSUME NEW x \in Keys, NEW d, disk' = [disk EXCEPT ![x] = d], LeftStray(x),
             checkouts' = checkouts, EvictRemoved(h) => x = victim[h]
      PROVE  StrayEffect(h)
  <2>1. \A k \in Keys \ {x} : disk'[k] = disk[k]
    BY <1>3, <1>9
  <2>2. /\ \A k \in Keys \ {x} : k \in strays' <=> k \in strays
        /\ x \in strays' <=> disk'[x].whole /\ x \notin checkouts
        /\ strays' \subseteq Keys
    BY <1>3, <1>9 DEF LeftStray
  <2>. QED
    BY <1>3, <1>9, <2>1, <2>2 DEF StrayEffect
<1>10. CASE WorktreeAddFails(h) /\ want[h].mode = "read"
  <2>1. PICK d : disk' = [disk EXCEPT ![Key(h)] = d]
    BY <1>10 DEF WorktreeAddFails, SetDir
  <2>2. LeftStray(Key(h)) /\ checkouts' = checkouts /\ ~EvictRemoved(h)
    BY <1>10 DEF WorktreeAddFails, EvictRemoved, mapVars
  <2>. QED
    BY <1>2, <1>9, <2>1, <2>2
<1>11. CASE EvictRemoved(h)
  <2>1. PICK d : disk' = [disk EXCEPT ![victim[h]] = d]
    BY <1>11 DEF EvictRemoved
  <2>2. victim[h] \in Keys /\ LeftStray(victim[h]) /\ checkouts' = checkouts
    BY <1>1, <1>11 DEF EvictRemoved, CallTypes, mapVars
  <2>. QED
    BY <1>9, <2>1, <2>2
<1>12. \/ UNCHANGED <<disk, strays>> /\ checkouts' \subseteq checkouts /\ ~EvictRemoved(h)
       \/ Track(h) \/ ReplaceCheckout(h) \/ ReplaceCheckoutFails(h) \/ EvictRemoved(h)
       \/ WorktreeAdded(h) /\ want[h].mode = "read"
       \/ WorktreeAddFails(h) /\ want[h].mode = "read"
  <2>1. CASE LockedStep(h)
    BY <2>1 DEF LockedStep, ResolveFails, ReuseCheckout, AddCheckout, AddWriteWorktree,
       WorktreeAdded, WorktreeAddFails, WriteTornDown, SetDir, diskVars, mapVars
  <2>2. CASE EvictStep(h)
    BY <2>2 DEF EvictStep, EvictPick, EvictDone, EvictHalted, EvictReused, EvictRemoves,
       diskVars, mapVars
  <2>3. CASE Release(h) \/ ReleaseWrite(h)
    BY <2>3 DEF Release, ReleaseWrite, diskVars, mapVars
  <2>. QED
    BY <2>1, <2>2, <2>3 DEF HandleStep
<1>. QED
  BY <1>4, <1>5, <1>6, <1>7, <1>8, <1>10, <1>11, <1>12

(* A call changes its own worktree only, and is held with what it asked.   *)
WriteEffect(h) ==
  \E c \in Commits \cup {NoCommit} :
    /\ writeDir' = [writeDir EXCEPT ![h] = c]
    /\ pc'[h] \in {"held", "releasing"} /\ want[h].mode = "write" =>
         c = want[h].commit

LEMMA StepWriteDir ==
  ASSUME TypeOK, CallTypes, DirInv, NEW h \in Handles, HandleStep(h)
  PROVE  WriteEffect(h)
<1>1. pc[h] # "idle" /\ pc \in [Calls -> Places] /\ h \in Calls
  BY StepFrame DEF TypeOK, Places, Calls
<1>2. want[h].commit \in Commits /\ want[h].mode \in {"read", "write"}
  BY <1>1, CallFacts
<1>3. writeDir \in [Handles -> Commits \cup {NoCommit}]
  BY DEF TypeOK
<1>4. ASSUME NEW q, Goto(h, q) PROVE pc'[h] = q
  BY <1>1, <1>4 DEF Goto
<1>5. ASSUME writeDir' = writeDir,
             \/ pc'[h] \notin {"held", "releasing"} \/ want[h].mode = "read"
             \/ writeDir[h] = want[h].commit
      PROVE  WriteEffect(h)
  <2>1. writeDir' = [writeDir EXCEPT ![h] = writeDir[h]] /\ writeDir[h] \in Commits \cup {NoCommit}
    BY <1>3, <1>5
  <2>. QED
    BY <1>5, <2>1 DEF WriteEffect
<1>6. ASSUME NEW c \in Commits \cup {NoCommit}, writeDir' = [writeDir EXCEPT ![h] = c],
             pc'[h] \notin {"held", "releasing"}
      PROVE  WriteEffect(h)
  BY <1>6 DEF WriteEffect
<1>7. CASE AddWriteWorktree(h)
  BY <1>4, <1>6, <1>7 DEF AddWriteWorktree
<1>8. CASE WorktreeAdded(h)
  <2>1. SetDir(h, Whole(want[h].commit))
    BY <1>8 DEF WorktreeAdded
  <2>2. CASE want[h].mode = "read"
    BY <1>4, <1>5, <1>8, <2>1, <2>2 DEF WorktreeAdded, SetDir
  <2>3. CASE want[h].mode # "read"
    <3>1. writeDir' = [writeDir EXCEPT ![h] = want[h].commit]
      BY <1>2, <2>1, <2>3, DirFacts DEF SetDir
    <3>. QED
      BY <1>2, <3>1 DEF WriteEffect
  <2>. QED
    BY <2>2, <2>3
<1>9. CASE WorktreeAddFails(h)
  <2>1. PICK d \in {Absent, Torn(want[h].commit), Whole(want[h].commit)} : SetDir(h, d)
    BY <1>9 DEF WorktreeAddFails
  <2>2. d.commit \in Commits \cup {NoCommit} /\ pc'[h] = "failed"
    BY <1>2, <1>4, <1>9, <2>1, DirFacts DEF WorktreeAddFails
  <2>. QED
    BY <1>5, <1>6, <2>1, <2>2 DEF SetDir
<1>10. CASE WriteTornDown(h) /\ writeDir' # writeDir
  <2>1. writeDir' = [writeDir EXCEPT ![h] = NoCommit]
    BY <1>10 DEF WriteTornDown
  <2>2. pc'[h] = "released"
    BY <1>4, <1>10 DEF WriteTornDown
  <2>. QED
    BY <1>6, <2>1, <2>2
<1>11. CASE ReleaseWrite(h)
  <2>1. writeDir' = writeDir /\ writeDir[h] = want[h].commit
    BY <1>1, <1>11 DEF ReleaseWrite, DirInv, diskVars
  <2>. QED
    BY <1>5, <2>1
<1>12. CASE EvictDone(h) \/ EvictHalted(h)
  <2>1. want[h].mode = "read" /\ writeDir' = writeDir
    BY <1>1, <1>12 DEF EvictDone, EvictHalted, VictimTurn, CallTypes, diskVars
  <2>. QED
    BY <1>5, <2>1
<1>13. \/ AddWriteWorktree(h) \/ WorktreeAdded(h) \/ WorktreeAddFails(h)
       \/ WriteTornDown(h) \/ ReleaseWrite(h) \/ EvictDone(h) \/ EvictHalted(h)
       \/ /\ writeDir' = writeDir
          /\ \E q \in Places \ {"held", "releasing"} : Goto(h, q)
  <2>1. CASE LockedStep(h)
    BY <2>1 DEF LockedStep, ResolveFails, ReuseCheckout, ReplaceCheckout, ReplaceCheckoutFails,
       AddCheckout, Track, diskVars, Places
  <2>2. CASE EvictStep(h)
    BY <2>2 DEF EvictStep, EvictPick, EvictReused, EvictRemoves, EvictRemoved, diskVars, Places
  <2>3. CASE Release(h) \/ ReleaseWrite(h)
    BY <2>3 DEF Release, diskVars, Places
  <2>. QED
    BY <2>1, <2>2, <2>3 DEF HandleStep
<1>14. CASE WriteTornDown(h) /\ writeDir' = writeDir
  <2>1. pc'[h] = "released"
    BY <1>4, <1>14 DEF WriteTornDown
  <2>. QED
    BY <1>5, <1>14, <2>1
<1>15. CASE writeDir' = writeDir /\ \E q \in Places \ {"held", "releasing"} : Goto(h, q)
  BY <1>4, <1>5, <1>15
<1>. QED
  BY <1>7, <1>8, <1>9, <1>10, <1>11, <1>12, <1>13, <1>14, <1>15

-----------------------------------------------------------------------------
(* The entries by use. *)
LEMMA RemoveAtOf ==
  ASSUME NEW S, NEW s \in Seq(S), NEW i \in 1..Len(s)
  PROVE  /\ RemoveAt(s, i) \in Seq(S) /\ Len(RemoveAt(s, i)) = Len(s) - 1
         /\ \A n \in 1..(Len(s) - 1) : RemoveAt(s, i)[n] = IF n < i THEN s[n] ELSE s[n + 1]
<1> DEFINE a == SubSeq(s, 1, i - 1)
           b == SubSeq(s, i + 1, Len(s))
<1>1. a \in Seq(S) /\ Len(a) = i - 1 /\ \A n \in 1..(i - 1) : a[n] = s[n]
  BY SubSeqProperties
<1>2. b \in Seq(S) /\ Len(b) = Len(s) - i /\ \A n \in 1..(Len(s) - i) : b[n] = s[i + n]
  BY SubSeqProperties
<1>3. RemoveAt(s, i) = a \o b
  BY DEF RemoveAt
<1> HIDE DEF a, b
<1>4. /\ a \o b \in Seq(S) /\ Len(a \o b) = Len(a) + Len(b)
      /\ \A n \in 1..(Len(a) + Len(b)) : (a \o b)[n] = IF n <= Len(a) THEN a[n] ELSE b[n - Len(a)]
  BY <1>1, <1>2, ConcatProperties
<1>5. Len(a) + Len(b) = Len(s) - 1
  BY <1>1, <1>2
<1>6. ASSUME NEW n \in 1..(Len(s) - 1)
      PROVE  (a \o b)[n] = IF n < i THEN s[n] ELSE s[n + 1]
  <2>1. (a \o b)[n] = IF n <= Len(a) THEN a[n] ELSE b[n - Len(a)]
    BY <1>4, <1>5
  <2>2. CASE n < i
    BY <1>1, <2>1, <2>2
  <2>3. CASE ~(n < i)
    <3>1. n - Len(a) \in 1..(Len(s) - i) /\ i + (n - Len(a)) = n + 1
      BY <1>1, <2>3
    <3>2. b[n - Len(a)] = s[n + 1]
      BY <1>2, <3>1
    <3>. QED
      BY <1>1, <2>1, <2>3, <3>2
  <2>. QED
    BY <2>2, <2>3
<1>. QED
  BY <1>3, <1>4, <1>5, <1>6

OnceIn(s) == \A i, n \in DOMAIN s : s[i] = s[n] => i = n

LEMMA WithoutOf ==
  ASSUME NEW S, lastUse \in Seq(S), UsedOnce, NEW k
  PROVE  Without(k) \in Seq(S \ {k}) /\ OnceIn(Without(k))
<1> DEFINE at == {i \in DOMAIN lastUse : lastUse[i] = k}
<1>1. CASE at = {}
  <2>1. Without(k) = lastUse
    BY <1>1 DEF Without
  <2>2. \A i \in 1..Len(lastUse) : lastUse[i] \in S \ {k}
    BY <1>1
  <2>3. lastUse \in Seq(S \ {k})
    BY <2>2
  <2>. QED
    BY <2>1, <2>3 DEF UsedOnce, OnceIn
<1>2. CASE at # {}
  <2> DEFINE i == CHOOSE i \in at : TRUE
             s == RemoveAt(lastUse, i)
  <2>1. Without(k) = s
    BY <1>2 DEF Without
  <2>2. i \in 1..Len(lastUse) /\ lastUse[i] = k
    BY <1>2
  <2> HIDE DEF i, at
  <2>3. /\ s \in Seq(S) /\ Len(s) = Len(lastUse) - 1
        /\ \A n \in 1..(Len(lastUse) - 1) : s[n] = IF n < i THEN lastUse[n] ELSE lastUse[n + 1]
    BY <2>2, RemoveAtOf
  <2> HIDE DEF s
  <2>4. \A n \in 1..Len(s) : \E m \in 1..Len(lastUse) :
          s[n] = lastUse[m] /\ m # i /\ m = IF n < i THEN n ELSE n + 1
    BY <2>2, <2>3
  <2>5. \A m \in 1..Len(lastUse) : lastUse[m] = k => m = i
    BY <2>2 DEF UsedOnce
  <2>6. \A n \in 1..Len(s) : s[n] \in S \ {k}
    BY <2>3, <2>4, <2>5
  <2>7. s \in Seq(S \ {k})
    BY <2>3, <2>6
  <2>8. ASSUME NEW n \in DOMAIN s, NEW m \in DOMAIN s, s[n] = s[m]
        PROVE  n = m
    <3>1. n \in 1..Len(s) /\ m \in 1..Len(s)
      BY <2>3
    <3>2. PICK x \in 1..Len(lastUse) : s[n] = lastUse[x] /\ x = IF n < i THEN n ELSE n + 1
      BY <2>4, <3>1
    <3>3. PICK y \in 1..Len(lastUse) : s[m] = lastUse[y] /\ y = IF m < i THEN m ELSE m + 1
      BY <2>4, <3>1
    <3>5. lastUse[x] = lastUse[y]
      BY <2>8, <3>2, <3>3
    <3>6. DOMAIN lastUse = 1..Len(lastUse)
      OBVIOUS
    <3>4. x = y
      BY <3>5, <3>6 DEF UsedOnce
    <3>. QED
      BY <2>2, <3>1, <3>2, <3>3, <3>4
  <2>. QED
    BY <2>1, <2>7, <2>8 DEF OnceIn
<1>. QED
  BY <1>1, <1>2

LEMMA AppendOnce ==
  ASSUME NEW S, NEW k, NEW s \in Seq(S \ {k}), OnceIn(s)
  PROVE  Append(s, k) \in Seq(S \cup {k}) /\ OnceIn(Append(s, k))
<1>1. /\ Len(Append(s, k)) = Len(s) + 1
      /\ \A n \in 1..Len(s) : Append(s, k)[n] = s[n] /\ s[n] \in S \ {k}
      /\ Append(s, k)[Len(s) + 1] = k
      /\ DOMAIN Append(s, k) = 1..(Len(s) + 1) /\ DOMAIN s = 1..Len(s)
  OBVIOUS
<1>2. s \in Seq(S \cup {k})
  BY <1>1
<1>3. Append(s, k) \in Seq(S \cup {k})
  BY <1>2
<1>4. ASSUME NEW n \in 1..(Len(s) + 1), NEW m \in 1..(Len(s) + 1),
             Append(s, k)[n] = Append(s, k)[m]
      PROVE  n = m
  <2>1. CASE n \in 1..Len(s) /\ m \in 1..Len(s)
    BY <1>1, <1>4, <2>1 DEF OnceIn
  <2>2. CASE n = Len(s) + 1 \/ m = Len(s) + 1
    BY <1>1, <1>4, <2>2
  <2>. QED
    BY <2>1, <2>2
<1>. QED
  BY <1>1, <1>3, <1>4 DEF OnceIn

-----------------------------------------------------------------------------
(* The map and its pins change where a call tracks, evicts or releases.    *)
LEMMA StepMap ==
  ASSUME NEW h \in Handles, HandleStep(h)
  PROVE  UNCHANGED mapVars \/ Track(h) \/ EvictPick(h) \/ Release(h)
<1>1. CASE LockedStep(h)
  BY <1>1 DEF LockedStep, ResolveFails, ReuseCheckout, ReplaceCheckout, ReplaceCheckoutFails,
     AddCheckout, AddWriteWorktree, WorktreeAdded, WorktreeAddFails, WriteTornDown
<1>2. CASE EvictStep(h)
  BY <1>2 DEF EvictStep, EvictDone, EvictHalted, EvictReused, EvictRemoves, EvictRemoved
<1>3. CASE ReleaseWrite(h)
  BY <1>3 DEF ReleaseWrite
<1>. QED
  BY <1>1, <1>2, <1>3 DEF HandleStep

MapTyped ==
  /\ checkouts \subseteq Keys /\ lastUse \in Seq(checkouts) /\ refcount \in [Keys -> Nat]
  /\ UsedOnce

LEMMA StepMapTyped ==
  ASSUME TypeOK, CallTypes, UsedOnce, NEW h \in Handles, HandleStep(h)
  PROVE  MapTyped'
<1>1. /\ checkouts \subseteq Keys /\ lastUse \in Seq(checkouts)
      /\ refcount \in [Keys -> Nat]
  BY DEF TypeOK
<1>2. Key(h) \in Keys
  BY StepFrame, CallFacts
<1>3. CASE UNCHANGED mapVars
  BY <1>1, <1>3 DEF MapTyped, UsedOnce, mapVars
<1>4. CASE Track(h)
  <2> DEFINE k == Key(h)
             s == Without(k)
  <2>1. /\ checkouts' = checkouts \cup {k} /\ lastUse' = Append(s, k)
        /\ refcount' = [refcount EXCEPT ![k] = @ + 1]
    BY <1>4 DEF Track
  <2>2. s \in Seq(checkouts \ {k}) /\ OnceIn(s)
    BY <1>1, WithoutOf
  <2> HIDE DEF s, k
  <2>3. Append(s, k) \in Seq(checkouts \cup {k}) /\ OnceIn(Append(s, k))
    BY <2>2, AppendOnce
  <2>4. k \in Keys
    BY <1>2 DEF k
  <2>5. checkouts' \subseteq Keys /\ refcount' \in [Keys -> Nat]
    BY <1>1, <2>1, <2>4
  <2>6. UsedOnce'
    BY <2>1, <2>3 DEF OnceIn, UsedOnce
  <2>. QED
    BY <2>1, <2>3, <2>5, <2>6 DEF MapTyped
<1>5. CASE EvictPick(h)
  <2>1. PICK k \in checkouts : /\ checkouts' = checkouts \ {k} /\ lastUse' = Without(k)
                               /\ refcount' = refcount
    BY <1>5 DEF EvictPick, Evictable
  <2>2. Without(k) \in Seq(checkouts \ {k}) /\ OnceIn(Without(k))
    BY <1>1, WithoutOf
  <2>3. UsedOnce'
    BY <2>1, <2>2 DEF OnceIn, UsedOnce
  <2>. QED
    BY <1>1, <2>1, <2>2, <2>3 DEF MapTyped
<1>6. CASE Release(h)
  <2>1. /\ UNCHANGED <<checkouts, lastUse>>
        /\ refcount' = [refcount EXCEPT ![Key(h)] = IF Key(h) \in checkouts /\ @ > 0
                                                    THEN @ - 1 ELSE @]
    BY <1>6 DEF Release
  <2>2. refcount' \in [Keys -> Nat]
    BY <1>1, <1>2, <2>1
  <2>. QED
    BY <1>1, <2>1, <2>2 DEF MapTyped, UsedOnce
<1>. QED
  BY <1>3, <1>4, <1>5, <1>6, StepMap

(* An entry is a call's victim from the pass that drops it to its removal. *)
VictimEffect(h) ==
  \E k \in Keys \cup {NoKey} :
    /\ victim' = [victim EXCEPT ![h] = k]
    /\ pc'[h] \in {"evictQueued", "removing"} => k \in Keys

LEMMA StepVictim ==
  ASSUME TypeOK, CallTypes, NEW h \in Handles, HandleStep(h)
  PROVE  VictimEffect(h)
<1>1. pc[h] # "idle" /\ pc \in [Calls -> Places] /\ h \in Calls
  BY StepFrame DEF TypeOK, Places, Calls
<1>2. ASSUME NEW q, Goto(h, q) PROVE pc'[h] = q
  BY <1>1, <1>2 DEF Goto
<1>3. victim \in [Handles -> Keys \cup {NoKey}]
  BY DEF CallTypes
<1>4. ASSUME victim' = victim, NEW q \in Places, Goto(h, q),
             q \notin {"evictQueued", "removing"} \/ victim[h] \in Keys
      PROVE  VictimEffect(h)
  <2>1. victim' = [victim EXCEPT ![h] = victim[h]] /\ victim[h] \in Keys \cup {NoKey}
    BY <1>3, <1>4
  <2>. QED
    BY <1>2, <1>4, <2>1 DEF VictimEffect
<1>5. ASSUME victim' = [victim EXCEPT ![h] = NoKey], NEW q \in Places, Goto(h, q),
             q \notin {"evictQueued", "removing"}
      PROVE  VictimEffect(h)
  BY <1>2, <1>5 DEF VictimEffect
<1>6. CASE LockedStep(h) \/ Release(h) \/ ReleaseWrite(h)
  <2>1. victim' = victim /\ \E q \in Places \ {"evictQueued", "removing"} : Goto(h, q)
    BY <1>6 DEF LockedStep, ResolveFails, ReuseCheckout, ReplaceCheckout, ReplaceCheckoutFails,
       AddCheckout, AddWriteWorktree, WorktreeAdded, WorktreeAddFails, Track, WriteTornDown,
       Release, ReleaseWrite, Places
  <2>. QED
    BY <1>4, <2>1
<1>7. CASE EvictPick(h)
  <2>1. PICK k \in Keys : victim' = [victim EXCEPT ![h] = k]
    BY <1>7 DEF EvictPick, Evictable, TypeOK
  <2>. QED
    BY <2>1 DEF VictimEffect
<1>8. CASE EvictDone(h)
  BY <1>4, <1>8 DEF EvictDone, Places
<1>9. CASE EvictHalted(h) \/ EvictReused(h) \/ EvictRemoved(h)
  BY <1>5, <1>9 DEF EvictHalted, EvictReused, EvictRemoved, Places
<1>10. CASE EvictRemoves(h)
  BY <1>1, <1>4, <1>10 DEF EvictRemoves, VictimTurn, CallTypes, Places
<1>. QED
  BY <1>6, <1>7, <1>8, <1>9, <1>10 DEF HandleStep, EvictStep

LEMMA StepTypes ==
  ASSUME IInv, NEW h \in Handles, HandleStep(h)
  PROVE  TypeOK' /\ UsedOnce'
<1>1. TypeOK /\ CallTypes /\ DiskEffect(h) /\ WriteEffect(h) /\ LockEffect(h) /\ MapTyped'
      /\ VictimEffect(h) /\ StrayEffect(h)
  BY StepDisk, StepWriteDir, StepLocks, StepMapTyped, StepVictim, StepStrays DEF IInv
<1>2. UNCHANGED <<stopped, tip, objects, fetches>> /\ \E q \in Places : Goto(h, q)
  BY StepFrame
<1>3. /\ stopped' \in BOOLEAN /\ tip' \in [Repos -> Commits \cup {NoCommit}]
      /\ objects' \in [Repos -> SUBSET Commits]
      /\ fetches' \in [Repos -> 0..(GcAfterFetches - 1)]
  BY <1>1, <1>2 DEF TypeOK
<1>4. disk' \in [Keys -> Dirs] /\ strays' \subseteq Keys
  BY <1>1 DEF TypeOK, DiskEffect, StrayEffect
<1>5. writeDir' \in [Handles -> Commits \cup {NoCommit}]
  BY <1>1 DEF TypeOK, WriteEffect
<1>6. h \in Calls /\ lock' \in [Repos -> Seq(Calls)]
  BY <1>1, LockTyped DEF TypeOK, Calls
<1>7. pc' \in [Calls -> Places]
  BY <1>1, <1>2, <1>6 DEF TypeOK, Goto, Places
<1>8. victim' \in [Handles -> Keys \cup {NoKey}]
  BY <1>1 DEF CallTypes, VictimEffect
<1>. QED
  BY <1>1, <1>3, <1>4, <1>5, <1>6, <1>7, <1>8 DEF TypeOK, MapTyped, Places

-----------------------------------------------------------------------------
(* What a step of h leaves of the other calls. *)
OthersRest(h) ==
  /\ want' = want
  /\ \A x \in Calls \ {h} : pc'[x] = pc[x]
  /\ \A g \in Handles \ {h} : victim'[g] = victim[g] /\ writeDir'[g] = writeDir[g]

LEMMA StepOthers ==
  ASSUME IInv, NEW h \in Handles, HandleStep(h)
  PROVE  OthersRest(h) /\ h \in Calls
<1>1. /\ pc \in [Calls -> Places] /\ victim \in [Handles -> Keys \cup {NoKey}]
      /\ writeDir \in [Handles -> Commits \cup {NoCommit}]
  BY DEF IInv, TypeOK, CallTypes, Places
<1>2. WriteEffect(h) /\ VictimEffect(h) /\ want' = want /\ \E q \in Places : Goto(h, q)
  BY StepWriteDir, StepVictim, StepFrame DEF IInv
<1>3. \A x \in Calls \ {h} : pc'[x] = pc[x]
  BY <1>1, <1>2 DEF Goto
<1>4. \A g \in Handles \ {h} : victim'[g] = victim[g]
  BY <1>1, <1>2 DEF VictimEffect
<1>5. \A g \in Handles \ {h} : writeDir'[g] = writeDir[g]
  BY <1>1, <1>2 DEF WriteEffect
<1>. QED
  BY <1>2, <1>3, <1>4, <1>5 DEF OthersRest, Calls

(* Where h may get, and what it needs for that. *)
Arrives(h) ==
  /\ pc'[h] \notin {"idle", "asked", "synced"}
  /\ pc'[h] \in {"tracking", "evicting", "evictQueued", "removing"} => want[h].mode = "read"
  /\ pc'[h] = "releasing" => want[h].mode = "write"
  /\ pc'[h] \in {"adding", "tracking"} =>
       /\ lock' = lock /\ Holds(h, want[h].repo) /\ UNCHANGED mapVars
       /\ want[h].commit \in objects[want[h].repo]
  /\ pc'[h] = "adding" /\ want[h].mode = "read" => refcount[Key(h)] = 0
  /\ pc'[h] = "removing" =>
       /\ lock' = lock /\ victim' = victim /\ UNCHANGED mapVars
       /\ Holds(h, victim[h][1]) /\ victim[h] \notin checkouts
  /\ pc'[h] \in {"evicting", "evictQueued", "removing", "held"} =>
       pc[h] \in {"adding", "tracking", "evicting", "evictQueued", "removing"}

LEMMA StepArrives ==
  ASSUME IInv, NEW h \in Handles, HandleStep(h)
  PROVE  Arrives(h)
<1>1. /\ pc[h] # "idle" /\ pc \in [Calls -> Places] /\ h \in Calls
      /\ TypeOK /\ CallTypes /\ LockInv /\ Kept /\ DirInv /\ PinsInv
  BY StepFrame DEF IInv, TypeOK, Places, Calls, ObjectsInv
<1>2. /\ want[h].repo \in Repos /\ want[h].commit \in Commits /\ Key(h) \in Keys
      /\ want[h].mode \in {"read", "write"}
  BY <1>1, CallFacts
<1>3. ASSUME NEW q, Goto(h, q) PROVE pc'[h] = q
  BY <1>1, <1>3 DEF Goto
<1>4. /\ pc[h] \in {"tracking", "evicting", "evictQueued", "removing"} => want[h].mode = "read"
  BY <1>1 DEF CallTypes
<1>5. /\ pc[h] \in {"adding", "tracking"} => Holds(h, want[h].repo)
      /\ pc[h] \in {"adding", "tracking"} => want[h].commit \in objects[want[h].repo]
  BY <1>1 DEF LockInv, Active, RepoOf, Kept, Needs
<1>6. ASSUME NEW q, Goto(h, q), q \in {"held", "evicting"}, want[h].mode = "write" => q = "held",
             pc[h] \in {"adding", "tracking", "evicting", "evictQueued", "removing"}
      PROVE  Arrives(h)
  BY <1>2, <1>3, <1>6 DEF Arrives
<1>7. ASSUME NEW q \in {"failed", "released"}, Goto(h, q)
      PROVE  Arrives(h)
  BY <1>3, <1>7 DEF Arrives
<1>8. ASSUME Goto(h, "adding"), pc[h] = "queued", Holds(h, want[h].repo), Synced(h), lock' = lock,
             UNCHANGED mapVars, want[h].mode = "read" => refcount[Key(h)] = 0
      PROVE  Arrives(h)
  <2>1. pc'[h] = "adding"
    BY <1>3, <1>8
  <2>. QED
    BY <1>8, <2>1 DEF Arrives, Synced, CommitPresent
<1>9. ASSUME NEW q, Goto(h, q), q = "tracking", want[h].mode = "read", Holds(h, want[h].repo),
             want[h].commit \in objects[want[h].repo], lock' = lock, UNCHANGED mapVars
      PROVE  Arrives(h)
  <2>1. pc'[h] = "tracking"
    BY <1>3, <1>9
  <2>. QED
    BY <1>9, <2>1 DEF Arrives
<1>10. CASE ResolveFails(h) \/ ReplaceCheckoutFails(h) \/ WorktreeAddFails(h) \/ WriteTornDown(h)
  BY <1>7, <1>10 DEF ResolveFails, ReplaceCheckoutFails, WorktreeAddFails, WriteTornDown
<1>11. CASE ReuseCheckout(h)
  BY <1>9, <1>11 DEF ReuseCheckout, Turn, Synced, CommitPresent
<1>12. CASE ReplaceCheckout(h)
  BY <1>8, <1>12 DEF ReplaceCheckout, Turn
<1>13. CASE AddCheckout(h)
  <2>1. disk[Key(h)] = Absent
    BY <1>13 DEF AddCheckout, Populated
  <2>2. ASSUME NEW g \in Pins(Key(h)) PROVE FALSE
    <3>1. g \in Handles /\ Pinning(g) /\ Key(g) = Key(h)
      BY <2>2 DEF Pins
    <3>2. disk[Key(g)].commit = want[g].commit
      BY <1>1, <3>1 DEF DirInv, Tracked
    <3>3. want[g].commit \in Commits
      BY <1>1, <3>1, CallFacts DEF Pinning
    <3>. QED
      BY <2>1, <3>1, <3>2, <3>3, StoreAssumption DEF Absent
  <2>3. refcount[Key(h)] = 0
    BY <1>1, <1>2, <2>2, FS_EmptySet DEF PinsInv
  <2>. QED
    BY <1>8, <1>13, <2>3 DEF AddCheckout, Turn
<1>14. CASE AddWriteWorktree(h)
  BY <1>8, <1>14 DEF AddWriteWorktree, Turn
<1>15. CASE WorktreeAdded(h)
  <2>1. CASE want[h].mode = "read"
    BY <1>5, <1>9, <1>15, <2>1 DEF WorktreeAdded
  <2>2. CASE want[h].mode # "read"
    BY <1>2, <1>6, <1>15, <2>2 DEF WorktreeAdded
  <2>. QED
    BY <2>1, <2>2
<1>16. CASE Track(h)
  BY <1>4, <1>6, <1>16 DEF Track
<1>17. CASE EvictPick(h)
  <2>1. pc'[h] = "evictQueued" /\ pc[h] = "evicting"
    BY <1>3, <1>17 DEF EvictPick
  <2>. QED
    BY <1>4, <2>1 DEF Arrives
<1>18. CASE EvictDone(h) \/ EvictHalted(h) \/ EvictReused(h) \/ EvictRemoved(h)
  BY <1>4, <1>6, <1>18 DEF EvictDone, EvictHalted, EvictReused, EvictRemoved, VictimTurn
<1>19. CASE EvictRemoves(h)
  <2>1. pc'[h] = "removing" /\ pc[h] = "evictQueued" /\ lock' = lock /\ victim' = victim
        /\ UNCHANGED mapVars /\ Holds(h, victim[h][1]) /\ victim[h] \notin checkouts
    BY <1>3, <1>19 DEF EvictRemoves, VictimTurn
  <2>. QED
    BY <1>4, <2>1 DEF Arrives
<1>20. CASE Release(h)
  BY <1>7, <1>20 DEF Release
<1>21. CASE ReleaseWrite(h)
  <2>1. pc'[h] \in {"released", "releasing"} /\ want[h].mode = "write"
    BY <1>3, <1>21 DEF ReleaseWrite
  <2>. QED
    BY <2>1 DEF Arrives
<1>. QED
  BY <1>10, <1>11, <1>12, <1>13, <1>14, <1>15, <1>16, <1>17, <1>18, <1>19, <1>20, <1>21
     DEF HandleStep, LockedStep, EvictStep

-----------------------------------------------------------------------------
(* Each part of the invariant, over a step of h.                           *)
LEMMA StepCalls ==
  ASSUME IInv, NEW h \in Handles, HandleStep(h)
  PROVE  CallTypes'
<1>1. /\ CallTypes /\ OthersRest(h) /\ h \in Calls /\ Arrives(h) /\ VictimEffect(h)
      /\ want[h] \in Asked /\ pc[h] # "idle"
  BY StepOthers, StepArrives, StepVictim, StepFrame, CallFacts DEF IInv
<1>2. victim' \in [Handles -> Keys \cup {NoKey}]
  BY <1>1 DEF CallTypes, VictimEffect
<1>3. pc'[h] \in {"evictQueued", "removing"} => victim'[h] \in Keys
  BY <1>1 DEF CallTypes, VictimEffect
<1>4. want' = want /\ want' \in [Calls -> Asked \cup AskedSync \cup {NoWant}]
  BY <1>1 DEF OthersRest, CallTypes
<1>5. ASSUME NEW g \in Handles, pc'[g] # "idle"
      PROVE  /\ want'[g] \in Asked
             /\ pc'[g] \notin {"asked", "synced"}
             /\ pc'[g] \in {"tracking", "evicting", "evictQueued", "removing"} =>
                  want'[g].mode = "read"
             /\ pc'[g] = "releasing" => want'[g].mode = "write"
             /\ pc'[g] \in {"evictQueued", "removing"} => victim'[g] \in Keys
  <2>1. CASE g = h
    BY <1>1, <1>3, <1>4, <2>1 DEF Arrives
  <2>2. CASE g # h
    <3>1. pc'[g] = pc[g] /\ victim'[g] = victim[g]
      BY <1>1, <2>2 DEF OthersRest, Calls
    <3>. QED
      BY <1>1, <1>4, <1>5, <3>1 DEF CallTypes
  <2>. QED
    BY <2>1, <2>2
<1>6. ASSUME NEW s \in Syncs, pc'[s] # "idle"
      PROVE  want'[s] \in AskedSync
  <2>1. s # h /\ s \in Calls
    BY StoreAssumption DEF Calls
  <2>2. pc'[s] = pc[s]
    BY <1>1, <2>1 DEF OthersRest
  <2>. QED
    BY <1>1, <1>4, <1>6, <2>2 DEF CallTypes
<1>. QED
  BY <1>2, <1>4, <1>5, <1>6 DEF CallTypes

LEMMA StepChains ==
  ASSUME IInv, NEW h \in Handles, HandleStep(h)
  PROVE  LockInv'
<1>1. /\ LockInv /\ CallTypes /\ OthersRest(h) /\ h \in Calls /\ Arrives(h) /\ LockEffect(h)
      /\ lock \in [Repos -> Seq(Calls)] /\ want' = want
  BY StepOthers, StepArrives, StepLocks DEF IInv, TypeOK, OthersRest
<1> SUFFICES ASSUME NEW g \in Handles, Active(g)'
             PROVE  Holds(g, RepoOf(g))'
  BY DEF LockInv
<1>2. CASE g = h
  BY <1>1, <1>2 DEF Arrives, Active, RepoOf, Holds
<1>3. CASE g # h
  <2>1. pc'[g] = pc[g] /\ victim'[g] = victim[g] /\ g \in Calls
    BY <1>1, <1>3 DEF OthersRest, Calls
  <2>2. Active(g) /\ RepoOf(g)' = RepoOf(g)
    BY <1>1, <2>1 DEF Active, RepoOf
  <2>3. Holds(g, RepoOf(g))
    BY <1>1, <2>2 DEF LockInv
  <2>4. RepoOf(g) \in Repos
    <3>1. pc[g] # "idle"
      BY <2>2 DEF Active
    <3>2. want[g].repo \in Repos
      BY <1>1, <3>1, CallFacts
    <3>3. pc[g] = "removing" => victim[g][1] \in Repos
      BY <1>1 DEF CallTypes, Keys
    <3>. QED
      BY <3>2, <3>3 DEF RepoOf
  <2> DEFINE q == RepoOf(g)
  <2>5. Holds(g, q)'
    <3> PICK p \in Repos : p = q
      BY <2>4
    <3>1. Holds(g, p)'
      BY <1>1, <1>3, <2>1, <2>3, HoldsOn
    <3>2. q' = p
      BY <2>2
    <3>. QED
      BY <3>1, <3>2 DEF Holds
  <2>. QED
    BY <2>5
<1>. QED
  BY <1>2, <1>3

LEMMA StepPinning ==
  ASSUME IInv, NEW h \in Handles, HandleStep(h)
  PROVE  Track(h) \/ Release(h) \/ (Pinning(h)' <=> Pinning(h))
<1>1. pc \in [Calls -> Places] /\ h \in Calls /\ want' = want /\ pc[h] # "idle"
  BY StepFrame DEF IInv, TypeOK, Places, Calls
<1>2. ASSUME NEW q, Goto(h, q) PROVE pc'[h] = q
  BY <1>1, <1>2 DEF Goto
<1>3. want[h].mode \in {"read", "write"}
  BY <1>1, CallFacts DEF IInv
<1>4. CASE LockedStep(h) /\ ~Track(h)
  <2>1. pc[h] \in {"queued", "adding", "releasing"}
    BY <1>4 DEF LockedStep, ResolveFails, ReuseCheckout, ReplaceCheckout, ReplaceCheckoutFails,
       AddCheckout, AddWriteWorktree, WorktreeAdded, WorktreeAddFails, WriteTornDown, Turn
  <2>2. CASE WorktreeAdded(h)
    <3>1. pc'[h] = "tracking" \/ want[h].mode # "read"
      BY <1>2, <2>2 DEF WorktreeAdded
    <3>. QED
      BY <1>1, <2>1, <3>1 DEF Pinning
  <2>3. CASE ~WorktreeAdded(h)
    <3>1. \E q \in {"failed", "tracking", "adding", "released"} : Goto(h, q)
      BY <1>4, <2>3 DEF LockedStep, ResolveFails, ReuseCheckout, ReplaceCheckout,
         ReplaceCheckoutFails, AddCheckout, AddWriteWorktree, WorktreeAddFails, WriteTornDown
    <3>2. pc'[h] \in {"failed", "tracking", "adding", "released"}
      BY <1>2, <3>1
    <3>. QED
      BY <2>1, <3>2 DEF Pinning
  <2>. QED
    BY <2>2, <2>3
<1>5. CASE EvictStep(h)
  <2>1. pc[h] \in {"evicting", "evictQueued", "removing"}
    BY <1>5 DEF EvictStep, EvictPick, EvictDone, EvictHalted, EvictReused, EvictRemoves,
       EvictRemoved, VictimTurn
  <2>2. \E q \in {"evicting", "evictQueued", "removing", "held"} : Goto(h, q)
    BY <1>5 DEF EvictStep, EvictPick, EvictDone, EvictHalted, EvictReused, EvictRemoves,
       EvictRemoved
  <2>3. pc'[h] \in {"evicting", "evictQueued", "removing", "held"}
    BY <1>2, <2>2
  <2>. QED
    BY <1>1, <2>1, <2>3 DEF Pinning
<1>6. CASE ReleaseWrite(h)
  BY <1>1, <1>6 DEF ReleaseWrite, Pinning
<1>. QED
  BY <1>4, <1>5, <1>6 DEF HandleStep

LEMMA StepPins ==
  ASSUME IInv, NEW h \in Handles, HandleStep(h)
  PROVE  PinsInv'
<1>1. /\ PinsInv /\ CallTypes /\ OthersRest(h) /\ h \in Calls /\ want' = want
      /\ refcount \in [Keys -> Nat] /\ Key(h) \in Keys
      /\ \A k \in Keys : IsFiniteSet(Pins(k)) /\ refcount[k] = Cardinality(Pins(k))
                         /\ (refcount[k] > 0 => k \in checkouts)
  BY StepOthers, StepFrame, CallFacts DEF IInv, TypeOK, OthersRest, PinsInv
<1>2. ASSUME NEW g \in Handles, g # h
      PROVE  Pinning(g)' <=> Pinning(g)
  BY <1>1, <1>2 DEF OthersRest, Calls, Pinning
<1>3. \A g \in Handles : Key(g)' = Key(g)
  BY <1>1 DEF Key
<1>4. ASSUME Pinning(h)' <=> Pinning(h), refcount' = refcount,
             \A k \in checkouts : k \in checkouts' \/ refcount[k] = 0
      PROVE  PinsInv'
  <2>1. \A k \in Keys : Pins(k)' = Pins(k)
    BY <1>2, <1>3, <1>4 DEF Pins
  <2>. QED
    BY <1>1, <1>4, <2>1 DEF PinsInv
<1>5. CASE Track(h)
  <2>1. ~Pinning(h) /\ Pinning(h)'
    <3>1. pc[h] = "tracking" /\ pc'[h] = "evicting"
      BY <1>1, <1>5 DEF Track, Goto, IInv, TypeOK
    <3>. QED
      BY <1>1, <3>1 DEF Pinning, CallTypes
  <2>2. /\ checkouts' = checkouts \cup {Key(h)}
        /\ refcount' = [refcount EXCEPT ![Key(h)] = @ + 1]
    BY <1>5 DEF Track
  <2>3. ASSUME NEW k \in Keys
        PROVE  IsFiniteSet(Pins(k)') /\ refcount'[k] = Cardinality(Pins(k)')
               /\ (refcount'[k] > 0 => k \in checkouts')
    <3>1. CASE k = Key(h)
      <4>1. Pins(k)' = Pins(k) \cup {h} /\ h \notin Pins(k)
        BY <1>2, <1>3, <2>1, <3>1 DEF Pins
      <4>2. Cardinality(Pins(k) \cup {h}) = Cardinality(Pins(k)) + 1
            /\ IsFiniteSet(Pins(k) \cup {h})
        BY <1>1, <4>1, FS_AddElement
      <4>. QED
        BY <1>1, <2>2, <3>1, <4>1, <4>2
    <3>2. CASE k # Key(h)
      <4>1. Pins(k)' = Pins(k)
        BY <1>2, <1>3, <3>2 DEF Pins
      <4>. QED
        BY <1>1, <2>2, <3>2, <4>1
    <3>. QED
      BY <3>1, <3>2
  <2>. QED
    BY <2>3 DEF PinsInv
<1>6. CASE Release(h)
  <2>1. Pinning(h) /\ ~Pinning(h)'
    <3>1. pc[h] = "held" /\ pc'[h] = "released" /\ want[h].mode = "read"
      BY <1>1, <1>6 DEF Release, Goto, IInv, TypeOK
    <3>. QED
      BY <1>1, <3>1 DEF Pinning
  <2>2. h \in Pins(Key(h))
    BY <2>1 DEF Pins
  <2>3. /\ Cardinality(Pins(Key(h)) \ {h}) = Cardinality(Pins(Key(h))) - 1
        /\ IsFiniteSet(Pins(Key(h)) \ {h}) /\ Cardinality(Pins(Key(h)) \ {h}) \in Nat
    BY <1>1, <2>2, FS_RemoveElement, FS_CardinalityType
  <2>4. refcount[Key(h)] > 0 /\ Key(h) \in checkouts
    BY <1>1, <2>3
  <2>5. checkouts' = checkouts /\ refcount' = [refcount EXCEPT ![Key(h)] = @ - 1]
    BY <1>6, <2>4 DEF Release
  <2>6. ASSUME NEW k \in Keys
        PROVE  IsFiniteSet(Pins(k)') /\ refcount'[k] = Cardinality(Pins(k)')
               /\ (refcount'[k] > 0 => k \in checkouts')
    <3>1. CASE k = Key(h)
      <4>1. Pins(k)' = Pins(k) \ {h}
        BY <1>2, <1>3, <2>1, <3>1 DEF Pins
      <4>. QED
        BY <1>1, <2>3, <2>4, <2>5, <3>1, <4>1
    <3>2. CASE k # Key(h)
      <4>1. Pins(k)' = Pins(k)
        BY <1>2, <1>3, <3>2 DEF Pins
      <4>. QED
        BY <1>1, <2>5, <3>2, <4>1
    <3>. QED
      BY <3>1, <3>2
  <2>. QED
    BY <2>6 DEF PinsInv
<1>7. CASE ~Track(h) /\ ~Release(h)
  <2>1. Pinning(h)' <=> Pinning(h)
    BY <1>7, StepPinning
  <2>2. CASE UNCHANGED mapVars
    BY <1>4, <2>1, <2>2 DEF mapVars
  <2>3. CASE EvictPick(h)
    <3>1. PICK k \in Evictable : checkouts' = checkouts \ {k} /\ refcount' = refcount
      BY <2>3 DEF EvictPick
    <3>. QED
      BY <1>4, <2>1, <3>1 DEF Evictable
  <2>. QED
    BY <1>7, <2>2, <2>3, StepMap
<1>. QED
  BY <1>5, <1>6, <1>7

LEMMA StepAlone ==
  ASSUME IInv, NEW h \in Handles, HandleStep(h)
  PROVE  AddingAlone' /\ RemovingAlone'
<1>1. /\ LockInv /\ AddingAlone /\ RemovingAlone /\ CallTypes /\ OthersRest(h) /\ h \in Calls
      /\ want' = want /\ refcount \in [Keys -> Nat] /\ Key(h) \in Keys /\ Arrives(h)
      /\ Key(h)[1] = want[h].repo
  BY StepOthers, StepFrame, StepArrives, CallFacts DEF IInv, TypeOK, OthersRest
<1>2. ASSUME NEW g \in Handles, g # h
      PROVE  pc'[g] = pc[g] /\ victim'[g] = victim[g] /\ Key(g)' = Key(g)
  BY <1>1, <1>2 DEF OthersRest, Calls, Key
(* Only tracking takes a pin, or an entry into the map, and not one that   *)
(* another call is about to add or to remove.                              *)
<1>3. ASSUME NEW g \in Handles, g # h, pc[g] = "adding", want[g].mode = "read"
      PROVE  refcount'[Key(g)] = 0
  <2>1. refcount[Key(g)] = 0 /\ Key(g) \in Keys /\ Key(g)[1] = want[g].repo
    BY <1>1, <1>3, CallFacts DEF AddingAlone
  <2>2. CASE Track(h)
    <3>1. Holds(h, want[h].repo)
      BY <1>1, <2>2 DEF Track, LockInv, Active, RepoOf
    <3>2. Key(g) # Key(h)
      <4>1. Active(g) /\ RepoOf(g) = want[g].repo
        BY <1>3 DEF Active, RepoOf
      <4>. QED
        BY <1>1, <1>3, <2>1, <3>1, <4>1, Exclusion
    <3>. QED
      BY <1>1, <2>1, <2>2, <3>2 DEF Track
  <2>3. CASE Release(h)
    BY <1>1, <2>1, <2>3 DEF Release
  <2>4. CASE UNCHANGED mapVars \/ EvictPick(h)
    BY <2>1, <2>4 DEF mapVars, EvictPick
  <2>. QED
    BY <2>2, <2>3, <2>4, StepMap
<1>4. ASSUME NEW g \in Handles, g # h, pc[g] = "removing"
      PROVE  victim[g] \notin checkouts'
  <2>1. victim[g] \notin checkouts
    BY <1>1, <1>4 DEF RemovingAlone
  <2>2. CASE Track(h)
    <3>1. Holds(h, want[h].repo)
      BY <1>1, <2>2 DEF Track, LockInv, Active, RepoOf
    <3>2. victim[g] # Key(h)
      <4>1. Active(g) /\ RepoOf(g) = victim[g][1]
        BY <1>4 DEF Active, RepoOf
      <4>. QED
        BY <1>1, <1>4, <3>1, <4>1, Exclusion
    <3>. QED
      BY <2>1, <2>2, <3>2 DEF Track
  <2>3. CASE EvictPick(h)
    BY <2>1, <2>3 DEF EvictPick
  <2>4. CASE UNCHANGED mapVars \/ Release(h)
    BY <2>1, <2>4 DEF mapVars, Release
  <2>. QED
    BY <2>2, <2>3, <2>4, StepMap
<1>5. AddingAlone'
  <2> SUFFICES ASSUME NEW g \in Handles, pc'[g] = "adding", want'[g].mode = "read"
               PROVE  refcount'[Key(g)'] = 0
    BY DEF AddingAlone
  <2>1. CASE g = h
    BY <1>1, <2>1 DEF Arrives, mapVars, Key
  <2>. QED
    BY <1>1, <1>2, <1>3, <2>1
<1>6. RemovingAlone'
  <2> SUFFICES ASSUME NEW g \in Handles, pc'[g] = "removing"
               PROVE  victim'[g] \notin checkouts'
    BY DEF RemovingAlone
  <2>1. CASE g = h
    BY <1>1, <2>1 DEF Arrives, mapVars
  <2>. QED
    BY <1>2, <1>4, <2>1
<1>. QED
  BY <1>5, <1>6

LEMMA StepDirs ==
  ASSUME IInv, NEW h \in Handles, HandleStep(h)
  PROVE  DirInv'
<1>1. /\ DirInv /\ PinsInv /\ CallTypes /\ OthersRest(h) /\ h \in Calls /\ want' = want
      /\ disk \in [Keys -> Dirs] /\ writeDir \in [Handles -> Commits \cup {NoCommit}]
      /\ DiskEffect(h) /\ WriteEffect(h)
  BY StepOthers, StepDisk, StepWriteDir DEF IInv, TypeOK, OthersRest
<1>2. \A g \in Handles : Key(g)' = Key(g)
  BY <1>1 DEF Key
(* The entry of a pinned directory has pins, so nothing changes it.        *)
<1>3. ASSUME NEW g \in Handles, Pinning(g)
      PROVE  Key(g) \in Keys /\ refcount[Key(g)] # 0
  <2>1. g \in Pins(Key(g)) /\ Key(g) \in Keys
    BY <1>1, <1>3, CallFacts DEF Pins, Pinning
  <2>. QED
    BY <1>1, <2>1, FS_EmptySet DEF PinsInv
<1>4. ASSUME NEW g \in Handles, Pinning(g)
      PROVE  disk'[Key(g)].commit = want[g].commit
  <2>1. disk[Key(g)].commit = want[g].commit
    BY <1>1, <1>4 DEF DirInv, Tracked
  <2>. QED
    BY <1>1, <1>3, <1>4, <2>1 DEF DiskEffect
<1>5. ASSUME NEW g \in Handles, g # h, pc[g] = "tracking"
      PROVE  disk'[Key(g)].commit = want[g].commit
  <2>1. disk[Key(g)].commit = want[g].commit /\ Key(g) \in Keys
    BY <1>1, <1>5, CallFacts DEF DirInv, Tracked
  <2>. QED
    BY <1>1, <1>5, <2>1 DEF DiskEffect
<1>6. ASSUME pc'[h] = "tracking"
      PROVE  disk'[Key(h)].commit = want[h].commit
  <2>1. want[h].commit \in Commits /\ Key(h) \in Keys
    BY <1>1, StepFrame, CallFacts
  <2>. QED
    BY <1>1, <1>6, <2>1, DirFacts DEF DiskEffect
<1>7. ASSUME Track(h)
      PROVE  disk'[Key(h)].commit = want[h].commit
  BY <1>1, <1>7 DEF Track, DirInv, Tracked, diskVars
<1>8. ASSUME NEW g \in Handles, Tracked(g)'
      PROVE  disk'[Key(g)].commit = want[g].commit
  <2>1. CASE g # h
    <3>1. pc'[g] = pc[g]
      BY <1>1, <2>1 DEF OthersRest, Calls
    <3>2. Pinning(g) \/ pc[g] = "tracking"
      BY <1>1, <1>8, <3>1 DEF Tracked, Pinning
    <3>. QED
      BY <1>4, <1>5, <2>1, <3>2
  <2>2. CASE g = h /\ Pinning(h)'
    <3>1. ~Release(h)
      <4>1. Release(h) => pc'[h] = "released"
        BY <1>1 DEF Release, Goto, IInv, TypeOK
      <4>. QED
        BY <2>2, <4>1 DEF Pinning
    <3>. QED
      BY <1>4, <1>7, <2>2, <3>1, StepPinning
  <2>. QED
    BY <1>6, <1>8, <2>1, <2>2 DEF Tracked
<1>9. ASSUME NEW g \in Handles, want'[g].mode = "write", pc'[g] \in {"held", "releasing"}
      PROVE  writeDir'[g] = want'[g].commit
  <2>1. CASE g = h
    BY <1>1, <1>9, <2>1 DEF WriteEffect
  <2>2. CASE g # h
    BY <1>1, <1>9, <2>2 DEF OthersRest, Calls, DirInv
  <2>. QED
    BY <2>1, <2>2
<1>. QED
  BY <1>1, <1>2, <1>8, <1>9 DEF DirInv

LEMMA StepObjects ==
  ASSUME IInv, NEW h \in Handles, HandleStep(h)
  PROVE  ObjectsInv'
<1>1. /\ CallTypes /\ OthersRest(h) /\ h \in Calls /\ want' = want /\ Arrives(h)
      /\ Closed /\ Kept /\ TipComplete /\ UNCHANGED <<tip, objects>>
  BY StepOthers, StepArrives, StepFrame DEF IInv, OthersRest, ObjectsInv
<1>2. Closed' /\ TipComplete'
  BY <1>1 DEF Closed, TipComplete
<1>3. ASSUME NEW g \in Handles, Needs(g)'
      PROVE  want[g].commit \in objects[want[g].repo]
  <2>1. CASE g # h
    <3>1. pc'[g] = pc[g]
      BY <1>1, <2>1 DEF OthersRest, Calls
    <3>2. Needs(g)
      BY <1>1, <1>3, <3>1 DEF Needs, Working, Pinning
    <3>. QED
      BY <1>1, <3>2 DEF Kept
  <2>2. CASE g = h /\ pc'[h] \in {"adding", "tracking"}
    BY <1>1, <2>2 DEF Arrives
  <2>3. CASE g = h /\ pc'[h] \notin {"adding", "tracking"}
    <3>1. pc'[h] \in {"evicting", "evictQueued", "removing", "held"}
      BY <1>3, <2>3 DEF Needs, Working, Pinning
    <3>2. pc[h] \in {"adding", "tracking", "evicting", "evictQueued", "removing"}
      BY <1>1, <3>1 DEF Arrives
    <3>3. Needs(h)
      BY <1>1, <3>2 DEF Needs, Working, Pinning, CallTypes
    <3>. QED
      BY <1>1, <2>3, <3>3 DEF Kept
  <2>. QED
    BY <2>1, <2>2, <2>3
<1>4. Kept'
  BY <1>1, <1>3 DEF Kept
<1>. QED
  BY <1>2, <1>4 DEF ObjectsInv

(* A whole directory is as it was, or h has just made it and tracks it, or *)
(* a command of h failed and left it.                                      *)
LEMMA StepAccounted ==
  ASSUME IInv, NEW h \in Handles, HandleStep(h)
  PROVE  DiskAccountedFor'
<1>1. /\ CallTypes /\ OthersRest(h) /\ h \in Calls /\ want' = want /\ DiskEffect(h)
      /\ disk \in [Keys -> Dirs] /\ DiskAccountedFor /\ stopped' = stopped
      /\ pc \in [Calls -> Places] /\ victim \in [Handles -> Keys \cup {NoKey}]
      /\ StrayEffect(h)
  BY StepOthers, StepDisk, StepStrays, StepFrame
     DEF IInv, TypeOK, CallTypes, OthersRest, Places
<1>2. \A g \in Handles : Key(g)' = Key(g)
  BY <1>1 DEF Key
<1>3. \A g \in Handles \ {h} : pc'[g] = pc[g] /\ victim'[g] = victim[g]
  BY <1>1 DEF OthersRest, Calls
<1> DEFINE Leaving(g, k) == pc[g] \in {"evictQueued", "removing"} /\ victim[g] = k
           Joining(g, k) == pc[g] = "tracking" /\ Key(g) = k
<1> SUFFICES ASSUME ~stopped, NEW k \in Keys, disk'[k].whole
             PROVE  \/ k \in checkouts'
                    \/ \E g \in Handles : Leaving(g, k)'
                    \/ \E g \in Handles : Joining(g, k)'
                    \/ k \in strays'
  BY <1>1 DEF DiskAccountedFor, StrayEffect
<1>4. CASE pc'[h] = "tracking" /\ k = Key(h)
  BY <1>2, <1>4
<1>5. ASSUME disk[k].whole, k \notin strays, ~EvictRemoved(h) \/ k # victim[h]
      PROVE  \/ k \in checkouts'
             \/ \E g \in Handles : Leaving(g, k)'
             \/ \E g \in Handles : Joining(g, k)'
  <2>1. \/ k \in checkouts
        \/ \E g \in Handles : Leaving(g, k)
        \/ \E g \in Handles : Joining(g, k)
    BY <1>1, <1>5 DEF DiskAccountedFor
  <2>2. CASE k \in checkouts
    <3>1. CASE EvictPick(h)
      <4>1. PICK x \in Keys : /\ checkouts' = checkouts \ {x} /\ victim' = [victim EXCEPT ![h] = x]
        BY <1>1, <3>1 DEF EvictPick, Evictable, IInv, TypeOK
      <4>2. pc'[h] = "evictQueued"
        BY <1>1, <3>1 DEF EvictPick, Goto
      <4>3. victim'[h] = x
        BY <1>1, <4>1
      <4>. QED
        BY <2>2, <4>1, <4>2, <4>3
    <3>2. CASE ~EvictPick(h)
      <4>1. checkouts \subseteq checkouts'
        BY <3>2, StepMap DEF mapVars, Track, Release
      <4>. QED
        BY <2>2, <4>1
    <3>. QED
      BY <3>1, <3>2
  <2>3. ASSUME NEW g \in Handles, Leaving(g, k)
        PROVE  k \in checkouts' \/ Leaving(g, k)'
    <3>1. CASE g # h
      BY <1>3, <2>3, <3>1
    <3>2. CASE g = h
      <4>1. EvictReused(h) \/ EvictRemoves(h) \/ EvictRemoved(h)
        BY <2>3, <3>2 DEF HandleStep, LockedStep, EvictStep, ResolveFails, ReuseCheckout,
           ReplaceCheckout, ReplaceCheckoutFails, AddCheckout, AddWriteWorktree, WorktreeAdded,
           WorktreeAddFails, Track, WriteTornDown, EvictPick, EvictDone, EvictHalted, Release,
           ReleaseWrite, Turn
      <4>2. CASE EvictReused(h)
        BY <2>3, <3>2, <4>2 DEF EvictReused, mapVars
      <4>3. CASE EvictRemoves(h)
        <5>1. pc'[h] = "removing" /\ victim' = victim
          BY <1>1, <4>3 DEF EvictRemoves, Goto
        <5>. QED
          BY <2>3, <3>2, <5>1
      <4>4. ~EvictRemoved(h)
        BY <1>5, <2>3, <3>2
      <4>. QED
        BY <4>1, <4>2, <4>3, <4>4
    <3>. QED
      BY <3>1, <3>2
  <2>4. ASSUME NEW g \in Handles, Joining(g, k)
        PROVE  k \in checkouts' \/ Joining(g, k)'
    <3>1. CASE g # h
      BY <1>2, <1>3, <2>4, <3>1
    <3>2. CASE g = h
      <4>1. Track(h)
        BY <2>4, <3>2 DEF HandleStep, LockedStep, EvictStep, ResolveFails, ReuseCheckout,
           ReplaceCheckout, ReplaceCheckoutFails, AddCheckout, AddWriteWorktree, WorktreeAdded,
           WorktreeAddFails, WriteTornDown, EvictPick, EvictDone, EvictHalted, EvictReused,
           EvictRemoves, EvictRemoved, Release, ReleaseWrite, Turn, VictimTurn
      <4>. QED
        BY <2>4, <3>2, <4>1 DEF Track
    <3>. QED
      BY <3>1, <3>2
  <2>. QED
    BY <2>1, <2>2, <2>3, <2>4
<1>. QED
  BY <1>1, <1>4, <1>5 DEF StrayEffect

LEMMA StepKeeps ==
  ASSUME IInv, NEW h \in Handles, HandleStep(h)
  PROVE  IInv'
BY StepTypes, StepCalls, StepChains, StepPins, StepAlone, StepDirs, StepObjects, StepAccounted
   DEF IInv

-----------------------------------------------------------------------------
(* A step of x that neither touches a directory, the map or a victim nor   *)
(* gets a handle further than its repo's chain: a new resolve, and a sync. *)
Aside(x) ==
  /\ UNCHANGED <<stopped, disk, strays, writeDir, mapVars, victim>>
  /\ \A y \in Calls \ {x} : pc'[y] = pc[y] /\ want'[y] = want[y]
  /\ pc' \in [Calls -> Places]
  /\ want' \in [Calls -> Asked \cup AskedSync \cup {NoWant}]
  /\ LockEffect(x)
  /\ IF x \in Handles
     THEN pc[x] = "idle" /\ pc'[x] = "queued" /\ want'[x] \in Asked
     ELSE x \in Syncs /\ want'[x] \in AskedSync
  /\ tip' \in [Repos -> Commits \cup {NoCommit}]
  /\ objects' \in [Repos -> SUBSET Commits]
  /\ fetches' \in [Repos -> 0..(GcAfterFetches - 1)]

(* Such a step leaves what the handles are about.                          *)
LEMMA AsideHandles ==
  ASSUME NEW x \in Calls, Aside(x), NEW g \in Handles
  PROVE  /\ pc[g] # "idle" => pc'[g] = pc[g] /\ want'[g] = want[g] /\ Key(g)' = Key(g) /\ g # x
         /\ pc[g] = "idle" => pc'[g] \in {"idle", "queued"}
         /\ Pinning(g)' <=> Pinning(g)
<1>1. CASE g = x
  BY <1>1 DEF Aside, Pinning
<1>2. CASE g # x
  <2>1. pc'[g] = pc[g] /\ want'[g] = want[g]
    BY <1>2 DEF Aside, Calls
  <2>. QED
    BY <1>2, <2>1 DEF Key, Pinning
<1>. QED
  BY <1>1, <1>2

LEMMA AsideKeeps ==
  ASSUME IInv, NEW x \in Calls, Aside(x), ObjectsInv'
  PROVE  IInv'
<1>1. /\ TypeOK /\ CallTypes /\ UsedOnce /\ LockInv /\ PinsInv /\ AddingAlone /\ RemovingAlone
      /\ DirInv /\ DiskAccountedFor /\ UNCHANGED <<stopped, disk, strays, writeDir, mapVars, victim>>
  BY DEF IInv, Aside
<1>2. ASSUME NEW g \in Handles, pc[g] # "idle"
      PROVE  /\ pc'[g] = pc[g] /\ want'[g] = want[g] /\ Key(g)' = Key(g) /\ g # x /\ g \in Calls
             /\ RepoOf(g)' = RepoOf(g)
  BY <1>1, <1>2, AsideHandles DEF RepoOf, Calls
<1>3. ASSUME NEW g \in Handles, pc'[g] \notin {"idle", "queued"}
      PROVE  pc[g] # "idle"
  BY <1>3, AsideHandles
<1>4. lock' \in [Repos -> Seq(Calls)]
  BY <1>1, LockTyped DEF TypeOK, Aside
<1>5. TypeOK'
  BY <1>1, <1>4 DEF TypeOK, Aside, mapVars, Places
<1>6. CallTypes'
  <2>1. ASSUME NEW g \in Handles, pc'[g] # "idle"
        PROVE  /\ want'[g] \in Asked
               /\ pc'[g] \notin {"asked", "synced"}
               /\ pc'[g] \in {"tracking", "evicting", "evictQueued", "removing"} =>
                    want'[g].mode = "read"
               /\ pc'[g] = "releasing" => want'[g].mode = "write"
               /\ pc'[g] \in {"evictQueued", "removing"} => victim'[g] \in Keys
    <3>1. CASE pc[g] # "idle"
      BY <1>1, <1>2, <3>1 DEF CallTypes
    <3>2. CASE pc[g] = "idle"
      <4>1. pc'[g] = "queued"
        BY <2>1, <3>2, AsideHandles
      <4>2. g = x
        BY <3>2, <4>1 DEF Aside, Calls
      <4>. QED
        BY <4>1, <4>2 DEF Aside
    <3>. QED
      BY <3>1, <3>2
  <2>2. ASSUME NEW s \in Syncs, pc'[s] # "idle"
        PROVE  want'[s] \in AskedSync
    <3>1. CASE s = x
      BY <3>1, StoreAssumption DEF Aside
    <3>2. CASE s # x
      BY <1>1, <2>2, <3>2 DEF Aside, Calls, CallTypes
    <3>. QED
      BY <3>1, <3>2
  <2>. QED
    BY <1>1, <2>1, <2>2 DEF CallTypes, Aside
<1>7. UsedOnce'
  BY <1>1 DEF UsedOnce, mapVars
<1>8. LockInv'
  <2> SUFFICES ASSUME NEW g \in Handles, Active(g)'
               PROVE  Holds(g, RepoOf(g))'
    BY DEF LockInv
  <2>1. pc[g] # "idle"
    BY <1>3 DEF Active
  <2>2. Active(g) /\ Holds(g, RepoOf(g)) /\ RepoOf(g)' = RepoOf(g) /\ g # x /\ g \in Calls
    BY <1>1, <1>2, <2>1 DEF Active, LockInv
  <2>3. RepoOf(g) \in Repos
    <3>1. want[g].repo \in Repos
      BY <1>1, <2>1, CallFacts
    <3>2. pc[g] = "removing" => victim[g][1] \in Repos
      BY <1>1 DEF CallTypes, Keys
    <3>. QED
      BY <3>1, <3>2 DEF RepoOf
  <2> PICK p \in Repos : p = RepoOf(g)
    BY <2>3
  <2>4. Holds(g, p)'
    BY <1>1, <2>2, HoldsOn DEF Aside, TypeOK
  <2>5. RepoOf(g)' = p
    BY <2>2
  <2>. QED
    BY <2>4, <2>5 DEF Holds
<1>9. PinsInv'
  <2>1. ASSUME NEW k \in Keys
        PROVE  Pins(k)' = Pins(k)
    <3>1. ASSUME NEW g \in Handles
          PROVE  (Pinning(g)' /\ Key(g)' = k) <=> (Pinning(g) /\ Key(g) = k)
      <4>1. Pinning(g) => pc[g] # "idle"
        BY DEF Pinning
      <4>. QED
        BY <1>2, <4>1, AsideHandles
    <3>. QED
      BY <3>1 DEF Pins
  <2>. QED
    BY <1>1, <2>1 DEF PinsInv, mapVars
<1>10. AddingAlone' /\ RemovingAlone'
  BY <1>1, <1>2, <1>3 DEF AddingAlone, RemovingAlone, mapVars
<1>11. DirInv'
  <2>1. ASSUME NEW g \in Handles, Tracked(g)'
        PROVE  disk'[Key(g)'].commit = want'[g].commit
    <3>1. pc'[g] \notin {"idle", "queued"}
      BY <2>1 DEF Tracked, Pinning
    <3>2. Tracked(g)
      BY <1>2, <1>3, <2>1, <3>1 DEF Tracked, Pinning
    <3>. QED
      BY <1>1, <1>2, <1>3, <3>1, <3>2 DEF DirInv
  <2>2. ASSUME NEW g \in Handles, want'[g].mode = "write", pc'[g] \in {"held", "releasing"}
        PROVE  writeDir'[g] = want'[g].commit
    BY <1>1, <1>2, <1>3, <2>2 DEF DirInv
  <2>. QED
    BY <2>1, <2>2 DEF DirInv
<1>12. DiskAccountedFor'
  <2>1. ASSUME NEW g \in Handles, pc[g] # "idle"
        PROVE  pc'[g] = pc[g] /\ victim'[g] = victim[g] /\ Key(g)' = Key(g)
    BY <1>1, <1>2, <2>1
  <2>2. \A k \in Keys : disk'[k] = disk[k]
    BY <1>1
  <2>. QED
    BY <1>1, <2>1, <2>2 DEF DiskAccountedFor, mapVars
<1>. QED
  BY <1>5, <1>6, <1>7, <1>8, <1>9, <1>10, <1>11, <1>12 DEF IInv

LEMMA ResolveKeeps ==
  ASSUME IInv, NEW h \in Handles, NEW r \in Repos, NEW c \in Commits,
         NEW mode \in {"read", "write"}, Resolve(h, r, c, mode)
  PROVE  IInv'
<1> DEFINE asked == [mode |-> mode, repo |-> r, commit |-> c]
<1>1. /\ TypeOK /\ CallTypes /\ ObjectsInv /\ h \in Calls /\ pc[h] = "idle" /\ asked \in Asked
      /\ want' = [want EXCEPT ![h] = asked] /\ Enqueue(h, r) /\ Goto(h, "queued")
      /\ UNCHANGED <<stopped, diskVars, mapVars, victim>>
  BY DEF IInv, Resolve, Calls, Asked
<1> HIDE DEF asked
<1>2. pc \in [Calls -> Places] /\ want \in [Calls -> Asked \cup AskedSync \cup {NoWant}]
  BY <1>1 DEF TypeOK, CallTypes, Places
<1>3. pc' = [pc EXCEPT ![h] = "queued"] /\ pc' \in [Calls -> Places]
  BY <1>1, <1>2 DEF Goto, Places
<1>4. Aside(h)
  BY <1>1, <1>2, <1>3 DEF Aside, LockEffect, TypeOK, diskVars
<1>5. ObjectsInv'
  <2>1. Closed' /\ TipComplete'
    BY <1>1 DEF ObjectsInv, Closed, TipComplete, diskVars
  <2>2. ASSUME NEW g \in Handles, Needs(g)'
        PROVE  want'[g].commit \in objects[want'[g].repo]
    <3>1. g # h
      BY <1>2, <1>3, <2>2 DEF Needs, Working, Pinning
    <3>2. pc'[g] = pc[g] /\ want'[g] = want[g]
      BY <1>1, <1>2, <1>3, <3>1
    <3>3. Needs(g)
      BY <2>2, <3>2 DEF Needs, Working, Pinning
    <3>. QED
      BY <1>1, <3>2, <3>3 DEF ObjectsInv, Kept
  <2>. QED
    BY <1>1, <2>1, <2>2 DEF ObjectsInv, Kept, diskVars
<1>. QED
  BY <1>1, <1>4, <1>5, AsideKeeps

-----------------------------------------------------------------------------
(* A step of a sync keeps the invariant if, of the object store, it keeps  *)
(* whole histories, the tip's among them, and what the handles need.       *)
SyncEffect(s) ==
  /\ UNCHANGED <<stopped, disk, strays, writeDir, mapVars, victim>>
  /\ \E a \in AskedSync : want' = [want EXCEPT ![s] = a]
  /\ \E q \in Places : Goto(s, q)
  /\ LockEffect(s)
  /\ tip' \in [Repos -> Commits \cup {NoCommit}]
  /\ objects' \in [Repos -> SUBSET Commits]
  /\ fetches' \in [Repos -> 0..(GcAfterFetches - 1)]

LEMMA SyncKeeps ==
  ASSUME IInv, NEW s \in Syncs, SyncEffect(s), Closed', TipComplete',
         \A g \in Handles : Needs(g) => want[g].commit \in objects'[want[g].repo]
  PROVE  IInv'
<1>1. /\ TypeOK /\ CallTypes /\ s \in Calls /\ s \notin Handles
      /\ pc \in [Calls -> Places] /\ want \in [Calls -> Asked \cup AskedSync \cup {NoWant}]
  BY StoreAssumption DEF IInv, Calls, TypeOK, CallTypes, Places
<1>2. PICK a \in AskedSync : want' = [want EXCEPT ![s] = a]
  BY DEF SyncEffect
<1>3. PICK q \in Places : pc' = [pc EXCEPT ![s] = q]
  BY DEF SyncEffect, Goto
<1>4. Aside(s)
  BY <1>1, <1>2, <1>3 DEF Aside, SyncEffect
<1>5. ASSUME NEW g \in Handles
      PROVE  pc'[g] = pc[g] /\ want'[g] = want[g]
  <2>1. g \in Calls /\ g # s
    BY <1>1 DEF Calls
  <2>. QED
    BY <1>1, <1>2, <1>3, <2>1
<1>6. \A g \in Handles : Needs(g)' => Needs(g)
  BY <1>5 DEF Needs, Working, Pinning
<1>7. Kept'
  BY <1>5, <1>6 DEF Kept
<1>. QED
  BY <1>1, <1>4, <1>7, AsideKeeps DEF ObjectsInv

LEMMA AskKeeps ==
  ASSUME IInv, NEW s \in Syncs,
         (\E r \in Repos, c \in Commits : SyncAsks(s, r, c)) \/ SyncUploads(s)
  PROVE  IInv'
<1>1. TypeOK /\ CallTypes /\ ObjectsInv /\ s \in Calls
  BY DEF IInv, Calls
<1>2. CASE \E r \in Repos, c \in Commits : SyncAsks(s, r, c)
  <2> PICK r \in Repos, c \in Commits : SyncAsks(s, r, c)
    BY <1>2
  <2> DEFINE a == [mode |-> "sync", repo |-> r, commit |-> c, base |-> Base(r, c)]
  <2>1. a \in AskedSync
    BY <1>1 DEF AskedSync, Base, HaveTip, TypeOK
  <2>2. want' = [want EXCEPT ![s] = a] /\ UNCHANGED <<stopped, diskVars, mapVars, lock, victim>>
        /\ \E q \in {"synced", "asked"} : Goto(s, q)
    BY DEF SyncAsks
  <2> HIDE DEF a
  <2>3. SyncEffect(s)
    BY <1>1, <2>1, <2>2 DEF SyncEffect, LockEffect, TypeOK, diskVars, Places
  <2>. QED
    BY <1>1, <2>2, <2>3, SyncKeeps DEF ObjectsInv, Closed, TipComplete, Kept, diskVars
<1>3. CASE SyncUploads(s)
  <2>1. want[s] \in AskedSync
    BY <1>1, <1>3 DEF SyncUploads, CallTypes
  <2>2. want[s].repo \in Repos /\ want' = [want EXCEPT ![s] = want[s]]
    BY <1>1, <1>3, <2>1 DEF SyncUploads, AskedSync, CallTypes
  <2>3. UNCHANGED <<stopped, diskVars, mapVars, victim>> /\ Goto(s, "queued")
        /\ LockEffect(s)
    BY <1>3, <2>2 DEF SyncUploads, LockEffect
  <2>4. SyncEffect(s)
    BY <1>1, <2>1, <2>2, <2>3 DEF SyncEffect, TypeOK, diskVars, Places
  <2>. QED
    BY <1>1, <2>3, <2>4, SyncKeeps DEF ObjectsInv, Closed, TipComplete, Kept, diskVars
<1>. QED
  BY <1>2, <1>3

(* Histories are closed, and so are their unions and intersections.        *)
LEMMA ReachClosed ==
  \A c \in Commits : Reach[c] \subseteq Commits /\ c \in Reach[c]
                     /\ \A d \in Reach[c] : Reach[d] \subseteq Reach[c]
BY StoreAssumption

LEMMA FetchedClosed ==
  ASSUME TypeOK, CallTypes, Closed, NEW s \in Syncs, pc[s] # "idle"
  PROVE  /\ Fetched(s) \subseteq Commits
         /\ \A c \in Fetched(s) : Reach[c] \subseteq Fetched(s)
         /\ objects[want[s].repo] \subseteq Fetched(s) /\ Reach[want[s].commit] \subseteq Fetched(s)
         /\ want[s].repo \in Repos /\ want[s].commit \in Commits
<1>1. want[s].repo \in Repos /\ want[s].commit \in Commits
  BY DEF CallTypes, AskedSync
<1>2. \A c \in objects[want[s].repo] : Reach[c] \subseteq objects[want[s].repo]
  BY <1>1 DEF Closed
<1>3. objects[want[s].repo] \subseteq Commits
  BY <1>1 DEF TypeOK
<1>. QED
  BY <1>1, <1>2, <1>3, ReachClosed DEF Fetched

LEMMA BundleFailsKeeps ==
  ASSUME IInv, NEW s \in Syncs, BundleFails(s)
  PROVE  IInv'
<1>1. TypeOK /\ CallTypes /\ ObjectsInv /\ s \in Calls /\ pc[s] # "idle"
      /\ objects \in [Repos -> SUBSET Commits]
  BY DEF IInv, Calls, BundleFails, Applying, TypeOK
<1> DEFINE r == want[s].repo
<1>2. /\ Fetched(s) \subseteq Commits /\ objects[r] \subseteq Fetched(s)
      /\ \A c \in Fetched(s) : Reach[c] \subseteq Fetched(s)
      /\ r \in Repos /\ want[s].commit \in Commits /\ want[s] \in AskedSync
  BY <1>1, FetchedClosed DEF ObjectsInv, CallTypes
<1>3. /\ UNCHANGED <<stopped, tip, fetches, disk, strays, writeDir, mapVars, want, victim>>
      /\ Goto(s, "failed") /\ Holds(s, r) /\ Unlock(r)
      /\ objects' = objects \/ objects' = [objects EXCEPT ![r] = Fetched(s)]
  BY DEF BundleFails, Applying
<1> HIDE DEF r
<1>4. want' = [want EXCEPT ![s] = want[s]]
  BY <1>1, <1>3 DEF CallTypes
<1>5. objects' \in [Repos -> SUBSET Commits] /\ \A q \in Repos : objects[q] \subseteq objects'[q]
  BY <1>1, <1>2, <1>3
<1>6. SyncEffect(s)
  BY <1>1, <1>2, <1>3, <1>4, <1>5 DEF SyncEffect, LockEffect, TypeOK, Places
<1>7. Closed'
  BY <1>1, <1>2, <1>3 DEF ObjectsInv, Closed
<1>8. TipComplete'
  BY <1>1, <1>3, <1>5 DEF ObjectsInv, TipComplete
<1>9. ASSUME NEW g \in Handles, Needs(g)
      PROVE  want[g].commit \in objects'[want[g].repo]
  <2>1. pc[g] # "idle"
    BY <1>9 DEF Needs, Working, Pinning
  <2>2. want[g].repo \in Repos
    BY <1>1, <2>1, CallFacts
  <2>. QED
    BY <1>1, <1>5, <1>9, <2>2 DEF ObjectsInv, Kept
<1>. QED
  BY <1>6, <1>7, <1>8, <1>9, SyncKeeps

(* What a gc keeps is whole histories, that of the new tip and what every  *)
(* live handle stands on: no call adds or tracks while the sync has the    *)
(* chain.                                                                  *)
LEMMA AnchoredKeeps ==
  ASSUME IInv, NEW s \in Syncs, Applying(s), MoveTip(want[s].repo, want[s].commit)
  PROVE  /\ \A c \in Anchored(want[s].repo) \cap Commits : Reach[c] \subseteq Anchored(want[s].repo)
         /\ Reach[want[s].commit] \subseteq Anchored(want[s].repo)
         /\ \A g \in Handles : Needs(g) /\ want[g].repo = want[s].repo =>
              want[g].commit \in Anchored(want[s].repo)
<1> DEFINE r == want[s].repo
           A == Anchored(r)
           OfDisk(k) == k \in Keys /\ k[1] = r /\ Populated(disk[k])
           OfWrite(g) == g \in Handles /\ writeDir[g] # NoCommit /\ want[g].repo = r
<1>1. /\ TypeOK /\ CallTypes /\ LockInv /\ DirInv /\ s \in Calls /\ pc[s] # "idle"
      /\ want[s].repo \in Repos /\ want[s].commit \in Commits
      /\ disk \in [Keys -> Dirs] /\ writeDir \in [Handles -> Commits \cup {NoCommit}]
  BY DEF IInv, Calls, Applying, TypeOK, CallTypes, AskedSync
<1>2. tip'[r] = want[s].commit
  BY <1>1 DEF MoveTip, TypeOK
<1>3. \A x : x \in A <=> \/ x \in Reach[want[s].commit]
                         \/ \E k \in Keys : OfDisk(k) /\ x \in Reach[disk[k].commit]
                         \/ \E g \in Handles : OfWrite(g) /\ x \in Reach[writeDir[g]]
  <2>1. A = Reach[want[s].commit]
              \cup (UNION {Reach[disk[k].commit] : k \in {l \in Keys : OfDisk(l)}})
              \cup (UNION {Reach[writeDir[g]] : g \in {f \in Handles : OfWrite(f)}})
    BY <1>2 DEF Anchored
  <2> HIDE DEF A, OfDisk, OfWrite, r
  <2>. QED
    BY <2>1
<1>4. \A k \in Keys : OfDisk(k) => disk[k].commit \in Commits
  BY <1>1, DirFacts
<1>5. \A g \in Handles : OfWrite(g) => writeDir[g] \in Commits
  BY <1>1
<1>6. ASSUME NEW g \in Handles, Needs(g), want[g].repo = r
      PROVE  want[g].commit \in A
  <2>1. pc[g] # "idle"
    BY <1>6 DEF Needs, Working, Pinning
  <2>2. want[g].commit \in Commits /\ Key(g) \in Keys /\ Key(g)[1] = r
    BY <1>1, <1>6, <2>1, CallFacts
  <2>3. pc[g] \notin {"adding", "tracking"}
    <3>1. g # s /\ Holds(s, r)
      BY StoreAssumption DEF Applying
    <3>2. pc[g] \in {"adding", "tracking"} => Active(g) /\ RepoOf(g) = r
      BY <1>6 DEF Active, RepoOf
    <3>. QED
      BY <1>1, <3>1, <3>2, Exclusion
  <2>4. Working(g)
    BY <1>6, <2>3 DEF Needs
  <2>5. CASE Pinning(g)
    <3>1. disk[Key(g)].commit = want[g].commit
      BY <1>1, <2>5 DEF DirInv, Tracked
    <3>2. OfDisk(Key(g))
      BY <1>1, <2>2, <3>1, DirFacts
    <3>. QED
      BY <1>3, <2>2, <3>1, <3>2, ReachClosed
  <2>6. CASE ~Pinning(g)
    <3>1. writeDir[g] = want[g].commit
      BY <1>1, <2>4, <2>6 DEF DirInv, Working
    <3>2. OfWrite(g)
      BY <1>1, <1>6, <2>2, <3>1, StoreAssumption
    <3>. QED
      BY <1>3, <2>2, <3>1, <3>2, ReachClosed
  <2>. QED
    BY <2>5, <2>6
<1> HIDE DEF A, OfDisk, OfWrite
<1>7. \A c \in A \cap Commits : Reach[c] \subseteq A
  BY <1>1, <1>3, <1>4, <1>5, ReachClosed
<1>8. Reach[want[s].commit] \subseteq A
  BY <1>3
<1>. QED
  BY <1>6, <1>7, <1>8 DEF A

LEMMA BundleAppliedKeeps ==
  ASSUME IInv, NEW s \in Syncs, BundleApplied(s)
  PROVE  IInv'
<1>1. /\ TypeOK /\ CallTypes /\ ObjectsInv /\ s \in Calls /\ pc[s] # "idle"
      /\ objects \in [Repos -> SUBSET Commits] /\ Applying(s)
  BY DEF IInv, Calls, BundleApplied, Applying, TypeOK
<1> DEFINE r == want[s].repo
           kept == Fetched(s) \cap Anchored(r)
<1>2. /\ Fetched(s) \subseteq Commits /\ objects[r] \subseteq Fetched(s)
      /\ \A c \in Fetched(s) : Reach[c] \subseteq Fetched(s)
      /\ Reach[want[s].commit] \subseteq Fetched(s)
      /\ r \in Repos /\ want[s].commit \in Commits /\ want[s] \in AskedSync
  BY <1>1, FetchedClosed DEF ObjectsInv, CallTypes
<1>3. /\ UNCHANGED <<stopped, disk, strays, writeDir, mapVars, want, victim>>
      /\ MoveTip(r, want[s].commit)
      /\ fetches' = [fetches EXCEPT ![r] = IF GcDue(r) THEN 0 ELSE @ + 1]
      /\ objects' = [objects EXCEPT ![r] = Fetched(s)] \/ objects' = [objects EXCEPT ![r] = kept]
      /\ Goto(s, "synced") /\ Holds(s, r) /\ Unlock(r)
  BY DEF BundleApplied, Applying
<1>4. /\ \A c \in Anchored(r) \cap Commits : Reach[c] \subseteq Anchored(r)
      /\ Reach[want[s].commit] \subseteq Anchored(r)
      /\ \A g \in Handles : Needs(g) /\ want[g].repo = r => want[g].commit \in Anchored(r)
  BY <1>1, <1>3, AnchoredKeeps
<1>5. /\ kept \subseteq Commits /\ \A c \in kept : Reach[c] \subseteq kept
      /\ Reach[want[s].commit] \subseteq kept
  BY <1>2, <1>4
<1>6. ASSUME NEW g \in Handles, Needs(g)
      PROVE  /\ want[g].repo \in Repos /\ want[g].commit \in objects[want[g].repo]
             /\ want[g].repo = r => want[g].commit \in Fetched(s) /\ want[g].commit \in kept
  <2>1. pc[g] # "idle"
    BY <1>6 DEF Needs, Working, Pinning
  <2>2. want[g].repo \in Repos /\ want[g].commit \in objects[want[g].repo]
    BY <1>1, <1>6, <2>1, CallFacts DEF ObjectsInv, Kept
  <2>. QED
    BY <1>2, <1>4, <1>6, <2>2
<1> HIDE DEF kept, r
(* The objects of r are now news, one of the two. *)
<1>7. PICK news \in {Fetched(s), kept} : objects' = [objects EXCEPT ![r] = news]
  BY <1>3
<1>8. /\ news \subseteq Commits /\ \A c \in news : Reach[c] \subseteq news
      /\ Reach[want[s].commit] \subseteq news
      /\ \A g \in Handles : Needs(g) /\ want[g].repo = r => want[g].commit \in news
  BY <1>2, <1>5, <1>6
<1>9. objects' \in [Repos -> SUBSET Commits]
  BY <1>1, <1>2, <1>7, <1>8
<1>10. want' = [want EXCEPT ![s] = want[s]]
  BY <1>1, <1>3 DEF CallTypes
<1>11. tip \in [Repos -> Commits \cup {NoCommit}] /\ tip' = [tip EXCEPT ![r] = want[s].commit]
  BY <1>1, <1>3 DEF MoveTip, TypeOK
<1>12. tip' \in [Repos -> Commits \cup {NoCommit}]
  BY <1>2, <1>11
<1>13. fetches' \in [Repos -> 0..(GcAfterFetches - 1)]
  <2>1. fetches \in [Repos -> 0..(GcAfterFetches - 1)]
    BY <1>1 DEF TypeOK
  <2>2. (IF GcDue(r) THEN 0 ELSE fetches[r] + 1) \in 0..(GcAfterFetches - 1)
    BY <1>2, <2>1, StoreAssumption DEF GcDue
  <2>. QED
    BY <1>3, <2>1, <2>2
<1>14. SyncEffect(s)
  BY <1>2, <1>3, <1>9, <1>10, <1>12, <1>13 DEF SyncEffect, LockEffect, Places
<1>15. Closed'
  BY <1>1, <1>2, <1>7, <1>8 DEF ObjectsInv, Closed
<1>16. TipComplete'
  BY <1>1, <1>2, <1>7, <1>8, <1>11 DEF ObjectsInv, TipComplete
<1>17. \A g \in Handles : Needs(g) => want[g].commit \in objects'[want[g].repo]
  BY <1>1, <1>2, <1>6, <1>7, <1>8
<1>. QED
  BY <1>14, <1>15, <1>16, <1>17, SyncKeeps

LEMMA StopKeeps ==
  ASSUME IInv, Stop
  PROVE  IInv'
<1>1. stopped' = TRUE /\ UNCHANGED <<diskVars, mapVars, lock, pc, want, victim>>
  BY DEF Stop
<1>2. /\ \A h \in Handles : /\ Pinning(h)' <=> Pinning(h)
                            /\ Key(h)' = Key(h) /\ Active(h)' = Active(h) /\ RepoOf(h)' = RepoOf(h)
      /\ \A k \in Keys : Pins(k)' = Pins(k)
  BY <1>1 DEF Pinning, Key, Active, RepoOf, Pins
<1>3. TypeOK' /\ CallTypes' /\ UsedOnce'
  BY <1>1 DEF IInv, TypeOK, CallTypes, UsedOnce, diskVars, mapVars
<1>4. LockInv' /\ PinsInv' /\ AddingAlone' /\ RemovingAlone'
  BY <1>1, <1>2 DEF IInv, LockInv, PinsInv, AddingAlone, RemovingAlone, Holds, mapVars
<1>5. DirInv'
  BY <1>1, <1>2 DEF IInv, DirInv, Tracked, diskVars
<1>6. ObjectsInv'
  BY <1>1, <1>2 DEF IInv, ObjectsInv, Closed, Kept, TipComplete, Needs, Working, diskVars
<1>7. DiskAccountedFor'
  BY <1>1 DEF IInv, DiskAccountedFor, diskVars, mapVars
<1>. QED
  BY <1>3, <1>4, <1>5, <1>6, <1>7 DEF IInv

-----------------------------------------------------------------------------
LEMMA KeysFinite == \A S \in SUBSET Keys : IsFiniteSet(S) /\ Cardinality(S) \in Nat
<1> DEFINE f == [c \in Commits |-> CommitKey[c]]
<1>1. f \in Surjection(Commits, ShortKeys)
  BY DEF Surjection, ShortKeys
<1>2. IsFiniteSet(ShortKeys)
  BY <1>1, FS_Surjection, StoreAssumption
<1>3. IsFiniteSet(Keys)
  BY <1>2, FS_Product, StoreAssumption DEF Keys
<1>. QED
  BY <1>3, FS_Subset, FS_CardinalityType

LEMMA OrdersOf ==
  ASSUME NEW S, NEW s \in SetToSeqs(S), Cardinality(S) \in Nat
  PROVE  s \in Seq(S) /\ Len(s) = Cardinality(S) /\ OnceIn(s)
<1>1. s \in [1..Cardinality(S) -> S] /\ \A i, n \in 1..Cardinality(S) : i # n => s[i] # s[n]
  BY DEF SetToSeqs
<1>2. s \in Seq(S) /\ Len(s) = Cardinality(S) /\ DOMAIN s = 1..Cardinality(S)
  BY <1>1
<1>. QED
  BY <1>1, <1>2 DEF OnceIn

(* With no call under way, what is left is about the directories.          *)
AtRest ==
  /\ \A h \in Handles : pc[h] \in {"idle", "failed", "released"}
  /\ \A k \in Keys : refcount[k] = 0

LEMMA RestInv ==
  AtRest => LockInv /\ PinsInv /\ AddingAlone /\ RemovingAlone /\ DirInv /\ Kept
<1> SUFFICES ASSUME AtRest
             PROVE  LockInv /\ PinsInv /\ AddingAlone /\ RemovingAlone /\ DirInv /\ Kept
  OBVIOUS
<1>1. \A h \in Handles : ~Active(h) /\ ~Pinning(h) /\ ~Tracked(h) /\ ~Needs(h)
  BY DEF AtRest, Active, Pinning, Tracked, Needs, Working
<1>2. \A k \in Keys : Pins(k) = {}
  BY <1>1 DEF Pins
<1>3. PinsInv
  BY <1>2, FS_EmptySet DEF PinsInv, AtRest
<1>. QED
  BY <1>1, <1>3 DEF AtRest, LockInv, AddingAlone, RemovingAlone, DirInv, Kept

LEMMA InitIInv == Init => IInv
<1> SUFFICES ASSUME Init PROVE IInv
  OBVIOUS
<1>1. \A k \in Keys : FoundIn(k) \in Dirs
  <2> SUFFICES ASSUME NEW k \in Keys PROVE FoundIn(k) \in Dirs
    OBVIOUS
  <2> DEFINE found == {c \in InitialCheckouts[k[1]] : CommitKey[c] = k[2]}
             d == CHOOSE c \in found : TRUE
  <2>1. found \subseteq Commits
    BY StoreAssumption DEF Keys
  <2>2. found # {} => d \in Commits
    BY <2>1
  <2>3. FoundIn(k) = IF found = {} THEN Absent ELSE Whole(d)
    BY DEF FoundIn
  <2> HIDE DEF d, found
  <2>. QED
    BY <2>2, <2>3, DirFacts
<1>2. checkouts \subseteq Keys /\ lastUse \in SetToSeqs(checkouts)
      /\ checkouts = {k \in Keys : Populated(disk[k])}
  BY DEF Init
<1>3. lastUse \in Seq(checkouts) /\ UsedOnce
  BY <1>2, KeysFinite, OrdersOf DEF OnceIn, UsedOnce
<1>4. /\ disk \in [Keys -> Dirs] /\ strays = {}
      /\ writeDir \in [Handles -> Commits \cup {NoCommit}]
  BY <1>1 DEF Init
<1>5. objects \in [Repos -> SUBSET Commits] /\ tip \in [Repos -> Commits \cup {NoCommit}]
  BY StoreAssumption DEF Init
<1>6. TypeOK
  <2>1. 0 \in 0..(GcAfterFetches - 1)
    BY StoreAssumption
  <2>2. /\ stopped \in BOOLEAN /\ fetches \in [Repos -> 0..(GcAfterFetches - 1)]
        /\ refcount \in [Keys -> Nat] /\ pc \in [Calls -> {"idle"}]
        /\ \A h \in Handles : victim[h] \in Keys \cup {NoKey}
    BY <2>1 DEF Init
  <2>3. lock \in [Repos -> Seq(Calls)]
    <3>1. <<>> \in Seq(Calls)
      OBVIOUS
    <3>. QED
      BY <3>1 DEF Init
  <2>. QED
    BY <1>2, <1>3, <1>4, <1>5, <2>2, <2>3 DEF TypeOK
<1>7. CallTypes
  BY DEF Init, CallTypes, Calls
<1>8. AtRest
  BY DEF Init, AtRest, Calls
<1>9. Closed /\ TipComplete
  <2>1. \A r \in Repos : objects[r] = IF InitialTip[r] = NoCommit THEN {} ELSE Reach[InitialTip[r]]
    BY DEF Init
  <2>2. \A r \in Repos : InitialTip[r] # NoCommit => InitialTip[r] \in Commits
    BY StoreAssumption
  <2>. QED
    BY <2>1, <2>2, ReachClosed DEF Init, Closed, TipComplete
<1>10. DiskAccountedFor
  <2> SUFFICES ASSUME NEW k \in Keys, disk[k].whole PROVE k \in checkouts
    BY <1>4 DEF DiskAccountedFor
  <2>1. Populated(disk[k])
    BY <1>4, DirFacts
  <2>. QED
    BY <1>2, <2>1
<1>. QED
  BY <1>3, <1>6, <1>7, <1>8, <1>9, <1>10, RestInv DEF IInv, ObjectsInv

(* init: the checkouts found are registered, the oldest evicted down to    *)
(* the cap; no call survives.                                              *)
LEMMA RestartKeeps ==
  ASSUME IInv, Restart
  PROVE  IInv'
<1>1. PICK left \in [Changing -> UNION {LeftBehind(k) : k \in Changing}] :
        LET found == [k \in Keys |-> IF k \in Changing THEN left[k] ELSE disk[k]]
            registered == {k \in Keys : Populated(found[k])}
        IN /\ \A k \in Changing : left[k] \in LeftBehind(k)
           /\ \E evicted \in SUBSET registered :
                /\ EvictFound(found, evicted)
                /\ checkouts' = registered \ evicted
                /\ lastUse' \in SetToSeqs(registered \ evicted)
  BY DEF Restart
<1> DEFINE found == [k \in Keys |-> IF k \in Changing THEN left[k] ELSE disk[k]]
           registered == {k \in Keys : Populated(found[k])}
<1>2. \A k \in Changing : left[k] \in LeftBehind(k)
  BY <1>1
<1>3. PICK evicted \in SUBSET registered :
        /\ EvictFound(found, evicted)
        /\ checkouts' = registered \ evicted
        /\ lastUse' \in SetToSeqs(registered \ evicted)
  BY <1>1
<1>4. /\ refcount' = [k \in Keys |-> 0]
      /\ fetches' = [r \in Repos |-> 0] /\ lock' = [r \in Repos |-> <<>>]
      /\ pc' = [c \in Calls |-> IF InUse(pc[c]) THEN "failed" ELSE pc[c]]
      /\ victim' = [h \in Handles |-> NoKey] /\ stopped' = FALSE
      /\ UNCHANGED <<tip, objects, want>>
      /\ \E kept : writeDir' = [h \in Handles |-> IF h \in kept THEN writeDir[h] ELSE NoCommit]
  BY DEF Restart
<1>5. /\ TypeOK /\ CallTypes /\ Closed /\ TipComplete /\ disk \in [Keys -> Dirs]
      /\ pc \in [Calls -> Places]
  BY DEF IInv, ObjectsInv, TypeOK, Places
<1>6. \A k \in Changing : LeftBehind(k) \subseteq Dirs
  <2> SUFFICES ASSUME NEW k \in Changing PROVE LeftBehind(k) \subseteq Dirs
    OBVIOUS
  <2>1. k \in Keys /\ disk[k] \in Dirs
    BY <1>5 DEF Changing
  <2>2. Populated(disk[k]) => {Absent, Torn(disk[k].commit)} \subseteq Dirs
    BY <2>1, DirFacts
  <2>3. \A h \in Adding(k) : Torn(want[h].commit) \in Dirs /\ Whole(want[h].commit) \in Dirs
    <3> SUFFICES ASSUME NEW h \in Adding(k)
                 PROVE  Torn(want[h].commit) \in Dirs /\ Whole(want[h].commit) \in Dirs
      OBVIOUS
    <3>1. h \in Handles /\ pc[h] # "idle"
      BY DEF Adding
    <3>. QED
      BY <1>5, <3>1, CallFacts, DirFacts
  <2>. QED
    BY <2>1, <2>2, <2>3 DEF LeftBehind
<1>7. found \in [Keys -> Dirs]
  BY <1>2, <1>5, <1>6
<1>8. registered \in SUBSET Keys
  OBVIOUS
<1>9. \A k \in Keys : k \in registered <=> Populated(found[k])
  OBVIOUS
<1> HIDE DEF found, registered
<1>10. checkouts' \subseteq Keys /\ Cardinality(checkouts') \in Nat
  BY <1>3, <1>8, KeysFinite
(* What init evicts is gone, or as a removal that failed leaves it.        *)
<1>11. /\ disk' \in [Keys -> Dirs] /\ strays' \subseteq evicted
       /\ \A k \in strays' : disk'[k].whole
       /\ \A k \in evicted : disk'[k].whole => k \in strays'
       /\ \A k \in Keys \ evicted : disk'[k] = found[k]
  <2>1. PICK kept \in [evicted -> UNION {Remains(found[k]) : k \in evicted}] :
          /\ \A k \in evicted : kept[k] \in Remains(found[k])
          /\ disk' = [k \in Keys |-> IF k \in evicted THEN kept[k] ELSE found[k]]
          /\ strays' = {k \in evicted : kept[k].whole}
    BY <1>3 DEF EvictFound
  <2>2. \A k \in evicted : k \in Keys /\ kept[k] \in Dirs
    BY <1>3, <1>7, <1>8, <2>1, RemainsOf
  <2>. QED
    BY <1>7, <2>1, <2>2
<1>12. lastUse' \in Seq(checkouts') /\ OnceIn(lastUse')
  BY <1>3, <1>10, OrdersOf
<1>13. UsedOnce'
  BY <1>12 DEF OnceIn, UsedOnce
<1>14. strays' \subseteq Keys /\ writeDir' \in [Handles -> Commits \cup {NoCommit}]
  <2>1. writeDir \in [Handles -> Commits \cup {NoCommit}]
    BY <1>5 DEF TypeOK
  <2>. QED
    BY <1>4, <1>8, <1>11, <2>1
<1>15. pc' \in [Calls -> Places] /\ \A c \in Calls : pc[c] = "idle" => pc'[c] = "idle"
  BY <1>4, <1>5 DEF Places, InUse
<1>16. \A h \in Handles : pc'[h] \in {"idle", "failed", "released"}
  <2> SUFFICES ASSUME NEW h \in Handles PROVE pc'[h] \in {"idle", "failed", "released"}
    OBVIOUS
  <2>1. h \in Calls /\ pc[h] \in Places /\ pc[h] \notin {"asked", "synced"}
    BY <1>5 DEF CallTypes, Calls
  <2>. QED
    BY <1>4, <2>1 DEF InUse, Places
<1>17. TypeOK'
  <2>1. 0 \in 0..(GcAfterFetches - 1)
    BY StoreAssumption
  <2>2. <<>> \in Seq(Calls)
    OBVIOUS
  <2>4. /\ stopped' \in BOOLEAN /\ fetches' \in [Repos -> 0..(GcAfterFetches - 1)]
        /\ refcount' \in [Keys -> Nat] /\ lock' \in [Repos -> Seq(Calls)]
        /\ \A h \in Handles : victim'[h] \in Keys \cup {NoKey}
    BY <1>4, <2>1, <2>2
  <2>5. tip' \in [Repos -> Commits \cup {NoCommit}] /\ objects' \in [Repos -> SUBSET Commits]
    BY <1>4, <1>5 DEF TypeOK
  <2>. QED
    BY <1>10, <1>11, <1>12, <1>14, <1>15, <2>4, <2>5 DEF TypeOK, Places
<1>18. CallTypes'
  <2>1. ASSUME NEW h \in Handles, pc'[h] # "idle" PROVE want'[h] \in Asked
    BY <1>4, <1>5, <1>15, <2>1 DEF CallTypes, Calls
  <2>2. ASSUME NEW s \in Syncs, pc'[s] # "idle" PROVE want'[s] \in AskedSync
    BY <1>4, <1>5, <1>15, <2>2 DEF CallTypes, Calls
  <2>3. victim' \in [Handles -> Keys \cup {NoKey}]
        /\ want' \in [Calls -> Asked \cup AskedSync \cup {NoWant}]
    BY <1>4, <1>5 DEF CallTypes
  <2>. QED
    BY <1>16, <2>1, <2>2, <2>3 DEF CallTypes
<1>19. AtRest'
  BY <1>4, <1>16 DEF AtRest
<1>20. Closed' /\ TipComplete'
  BY <1>4, <1>5 DEF Closed, TipComplete
<1>21. DiskAccountedFor'
  <2>1. ASSUME NEW k \in Keys, disk'[k].whole PROVE k \in checkouts' \cup strays'
    <3>1. CASE k \in evicted
      BY <1>11, <2>1, <3>1
    <3>2. CASE k \notin evicted
      <4>1. disk'[k] = found[k] /\ disk'[k] \in Dirs
        BY <1>11, <3>2
      <4>2. Populated(found[k])
        BY <2>1, <4>1, DirFacts
      <4>. QED
        BY <1>3, <1>9, <3>2, <4>2
    <3>. QED
      BY <3>1, <3>2
  <2>2. \A k \in strays' : disk'[k].whole /\ k \notin checkouts'
    BY <1>3, <1>11
  <2>. QED
    BY <2>1, <2>2 DEF DiskAccountedFor
<1>22. (LockInv /\ PinsInv /\ AddingAlone /\ RemovingAlone /\ DirInv /\ Kept)'
  BY <1>19, RestInv, PTL
<1>. QED
  BY <1>13, <1>17, <1>18, <1>20, <1>21, <1>22 DEF IInv, ObjectsInv

-----------------------------------------------------------------------------
LEMMA NextIInv == IInv /\ [Next]_vars => IInv'
<1> SUFFICES ASSUME IInv, [Next]_vars PROVE IInv'
  OBVIOUS
<1>1. CASE \E h \in Handles, r \in Repos, c \in Commits, mode \in {"read", "write"} :
             Resolve(h, r, c, mode)
  BY <1>1, ResolveKeeps
<1>2. CASE \E h \in Handles : HandleStep(h)
  BY <1>2, StepKeeps
<1>3. ASSUME NEW s \in Syncs,
             (\E r \in Repos, c \in Commits : SyncAsks(s, r, c)) \/ SyncStep(s)
      PROVE  IInv'
  BY <1>3, AskKeeps, BundleFailsKeeps, BundleAppliedKeeps DEF SyncStep
<1>4. CASE UNCHANGED vars
  <2>1. UNCHANGED <<stopped, tip, objects, fetches, disk, strays, writeDir, checkouts, lastUse,
                    refcount, lock, pc, want, victim>>
    BY <1>4 DEF vars, diskVars, mapVars
  <2>2. /\ \A h \in Handles : /\ Pinning(h)' <=> Pinning(h)
                              /\ Key(h)' = Key(h) /\ Active(h)' = Active(h)
                              /\ RepoOf(h)' = RepoOf(h)
        /\ \A k \in Keys : Pins(k)' = Pins(k)
    BY <2>1 DEF Pinning, Key, Active, RepoOf, Pins
  <2>3. TypeOK' /\ CallTypes' /\ UsedOnce'
    BY <2>1 DEF IInv, TypeOK, CallTypes, UsedOnce
  <2>4. LockInv' /\ PinsInv' /\ AddingAlone' /\ RemovingAlone'
    BY <2>1, <2>2 DEF IInv, LockInv, PinsInv, AddingAlone, RemovingAlone, Holds
  <2>5. DirInv' /\ ObjectsInv'
    BY <2>1, <2>2 DEF IInv, DirInv, Tracked, ObjectsInv, Closed, Kept, TipComplete, Needs, Working
  <2>6. DiskAccountedFor'
    BY <2>1, <2>2 DEF IInv, DiskAccountedFor
  <2>. QED
    BY <2>3, <2>4, <2>5, <2>6 DEF IInv
<1>. QED
  BY <1>1, <1>2, <1>3, <1>4, StopKeeps, RestartKeeps DEF Next, HandleStep

(* The lock, the pins, the directories and the object stores hold together *)
(* through every interleaving of resolves, eviction passes, syncs, garbage *)
(* collection, stops and crashes.                                          *)
THEOREM StoreInductive == Spec => []IInv
BY InitIInv, NextIInv, PTL DEF Spec

LEMMA HeldFollows == IInv => HeldNotYanked
<1> SUFFICES ASSUME IInv PROVE HeldNotYanked
  OBVIOUS
<1>1. TypeOK /\ CallTypes /\ PinsInv /\ DirInv /\ Closed /\ Kept
  BY DEF IInv, ObjectsInv
<1>2. PinsExact
  BY <1>1 DEF PinsInv, PinsExact, Pins
<1>3. ASSUME NEW h \in Handles, Working(h)
      PROVE  /\ CommitIn(h) = want[h].commit
             /\ Reach[want[h].commit] \subseteq objects[want[h].repo]
  <2>1. pc[h] # "idle"
    BY <1>3 DEF Working, Pinning
  <2>2. want[h].repo \in Repos
    BY <1>1, <2>1, CallFacts
  <2>3. Reach[want[h].commit] \subseteq objects[want[h].repo]
    BY <1>1, <1>3, <2>2 DEF Kept, Needs, Closed
  <2>4. CASE Pinning(h)
    BY <1>1, <2>3, <2>4 DEF DirInv, Tracked, CommitIn, Pinning
  <2>5. CASE want[h].mode = "write" /\ pc[h] = "held"
    BY <1>1, <2>3, <2>5 DEF DirInv, CommitIn
  <2>. QED
    BY <1>3, <2>4, <2>5 DEF Working
<1>. QED
  BY <1>1, <1>2, <1>3 DEF HeldNotYanked

(* The directory under a live handle holds the commit its job asked for,   *)
(* and the pins are exactly the live handles, whatever eviction, other     *)
(* resolves, syncs and collections do meanwhile.                           *)
THEOREM HeldIsNeverYanked == Spec => []HeldNotYanked
BY StoreInductive, HeldFollows, PTL

(* A complete checkout on disk is in the map that the cap counts, or a     *)
(* call is on its way to register or remove it, or a command that failed   *)
(* left it: no order of resolves, passes, releases, stops and restarts     *)
(* forgets one by itself.                                                  *)
THEOREM DiskIsAccountedFor == Spec => []DiskAccountedFor
<1>1. IInv => DiskAccountedFor
  BY DEF IInv
<1>. QED
  BY <1>1, StoreInductive, PTL

(* The tip that a sync builds an incremental bundle on has its whole       *)
(* history in the object store, after any failure and any gc.              *)
THEOREM TipIsComplete == Spec => []TipComplete
<1>1. IInv => TipComplete
  BY DEF IInv, ObjectsInv
<1>. QED
  BY <1>1, StoreInductive, PTL
=============================================================================
