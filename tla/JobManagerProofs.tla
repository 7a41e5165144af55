-------------------------- MODULE JobManagerProofs --------------------------
(***************************************************************************)
(* Proofs about JobManager, for any finite set of jobs and any limits.     *)
(*                                                                         *)
(* The slot bounds are not inductive by themselves. They rest on what the  *)
(* code keeps in step: the running set holds exactly the jobs with a live  *)
(* coroutine, the queue exactly the jobs whose status is queued, and a     *)
(* job not yet terminal always has its record (Coherent); on the           *)
(* submission order being total (TurnsDistinct); and on the queue being    *)
(* empty unless every slot is taken (SlotBounds).                          *)
(*                                                                         *)
(* The manager is moreover the life cycle the RFC describes                *)
(* (JobLifecycle): every step of it is one step of each job's life at      *)
(* most, within the limits, or changes nothing a peer can see.             *)
(*                                                                         *)
(* The event streams (JobStreams) follow: what a client reads, over all    *)
(* its connections, is the log of the job it watches.                      *)
(***************************************************************************)
EXTENDS MCJobManager, JobStreams, FiniteSetTheorems, SequenceTheorems, TLAPS

LiveAt == {"resolving", "executing", "releasing", "returning"}

Coherent ==
  /\ running = {j \in Jobs : at[j] \in LiveAt}
  /\ queue = {j \in Jobs : status[j] = "queued"}
  /\ records \subseteq Minted
  /\ mgr # "up" => queue = {}
  /\ \A j \in Jobs :
       /\ status[j] = "running" <=> at[j] \in {"resolving", "executing"}
       /\ status[j] \in {"unminted", "queued"} => at[j] = "idle"
       /\ status[j] \in {"queued", "running"} /\ mgr # "stopped" => j \in records

TurnsDistinct ==
  /\ \A j \in Minted : turn[j] \in 1..Cardinality(Minted)
  /\ \A i, j \in Minted : turn[i] = turn[j] => i = j

SlotBounds ==
  /\ Cardinality(running) <= MaxConcurrentJobs
  /\ queue # {} => Cardinality(running) = MaxConcurrentJobs
  /\ Cardinality(queue) <= MaxQueuedJobs

SlotInv == TypeOK /\ Coherent /\ TurnsDistinct /\ SlotBounds

-----------------------------------------------------------------------------
(* Every set of jobs is finite, so its cardinality is a number that grows  *)
(* with the set.                                                           *)
LEMMA JobSets ==
  ASSUME NEW S \in SUBSET Jobs
  PROVE  /\ IsFiniteSet(S) /\ Cardinality(S) \in Nat
         /\ \A T \in SUBSET S : Cardinality(T) <= Cardinality(S)
BY JobsAssumption, FS_Subset, FS_CardinalityType

(* What pump does to a queue of recorded, queued jobs in submission order: *)
(* it starts some of them, never more than the slots allow, and leaves one *)
(* waiting only when every slot is taken.                                  *)
LEMMA PumpEffect ==
  ASSUME NEW q \in SUBSET Jobs, NEW run \in SUBSET Jobs, NEW st, NEW pc,
         Cardinality(run) <= MaxConcurrentJobs,
         turn' \in [Jobs -> Nat],
         \A j \in q : turn'[j] >= 1 /\ st[j] = "queued" /\ j \in records',
         \A i, j \in q : turn'[i] = turn'[j] => i = j,
         Pump(q, run, st, pc)
  PROVE  \E S \in SUBSET q :
           /\ queue' = q \ S
           /\ running' = run \cup S
           /\ status' = [j \in Jobs |-> IF j \in S THEN "running" ELSE st[j]]
           /\ events' = [j \in Jobs |-> IF j \in S THEN Append(events[j], "running")
                                                   ELSE events[j]]
           /\ at' = [j \in Jobs |-> IF j \in S THEN "resolving" ELSE pc[j]]
           /\ Cardinality(running') <= MaxConcurrentJobs
           /\ queue' # {} => Cardinality(running') = MaxConcurrentJobs
<1>1. \A n \in Int : Startable(q, st, n) = Shifted(q, n)
  BY DEF Startable, Shifted
<1>2. PICK k \in 0..Cardinality(Jobs) :
        /\ PumpStops(q, run, st, k)
        /\ \A n \in 0..(k - 1) : ~PumpStops(q, run, st, n)
        /\ queue' = q \ Shifted(q, k)
        /\ running' = run \cup Startable(q, st, k)
        /\ status' = [j \in Jobs |->
                        IF j \in Startable(q, st, k) THEN "running" ELSE st[j]]
        /\ events' = [j \in Jobs |->
                        IF j \in Startable(q, st, k) THEN Append(events[j], "running")
                                                     ELSE events[j]]
        /\ at' = [j \in Jobs |->
                    IF j \in Startable(q, st, k) THEN "resolving" ELSE pc[j]]
  BY DEF Pump
<1>3. k \in Nat /\ MaxConcurrentJobs \in Nat
  BY JobSets, LimitsAssumption
<1> DEFINE S == Shifted(q, k)
<1>4. S \in SUBSET q /\ Startable(q, st, k) = S
  BY <1>1, <1>3 DEF Shifted
<1>5. Cardinality(run \cup S) \in Nat
  BY <1>4, JobSets
<1>6. Cardinality(run \cup S) <= MaxConcurrentJobs
  <2>1. CASE k = 0
    <3>1. S = {}
      BY <2>1 DEF Shifted
    <3>2. run \cup S = run
      BY <3>1
    <3> QED BY <3>2
  <2>2. CASE k > 0
    <3> DEFINE before == run \cup Shifted(q, k - 1)
    <3>1. before \in SUBSET Jobs
      BY DEF Shifted
    <3>2. IsFiniteSet(before) /\ Cardinality(before) \in Nat
      BY <3>1, JobSets
    <3>3. k - 1 \in 0..(k - 1) /\ k - 1 \in Int
      BY <1>3, <2>2
    <3>4. Cardinality(before) < MaxConcurrentJobs
      BY <1>1, <1>2, <1>3, <3>2, <3>3 DEF PumpStops
    <3>5. CASE \E x \in q : turn'[x] = k
      <4>1. PICK x \in q : turn'[x] = k
        BY <3>5
      <4>2. S = Shifted(q, k - 1) \cup {x}
        BY <4>1, <1>3, <2>2 DEF Shifted
      <4>3. run \cup S = before \cup {x}
        BY <4>2
      <4> HIDE DEF before
      <4>4. Cardinality(before \cup {x}) = IF x \in before THEN Cardinality(before)
                                           ELSE Cardinality(before) + 1
        BY <3>2, FS_AddElement, Zenon
      <4>5. Cardinality(before \cup {x}) <= MaxConcurrentJobs
        BY <4>4, <3>2, <3>4, <1>3
      <4> HIDE DEF S
      <4> QED BY <4>3, <4>5
    <3>6. CASE ~ \E x \in q : turn'[x] = k
      <4>1. S = Shifted(q, k - 1)
        BY <3>6, <1>3, <2>2 DEF Shifted
      <4> QED BY <4>1, <3>2, <3>4, <1>3
    <3> QED BY <3>5, <3>6
  <2> QED BY <1>3, <2>1, <2>2
<1>7. queue' # {} => Cardinality(run \cup S) >= MaxConcurrentJobs
  BY <1>2, <1>4 DEF PumpStops
<1>8. queue' # {} => Cardinality(run \cup S) = MaxConcurrentJobs
  BY <1>3, <1>5, <1>6, <1>7
<1>9. /\ queue' = q \ S
      /\ running' = run \cup S
      /\ status' = [j \in Jobs |-> IF j \in S THEN "running" ELSE st[j]]
      /\ events' = [j \in Jobs |-> IF j \in S THEN Append(events[j], "running")
                                              ELSE events[j]]
      /\ at' = [j \in Jobs |-> IF j \in S THEN "resolving" ELSE pc[j]]
  BY <1>2, <1>4
<1>10. S \in SUBSET q /\ Cardinality(running') <= MaxConcurrentJobs
       /\ (queue' # {} => Cardinality(running') = MaxConcurrentJobs)
  BY <1>4, <1>6, <1>8, <1>9
<1> HIDE DEF S
<1> QED BY <1>9, <1>10, Zenon

(* What finishing jobs does: the fresh ones get the outcome, and eviction  *)
(* drops terminal records only.                                            *)
LEMMA FinishEffect ==
  ASSUME TypeOK, NEW S \in SUBSET Jobs, NEW outcome \in Terminal,
         FinishJobs(S, outcome)
  PROVE  /\ status' = [j \in Jobs |-> IF j \in Fresh(S) THEN outcome ELSE status[j]]
         /\ status' \in [Jobs -> Statuses \cup {"unminted"}]
         /\ ended' \in [Jobs -> Nat]
         /\ events' \in [Jobs -> Seq(EventKinds)]
         /\ notices' \in [Jobs -> Nat]
         /\ terminalOrder' \subseteq Jobs
         /\ records' \subseteq records
         /\ \A j \in records \ records' : status'[j] \in Terminal
<1>1. status' = [j \in Jobs |-> IF j \in Fresh(S) THEN outcome ELSE status[j]]
  BY DEF FinishJobs
<1>2. status' \in [Jobs -> Statuses \cup {"unminted"}]
  BY <1>1 DEF TypeOK, Statuses
<1>3. ended' \in [Jobs -> Nat]
  <2>1. Cardinality(Ended) \in Nat
    BY JobSets DEF Ended
  <2> DEFINE rank(j) == Cardinality({i \in Fresh(S) : turn[i] <= turn[j]})
  <2>2. \A j \in Jobs : rank(j) \in Nat
    BY JobSets DEF Fresh
  <2>3. ended' = [j \in Jobs |-> IF j \in Fresh(S) THEN Cardinality(Ended) + rank(j)
                                                  ELSE ended[j]]
    BY DEF FinishJobs
  <2> HIDE DEF rank
  <2> QED BY <2>1, <2>2, <2>3 DEF TypeOK
<1>4. events' \in [Jobs -> Seq(EventKinds)]
  <2>1. FinalEvents \in Seq(EventKinds)
    BY DEF EventKinds, FinalEvents
  <2>2. \A j \in Jobs : events[j] \o FinalEvents \in Seq(EventKinds)
    BY <2>1 DEF TypeOK
  <2> QED BY <2>2 DEF FinishJobs, TypeOK
<1>5. PICK k \in 0..Cardinality(Jobs) :
        /\ records' = records \ Evictable(terminalOrder \cup Fresh(S), k)
        /\ terminalOrder' = (terminalOrder \cup Fresh(S))
                              \ ShiftedTerminal(terminalOrder \cup Fresh(S), k)
        /\ notices' = [j \in Jobs |->
                         IF j \in Evictable(terminalOrder \cup Fresh(S), k)
                         THEN notices[j] + 1 ELSE notices[j]]
  BY DEF FinishJobs, EvictIfNeeded
<1>6. notices' \in [Jobs -> Nat]
  BY <1>5 DEF TypeOK
<1>7. terminalOrder' \subseteq Jobs
  BY <1>5 DEF TypeOK, Fresh
<1>8. records' \subseteq records /\ \A j \in records \ records' : status'[j] \in Terminal
  BY <1>5 DEF Evictable
<1> QED BY <1>1, <1>2, <1>3, <1>4, <1>6, <1>7, <1>8

(* A step that mints no id keeps the submission order. *)
LEMMA TurnsKept ==
  ASSUME TurnsDistinct, UNCHANGED turn, Minted' = Minted
  PROVE  TurnsDistinct'
BY DEF TurnsDistinct

(* A smaller queue stays within its bound, and needs full slots no more    *)
(* than before.                                                            *)
LEMMA BoundsKept ==
  ASSUME TypeOK, SlotBounds, queue' \subseteq queue, UNCHANGED running
  PROVE  SlotBounds'
<1>1. Cardinality(queue') <= Cardinality(queue)
  BY JobSets DEF TypeOK
<1>2. Cardinality(queue') \in Nat /\ Cardinality(queue) \in Nat
  BY JobSets DEF TypeOK
<1> QED BY <1>1, <1>2, LimitsAssumption DEF SlotBounds

(* A coroutine that finishes its job: from resolving or executing to       *)
(* releasing or returning, the slot still taken.                           *)
LEMMA FinishLive ==
  ASSUME SlotInv, NEW j \in Jobs, NEW outcome \in Terminal,
         NEW next \in {"releasing", "returning"},
         at[j] \in {"resolving", "executing"},
         FinishJobs({j}, outcome),
         at' = [at EXCEPT ![j] = next],
         UNCHANGED <<mgr, queue, running, owner, turn, aborted, callVars>>
  PROVE  SlotInv'
<1> USE DEF SlotInv
<1>1. Fresh({j}) = {j}
  BY DEF Fresh, Coherent, Terminal
<1>2. status' = [i \in Jobs |-> IF i = j THEN outcome ELSE status[i]]
  <2>1. status' = [i \in Jobs |-> IF i \in Fresh({j}) THEN outcome ELSE status[i]]
    BY FinishEffect
  <2> QED BY <1>1, <2>1
<1>3. /\ records' \subseteq records
      /\ \A i \in records \ records' : status'[i] \in Terminal
  BY FinishEffect
<1>4. TypeOK'
  <2>1. at' \in [Jobs -> {"idle", "resolving", "executing", "releasing",
                          "returning", "done"}]
    BY DEF TypeOK
  <2>2. records' \subseteq Jobs
    BY <1>3 DEF TypeOK
  <2>3. /\ status' \in [Jobs -> Statuses \cup {"unminted"}]
        /\ ended' \in [Jobs -> Nat]
        /\ events' \in [Jobs -> Seq(EventKinds)]
        /\ notices' \in [Jobs -> Nat]
        /\ terminalOrder' \subseteq Jobs
    BY FinishEffect
  <2> QED BY <2>1, <2>2, <2>3 DEF TypeOK, callVars
<1>5. Minted' = Minted
  BY <1>2 DEF Minted, Coherent, TypeOK, Terminal
<1>6. Coherent'
  <2>1. running' = {i \in Jobs : at'[i] \in LiveAt}
    BY DEF Coherent, LiveAt, TypeOK
  <2>2. queue' = {i \in Jobs : status'[i] = "queued"}
    BY <1>2 DEF Coherent, TypeOK, Terminal
  <2>3. records' \subseteq Minted'
    BY <1>3, <1>5 DEF Coherent
  <2>4. mgr' # "up" => queue' = {}
    BY DEF Coherent
  <2>5. ASSUME NEW i \in Jobs
        PROVE  /\ status'[i] = "running" <=> at'[i] \in {"resolving", "executing"}
               /\ status'[i] \in {"unminted", "queued"} => at'[i] = "idle"
               /\ status'[i] \in {"queued", "running"} /\ mgr' # "stopped"
                    => i \in records'
    BY <1>2, <1>3 DEF Coherent, TypeOK, Terminal
  <2> QED BY <2>1, <2>2, <2>3, <2>4, <2>5 DEF Coherent
<1>7. TurnsDistinct'
  BY <1>5, TurnsKept
<1>8. SlotBounds'
  BY BoundsKept
<1> QED BY <1>4, <1>6, <1>7, <1>8

(* Jobs canceled while they wait leave the queue and never take a slot.    *)
LEMMA FinishQueued ==
  ASSUME SlotInv, NEW S \in SUBSET queue,
         FinishJobs(S, "canceled"),
         queue' = queue \ S,
         mgr' = mgr \/ (mgr' = "stopping" /\ S = queue),
         mgr # "stopped" \/ mgr' = mgr,
         aborted' \subseteq Jobs, awaited' \subseteq Jobs,
         UNCHANGED <<running, owner, turn, at, unwinding>>
  PROVE  SlotInv'
<1> USE DEF SlotInv
<1>1. S \in SUBSET Jobs /\ "canceled" \in Terminal
  BY DEF TypeOK, Terminal
<1>2. Fresh(S) = S
  BY DEF Fresh, Coherent, Terminal
<1>3. status' = [i \in Jobs |-> IF i \in S THEN "canceled" ELSE status[i]]
  BY <1>1, <1>2, FinishEffect
<1>4. /\ records' \subseteq records
      /\ \A i \in records \ records' : status'[i] \in Terminal
  BY <1>1, FinishEffect
<1>5. TypeOK'
  <2>1. records' \subseteq Jobs /\ queue' \subseteq Jobs
    BY <1>4 DEF TypeOK
  <2>2. mgr' \in {"up", "stopping", "stopped"}
    BY DEF TypeOK
  <2> QED BY <1>1, <2>1, <2>2, FinishEffect DEF TypeOK
<1>6. Minted' = Minted
  BY <1>3 DEF Minted, Coherent, TypeOK
<1>7. Coherent'
  <2>1. running' = {i \in Jobs : at'[i] \in LiveAt}
    BY DEF Coherent
  <2>2. queue' = {i \in Jobs : status'[i] = "queued"}
    BY <1>3 DEF Coherent, TypeOK
  <2>3. records' \subseteq Minted'
    BY <1>4, <1>6 DEF Coherent
  <2>4. mgr' # "up" => queue' = {}
    BY DEF Coherent
  <2>5. ASSUME NEW i \in Jobs
        PROVE  /\ status'[i] = "running" <=> at'[i] \in {"resolving", "executing"}
               /\ status'[i] \in {"unminted", "queued"} => at'[i] = "idle"
               /\ status'[i] \in {"queued", "running"} /\ mgr' # "stopped"
                    => i \in records'
    BY <1>3, <1>4 DEF Coherent, TypeOK, Terminal
  <2> QED BY <2>1, <2>2, <2>3, <2>4, <2>5 DEF Coherent
<1>8. TurnsDistinct'
  BY <1>6, TurnsKept
<1>9. SlotBounds'
  BY BoundsKept
<1> QED BY <1>5, <1>7, <1>8, <1>9

(* An accepted job: the new turn is larger than every other, and the queue *)
(* it joins is empty unless every slot is taken.                           *)
LEMMA SubmitKeeps ==
  ASSUME SlotInv, NEW j \in Jobs, NEW p \in Peers, Submit(j, p)
  PROVE  SlotInv'
<1> USE DEF SlotInv
<1> DEFINE q == queue \cup {j}
           st == [status EXCEPT ![j] = "queued"]
<1>1. /\ mgr = "up" /\ status[j] = "unminted" /\ at[j] = "idle"
      /\ j \notin queue /\ j \notin running
  BY DEF Submit, Coherent, LiveAt
<1>2. Cardinality(Minted) \in Nat /\ j \notin Minted /\ Minted \in SUBSET Jobs
  BY <1>1, JobSets DEF Minted
<1>3. turn' = [turn EXCEPT ![j] = Cardinality(Minted) + 1]
  BY DEF Submit
<1>4. turn' \in [Jobs -> Nat]
  BY <1>2, <1>3 DEF TypeOK
<1>5. queue \subseteq Minted
  BY DEF Coherent, Minted
<1>6. \A i \in q : turn'[i] >= 1
  BY <1>2, <1>3, <1>5 DEF TurnsDistinct, TypeOK
<1>7. \A i \in q : st[i] = "queued" /\ i \in records'
  BY <1>1 DEF Submit, Coherent, TypeOK
<1>8. \A a, b \in Minted \cup {j} : turn'[a] = turn'[b] => a = b
  BY <1>2, <1>3 DEF TurnsDistinct, TypeOK
<1>9. \A a, b \in q : turn'[a] = turn'[b] => a = b
  BY <1>5, <1>8
<1>10. q \in SUBSET Jobs /\ running \in SUBSET Jobs
  BY DEF TypeOK
<1>11. Cardinality(running) <= MaxConcurrentJobs
  BY DEF SlotBounds
<1>12. Pump(q, running, st, at)
  BY DEF Submit
<1> HIDE DEF q, st
<1>13. PICK S \in SUBSET q :
         /\ queue' = q \ S
         /\ running' = running \cup S
         /\ status' = [i \in Jobs |-> IF i \in S THEN "running" ELSE st[i]]
         /\ events' = [i \in Jobs |-> IF i \in S THEN Append(events[i], "running")
                                                 ELSE events[i]]
         /\ at' = [i \in Jobs |-> IF i \in S THEN "resolving" ELSE at[i]]
         /\ Cardinality(running') <= MaxConcurrentJobs
         /\ queue' # {} => Cardinality(running') = MaxConcurrentJobs
  BY <1>4, <1>6, <1>7, <1>9, <1>10, <1>11, <1>12, PumpEffect
<1> USE DEF q, st
<1>14. TypeOK'
  <2>1. /\ mgr' \in {"up", "stopping", "stopped"}
        /\ records' \subseteq Jobs /\ terminalOrder' \subseteq Jobs
        /\ owner' \in [Jobs -> Peers \cup {NoOwner}]
        /\ ended' \in [Jobs -> Nat] /\ notices' \in [Jobs -> Nat]
        /\ aborted' \subseteq Jobs /\ unwinding' \subseteq Jobs
        /\ awaited' \subseteq Jobs
    BY DEF Submit, TypeOK, callVars
  <2>2. status' \in [Jobs -> Statuses \cup {"unminted"}]
    BY <1>13 DEF TypeOK, Statuses
  <2>3. events' \in [Jobs -> Seq(EventKinds)]
    <3>1. \A i \in Jobs : Append(events[i], "running") \in Seq(EventKinds)
      BY DEF TypeOK, EventKinds
    <3> QED BY <1>13, <3>1 DEF TypeOK
  <2>4. at' \in [Jobs -> {"idle", "resolving", "executing", "releasing",
                          "returning", "done"}]
    BY <1>13 DEF TypeOK
  <2>5. queue' \subseteq Jobs /\ running' \subseteq Jobs
    BY <1>10, <1>13
  <2> QED BY <1>4, <2>1, <2>2, <2>3, <2>4, <2>5 DEF TypeOK
<1>15. Minted' = Minted \cup {j}
  BY <1>1, <1>13 DEF Minted, Coherent, TypeOK
<1>16. Coherent'
  <2>1. running' = {i \in Jobs : at'[i] \in LiveAt}
    BY <1>13, <1>10 DEF Coherent, LiveAt, TypeOK
  <2>2. queue' = {i \in Jobs : status'[i] = "queued"}
    BY <1>13 DEF Coherent, TypeOK
  <2>3. records' \subseteq Minted'
    BY <1>15 DEF Coherent, Submit
  <2>4. mgr' = "up"
    BY <1>1 DEF Submit
  <2>5. ASSUME NEW i \in Jobs
        PROVE  /\ status'[i] = "running" <=> at'[i] \in {"resolving", "executing"}
               /\ status'[i] \in {"unminted", "queued"} => at'[i] = "idle"
               /\ status'[i] \in {"queued", "running"} /\ mgr' # "stopped"
                    => i \in records'
    <3>1. i \in q => st[i] = "queued" /\ at[i] = "idle"
      BY <1>1 DEF Coherent, TypeOK
    <3>2. i # j => st[i] = status[i]
      BY DEF TypeOK
    <3>3. records' = records \cup {j}
      BY DEF Submit
    <3> HIDE DEF q, st
    <3>4. status'[i] = (IF i \in S THEN "running" ELSE st[i])
          /\ at'[i] = (IF i \in S THEN "resolving" ELSE at[i])
      BY <1>13
    <3>5. j \in q /\ S \subseteq q
      BY DEF q
    <3>6. i \in q => i = j \/ status[i] = "queued"
      BY DEF q, Coherent
    <3> QED BY <1>1, <3>1, <3>2, <3>3, <3>4, <3>5, <3>6 DEF Coherent
  <2> QED BY <2>1, <2>2, <2>3, <2>4, <2>5 DEF Coherent
<1>17. TurnsDistinct'
  <2>1. Cardinality(Minted') = Cardinality(Minted) + 1
    BY <1>2, <1>15, JobSets, FS_AddElement
  <2>2. \A i \in Minted' : turn'[i] \in 1..Cardinality(Minted')
    BY <1>2, <1>3, <1>15, <2>1 DEF TurnsDistinct, TypeOK
  <2> QED BY <1>8, <1>15, <2>2 DEF TurnsDistinct
<1>18. SlotBounds'
  <2>1. Cardinality(queue') <= MaxQueuedJobs
    <3>1. /\ Cardinality(queue) \in Nat /\ IsFiniteSet(queue)
          /\ Cardinality(running) \in Nat /\ Cardinality(queue') \in Nat
      BY <1>14, JobSets DEF TypeOK
    <3>2. CASE Cardinality(running) >= MaxConcurrentJobs
      <4>1. Cardinality(queue) < MaxQueuedJobs
        BY <3>1, <3>2, LimitsAssumption DEF Submit
      <4>2. Cardinality(q) = Cardinality(queue) + 1
        BY <1>1, <3>1, FS_AddElement
      <4>3. Cardinality(queue') <= Cardinality(q)
        BY <1>10, <1>13, JobSets
      <4> HIDE DEF q
      <4> QED BY <3>1, <4>1, <4>2, <4>3, LimitsAssumption
    <3>3. CASE Cardinality(running) < MaxConcurrentJobs
      <4>1. queue = {}
        BY <3>1, <3>3, LimitsAssumption DEF SlotBounds
      <4>2. queue' # {} => S = {}
        BY <1>13, <4>1
      <4>3. queue' # {} => Cardinality(running) = MaxConcurrentJobs
        BY <1>13, <4>2
      <4>4. queue' = {}
        BY <4>3, <3>1, <3>3, LimitsAssumption
      <4> QED BY <4>4, FS_EmptySet, LimitsAssumption
    <3> QED BY <3>1, <3>2, <3>3, LimitsAssumption
  <2> QED BY <1>13, <2>1 DEF SlotBounds
<1> QED BY <1>14, <1>16, <1>17, <1>18

(* A coroutine that has returned gives its slot back, and an open manager  *)
(* gives it to the oldest waiting jobs.                                    *)
LEMMA RunJobEndsKeeps ==
  ASSUME SlotInv, NEW j \in Jobs, RunJobEnds(j)
  PROVE  SlotInv'
<1> USE DEF SlotInv
<1> DEFINE run == running \ {j}
           pc == [at EXCEPT ![j] = "done"]
<1>1. /\ at[j] = "returning" /\ j \in running
      /\ status[j] \notin {"unminted", "queued", "running"}
  BY DEF RunJobEnds, Coherent, LiveAt
<1>2. /\ IsFiniteSet(running) /\ Cardinality(running) \in Nat
      /\ Cardinality(run) = Cardinality(running) - 1
  BY <1>1, JobSets, FS_RemoveElement DEF TypeOK
<1>3. Cardinality(run) <= MaxConcurrentJobs
  BY <1>2, LimitsAssumption DEF SlotBounds
<1>4. /\ mgr' = mgr /\ records' = records /\ turn' = turn
  BY DEF RunJobEnds
<1>5. run = {i \in Jobs : pc[i] \in LiveAt}
  BY <1>1 DEF Coherent, LiveAt, TypeOK
<1>6. CASE mgr = "up"
  <2>1. Pump(queue, run, status, pc)
    BY <1>6 DEF RunJobEnds
  <2>2. queue \in SUBSET Jobs /\ run \in SUBSET Jobs /\ turn' \in [Jobs -> Nat]
    BY <1>4 DEF TypeOK
  <2>3. \A i \in queue : turn'[i] >= 1 /\ status[i] = "queued" /\ i \in records'
    <3>1. \A i \in queue : i \in Minted /\ status[i] = "queued" /\ i \in records'
      BY <1>4, <1>6 DEF Coherent, Minted
    <3>2. Cardinality(Minted) \in Nat
      BY JobSets DEF Minted
    <3> QED BY <1>4, <3>1, <3>2 DEF TurnsDistinct
  <2>4. \A a, b \in queue : turn'[a] = turn'[b] => a = b
    BY <1>4 DEF TurnsDistinct, Coherent, Minted
  <2> HIDE DEF run, pc
  <2>5. PICK S \in SUBSET queue :
          /\ queue' = queue \ S
          /\ running' = run \cup S
          /\ status' = [i \in Jobs |-> IF i \in S THEN "running" ELSE status[i]]
          /\ events' = [i \in Jobs |-> IF i \in S THEN Append(events[i], "running")
                                                  ELSE events[i]]
          /\ at' = [i \in Jobs |-> IF i \in S THEN "resolving" ELSE pc[i]]
          /\ Cardinality(running') <= MaxConcurrentJobs
          /\ queue' # {} => Cardinality(running') = MaxConcurrentJobs
    BY <1>3, <2>1, <2>2, <2>3, <2>4, PumpEffect
  <2>6. pc \in [Jobs -> {"idle", "resolving", "executing", "releasing",
                         "returning", "done"}]
    BY DEF pc, TypeOK
  <2>7. TypeOK'
    <3>1. status' \in [Jobs -> Statuses \cup {"unminted"}]
      BY <2>5 DEF TypeOK, Statuses
    <3>2. events' \in [Jobs -> Seq(EventKinds)]
      <4>1. \A i \in Jobs : Append(events[i], "running") \in Seq(EventKinds)
        BY DEF TypeOK, EventKinds
      <4> QED BY <2>5, <4>1 DEF TypeOK
    <3>3. at' \in [Jobs -> {"idle", "resolving", "executing", "releasing",
                            "returning", "done"}]
      BY <2>5, <2>6
    <3>4. queue' \subseteq Jobs /\ running' \subseteq Jobs
      BY <2>2, <2>5
    <3> QED BY <1>4, <3>1, <3>2, <3>3, <3>4 DEF TypeOK, RunJobEnds, callVars
  <2>8. Minted' = Minted
    BY <2>5 DEF Minted, Coherent, TypeOK
  <2>9. Coherent'
    <3>1. running' = {i \in Jobs : at'[i] \in LiveAt}
      BY <1>5, <2>2, <2>5 DEF LiveAt
    <3>2. queue' = {i \in Jobs : status'[i] = "queued"}
      BY <2>5 DEF Coherent, TypeOK
    <3>3. records' \subseteq Minted'
      BY <1>4, <2>8 DEF Coherent
    <3>4. mgr' = "up"
      BY <1>4, <1>6
    <3>5. ASSUME NEW i \in Jobs
          PROVE  /\ status'[i] = "running" <=> at'[i] \in {"resolving", "executing"}
                 /\ status'[i] \in {"unminted", "queued"} => at'[i] = "idle"
                 /\ status'[i] \in {"queued", "running"} /\ mgr' # "stopped"
                      => i \in records'
      <4>1. pc[i] = (IF i = j THEN "done" ELSE at[i])
        BY DEF pc, TypeOK
      <4>2. /\ status'[i] = (IF i \in S THEN "running" ELSE status[i])
            /\ at'[i] = (IF i \in S THEN "resolving" ELSE pc[i])
        BY <2>5
      <4>3. i \in S => status[i] = "queued"
        BY DEF Coherent
      <4> QED BY <1>1, <1>4, <1>6, <4>1, <4>2, <4>3 DEF Coherent
    <3> QED BY <3>1, <3>2, <3>3, <3>4, <3>5 DEF Coherent
  <2>10. TurnsDistinct'
    BY <1>4, <2>8, TurnsKept
  <2>11. SlotBounds'
    <3>1. Cardinality(queue') <= Cardinality(queue)
      BY <2>2, <2>5, JobSets
    <3>2. Cardinality(queue') \in Nat /\ Cardinality(queue) \in Nat
      BY <2>2, <2>5, JobSets
    <3>3. Cardinality(queue') <= MaxQueuedJobs
      BY <3>1, <3>2, LimitsAssumption DEF SlotBounds
    <3> QED BY <2>5, <3>3 DEF SlotBounds
  <2> QED BY <2>7, <2>9, <2>10, <2>11
<1>7. CASE mgr # "up"
  <2>1. /\ running' = run /\ at' = pc
        /\ UNCHANGED <<queue, status, events>>
    BY <1>7 DEF RunJobEnds
  <2>2. queue = {}
    BY <1>7 DEF Coherent
  <2>3. TypeOK'
    BY <2>1, <1>4 DEF TypeOK, RunJobEnds, callVars
  <2>4. Minted' = Minted
    BY <2>1 DEF Minted
  <2>5. Coherent'
    BY <1>1, <1>4, <1>5, <2>1, <2>4 DEF Coherent, TypeOK
  <2>6. TurnsDistinct'
    BY <1>4, <2>4, TurnsKept
  <2>7. SlotBounds'
    BY <1>3, <2>1, <2>2 DEF SlotBounds
  <2> QED BY <2>3, <2>5, <2>6, <2>7
<1> QED BY <1>6, <1>7

(* The steps that touch no slot, status or queue: a coroutine moves on, an *)
(* executor emits, a cancel call begins or answers, stop tears down.       *)
LEMMA QuietKeeps ==
  ASSUME SlotInv,
         UNCHANGED <<queue, running, turn, status, owner, ended>>,
         at' \in [Jobs -> {"idle", "resolving", "executing", "releasing",
                           "returning", "done"}],
         \A j \in Jobs :
           \/ at'[j] = at[j]
           \/ at[j] = "resolving" /\ at'[j] = "executing"
           \/ at[j] = "releasing" /\ at'[j] = "returning",
         events' \in [Jobs -> Seq(EventKinds)],
         notices' \in [Jobs -> Nat],
         \/ UNCHANGED <<mgr, records, terminalOrder>>
         \/ /\ mgr = "stopping" /\ mgr' = "stopped"
            /\ records' = {} /\ terminalOrder' = {},
         aborted' \subseteq Jobs, unwinding' \subseteq Jobs, awaited' \subseteq Jobs
  PROVE  SlotInv'
<1> USE DEF SlotInv
<1>1. TypeOK'
  BY DEF TypeOK
<1>2. Minted' = Minted
  BY DEF Minted
<1>3. Coherent'
  <2>1. running' = {i \in Jobs : at'[i] \in LiveAt}
    BY DEF Coherent, LiveAt
  <2>2. ASSUME NEW i \in Jobs
        PROVE  /\ status'[i] = "running" <=> at'[i] \in {"resolving", "executing"}
               /\ status'[i] \in {"unminted", "queued"} => at'[i] = "idle"
               /\ status'[i] \in {"queued", "running"} /\ mgr' # "stopped"
                    => i \in records'
    BY DEF Coherent
  <2>3. queue' = {i \in Jobs : status'[i] = "queued"}
    BY DEF Coherent
  <2>4. records' \subseteq Minted' /\ (mgr' # "up" => queue' = {})
    BY <1>2 DEF Coherent
  <2> QED BY <2>1, <2>2, <2>3, <2>4 DEF Coherent
<1>4. TurnsDistinct'
  BY <1>2, TurnsKept
<1>5. SlotBounds'
  BY BoundsKept
<1> QED BY <1>1, <1>3, <1>4, <1>5

LEMMA SlotInvStep == SlotInv /\ [Next]_vars => SlotInv'
<1> SUFFICES ASSUME SlotInv, [Next]_vars PROVE SlotInv'
  OBVIOUS
<1> USE DEF SlotInv
<1>1. ASSUME NEW j \in Jobs, WorkspaceReady(j) PROVE SlotInv'
  BY <1>1, QuietKeeps DEF WorkspaceReady, recordVars, callVars, TypeOK
<1>2. ASSUME NEW j \in Jobs, WorkspaceReadyTooLate(j) PROVE SlotInv'
  BY <1>2, FinishLive DEF WorkspaceReadyTooLate, Terminal
<1>3. ASSUME NEW j \in Jobs, WorkspaceFails(j) PROVE SlotInv'
  BY <1>3, FinishLive DEF WorkspaceFails, Terminal
<1>4. ASSUME NEW j \in Jobs, Emit(j) PROVE SlotInv'
  <2>1. Append(events[j], "log") \in Seq(EventKinds)
    BY DEF TypeOK, EventKinds
  <2>2. events' \in [Jobs -> Seq(EventKinds)]
    BY <1>4, <2>1 DEF Emit, TypeOK
  <2> QED BY <1>4, <2>2, QuietKeeps DEF Emit, callVars, TypeOK
<1>5. ASSUME NEW j \in Jobs, NEW outcome \in Terminal, ExecutorReturns(j, outcome)
      PROVE  SlotInv'
  BY <1>5, FinishLive DEF ExecutorReturns
<1>6. ASSUME NEW j \in Jobs, ReleaseSettles(j) PROVE SlotInv'
  BY <1>6, QuietKeeps DEF ReleaseSettles, recordVars, callVars, TypeOK
<1>7. ASSUME NEW j \in Jobs, RunJobEnds(j) PROVE SlotInv'
  BY <1>7, RunJobEndsKeeps
<1>8. ASSUME NEW j \in Jobs, CancelAnswers(j) PROVE SlotInv'
  BY <1>8, QuietKeeps DEF CancelAnswers, recordVars, TypeOK
<1>9. ASSUME NEW j \in Jobs, NEW p \in Peers, Submit(j, p) PROVE SlotInv'
  BY <1>9, SubmitKeeps
<1>10. ASSUME NEW j \in Jobs, NEW p \in Peers, CancelQueued(j, p) PROVE SlotInv'
  <2>1. {j} \in SUBSET queue
    BY <1>10 DEF CancelQueued, Coherent
  <2> QED BY <1>10, <2>1, FinishQueued DEF CancelQueued, callVars, TypeOK
<1>11. ASSUME NEW j \in Jobs, NEW p \in Peers, CancelRunning(j, p) PROVE SlotInv'
  BY <1>11, QuietKeeps DEF CancelRunning, TypeOK
<1>12. ASSUME NEW p \in Peers, CancelOwnedBy(p) PROVE SlotInv'
  <2> DEFINE live == {j \in records : owner[j] = p /\ status[j] \notin Terminal}
             waiting == {j \in live : status[j] = "queued"}
  <2>1. waiting \in SUBSET queue
    BY DEF Coherent, TypeOK
  <2>2. /\ queue' = queue \ waiting /\ FinishJobs(waiting, "canceled")
        /\ aborted' \subseteq Jobs
        /\ UNCHANGED <<mgr, running, owner, turn, at, callVars>>
    BY <1>12 DEF CancelOwnedBy, TypeOK
  <2> HIDE DEF waiting
  <2> QED BY <2>1, <2>2, FinishQueued DEF callVars, TypeOK
<1>13. CASE StopBegins
  <2> DEFINE waiting == {j \in queue : j \in records /\ status[j] = "queued"}
  <2>1. waiting = queue
    BY <1>13 DEF StopBegins, Coherent, TypeOK
  <2>2. /\ FinishJobs(queue, "canceled") /\ queue' = {}
        /\ mgr = "up" /\ mgr' = "stopping"
        /\ aborted' \subseteq Jobs /\ awaited' \subseteq Jobs
        /\ UNCHANGED <<running, owner, turn, at, unwinding>>
    BY <1>13, <2>1 DEF StopBegins, TypeOK
  <2>3. queue' = queue \ queue
    BY <2>2
  <2> QED BY <2>2, <2>3, FinishQueued
<1>14. ASSUME StopTearsDown PROVE SlotInv'
  BY <1>14, QuietKeeps DEF StopTearsDown, recordVars, TypeOK
<1>15. CASE UNCHANGED vars
  BY <1>15, QuietKeeps DEF vars, TypeOK
<1> QED
  BY <1>1, <1>2, <1>3, <1>4, <1>5, <1>6, <1>7, <1>8, <1>9, <1>10, <1>11, <1>12,
     <1>13, <1>14, <1>15
  DEF Next, JobStep, PeerStep, CancelSettles, CancelTimesOut, StopSettles,
      StopTimesOut, TypeOK

LEMMA SlotInvInit == Init => SlotInv
<1> SUFFICES ASSUME Init PROVE SlotInv
  OBVIOUS
<1>1. Minted = {}
  BY DEF Init, Minted
<1>2. TypeOK
  <2>1. events \in [Jobs -> Seq(EventKinds)]
    BY DEF Init
  <2>2. status \in [Jobs -> Statuses \cup {"unminted"}]
    BY DEF Init
  <2>3. owner \in [Jobs -> Peers \cup {NoOwner}]
    BY DEF Init
  <2> QED BY <2>1, <2>2, <2>3 DEF Init, TypeOK
<1>3. Coherent /\ TurnsDistinct
  BY <1>1 DEF Init, Coherent, TurnsDistinct, LiveAt
<1>4. SlotBounds
  BY FS_EmptySet, LimitsAssumption DEF Init, SlotBounds
<1> QED BY <1>2, <1>3, <1>4 DEF SlotInv

(* The inductive invariant holds throughout. *)
THEOREM SlotInvariant == Spec => []SlotInv
<1>1. Init => SlotInv
  BY SlotInvInit
<1>2. SlotInv /\ [Next]_vars => SlotInv'
  BY SlotInvStep
<1> QED BY <1>1, <1>2, PTL DEF Spec

-----------------------------------------------------------------------------
(* Type correctness. *)
THEOREM TypeCorrect == Spec => []TypeOK
BY SlotInvariant, PTL DEF SlotInv

(* Whatever peers submit and cancel, and however executors and stop behave, *)
(* the slots and the queue stay within their limits, live workspaces        *)
(* included, and no slot idles while a job waits (pump, job-manager.ts:580).*)
THEOREM SlotsAreRespected == Spec => []SlotsRespected
<1>1. SlotInv => SlotsRespected
  <2> SUFFICES ASSUME SlotInv PROVE SlotsRespected
    OBVIOUS
  <2> DEFINE used == {j \in Jobs : status[j] = "running"} \cup LiveWorkspaces
  <2>1. used \in SUBSET running /\ running \in SUBSET Jobs /\ used \in SUBSET Jobs
    BY DEF SlotInv, Coherent, LiveWorkspaces, LiveAt
  <2>2. /\ Cardinality(used) <= Cardinality(running)
        /\ Cardinality(used) \in Nat /\ Cardinality(running) \in Nat
    BY <2>1, JobSets
  <2> HIDE DEF used
  <2>3. Cardinality(used) <= MaxConcurrentJobs
    BY <2>2, LimitsAssumption DEF SlotInv, SlotBounds
  <2> USE DEF used
  <2> QED BY <2>3 DEF SlotInv, SlotBounds, SlotsRespected
<1> QED BY <1>1, SlotInvariant, PTL

(* No accepted job is lost before the manager is torn down. *)
THEOREM NoActiveJobIsLost == Spec => []NoActiveJobLost
<1>1. SlotInv => NoActiveJobLost
  BY DEF SlotInv, Coherent, NoActiveJobLost, LiveAt, TypeOK
<1> QED BY <1>1, SlotInvariant, PTL

LEMMA PumpLeavesOthers ==
  ASSUME NEW q, NEW run, NEW st, NEW pc, Pump(q, run, st, pc),
         NEW j \in Jobs, st[j] # "queued"
  PROVE  status'[j] = st[j] /\ events'[j] = events[j]
BY DEF Pump, Startable

LEMMA FinishLeavesTerminal ==
  ASSUME NEW S \in SUBSET Jobs, NEW outcome \in Terminal, FinishJobs(S, outcome),
         NEW j \in Jobs, status[j] \in Terminal
  PROVE  status'[j] = status[j] /\ events'[j] = events[j]
BY DEF FinishJobs, Fresh

(* A terminal status and its event log never change again. *)
THEOREM TerminalStaysFinal == Spec => TerminalIsFinal
<1> DEFINE Final == \A j \in Jobs : status[j] \in Terminal =>
                      status'[j] = status[j] /\ events'[j] = events[j]
<1>1. SlotInv /\ [Next]_vars => [Final]_vars
  <2> SUFFICES ASSUME SlotInv, Next, NEW j \in Jobs, status[j] \in Terminal
               PROVE  status'[j] = status[j] /\ events'[j] = events[j]
    OBVIOUS
  <2>1. CASE UNCHANGED <<status, events>>
    BY <2>1
  <2>2. CASE \E S \in SUBSET Jobs, outcome \in Terminal : FinishJobs(S, outcome)
    BY <2>2, FinishLeavesTerminal
  <2>3. ASSUME NEW i \in Jobs, NEW p \in Peers, Submit(i, p)
        PROVE  status'[j] = status[j] /\ events'[j] = events[j]
    <3> DEFINE st == [status EXCEPT ![i] = "queued"]
    <3>1. st[j] = status[j] /\ Pump(queue \cup {i}, running, st, at)
      BY <2>3 DEF Submit, SlotInv, TypeOK, Terminal
    <3>2. st[j] # "queued"
      BY <3>1 DEF Terminal
    <3> HIDE DEF st
    <3> QED BY <3>1, <3>2, PumpLeavesOthers
  <2>4. ASSUME NEW i \in Jobs, RunJobEnds(i)
        PROVE  status'[j] = status[j] /\ events'[j] = events[j]
    <3>1. CASE mgr = "up"
      <4> DEFINE pc == [at EXCEPT ![i] = "done"]
      <4>1. Pump(queue, running \ {i}, status, pc)
        BY <2>4, <3>1 DEF RunJobEnds
      <4> HIDE DEF pc
      <4> QED BY <4>1, PumpLeavesOthers DEF Terminal
    <3>2. CASE mgr # "up"
      BY <2>4, <3>2 DEF RunJobEnds
    <3> QED BY <3>1, <3>2
  <2>5. ASSUME NEW i \in Jobs, Emit(i)
        PROVE  status'[j] = status[j] /\ events'[j] = events[j]
    BY <2>5 DEF Emit, SlotInv, TypeOK
  <2>6. ASSUME NEW i \in Jobs, JobStep(i)
        PROVE  status'[j] = status[j] /\ events'[j] = events[j]
    <3>1. CASE WorkspaceReady(i) \/ ReleaseSettles(i) \/ CancelAnswers(i)
      BY <2>1, <3>1 DEF WorkspaceReady, ReleaseSettles, CancelAnswers, recordVars
    <3>2. CASE WorkspaceReadyTooLate(i) \/ WorkspaceFails(i)
               \/ \E outcome \in Terminal : ExecutorReturns(i, outcome)
      <4>1. \E outcome \in Terminal : FinishJobs({i}, outcome)
        BY <3>2 DEF WorkspaceReadyTooLate, WorkspaceFails, ExecutorReturns, Terminal
      <4> QED BY <2>2, <4>1
    <3> QED BY <2>4, <2>5, <2>6, <3>1, <3>2 DEF JobStep, CancelSettles, CancelTimesOut
  <2>7. ASSUME NEW p \in Peers, PeerStep(p)
        PROVE  status'[j] = status[j] /\ events'[j] = events[j]
    <3>1. ASSUME NEW i \in Jobs, CancelQueued(i, p)
          PROVE  \E S \in SUBSET Jobs, outcome \in Terminal : FinishJobs(S, outcome)
      <4>1. {i} \in SUBSET Jobs /\ "canceled" \in Terminal /\ FinishJobs({i}, "canceled")
        BY <3>1 DEF CancelQueued, Terminal
      <4> QED BY <4>1
    <3>2. ASSUME NEW i \in Jobs, CancelRunning(i, p)
          PROVE  UNCHANGED <<status, events>>
      BY <3>2 DEF CancelRunning
    <3>3. ASSUME CancelOwnedBy(p)
          PROVE  \E S \in SUBSET Jobs, outcome \in Terminal : FinishJobs(S, outcome)
      <4> DEFINE live == {i \in records : owner[i] = p /\ status[i] \notin Terminal}
                 waiting == {i \in live : status[i] = "queued"}
      <4>1. waiting \in SUBSET Jobs /\ "canceled" \in Terminal
            /\ FinishJobs(waiting, "canceled")
        BY <3>3 DEF CancelOwnedBy, SlotInv, TypeOK, Terminal
      <4> HIDE DEF waiting
      <4> QED BY <4>1
    <3> QED BY <2>1, <2>2, <2>3, <2>7, <3>1, <3>2, <3>3 DEF PeerStep
  <2>8. CASE StopBegins
    <3> DEFINE waiting == {i \in queue : i \in records /\ status[i] = "queued"}
    <3>1. waiting \in SUBSET Jobs /\ "canceled" \in Terminal
          /\ FinishJobs(waiting, "canceled")
      BY <2>8 DEF StopBegins, SlotInv, TypeOK, Terminal
    <3> HIDE DEF waiting
    <3> QED BY <2>2, <3>1
  <2>9. CASE StopTearsDown
    BY <2>1, <2>9 DEF StopTearsDown, recordVars
  <2> QED BY <2>6, <2>7, <2>8, <2>9 DEF Next, StopSettles, StopTimesOut
<1> QED BY <1>1, SlotInvariant, PTL DEF Spec, TerminalIsFinal

-----------------------------------------------------------------------------
(* A job that pump does not start keeps its status, and what it starts was *)
(* waiting.                                                                *)
LEMMA PumpStarts ==
  ASSUME NEW q, NEW run, NEW st, NEW pc, Pump(q, run, st, pc)
  PROVE  \A j \in Jobs : \/ status'[j] = st[j]
                         \/ st[j] = "queued" /\ status'[j] = "running"
BY DEF Pump, Startable

(* The eviction that ends finishJob stops because few enough records are   *)
(* left, or because no terminal one is; it tells the hook of what it drops *)
(* and leaves every other terminal record in line (evictIfNeeded).         *)
LEMMA FinishAccounts ==
  ASSUME SlotInv, RecordsAccountedFor, NEW S \in SUBSET Jobs, NEW outcome \in Terminal,
         S \subseteq Minted, FinishJobs(S, outcome)
  PROVE  RecordsAccountedFor'
<1> DEFINE order == terminalOrder \cup Fresh(S)
<1>1. PICK k \in 0..Cardinality(Jobs) :
        /\ EvictionStops(order, k)
        /\ records' = records \ Evictable(order, k)
        /\ terminalOrder' = order \ ShiftedTerminal(order, k)
        /\ notices' = [j \in Jobs |-> IF j \in Evictable(order, k) THEN notices[j] + 1
                                                                  ELSE notices[j]]
  BY DEF FinishJobs, EvictIfNeeded
<1>2. \A j \in Jobs : status'[j] = IF j \in Fresh(S) THEN outcome ELSE status[j]
  BY DEF FinishJobs
<1>3. Ended' = Ended \cup Fresh(S) /\ Minted' = Minted
  BY <1>2 DEF Ended, Minted, Fresh, Terminal
<1>4. /\ records \subseteq Minted /\ Minted \subseteq Jobs /\ records' \subseteq Jobs
      /\ notices \in [Jobs -> Nat]
  BY <1>1 DEF SlotInv, Coherent, Minted, TypeOK
<1>5. records \cap Ended' \subseteq order
  BY <1>3 DEF RecordsAccountedFor
<1>6. \A j : j \in Evictable(order, k) <=>
              j \in ShiftedTerminal(order, k) /\ j \in records /\ j \in Ended'
  BY <1>4 DEF Evictable, Ended, Minted
<1>7. records' \cap Ended' \subseteq terminalOrder'
  BY <1>1, <1>5, <1>6
<1>8. Cardinality(records' \cap Ended') <= MaxRetainedJobs
  <2>1. CASE Cardinality(records \ Evictable(order, k)) <= MaxRetainedJobs
    <3>1. Cardinality(records') <= MaxRetainedJobs
      BY <1>1, <2>1
    <3>2. records' \cap Ended' \in SUBSET records'
      OBVIOUS
    <3>3. /\ Cardinality(records' \cap Ended') <= Cardinality(records')
          /\ Cardinality(records') \in Nat /\ Cardinality(records' \cap Ended') \in Nat
      BY <1>4, <3>2, JobSets
    <3>. QED
      BY <3>1, <3>3, LimitsAssumption
  <2>2. CASE ShiftedTerminal(order, k) = order
    <3>1. records' \cap Ended' = {}
      BY <2>2, <1>1, <1>5, <1>6
    <3>. QED
      BY <3>1, FS_EmptySet, LimitsAssumption
  <2>. QED
    BY <1>1, <2>1, <2>2 DEF EvictionStops
<1>9. ASSUME NEW j \in Jobs
      PROVE  notices'[j] = IF j \in Minted' /\ j \notin records' THEN 1 ELSE 0
  BY <1>1, <1>3, <1>4, <1>6 DEF RecordsAccountedFor
<1>. QED
  BY <1>7, <1>8, <1>9 DEF RecordsAccountedFor

(* A step that neither ends a job nor drops a record needs no account.     *)
LEMMA NothingToAccount ==
  ASSUME SlotInv, RecordsAccountedFor, UNCHANGED <<terminalOrder, notices>>,
         Ended' = Ended, records \subseteq records', records' \cap Ended = records \cap Ended,
         Minted' \ records' = Minted \ records
  PROVE  RecordsAccountedFor'
BY DEF RecordsAccountedFor

(* Only a job's end, a submission and the final teardown touch what        *)
(* RecordsAccountedFor says; other steps leave records and outcomes alone. *)
LEMMA RecordsStep == SlotInv /\ RecordsAccountedFor /\ [Next]_vars => RecordsAccountedFor'
<1> SUFFICES ASSUME SlotInv, RecordsAccountedFor, [Next]_vars PROVE RecordsAccountedFor'
  OBVIOUS
<1>1. CASE UNCHANGED <<terminalOrder, notices, status, records>>
  <2>1. Ended' = Ended /\ Minted' = Minted
    BY <1>1 DEF Ended, Minted
  <2>. QED
    BY <1>1, <2>1, NothingToAccount
<1>2. ASSUME NEW S \in SUBSET Jobs, NEW outcome \in Terminal, S \subseteq Minted,
             FinishJobs(S, outcome)
      PROVE  RecordsAccountedFor'
  BY <1>2, FinishAccounts
<1>3. ASSUME NEW j \in Jobs, NEW p \in Peers, Submit(j, p) PROVE RecordsAccountedFor'
  <2> DEFINE st == [status EXCEPT ![j] = "queued"]
  <2>1. /\ status[j] = "unminted" /\ records' = records \cup {j}
        /\ UNCHANGED <<terminalOrder, notices>> /\ Pump(queue \cup {j}, running, st, at)
    BY <1>3 DEF Submit
  <2>2. \A i \in Jobs : st[i] = IF i = j THEN "queued" ELSE status[i]
    BY DEF SlotInv, TypeOK
  <2> HIDE DEF st
  <2>3. \A i \in Jobs : \/ status'[i] = st[i]
                        \/ st[i] = "queued" /\ status'[i] = "running"
    BY <2>1, PumpStarts
  <2>4. Ended' = Ended /\ Minted' = Minted \cup {j} /\ j \notin Ended /\ j \notin Minted
    BY <2>1, <2>2, <2>3 DEF Ended, Minted, Terminal
  <2>5. j \notin records
    BY <2>4 DEF SlotInv, Coherent
  <2>. QED
    BY <2>1, <2>4, <2>5, NothingToAccount
<1>4. ASSUME NEW j \in Jobs, RunJobEnds(j) PROVE RecordsAccountedFor'
  <2>1. UNCHANGED <<terminalOrder, notices, records>>
    BY <1>4 DEF RunJobEnds
  <2>2. CASE mgr = "up"
    <3> DEFINE pc == [at EXCEPT ![j] = "done"]
    <3>1. Pump(queue, running \ {j}, status, pc)
      BY <1>4, <2>2 DEF RunJobEnds
    <3> HIDE DEF pc
    <3>2. \A i \in Jobs : \/ status'[i] = status[i]
                          \/ status[i] = "queued" /\ status'[i] = "running"
      BY <3>1, PumpStarts
    <3>3. Ended' = Ended /\ Minted' = Minted
      BY <3>2 DEF Ended, Minted, Terminal
    <3>. QED
      BY <2>1, <3>3, NothingToAccount
  <2>3. CASE mgr # "up"
    BY <1>1, <1>4, <2>1, <2>3 DEF RunJobEnds
  <2>. QED
    BY <2>2, <2>3
<1>5. ASSUME NEW j \in Jobs, JobStep(j) PROVE RecordsAccountedFor'
  <2>1. CASE WorkspaceReady(j) \/ ReleaseSettles(j) \/ CancelAnswers(j) \/ Emit(j)
    BY <1>1, <2>1 DEF WorkspaceReady, ReleaseSettles, CancelAnswers, Emit, recordVars
  <2>2. CASE WorkspaceReadyTooLate(j) \/ WorkspaceFails(j)
             \/ \E outcome \in Terminal : ExecutorReturns(j, outcome)
    <3>1. \E outcome \in Terminal : FinishJobs({j}, outcome)
      BY <2>2 DEF WorkspaceReadyTooLate, WorkspaceFails, ExecutorReturns, Terminal
    <3>2. j \in Minted
      BY <2>2 DEF WorkspaceReadyTooLate, WorkspaceFails, ExecutorReturns, SlotInv, Coherent,
                  Minted
    <3>. QED
      BY <1>2, <3>1, <3>2
  <2>. QED
    BY <1>4, <1>5, <2>1, <2>2 DEF JobStep, CancelSettles, CancelTimesOut
<1>6. ASSUME NEW p \in Peers, PeerStep(p) PROVE RecordsAccountedFor'
  <2>1. ASSUME NEW j \in Jobs, CancelQueued(j, p) PROVE RecordsAccountedFor'
    <3>1. {j} \subseteq Minted /\ "canceled" \in Terminal /\ FinishJobs({j}, "canceled")
      BY <2>1 DEF CancelQueued, Terminal, Minted
    <3>. QED
      BY <1>2, <3>1
  <2>2. ASSUME NEW j \in Jobs, CancelRunning(j, p) PROVE RecordsAccountedFor'
    BY <1>1, <2>2 DEF CancelRunning
  <2>3. ASSUME CancelOwnedBy(p) PROVE RecordsAccountedFor'
    <3> DEFINE live == {i \in records : owner[i] = p /\ status[i] \notin Terminal}
               waiting == {i \in live : status[i] = "queued"}
    <3>1. waiting \subseteq Minted /\ waiting \in SUBSET Jobs /\ "canceled" \in Terminal
          /\ FinishJobs(waiting, "canceled")
      BY <2>3 DEF CancelOwnedBy, SlotInv, TypeOK, Terminal, Minted
    <3> HIDE DEF waiting
    <3>. QED
      BY <1>2, <3>1
  <2>. QED
    BY <1>3, <1>6, <2>1, <2>2, <2>3 DEF PeerStep
<1>7. CASE StopBegins
  <2> DEFINE waiting == {i \in queue : i \in records /\ status[i] = "queued"}
  <2>1. waiting \subseteq Minted /\ waiting \in SUBSET Jobs /\ "canceled" \in Terminal
        /\ FinishJobs(waiting, "canceled")
    BY <1>7 DEF StopBegins, SlotInv, TypeOK, Terminal, Minted
  <2> HIDE DEF waiting
  <2>. QED
    BY <1>2, <2>1
<1>8. CASE StopTearsDown
  <2>1. /\ records' = {} /\ terminalOrder' = {} /\ status' = status
        /\ \A j \in Jobs : notices'[j] = IF j \in records THEN notices[j] + 1 ELSE notices[j]
    BY <1>8 DEF StopTearsDown, recordVars
  <2>2. Minted' = Minted /\ records' \cap Ended' = {}
    BY <2>1 DEF Minted
  <2>3. Cardinality(records' \cap Ended') <= MaxRetainedJobs
    BY <2>2, FS_EmptySet, LimitsAssumption
  <2>4. \A j \in Jobs : notices'[j] = IF j \in Minted THEN 1 ELSE 0
    BY <2>1 DEF RecordsAccountedFor, SlotInv, Coherent
  <2>. QED
    BY <2>1, <2>2, <2>3, <2>4 DEF RecordsAccountedFor
<1>9. CASE UNCHANGED vars
  BY <1>1, <1>9 DEF vars
<1>. QED
  BY <1>5, <1>6, <1>7, <1>8, <1>9 DEF Next, StopSettles, StopTimesOut

(* What peers can make the manager keep is bounded for any history of      *)
(* submits, ends and cancels, and the artifact hook is called exactly once *)
(* for every record that goes (evictIfNeeded, job-manager.ts:793).         *)
THEOREM RecordsAreAccountedFor == Spec => []RecordsAccountedFor
<1>1. Init => RecordsAccountedFor
  BY FS_EmptySet, LimitsAssumption DEF Init, RecordsAccountedFor, Minted
<1> QED BY <1>1, RecordsStep, SlotInvariant, PTL DEF Spec

-----------------------------------------------------------------------------
(* What a peer can see of the jobs. *)
Phase == [j \in Jobs |->
            IF status[j] = "unminted" THEN "absent"
            ELSE IF j \in records THEN status[j] ELSE "forgotten"]

SeenSame == UNCHANGED <<mgr, records, status>>

(* The limits on slots, queue and records are the limits on phases. *)
LEMMA LimitsKept == SlotInv /\ RecordsAccountedFor => Lifecycle!WithinLimits
<1> SUFFICES ASSUME SlotInv, RecordsAccountedFor PROVE Lifecycle!WithinLimits
  OBVIOUS
<1>1. /\ Lifecycle!In({"running"}) \in SUBSET running /\ running \in SUBSET Jobs
      /\ Lifecycle!In({"queued"}) \in SUBSET queue /\ queue \in SUBSET Jobs
  BY DEF Lifecycle!In, SlotInv, Coherent, LiveAt, TypeOK
<1>2. Lifecycle!In(Lifecycle!Outcomes) = records \cap Ended
  BY DEF Lifecycle!In, Lifecycle!Outcomes, Ended, Terminal, SlotInv, TypeOK
<1>3. /\ Cardinality(Lifecycle!In({"running"})) <= Cardinality(running)
      /\ Cardinality(Lifecycle!In({"queued"})) <= Cardinality(queue)
      /\ Cardinality(Lifecycle!In({"running"})) \in Nat /\ Cardinality(running) \in Nat
      /\ Cardinality(Lifecycle!In({"queued"})) \in Nat /\ Cardinality(queue) \in Nat
  BY <1>1, JobSets
<1>4. /\ Cardinality(running) <= MaxConcurrentJobs /\ Cardinality(queue) <= MaxQueuedJobs
      /\ Cardinality(records \cap Ended) <= MaxRetainedJobs
  BY DEF SlotInv, SlotBounds, RecordsAccountedFor
<1>5. \A A : Lifecycle!Cardinality(A) = Cardinality(A)
  BY DEF Lifecycle!Cardinality, Cardinality
<1>. QED
  BY <1>2, <1>3, <1>4, <1>5, LimitsAssumption DEF Lifecycle!WithinLimits

(* Jobs that end while they have a record end for the peers, and what      *)
(* eviction drops is forgotten (finishJob, evictIfNeeded).                 *)
LEMMA FinishEnds ==
  ASSUME SlotInv, NEW S \in SUBSET Jobs, NEW outcome \in Terminal, FinishJobs(S, outcome),
         \A i \in S : \/ status[i] = "running"
                      \/ status[i] = "queued" /\ outcome = "canceled"
  PROVE  /\ S \cap records \in SUBSET Jobs /\ records \ records' \in SUBSET Jobs
         /\ outcome \in Lifecycle!Outcomes
         /\ Lifecycle!End(S \cap records, outcome, records \ records')
<1>1. Fresh(S) = S
  BY DEF Fresh, Terminal
<1>2. /\ \A i \in Jobs : status'[i] = IF i \in S THEN outcome ELSE status[i]
      /\ records' \subseteq records /\ \A i \in records \ records' : status'[i] \in Terminal
  BY <1>1, FinishEffect DEF SlotInv
<1>3. records \subseteq Jobs /\ \A i \in records : status[i] # "unminted"
  BY DEF SlotInv, TypeOK, Coherent, Minted
<1>4. S \cap records \subseteq
        Lifecycle!In(IF outcome = "canceled" THEN {"queued", "running"} ELSE {"running"})
  BY DEF Lifecycle!In
<1>5. records \ records' \subseteq (S \cap records) \cup Lifecycle!In(Lifecycle!Outcomes)
  BY <1>2, <1>3 DEF Lifecycle!In, Lifecycle!Outcomes, Terminal
<1>6. Phase' = [i \in Jobs |-> IF i \in records \ records' THEN "forgotten"
                               ELSE IF i \in S \cap records THEN outcome ELSE Phase[i]]
  BY <1>2, <1>3 DEF Phase, Terminal
<1>7. outcome \in Lifecycle!Outcomes
  BY DEF Lifecycle!Outcomes, Terminal
<1>. QED
  BY <1>3, <1>4, <1>5, <1>6, <1>7 DEF Lifecycle!End, Phase

(* A slot that a started job takes is one more: pump never starts a job    *)
(* that was waiting unless a slot was freed in the same step.              *)
LEMMA SubmitAccepts ==
  ASSUME SlotInv, SlotInv', NEW j \in Jobs, NEW p \in Peers, Submit(j, p)
  PROVE  Lifecycle!Accept(j)
<1> DEFINE st == [status EXCEPT ![j] = "queued"]
<1>1. /\ mgr = "up" /\ mgr' = "up" /\ status[j] = "unminted" /\ records' = records \cup {j}
      /\ Pump(queue \cup {j}, running, st, at)
  BY DEF Submit
<1>2. \A i \in Jobs : st[i] = IF i = j THEN "queued" ELSE status[i]
  BY DEF SlotInv, TypeOK
<1> HIDE DEF st
<1>3. \A i \in Jobs : \/ status'[i] = st[i]
                      \/ st[i] = "queued" /\ status'[i] = "running"
  BY <1>1, PumpStarts
<1>4. ASSUME NEW i \in Jobs, i # j, status[i] = "queued", status'[i] = "running" PROVE FALSE
  <2>1. Cardinality(running) = MaxConcurrentJobs
    BY <1>4 DEF SlotInv, SlotBounds, Coherent
  <2>2. i \notin running /\ i \in running'
    BY <1>4 DEF SlotInv, Coherent, LiveAt
  <2>3. running \subseteq running' /\ running' \in SUBSET Jobs /\ running \in SUBSET Jobs
    BY <1>1 DEF Pump, SlotInv, TypeOK
  <2>4. Cardinality(running \cup {i}) = Cardinality(running) + 1
    BY <2>2, <2>3, JobSets, FS_AddElement
  <2>5. running \cup {i} \in SUBSET running'
    BY <2>2, <2>3
  <2>6. Cardinality(running \cup {i}) <= Cardinality(running')
    BY <2>3, <2>5, JobSets
  <2>7. Cardinality(running') <= MaxConcurrentJobs /\ Cardinality(running') \in Nat
    BY <2>3, JobSets DEF SlotInv, SlotBounds
  <2>. QED
    BY <2>1, <2>4, <2>6, <2>7, LimitsAssumption
<1>5. status'[j] \in {"queued", "running"} /\ \A i \in Jobs : i # j => status'[i] = status[i]
  BY <1>2, <1>3, <1>4
<1>6. Phase[j] = "absent" /\ Phase' = [Phase EXCEPT ![j] = status'[j]]
  BY <1>1, <1>5 DEF Phase
<1>. QED
  BY <1>1, <1>5, <1>6 DEF Lifecycle!Accept, Phase

(* A freed slot starts at most one waiting job, and only of an open        *)
(* manager (runJob's finally).                                             *)
LEMMA RunJobEndsStarts ==
  ASSUME SlotInv, SlotInv', NEW j \in Jobs, RunJobEnds(j)
  PROVE  SeenSame \/ \E i \in Jobs : Lifecycle!Start(i)
<1> DEFINE pc == [at EXCEPT ![j] = "done"]
<1>1. mgr' = mgr /\ records' = records /\ j \in running
  BY DEF RunJobEnds, SlotInv, Coherent, LiveAt
<1>2. CASE mgr # "up"
  BY <1>1, <1>2 DEF RunJobEnds, SeenSame
<1>3. CASE mgr = "up"
  <2>1. Pump(queue, running \ {j}, status, pc)
    BY <1>3 DEF RunJobEnds
  <2> HIDE DEF pc
  <2>2. \A i \in Jobs : \/ status'[i] = status[i]
                        \/ status[i] = "queued" /\ status'[i] = "running"
    BY <2>1, PumpStarts
  <2>3. ASSUME NEW a \in Jobs, NEW b \in Jobs, a # b, status[a] = "queued", status[b] = "queued",
               status'[a] = "running", status'[b] = "running"
        PROVE  FALSE
    <3>1. Cardinality(running) = MaxConcurrentJobs
      BY <2>3 DEF SlotInv, SlotBounds, Coherent
    <3>2. /\ a \notin running /\ b \notin running /\ a \in running' /\ b \in running'
      BY <2>3 DEF SlotInv, Coherent, LiveAt
    <3>3. running \ {j} \subseteq running' /\ running' \in SUBSET Jobs /\ running \in SUBSET Jobs
      BY <2>1 DEF Pump, SlotInv, TypeOK
    <3> DEFINE left == running \ {j}
    <3>4. /\ IsFiniteSet(running) /\ left \in SUBSET Jobs
          /\ Cardinality(left) = Cardinality(running) - 1
      BY <1>1, <3>3, JobSets, FS_RemoveElement
    <3>5. a \notin left /\ b \notin left \cup {a} /\ (left \cup {a}) \cup {b} \in SUBSET running'
      BY <2>3, <3>2, <3>3
    <3>6. left \cup {a} \in SUBSET Jobs
      BY <3>4
    <3> HIDE DEF left
    <3>7. Cardinality(left \cup {a}) = Cardinality(left) + 1
      BY <3>4, <3>5, JobSets, FS_AddElement
    <3>8. Cardinality((left \cup {a}) \cup {b}) = Cardinality(left \cup {a}) + 1
      BY <3>5, <3>6, JobSets, FS_AddElement
    <3>9. /\ Cardinality((left \cup {a}) \cup {b}) <= Cardinality(running')
          /\ Cardinality(running') <= MaxConcurrentJobs
      BY <3>3, <3>5, JobSets DEF SlotInv, SlotBounds
    <3>10. Cardinality(running) \in Nat /\ Cardinality(running') \in Nat
      BY <3>3, JobSets
    <3>. QED
      BY <3>1, <3>4, <3>7, <3>8, <3>9, <3>10, LimitsAssumption
  <2>4. CASE \A i \in Jobs : status'[i] = status[i]
    BY <1>1, <2>4 DEF SeenSame, SlotInv, TypeOK
  <2>5. ASSUME NEW i \in Jobs, status'[i] # status[i] PROVE Lifecycle!Start(i)
    <3>1. status[i] = "queued" /\ status'[i] = "running" /\ i \in records
      BY <1>3, <2>2, <2>5 DEF SlotInv, Coherent
    <3>2. \A k \in Jobs : k # i => status'[k] = status[k]
      BY <2>2, <2>3, <3>1
    <3>3. Phase[i] = "queued" /\ Phase' = [Phase EXCEPT ![i] = "running"]
      BY <1>1, <3>1, <3>2 DEF Phase
    <3>. QED
      BY <1>1, <1>3, <3>3 DEF Lifecycle!Start, Phase
  <2>. QED
    BY <2>4, <2>5
<1>. QED
  BY <1>2, <1>3

(* The end of a job, by its own coroutine or a cancel. *)
LEMMA EndsSome ==
  ASSUME SlotInv, NEW S \in SUBSET Jobs, NEW outcome \in Terminal, FinishJobs(S, outcome),
         \A i \in S : \/ status[i] = "running"
                      \/ status[i] = "queued" /\ outcome = "canceled",
         mgr' = mgr
  PROVE  Lifecycle!EndSome
<1>1. /\ S \cap records \in SUBSET Jobs /\ records \ records' \in SUBSET Jobs
      /\ outcome \in Lifecycle!Outcomes
      /\ Lifecycle!End(S \cap records, outcome, records \ records')
  BY FinishEnds
<1>2. (mgr = "up")' = (mgr = "up")
  OBVIOUS
<1>3. \E A, F \in SUBSET Jobs, o \in Lifecycle!Outcomes : Lifecycle!End(A, o, F)
  <2>1. \E F \in SUBSET Jobs : Lifecycle!End(S \cap records, outcome, F)
    BY <1>1, Zenon DEF Lifecycle!End
  <2>2. PICK F \in SUBSET Jobs : Lifecycle!End(S \cap records, outcome, F)
    BY <2>1
  <2>3. PICK A \in SUBSET Jobs : Lifecycle!End(A, outcome, F)
    BY <1>1, <2>2, Zenon DEF Lifecycle!End
  <2>4. outcome \in Lifecycle!Outcomes
    BY <1>1
  <2>. WITNESS A \in SUBSET Jobs, F \in SUBSET Jobs, outcome \in Lifecycle!Outcomes
  <2>. QED
    BY <2>3
<1>. QED
  BY <1>2, <1>3, Zenon DEF Lifecycle!EndSome

Alike == Lifecycle!LifecycleNext \/ SeenSame

LEMMA JobStepAlike ==
  ASSUME SlotInv, SlotInv', Lifecycle!WithinLimits', NEW j \in Jobs, JobStep(j)
  PROVE  Alike
<1>1. CASE WorkspaceReady(j) \/ ReleaseSettles(j) \/ CancelAnswers(j) \/ Emit(j)
  BY <1>1 DEF WorkspaceReady, ReleaseSettles, CancelAnswers, Emit, recordVars, Alike, SeenSame
<1>2. CASE WorkspaceReadyTooLate(j) \/ WorkspaceFails(j)
           \/ \E outcome \in Terminal : ExecutorReturns(j, outcome)
  <2>1. PICK outcome \in Terminal : FinishJobs({j}, outcome)
    BY <1>2 DEF WorkspaceReadyTooLate, WorkspaceFails, ExecutorReturns, Terminal
  <2>2. mgr' = mgr /\ status[j] = "running"
    BY <1>2 DEF WorkspaceReadyTooLate, WorkspaceFails, ExecutorReturns, SlotInv, Coherent
  <2>3. Lifecycle!EndSome
    BY <2>1, <2>2, EndsSome
  <2>. QED
    BY <2>3 DEF Alike, Lifecycle!LifecycleNext
<1>3. CASE RunJobEnds(j)
  BY <1>3, RunJobEndsStarts DEF Alike, Lifecycle!LifecycleNext
<1>. QED
  BY <1>1, <1>2, <1>3 DEF JobStep, CancelSettles, CancelTimesOut

LEMMA PeerStepAlike ==
  ASSUME SlotInv, SlotInv', Lifecycle!WithinLimits', NEW p \in Peers, PeerStep(p)
  PROVE  Alike
<1>1. ASSUME NEW j \in Jobs, Submit(j, p) PROVE Alike
  BY <1>1, SubmitAccepts DEF Alike, Lifecycle!LifecycleNext
<1>2. ASSUME NEW j \in Jobs, CancelRunning(j, p) PROVE Alike
  BY <1>2 DEF CancelRunning, Alike, SeenSame
<1>3. ASSUME NEW j \in Jobs, CancelQueued(j, p) PROVE Alike
  <2>1. /\ {j} \in SUBSET Jobs /\ "canceled" \in Terminal /\ FinishJobs({j}, "canceled")
        /\ status[j] = "queued" /\ mgr' = mgr
    BY <1>3 DEF CancelQueued, Terminal
  <2>2. Lifecycle!EndSome
    BY <2>1, EndsSome
  <2>. QED
    BY <2>2 DEF Alike, Lifecycle!LifecycleNext
<1>4. CASE CancelOwnedBy(p)
  <2> DEFINE live == {i \in records : owner[i] = p /\ status[i] \notin Terminal}
             waiting == {i \in live : status[i] = "queued"}
  <2>1. /\ waiting \in SUBSET Jobs /\ "canceled" \in Terminal
        /\ FinishJobs(waiting, "canceled") /\ mgr' = mgr
        /\ \A i \in waiting : status[i] = "queued"
    BY <1>4 DEF CancelOwnedBy, SlotInv, TypeOK, Terminal
  <2> HIDE DEF waiting
  <2>2. Lifecycle!EndSome
    BY <2>1, EndsSome
  <2>. QED
    BY <2>2 DEF Alike, Lifecycle!LifecycleNext
<1>. QED
  BY <1>1, <1>2, <1>3, <1>4 DEF PeerStep

(* stop: what still waits is canceled, and then every job is forgotten.    *)
LEMMA StopAlike ==
  ASSUME SlotInv, Lifecycle!WithinLimits', StopBegins \/ StopTearsDown
  PROVE  Alike
<1>1. CASE StopBegins
  <2> DEFINE waiting == {i \in queue : i \in records /\ status[i] = "queued"}
  <2>1. /\ waiting \in SUBSET Jobs /\ "canceled" \in Terminal
        /\ FinishJobs(waiting, "canceled") /\ mgr = "up" /\ mgr' = "stopping"
        /\ \A i \in waiting : status[i] = "queued"
    BY <1>1 DEF StopBegins, SlotInv, TypeOK, Terminal
  <2>2. waiting \cap records = Lifecycle!In({"queued"})
    BY <2>1 DEF Lifecycle!In, SlotInv, Coherent, TypeOK
  <2> HIDE DEF waiting
  <2>3. /\ records \ records' \in SUBSET Jobs
        /\ Lifecycle!End(Lifecycle!In({"queued"}), "canceled", records \ records')
    BY <2>1, <2>2, FinishEnds
  <2>4. \E F \in SUBSET Jobs : Lifecycle!End(Lifecycle!In({"queued"}), "canceled", F)
    BY <2>3, Zenon DEF Lifecycle!End
  <2>5. mgr = "up" /\ ~(mgr = "up")'
    BY <2>1
  <2>6. Lifecycle!Close
    BY <2>4, <2>5, Zenon DEF Lifecycle!Close
  <2>. QED
    BY <2>6 DEF Alike, Lifecycle!LifecycleNext
<1>2. CASE StopTearsDown
  <2>1. mgr = "stopping" /\ mgr' = "stopped" /\ records' = {} /\ status' = status
    BY <1>2 DEF StopTearsDown, recordVars
  <2>2. Phase' = [j \in Jobs |-> IF Phase[j] = "absent" THEN "absent" ELSE "forgotten"]
    BY <2>1 DEF Phase, SlotInv, TypeOK, Statuses, Terminal
  <2>3. Lifecycle!ForgetAll
    BY <2>1, <2>2 DEF Lifecycle!ForgetAll, Phase
  <2>. QED
    BY <2>3 DEF Alike, Lifecycle!LifecycleNext
<1>. QED
  BY <1>1, <1>2

(* Every step of the manager is one of the life cycle, or none. *)
LEMMA LifecycleStep ==
  SlotInv /\ SlotInv' /\ Lifecycle!WithinLimits' /\ [Next]_vars
    => [Lifecycle!LifecycleNext]_(Lifecycle!lifecycleVars)
<1> SUFFICES ASSUME SlotInv, SlotInv', Lifecycle!WithinLimits', [Next]_vars
             PROVE  [Lifecycle!LifecycleNext]_(Lifecycle!lifecycleVars)
  OBVIOUS
<1>1. Alike
  BY JobStepAlike, PeerStepAlike, StopAlike
     DEF Next, StopSettles, StopTimesOut, vars, Alike, SeenSame
<1>. QED
  BY <1>1 DEF Alike, SeenSame, Lifecycle!lifecycleVars

LEMMA LifecycleStarts == Init => Lifecycle!LifecycleInit
  BY DEF Init, Lifecycle!LifecycleInit

(* Whatever peers submit and cancel, however executors, evictions and stop *)
(* behave, the manager promises what the RFC's "Job Lifecycle" does, and   *)
(* never runs, queues or remembers more than its limits (job-manager.ts).  *)
THEOREM ManagerImplementsLifecycle == Spec => ImplementsLifecycle
<1>1. [](SlotInv /\ Lifecycle!WithinLimits) /\ [][Next]_vars
        => [][Lifecycle!LifecycleNext]_(Lifecycle!lifecycleVars)
  BY LifecycleStep, PTL
<1>2. [](SlotInv /\ RecordsAccountedFor) => [](SlotInv /\ Lifecycle!WithinLimits)
  BY LimitsKept, PTL
<1>. QED
  BY <1>1, <1>2, LifecycleStarts, SlotInvariant, RecordsAreAccountedFor, PTL
  DEF Spec, ImplementsLifecycle, Lifecycle!LifecycleSpec

-----------------------------------------------------------------------------
(***************************************************************************)
(* The event streams. What a client reads is right because each step of    *)
(* the manager moves a job's log in one of four ways (LogMove), which keep *)
(* it well formed (LogInv), and because a connection that is not lost      *)
(* always holds the next stretch of the log the client has not read        *)
(* (Unread): all of it, up to the end, as long as the route is subscribed. *)
(***************************************************************************)
LogOf(j) ==
  LET log == events[j]
      n == Len(log)
  IN /\ status[j] \in {"unminted", "queued"} => log = <<>>
     /\ status[j] = "running" => n >= 1 /\ log[1] = "running"
     /\ \A i \in 1..n : log[i] = "running" => i = 1
     /\ \A i \in 1..n : log[i] = "result" <=> (status[j] \in Terminal /\ i = n)
     /\ \A i \in 1..n : log[i] = "ended" <=> (status[j] \in Terminal /\ i = n - 1)

LogInv == \A j \in Jobs : LogOf(j)

LogMove(j) ==
  \/ /\ events'[j] = events[j]
     /\ \/ status'[j] = status[j]
        \/ status[j] = "unminted" /\ status'[j] = "queued"
  \/ /\ status[j] \in {"unminted", "queued"} /\ status'[j] = "running"
     /\ events'[j] = Append(events[j], "running")
  \/ /\ status[j] = "running" /\ status'[j] = "running"
     /\ events'[j] = Append(events[j], "log")
  \/ /\ status[j] \in {"queued", "running"} /\ status'[j] \in Terminal
     /\ events'[j] = events[j] \o FinalEvents

(* A move of the log keeps it well formed and never shortens it.           *)
LEMMA LogKept ==
  ASSUME TypeOK, TypeOK', NEW j \in Jobs, LogOf(j), LogMove(j)
  PROVE  LogOf(j)' /\ Len(events'[j]) >= Len(events[j])
<1> DEFINE log == events[j]
           now == events'[j]
<1>1. /\ log \in Seq(EventKinds) /\ Len(log) \in Nat
      /\ now \in Seq(EventKinds) /\ Len(now) \in Nat
      /\ status[j] \in Statuses \cup {"unminted"}
  BY DEF TypeOK
<1>2. LogOf(j)' <=>
        /\ status'[j] \in {"unminted", "queued"} => now = <<>>
        /\ status'[j] = "running" => Len(now) >= 1 /\ now[1] = "running"
        /\ \A i \in 1..Len(now) : now[i] = "running" => i = 1
        /\ \A i \in 1..Len(now) : now[i] = "result" <=> (status'[j] \in Terminal /\ i = Len(now))
        /\ \A i \in 1..Len(now) : now[i] = "ended" <=> (status'[j] \in Terminal /\ i = Len(now) - 1)
  BY DEF LogOf
<1>3. /\ status[j] \in {"unminted", "queued"} => log = <<>>
      /\ status[j] = "running" => Len(log) >= 1 /\ log[1] = "running"
      /\ \A i \in 1..Len(log) : log[i] = "running" => i = 1
      /\ \A i \in 1..Len(log) : log[i] = "result" <=> (status[j] \in Terminal /\ i = Len(log))
      /\ \A i \in 1..Len(log) : log[i] = "ended" <=> (status[j] \in Terminal /\ i = Len(log) - 1)
  BY DEF LogOf
<1>4. CASE /\ now = log
           /\ \/ status'[j] = status[j]
              \/ status[j] = "unminted" /\ status'[j] = "queued"
  <2> HIDE DEF log, now
  <2> QED BY <1>1, <1>2, <1>3, <1>4 DEF Terminal, log, now
<1>5. CASE /\ status[j] \in {"unminted", "queued"} /\ status'[j] = "running"
           /\ now = Append(log, "running")
  <2>1. Len(now) = 1 /\ now[1] = "running"
    BY <1>3, <1>5
  <2> HIDE DEF log, now
  <2>2. \A i \in 1..Len(now) : i = 1
    BY <2>1
  <2>3. log = <<>> /\ Len(log) = 0
    BY <1>3, <1>5
  <2> QED BY <1>2, <1>5, <2>1, <2>2, <2>3 DEF Terminal, log, now
<1>6. CASE status[j] = "running" /\ status'[j] = "running" /\ now = Append(log, "log")
  <2>1. /\ Len(now) = Len(log) + 1 /\ now[Len(log) + 1] = "log"
        /\ \A i \in 1..Len(log) : now[i] = log[i]
    BY <1>1, <1>6
  <2>2. \A i \in 1..Len(now) : i \in 1..Len(log) \/ i = Len(log) + 1
    BY <1>1, <2>1
  <2>3. 1 \in 1..Len(log) /\ now[1] = "running"
    BY <1>1, <1>3, <1>6, <2>1
  <2> HIDE DEF log, now
  <2>4. \A i \in 1..Len(log) : log[i] # "result" /\ log[i] # "ended"
    BY <1>3, <1>6 DEF Terminal
  <2> QED BY <1>1, <1>2, <1>3, <1>6, <2>1, <2>2, <2>3, <2>4 DEF Terminal, log, now
<1>7. CASE /\ status[j] \in {"queued", "running"} /\ status'[j] \in Terminal
           /\ now = log \o FinalEvents
  <2>1. /\ FinalEvents \in Seq(EventKinds) /\ Len(FinalEvents) = 2
        /\ FinalEvents[1] = "ended" /\ FinalEvents[2] = "result"
    BY DEF FinalEvents, EventKinds
  <2>2. /\ Len(now) = Len(log) + 2
        /\ now[Len(log) + 1] = "ended" /\ now[Len(log) + 2] = "result"
        /\ \A i \in 1..Len(log) : now[i] = log[i]
    <3>1. now = log \o FinalEvents
      BY <1>7
    <3> HIDE DEF log, now
    <3>2. /\ Len(log \o FinalEvents) = Len(log) + Len(FinalEvents)
          /\ \A i \in 1..(Len(log) + Len(FinalEvents)) :
               (log \o FinalEvents)[i] =
                  IF i <= Len(log) THEN log[i] ELSE FinalEvents[i - Len(log)]
      BY <1>1, <2>1, ConcatProperties, Zenon
    <3>3. now[Len(log) + 1] = FinalEvents[(Len(log) + 1) - Len(log)]
      BY <1>1, <2>1, <3>1, <3>2
    <3>4. now[Len(log) + 2] = FinalEvents[(Len(log) + 2) - Len(log)]
      BY <1>1, <2>1, <3>1, <3>2
    <3>5. (Len(log) + 1) - Len(log) = 1 /\ (Len(log) + 2) - Len(log) = 2
      BY <1>1
    <3> QED BY <1>1, <2>1, <3>1, <3>2, <3>3, <3>4, <3>5
  <2>3. \A i \in 1..Len(now) :
          i \in 1..Len(log) \/ i = Len(log) + 1 \/ i = Len(log) + 2
    BY <1>1, <2>2
  <2> HIDE DEF log, now
  <2>4. \A i \in 1..Len(log) : log[i] # "result" /\ log[i] # "ended"
    BY <1>3, <1>7 DEF Terminal
  <2>5. \A i \in 1..Len(log) : i # Len(now) /\ i # Len(now) - 1
    BY <1>1, <2>2
  <2>6. Len(now) - 1 = Len(log) + 1
    BY <1>1, <2>2
  <2>7. \A i \in 1..Len(now) : now[i] = "result" <=> i = Len(now)
    BY <1>1, <2>2, <2>3, <2>4, <2>5
  <2>8. \A i \in 1..Len(now) : now[i] = "ended" <=> i = Len(now) - 1
    BY <1>1, <2>2, <2>3, <2>4, <2>5, <2>6
  <2>9. \A i \in 1..Len(now) : now[i] = "running" => i = 1
    BY <1>1, <1>3, <2>2, <2>3
  <2>10. /\ ~(status'[j] \in {"unminted", "queued"}) /\ status'[j] # "running"
         /\ Len(now) >= Len(log)
    BY <1>1, <1>7, <2>2 DEF Terminal
  <2> QED BY <1>2, <1>7, <2>7, <2>8, <2>9, <2>10 DEF log, now
<1> QED BY <1>4, <1>5, <1>6, <1>7 DEF LogMove

(* Finishing live jobs writes the two final events and nothing else.       *)
LEMMA FinishMoves ==
  ASSUME NEW S \in SUBSET Jobs, NEW outcome \in Terminal, FinishJobs(S, outcome),
         \A i \in S : status[i] \in {"queued", "running"}
  PROVE  \A j \in Jobs : LogMove(j)
<1>1. Fresh(S) = S
  BY DEF Fresh, Terminal
<1>2. \A j \in Jobs :
        /\ status'[j] = IF j \in S THEN outcome ELSE status[j]
        /\ events'[j] = IF j \in S THEN events[j] \o FinalEvents ELSE events[j]
  BY <1>1 DEF FinishJobs
<1> QED BY <1>2 DEF LogMove

(* Pump starts waiting jobs with a running event and touches no other log. *)
LEMMA PumpMoves ==
  ASSUME NEW q, NEW run, NEW st, NEW pc, Pump(q, run, st, pc),
         \A i \in Jobs : \/ st[i] = status[i]
                         \/ status[i] = "unminted" /\ st[i] = "queued"
  PROVE  \A j \in Jobs : LogMove(j)
<1>1. \A j \in Jobs :
        \/ status'[j] = st[j] /\ events'[j] = events[j]
        \/ st[j] = "queued" /\ status'[j] = "running"
           /\ events'[j] = Append(events[j], "running")
  BY DEF Pump, Startable
<1> QED BY <1>1 DEF LogMove

(* Every step of the manager moves every log in one of the four ways.      *)
LEMMA LogsMove ==
  ASSUME SlotInv, [Next]_vars
  PROVE  \A j \in Jobs : LogMove(j)
<1>1. CASE UNCHANGED <<status, events>>
  BY <1>1 DEF LogMove
<1>2. CASE \E S \in SUBSET Jobs, outcome \in Terminal :
             FinishJobs(S, outcome) /\ \A i \in S : status[i] \in {"queued", "running"}
  BY <1>2, FinishMoves
<1>3. ASSUME NEW i \in Jobs, NEW p \in Peers, Submit(i, p)
      PROVE  \A j \in Jobs : LogMove(j)
  <2> DEFINE st == [status EXCEPT ![i] = "queued"]
  <2>1. \A j \in Jobs : \/ st[j] = status[j]
                        \/ status[j] = "unminted" /\ st[j] = "queued"
    BY <1>3 DEF Submit, SlotInv, TypeOK
  <2>2. Pump(queue \cup {i}, running, st, at)
    BY <1>3 DEF Submit
  <2> HIDE DEF st
  <2> QED BY <2>1, <2>2, PumpMoves
<1>4. ASSUME NEW i \in Jobs, RunJobEnds(i)
      PROVE  \A j \in Jobs : LogMove(j)
  <2>1. CASE mgr = "up"
    <3> DEFINE pc == [at EXCEPT ![i] = "done"]
    <3>1. Pump(queue, running \ {i}, status, pc)
      BY <1>4, <2>1 DEF RunJobEnds
    <3> HIDE DEF pc
    <3> QED BY <3>1, PumpMoves
  <2>2. CASE mgr # "up"
    BY <1>1, <1>4, <2>2 DEF RunJobEnds
  <2> QED BY <2>1, <2>2
<1>5. ASSUME NEW i \in Jobs, Emit(i)
      PROVE  \A j \in Jobs : LogMove(j)
  <2>1. status[i] \in Terminal \/ status[i] = "running"
    BY <1>5 DEF Emit, SlotInv, Coherent, TypeOK, Statuses
  <2>2. UNCHANGED status
    BY <1>5 DEF Emit
  <2>3. \/ UNCHANGED events
        \/ status[i] = "running" /\ events' = [events EXCEPT ![i] = Append(@, "log")]
    BY <1>5, <2>1 DEF Emit
  <2> QED BY <2>2, <2>3 DEF LogMove, SlotInv, TypeOK
<1>6. ASSUME NEW i \in Jobs, JobStep(i)
      PROVE  \A j \in Jobs : LogMove(j)
  <2>1. CASE WorkspaceReady(i) \/ ReleaseSettles(i) \/ CancelAnswers(i)
    BY <1>1, <2>1 DEF WorkspaceReady, ReleaseSettles, CancelAnswers, recordVars
  <2>2. CASE WorkspaceReadyTooLate(i) \/ WorkspaceFails(i)
             \/ \E outcome \in Terminal : ExecutorReturns(i, outcome)
    <3>1. \E outcome \in Terminal : FinishJobs({i}, outcome)
      BY <2>2 DEF WorkspaceReadyTooLate, WorkspaceFails, ExecutorReturns, Terminal
    <3>2. status[i] = "running"
      BY <2>2 DEF WorkspaceReadyTooLate, WorkspaceFails, ExecutorReturns, SlotInv, Coherent
    <3>3. {i} \in SUBSET Jobs /\ \A k \in {i} : status[k] \in {"queued", "running"}
      BY <3>2
    <3> QED BY <1>2, <3>1, <3>3
  <2> QED BY <1>4, <1>5, <1>6, <2>1, <2>2 DEF JobStep, CancelSettles, CancelTimesOut
<1>7. ASSUME NEW p \in Peers, PeerStep(p)
      PROVE  \A j \in Jobs : LogMove(j)
  <2>1. ASSUME NEW i \in Jobs, CancelQueued(i, p)
        PROVE  \A j \in Jobs : LogMove(j)
    <3>1. /\ {i} \in SUBSET Jobs /\ "canceled" \in Terminal /\ FinishJobs({i}, "canceled")
          /\ \A k \in {i} : status[k] \in {"queued", "running"}
      BY <2>1 DEF CancelQueued, Terminal
    <3> QED BY <3>1, FinishMoves
  <2>2. ASSUME NEW i \in Jobs, CancelRunning(i, p)
        PROVE  UNCHANGED <<status, events>>
    BY <2>2 DEF CancelRunning
  <2>3. ASSUME CancelOwnedBy(p)
        PROVE  \A j \in Jobs : LogMove(j)
    <3> DEFINE live == {i \in records : owner[i] = p /\ status[i] \notin Terminal}
               waiting == {i \in live : status[i] = "queued"}
    <3>1. /\ waiting \in SUBSET Jobs /\ "canceled" \in Terminal
          /\ FinishJobs(waiting, "canceled")
          /\ \A k \in waiting : status[k] \in {"queued", "running"}
      BY <2>3 DEF CancelOwnedBy, SlotInv, TypeOK, Terminal
    <3> HIDE DEF waiting
    <3> QED BY <3>1, FinishMoves
  <2> QED BY <1>1, <1>3, <1>7, <2>1, <2>2, <2>3 DEF PeerStep
<1>8. CASE StopBegins
  <2> DEFINE waiting == {i \in queue : i \in records /\ status[i] = "queued"}
  <2>1. /\ waiting \in SUBSET Jobs /\ "canceled" \in Terminal
        /\ FinishJobs(waiting, "canceled")
        /\ \A k \in waiting : status[k] \in {"queued", "running"}
    BY <1>8 DEF StopBegins, SlotInv, TypeOK, Terminal
  <2> HIDE DEF waiting
  <2> QED BY <2>1, FinishMoves
<1>9. CASE StopTearsDown
  BY <1>1, <1>9 DEF StopTearsDown, recordVars
<1>10. CASE UNCHANGED vars
  BY <1>1, <1>10 DEF vars
<1> QED BY <1>6, <1>7, <1>8, <1>9, <1>10 DEF Next, StopSettles, StopTimesOut

(* A step of the manager keeps every log well formed and shortens none.    *)
LEMMA LogsStep ==
  ASSUME SlotInv, LogInv, [Next]_vars
  PROVE  LogInv' /\ \A j \in Jobs : Len(events'[j]) >= Len(events[j])
<1>1. TypeOK /\ TypeOK'
  BY SlotInvStep DEF SlotInv
<1>2. ASSUME NEW j \in Jobs
      PROVE  LogOf(j)' /\ Len(events'[j]) >= Len(events[j])
  BY <1>1, LogsMove, LogKept DEF LogInv
<1> QED BY <1>2 DEF LogInv

LEMMA LogsStart == Init => LogInv
BY DEF Init, LogInv, LogOf, Terminal

-----------------------------------------------------------------------------
(* Consecutive stretches of the log join, and a stretch is read from its   *)
(* front.                                                                  *)
LEMMA SeqsIs ==
  ASSUME NEW a \in Nat, NEW b \in Nat, a <= b
  PROVE  /\ Seqs(a, b) \in Seq(Nat) /\ Len(Seqs(a, b)) = b - a
         /\ \A i \in 1..(b - a) : Seqs(a, b)[i] = a + i - 1
<1>1. b - a \in Nat /\ \A i \in 1..(b - a) : a + i - 1 \in Nat
  OBVIOUS
<1>2. Seqs(a, b) \in [1..(b - a) -> Nat]
  BY <1>1 DEF Seqs
<1>3. Seqs(a, b) \in Seq(Nat) /\ Len(Seqs(a, b)) = b - a
  BY <1>1, <1>2
<1> QED BY <1>3 DEF Seqs

LEMMA SeqsJoin ==
  ASSUME NEW a \in Nat, NEW b \in Nat, NEW c \in Nat, a <= b, b <= c
  PROVE  Seqs(a, b) \o Seqs(b, c) = Seqs(a, c)
<1> DEFINE s == Seqs(a, b)
           t == Seqs(b, c)
           u == Seqs(a, c)
<1>1. /\ s \in Seq(Nat) /\ Len(s) = b - a /\ \A i \in 1..(b - a) : s[i] = a + i - 1
      /\ t \in Seq(Nat) /\ Len(t) = c - b /\ \A i \in 1..(c - b) : t[i] = b + i - 1
  BY SeqsIs
<1>2. /\ u \in Seq(Nat) /\ Len(u) = c - a /\ \A i \in 1..(c - a) : u[i] = a + i - 1
  BY SeqsIs
<1> HIDE DEF s, t, u
<1>3. /\ s \o t \in Seq(Nat) /\ Len(s \o t) = Len(s) + Len(t)
      /\ \A i \in 1..(Len(s) + Len(t)) :
           (s \o t)[i] = IF i <= Len(s) THEN s[i] ELSE t[i - Len(s)]
  BY <1>1, ConcatProperties, Zenon
<1>4. Len(s \o t) = c - a
  BY <1>1, <1>3
<1>5. ASSUME NEW i \in 1..(c - a) PROVE (s \o t)[i] = u[i]
  <2>1. CASE i <= b - a
    BY <1>1, <1>2, <1>3, <2>1
  <2>2. CASE ~(i <= b - a)
    <3>1. i - (b - a) \in 1..(c - b)
      BY <2>2
    <3>2. (s \o t)[i] = t[i - (b - a)]
      BY <1>1, <1>3, <2>2
    <3>3. t[i - (b - a)] = b + (i - (b - a)) - 1
      BY <1>1, <3>1
    <3> QED BY <1>2, <3>2, <3>3
  <2> QED BY <2>1, <2>2
<1>6. s \o t = u
  BY <1>2, <1>3, <1>4, <1>5, SeqEqual
<1> QED BY <1>6 DEF s, t, u

LEMMA SeqsRead ==
  ASSUME NEW a \in Nat, NEW b \in Nat, a <= b, Seqs(a, b) # <<>>
  PROVE  /\ a < b /\ Head(Seqs(a, b)) = a /\ Tail(Seqs(a, b)) = Seqs(a + 1, b)
         /\ Append(Seqs(0, a), a) = Seqs(0, a + 1) /\ Len(Seqs(0, a + 1)) = a + 1
<1> DEFINE s == Seqs(a, b)
<1>1. s \in Seq(Nat) /\ Len(s) = b - a /\ \A i \in 1..(b - a) : s[i] = a + i - 1
  BY SeqsIs
<1>2. a < b
  <2> HIDE DEF s
  <2>1. s # <<>>
    BY DEF s
  <2>2. Len(s) # 0
    BY <1>1, <2>1
  <2> QED BY <1>1, <2>2
<1>3. PICK m \in Nat : m = a + 1
  OBVIOUS
<1>4. PICK z \in Nat : z = 0
  OBVIOUS
<1> DEFINE t == Seqs(m, b)
           u == Seqs(z, a)
           v == Seqs(z, m)
<1>. /\ m \in Nat /\ z \in Nat /\ m <= b /\ z <= a /\ z <= m
  BY <1>2, <1>3, <1>4
<1>5. t \in Seq(Nat) /\ Len(t) = b - m /\ \A i \in 1..(b - m) : t[i] = m + i - 1
  BY SeqsIs, Zenon
<1>6. u \in Seq(Nat) /\ Len(u) = a - z /\ \A i \in 1..(a - z) : u[i] = z + i - 1
  BY SeqsIs, Zenon
<1>7. v \in Seq(Nat) /\ Len(v) = m - z /\ \A i \in 1..(m - z) : v[i] = z + i - 1
  BY SeqsIs, Zenon
<1> HIDE DEF s, t, u, v
<1>8. Head(s) = a
  BY <1>1, <1>2
<1>9. Tail(s) = t
  <2>1. s # <<>>
    BY <1>1, <1>2
  <2>2. /\ Tail(s) \in Seq(Nat) /\ Len(Tail(s)) = Len(s) - 1
        /\ \A i \in 1..Len(Tail(s)) : Tail(s)[i] = s[i + 1]
    BY <1>1, <2>1, HeadTailProperties
  <2>3. Len(Tail(s)) = b - m /\ Len(Tail(s)) = Len(t)
    BY <1>1, <1>3, <1>5, <2>2
  <2>4. ASSUME NEW i \in 1..Len(Tail(s)) PROVE Tail(s)[i] = t[i]
    <3>1. i \in 1..(b - m) /\ i + 1 \in 1..(b - a)
      BY <1>2, <1>3, <2>3
    <3>2. Tail(s)[i] = s[i + 1] /\ s[i + 1] = a + (i + 1) - 1 /\ t[i] = m + i - 1
      BY <1>1, <1>5, <2>2, <3>1
    <3> QED BY <1>3, <3>1, <3>2
  <2> QED BY <1>5, <2>2, <2>3, <2>4, SeqEqual
<1>10. Append(u, a) = v
  <2>1. /\ Append(u, a) \in Seq(Nat) /\ Len(Append(u, a)) = Len(u) + 1
        /\ \A i \in 1..Len(u) : Append(u, a)[i] = u[i]
        /\ Append(u, a)[Len(u) + 1] = a
    BY <1>6, AppendProperties
  <2>2. Len(Append(u, a)) = Len(v)
    BY <1>3, <1>4, <1>6, <1>7, <2>1
  <2>3. ASSUME NEW i \in 1..Len(Append(u, a)) PROVE Append(u, a)[i] = v[i]
    <3>1. CASE i = a + 1
      BY <1>3, <1>4, <1>6, <1>7, <2>1, <3>1
    <3>2. CASE i # a + 1
      BY <1>3, <1>4, <1>6, <1>7, <2>1, <3>2
    <3> QED BY <3>1, <3>2
  <2> QED BY <1>7, <2>1, <2>2, <2>3, SeqEqual
<1>11. Len(v) = a + 1
  BY <1>3, <1>4, <1>7
<1> QED BY <1>2, <1>3, <1>4, <1>8, <1>9, <1>10, <1>11 DEF s, t, u, v

(* What a connection holds: the log from what the client has read up to    *)
(* some point, which is its end while the route is subscribed.             *)
Unread(c) ==
  \E hi \in Len(seen)..Len(events[Watched]) :
    /\ wire[c] = Seqs(Len(seen), hi)
    /\ route[c] = "live" => hi = Len(events[Watched])

StreamInv ==
  /\ link \subseteq Conns
  /\ DOMAIN wire = Conns /\ DOMAIN route = Conns
  /\ \A c, d \in link : c = d
  /\ Len(seen) \in Nat /\ seen = Seqs(0, Len(seen))
  /\ Len(seen) <= Len(events[Watched])
  /\ \A c \in link : Unread(c)

(* What append writes to a subscribed connection continues what it holds.  *)
LEMMA DeliverKeeps ==
  ASSUME StreamInv, TypeOK, TypeOK', Deliver,
         Len(events'[Watched]) >= Len(events[Watched])
  PROVE  StreamInv'
<1> DEFINE old == Len(events[Watched])
           new == Len(events'[Watched])
<1>1. old \in Nat /\ new \in Nat /\ old <= new
  BY WatchedAssumption DEF TypeOK
<1>2. /\ seen' = seen /\ link' = link
      /\ DOMAIN wire' = Conns /\ DOMAIN route' = Conns
  BY DEF Deliver
<1>3. \A c \in link :
        /\ wire'[c] = IF route[c] = "live" THEN wire[c] \o Seqs(old, new) ELSE wire[c]
        /\ route'[c] = "live" => route[c] = "live"
  BY DEF Deliver, StreamInv
<1>4. Len(seen) \in Nat /\ Len(seen) <= old
  BY DEF StreamInv
<1>5. ASSUME NEW c \in link PROVE Unread(c)'
  <2>1. PICK hi \in Len(seen)..old :
          wire[c] = Seqs(Len(seen), hi) /\ (route[c] = "live" => hi = old)
    BY DEF StreamInv, Unread
  <2>2. CASE route[c] = "live"
    <3>1. hi = old
      BY <2>1, <2>2
    <3>2. wire'[c] = Seqs(Len(seen), new)
      <4>1. wire'[c] = Seqs(Len(seen), old) \o Seqs(old, new)
        BY <1>3, <2>1, <2>2, <3>1
      <4> HIDE DEF old, new
      <4> QED BY <1>1, <1>4, <4>1, SeqsJoin
    <3>3. new \in Len(seen)..new
      BY <1>1, <1>4
    <3> QED BY <1>2, <3>2, <3>3 DEF Unread
  <2>3. CASE route[c] # "live"
    <3>1. wire'[c] = Seqs(Len(seen), hi) /\ route'[c] # "live"
      BY <1>3, <2>1, <2>3
    <3>2. hi \in Len(seen)..new
      BY <1>1, <1>4
    <3> QED BY <1>2, <3>1, <3>2 DEF Unread
  <2> QED BY <2>2, <2>3
<1> QED BY <1>1, <1>2, <1>4, <1>5 DEF StreamInv

(* A client that opens a connection asks for what it has not read; reading *)
(* takes the next event of the log; losing a connection loses only what it *)
(* held.                                                                   *)
LEMMA StreamKeeps ==
  ASSUME StreamInv, TypeOK, UNCHANGED vars, NEW c \in Conns, StreamStep(c)
  PROVE  StreamInv'
<1> USE DEF StreamInv
<1> DEFINE n == Len(seen)
           top == Len(events[Watched])
<1>1. events' = events /\ top \in Nat /\ n \in Nat /\ n <= top
  BY WatchedAssumption DEF vars, TypeOK
<1>2. CASE Connect(c)
  <2>1. /\ link' = {c} /\ seen' = seen
        /\ wire' = [wire EXCEPT ![c] = Seqs(n, top)]
        /\ DOMAIN wire' = Conns /\ DOMAIN route' = Conns
    BY <1>2 DEF Connect, OpenStream
  <2>2. wire'[c] = Seqs(n, top)
    BY <2>1
  <2>3. top \in n..top
    BY <1>1
  <2>4. Unread(c)'
    BY <1>1, <2>1, <2>2, <2>3 DEF Unread
  <2> QED BY <1>1, <2>1, <2>4
<1>3. CASE ReadEvent(c)
  <2>1. /\ c \in link /\ wire[c] # <<>> /\ link' = link /\ route' = route
        /\ seen' = Append(seen, Head(wire[c]))
        /\ wire' = [wire EXCEPT ![c] = Tail(wire[c])]
    BY <1>3 DEF ReadEvent
  <2>2. PICK hi \in n..top :
          wire[c] = Seqs(n, hi) /\ (route[c] = "live" => hi = top)
    BY <2>1 DEF Unread
  <2>3. /\ n < hi /\ Head(wire[c]) = n /\ Tail(wire[c]) = Seqs(n + 1, hi)
        /\ Append(Seqs(0, n), n) = Seqs(0, n + 1) /\ Len(Seqs(0, n + 1)) = n + 1
    <3>1. hi \in Nat /\ n <= hi /\ Seqs(n, hi) # <<>>
      BY <1>1, <2>1, <2>2
    <3> HIDE DEF n
    <3> QED BY <1>1, <2>2, <3>1, SeqsRead
  <2>4. seen' = Seqs(0, n + 1)
    BY <2>1, <2>3
  <2>5. Len(Seqs(0, n + 1)) = n + 1
    BY <2>3
  <2>6. wire'[c] = Seqs(n + 1, hi) /\ DOMAIN wire' = Conns
    BY <2>1, <2>3
  <2>7. hi \in (n + 1)..top
    BY <1>1, <2>3
  <2>8. Len(seen') = n + 1
    BY <2>4, <2>5
  <2>9. Unread(c)'
    BY <1>1, <2>1, <2>2, <2>6, <2>7, <2>8 DEF Unread
  <2>10. \A d \in link' : d = c
    BY <2>1
  <2>11. n + 1 \in Nat /\ n + 1 <= top
    BY <1>1, <2>7
  <2> QED BY <1>1, <2>1, <2>4, <2>6, <2>8, <2>9, <2>10, <2>11
<1>4. CASE ReadEnd(c) \/ LinkLost(c)
  <2>1. /\ link' = link \ {c} /\ seen' = seen /\ route' = route
        /\ DOMAIN wire' = Conns /\ \A d \in link' : wire'[d] = wire[d]
    BY <1>4 DEF ReadEnd, LinkLost
  <2>2. \A d \in link' : Unread(d)'
    BY <1>1, <2>1 DEF Unread
  <2> QED BY <1>1, <2>1, <2>2
<1>5. CASE RouteClosed(c)
  <2>1. /\ link' = link /\ seen' = seen /\ wire' = wire
        /\ DOMAIN route' = Conns /\ \A d \in link' : route'[d] = route[d]
    BY <1>5 DEF RouteClosed
  <2>2. \A d \in link' : Unread(d)'
    BY <1>1, <2>1 DEF Unread
  <2> QED BY <1>1, <2>1, <2>2
<1> QED BY <1>2, <1>3, <1>4, <1>5 DEF StreamStep

AllStreamVars == <<vars, streamVars>>

ReadInv == SlotInv /\ LogInv /\ StreamInv

LEMMA ReadInvStep == ReadInv /\ [StreamNext]_AllStreamVars => ReadInv'
<1> SUFFICES ASSUME ReadInv, [StreamNext]_AllStreamVars PROVE ReadInv'
  OBVIOUS
<1>1. [Next]_vars
  BY DEF StreamNext, AllStreamVars
<1>2. SlotInv' /\ LogInv' /\ \A j \in Jobs : Len(events'[j]) >= Len(events[j])
  BY <1>1, SlotInvStep, LogsStep DEF ReadInv
<1>3. TypeOK /\ TypeOK' /\ StreamInv
  BY <1>2 DEF ReadInv, SlotInv
<1>4. CASE Next /\ Deliver
  BY <1>2, <1>3, <1>4, DeliverKeeps, WatchedAssumption DEF ReadInv
<1>5. CASE (\E c \in Conns : StreamStep(c)) /\ UNCHANGED vars
  BY <1>2, <1>3, <1>5, StreamKeeps DEF ReadInv
<1>6. CASE UNCHANGED AllStreamVars
  <2>1. StreamInv'
    BY <1>3, <1>6 DEF AllStreamVars, vars, streamVars, StreamInv, Unread
  <2> QED BY <1>2, <2>1 DEF ReadInv
<1> QED BY <1>4, <1>5, <1>6 DEF StreamNext

LEMMA ReadInvStarts == StreamInit => ReadInv
<1> SUFFICES ASSUME StreamInit PROVE ReadInv
  OBVIOUS
<1>1. SlotInv /\ LogInv
  BY SlotInvInit, LogsStart DEF StreamInit
<1>2. Len(events[Watched]) = 0 /\ Len(seen) = 0 /\ seen = <<>>
  BY WatchedAssumption DEF StreamInit, Init
<1>3. Seqs(0, 0) = <<>>
  BY SeqsIs
<1>4. StreamInv
  BY <1>2, <1>3 DEF StreamInit, StreamInv
<1> QED BY <1>1, <1>4 DEF ReadInv

THEOREM ReadInvariant == StreamSpec => []ReadInv
<1>1. StreamInit => ReadInv
  BY ReadInvStarts
<1>2. ReadInv /\ [StreamNext]_AllStreamVars => ReadInv'
  BY ReadInvStep
<1>3. StreamSpec => StreamInit /\ [][StreamNext]_AllStreamVars
  BY DEF StreamSpec, AllStreamVars
<1> QED BY <1>1, <1>2, <1>3, PTL

(* However jobs run, end and are evicted, and however often connections    *)
(* are lost and reopened, the client reads the log of the job it follows   *)
(* from its first event, each once and in order, and the log is the one    *)
(* the RFC describes (subscribe, job-manager.ts:443).                      *)
THEOREM StreamsReadOnce == StreamSpec => []ReadsExactlyOnceInOrder
<1>1. ReadInv => ReadsExactlyOnceInOrder
  <2>1. LogInv => EventLogWellFormed
    BY DEF LogInv, LogOf, EventLogWellFormed
  <2> QED BY <2>1 DEF ReadInv, StreamInv, ReadsExactlyOnceInOrder
<1> QED BY <1>1, ReadInvariant, PTL
=============================================================================
