-------------------------- MODULE DiscoveryProofs ---------------------------
(***************************************************************************)
(* The registry's coalescing persist implements the durable store, for     *)
(* any set of callers; and the aggregator and unpairPeer use the registry  *)
(* as its callers may: what they do to it are its own operations,          *)
(* whatever the channels report and whenever the daemon stops or dies.     *)
(* Hence the registry's promise holds in the whole of discovery, for any   *)
(* devices, endpoints and limits.                                          *)
(*                                                                         *)
(* Where devices are: the candidates, the records that the chain still has *)
(* to make and the registry agree on the last sighting of each device, for *)
(* any devices, endpoints, statics and limits; and a stop leaves nothing.  *)
(***************************************************************************)
EXTENDS Discovery, ListLemmas, SequenceTheorems, TLAPS

(* What is known of the write under way: its snapshot is between the file  *)
(* and memory, and it has the mutations of the callers it will answer;     *)
(* callers of the follow-up are waiting too.                               *)
WriteInv ==
  /\ disk <= mem
  /\ \A c \in Calls : at[c] <= mem
  /\ \A c \in writing.callers \cup pending.callers : status[c] = "waiting"
  /\ writing.phase = "write" =>
       /\ disk <= writing.snap /\ writing.snap <= mem
       /\ \A c \in writing.callers : at[c] <= writing.snap
  /\ writing.phase \in {"none", "settled"} => writing.callers = {}
  /\ writing.callers \cap pending.callers = {}

IInv == TypeOK /\ WriteInv

LEMMA InitInv == Init => IInv
  BY DEF Init, IInv, TypeOK, WriteInv, NoWrite, NoPending, Phases

(* What Persist does with a new caller. *)
LEMMA PersistJoins ==
  ASSUME IInv, NEW c \in Calls, Persist(c), status[c] = "idle"
  PROVE  /\ writing' \in [phase : Phases, snap : Nat, callers : SUBSET Calls]
         /\ pending' \in [set : BOOLEAN, callers : SUBSET Calls]
         /\ writing'.callers \cup pending'.callers
              = writing.callers \cup pending.callers \cup {c}
         /\ writing'.phase = "write" => writing' = writing
         /\ writing'.phase \in {"none", "settled"} => writing'.callers = {}
         /\ writing'.callers \cap pending'.callers = {}
<1> USE DEF IInv, TypeOK, WriteInv, Phases
<1>1. CASE writing.phase = "none"
  <2>1. writing' = [phase |-> "mkdir", snap |-> 0, callers |-> {c}] /\ pending' = pending
    BY <1>1 DEF Persist
  <2> QED BY <2>1, <1>1
<1>2. CASE writing.phase # "none"
  <2>1. /\ pending' = [set |-> TRUE, callers |-> pending.callers \cup {c}]
        /\ writing' = writing
    BY <1>2 DEF Persist
  <2> QED BY <2>1
<1> QED BY <1>1, <1>2

LEMMA StepInv == IInv /\ [Next]_vars => IInv'
<1> SUFFICES ASSUME IInv, [Next]_vars PROVE IInv'
  OBVIOUS
<1>1. ASSUME NEW c \in Calls, Mutate(c) PROVE IInv'
  <2>1. /\ mem' = mem + 1 /\ disk' = disk
        /\ at' = [at EXCEPT ![c] = mem + 1]
        /\ status' = [status EXCEPT ![c] = "waiting"]
        /\ status[c] = "idle" /\ Persist(c)
    BY <1>1 DEF Mutate
  <2>2. /\ writing' \in [phase : Phases, snap : Nat, callers : SUBSET Calls]
        /\ pending' \in [set : BOOLEAN, callers : SUBSET Calls]
        /\ writing'.callers \cup pending'.callers
             = writing.callers \cup pending.callers \cup {c}
        /\ writing'.phase = "write" => writing' = writing
        /\ writing'.phase \in {"none", "settled"} => writing'.callers = {}
        /\ writing'.callers \cap pending'.callers = {}
    BY <2>1, PersistJoins
  <2>3. TypeOK'
    BY <2>1, <2>2 DEF IInv, TypeOK
  <2>4. \A b \in Calls : at'[b] = IF b = c THEN mem + 1 ELSE at[b]
    BY <2>1 DEF IInv, TypeOK
  <2>5. c \notin writing.callers
    BY <2>1 DEF IInv, WriteInv
  <2>6. writing'.phase = "write" =>
          /\ disk' <= writing'.snap /\ writing'.snap <= mem'
          /\ \A b \in writing'.callers : at'[b] <= writing'.snap
    BY <2>1, <2>2, <2>4, <2>5 DEF IInv, TypeOK, WriteInv
  <2>7. \A b \in writing'.callers \cup pending'.callers : status'[b] = "waiting"
    BY <2>1, <2>2 DEF IInv, TypeOK, WriteInv
  <2>8. disk' <= mem' /\ \A b \in Calls : at'[b] <= mem'
    BY <2>1, <2>4 DEF IInv, TypeOK, WriteInv
  <2> QED BY <2>2, <2>3, <2>6, <2>7, <2>8 DEF IInv, WriteInv
<1>2. ASSUME NEW c \in Calls, Refuse(c) PROVE IInv'
  BY <1>2 DEF Refuse, IInv, TypeOK, WriteInv
<1>3. CASE TakeSnapshot
  <2>1. /\ writing' = [phase |-> "write", snap |-> mem, callers |-> writing.callers]
        /\ UNCHANGED <<mem, disk, at, status, pending>>
    BY <1>3 DEF TakeSnapshot, store, IInv, TypeOK
  <2>2. TypeOK'
    BY <2>1 DEF IInv, TypeOK, Phases
  <2>3. WriteInv'
    BY <2>1 DEF IInv, TypeOK, WriteInv
  <2> QED BY <2>2, <2>3 DEF IInv
<1>4. CASE Renamed
  <2>1. /\ writing' = [phase |-> "settled", snap |-> writing.snap, callers |-> {}]
        /\ UNCHANGED <<mem, at, pending>> /\ disk' = writing.snap
        /\ writing.phase = "write"
    BY <1>4 DEF Renamed, IInv, TypeOK
  <2>2. \A c \in Calls :
          status'[c] = IF c \in writing.callers THEN "saved" ELSE status[c]
    BY <1>4 DEF Renamed, Answered
  <2>3. status' \in [Calls -> {"idle", "waiting", "saved", "failed", "refused", "lost"}]
    BY <1>4 DEF Renamed, Answered, IInv, TypeOK
  <2>4. TypeOK'
    BY <2>1, <2>3 DEF IInv, TypeOK, Phases
  <2>5. WriteInv'
    BY <2>1, <2>2 DEF IInv, TypeOK, WriteInv
  <2> QED BY <2>4, <2>5 DEF IInv
<1>5. CASE WriteFails
  <2>1. /\ writing' = [phase |-> "settled", snap |-> writing.snap, callers |-> {}]
        /\ UNCHANGED <<mem, disk, at, pending>>
    BY <1>5 DEF WriteFails, IInv, TypeOK
  <2>2. \A c \in Calls :
          status'[c] = IF c \in writing.callers THEN "failed" ELSE status[c]
    BY <1>5 DEF WriteFails, Answered
  <2>3. status' \in [Calls -> {"idle", "waiting", "saved", "failed", "refused", "lost"}]
    BY <1>5 DEF WriteFails, Answered, IInv, TypeOK
  <2>4. TypeOK'
    BY <2>1, <2>3 DEF IInv, TypeOK, Phases
  <2>5. WriteInv'
    BY <2>1, <2>2 DEF IInv, TypeOK, WriteInv
  <2> QED BY <2>4, <2>5 DEF IInv
<1>6. CASE Promote
  BY <1>6 DEF Promote, store, NoWrite, NoPending, IInv, TypeOK, WriteInv, Phases
<1>7. CASE FollowUpStarts
  <2>1. /\ writing' = [phase |-> "mkdir", snap |-> writing.snap, callers |-> writing.callers]
        /\ UNCHANGED <<mem, disk, at, status, pending>>
    BY <1>7 DEF FollowUpStarts, store, IInv, TypeOK
  <2>2. TypeOK'
    BY <2>1 DEF IInv, TypeOK, Phases
  <2>3. WriteInv'
    BY <2>1 DEF IInv, TypeOK, WriteInv
  <2> QED BY <2>2, <2>3 DEF IInv
<1>8. CASE Restart
  <2>1. PICK version \in {disk} \cup {v \in {writing.snap} : writing.phase = "write"} :
          /\ mem' = version /\ disk' = version
          /\ at' = [c \in Calls |-> IF at[c] <= version THEN at[c] ELSE 0]
    BY <1>8 DEF Restart
  <2>2. version \in Nat
    BY <2>1 DEF IInv, TypeOK
  <2>3. /\ at' \in [Calls -> Nat]
        /\ \A c \in Calls : at'[c] <= version
    BY <2>1, <2>2 DEF IInv, TypeOK
  <2>4. status' \in [Calls -> {"idle", "waiting", "saved", "failed", "refused", "lost"}]
    BY <1>8 DEF Restart, IInv, TypeOK
  <2>5. writing' = NoWrite /\ pending' = NoPending
    BY <1>8 DEF Restart
  <2>6. TypeOK'
    BY <2>1, <2>2, <2>3, <2>4, <2>5 DEF TypeOK, NoWrite, NoPending, Phases
  <2>7. WriteInv'
    BY <2>1, <2>2, <2>3, <2>5 DEF WriteInv, NoWrite, NoPending
  <2> QED BY <2>6, <2>7 DEF IInv
<1>9. CASE UNCHANGED vars
  BY <1>9 DEF vars, store, IInv, TypeOK, WriteInv
<1> QED
  BY <1>1, <1>2, <1>3, <1>4, <1>5, <1>6, <1>7, <1>8, <1>9 DEF Next, WriteStep

(* The variables keep their types, and the write under way stays between   *)
(* the file and memory (known-nodes.ts persist, runWrite, writeSnapshot).  *)
THEOREM KnownNodesInvariant == Spec => []IInv
  BY InitInv, StepInv, PTL DEF Spec

-----------------------------------------------------------------------------
LEMMA DurableInit == Init => Durable!Init
  BY DEF Init, Durable!Init

(* Every step of the registry is a step of the durable store or a stutter. *)
LEMMA DurableStep == IInv /\ IInv' /\ [Next]_vars => [Durable!Next]_(Durable!vars)
<1> SUFFICES ASSUME IInv, IInv', [Next]_vars PROVE [Durable!Next]_(Durable!vars)
  OBVIOUS
<1>1. ASSUME NEW c \in Calls, Mutate(c) PROVE Durable!Next
  BY <1>1 DEF Mutate, Durable!Mutate, Durable!Next
<1>2. ASSUME NEW c \in Calls, Refuse(c) PROVE Durable!Next
  BY <1>2 DEF Refuse, Durable!Refuse, Durable!Next
<1>3. CASE TakeSnapshot \/ Promote \/ FollowUpStarts
  BY <1>3 DEF TakeSnapshot, Promote, FollowUpStarts, store, Durable!vars
<1>4. CASE Renamed
  <2>1. writing.snap \in disk..mem
    BY <1>4 DEF Renamed, IInv, TypeOK, WriteInv
  <2>2. Durable!Succeeding(writing.callers)
    BY <1>4 DEF Renamed, Durable!Succeeding, IInv, TypeOK, WriteInv
  <2>3. /\ disk' = writing.snap /\ mem' = mem /\ at' = at
        /\ status' = Durable!Marked(writing.callers, "saved")
    BY <1>4 DEF Renamed, Answered, Durable!Marked
  <2>4. writing.callers \in SUBSET Calls
    BY DEF IInv, TypeOK
  <2>5. Durable!Save
    BY <2>1, <2>2, <2>3, <2>4 DEF Durable!Save
  <2> QED BY <2>5 DEF Durable!Next
<1>5. CASE WriteFails
  <2>1. writing.callers \in SUBSET {c \in Calls : status[c] = "waiting"}
    BY DEF IInv, TypeOK, WriteInv
  <2>2. /\ status' = Durable!Marked(writing.callers, "failed")
        /\ mem' = mem /\ disk' = disk /\ at' = at
    BY <1>5 DEF WriteFails, Answered, Durable!Marked
  <2>3. Durable!Fail
    BY <2>1, <2>2 DEF Durable!Fail
  <2> QED BY <2>3 DEF Durable!Next
<1>6. CASE Restart
  <2>1. PICK version \in {disk} \cup {v \in {writing.snap} : writing.phase = "write"} :
          /\ mem' = version /\ disk' = version
          /\ at' = [c \in Calls |-> IF at[c] <= version THEN at[c] ELSE 0]
    BY <1>6 DEF Restart
  <2>2. version \in disk..mem
    BY <2>1 DEF IInv, TypeOK, WriteInv
  <2>3. status' = Durable!Marked({c \in Calls : status[c] = "waiting"}, "lost")
    BY <1>6 DEF Restart, Durable!Marked
  <2>4. Durable!Restart
    BY <2>1, <2>2, <2>3 DEF Durable!Restart
  <2> QED BY <2>4 DEF Durable!Next
<1>7. CASE UNCHANGED vars
  BY <1>7 DEF vars, store, Durable!vars
<1> QED
  BY <1>1, <1>2, <1>3, <1>4, <1>5, <1>6, <1>7 DEF Next, WriteStep

(* "every returned promise resolves only after a write that reflects this  *)
(* call's mutation" (known-nodes.ts persist), whatever the number of       *)
(* callers, failures and restarts: the registry is a durable store.        *)
THEOREM KnownNodesDurable == Spec => ImplementsDurableStore
<1>1. Init => Durable!Init
  BY DurableInit
<1>2. IInv /\ IInv' /\ [Next]_vars => [Durable!Next]_(Durable!vars)
  BY DurableStep
<1> QED
  BY <1>1, <1>2, KnownNodesInvariant, PTL DEF Spec, ImplementsDurableStore, Durable!Spec

-----------------------------------------------------------------------------
(* One record at a time leaves persistChain, an unpairing may come beside  *)
(* it; the writes go on by themselves.                                     *)
LEMMA BackgroundRefines == Background => [Next]_vars
<1> SUFFICES ASSUME Background PROVE [Next]_vars
  OBVIOUS
<1>1. CASE Recorded
  BY <1>1 DEF Recorded
<1>2. CASE \E k \in Calls : Record(k)
  BY <1>2 DEF Record, Next
<1>3. CASE Snapshot
  BY <1>3 DEF Snapshot, Next, WriteStep
<1>4. CASE FileReplaced
  BY <1>4 DEF FileReplaced, Next, WriteStep
<1>5. CASE WriteGoesOn
  BY <1>5 DEF WriteGoesOn, Next, WriteStep
<1>. QED
  BY <1>1, <1>2, <1>3, <1>4, <1>5 DEF Background

(* A removal is only of a node that is there (known-nodes.ts remove).      *)
LEMMA ForgetRefines ==
  ASSUME NEW k \in Calls, NEW d, Forget(k, d)
  PROVE  Next
<1>1. Mutate(k) \/ Refuse(k)
  BY DEF Forget
<1>. QED
  BY <1>1 DEF Next

(* Sightings and the life of the channels leave the registry alone: what   *)
(* they record is queued first (aggregator.ts queueRecord).                *)
LEMMA DiscoveryRefines == [DiscoveryNext]_allVars => [Next]_vars
<1> SUFFICES ASSUME [DiscoveryNext]_allVars PROVE [Next]_vars
  OBVIOUS
<1>1. CASE Start
  BY <1>1 DEF Start
<1>2. CASE Bound \/ BindFails
  BY <1>2 DEF Bound, BindFails
<1>3. CASE Stop \/ StopChannels \/ StopReturns
  BY <1>3 DEF Stop, StopChannels, StopReturns
<1>4. ASSUME NEW d \in Devices, NEW ep \in Places[d], Datagram(d, ep) \/ ServiceUp(d, ep)
      PROVE  UNCHANGED vars
  BY <1>4 DEF Datagram, ServiceUp
<1>5. CASE ClockMoves
  BY <1>5 DEF ClockMoves
<1>6. CASE DaemonRestarts
  BY <1>6 DEF DaemonRestarts, Next
<1>7. ASSUME NEW k \in Calls, NEW d \in Paired, Forget(k, d) PROVE Next
  BY <1>7, ForgetRefines
<1>8. CASE UNCHANGED allVars
  BY <1>8 DEF allVars
<1>. QED
  BY <1>1, <1>2, <1>3, <1>4, <1>5, <1>6, <1>7, <1>8, BackgroundRefines
  DEF DiscoveryNext, Lifecycle

(* What discovery does to the registry are behaviours of the registry.     *)
THEOREM DiscoveryUsesRegistry == DiscoverySpec => Spec
<1>1. DiscoveryInit => Init
  BY DEF DiscoveryInit
<1>. QED
  BY <1>1, DiscoveryRefines, PTL DEF DiscoverySpec, Spec

(* "every returned promise resolves only after a write that reflects this  *)
(* call's mutation" (known-nodes.ts persist), for the records discovery    *)
(* makes and the removals of unpairPeer, over stops and restarts.          *)
THEOREM DiscoveryDurable == DiscoverySpec => ImplementsDurableStore
  BY DiscoveryUsesRegistry, KnownNodesDurable, PTL
-----------------------------------------------------------------------------
(* Maps that keep their insertion order, as sequences of entries.          *)

(* A candidate of the aggregator, and one that can be recorded. *)
Entry == [dev : Devices \cup {Nobody}, at : Endpoints, seen : Nat]
Node == [dev : Devices, at : Endpoints, seen : Nat]

KeyedOnce(es) == \A i, k \in DOMAIN es : Key(es[i]) = Key(es[k]) => i = k

LEMMA RemoveAtOf ==
  ASSUME NEW S, NEW s \in Seq(S), NEW i \in 1..Len(s)
  PROVE  /\ RemoveAt(s, i) \in Seq(S) /\ Len(RemoveAt(s, i)) = Len(s) - 1
         /\ \A n \in 1..(Len(s) - 1) : RemoveAt(s, i)[n] = IF n < i THEN s[n] ELSE s[n + 1]
<1> DEFINE a == SubSeq(s, 1, i - 1)
           b == SubSeq(s, i + 1, Len(s))
<1>1. a \in Seq(S) /\ Len(a) = i - 1 /\ \A n \in 1..(i - 1) : a[n] = s[n]
  BY SubSeqProperties
<1>2. b \in Seq(S) /\ Len(b) = Len(s) - i /\ \A n \in 1..(Len(s) - i) : b[n] = s[i + n]
  BY SubSeqProperties
<1>3. RemoveAt(s, i) = a \o b
  BY DEF RemoveAt
<1> HIDE DEF a, b
<1>4. /\ a \o b \in Seq(S) /\ Len(a \o b) = Len(a) + Len(b)
      /\ \A n \in 1..(Len(a) + Len(b)) : (a \o b)[n] = IF n <= Len(a) THEN a[n] ELSE b[n - Len(a)]
  BY <1>1, <1>2, ConcatProperties
<1>5. Len(a) + Len(b) = Len(s) - 1
  BY <1>1, <1>2
<1>6. ASSUME NEW n \in 1..(Len(s) - 1)
      PROVE  (a \o b)[n] = IF n < i THEN s[n] ELSE s[n + 1]
  <2>1. (a \o b)[n] = IF n <= Len(a) THEN a[n] ELSE b[n - Len(a)]
    BY <1>4, <1>5
  <2>2. CASE n < i
    BY <1>1, <2>1, <2>2
  <2>3. CASE ~(n < i)
    <3>1. n - Len(a) \in 1..(Len(s) - i) /\ i + (n - Len(a)) = n + 1
      BY <1>1, <2>3
    <3>. QED
      BY <1>1, <1>2, <2>1, <2>3, <3>1
  <2>. QED
    BY <2>2, <2>3
<1>. QED
  BY <1>3, <1>4, <1>5, <1>6

(* Without one place, a map is one of the others. *)
LEMMA RemoveAtKeeps ==
  ASSUME NEW S, NEW s \in Seq(S), KeyedOnce(s), NEW i \in DOMAIN s
  PROVE  /\ RemoveAt(s, i) \in Seq(S) /\ KeyedOnce(RemoveAt(s, i))
         /\ \A k \in DOMAIN RemoveAt(s, i) : \E m \in DOMAIN s : m # i /\ RemoveAt(s, i)[k] = s[m]
<1> DEFINE r == RemoveAt(s, i)
           Was(k) == IF k < i THEN k ELSE k + 1
<1>1. DOMAIN s = 1..Len(s) /\ Len(s) \in Nat
  OBVIOUS
<1>2. /\ r \in Seq(S) /\ Len(r) = Len(s) - 1
      /\ \A k \in 1..(Len(s) - 1) : r[k] = IF k < i THEN s[k] ELSE s[k + 1]
  BY <1>1, RemoveAtOf
<1> HIDE DEF r
<1>3. DOMAIN r = 1..(Len(s) - 1)
  BY <1>2
<1>4. \A k \in DOMAIN r : Was(k) \in DOMAIN s /\ Was(k) # i /\ r[k] = s[Was(k)]
  BY <1>1, <1>2, <1>3
<1>5. \A k, m \in DOMAIN r : Was(k) = Was(m) => k = m
  BY <1>3
<1> HIDE DEF Was
<1>6. KeyedOnce(r)
  BY <1>4, <1>5 DEF KeyedOnce
<1>. QED
  BY <1>2, <1>4, <1>6 DEF r

(* Map.delete, by key. *)
LEMMA DeletedKeeps ==
  ASSUME NEW S, NEW s \in Seq(S), KeyedOnce(s), NEW key
  PROVE  /\ Deleted(s, key) \in Seq(S) /\ KeyedOnce(Deleted(s, key))
         /\ \A k \in DOMAIN Deleted(s, key) :
              \E m \in DOMAIN s : Deleted(s, key)[k] = s[m] /\ Key(s[m]) # key
<1> DEFINE found == {i \in DOMAIN s : Key(s[i]) = key}
           i == CHOOSE i \in found : TRUE
<1>1. CASE found = {}
  <2>1. Deleted(s, key) = s
    BY <1>1 DEF Deleted
  <2>. QED
    BY <1>1, <2>1
<1>2. CASE found # {}
  <2>1. i \in DOMAIN s /\ Key(s[i]) = key
    BY <1>2
  <2>2. Deleted(s, key) = RemoveAt(s, i)
    BY <1>2 DEF Deleted
  <2> HIDE DEF i
  <2>3. \A m \in DOMAIN s : m # i => Key(s[m]) # key
    BY <2>1 DEF KeyedOnce
  <2>. QED
    BY <2>1, <2>2, <2>3, RemoveAtKeeps
<1>. QED
  BY <1>1, <1>2

(* Map.set: the entry of that key is the new one. *)
LEMMA PlacedKeeps ==
  ASSUME NEW S, NEW s \in Seq(S), KeyedOnce(s), NEW c \in S
  PROVE  /\ Placed(s, c) \in Seq(S) /\ KeyedOnce(Placed(s, c))
         /\ \A k \in DOMAIN Placed(s, c) :
              \/ Placed(s, c)[k] = c
              \/ \E m \in DOMAIN s : Placed(s, c)[k] = s[m] /\ Key(s[m]) # Key(c)
<1>1. CASE Has(s, c)
  <2> DEFINE r == [i \in DOMAIN s |-> IF Key(s[i]) = Key(c) THEN c ELSE s[i]]
  <2>1. Placed(s, c) = r
    BY <1>1 DEF Placed
  <2>2. r \in Seq(S)
    BY DOMAIN s = 1..Len(s)
  <2>3. \A k \in DOMAIN r : Key(r[k]) = Key(s[k])
    OBVIOUS
  <2>4. KeyedOnce(r)
    BY <2>3 DEF KeyedOnce
  <2>. QED
    BY <2>1, <2>2, <2>4
<1>2. CASE ~Has(s, c)
  <2> DEFINE r == Append(s, c)
  <2>1. Placed(s, c) = r
    BY <1>2 DEF Placed
  <2>2. /\ r \in Seq(S) /\ DOMAIN r = 1..(Len(s) + 1) /\ DOMAIN s = 1..Len(s)
        /\ \A k \in DOMAIN s : r[k] = s[k]
        /\ r[Len(s) + 1] = c
    BY AppendProperties
  <2> HIDE DEF r
  <2>3. \A k \in DOMAIN s : Key(s[k]) # Key(c)
    BY <1>2 DEF Has
  <2>4. \A k \in DOMAIN r : k = Len(s) + 1 \/ k \in DOMAIN s
    BY <2>2
  <2>5. KeyedOnce(r)
    BY <2>2, <2>3, <2>4 DEF KeyedOnce
  <2>. QED
    BY <2>1, <2>2, <2>3, <2>4, <2>5
<1>. QED
  BY <1>1, <1>2

LEMMA OldestIsThere ==
  ASSUME NEW s \in Seq(Entry), s # <<>>
  PROVE  Oldest(s) \in DOMAIN s
<1> DEFINE ages == {s[i].seen : i \in DOMAIN s}
<1>1. \A i \in DOMAIN s : s[i].seen \in Nat
  <2>1. \A i \in DOMAIN s : s[i] \in Entry
    OBVIOUS
  <2>. QED
    BY <2>1 DEF Entry
<1>2. 1 \in DOMAIN s /\ DOMAIN s \subseteq Nat
  <2>1. DOMAIN s = 1..Len(s) /\ Len(s) \in Nat /\ Len(s) # 0
    BY EmptySeq
  <2>. QED
    BY <2>1
<1>3. ages \in SUBSET Nat /\ ages # {}
  BY <1>1, <1>2
<1>4. PICK low \in ages : \A m \in ages : low <= m
  BY <1>3, LeastOf
<1> DEFINE lows == {i \in DOMAIN s : s[i].seen = low}
<1>5. lows \in SUBSET Nat /\ lows # {}
  BY <1>2, <1>4
<1>6. PICK i \in lows : \A k \in lows : i <= k
  BY <1>5, LeastOf
<1>7. ASSUME NEW k \in DOMAIN s
      PROVE  s[i].seen < s[k].seen \/ (s[i].seen = s[k].seen /\ i <= k)
  <2>1. low <= s[k].seen /\ low \in Nat /\ s[k].seen \in Nat /\ s[i].seen = low
    BY <1>1, <1>4
  <2>2. s[k].seen = low => i <= k
    BY <1>6
  <2>. QED
    BY <2>1, <2>2
<1>8. \E j \in DOMAIN s : \A k \in DOMAIN s :
        s[j].seen < s[k].seen \/ (s[j].seen = s[k].seen /\ j <= k)
  BY <1>6, <1>7
<1>. QED
  BY <1>8, Zenon DEF Oldest

LEMMA CappedKeeps ==
  ASSUME NEW S \in SUBSET Entry, NEW s \in Seq(S), KeyedOnce(s)
  PROVE  /\ Capped(s) \in Seq(S) /\ KeyedOnce(Capped(s))
         /\ \A k \in DOMAIN Capped(s) : \E m \in DOMAIN s : Capped(s)[k] = s[m]
<1>1. CASE OverCap(s)
  <2>1. s # <<>>
    BY <1>1, DiscoveryAssumption DEF OverCap
  <2>2. s \in Seq(Entry)
    OBVIOUS
  <2>3. Oldest(s) \in DOMAIN s
    BY <2>1, <2>2, OldestIsThere
  <2>4. Capped(s) = RemoveAt(s, Oldest(s))
    BY <1>1 DEF Capped
  <2>. QED
    BY <2>3, <2>4, RemoveAtKeeps
<1>2. CASE ~OverCap(s)
  <2>1. Capped(s) = s
    BY <1>2 DEF Capped
  <2>. QED
    BY <2>1
<1>. QED
  BY <1>1, <1>2

-----------------------------------------------------------------------------
(* No endpoint is listed with a device and without.                        *)
ListedOnce(es) ==
  \A i, k \in DOMAIN es :
    es[i].dev = Nobody /\ es[k].dev # Nobody => es[i].at # es[k].at

Wheres == Endpoints \cup {None}

(* The candidates of a state of the aggregator are where their devices     *)
(* were last seen.                                                         *)
CandidatesInv(s) ==
  /\ s.es \in Seq(Entry) /\ KeyedOnce(s.es) /\ ListedOnce(s.es)
  /\ \A i \in DOMAIN s.es : s.es[i].dev # Nobody => s.es[i].at = s.latest[s.es[i].dev]

(* No record of a device is outstanding after the first n.                 *)
NoneAfter(records, n, d) == \A k \in DOMAIN records : k > n => records[k].dev # d

(* The last record of each device is of its last sighting; when none is    *)
(* outstanding, what the nodes of the registry say of it is, too.  The     *)
(* first `made' records are in the registry.                               *)
RecordsInv(s, made, nodes) ==
  /\ s.queued \in [Devices -> Wheres] /\ s.latest \in [Devices -> Wheres]
  /\ \A d \in Devices : s.queued[d] \in {s.latest[d], None}
  /\ s.chain \in Seq(Node) /\ made <= Len(s.chain)
  /\ \A i \in DOMAIN s.chain :
       NoneAfter(s.chain, i, s.chain[i].dev) => s.chain[i].at = s.latest[s.chain[i].dev]
  /\ \A i \in DOMAIN nodes :
       NoneAfter(s.chain, made, nodes[i].dev) => nodes[i].at = s.latest[nodes[i].dev]

(* What queueRecord does: nothing, or one more record.                     *)
LEMMA QueueRecordDoes ==
  ASSUME NEW s, DOMAIN s = {"es", "queued", "chain", "latest"},
         s.queued \in [Devices -> Wheres], NEW c \in Entry, NEW thrifty
  PROVE  /\ QueueRecord(s, c, thrifty).es = s.es /\ QueueRecord(s, c, thrifty).latest = s.latest
         /\ \/ /\ c.dev = Nobody \/ s.queued[c.dev] = c.at
               /\ QueueRecord(s, c, thrifty) = s
            \/ /\ c.dev # Nobody
               /\ QueueRecord(s, c, thrifty).queued = [s.queued EXCEPT ![c.dev] = c.at]
               /\ QueueRecord(s, c, thrifty).chain = Append(s.chain, c)
<1>1. CASE c.dev = Nobody \/ (thrifty /\ SaysNothingNew(s.queued[c.dev], c))
  BY <1>1 DEF QueueRecord, SaysNothingNew
<1>2. CASE ~(c.dev = Nobody \/ (thrifty /\ SaysNothingNew(s.queued[c.dev], c)))
  <2>1. QueueRecord(s, c, thrifty)
          = [s EXCEPT !.queued[c.dev] = c.at, !.chain = Append(@, c)]
    BY <1>2 DEF QueueRecord
  <2>. QED
    BY <1>2, <2>1
<1>. QED
  BY <1>1, <1>2

(* A sighting that moves a device moves its candidate, and queues its      *)
(* record unless the last one queued is of that endpoint already.          *)
LEMMA IngestedKeeps ==
  ASSUME NEW s, CandidatesInv(s), NEW made \in Nat, NEW nodes, RecordsInv(s, made, nodes),
         \A i \in DOMAIN nodes : nodes[i] \in Node,
         NEW c \in Entry, NEW thrifty
  PROVE  /\ CandidatesInv(Ingested(s, c, thrifty))
         /\ RecordsInv(Ingested(s, c, thrifty), made, nodes)
<1> DEFINE t == Ingested(s, c, thrifty)
           merged == Placed(Absorbed(s.es, c), c)
           gone == IF OverCap(merged) THEN {merged[Oldest(merged)].dev} ELSE {}
           queued == [d \in Devices |-> IF d \in gone THEN None ELSE s.queued[d]]
           seen == [d \in Devices |-> IF d = c.dev THEN c.at ELSE s.latest[d]]
           r == [es |-> Capped(merged), queued |-> queued, chain |-> s.chain, latest |-> seen]
<1>1. CASE Stale(s.es, c) \/ Shadowed(s.es, c)
  <2>1. t = s
    BY <1>1 DEF Ingested
  <2>. QED
    BY <2>1
<1>2. CASE ~(Stale(s.es, c) \/ Shadowed(s.es, c))
  <2>1. t = QueueRecord(r, c, thrifty)
    BY <1>2 DEF Ingested
  <2>2. /\ Absorbed(s.es, c) \in Seq(Entry) /\ KeyedOnce(Absorbed(s.es, c))
        /\ \A k \in DOMAIN Absorbed(s.es, c) : \E m \in DOMAIN s.es :
             /\ Absorbed(s.es, c)[k] = s.es[m]
             /\ c.dev # Nobody => Key(s.es[m]) # c.at
    BY DeletedKeeps DEF Absorbed, CandidatesInv
  <2>3. /\ merged \in Seq(Entry) /\ KeyedOnce(merged)
        /\ \A k \in DOMAIN merged :
             \/ merged[k] = c
             \/ \E m \in DOMAIN Absorbed(s.es, c) :
                  merged[k] = Absorbed(s.es, c)[m] /\ Key(merged[k]) # Key(c)
    BY <2>2, PlacedKeeps
  <2> HIDE DEF merged
  <2>4. /\ Capped(merged) \in Seq(Entry) /\ KeyedOnce(Capped(merged))
        /\ \A k \in DOMAIN Capped(merged) : \E m \in DOMAIN merged :
             Capped(merged)[k] = merged[m]
    BY <2>3, CappedKeeps
  <2>5. \A k \in DOMAIN Capped(merged) :
          \/ Capped(merged)[k] = c
          \/ \E m \in DOMAIN s.es :
               /\ Capped(merged)[k] = s.es[m] /\ Key(s.es[m]) # Key(c)
               /\ c.dev # Nobody => Key(s.es[m]) # c.at
    BY <2>2, <2>3, <2>4
  <2> DEFINE es == Capped(merged)
  <2> HIDE DEF es
  <2>6. /\ \A k \in DOMAIN es : es[k] \in Entry
        /\ \A m \in DOMAIN s.es : s.es[m] \in Entry
    BY <2>4 DEF es, CandidatesInv
  <2>7. \A m \in DOMAIN s.es : s.es[m].dev # Nobody /\ c.dev = Nobody => s.es[m].at # c.at
    BY <1>2 DEF Shadowed
  <2>8. ListedOnce(es)
    BY <2>5, <2>6, <2>7 DEF es, ListedOnce, CandidatesInv, Key, Entry
  <2>9. /\ seen \in [Devices -> Wheres] /\ queued \in [Devices -> Wheres]
        /\ \A d \in Devices : d # c.dev => seen[d] = s.latest[d]
        /\ c.dev # Nobody => c.dev \in Devices /\ seen[c.dev] = c.at
        /\ \A d \in Devices : queued[d] \in {s.queued[d], None}
    BY DEF RecordsInv, Wheres, Entry
  <2> HIDE DEF seen, queued
  <2>10. \A k \in DOMAIN es : es[k].dev # Nobody => es[k].at = seen[es[k].dev]
    BY <2>5, <2>6, <2>9 DEF es, CandidatesInv, Key, Entry
  <2>11. /\ t.es = es /\ t.latest = seen
         /\ \/ /\ c.dev = Nobody \/ queued[c.dev] = c.at
               /\ t.queued = queued /\ t.chain = s.chain
            \/ /\ c.dev # Nobody
               /\ t.queued = [queued EXCEPT ![c.dev] = c.at]
               /\ t.chain = Append(s.chain, c)
    <3>1. /\ DOMAIN r = {"es", "queued", "chain", "latest"}
          /\ r.es = es /\ r.queued = queued /\ r.chain = s.chain /\ r.latest = seen
      BY DEF es
    <3>2. r.queued \in [Devices -> Wheres]
      BY <2>9, <3>1
    <3> HIDE DEF r, t
    <3> DEFINE q == QueueRecord(r, c, thrifty)
    <3>3. /\ q.es = r.es /\ q.latest = r.latest
          /\ \/ (c.dev = Nobody \/ r.queued[c.dev] = c.at) /\ q = r
             \/ /\ c.dev # Nobody
                /\ q.queued = [r.queued EXCEPT ![c.dev] = c.at]
                /\ q.chain = Append(r.chain, c)
      BY <3>1, <3>2, QueueRecordDoes
    <3>. QED
      BY <2>1, <3>1, <3>3
  <2> HIDE DEF t
  <2>12. CandidatesInv(t)
    BY <2>4, <2>8, <2>10, <2>11 DEF CandidatesInv, es
  <2>13. RecordsInv(t, made, nodes)
    <3>1. CASE /\ c.dev = Nobody \/ queued[c.dev] = c.at
               /\ t.queued = queued /\ t.chain = s.chain
      <4>1. \A d \in Devices : seen[d] = s.latest[d]
        <5>1. CASE c.dev = Nobody
          BY <5>1, <2>9, DiscoveryAssumption
        <5>2. CASE c.dev # Nobody
          <6>1. queued[c.dev] = c.at /\ c.at # None /\ c.dev \in Devices
            BY <5>2, <3>1, <2>9, DiscoveryAssumption DEF Entry
          <6>2. s.latest[c.dev] = c.at
            BY <6>1, <2>9 DEF RecordsInv
          <6>. QED
            BY <5>2, <6>2, <2>9
        <5>. QED
          BY <5>1, <5>2
      <4>2. \A i \in DOMAIN s.chain : s.chain[i] \in Node /\ s.chain[i].dev \in Devices
        <5>1. \A i \in DOMAIN s.chain : s.chain[i] \in Node
          BY DEF RecordsInv
        <5>. QED
          BY <5>1 DEF Node
      <4>3. \A i \in DOMAIN nodes : nodes[i].dev \in Devices
        BY DEF Node
      <4>. QED
        BY <2>9, <2>11, <3>1, <4>1, <4>2, <4>3 DEF RecordsInv, Wheres
    <3>2. CASE /\ c.dev # Nobody
               /\ t.queued = [queued EXCEPT ![c.dev] = c.at]
               /\ t.chain = Append(s.chain, c)
      <4>1. c \in Node
        BY <3>2 DEF Entry, Node
      <4>2. s.chain \in Seq(Node) /\ made <= Len(s.chain)
        BY DEF RecordsInv
      <4>3. /\ t.chain \in Seq(Node) /\ Len(t.chain) = Len(s.chain) + 1
            /\ DOMAIN t.chain = 1..(Len(s.chain) + 1) /\ DOMAIN s.chain = 1..Len(s.chain)
            /\ Len(s.chain) \in Nat
            /\ \A i \in DOMAIN s.chain : t.chain[i] = s.chain[i]
            /\ t.chain[Len(s.chain) + 1] = c
        BY <3>2, <4>1, <4>2, AppendProperties
      <4>4. \A n \in Nat : \A d : n <= Len(s.chain) /\ NoneAfter(t.chain, n, d) =>
              d # c.dev /\ NoneAfter(s.chain, n, d)
        BY <4>3 DEF NoneAfter
      <4>5. \A i \in DOMAIN t.chain : NoneAfter(t.chain, i, t.chain[i].dev) =>
              t.chain[i].at = t.latest[t.chain[i].dev]
        <5> SUFFICES ASSUME NEW i \in DOMAIN t.chain, NoneAfter(t.chain, i, t.chain[i].dev)
                     PROVE  t.chain[i].at = seen[t.chain[i].dev]
          BY <2>11
        <5>1. CASE i = Len(s.chain) + 1
          BY <5>1, <4>3, <2>9, <3>2
        <5>2. CASE i # Len(s.chain) + 1
          <6>1. i \in DOMAIN s.chain /\ i \in Nat /\ i <= Len(s.chain)
            BY <5>2, <4>3
          <6>2. s.chain[i].dev # c.dev /\ NoneAfter(s.chain, i, s.chain[i].dev)
            BY <4>3, <4>4, <6>1
          <6>3. s.chain[i].dev \in Devices
            <7>1. s.chain[i] \in Node
              BY <4>2, <6>1
            <7>. QED
              BY <7>1 DEF Node
          <6>. QED
            BY <2>9, <4>3, <6>1, <6>2, <6>3 DEF RecordsInv
        <5>. QED
          BY <5>1, <5>2
      <4>6. \A i \in DOMAIN nodes : NoneAfter(t.chain, made, nodes[i].dev) =>
              nodes[i].at = t.latest[nodes[i].dev]
        <5> SUFFICES ASSUME NEW i \in DOMAIN nodes, NoneAfter(t.chain, made, nodes[i].dev)
                     PROVE  nodes[i].at = seen[nodes[i].dev]
          BY <2>11
        <5>1. nodes[i].dev # c.dev /\ NoneAfter(s.chain, made, nodes[i].dev)
          BY <4>2, <4>4
        <5>2. nodes[i].dev \in Devices
          BY DEF Node
        <5>. QED
          BY <2>9, <5>1, <5>2 DEF RecordsInv
      <4>7. /\ t.queued \in [Devices -> Wheres]
            /\ \A d \in Devices : t.queued[d] \in {t.latest[d], None}
        BY <2>9, <2>11, <3>2 DEF RecordsInv, Wheres, Entry
      <4>. QED
        BY <2>9, <2>11, <4>2, <4>3, <4>5, <4>6, <4>7 DEF RecordsInv
    <3>. QED
      BY <2>11, <3>1, <3>2
  <2>. QED
    BY <2>12, <2>13 DEF t
<1>. QED
  BY <1>1, <1>2

(* The statics are ingested one after the other: there is a function that  *)
(* says how far.                                                           *)
LEMMA StaticsInOrder ==
  ASSUME NEW thrifty
  PROVE  \E f : /\ f[0] = Seeded
                /\ \A n \in 1..Len(Statics) :
                     f[n] = Ingested(f[n - 1], StaticCandidates[n], thrifty)
                /\ WithStatics(thrifty) = f[Len(Statics)]
<1> DEFINE N == Len(Statics)
           Step(f, n) == IF n = 0 THEN Seeded ELSE Ingested(f[n - 1], StaticCandidates[n], thrifty)
           UpTo(f, m) == f = [n \in 0..m |-> Step(f, n)]
           after == CHOOSE f : UpTo(f, N)
           Missing == {m \in Nat : \A f : ~UpTo(f, m)}
<1>1. N \in Nat
  BY DiscoveryAssumption
<1>2. WithStatics(thrifty) = after[N]
  BY DEF WithStatics
<1>3. Missing = {}
  <2> SUFFICES ASSUME Missing # {} PROVE FALSE
    OBVIOUS
  <2>1. PICK m \in Missing : \A k \in Missing : m <= k
    BY LeastOf
  <2>2. CASE m = 0
    <3> DEFINE f == [n \in 0..0 |-> Seeded]
    <3>1. UpTo(f, 0)
      OBVIOUS
    <3>. QED
      BY <2>2, <3>1
  <2>3. CASE m # 0
    <3>1. m - 1 \in Nat /\ m - 1 \notin Missing
      BY <2>1, <2>3
    <3>2. PICK g : UpTo(g, m - 1)
      BY <3>1
    <3> DEFINE f == [n \in 0..m |-> IF n = m THEN Step(g, m) ELSE g[n]]
    <3>3. ASSUME NEW n \in 0..m PROVE f[n] = Step(f, n)
      <4>1. CASE n = m
        BY <2>3, <4>1
      <4>2. CASE n # m
        <5>1. n \in 0..(m - 1)
          BY <4>2
        <5>2. f[n] = g[n] /\ g[n] = Step(g, n)
          BY <3>2, <4>2, <5>1
        <5>3. n # 0 => f[n - 1] = g[n - 1]
          BY <5>1
        <5>. QED
          BY <5>2, <5>3
      <4>. QED
        BY <4>1, <4>2
    <3>4. UpTo(f, m)
      BY <3>3
    <3>. QED
      BY <2>1, <3>4
  <2>. QED
    BY <2>2, <2>3
<1>4. UpTo(after, N)
  BY <1>1, <1>3
<1> HIDE DEF after
<1>5. \A n \in 0..N : after[n] = Step(after, n)
  BY <1>4
<1>6. /\ after[0] = Seeded
      /\ \A n \in 1..N : after[n] = Ingested(after[n - 1], StaticCandidates[n], thrifty)
  BY <1>1, <1>5
<1>. QED
  BY <1>2, <1>6

-----------------------------------------------------------------------------
Made == IF recorder = None THEN 0 ELSE 1

(* The registry, its file and the one being written name each device once. *)
ContentsInv ==
  \A es \in {registry, file, temp} : es \in Seq(Node) /\ KeyedOnce(es)

(* The channels come and go with start() and stop(); a record that is      *)
(* being made is still in the chain.                                       *)
LifeInv ==
  /\ clock \in 1..MaxClock
  /\ agg # "stopped" <=> stopping = "no"
  /\ agg = "new" => chain = <<>>
  /\ stopping \in {"chain", "returned"} => ~mdns /\ socket = "closed"
  /\ stopping = "returned" => chain = <<>>

DirectoryInv ==
  /\ ContentsInv
  /\ CandidatesInv(Current)
  /\ RecordsInv(Current, Made, registry)
  /\ LifeInv

LEMMA NodesAreEntries == Node \subseteq Entry
  BY DEF Node, Entry

(* A device's endpoint is its only entry's.                                *)
LEMMA EndpointInOf ==
  ASSUME NEW S \in SUBSET Entry, NEW es \in Seq(S), KeyedOnce(es), NEW d \in Devices
  PROVE  /\ EndpointIn(es, d) \in Wheres
         /\ \A i \in DOMAIN es : es[i].dev = d => EndpointIn(es, d) = es[i].at
         /\ (\A i \in DOMAIN es : es[i].dev # d) => EndpointIn(es, d) = None
<1> DEFINE mine == {e \in ToSet(es) : e.dev = d}
<1>1. ToSet(es) = {es[i] : i \in DOMAIN es}
  BY DEF ToSet
<1>2. \A i \in DOMAIN es : es[i] \in Entry
  OBVIOUS
<1>3. \A i, k \in DOMAIN es : es[i].dev = d /\ es[k].dev = d => i = k
  BY DiscoveryAssumption DEF KeyedOnce, Key
<1>4. CASE mine = {}
  <2>1. EndpointIn(es, d) = None
    BY <1>4 DEF EndpointIn
  <2>2. \A i \in DOMAIN es : es[i].dev # d
    BY <1>1, <1>4
  <2>. QED
    BY <2>1, <2>2 DEF Wheres
<1>5. CASE mine # {}
  <2>1. PICK i \in DOMAIN es : es[i].dev = d
    BY <1>1, <1>5
  <2>2. mine = {es[i]}
    BY <1>1, <1>3, <2>1
  <2>3. EndpointIn(es, d) = es[i].at
    BY <2>2 DEF EndpointIn
  <2>4. es[i].at \in Endpoints
    BY <1>2 DEF Entry
  <2>. QED
    BY <1>3, <2>1, <2>3, <2>4 DEF Wheres
<1>. QED
  BY <1>4, <1>5

(* What start() takes from the registry, no newer than the clock.          *)
LEMMA SeededKeeps ==
  ASSUME DirectoryInv, agg = "new"
  PROVE  CandidatesInv(Seeded) /\ RecordsInv(Seeded, 0, registry)
<1> DEFINE es == [i \in DOMAIN registry |->
                    [registry[i] EXCEPT !.seen = IF @ > clock THEN clock ELSE @]]
           queued == [d \in Devices |-> EndpointIn(registry, d)]
<1>1. /\ Seeded.es = es /\ Seeded.queued = queued
      /\ Seeded.chain = <<>> /\ Seeded.latest = latest
  BY DEF Seeded
<1>2. registry \in Seq(Node) /\ KeyedOnce(registry) /\ clock \in Nat
  BY DEF DirectoryInv, ContentsInv, LifeInv
<1>3. \A i \in DOMAIN registry : registry[i] \in Node
  BY <1>2
<1>4. /\ DOMAIN es = DOMAIN registry
      /\ \A i \in DOMAIN registry :
           /\ es[i].dev = registry[i].dev /\ es[i].at = registry[i].at
           /\ es[i] \in Entry /\ es[i].dev \in Devices
  <2>1. ASSUME NEW i \in DOMAIN registry
        PROVE  /\ es[i].dev = registry[i].dev /\ es[i].at = registry[i].at
               /\ es[i] \in Entry /\ es[i].dev \in Devices
    <3>1. registry[i] \in Node
      BY <1>3
    <3>2. es[i] = [registry[i] EXCEPT !.seen = IF @ > clock THEN clock ELSE @]
      OBVIOUS
    <3>. QED
      BY <1>2, <3>1, <3>2 DEF Node, Entry
  <2>. QED
    BY <2>1
<1>5. es \in Seq(Entry)
  BY <1>2, <1>4, DOMAIN registry = 1..Len(registry), Len(registry) \in Nat
<1> HIDE DEF es
<1>6. KeyedOnce(es)
  BY <1>2, <1>4 DEF KeyedOnce, Key
<1>7. ListedOnce(es)
  BY <1>4, DiscoveryAssumption DEF ListedOnce
<1>8. /\ Made = 0 /\ chain = <<>> /\ latest \in [Devices -> Wheres]
      /\ \A i \in DOMAIN registry : registry[i].at = latest[registry[i].dev]
  <2>1. RecordsInv(Current, Made, registry) /\ chain = <<>>
    BY DEF DirectoryInv, LifeInv
  <2>2. Current.chain = chain /\ Current.latest = latest
    BY DEF Current
  <2>3. Made \in {0, 1} /\ Made <= Len(chain) /\ Len(chain) = 0
    BY <2>1, <2>2 DEF RecordsInv, Made
  <2>4. \A i \in DOMAIN registry : NoneAfter(chain, Made, registry[i].dev)
    BY <2>1 DEF NoneAfter
  <2>. QED
    BY <2>1, <2>2, <2>3, <2>4 DEF RecordsInv
<1>9. queued \in [Devices -> Wheres] /\ \A d \in Devices : queued[d] \in {latest[d], None}
  <2> SUFFICES ASSUME NEW d \in Devices
               PROVE  EndpointIn(registry, d) \in Wheres /\ EndpointIn(registry, d) \in {latest[d], None}
    OBVIOUS
  <2>1. /\ EndpointIn(registry, d) \in Wheres
        /\ \A i \in DOMAIN registry : registry[i].dev = d => EndpointIn(registry, d) = registry[i].at
        /\ (\A i \in DOMAIN registry : registry[i].dev # d) => EndpointIn(registry, d) = None
    BY <1>2, NodesAreEntries, EndpointInOf
  <2>. QED
    BY <1>8, <2>1
<1> HIDE DEF queued
<1>10. CandidatesInv(Seeded)
  BY <1>1, <1>4, <1>5, <1>6, <1>7, <1>8 DEF CandidatesInv
<1>11. RecordsInv(Seeded, 0, registry)
  BY <1>1, <1>8, <1>9, EmptySeq DEF RecordsInv
<1>. QED
  BY <1>10, <1>11

(* Whatever is configured.                                                 *)
LEMMA WithStaticsKeeps ==
  ASSUME DirectoryInv, agg = "new", NEW thrifty
  PROVE  CandidatesInv(WithStatics(thrifty)) /\ RecordsInv(WithStatics(thrifty), 0, registry)
<1>1. PICK f : /\ f[0] = Seeded
               /\ \A n \in 1..Len(Statics) :
                    f[n] = Ingested(f[n - 1], StaticCandidates[n], thrifty)
               /\ WithStatics(thrifty) = f[Len(Statics)]
  BY StaticsInOrder
<1> DEFINE Bad == {n \in 0..Len(Statics) :
                     ~(CandidatesInv(f[n]) /\ RecordsInv(f[n], 0, registry))}
<1>2. Len(Statics) \in Nat /\ DOMAIN Statics = 1..Len(Statics)
  BY DiscoveryAssumption
<1>3. \A i \in DOMAIN registry : registry[i] \in Node
  BY DEF DirectoryInv, ContentsInv
<1>4. clock \in Nat
  BY DEF DirectoryInv, LifeInv
<1>5. \A n \in 1..Len(Statics) : StaticCandidates[n] \in Entry
  <2> SUFFICES ASSUME NEW n \in 1..Len(Statics) PROVE StaticCandidates[n] \in Entry
    OBVIOUS
  <2>1. Statics[n] \in [dev : Devices \cup {Nobody}, at : Endpoints]
    BY DiscoveryAssumption, ElementOfSeq
  <2>2. StaticCandidates[n] = [dev |-> Statics[n].dev, at |-> Statics[n].at, seen |-> clock]
    BY <1>2 DEF StaticCandidates
  <2>. QED
    BY <1>4, <2>1, <2>2 DEF Entry
<1>6. Bad = {}
  <2> SUFFICES ASSUME Bad # {} PROVE FALSE
    OBVIOUS
  <2>1. Bad \in SUBSET Nat
    BY <1>2
  <2>2. PICK n \in Bad : \A k \in Bad : n <= k
    BY <2>1, LeastOf
  <2>3. n # 0
    BY <1>1, <2>2, SeededKeeps
  <2>4. n \in 1..Len(Statics) /\ n - 1 \in 0..Len(Statics) /\ n - 1 \notin Bad
    BY <1>2, <2>2, <2>3
  <2> DEFINE s == f[n - 1]
             c == StaticCandidates[n]
  <2>5. CandidatesInv(s) /\ RecordsInv(s, 0, registry)
    BY <2>4
  <2>6. f[n] = Ingested(s, c, thrifty) /\ c \in Entry
    BY <1>1, <1>5, <2>4
  <2> HIDE DEF s, c
  <2>7. CandidatesInv(Ingested(s, c, thrifty)) /\ RecordsInv(Ingested(s, c, thrifty), 0, registry)
    <3>1. 0 \in Nat /\ CandidatesInv(s) /\ RecordsInv(s, 0, registry) /\ c \in Entry
      BY <2>5, <2>6
    <3>. QED
      BY <1>3, <3>1, IngestedKeeps, Zenon
  <2>. QED
    BY <2>2, <2>6, <2>7
<1>. QED
  BY <1>1, <1>2, <1>6

-----------------------------------------------------------------------------
(* The aggregator becomes what it is said to.                              *)
LEMMA BecomesKeeps ==
  ASSUME NEW t, Becomes(t), CandidatesInv(t), RecordsInv(t, Made, registry),
         UNCHANGED <<recorder, registry>>
  PROVE  CandidatesInv(Current)' /\ RecordsInv(Current, Made, registry)'
<1>1. /\ Current'.es = t.es /\ Current'.queued = t.queued
      /\ Current'.chain = t.chain /\ Current'.latest = t.latest
  BY DEF Current, Becomes
<1>2. Made' = Made
  BY DEF Made
<1> HIDE DEF Current
<1>3. CandidatesInv(Current)'
  BY <1>1 DEF CandidatesInv
<1>4. RecordsInv(Current, Made, registry)'
  BY <1>1, <1>2 DEF RecordsInv
<1>. QED
  BY <1>3, <1>4

(* What the aggregator holds depends on its variables only.                *)
LEMMA CurrentKeeps ==
  ASSUME CandidatesInv(Current), RecordsInv(Current, Made, registry),
         UNCHANGED <<aggVars, recorder, registry>>
  PROVE  CandidatesInv(Current)' /\ RecordsInv(Current, Made, registry)'
<1>1. Current' = Current /\ Made' = Made /\ registry' = registry
  BY DEF Current, Made, aggVars
<1>2. CandidatesInv(Current)'
  BY <1>1 DEF CandidatesInv
<1>3. RecordsInv(Current, Made, registry)'
  BY <1>1 DEF RecordsInv
<1>. QED
  BY <1>2, <1>3

LEMMA StartKeeps ==
  ASSUME DirectoryInv, Start
  PROVE  DirectoryInv'
<1>1. PICK thrifty \in BOOLEAN : Becomes(WithStatics(thrifty))
  BY DEF Start
<1>2. agg = "new" /\ UNCHANGED <<recorder, registry, file, temp, clock, stopping>> /\ agg' = "started"
  BY DEF Start, regVars
<1> DEFINE t == WithStatics(thrifty)
<1>3. CandidatesInv(t) /\ RecordsInv(t, 0, registry)
  BY <1>2, WithStaticsKeeps
<1> HIDE DEF t
<1>4. Made = 0
  BY <1>2, EmptySeq DEF DirectoryInv, LifeInv, RecordsInv, Current, Made
<1>5. CandidatesInv(Current)' /\ RecordsInv(Current, Made, registry)'
  BY <1>1, <1>2, <1>3, <1>4, BecomesKeeps DEF t
<1>6. ContentsInv'
  BY <1>2 DEF DirectoryInv, ContentsInv
<1>7. LifeInv'
  BY <1>2 DEF DirectoryInv, LifeInv
<1>. QED
  BY <1>5, <1>6, <1>7 DEF DirectoryInv

LEMMA SightingKeeps ==
  ASSUME DirectoryInv, NEW d \in Devices, NEW ep \in Places[d],
         Datagram(d, ep) \/ ServiceUp(d, ep)
  PROVE  DirectoryInv'
<1>1. /\ agg = "started" /\ Ingest(d, ep)
      /\ UNCHANGED <<registry, file, temp, agg, stopping, socket, mdns, clock, recorder>>
  BY DEF Datagram, ServiceUp, regVars, lifeVars
<1> DEFINE c == [dev |-> d, at |-> ep, seen |-> clock]
<1>2. PICK thrifty \in BOOLEAN : Becomes(Ingested(Current, c, thrifty))
  BY <1>1 DEF Ingest
<1>3. c \in Entry
  BY DEF DirectoryInv, LifeInv, Entry, Endpoints
<1> HIDE DEF c
<1>4. Made \in Nat /\ \A i \in DOMAIN registry : registry[i] \in Node
  BY DEF Made, DirectoryInv, ContentsInv
<1>5. /\ CandidatesInv(Ingested(Current, c, thrifty))
      /\ RecordsInv(Ingested(Current, c, thrifty), Made, registry)
  BY <1>3, <1>4, IngestedKeeps DEF DirectoryInv
<1>6. CandidatesInv(Current)' /\ RecordsInv(Current, Made, registry)'
  BY <1>1, <1>2, <1>5, BecomesKeeps
<1>7. ContentsInv'
  BY <1>1 DEF DirectoryInv, ContentsInv
<1>8. LifeInv'
  BY <1>1 DEF DirectoryInv, LifeInv
<1>. QED
  BY <1>6, <1>7, <1>8 DEF DirectoryInv

LEMMA LifeKeeps ==
  ASSUME DirectoryInv,
         Bound \/ BindFails \/ Stop \/ StopChannels \/ StopReturns \/ ClockMoves
  PROVE  DirectoryInv'
<1>1. UNCHANGED <<aggVars, recorder, registry, file, temp>>
  BY DEF Bound, BindFails, Stop, StopChannels, StopReturns, ClockMoves, regVars
<1>2. CandidatesInv(Current)' /\ RecordsInv(Current, Made, registry)'
  BY <1>1, CurrentKeeps DEF DirectoryInv
<1>3. ContentsInv'
  BY <1>1 DEF DirectoryInv, ContentsInv
<1>4. LifeInv'
  <2> USE DEF DirectoryInv, LifeInv, aggVars, lifeVars
  <2>1. CASE Bound
    BY <2>1 DEF Bound
  <2>2. CASE BindFails
    BY <2>2 DEF BindFails
  <2>3. CASE Stop
    BY <2>3 DEF Stop
  <2>4. CASE StopChannels
    BY <2>4 DEF StopChannels
  <2>5. CASE StopReturns
    BY <2>5 DEF StopReturns
  <2>6. CASE ClockMoves
    BY <2>6 DEF ClockMoves
  <2>. QED
    BY <2>1, <2>2, <2>3, <2>4, <2>5, <2>6
<1>. QED
  BY <1>2, <1>3, <1>4 DEF DirectoryInv

(* A record replaces what the registry knew of its device, and may evict   *)
(* another.                                                                *)
LEMMA RecordKeeps ==
  ASSUME DirectoryInv, NEW k \in Calls, Record(k)
  PROVE  DirectoryInv'
<1> DEFINE placed == Placed(registry, Head(chain))
<1>1. /\ recorder = None /\ chain # <<>> /\ recorder' = k
      /\ registry' = Capped(placed)
      /\ UNCHANGED <<file, temp, aggVars, lifeVars, clock, mdns>>
  BY DEF Record
<1>2. /\ chain \in Seq(Node) /\ Len(chain) \in Nat \ {0} /\ Head(chain) = chain[1]
      /\ DOMAIN chain = 1..Len(chain) /\ chain[1] \in Node
  <2>1. chain \in Seq(Node)
    BY DEF DirectoryInv, RecordsInv, Current
  <2>2. Len(chain) \in Nat \ {0} /\ DOMAIN chain = 1..Len(chain)
    BY <1>1, <2>1, EmptySeq, LenProperties
  <2>3. Head(chain) = chain[1]
    OBVIOUS
  <2>4. chain[1] \in Node
    BY <2>1, <2>2, ElementOfSeq
  <2>. QED
    BY <2>1, <2>2, <2>3, <2>4
<1>3. /\ placed \in Seq(Node) /\ KeyedOnce(placed)
      /\ \A i \in DOMAIN placed :
           \/ placed[i] = chain[1]
           \/ \E m \in DOMAIN registry : placed[i] = registry[m] /\ Key(registry[m]) # Key(chain[1])
  <2>1. registry \in Seq(Node) /\ KeyedOnce(registry)
    BY DEF DirectoryInv, ContentsInv
  <2>2. placed = Placed(registry, chain[1])
    BY <1>2
  <2> HIDE DEF placed
  <2> DEFINE c == chain[1]
  <2>3. c \in Node
    BY <1>2
  <2> HIDE DEF c
  <2>4. /\ Placed(registry, c) \in Seq(Node) /\ KeyedOnce(Placed(registry, c))
        /\ \A i \in DOMAIN Placed(registry, c) :
             \/ Placed(registry, c)[i] = c
             \/ \E m \in DOMAIN registry :
                  Placed(registry, c)[i] = registry[m] /\ Key(registry[m]) # Key(c)
    BY <2>1, <2>3, PlacedKeeps
  <2>. QED
    BY <2>2, <2>4 DEF c
<1> HIDE DEF placed
<1>4. /\ registry' \in Seq(Node) /\ KeyedOnce(registry')
      /\ \A i \in DOMAIN registry' : \E m \in DOMAIN placed : registry'[i] = placed[m]
  BY <1>1, <1>3, CappedKeeps, NodesAreEntries
<1>5. ContentsInv'
  BY <1>1, <1>4 DEF DirectoryInv, ContentsInv
<1>6. LifeInv'
  BY <1>1 DEF DirectoryInv, LifeInv, aggVars, lifeVars
<1>7. Current' = Current /\ Made = 0 /\ Made' = 1
  BY <1>1, DiscoveryAssumption DEF Current, Made, aggVars
<1>8. CandidatesInv(Current)'
  BY <1>7 DEF DirectoryInv, CandidatesInv
<1>9. ASSUME NEW i \in DOMAIN registry', NoneAfter(chain, 1, registry'[i].dev)
      PROVE  registry'[i].at = latest[registry'[i].dev]
  <2>1. RecordsInv(Current, 0, registry) /\ Current.chain = chain /\ Current.latest = latest
    BY <1>7 DEF DirectoryInv, Current
  <2>2. \/ registry'[i] = chain[1]
        \/ \E m \in DOMAIN registry : registry'[i] = registry[m] /\ Key(registry[m]) # Key(chain[1])
    BY <1>3, <1>4
  <2>3. CASE registry'[i] = chain[1]
    BY <1>2, <1>9, <2>1, <2>3 DEF RecordsInv
  <2>4. ASSUME NEW m \in DOMAIN registry, registry'[i] = registry[m],
               Key(registry[m]) # Key(chain[1])
        PROVE  registry'[i].at = latest[registry'[i].dev]
    <3>1. registry[m] \in Node
      BY DEF DirectoryInv, ContentsInv
    <3>2. registry[m].dev # chain[1].dev
      BY <1>2, <2>4, <3>1, DiscoveryAssumption DEF Key, Node
    <3>3. NoneAfter(chain, 0, registry[m].dev)
      BY <1>2, <1>9, <2>4, <3>2 DEF NoneAfter
    <3>. QED
      BY <2>1, <2>4, <3>3 DEF RecordsInv
  <2>. QED
    BY <2>2, <2>3, <2>4
<1>10. RecordsInv(Current, Made, registry)'
  <2>1. RecordsInv(Current, 0, registry) /\ Current.chain = chain /\ Current.latest = latest
    BY <1>7 DEF DirectoryInv, Current
  <2>. QED
    BY <1>2, <1>7, <1>9, <2>1 DEF RecordsInv
<1>. QED
  BY <1>5, <1>6, <1>8, <1>10 DEF DirectoryInv

(* A record that is made leaves the chain.                                 *)
LEMMA RecordedKeeps ==
  ASSUME DirectoryInv, Recorded
  PROVE  DirectoryInv'
<1>1. /\ recorder # None /\ recorder' = None /\ chain' = Tail(chain)
      /\ UNCHANGED <<registry, file, temp, entries, lastQueued, latest, clock, mdns, lifeVars>>
  BY DEF Recorded, regVars
<1>2. RecordsInv(Current, 1, registry) /\ Made = 1 /\ Made' = 0
  BY <1>1 DEF DirectoryInv, Made
<1>3. /\ Current.es = entries /\ Current.queued = lastQueued
      /\ Current.chain = chain /\ Current.latest = latest
      /\ Current'.es = entries /\ Current'.queued = lastQueued
      /\ Current'.chain = Tail(chain) /\ Current'.latest = latest
  BY <1>1 DEF Current
<1> HIDE DEF Current
<1>4. chain \in Seq(Node) /\ Len(chain) \in Nat \ {0} /\ DOMAIN chain = 1..Len(chain)
  <2>1. chain \in Seq(Node) /\ 1 <= Len(chain)
    BY <1>2, <1>3 DEF RecordsInv
  <2>. QED
    BY <2>1, LenProperties
<1> DEFINE rest == Tail(chain)
<1>5. /\ rest \in Seq(Node) /\ Len(rest) = Len(chain) - 1 /\ DOMAIN rest = 1..(Len(chain) - 1)
      /\ \A i \in 1..(Len(chain) - 1) : rest[i] = chain[i + 1]
  <2>1. chain # <<>>
    BY <1>4, EmptySeq
  <2>. QED
    BY <1>4, <2>1, HeadTailProperties, LenProperties
<1> HIDE DEF rest
<1>6. \A n \in Nat : \A d : NoneAfter(rest, n, d) => NoneAfter(chain, n + 1, d)
  <2> SUFFICES ASSUME NEW n \in Nat, NEW d, NoneAfter(rest, n, d),
                      NEW k \in DOMAIN chain, k > n + 1
               PROVE  chain[k].dev # d
    BY <1>4 DEF NoneAfter
  <2>1. k - 1 \in DOMAIN rest /\ k - 1 > n /\ rest[k - 1] = chain[k]
    BY <1>4, <1>5
  <2>. QED
    BY <2>1 DEF NoneAfter
<1>7. ASSUME NEW i \in DOMAIN rest, NoneAfter(rest, i, rest[i].dev)
      PROVE  rest[i].at = latest[rest[i].dev]
  <2>1. i \in Nat /\ i + 1 \in DOMAIN chain /\ rest[i] = chain[i + 1]
    BY <1>4, <1>5
  <2>2. NoneAfter(chain, i + 1, chain[i + 1].dev)
    BY <1>6, <1>7, <2>1
  <2>. QED
    BY <1>2, <1>3, <2>1, <2>2 DEF RecordsInv
<1>8. ASSUME NEW i \in DOMAIN registry, NoneAfter(rest, 0, registry[i].dev)
      PROVE  registry[i].at = latest[registry[i].dev]
  <2>1. NoneAfter(chain, 1, registry[i].dev)
    <3>1. NoneAfter(chain, 0 + 1, registry[i].dev)
      BY <1>6, <1>8
    <3>. QED
      BY <3>1
  <2>. QED
    BY <1>2, <1>3, <2>1 DEF RecordsInv
<1>9. RecordsInv(Current, Made, registry)'
  BY <1>1, <1>2, <1>3, <1>4, <1>5, <1>7, <1>8 DEF RecordsInv, rest
<1>10. CandidatesInv(Current)'
  BY <1>3 DEF DirectoryInv, CandidatesInv
<1>11. ContentsInv'
  BY <1>1 DEF DirectoryInv, ContentsInv
<1>12. LifeInv'
  <2>1. chain # <<>>
    BY <1>4, EmptySeq
  <2>. QED
    BY <1>1, <2>1 DEF DirectoryInv, LifeInv, lifeVars
<1>. QED
  BY <1>9, <1>10, <1>11, <1>12 DEF DirectoryInv

(* A registry with fewer nodes is no worse.                                *)
LEMMA ForgetKeeps ==
  ASSUME DirectoryInv, NEW k \in Calls, NEW d \in Paired, Forget(k, d)
  PROVE  DirectoryInv'
<1>1. /\ registry' \in {registry, Deleted(registry, d)}
      /\ UNCHANGED <<file, temp, aggVars, recorder, lifeVars, clock, mdns>>
  BY DEF Forget
<1>2. registry \in Seq(Node) /\ KeyedOnce(registry)
  BY DEF DirectoryInv, ContentsInv
<1>3. /\ registry' \in Seq(Node) /\ KeyedOnce(registry')
      /\ \A i \in DOMAIN registry' : \E m \in DOMAIN registry : registry'[i] = registry[m]
  <2>1. CASE registry' = registry
    BY <1>2, <2>1
  <2>2. CASE registry' = Deleted(registry, d)
    BY <1>2, <2>2, DeletedKeeps
  <2>. QED
    BY <1>1, <2>1, <2>2
<1>4. Current' = Current /\ Made' = Made
  BY <1>1 DEF Current, Made, aggVars
<1>5. CandidatesInv(Current)'
  BY <1>4 DEF DirectoryInv, CandidatesInv
<1>6. RecordsInv(Current, Made, registry)'
  BY <1>3, <1>4 DEF DirectoryInv, RecordsInv
<1>7. ContentsInv'
  BY <1>1, <1>3 DEF DirectoryInv, ContentsInv
<1>8. LifeInv'
  BY <1>1 DEF DirectoryInv, LifeInv, lifeVars, aggVars
<1>. QED
  BY <1>5, <1>6, <1>7, <1>8 DEF DirectoryInv

LEMMA WritesKeep ==
  ASSUME DirectoryInv, Snapshot \/ FileReplaced \/ WriteGoesOn
  PROVE  DirectoryInv'
<1>1. UNCHANGED <<registry, aggVars, lifeVars, clock, recorder, mdns>>
  BY DEF Snapshot, FileReplaced, WriteGoesOn
<1>2. file' \in {file, temp} /\ temp' \in {temp, registry, <<>>}
  BY DEF Snapshot, FileReplaced, WriteGoesOn
<1>3. <<>> \in Seq(Node) /\ KeyedOnce(<<>>)
  BY EmptySeq DEF KeyedOnce
<1>4. CandidatesInv(Current)' /\ RecordsInv(Current, Made, registry)'
  BY <1>1, CurrentKeeps DEF DirectoryInv
<1>5. ContentsInv'
  BY <1>1, <1>2, <1>3 DEF DirectoryInv, ContentsInv
<1>6. LifeInv'
  BY <1>1 DEF DirectoryInv, LifeInv, lifeVars, aggVars
<1>. QED
  BY <1>4, <1>5, <1>6 DEF DirectoryInv

(* Empty, with a registry of which the last sightings are those it has.    *)
LEMMA FreshKeeps ==
  ASSUME NEW s, s.es = <<>>, s.chain = <<>>, s.queued = [d \in Devices |-> None],
         s.latest \in [Devices -> Wheres], NEW nodes,
         \A i \in DOMAIN nodes : nodes[i].at = s.latest[nodes[i].dev]
  PROVE  CandidatesInv(s) /\ RecordsInv(s, 0, nodes)
<1>1. CandidatesInv(s)
  BY EmptySeq DEF CandidatesInv, KeyedOnce, ListedOnce
<1>2. RecordsInv(s, 0, nodes)
  BY EmptySeq DEF RecordsInv, Wheres
<1>. QED
  BY <1>1, <1>2

LEMMA RestartKeeps ==
  ASSUME DirectoryInv, DaemonRestarts
  PROVE  DirectoryInv'
<1>1. /\ file' \in {file, temp} /\ registry' = file' /\ temp' = <<>>
      /\ agg' = "new" /\ stopping' = "no" /\ chain' = <<>> /\ recorder' = None
      /\ entries' = <<>> /\ lastQueued' = [d \in Devices |-> None]
      /\ latest' = [d \in Devices |-> EndpointIn(registry', d)]
      /\ clock' = clock
  BY DEF DaemonRestarts
<1>2. <<>> \in Seq(Node) /\ KeyedOnce(<<>>)
  BY EmptySeq DEF KeyedOnce
<1>3. registry' \in Seq(Node) /\ KeyedOnce(registry')
  BY <1>1 DEF DirectoryInv, ContentsInv
<1>4. ContentsInv'
  BY <1>1, <1>2, <1>3 DEF ContentsInv
<1>5. LifeInv'
  BY <1>1 DEF DirectoryInv, LifeInv
<1>6. \A d \in Devices :
        /\ EndpointIn(registry', d) \in Wheres
        /\ \A i \in DOMAIN registry' : registry'[i].dev = d => EndpointIn(registry', d) = registry'[i].at
  BY <1>3, NodesAreEntries, EndpointInOf
<1>7. \A i \in DOMAIN registry' : registry'[i].dev \in Devices
  <2>1. \A i \in DOMAIN registry' : registry'[i] \in Node
    BY <1>3
  <2>. QED
    BY <2>1 DEF Node
<1>8. /\ Current'.es = <<>> /\ Current'.chain = <<>> /\ Current'.queued = [d \in Devices |-> None]
      /\ Current'.latest = latest' /\ Made' = 0
  BY <1>1 DEF Current, Made
<1>9. /\ latest' \in [Devices -> Wheres]
      /\ \A i \in DOMAIN registry' : registry'[i].at = latest'[registry'[i].dev]
  BY <1>1, <1>6, <1>7
<1> DEFINE s == Current'
           nodes == registry'
<1>10. /\ s.es = <<>> /\ s.chain = <<>> /\ s.queued = [d \in Devices |-> None]
       /\ s.latest \in [Devices -> Wheres]
       /\ \A i \in DOMAIN nodes : nodes[i].at = s.latest[nodes[i].dev]
  BY <1>8, <1>9
<1>11. CandidatesInv(Current)' /\ RecordsInv(Current, Made, registry)'
  <2> HIDE DEF s, nodes
  <2>1. CandidatesInv(s) /\ RecordsInv(s, 0, nodes)
    BY <1>10, FreshKeeps
  <2>2. CandidatesInv(Current')
    BY <2>1 DEF s
  <2>3. RecordsInv(Current', Made', registry')
    BY <1>8, <2>1 DEF s, nodes
  <2>. QED
    BY <2>2, <2>3 DEF CandidatesInv, RecordsInv
<1>. QED
  BY <1>4, <1>5, <1>11 DEF DirectoryInv

LEMMA DirectoryInit == DiscoveryInit => DirectoryInv
<1> SUFFICES ASSUME DiscoveryInit PROVE DirectoryInv
  OBVIOUS
<1>1. ContentsInv
  <2>1. registry = <<>> /\ file = <<>> /\ temp = <<>>
    BY DEF DiscoveryInit
  <2>2. <<>> \in Seq(Node) /\ KeyedOnce(<<>>)
    BY EmptySeq DEF KeyedOnce
  <2>. QED
    BY <2>1, <2>2 DEF ContentsInv
<1>2. LifeInv
  BY DiscoveryAssumption DEF DiscoveryInit, LifeInv
<1>3. /\ Current.es = <<>> /\ Current.chain = <<>> /\ Current.queued = [d \in Devices |-> None]
      /\ Current.latest \in [Devices -> Wheres] /\ Made = 0 /\ registry = <<>>
  BY DEF DiscoveryInit, Current, Made, Wheres
<1>4. CandidatesInv(Current) /\ RecordsInv(Current, 0, registry)
  <2>1. \A i \in DOMAIN registry : registry[i].at = Current.latest[registry[i].dev]
    BY <1>3
  <2> HIDE DEF Current
  <2>. QED
    BY <1>3, <2>1, FreshKeeps
<1>. QED
  BY <1>1, <1>2, <1>3, <1>4 DEF DirectoryInv

LEMMA DirectoryStep == DirectoryInv /\ [DiscoveryNext]_allVars => DirectoryInv'
<1> SUFFICES ASSUME DirectoryInv, [DiscoveryNext]_allVars PROVE DirectoryInv'
  OBVIOUS
<1>1. CASE Start
  BY <1>1, StartKeeps
<1>2. CASE Bound \/ BindFails \/ Stop \/ StopChannels \/ StopReturns \/ ClockMoves
  BY <1>2, LifeKeeps
<1>3. ASSUME NEW d \in Devices, NEW ep \in Places[d], Datagram(d, ep) \/ ServiceUp(d, ep)
      PROVE  DirectoryInv'
  BY <1>3, SightingKeeps
<1>4. CASE \E k \in Calls : Record(k)
  BY <1>4, RecordKeeps
<1>5. CASE Recorded
  BY <1>5, RecordedKeeps
<1>6. CASE Snapshot \/ FileReplaced \/ WriteGoesOn
  BY <1>6, WritesKeep
<1>7. ASSUME NEW k \in Calls, NEW d \in Paired, Forget(k, d) PROVE DirectoryInv'
  BY <1>7, ForgetKeeps
<1>8. CASE DaemonRestarts
  BY <1>8, RestartKeeps
<1>9. CASE UNCHANGED allVars
  <2>1. UNCHANGED <<registry, file, temp, aggVars, lifeVars, clock, recorder, mdns>>
    BY <1>9 DEF allVars, regVars
  <2>2. CandidatesInv(Current)' /\ RecordsInv(Current, Made, registry)'
    BY <2>1, CurrentKeeps DEF DirectoryInv
  <2>3. ContentsInv'
    BY <2>1 DEF DirectoryInv, ContentsInv
  <2>4. LifeInv'
    BY <2>1 DEF DirectoryInv, LifeInv, lifeVars, aggVars
  <2>. QED
    BY <2>2, <2>3, <2>4 DEF DirectoryInv
<1>. QED
  BY <1>1, <1>2, <1>3, <1>4, <1>5, <1>6, <1>7, <1>8, <1>9
  DEF DiscoveryNext, Lifecycle, Background

LEMMA DirectoryIsTrue == DirectoryInv => LatestEndpoint /\ StopIsClean
<1> SUFFICES ASSUME DirectoryInv PROVE LatestEndpoint /\ StopIsClean
  OBVIOUS
<1>1. /\ Current.es = entries /\ Current.chain = chain /\ Current.latest = latest
      /\ CandidatesInv(Current) /\ RecordsInv(Current, Made, registry) /\ Made \in {0, 1}
  BY DEF Current, DirectoryInv, Made
<1> HIDE DEF Current
<1>2. NoShadow
  BY <1>1 DEF CandidatesInv, ListedOnce, NoShadow
<1>3. ASSUME chain = <<>>, NEW d \in Devices
      PROVE  EndpointFor(d) \in {latest[d], None}
  <2>1. entries \in Seq(Entry) /\ KeyedOnce(entries) /\ registry \in Seq(Node) /\ KeyedOnce(registry)
    BY <1>1 DEF CandidatesInv, DirectoryInv, ContentsInv
  <2>2. EndpointIn(entries, d) \in {latest[d], None}
    <3>1. /\ \A i \in DOMAIN entries : entries[i].dev = d => EndpointIn(entries, d) = entries[i].at
          /\ (\A i \in DOMAIN entries : entries[i].dev # d) => EndpointIn(entries, d) = None
      BY <2>1, EndpointInOf
    <3>2. \A i \in DOMAIN entries : entries[i].dev = d => entries[i].at = latest[d]
      BY <1>1, DiscoveryAssumption DEF CandidatesInv
    <3>. QED
      BY <3>1, <3>2
  <2>3. EndpointIn(registry, d) \in {latest[d], None}
    <3>1. /\ \A i \in DOMAIN registry : registry[i].dev = d => EndpointIn(registry, d) = registry[i].at
          /\ (\A i \in DOMAIN registry : registry[i].dev # d) => EndpointIn(registry, d) = None
      BY <2>1, NodesAreEntries, EndpointInOf
    <3>2. NoneAfter(chain, Made, d)
      BY <1>3 DEF NoneAfter
    <3>3. \A i \in DOMAIN registry : registry[i].dev = d => registry[i].at = latest[d]
      BY <1>1, <3>2 DEF RecordsInv
    <3>. QED
      BY <3>1, <3>3
  <2>. QED
    BY <2>2, <2>3 DEF EndpointFor
<1>4. StopIsClean
  <2>1. chain = <<>> => recorder = None
    BY <1>1, EmptySeq DEF RecordsInv, Made
  <2>. QED
    BY <2>1 DEF DirectoryInv, LifeInv, StopIsClean
<1>. QED
  BY <1>2, <1>3, <1>4 DEF LatestEndpoint

(* What the aggregator, its chain of records and the registry say of a     *)
(* device agree, however sightings, evictions, records, unpairings and     *)
(* restarts interleave (aggregator.ts ingest, queueRecord, start, stop).   *)
THEOREM DirectoryInductive == DiscoverySpec => []DirectoryInv
  BY DirectoryInit, DirectoryStep, PTL DEF DiscoverySpec

(* "deviceId beats host:port" (aggregator.ts ingest), and with no record   *)
(* outstanding the directory sends a caller where the device was last      *)
(* seen, or nowhere (endpointSourceFromDiscovery), whatever was evicted    *)
(* or not written.                                                         *)
THEOREM EndpointsAreLatest == DiscoverySpec => []LatestEndpoint
  BY DirectoryInductive, DirectoryIsTrue, PTL

(* "no open handles survive" and queued writes land (aggregator.ts stop),  *)
(* whatever start() was doing.                                             *)
THEOREM StopsAreClean == DiscoverySpec => []StopIsClean
  BY DirectoryInductive, DirectoryIsTrue, PTL
=============================================================================
