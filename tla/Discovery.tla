----------------------------- MODULE Discovery ------------------------------
(***************************************************************************)
(* How a node knows where its peers are: the aggregator (aggregator.ts)    *)
(* merges its channels, mDNS (mdns.ts), UDP multicast (udp.ts) and the     *)
(* static entries of the configuration, with the registry of known nodes   *)
(* it starts from and records into; the node directory resolves a device   *)
(* to an endpoint from the two (node-directory.ts).                        *)
(*                                                                         *)
(* The registry's writes are those of KnownNodes, whose versions get their *)
(* contents here.  Both maps keep their insertion order, which decides     *)
(* among equally old entries, so they are sequences.                       *)
(*                                                                         *)
(* Sightings are hints: any device may be reported where it is not, over a *)
(* network that authenticates nobody.  The wall clock may be set back.     *)
(* Names and sources are left out: whether a re-sighting at the same       *)
(* endpoint is worth a write is a choice, an endpoint that moved is not.   *)
(***************************************************************************)
EXTENDS KnownNodes, Sequences, SequencesExt

CONSTANTS
  Devices,
  Places,       \* where each device is, at one time or another, reported
  Nobody,       \* the device of an anonymous entry
  Paired,       \* devices the user may unpair
  Statics,      \* the configured nodes in order: [dev, at]
  MaxEntries,   \* MAX_KNOWN_NODES
  MaxClock      \* bound on the clock readings

None == "none"

Endpoints == UNION {Places[d] : d \in Devices} \cup {Statics[i].at : i \in DOMAIN Statics}

(* A device id is the digest of a key, never a host:port. *)
ASSUME DiscoveryAssumption ==
  /\ Nobody \notin Devices
  /\ Statics \in Seq([dev : Devices \cup {Nobody}, at : Endpoints])
  /\ Endpoints \cap (Devices \cup {Nobody, None}) = {}
  /\ MaxEntries \in Nat /\ MaxClock \in Nat \ {0}
  /\ None \notin Calls

VARIABLES
  clock,
  registry,     \* contents of the registry: in memory,
  file,         \* in the file,
  temp,         \* and in the temporary file of the write in progress
  agg,          \* state
  entries,      \* the aggregator's candidates
  lastQueued,   \* per device, the endpoint last queued for the registry
  chain,        \* records that persistChain still has to make
  recorder,     \* the call of the one it is making, if any
  latest,       \* per device, the endpoint of its last accepted sighting
  starting,     \* how far start() is
  stopping,     \* how far stop() is
  socket,       \* the UDP socket
  mdns          \* whether the mDNS channel is up

regVars == <<registry, file, temp>>
aggVars == <<entries, lastQueued, chain, latest>>
lifeVars == <<agg, starting, stopping, socket>>
allVars == <<vars, regVars, aggVars, lifeVars, clock, recorder, mdns>>

DiscoveryInit ==
  /\ Init
  /\ clock = 1
  /\ registry = <<>> /\ file = <<>> /\ temp = <<>>
  /\ agg = "new" /\ starting = "no" /\ stopping = "no"
  /\ socket = "closed"
  /\ entries = <<>> /\ chain = <<>> /\ recorder = None
  /\ lastQueued = [d \in Devices |-> None]
  /\ latest = [d \in Devices |-> None]
  /\ mdns = FALSE

-----------------------------------------------------------------------------
Key(c) == IF c.dev = Nobody THEN c.at ELSE c.dev
Has(es, c) == \E i \in DOMAIN es : Key(es[i]) = Key(c)

EndpointIn(es, d) ==
  LET mine == {e \in ToSet(es) : e.dev = d}
  IN IF mine = {} THEN None ELSE (CHOOSE e \in mine : TRUE).at

(* Map.set: a key keeps its place. *)
Placed(es, c) ==
  IF Has(es, c)
  THEN [i \in DOMAIN es |-> IF Key(es[i]) = Key(c) THEN c ELSE es[i]]
  ELSE Append(es, c)

Oldest(es) ==
  CHOOSE i \in DOMAIN es : \A k \in DOMAIN es :
    es[i].seen < es[k].seen \/ (es[i].seen = es[k].seen /\ i <= k)

OverCap(es) == Len(es) > MaxEntries
Capped(es) == IF OverCap(es) THEN RemoveAt(es, Oldest(es)) ELSE es

Stale(es, c) == \E i \in DOMAIN es : Key(es[i]) = Key(c) /\ c.seen < es[i].seen

(* Map.delete. *)
Deleted(es, key) ==
  LET found == {i \in DOMAIN es : Key(es[i]) = key}
  IN IF found = {} THEN es ELSE RemoveAt(es, CHOOSE i \in found : TRUE)

(* An identified entry strictly carries more than an anonymous sighting. *)
Shadowed(es, c) ==
  /\ c.dev = Nobody
  /\ \E i \in DOMAIN es : es[i].dev # Nobody /\ es[i].at = c.at

(* deviceId beats host:port. *)
Absorbed(es, c) == IF c.dev = Nobody THEN es ELSE Deleted(es, c.at)

SaysNothingNew_Ever(queued, c) == queued # None

(* sameExceptLastSeen, but for the fields left out. *)
SaysNothingNew(queued, c) == queued = c.at

(* evictOldest prunes lastQueued, and only then queueRecord consults it. *)
QueueRecord(s, c, thrifty) ==
  IF c.dev = Nobody \/ (thrifty /\ SaysNothingNew(s.queued[c.dev], c))
  THEN s
  ELSE [s EXCEPT !.queued[c.dev] = c.at, !.chain = Append(@, c)]

(* ingest, on a state [es, queued, chain, latest] of the aggregator. *)
Ingested(s, c, thrifty) ==
  IF Stale(s.es, c) \/ Shadowed(s.es, c) THEN s
  ELSE LET merged == Placed(Absorbed(s.es, c), c)
           gone == IF OverCap(merged) THEN {merged[Oldest(merged)].dev} ELSE {}
       IN QueueRecord(
            [es |-> Capped(merged),
             queued |-> [d \in Devices |-> IF d \in gone THEN None ELSE s.queued[d]],
             chain |-> s.chain,
             latest |-> [d \in Devices |-> IF d = c.dev THEN c.at ELSE s.latest[d]]],
            c, thrifty)

IdleCalls == {k \in Calls : status[k] = "idle"}
Room(s) == Len(s.chain) <= Cardinality(IdleCalls) + (IF recorder = None THEN 0 ELSE 1)

Becomes(s) ==
  /\ Room(s)
  /\ entries' = s.es /\ lastQueued' = s.queued
  /\ chain' = s.chain /\ latest' = s.latest

Current == [es |-> entries, queued |-> lastQueued, chain |-> chain, latest |-> latest]

Ingest(d, ep) ==
  \E thrifty \in BOOLEAN :
    Becomes(Ingested(Current, [dev |-> d, at |-> ep, seen |-> clock], thrifty))

-----------------------------------------------------------------------------
StaticCandidates ==
  [i \in DOMAIN Statics |-> [dev |-> Statics[i].dev, at |-> Statics[i].at, seen |-> clock]]

(* start(), up to the UDP bind: the registry's entries, no newer than the  *)
(* clock, then the static ones, then mDNS publishes and browses.           *)
Seeded ==
  [es |-> [i \in DOMAIN registry |->
             [registry[i] EXCEPT !.seen = IF @ > clock THEN clock ELSE @]],
   queued |-> [d \in Devices |-> EndpointIn(registry, d)],
   chain |-> <<>>,
   latest |-> latest]

(* Ingested one by one, in order. *)
WithStatics(thrifty) ==
  LET after[n \in 0..Len(Statics)] ==
        IF n = 0 THEN Seeded ELSE Ingested(after[n - 1], StaticCandidates[n], thrifty)
  IN after[Len(Statics)]

Start ==
  /\ agg = "new"
  /\ agg' = "started" /\ starting' = "binding"
  /\ \E thrifty \in BOOLEAN : Becomes(WithStatics(thrifty))
  /\ mdns' = TRUE
  /\ UNCHANGED <<vars, regVars, clock, recorder, stopping, socket>>

(* The bind is done.  When a stop() ran meanwhile it had no socket to      *)
(* close: UdpDiscovery.start closes it, or start() itself, at once.        *)
Bound ==
  /\ starting = "binding"
  /\ starting' = "returned"
  /\ socket' = IF agg = "started" THEN "open" ELSE "closed"
  /\ UNCHANGED <<vars, regVars, aggVars, clock, recorder, agg, stopping, mdns>>

(* The bind fails: start() rejects, with everything before it left running. *)
BindFails ==
  /\ starting = "binding"
  /\ starting' = "failed"
  /\ UNCHANGED <<vars, regVars, aggVars, clock, recorder, agg, stopping, socket, mdns>>

Stop ==
  /\ agg # "stopped"
  /\ agg' = "stopped" /\ stopping' = "mdns"
  /\ UNCHANGED <<vars, regVars, aggVars, clock, recorder, starting, socket, mdns>>

(* The publication and the browser are gone; then UdpDiscovery.stop, if    *)
(* start() got as far as making one.                                       *)
StopChannels ==
  /\ stopping = "mdns"
  /\ stopping' = "chain"
  /\ mdns' = FALSE
  /\ socket' = "closed"
  /\ UNCHANGED <<vars, regVars, aggVars, clock, recorder, agg, starting>>

StopReturns_NoWait ==
  /\ stopping = "chain"
  /\ stopping' = "returned"
  /\ UNCHANGED <<vars, regVars, aggVars, clock, recorder, agg, starting, socket, mdns>>

(* stop() waits for persistChain. *)
StopReturns ==
  /\ stopping = "chain" /\ chain = <<>>
  /\ stopping' = "returned"
  /\ UNCHANGED <<vars, regVars, aggVars, clock, recorder, agg, starting, socket, mdns>>

-----------------------------------------------------------------------------
(* A datagram of another node: its host is where it came from. *)
Datagram(d, ep) ==
  /\ socket = "open" /\ agg = "started"
  /\ Ingest(d, ep)
  /\ UNCHANGED <<vars, regVars, lifeVars, clock, recorder, mdns>>

(* handleServiceUp: a peer's service, browsed. *)
ServiceUp(d, ep) ==
  /\ mdns /\ agg = "started"
  /\ Ingest(d, ep)
  /\ UNCHANGED <<vars, regVars, lifeVars, clock, recorder, mdns>>

ClockMoves ==
  /\ clock' \in 1..MaxClock /\ clock' # clock
  /\ UNCHANGED <<vars, regVars, aggVars, lifeVars, recorder, mdns>>

-----------------------------------------------------------------------------
(* persistChain's next record: registry.record(entry). *)
Record(k) ==
  /\ recorder = None /\ chain # <<>>
  /\ Mutate(k)
  /\ registry' = Capped(Placed(registry, Head(chain)))
  /\ recorder' = k
  /\ UNCHANGED <<file, temp, aggVars, lifeVars, clock, mdns>>

(* It settled; a failure is reported and the chain goes on. *)
Recorded ==
  /\ recorder # None /\ status[recorder] # "waiting"
  /\ recorder' = None /\ chain' = Tail(chain)
  /\ UNCHANGED <<vars, regVars, lifeVars, clock, mdns, entries, lastQueued, latest>>

(* unpairPeer's clean-up: registry.remove. *)
Forget(k, d) ==
  /\ Len(chain) < Cardinality(IdleCalls) + (IF recorder = None THEN 0 ELSE 1)
  /\ IF \E i \in DOMAIN registry : registry[i].dev = d
     THEN Mutate(k) /\ registry' = Deleted(registry, d)
     ELSE Refuse(k) /\ UNCHANGED registry
  /\ UNCHANGED <<file, temp, aggVars, lifeVars, clock, recorder, mdns>>

Snapshot ==
  /\ TakeSnapshot
  /\ temp' = registry
  /\ UNCHANGED <<registry, file, aggVars, lifeVars, clock, recorder, mdns>>

FileReplaced ==
  /\ Renamed
  /\ file' = temp /\ temp' = <<>>
  /\ UNCHANGED <<registry, aggVars, lifeVars, clock, recorder, mdns>>

WriteGoesOn ==
  /\ \/ WriteFails /\ temp' = <<>>
     \/ Promote /\ UNCHANGED temp
     \/ FollowUpStarts /\ UNCHANGED temp
  /\ UNCHANGED <<registry, file, aggVars, lifeVars, clock, recorder, mdns>>

DaemonRestarts ==
  /\ agg # "new"
  /\ Restart
  /\ file' = IF mem' = disk THEN file ELSE temp
  /\ registry' = file' /\ temp' = <<>>
  /\ agg' = "new" /\ starting' = "no" /\ stopping' = "no"
  /\ socket' = "closed"
  /\ entries' = <<>> /\ chain' = <<>> /\ recorder' = None
  /\ lastQueued' = [d \in Devices |-> None]
  /\ latest' = [d \in Devices |-> EndpointIn(registry', d)]
  /\ mdns' = FALSE
  /\ UNCHANGED clock

-----------------------------------------------------------------------------
Background == Recorded \/ (\E k \in Calls : Record(k)) \/ Snapshot \/ FileReplaced \/ WriteGoesOn
Lifecycle == Bound \/ StopChannels \/ StopReturns

DiscoveryNext ==
  \/ Start \/ BindFails \/ Stop \/ Lifecycle
  \/ \E d \in Devices : \E ep \in Places[d] : Datagram(d, ep) \/ ServiceUp(d, ep)
  \/ ClockMoves
  \/ Background
  \/ \E k \in Calls, d \in Paired : Forget(k, d)
  \/ DaemonRestarts

DiscoverySpec == DiscoveryInit /\ [][DiscoveryNext]_allVars

(* Fairness: file operations settle, promises that can go on do, and the   *)
(* bind and the teardown of a socket end one way or the other.             *)
FairDiscoverySpec ==
  DiscoverySpec /\ WF_allVars(Background) /\ WF_allVars(Lifecycle \/ BindFails)

-----------------------------------------------------------------------------
(* NodeEndpointSource.endpointFor: live candidates first, then the registry. *)
EndpointFor(d) ==
  IF EndpointIn(entries, d) # None THEN EndpointIn(entries, d)
  ELSE EndpointIn(registry, d)

(* No endpoint is listed twice, once with its device and once without      *)
(* (aggregator.ts: "deviceId beats host:port", an anonymous sighting never *)
(* shadows), however sightings, evictions and moves interleave.            *)
NoShadow ==
  \A i, k \in DOMAIN entries :
    entries[i].dev = Nobody /\ entries[k].dev # Nobody => entries[i].at # entries[k].at

(* With no record outstanding, the directory sends a caller where the      *)
(* device was last seen, or nowhere, though the aggregator evicted it and  *)
(* most re-sightings are not written (write bounding, LAST_SEEN_PERSIST_   *)
(* THRESHOLD_MS, against the fallback of endpointSourceFromDiscovery); at  *)
(* no time does it list one endpoint as two devices.                       *)
LatestEndpoint ==
  /\ NoShadow
  /\ chain = <<>> => \A d \in Devices : EndpointFor(d) \in {latest[d], None}

(* Once start() and stop() have both settled, in whichever order, there is *)
(* no channel and no pending write (aggregator.ts stop: "no open handles   *)
(* survive").                                                              *)
StopIsClean ==
  stopping = "returned" /\ starting # "binding" =>
    socket = "closed" /\ ~mdns /\ chain = <<>> /\ recorder = None

(* stop() returns, though the writes it waits for fail or are joined by    *)
(* an unpair's, unless the process dies first.                             *)
StopReturnsAtLast == (agg = "stopped") ~> (stopping = "returned" \/ agg = "new")
=============================================================================
