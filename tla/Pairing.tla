------------------------------ MODULE Pairing -------------------------------
(***************************************************************************)
(* Who a node trusts: the single-use pairing code (pairing.ts), the trust  *)
(* store behind it (trust-store.ts), and the daemon's outbound pairing and *)
(* unpairing (pairWithPeer and unpairPeer in daemon.ts).                   *)
(*                                                                         *)
(* The store's content is the sequence of the mutations applied to it, log;*)
(* the file holds the prefix of length saved.  Persists run one at a time  *)
(* off persistQueue, each with a snapshot of its own.  Between the change  *)
(* in memory and the settling of its persist everything else may happen.   *)
(*                                                                         *)
(* A code is the number of the pairing window that made it; guesses are    *)
(* window numbers, 0 matching none.  Its expiry is an action.  The caller  *)
(* of a pair request claims the identity its certificate shows.            *)
(***************************************************************************)
EXTENDS Naturals, FiniteSets, Sequences

CONSTANTS
  Devices,
  Calls,        \* pair requests received, outbound pairings and unpairs
  MaxWindows,   \* bound on the pairing windows opened
  MaxFailures   \* MAX_PAIRING_FAILURES

ASSUME PairingAssumption == MaxFailures \in Nat \ {0} /\ MaxWindows \in Nat

VARIABLES
  log,      \* mutations of entries: [call, op, device]
  saved,    \* how many of them trusted-devices.json reflects
  queue,    \* calls waiting for their persist; the head's write runs
  snap,     \* the version the write in progress will leave
  code,     \* the active code
  windows,  \* windows opened
  arg,      \* what each call asked for and, if wrong, of which window
  status    \* how each call stands

storeVars == <<log, saved, queue, snap>>
vars == <<storeVars, code, windows, arg, status>>

NoCode == [window |-> 0, failures |-> 0]
NoSnap == [taken |-> FALSE, version |-> 0]
NoArg == [op |-> "none"]

Holds(entries, d) ==
  \E i \in DOMAIN entries :
    /\ entries[i].op = "add" /\ entries[i].device = d
    /\ \A j \in DOMAIN entries : j > i => entries[j].device # d
Has(d) == Holds(log, d)
OnDisk(d) == Holds(SubSeq(log, 1, saved), d)

Init ==
  /\ log = <<>> /\ saved = 0
  /\ queue = <<>> /\ snap = NoSnap
  /\ code = NoCode /\ windows = 0
  /\ arg = [c \in Calls |-> NoArg]
  /\ status = [c \in Calls |-> "idle"]

Ends(c, outcome) == status' = [status EXCEPT ![c] = outcome]

(* add and remove: memory first, then the persist is queued. *)
Mutates(c, op, d) ==
  /\ log' = Append(log, [call |-> c, op |-> op, device |-> d])
  /\ queue' = Append(queue, c)
  /\ Ends(c, "waiting")
  /\ UNCHANGED <<saved, snap>>

-----------------------------------------------------------------------------
BeginPairing ==
  /\ windows < MaxWindows
  /\ windows' = windows + 1
  /\ code' = [window |-> windows + 1, failures |-> 0]
  /\ UNCHANGED <<storeVars, arg, status>>

(* cancelPairing, or the code expires. *)
CodeLapses ==
  /\ code # NoCode
  /\ code' = NoCode
  /\ UNCHANGED <<storeVars, windows, arg, status>>

PairAsks(c, d, guess, against) ==
  /\ status[c] = "idle"
  /\ arg' = [arg EXCEPT ![c] =
       [op |-> "pair", device |-> d, guess |-> guess, against |-> against]]

PairNoCode(c, d, guess) ==
  /\ code = NoCode
  /\ PairAsks(c, d, guess, 0)
  /\ Ends(c, "refused")
  /\ UNCHANGED <<storeVars, code, windows>>

PairWrongCode(c, d, guess) ==
  /\ code # NoCode /\ guess # code.window
  /\ PairAsks(c, d, guess, code.window)
  /\ code' = IF code.failures + 1 >= MaxFailures
             THEN NoCode ELSE [code EXCEPT !.failures = @ + 1]
  /\ Ends(c, "refused")
  /\ UNCHANGED <<storeVars, windows>>

PairAccepted_ConsumedLate(c, d) ==
  /\ code # NoCode
  /\ PairAsks(c, d, code.window, 0)
  /\ Mutates(c, "add", d)
  /\ UNCHANGED <<code, windows>>

(* The right code: consumed before the store is awaited. *)
PairAccepted(c, d) ==
  /\ code # NoCode
  /\ PairAsks(c, d, code.window, 0)
  /\ code' = NoCode
  /\ Mutates(c, "add", d)
  /\ UNCHANGED windows

(* pairWithPeer: the peer accepted, or did not. *)
ConnectAccepted(c, d) ==
  /\ status[c] = "idle"
  /\ arg' = [arg EXCEPT ![c] = [op |-> "connect", device |-> d]]
  /\ Mutates(c, "add", d)
  /\ UNCHANGED <<code, windows>>

ConnectRefused(c, d) ==
  /\ status[c] = "idle"
  /\ arg' = [arg EXCEPT ![c] = [op |-> "connect", device |-> d]]
  /\ Ends(c, "refused")
  /\ UNCHANGED <<storeVars, code, windows>>

(* unpairPeer: of a trusted device, or the 404. *)
Unpair(c, d) ==
  /\ status[c] = "idle"
  /\ arg' = [arg EXCEPT ![c] = [op |-> "unpair", device |-> d]]
  /\ IF Has(d) THEN Mutates(c, "remove", d)
               ELSE Ends(c, "refused") /\ UNCHANGED storeVars
  /\ UNCHANGED <<code, windows>>

-----------------------------------------------------------------------------
(* writeSnapshot past its mkdir: entries are serialized as they are now. *)
TakeSnapshot ==
  /\ queue # <<>> /\ ~snap.taken
  /\ snap' = [taken |-> TRUE, version |-> Len(log)]
  /\ UNCHANGED <<log, saved, queue, code, windows, arg, status>>

WriteEnds(outcome) ==
  /\ Ends(Head(queue), outcome)
  /\ queue' = Tail(queue)
  /\ snap' = NoSnap
  /\ UNCHANGED <<log, code, windows, arg>>

Renamed_AnswersAll ==
  /\ snap.taken
  /\ saved' = snap.version
  /\ status' = [c \in Calls |-> IF status[c] = "waiting" THEN "saved" ELSE status[c]]
  /\ queue' = <<>>
  /\ snap' = NoSnap
  /\ UNCHANGED <<log, code, windows, arg>>

(* The rename is done and the persist of the queue's head resolves. *)
Renamed ==
  /\ snap.taken
  /\ saved' = snap.version
  /\ WriteEnds("saved")

WriteFails ==
  /\ queue # <<>>
  /\ UNCHANGED saved
  /\ WriteEnds("failed")

(* The process ends, leaving the old file or the new (Renamed, unheard of),*)
(* and the next one loads the file.                                        *)
Restart ==
  /\ \E written \in {saved} \cup (IF snap.taken THEN {snap.version} ELSE {}) :
       saved' = written /\ log' = SubSeq(log, 1, written)
  /\ queue' = <<>> /\ snap' = NoSnap
  /\ code' = NoCode
  /\ status' = [c \in Calls |-> IF status[c] = "waiting" THEN "lost" ELSE status[c]]
  /\ UNCHANGED <<windows, arg>>

-----------------------------------------------------------------------------
WriteStep == TakeSnapshot \/ Renamed \/ WriteFails

Next ==
  \/ BeginPairing \/ CodeLapses
  \/ \E c \in Calls, d \in Devices :
       \/ \E guess \in 0..MaxWindows :
            PairNoCode(c, d, guess) \/ PairWrongCode(c, d, guess)
       \/ PairAccepted(c, d)
       \/ ConnectAccepted(c, d) \/ ConnectRefused(c, d)
       \/ Unpair(c, d)
  \/ WriteStep \/ Restart

Spec == Init /\ [][Next]_vars

-----------------------------------------------------------------------------
Args ==
  [op : {"pair"}, device : Devices, guess : 0..MaxWindows, against : 0..MaxWindows]
    \cup [op : {"connect", "unpair"}, device : Devices] \cup {NoArg}
Entries == [call : Calls, op : {"add", "remove"}, device : Devices]

TypeOK ==
  /\ log \in Seq(Entries) /\ saved \in 0..Len(log)
  /\ queue \in Seq(Calls)
  /\ snap \in [taken : BOOLEAN, version : 0..Len(log)]
  /\ code \in [window : 0..MaxWindows, failures : 0..(MaxFailures - 1)]
  /\ windows \in 0..MaxWindows
  /\ arg \in [Calls -> Args]
  /\ status \in [Calls -> {"idle", "waiting", "saved", "failed", "refused", "lost"}]

PairedWith(c, w) == /\ arg[c].op = "pair" /\ arg[c].guess = w
                    /\ status[c] \in {"waiting", "saved", "failed", "lost"}

Wrong(w) == {c \in Calls : arg[c].op = "pair" /\ arg[c].against = w}

(* A code admits one device, once, although its acceptance waits for the   *)
(* disk while further requests come in: the code is consumed first         *)
(* (pairing.ts handlePairRequest).  It takes at most MaxFailures wrong     *)
(* guesses, and admits nobody after that many (pairing.ts:82).             *)
OneDevicePerCode ==
  /\ TypeOK
  /\ \A w \in 1..MaxWindows :
       /\ \A b, c \in Calls : PairedWith(b, w) /\ PairedWith(c, w) => b = c
       /\ Cardinality(Wrong(w)) <= MaxFailures
       /\ \A c \in Calls : PairedWith(c, w) => Cardinality(Wrong(w)) < MaxFailures

(* Memory and file disagree about a device only while a call on that       *)
(* device has yet to be saved, or was told that it was not: no persist     *)
(* drops what another call changed.                                        *)
DisagreementExplained ==
  \A d \in Devices : Has(d) # OnDisk(d) =>
    \E c \in Calls : /\ arg[c] # NoArg /\ arg[c].device = d
                     /\ status[c] \in {"waiting", "failed"}

Max0(set) == IF set = {} THEN 0 ELSE CHOOSE n \in set : \A k \in set : k <= n
Durable == INSTANCE DurableStore WITH
  mem <- Len(log), disk <- saved,
  at <- [c \in Calls |-> Max0({i \in DOMAIN log : log[i].call = c})]

(* A pairing or unpairing reported done is in the file and survives a      *)
(* restart, and no write takes the file back (trust-store.ts persist).     *)
ImplementsDurableStore == Durable!Spec

=============================================================================
