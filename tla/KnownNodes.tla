----------------------------- MODULE KnownNodes -----------------------------
(***************************************************************************)
(* The registry of nodes discovery has seen, known-nodes.ts: record and    *)
(* remove change the map and persist it, and a burst of calls during a     *)
(* write shares one follow-up write.                                       *)
(*                                                                         *)
(* writing is the field of that name: the write in flight or, once that    *)
(* settled and its follow-up was promoted, the follow-up about to start.   *)
(* pending is the follow-up's callers.  The snapshot is taken when         *)
(* writeSnapshot is past its mkdir.  The promotion is queued before the    *)
(* follow-up's start, so it runs first; calls may come between all of      *)
(* these steps.  Entries and their cap are abstracted to versions.         *)
(***************************************************************************)
EXTENDS Naturals

CONSTANTS Calls

VARIABLES mem, disk, at, status, writing, pending

Phases == {"none", "mkdir", "write", "settled", "chained"}
NoWrite == [phase |-> "none", snap |-> 0, callers |-> {}]
NoPending == [set |-> FALSE, callers |-> {}]

store == <<mem, disk, at, status>>
vars == <<store, writing, pending>>

Init ==
  /\ mem = 0 /\ disk = 0
  /\ at = [c \in Calls |-> 0]
  /\ status = [c \in Calls |-> "idle"]
  /\ writing = NoWrite
  /\ pending = NoPending

-----------------------------------------------------------------------------
Persist_SharesInFlight(c) ==
  IF writing.phase = "none"
  THEN /\ writing' = [phase |-> "mkdir", snap |-> 0, callers |-> {c}]
       /\ UNCHANGED pending
  ELSE /\ writing' = [writing EXCEPT !.callers = @ \cup {c}]
       /\ UNCHANGED pending

(* persist: start a write, or join the one follow-up. *)
Persist(c) ==
  IF writing.phase = "none"
  THEN /\ writing' = [phase |-> "mkdir", snap |-> 0, callers |-> {c}]
       /\ UNCHANGED pending
  ELSE /\ pending' = [set |-> TRUE, callers |-> pending.callers \cup {c}]
       /\ UNCHANGED writing

(* record, or remove of a node that is there. *)
Mutate(c) ==
  /\ status[c] = "idle"
  /\ mem' = mem + 1
  /\ at' = [at EXCEPT ![c] = mem + 1]
  /\ status' = [status EXCEPT ![c] = "waiting"]
  /\ Persist(c)
  /\ UNCHANGED disk

(* An invalid entry, or remove of an unknown node: nothing is written. *)
Refuse(c) ==
  /\ status[c] = "idle"
  /\ status' = [status EXCEPT ![c] = "refused"]
  /\ UNCHANGED <<mem, disk, at, writing, pending>>

TakeSnapshot ==
  /\ writing.phase = "mkdir"
  /\ writing' = [writing EXCEPT !.phase = "write", !.snap = mem]
  /\ UNCHANGED <<store, pending>>

Answered(outcome) ==
  status' = [c \in Calls |-> IF c \in writing.callers THEN outcome ELSE status[c]]

Renamed ==
  /\ writing.phase = "write"
  /\ disk' = writing.snap
  /\ Answered("saved")
  /\ writing' = [writing EXCEPT !.phase = "settled", !.callers = {}]
  /\ UNCHANGED <<mem, at, pending>>

WriteFails ==
  /\ writing.phase \in {"mkdir", "write"}
  /\ Answered("failed")
  /\ writing' = [writing EXCEPT !.phase = "settled", !.callers = {}]
  /\ UNCHANGED <<mem, disk, at, pending>>

Promote_Drops ==
  /\ writing.phase = "settled"
  /\ writing' = NoWrite
  /\ pending' = NoPending
  /\ UNCHANGED store

(* runWrite's finally. *)
Promote ==
  /\ writing.phase = "settled"
  /\ writing' = IF pending.set
                THEN [phase |-> "chained", snap |-> 0, callers |-> pending.callers]
                ELSE NoWrite
  /\ pending' = NoPending
  /\ UNCHANGED store

FollowUpStarts ==
  /\ writing.phase = "chained"
  /\ writing' = [writing EXCEPT !.phase = "mkdir"]
  /\ UNCHANGED <<store, pending>>

(* The process dies, leaving the old file or the new, and is started again. *)
Restart ==
  /\ \E version \in {disk} \cup {v \in {writing.snap} : writing.phase = "write"} :
       /\ mem' = version /\ disk' = version
       /\ at' = [c \in Calls |-> IF at[c] <= version THEN at[c] ELSE 0]
  /\ status' = [c \in Calls |-> IF status[c] = "waiting" THEN "lost" ELSE status[c]]
  /\ writing' = NoWrite /\ pending' = NoPending

WriteStep == TakeSnapshot \/ Renamed \/ WriteFails \/ Promote \/ FollowUpStarts

Next ==
  \/ \E c \in Calls : Mutate(c) \/ Refuse(c)
  \/ WriteStep \/ Restart

Spec == Init /\ [][Next]_vars

-----------------------------------------------------------------------------
TypeOK ==
  /\ mem \in Nat /\ disk \in Nat
  /\ at \in [Calls -> Nat]
  /\ status \in [Calls -> {"idle", "waiting", "saved", "failed", "refused", "lost"}]
  /\ writing \in [phase : Phases, snap : Nat, callers : SUBSET Calls]
  /\ pending \in [set : BOOLEAN, callers : SUBSET Calls]

Durable == INSTANCE DurableStore

(* "every returned promise resolves only after a write that reflects this  *)
(* call's mutation", and no write takes the file back                      *)
(* (known-nodes.ts persist).                                               *)
ImplementsDurableStore == Durable!Spec
=============================================================================
