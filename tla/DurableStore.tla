---------------------------- MODULE DurableStore ----------------------------
(***************************************************************************)
(* What the daemon's JSON stores promise to their callers: a mutation is   *)
(* applied in memory at once, and the promise it returns succeeds only     *)
(* when the file reflects it; the file never goes back to an older         *)
(* content; a restart takes up the file.                                   *)
(*                                                                         *)
(* Contents are numbered: version n is the content after n mutations.      *)
(***************************************************************************)
EXTENDS Naturals

CONSTANTS Calls

VARIABLES
  mem,    \* version in memory
  disk,   \* version in the file
  at,     \* version each call's mutation made, 0 if none or lost
  status  \* what each caller knows

vars == <<mem, disk, at, status>>

Init ==
  /\ mem = 0 /\ disk = 0
  /\ at = [c \in Calls |-> 0]
  /\ status = [c \in Calls |-> "idle"]

Mutate(c) ==
  /\ status[c] = "idle"
  /\ mem' = mem + 1
  /\ at' = [at EXCEPT ![c] = mem + 1]
  /\ status' = [status EXCEPT ![c] = "waiting"]
  /\ UNCHANGED disk

Succeeding(done) == \A c \in done : status[c] = "waiting" /\ at[c] <= disk'
Marked(set, outcome) == [c \in Calls |-> IF c \in set THEN outcome ELSE status[c]]

(* The file moves forward, and callers whose mutation it has may learn it. *)
Save ==
  \E v \in disk..mem, done \in SUBSET Calls :
    /\ disk' = v
    /\ Succeeding(done)
    /\ status' = Marked(done, "saved")
    /\ UNCHANGED <<mem, at>>

Fail ==
  \E failed \in SUBSET {c \in Calls : status[c] = "waiting"} :
    /\ status' = Marked(failed, "failed")
    /\ UNCHANGED <<mem, disk, at>>

(* A call refused before it changed anything. *)
Refuse(c) ==
  /\ status[c] = "idle"
  /\ status' = [status EXCEPT ![c] = "refused"]
  /\ UNCHANGED <<mem, disk, at>>

(* The process dies, having saved any part of what was under way. *)
Restart ==
  \E v \in disk..mem :
    /\ mem' = v /\ disk' = v
    /\ at' = [c \in Calls |-> IF at[c] <= v THEN at[c] ELSE 0]
    /\ status' = Marked({c \in Calls : status[c] = "waiting"}, "lost")

Next ==
  \/ \E c \in Calls : Mutate(c) \/ Refuse(c)
  \/ Save \/ Fail \/ Restart

Spec == Init /\ [][Next]_vars
=============================================================================
