------------------------------ MODULE PeerProofs ------------------------------
(***************************************************************************)
(* Pairing: one device per code, a bounded number of guesses, and a file   *)
(* that differs from memory only where a call still waits or failed: for   *)
(* any devices, any calls (infinitely many too), any number of windows and *)
(* any limit of failures.                                                  *)
(*                                                                         *)
(* HFP requests (HfpTransport): pins, the gate, bodies and files, for any  *)
(* requests (infinitely many too) and any cap. What the parser makes of a  *)
(* stream is not looked into: it is defined by a fold over its bytes.      *)
(***************************************************************************)
EXTENDS Pairing, HfpTransport, ListLemmas, FiniteSetTheorems, SequenceTheorems, TLAPS

Answers == {"saved", "failed", "lost"}

(* The calls that wait for the disk are in the queue, each once. *)
QueueInv ==
  /\ \A i \in 1..Len(queue) : status[queue[i]] = "waiting"
  /\ \A i, k \in 1..Len(queue) : queue[i] = queue[k] => i = k
  /\ snap.taken => queue # <<>>

(* The active code is that of the last window, admitted nobody and counts  *)
(* its wrong guesses; of a window to come nothing was guessed.             *)
CodeInv ==
  /\ \A c \in Calls : status[c] = "idle" => arg[c] = NoArg
  /\ code = NoCode \/ (code.window = windows /\ windows > 0)
  /\ \A w \in 1..MaxWindows :
       /\ IsFiniteSet(Wrong(w))
       /\ w > windows => Wrong(w) = {}
       /\ \A c \in Calls : PairedWith(c, w) => w <= windows /\ code.window # w
       /\ code.window = w => Cardinality(Wrong(w)) = code.failures
       /\ \A b, c \in Calls : PairedWith(b, w) /\ PairedWith(c, w) => b = c
       /\ Cardinality(Wrong(w)) <= MaxFailures
       /\ \A c \in Calls : PairedWith(c, w) => Cardinality(Wrong(w)) < MaxFailures

IInv == TypeOK /\ QueueInv /\ CodeInv

(* No code has been made yet, and no call admitted. *)
LEMMA InitIInv == Init => IInv
<1> SUFFICES ASSUME Init PROVE IInv
  OBVIOUS
<1>1. TypeOK
  BY PairingAssumption DEF Init, TypeOK, NoSnap, NoCode, NoArg, Args, Entries
<1>2. QueueInv
  BY DEF Init, QueueInv, NoSnap
<1>3. \A w \in 1..MaxWindows : Wrong(w) = {} /\ \A c \in Calls : ~PairedWith(c, w)
  BY DEF Init, Wrong, PairedWith, NoArg
<1>4. \A w \in 1..MaxWindows : IsFiniteSet(Wrong(w)) /\ Cardinality(Wrong(w)) = 0
  BY <1>3, FS_EmptySet
<1>5. /\ code.window = 0 /\ code = NoCode /\ 0 < MaxFailures /\ 0 <= MaxFailures
      /\ \A c \in Calls : arg[c] = NoArg
  BY PairingAssumption DEF Init, NoCode
<1>6. CodeInv
  BY <1>3, <1>4, <1>5 DEF CodeInv
<1>. QED
  BY <1>1, <1>2, <1>6 DEF IInv

(* What pairs nobody and guesses nothing: answers to waiting calls, a code *)
(* that lapses, calls of another kind.                                     *)
Quiet ==
  /\ windows' = windows
  /\ code' \in {code, NoCode}
  /\ \A c \in Calls :
       \/ /\ arg'[c] = arg[c]
          /\ status'[c] = status[c] \/ (status[c] = "waiting" /\ status'[c] \in Answers)
       \/ /\ status[c] = "idle" /\ status'[c] # "idle"
          /\ arg'[c].op = "pair" => status'[c] = "refused" /\ arg'[c].against = 0

(* It leaves the codes' accounts alone. *)
LEMMA CodeKept == IInv /\ Quiet => CodeInv'
<1> SUFFICES ASSUME IInv, Quiet PROVE CodeInv'
  OBVIOUS
<1>1. \A w \in 1..MaxWindows : Wrong(w)' = Wrong(w)
  BY DEF Quiet, IInv, CodeInv, Wrong, NoArg
<1>2. \A w \in 1..MaxWindows, c \in Calls : PairedWith(c, w)' => PairedWith(c, w)
  BY DEF Quiet, IInv, CodeInv, PairedWith, Answers, NoArg
<1>3. \A c \in Calls : status'[c] = "idle" => arg'[c] = NoArg
  BY DEF Quiet, IInv, CodeInv, Answers
<1>4. NoCode.window = 0 /\ windows' = windows /\ code' \in {code, NoCode}
  BY DEF NoCode, Quiet
<1>5. code' = NoCode \/ (code'.window = windows' /\ windows' > 0)
  BY <1>4 DEF IInv, CodeInv
<1>. QED
  BY <1>1, <1>2, <1>3, <1>4, <1>5 DEF IInv, CodeInv

(* A call that waits for its persist joins the queue's end. *)
LEMMA MutatesQueues ==
  ASSUME IInv, NEW c \in Calls, NEW op \in {"add", "remove"}, NEW d \in Devices,
         status[c] = "idle", Mutates(c, op, d)
  PROVE  /\ QueueInv'
         /\ log' \in Seq(Entries) /\ saved' \in 0..Len(log') /\ queue' \in Seq(Calls)
         /\ snap' \in [taken : BOOLEAN, version : 0..Len(log')]
         /\ \A b \in Calls : status'[b] = IF b = c THEN "waiting" ELSE status[b]
<1>1. /\ log \in Seq(Entries) /\ saved \in 0..Len(log) /\ queue \in Seq(Calls)
      /\ snap \in [taken : BOOLEAN, version : 0..Len(log)]
      /\ status \in [Calls -> {"idle", "waiting", "saved", "failed", "refused", "lost"}]
  BY DEF IInv, TypeOK
<1>2. [call |-> c, op |-> op, device |-> d] \in Entries
  BY DEF Entries
<1>3. /\ log' \in Seq(Entries) /\ Len(log') = Len(log) + 1
      /\ queue' \in Seq(Calls) /\ Len(queue') = Len(queue) + 1
      /\ \A i \in 1..Len(queue) : queue'[i] = queue[i]
      /\ queue'[Len(queue) + 1] = c
  BY <1>1, <1>2, AppendProperties DEF Mutates
<1>4. \A b \in Calls : status'[b] = IF b = c THEN "waiting" ELSE status[b]
  BY <1>1 DEF Mutates, Ends
<1>5. Len(queue) \in Nat /\ Len(log) \in Nat
  BY <1>1
<1>6. \A i \in 1..Len(queue) : queue[i] \in Calls /\ queue[i] # c
  BY <1>1 DEF IInv, QueueInv
<1>7. \A i \in 1..Len(queue') : status'[queue'[i]] = "waiting"
  BY <1>3, <1>4, <1>5, <1>6 DEF IInv, QueueInv
<1>8. \A i, k \in 1..Len(queue') : queue'[i] = queue'[k] => i = k
  BY <1>3, <1>5, <1>6 DEF IInv, QueueInv
<1>9. queue' # <<>>
  BY <1>3, <1>5
<1>10. saved' = saved /\ snap' = snap
  BY DEF Mutates
<1>11. saved' \in 0..Len(log') /\ snap' \in [taken : BOOLEAN, version : 0..Len(log')]
  BY <1>1, <1>3, <1>5, <1>10
<1>. QED
  BY <1>3, <1>4, <1>7, <1>8, <1>9, <1>11 DEF QueueInv

(* A call that is refused waits for nothing. *)
LEMMA RefusedQueues ==
  ASSUME IInv, NEW c \in Calls, status[c] = "idle", Ends(c, "refused"), UNCHANGED storeVars
  PROVE  /\ QueueInv'
         /\ log' \in Seq(Entries) /\ saved' \in 0..Len(log') /\ queue' \in Seq(Calls)
         /\ snap' \in [taken : BOOLEAN, version : 0..Len(log')]
         /\ \A b \in Calls : status'[b] = IF b = c THEN "refused" ELSE status[b]
<1>1. /\ queue \in Seq(Calls)
      /\ status \in [Calls -> {"idle", "waiting", "saved", "failed", "refused", "lost"}]
  BY DEF IInv, TypeOK
<1>2. \A b \in Calls : status'[b] = IF b = c THEN "refused" ELSE status[b]
  BY <1>1 DEF Ends
<1>3. \A i \in 1..Len(queue) : queue[i] \in Calls /\ queue[i] # c
  BY <1>1 DEF IInv, QueueInv
<1>. QED
  BY <1>2, <1>3 DEF IInv, TypeOK, QueueInv, storeVars

(* What a call asked for is recorded with it. *)
LEMMA ArgTyped ==
  ASSUME IInv, NEW c \in Calls, NEW r \in Args, arg' = [arg EXCEPT ![c] = r]
  PROVE  arg' \in [Calls -> Args] /\ \A b \in Calls : arg'[b] = IF b = c THEN r ELSE arg[b]
  BY DEF IInv, TypeOK

(* A new window starts its own account, with nothing guessed of it yet. *)
LEMMA BeginPairingStep ==
  ASSUME IInv, BeginPairing PROVE IInv'
<1>1. TypeOK'
  BY PairingAssumption DEF IInv, TypeOK, BeginPairing, storeVars
<1>2. QueueInv'
  BY DEF IInv, QueueInv, BeginPairing, storeVars
<1>3. /\ \A w \in 1..MaxWindows : Wrong(w)' = Wrong(w)
      /\ \A w \in 1..MaxWindows, c \in Calls : PairedWith(c, w)' = PairedWith(c, w)
  BY DEF BeginPairing, Wrong, PairedWith
<1>4. /\ code'.window = windows + 1 /\ code'.failures = 0 /\ windows' = windows + 1
      /\ windows \in Nat
  BY DEF BeginPairing, IInv, TypeOK
<1>5. \A w \in 1..MaxWindows : code'.window = w => Wrong(w) = {}
  BY <1>4 DEF IInv, CodeInv
<1>6. CodeInv'
  BY <1>3, <1>4, <1>5, FS_EmptySet DEF BeginPairing, IInv, CodeInv
<1>. QED
  BY <1>1, <1>2, <1>6 DEF IInv

(* cancelPairing and the expiry of a code only forget it. *)
LEMMA CodeLapsesStep ==
  ASSUME IInv, CodeLapses PROVE IInv'
<1>1. TypeOK'
  BY PairingAssumption DEF IInv, TypeOK, CodeLapses, storeVars, NoCode
<1>2. QueueInv'
  BY DEF IInv, QueueInv, CodeLapses, storeVars
<1>3. code' = NoCode /\ windows' = windows /\ arg' = arg /\ status' = status
  BY DEF CodeLapses
<1>4. CodeInv'
  BY <1>3, CodeKept DEF Quiet
<1>. QED
  BY <1>1, <1>2, <1>4 DEF IInv

(* A wrong guess is counted by the code it was made against, and the last  *)
(* one allowed takes the code away (handlePairRequest).                    *)
LEMMA PairWrongCodeStep ==
  ASSUME IInv, NEW c \in Calls, NEW d \in Devices, NEW guess \in 0..MaxWindows,
         PairWrongCode(c, d, guess)
  PROVE  IInv'
<1> DEFINE r == [op |-> "pair", device |-> d, guess |-> guess, against |-> code.window]
<1>1. /\ status[c] = "idle" /\ code # NoCode /\ arg' = [arg EXCEPT ![c] = r]
      /\ Ends(c, "refused") /\ UNCHANGED storeVars /\ windows' = windows
      /\ code' = IF code.failures + 1 >= MaxFailures
                 THEN NoCode ELSE [code EXCEPT !.failures = @ + 1]
  BY DEF PairWrongCode, PairAsks
<1>0. PICK v \in 1..MaxWindows : v = code.window /\ v = windows
  BY <1>1 DEF IInv, CodeInv, TypeOK
<1>2. v = code.window /\ v = windows /\ code.failures \in 0..(MaxFailures - 1)
  BY <1>0 DEF IInv, TypeOK
<1>3. r \in Args
  BY <1>0 DEF Args
<1>4. arg' \in [Calls -> Args] /\ \A b \in Calls : arg'[b] = IF b = c THEN r ELSE arg[b]
  BY <1>1, <1>3, ArgTyped
<1>5. /\ QueueInv'
      /\ log' \in Seq(Entries) /\ saved' \in 0..Len(log') /\ queue' \in Seq(Calls)
      /\ snap' \in [taken : BOOLEAN, version : 0..Len(log')]
      /\ \A b \in Calls : status'[b] = IF b = c THEN "refused" ELSE status[b]
  BY <1>1, RefusedQueues
<1>6. TypeOK'
  <2>1. code' \in [window : 0..MaxWindows, failures : 0..(MaxFailures - 1)]
    BY <1>1, <1>2, PairingAssumption DEF NoCode, IInv, TypeOK
  <2>2. status' \in [Calls -> {"idle", "waiting", "saved", "failed", "refused", "lost"}]
    BY <1>1 DEF Ends, IInv, TypeOK
  <2>. QED
    BY <1>1, <1>4, <1>5, <2>1, <2>2 DEF IInv, TypeOK
<1>7. r.op = "pair" /\ r.against = v /\ arg[c] = NoArg
  BY <1>1, <1>2 DEF IInv, CodeInv
<1> HIDE DEF r
<1>8. \A w \in 1..MaxWindows : Wrong(w)' = IF w = v THEN Wrong(w) \cup {c} ELSE Wrong(w)
  BY <1>4, <1>7 DEF Wrong, NoArg
<1>9. \A w \in 1..MaxWindows : c \notin Wrong(w)
  BY <1>7 DEF Wrong, NoArg
<1>10. \A w \in 1..MaxWindows, b \in Calls : PairedWith(b, w)' => PairedWith(b, w)
  BY <1>4, <1>5 DEF PairedWith
<1>11. /\ IsFiniteSet(Wrong(v)) /\ Cardinality(Wrong(v)) = code.failures
       /\ \A b \in Calls : ~PairedWith(b, v)
  BY <1>2 DEF IInv, CodeInv
<1>12. /\ IsFiniteSet(Wrong(v)') /\ Cardinality(Wrong(v)') = code.failures + 1
  <2>1. Wrong(v)' = Wrong(v) \cup {c} /\ c \notin Wrong(v)
    BY <1>8, <1>9
  <2>2. /\ IsFiniteSet(Wrong(v) \cup {c})
        /\ Cardinality(Wrong(v) \cup {c}) = Cardinality(Wrong(v)) + 1
    BY <1>11, <2>1, FS_AddElement
  <2>. QED
    BY <1>11, <2>1, <2>2
<1>13. code' = NoCode \/ (code'.window = v /\ code'.failures = code.failures + 1)
  BY <1>1, <1>2 DEF IInv, TypeOK
<1>14. code.failures + 1 <= MaxFailures
  BY <1>2, PairingAssumption
<1>15. \A b \in Calls : status'[b] = "idle" => arg'[b] = NoArg
  BY <1>4, <1>5 DEF IInv, CodeInv
<1>16. NoCode.window = 0
  BY DEF NoCode
<1>17. CodeInv'
  <2> SUFFICES ASSUME NEW w \in 1..MaxWindows
      PROVE  /\ IsFiniteSet(Wrong(w)')
             /\ w > windows' => Wrong(w)' = {}
             /\ \A b \in Calls : PairedWith(b, w)' => w <= windows' /\ code'.window # w
             /\ code'.window = w => Cardinality(Wrong(w)') = code'.failures
             /\ \A a, b \in Calls : PairedWith(a, w)' /\ PairedWith(b, w)' => a = b
             /\ Cardinality(Wrong(w)') <= MaxFailures
             /\ \A b \in Calls : PairedWith(b, w)' => Cardinality(Wrong(w)') < MaxFailures
    BY <1>1, <1>2, <1>13, <1>15 DEF CodeInv
  <2>1. CASE w = v
    BY <1>1, <1>2, <1>10, <1>11, <1>12, <1>13, <1>14, <1>16, <2>1
  <2>2. CASE w # v
    <3>1. Wrong(w)' = Wrong(w) /\ code'.window # w
      BY <1>2, <1>8, <1>13, <1>16, <2>2
    <3>. QED
      BY <1>1, <1>10, <3>1 DEF IInv, CodeInv
  <2>. QED
    BY <2>1, <2>2
<1>. QED
  BY <1>5, <1>6, <1>17 DEF IInv

(* The right code is spent in the step that accepts it, so whoever comes   *)
(* while the store is awaited finds none (handlePairRequest).              *)
LEMMA PairAcceptedStep ==
  ASSUME IInv, NEW c \in Calls, NEW d \in Devices, PairAccepted(c, d)
  PROVE  IInv'
<1> DEFINE r == [op |-> "pair", device |-> d, guess |-> code.window, against |-> 0]
<1>1. /\ status[c] = "idle" /\ code # NoCode /\ arg' = [arg EXCEPT ![c] = r]
      /\ Mutates(c, "add", d) /\ code' = NoCode /\ windows' = windows
  BY DEF PairAccepted, PairAsks
<1>2. PICK v \in 1..MaxWindows : v = code.window /\ v = windows
  BY <1>1 DEF IInv, CodeInv, TypeOK
<1>3. r \in Args
  <2>1. code.window \in 0..MaxWindows /\ 0 \in 0..MaxWindows
    BY <1>2, PairingAssumption
  <2>. QED
    BY <2>1 DEF Args
<1>4. arg' \in [Calls -> Args] /\ \A b \in Calls : arg'[b] = IF b = c THEN r ELSE arg[b]
  BY <1>1, <1>3, ArgTyped
<1>5. /\ QueueInv'
      /\ log' \in Seq(Entries) /\ saved' \in 0..Len(log') /\ queue' \in Seq(Calls)
      /\ snap' \in [taken : BOOLEAN, version : 0..Len(log')]
      /\ \A b \in Calls : status'[b] = IF b = c THEN "waiting" ELSE status[b]
  BY <1>1, MutatesQueues
<1>6. TypeOK'
  <2>1. code' \in [window : 0..MaxWindows, failures : 0..(MaxFailures - 1)]
    BY <1>1, PairingAssumption DEF NoCode
  <2>2. status' \in [Calls -> {"idle", "waiting", "saved", "failed", "refused", "lost"}]
    BY <1>1 DEF Mutates, Ends, IInv, TypeOK
  <2>. QED
    BY <1>1, <1>4, <1>5, <2>1, <2>2 DEF IInv, TypeOK
<1>7. r.op = "pair" /\ r.against = 0 /\ r.guess = v /\ arg[c] = NoArg
  BY <1>1, <1>2 DEF IInv, CodeInv
<1> HIDE DEF r
<1>8. \A w \in 1..MaxWindows : Wrong(w)' = Wrong(w)
  BY <1>4, <1>7 DEF Wrong, NoArg
<1>9. \A w \in 1..MaxWindows, b \in Calls :
        PairedWith(b, w)' => PairedWith(b, w) \/ (b = c /\ w = v)
  BY <1>4, <1>5, <1>7 DEF PairedWith
<1>10. \A b \in Calls : ~PairedWith(b, v)
  BY <1>2 DEF IInv, CodeInv
<1>11. Cardinality(Wrong(v)) < MaxFailures
  <2>1. Cardinality(Wrong(v)) = code.failures
    BY <1>2 DEF IInv, CodeInv
  <2>2. code.failures \in 0..(MaxFailures - 1)
    BY DEF IInv, TypeOK
  <2>. QED
    BY <2>1, <2>2, PairingAssumption
<1>12. \A b \in Calls : status'[b] = "idle" => arg'[b] = NoArg
  BY <1>4, <1>5 DEF IInv, CodeInv
<1>13. NoCode.window = 0
  BY DEF NoCode
<1>14. CodeInv'
  <2> SUFFICES ASSUME NEW w \in 1..MaxWindows
      PROVE  /\ IsFiniteSet(Wrong(w)')
             /\ w > windows' => Wrong(w)' = {}
             /\ \A b \in Calls : PairedWith(b, w)' => w <= windows' /\ code'.window # w
             /\ code'.window = w => Cardinality(Wrong(w)') = code'.failures
             /\ \A a, b \in Calls : PairedWith(a, w)' /\ PairedWith(b, w)' => a = b
             /\ Cardinality(Wrong(w)') <= MaxFailures
             /\ \A b \in Calls : PairedWith(b, w)' => Cardinality(Wrong(w)') < MaxFailures
    BY <1>1, <1>12 DEF CodeInv
  <2>1. Wrong(w)' = Wrong(w) /\ code'.window # w
    BY <1>1, <1>8, <1>13
  <2>2. CASE w = v
    BY <1>1, <1>2, <1>9, <1>10, <1>11, <2>1, <2>2 DEF IInv, CodeInv
  <2>3. CASE w # v
    BY <1>1, <1>9, <2>1, <2>3 DEF IInv, CodeInv
  <2>. QED
    BY <2>2, <2>3
<1>. QED
  BY <1>5, <1>6, <1>14 DEF IInv

(* A call that mutates the store without a code, or that is refused        *)
(* without one: outbound pairing, unpairing, a request no window is open   *)
(* for.                                                                    *)
LEMMA OtherCallStep ==
  ASSUME IInv, NEW c \in Calls, NEW d \in Devices, NEW r \in Args,
         status[c] = "idle", arg' = [arg EXCEPT ![c] = r], code' = code, windows' = windows,
         \/ Ends(c, "refused") /\ UNCHANGED storeVars
         \/ \E op \in {"add", "remove"} : Mutates(c, op, d) /\ r.op # "pair",
         r.op = "pair" => r.against = 0
  PROVE  IInv'
<1>1. arg' \in [Calls -> Args] /\ \A b \in Calls : arg'[b] = IF b = c THEN r ELSE arg[b]
  BY ArgTyped
<1>2. PICK outcome \in {"refused", "waiting"} :
        /\ QueueInv'
        /\ log' \in Seq(Entries) /\ saved' \in 0..Len(log') /\ queue' \in Seq(Calls)
        /\ snap' \in [taken : BOOLEAN, version : 0..Len(log')]
        /\ \A b \in Calls : status'[b] = IF b = c THEN outcome ELSE status[b]
        /\ outcome = "waiting" => r.op # "pair"
        /\ status' = [status EXCEPT ![c] = outcome]
  <2>1. CASE Ends(c, "refused") /\ UNCHANGED storeVars
    BY <2>1, RefusedQueues DEF Ends
  <2>2. ASSUME NEW op \in {"add", "remove"}, Mutates(c, op, d), r.op # "pair"
        PROVE  /\ QueueInv'
               /\ log' \in Seq(Entries) /\ saved' \in 0..Len(log') /\ queue' \in Seq(Calls)
               /\ snap' \in [taken : BOOLEAN, version : 0..Len(log')]
               /\ \A b \in Calls : status'[b] = IF b = c THEN "waiting" ELSE status[b]
               /\ status' = [status EXCEPT ![c] = "waiting"]
    BY <2>2, MutatesQueues DEF Mutates, Ends
  <2>. QED
    BY <2>1, <2>2
<1>3. TypeOK'
  BY <1>1, <1>2 DEF IInv, TypeOK
<1>4. Quiet
  BY <1>1, <1>2 DEF Quiet
<1>5. CodeInv'
  BY <1>4, CodeKept
<1>. QED
  BY <1>2, <1>3, <1>5 DEF IInv

(* The head's persist is answered and leaves the queue (persist,           *)
(* writeSnapshot): its call was waiting, so no refused call is reported    *)
(* as done.                                                                *)
LEMMA WriteEndsStep ==
  ASSUME IInv, queue # <<>>, NEW outcome \in Answers, WriteEnds(outcome),
         saved' \in 0..Len(log)
  PROVE  IInv'
<1>1. /\ queue \in Seq(Calls) /\ Len(queue) \in Nat /\ Len(queue) > 0
      /\ status \in [Calls -> {"idle", "waiting", "saved", "failed", "refused", "lost"}]
  BY DEF IInv, TypeOK
<1>2. /\ queue' \in Seq(Calls) /\ Len(queue') = Len(queue) - 1
      /\ \A i \in 1..Len(queue') : queue'[i] = queue[i + 1]
      /\ Head(queue) = queue[1] /\ queue[1] \in Calls
  BY <1>1, HeadTailProperties DEF WriteEnds
<1>3. \A c \in Calls : status'[c] = IF c = queue[1] THEN outcome ELSE status[c]
  BY <1>1, <1>2 DEF WriteEnds, Ends
<1>4. QueueInv'
  <2>1. \A i \in 1..Len(queue') : i + 1 \in 1..Len(queue) /\ i + 1 # 1 /\ 1 \in 1..Len(queue)
    BY <1>1, <1>2
  <2>2. \A i \in 1..Len(queue') : queue'[i] \in Calls /\ queue'[i] # queue[1]
    BY <1>1, <1>2, <2>1 DEF IInv, QueueInv
  <2>3. \A i \in 1..Len(queue') : status'[queue'[i]] = "waiting"
    BY <1>2, <1>3, <2>1, <2>2 DEF IInv, QueueInv
  <2>4. \A i, k \in 1..Len(queue') : queue'[i] = queue'[k] => i = k
    BY <1>1, <1>2, <2>1 DEF IInv, QueueInv
  <2>5. ~snap'.taken
    BY DEF WriteEnds, NoSnap
  <2>. QED
    BY <2>3, <2>4, <2>5 DEF QueueInv
<1>5. TypeOK'
  <2>1. snap' \in [taken : BOOLEAN, version : 0..Len(log')] /\ log' = log
    BY DEF WriteEnds, NoSnap, IInv, TypeOK
  <2>2. status' \in [Calls -> {"idle", "waiting", "saved", "failed", "refused", "lost"}]
    BY <1>1 DEF WriteEnds, Ends, Answers
  <2>. QED
    BY <1>2, <2>1, <2>2 DEF WriteEnds, IInv, TypeOK
<1>6. status[queue[1]] = "waiting"
  BY <1>1 DEF IInv, QueueInv
<1>7. Quiet
  BY <1>3, <1>6 DEF Quiet, WriteEnds
<1>8. CodeInv'
  BY <1>7, CodeKept
<1>. QED
  BY <1>4, <1>5, <1>8 DEF IInv

(* The snapshot of a write, and its two ends. *)
LEMMA WriteStepKeeps ==
  ASSUME IInv, WriteStep PROVE IInv'
<1>1. CASE TakeSnapshot
  <2>1. TypeOK'
    BY <1>1 DEF IInv, TypeOK, TakeSnapshot
  <2>2. QueueInv'
    BY <1>1 DEF IInv, QueueInv, TakeSnapshot
  <2>3. Quiet
    BY <1>1 DEF Quiet, TakeSnapshot
  <2>. QED
    BY <2>1, <2>2, <2>3, CodeKept DEF IInv
<1>2. CASE Renamed
  BY <1>2, WriteEndsStep DEF Renamed, Answers, IInv, QueueInv, TypeOK
<1>3. CASE WriteFails
  BY <1>3, WriteEndsStep DEF WriteFails, Answers, IInv, TypeOK
<1>. QED
  BY <1>1, <1>2, <1>3 DEF WriteStep

(* A restart loads what the file holds and forgets the code; calls that    *)
(* waited never hear of it.                                                *)
LEMMA RestartStep ==
  ASSUME IInv, Restart PROVE IInv'
<1>1. PICK w \in 0..Len(log) : saved' = w /\ log' = SubSeq(log, 1, w)
  BY DEF Restart, IInv, TypeOK
<1>2. /\ log \in Seq(Entries) /\ Len(log) \in Nat
      /\ status \in [Calls -> {"idle", "waiting", "saved", "failed", "refused", "lost"}]
  BY DEF IInv, TypeOK
<1>3. log' \in Seq(Entries) /\ Len(log') = w
  BY <1>1, <1>2, SubSeqProperties
<1>4. \A c \in Calls : status'[c] = IF status[c] = "waiting" THEN "lost" ELSE status[c]
  BY DEF Restart
<1>5. TypeOK'
  <2>1. snap' \in [taken : BOOLEAN, version : 0..Len(log')] /\ queue' \in Seq(Calls)
    BY <1>1, <1>3 DEF Restart, NoSnap
  <2>2. code' \in [window : 0..MaxWindows, failures : 0..(MaxFailures - 1)]
    BY PairingAssumption DEF Restart, NoCode
  <2>3. status' \in [Calls -> {"idle", "waiting", "saved", "failed", "refused", "lost"}]
    BY <1>2 DEF Restart
  <2>. QED
    BY <1>1, <1>3, <2>1, <2>2, <2>3 DEF Restart, IInv, TypeOK
<1>6. QueueInv'
  BY DEF Restart, QueueInv, NoSnap
<1>7. Quiet
  BY <1>4 DEF Quiet, Restart, Answers
<1>8. CodeInv'
  BY <1>7, CodeKept
<1>. QED
  BY <1>5, <1>6, <1>8 DEF IInv

(* Every step keeps the invariant. *)
LEMMA NextStep == IInv /\ [Next]_vars => IInv'
<1> SUFFICES ASSUME IInv, [Next]_vars PROVE IInv'
  OBVIOUS
<1>1. ASSUME NEW c \in Calls, NEW d \in Devices, NEW guess \in 0..MaxWindows,
             PairNoCode(c, d, guess)
      PROVE  IInv'
  <2>1. [op |-> "pair", device |-> d, guess |-> guess, against |-> 0] \in Args
    BY PairingAssumption DEF Args
  <2>. QED
    BY <1>1, <2>1, OtherCallStep DEF PairNoCode, PairAsks
<1>2. ASSUME NEW c \in Calls, NEW d \in Devices,
             ConnectAccepted(c, d) \/ ConnectRefused(c, d)
      PROVE  IInv'
  <2>1. [op |-> "connect", device |-> d] \in Args
    BY DEF Args
  <2>. QED
    BY <1>2, <2>1, OtherCallStep DEF ConnectAccepted, ConnectRefused
<1>3. ASSUME NEW c \in Calls, NEW d \in Devices, Unpair(c, d)
      PROVE  IInv'
  <2>1. [op |-> "unpair", device |-> d] \in Args
    BY DEF Args
  <2>. QED
    BY <1>3, <2>1, OtherCallStep DEF Unpair
<1>4. CASE UNCHANGED vars
  <2>1. TypeOK' /\ QueueInv'
    BY <1>4 DEF IInv, TypeOK, QueueInv, vars, storeVars
  <2>2. Quiet
    BY <1>4 DEF Quiet, vars
  <2>. QED
    BY <2>1, <2>2, CodeKept DEF IInv
<1>. QED
  BY <1>1, <1>2, <1>3, <1>4, BeginPairingStep, CodeLapsesStep, PairWrongCodeStep,
     PairAcceptedStep, WriteStepKeeps, RestartStep DEF Next

(* A pairing code admits one device once and takes at most MaxFailures     *)
(* wrong guesses, whatever requests come in while its acceptance waits for *)
(* the disk, however writes end and whenever the daemon restarts           *)
(* (pairing.ts handlePairRequest).                                         *)
THEOREM CodesAdmitOne == Spec => []OneDevicePerCode
<1>1. IInv => OneDevicePerCode
  BY DEF IInv, CodeInv, OneDevicePerCode
<1>. QED
  BY <1>1, InitIInv, NextStep, PTL DEF Spec

-----------------------------------------------------------------------------
(* What the file lacks belongs to calls that wait or failed, and the write *)
(* in progress will hold what the call it answers changed.                 *)
LogInv ==
  /\ \A i \in 1..Len(log) :
       /\ arg[log[i].call] # NoArg
       /\ arg[log[i].call].device = log[i].device
  /\ \A i \in 1..Len(log) :
       i > saved => status[log[i].call] \in {"waiting", "failed"}
  /\ snap.taken =>
       /\ snap.version >= saved
       /\ \A i \in 1..Len(log) : i > snap.version => log[i].call # queue[1]

(* Every entry names the call that made it. *)
LEMMA EntryCalls == IInv => \A i \in 1..Len(log) : log[i].call \in Calls
<1> SUFFICES ASSUME IInv, NEW i \in 1..Len(log) PROVE log[i].call \in Calls
  OBVIOUS
<1>1. log \in Seq(Entries)
  BY DEF IInv, TypeOK
<1>2. log[i] \in Entries
  BY <1>1, ElementOfSeq
<1>. QED
  BY <1>2 DEF Entries

(* A mutation goes to the end of the log, for a call that waits from now on. *)
LEMMA MutatesLogs ==
  ASSUME IInv, LogInv, NEW c \in Calls, NEW op \in {"add", "remove"}, NEW d \in Devices,
         status[c] = "idle", Mutates(c, op, d),
         NEW r, r # NoArg, r.device = d, arg' = [arg EXCEPT ![c] = r]
  PROVE  LogInv'
<1> DEFINE e == [call |-> c, op |-> op, device |-> d]
<1>1. /\ log \in Seq(Entries) /\ saved \in 0..Len(log) /\ queue \in Seq(Calls)
      /\ snap \in [taken : BOOLEAN, version : 0..Len(log)]
      /\ status \in [Calls -> {"idle", "waiting", "saved", "failed", "refused", "lost"}]
      /\ arg \in [Calls -> Args]
  BY DEF IInv, TypeOK
<1>2. e \in Entries /\ e.call = c /\ e.device = d
  BY DEF Entries
<1>3. log' = Append(log, e) /\ queue' = Append(queue, c) /\ saved' = saved /\ snap' = snap
  BY DEF Mutates
<1> HIDE DEF e
<1>4. /\ Len(log') = Len(log) + 1 /\ Len(log) \in Nat /\ log'[Len(log) + 1] = e
      /\ \A i \in 1..Len(log) : log'[i] = log[i] /\ log[i].call \in Calls
  BY <1>1, <1>2, <1>3, AppendProperties, EntryCalls
<1>5. /\ \A b \in Calls : status'[b] = IF b = c THEN "waiting" ELSE status[b]
      /\ \A b \in Calls : arg'[b] = IF b = c THEN r ELSE arg[b]
  BY <1>1 DEF Mutates, Ends
<1>6. \A i \in 1..Len(log) : log[i].call # c
  BY <1>4 DEF LogInv, IInv, CodeInv
<1>7. snap.taken => queue'[1] = queue[1] /\ queue[1] # c
  BY <1>1, <1>3 DEF IInv, QueueInv
<1>8. \A i \in 1..Len(log') : i \in 1..Len(log) \/ (i = Len(log) + 1 /\ log'[i].call = c)
  BY <1>2, <1>4
<1>9. \A i \in 1..Len(log') : /\ arg'[log'[i].call] # NoArg
                              /\ arg'[log'[i].call].device = log'[i].device
  <2> SUFFICES ASSUME NEW i \in 1..Len(log')
               PROVE  arg'[log'[i].call] # NoArg /\ arg'[log'[i].call].device = log'[i].device
    OBVIOUS
  <2>1. CASE i \in 1..Len(log)
    BY <1>4, <1>5, <1>6, <2>1 DEF LogInv
  <2>2. CASE i = Len(log) + 1
    BY <1>2, <1>4, <1>5, <2>2
  <2>. QED
    BY <1>8, <2>1, <2>2
<1>10. \A i \in 1..Len(log') : i > saved => status'[log'[i].call] \in {"waiting", "failed"}
  BY <1>4, <1>5, <1>6, <1>8 DEF LogInv
<1>11. snap.taken =>
         /\ snap.version >= saved
         /\ \A i \in 1..Len(log') : i > snap.version => log'[i].call # queue'[1]
  BY <1>4, <1>7, <1>8 DEF LogInv
<1>. QED
  BY <1>3, <1>9, <1>10, <1>11 DEF LogInv

(* A call that is refused changes nothing of the store. *)
LEMMA RefusedLogs ==
  ASSUME IInv, LogInv, NEW c \in Calls, status[c] = "idle", Ends(c, "refused"),
         UNCHANGED storeVars, NEW r, arg' = [arg EXCEPT ![c] = r]
  PROVE  LogInv'
<1>1. /\ log \in Seq(Entries)
      /\ status \in [Calls -> {"idle", "waiting", "saved", "failed", "refused", "lost"}]
      /\ arg \in [Calls -> Args]
  BY DEF IInv, TypeOK
<1>2. \A i \in 1..Len(log) : log[i].call \in Calls
  BY EntryCalls
<1>3. \A i \in 1..Len(log) : log[i].call # c
  BY <1>2 DEF LogInv, IInv, CodeInv
<1>4. \A b \in Calls : b # c => status'[b] = status[b] /\ arg'[b] = arg[b]
  BY <1>1 DEF Ends
<1>. QED
  BY <1>2, <1>3, <1>4 DEF LogInv, storeVars

(* The requests, and the calls of the daemon's own. *)
LEMMA CallLogs ==
  ASSUME IInv, LogInv, NEW c \in Calls, NEW d \in Devices, NEW guess \in 0..MaxWindows,
         \/ PairNoCode(c, d, guess) \/ PairWrongCode(c, d, guess) \/ PairAccepted(c, d)
         \/ ConnectAccepted(c, d) \/ ConnectRefused(c, d) \/ Unpair(c, d)
  PROVE  LogInv'
<1>1. CASE PairNoCode(c, d, guess)
  BY <1>1, RefusedLogs DEF PairNoCode, PairAsks
<1>2. CASE PairWrongCode(c, d, guess)
  BY <1>2, RefusedLogs DEF PairWrongCode, PairAsks
<1>3. CASE PairAccepted(c, d)
  <2> DEFINE r == [op |-> "pair", device |-> d, guess |-> code.window, against |-> 0]
  <2>1. r # NoArg /\ r.device = d
    BY DEF NoArg
  <2>2. /\ status[c] = "idle" /\ arg' = [arg EXCEPT ![c] = r] /\ Mutates(c, "add", d)
    BY <1>3 DEF PairAccepted, PairAsks
  <2> HIDE DEF r
  <2>. QED
    BY <2>1, <2>2, MutatesLogs
<1>4. CASE ConnectAccepted(c, d)
  <2>1. [op |-> "connect", device |-> d] # NoArg
    BY DEF NoArg
  <2>. QED
    BY <1>4, <2>1, MutatesLogs DEF ConnectAccepted
<1>5. CASE ConnectRefused(c, d)
  BY <1>5, RefusedLogs DEF ConnectRefused
<1>6. CASE Unpair(c, d) /\ Has(d)
  <2>1. [op |-> "unpair", device |-> d] # NoArg
    BY DEF NoArg
  <2>. QED
    BY <1>6, <2>1, MutatesLogs DEF Unpair
<1>7. CASE Unpair(c, d) /\ ~Has(d)
  BY <1>7, RefusedLogs DEF Unpair
<1>. QED
  BY <1>1, <1>2, <1>3, <1>4, <1>5, <1>6, <1>7

(* The write that ends answers its head, whose mutation the snapshot held. *)
LEMMA WriteLogs ==
  ASSUME IInv, LogInv, WriteStep PROVE LogInv'
<1>1. /\ log \in Seq(Entries) /\ saved \in 0..Len(log) /\ queue \in Seq(Calls)
      /\ Len(log) \in Nat /\ snap \in [taken : BOOLEAN, version : 0..Len(log)]
      /\ status \in [Calls -> {"idle", "waiting", "saved", "failed", "refused", "lost"}]
      /\ \A i \in 1..Len(log) : log[i].call \in Calls
  BY EntryCalls DEF IInv, TypeOK
<1>2. CASE TakeSnapshot
  <2>1. /\ snap'.version = Len(log) /\ Len(log) >= saved
        /\ UNCHANGED <<log, saved, queue, arg, status>>
    BY <1>1, <1>2 DEF TakeSnapshot
  <2>. QED
    BY <1>1, <2>1 DEF LogInv
<1>3. ASSUME queue # <<>>, NEW outcome \in {"saved", "failed"}, WriteEnds(outcome)
      PROVE  /\ ~snap'.taken /\ UNCHANGED <<log, arg>>
             /\ \A i \in 1..Len(log) :
                  status'[log[i].call] =
                    IF log[i].call = queue[1] THEN outcome ELSE status[log[i].call]
  <2>1. Head(queue) = queue[1]
    BY <1>1, <1>3
  <2>. QED
    BY <1>1, <1>3, <2>1 DEF WriteEnds, Ends, NoSnap
<1>4. CASE Renamed
  <2>1. queue # <<>> /\ WriteEnds("saved") /\ saved' = snap.version /\ snap.taken
    BY <1>4 DEF Renamed, IInv, QueueInv
  <2>2. /\ ~snap'.taken /\ UNCHANGED <<log, arg>>
        /\ \A i \in 1..Len(log) :
             status'[log[i].call] =
               IF log[i].call = queue[1] THEN "saved" ELSE status[log[i].call]
    BY <1>3, <2>1
  <2>3. /\ snap.version >= saved /\ snap.version \in Nat /\ saved \in Nat
        /\ \A i \in 1..Len(log) : i > snap.version => log[i].call # queue[1]
    BY <1>1, <2>1 DEF LogInv
  <2>4. \A i \in 1..Len(log) : i > saved' => status'[log[i].call] \in {"waiting", "failed"}
    BY <2>1, <2>2, <2>3 DEF LogInv
  <2>. QED
    BY <2>2, <2>4 DEF LogInv
<1>5. CASE WriteFails
  BY <1>3, <1>5 DEF WriteFails, LogInv
<1>. QED
  BY <1>2, <1>4, <1>5 DEF WriteStep

(* A restart leaves nothing that the file lacks. *)
LEMMA RestartLogs ==
  ASSUME IInv, LogInv, Restart PROVE LogInv'
<1>1. PICK w \in 0..Len(log) : saved' = w /\ log' = SubSeq(log, 1, w)
  BY DEF Restart, IInv, TypeOK
<1>2. log \in Seq(Entries) /\ Len(log) \in Nat
  BY DEF IInv, TypeOK
<1>3. Len(log') = w /\ \A i \in 1..w : log'[i] = log[i] /\ i \in 1..Len(log)
  BY <1>1, <1>2, SubSeqProperties
<1>4. ~snap'.taken /\ arg' = arg
  BY DEF Restart, NoSnap
<1>. QED
  BY <1>1, <1>3, <1>4 DEF LogInv

(* Every step keeps what the log says. *)
LEMMA LogStep == IInv /\ LogInv /\ [Next]_vars => LogInv'
<1> SUFFICES ASSUME IInv, LogInv, [Next]_vars PROVE LogInv'
  OBVIOUS
<1>1. CASE BeginPairing \/ CodeLapses \/ UNCHANGED vars
  BY <1>1 DEF BeginPairing, CodeLapses, vars, storeVars, LogInv
<1>2. 0 \in 0..MaxWindows
  BY PairingAssumption
<1>. QED
  BY <1>1, <1>2, CallLogs, WriteLogs, RestartLogs DEF Next

(* Where no entry past the file's is about a device, both say the same.    *)
LEMMA SameWithoutEntries ==
  ASSUME IInv, NEW d \in Devices,
         \A i \in 1..Len(log) : i > saved => log[i].device # d
  PROVE  Has(d) = OnDisk(d)
<1> DEFINE file == SubSeq(log, 1, saved)
<1>1. log \in Seq(Entries) /\ saved \in 0..Len(log) /\ Len(log) \in Nat
  BY DEF IInv, TypeOK
<1>2. /\ Len(file) = saved /\ file \in Seq(Entries)
      /\ \A i \in 1..saved : file[i] = log[i] /\ i \in 1..Len(log)
  BY <1>1, SubSeqProperties
<1>3. DOMAIN log = 1..Len(log) /\ DOMAIN file = 1..saved
  BY <1>1, <1>2
<1> HIDE DEF file
<1>4. Holds(log, d) => Holds(file, d)
  BY <1>1, <1>2, <1>3 DEF Holds
<1>5. Holds(file, d) => Holds(log, d)
  <2> SUFFICES ASSUME Holds(file, d) PROVE Holds(log, d)
    OBVIOUS
  <2>1. PICK i \in 1..saved :
          /\ file[i].op = "add" /\ file[i].device = d
          /\ \A j \in 1..saved : j > i => file[j].device # d
    BY <1>3 DEF Holds
  <2>2. \A j \in 1..Len(log) : j > i => log[j].device # d
    BY <1>1, <1>2, <2>1
  <2>3. i \in 1..Len(log) /\ log[i].op = "add" /\ log[i].device = d
    BY <1>2, <2>1
  <2>. QED
    BY <1>3, <2>2, <2>3 DEF Holds
<1>. QED
  BY <1>4, <1>5 DEF Has, OnDisk, file, Holds

(* Memory and file disagree about a device only while a call on it waits,  *)
(* or after one was told that its write failed: no persist loses what      *)
(* another call changed (trust-store.ts persist).                          *)
THEOREM FileLagsOnlyForCalls == Spec => []DisagreementExplained
<1>1. Init => LogInv
  BY DEF Init, LogInv, NoSnap
<1>2. IInv /\ LogInv => DisagreementExplained
  <2> SUFFICES ASSUME IInv, LogInv, NEW d \in Devices, Has(d) # OnDisk(d)
               PROVE  \E c \in Calls : /\ arg[c] # NoArg /\ arg[c].device = d
                                       /\ status[c] \in {"waiting", "failed"}
    BY DEF DisagreementExplained
  <2>1. PICK i \in 1..Len(log) : i > saved /\ log[i].device = d
    BY SameWithoutEntries
  <2>2. log[i].call \in Calls
    BY <2>1, EntryCalls
  <2>. QED
    BY <2>1, <2>2 DEF LogInv
<1>. QED
  BY <1>1, <1>2, InitIInv, NextStep, LogStep, PTL DEF Spec

-----------------------------------------------------------------------------
(* The version a call's mutation made, and that a call makes one at most.  *)
MadeBy(l, c) == Max0({i \in DOMAIN l : l[i].call = c})
Once(l) == \A i, k \in 1..Len(l) : l[i].call = l[k].call => i = k

(* What a call made is its one entry's place, or nothing. *)
LEMMA MadeByPlace ==
  ASSUME NEW l \in Seq(Entries), Once(l), NEW c
  PROVE  /\ \A i \in 1..Len(l) : l[i].call = c => MadeBy(l, c) = i
         /\ (\A i \in 1..Len(l) : l[i].call # c) => MadeBy(l, c) = 0
<1>1. DOMAIN l = 1..Len(l) /\ Len(l) \in Nat
  OBVIOUS
<1>2. ASSUME NEW i \in 1..Len(l), l[i].call = c PROVE MadeBy(l, c) = i
  <2>1. {k \in DOMAIN l : l[k].call = c} = {i}
    BY <1>1, <1>2 DEF Once
  <2>2. Max0({i}) = i
    <3>1. \E n \in {i} : \A k \in {i} : k <= n
      BY <1>1, <1>2
    <3>. QED
      BY <3>1 DEF Max0
  <2>. QED
    BY <2>1, <2>2 DEF MadeBy
<1>3. ASSUME \A i \in 1..Len(l) : l[i].call # c PROVE MadeBy(l, c) = 0
  <2>1. {k \in DOMAIN l : l[k].call = c} = {}
    BY <1>1, <1>3
  <2>. QED
    BY <2>1 DEF MadeBy, Max0
<1>. QED
  BY <1>2, <1>3

(* A mutation makes the next version, for its call alone. *)
LEMMA MutationMakes ==
  ASSUME IInv, LogInv, Once(log), NEW c \in Calls, NEW op \in {"add", "remove"},
         NEW d \in Devices, status[c] = "idle", Mutates(c, op, d)
  PROVE  /\ Once(log') /\ Len(log') = Len(log) + 1
         /\ \A b \in Calls : MadeBy(log', b) = IF b = c THEN Len(log) + 1 ELSE MadeBy(log, b)
<1> DEFINE e == [call |-> c, op |-> op, device |-> d]
<1>0. log \in Seq(Entries)
  BY DEF IInv, TypeOK
<1>1. log \in Seq(Entries) /\ e \in Entries /\ e.call = c /\ log' = Append(log, e)
  BY DEF IInv, TypeOK, Entries, Mutates
<1> HIDE DEF e
<1>2. /\ log' \in Seq(Entries) /\ Len(log') = Len(log) + 1 /\ Len(log) \in Nat
      /\ \A i \in 1..Len(log) : log'[i] = log[i]
      /\ log'[Len(log) + 1] = e
  BY <1>1, AppendProperties
<1>3. \A i \in 1..Len(log) : log[i].call # c
  BY EntryCalls DEF LogInv, IInv, CodeInv
<1>4. \A i \in 1..Len(log') : i \in 1..Len(log) \/ i = Len(log) + 1
  BY <1>2
<1>5. Once(log')
  BY <1>1, <1>2, <1>3, <1>4 DEF Once
<1>6. ASSUME NEW b \in Calls, b # c PROVE MadeBy(log', b) = MadeBy(log, b)
  <2>1. CASE \E i \in 1..Len(log) : log[i].call = b
    <3>1. PICK i \in 1..Len(log) : log[i].call = b
      BY <2>1
    <3>2. i \in 1..Len(log') /\ log'[i].call = b
      BY <1>2, <3>1
    <3>3. MadeBy(log, b) = i
      BY <1>0, <3>1, MadeByPlace
    <3>4. MadeBy(log', b) = i
      BY <1>2, <1>5, <3>2, MadeByPlace
    <3>. QED
      BY <3>3, <3>4
  <2>2. CASE \A i \in 1..Len(log) : log[i].call # b
    <3>1. \A i \in 1..Len(log') : log'[i].call # b
      BY <1>1, <1>2, <1>4, <1>6, <2>2
    <3>2. MadeBy(log, b) = 0
      BY <1>0, <2>2, MadeByPlace
    <3>3. MadeBy(log', b) = 0
      BY <1>2, <1>5, <3>1, MadeByPlace
    <3>. QED
      BY <3>2, <3>3
  <2>. QED
    BY <2>1, <2>2
<1>7. MadeBy(log', c) = Len(log) + 1
  <2>1. Len(log) + 1 \in 1..Len(log') /\ log'[Len(log) + 1].call = c
    BY <1>1, <1>2
  <2>. QED
    BY <1>2, <1>5, <2>1, MadeByPlace
<1>. QED
  BY <1>2, <1>5, <1>6, <1>7

(* What a restart cuts off is what no call made any more. *)
LEMMA RestartUnmakes ==
  ASSUME IInv, Once(log), NEW w \in 0..Len(log), log' = SubSeq(log, 1, w)
  PROVE  /\ Once(log') /\ Len(log') = w
         /\ \A b \in Calls :
              MadeBy(log', b) = IF MadeBy(log, b) <= w THEN MadeBy(log, b) ELSE 0
<1>1. log \in Seq(Entries) /\ Len(log) \in Nat
  BY DEF IInv, TypeOK
<1>2. /\ log' \in Seq(Entries) /\ Len(log') = w
      /\ \A i \in 1..w : log'[i] = log[i] /\ i \in 1..Len(log)
  BY <1>1, SubSeqProperties
<1>3. Once(log')
  BY <1>2 DEF Once
<1>4. ASSUME NEW b \in Calls
      PROVE  MadeBy(log', b) = IF MadeBy(log, b) <= w THEN MadeBy(log, b) ELSE 0
  <2>1. CASE \E i \in 1..Len(log) : log[i].call = b
    <3>1. PICK i \in 1..Len(log) : log[i].call = b
      BY <2>1
    <3>2. MadeBy(log, b) = i
      BY <1>1, <3>1, MadeByPlace
    <3>3. CASE i <= w
      <4>1. i \in 1..Len(log') /\ log'[i].call = b
        BY <1>2, <3>1, <3>3
      <4>. QED
        BY <1>2, <1>3, <3>2, <3>3, <4>1, MadeByPlace
    <3>4. CASE ~(i <= w)
      <4>1. \A k \in 1..Len(log') : log'[k].call # b
        BY <1>1, <1>2, <3>1, <3>4 DEF Once
      <4>. QED
        BY <1>2, <1>3, <3>2, <3>4, <4>1, MadeByPlace
    <3>. QED
      BY <3>3, <3>4
  <2>2. CASE \A i \in 1..Len(log) : log[i].call # b
    <3>1. \A i \in 1..Len(log') : log'[i].call # b
      BY <1>2, <2>2
    <3>2. MadeBy(log, b) = 0 /\ MadeBy(log', b) = 0
      BY <1>1, <1>2, <1>3, <2>2, <3>1, MadeByPlace
    <3>. QED
      BY <3>2
  <2>. QED
    BY <2>1, <2>2
<1>. QED
  BY <1>2, <1>3, <1>4

(* The mapped variables of the abstract store. *)
At == [b \in Calls |-> MadeBy(log, b)]
StoreSame == UNCHANGED <<log, saved, status>>
OneEntryEach == Once(log)

(* A call that mutates mutates the store; a refused one does not. *)
LEMMA CallIsDurable ==
  ASSUME IInv, LogInv, Once(log), NEW c \in Calls, NEW d \in Devices, status[c] = "idle",
         \/ \E op \in {"add", "remove"} : Mutates(c, op, d)
         \/ Ends(c, "refused") /\ UNCHANGED storeVars
  PROVE  Durable!Next /\ Once(log')
<1>1. ASSUME NEW op \in {"add", "remove"}, Mutates(c, op, d)
      PROVE  Durable!Mutate(c) /\ Once(log')
  <2>1. /\ Once(log') /\ Len(log') = Len(log) + 1
        /\ \A b \in Calls :
             MadeBy(log', b) = IF b = c THEN Len(log) + 1 ELSE MadeBy(log, b)
    BY <1>1, MutationMakes
  <2>2. At' = [At EXCEPT ![c] = Len(log) + 1]
    BY <2>1 DEF At
  <2>3. status' = [status EXCEPT ![c] = "waiting"] /\ saved' = saved
    BY <1>1 DEF Mutates, Ends
  <2>. QED
    BY <2>1, <2>2, <2>3 DEF Durable!Mutate, At, MadeBy
<1>2. CASE Ends(c, "refused") /\ UNCHANGED storeVars
  BY <1>2 DEF Durable!Next, Durable!Refuse, Ends, storeVars
<1>. QED
  BY <1>1, <1>2 DEF Durable!Next

(* A write's step is a step of the abstract file, or none. *)
LEMMA WriteIsDurable ==
  ASSUME IInv, LogInv, Once(log), WriteStep
  PROVE  (Durable!Next \/ StoreSame) /\ Once(log')
<1>1. CASE TakeSnapshot
  BY <1>1 DEF TakeSnapshot, StoreSame
<1>2. /\ queue \in Seq(Calls) /\ Len(log) \in Nat /\ log \in Seq(Entries)
      /\ snap.version \in 0..Len(log) /\ saved \in 0..Len(log)
      /\ status \in [Calls -> {"idle", "waiting", "saved", "failed", "refused", "lost"}]
  BY DEF IInv, TypeOK
<1>3. ASSUME queue # <<>>
      PROVE  Head(queue) \in Calls /\ status[Head(queue)] = "waiting" /\ Head(queue) = queue[1]
  BY <1>2, <1>3 DEF IInv, QueueInv
<1>4. CASE Renamed
  <2>1. queue # <<>> /\ snap.taken
    BY <1>4 DEF Renamed, IInv, QueueInv
  <2>2. PICK h \in Calls : h = Head(queue)
    BY <1>3, <2>1
  <2>3. /\ saved' = snap.version /\ log' = log
        /\ status' = [status EXCEPT ![h] = "saved"]
    BY <1>4, <2>2 DEF Renamed, WriteEnds, Ends
  <2>4. status[h] = "waiting" /\ h = queue[1]
    BY <1>3, <2>1, <2>2
  <2>5. At[h] <= saved'
    <3>1. snap.version \in Nat /\ \A i \in 1..Len(log) : log[i].call = h => i <= snap.version
      BY <1>2, <2>1, <2>4 DEF LogInv
    <3>2. MadeBy(log, h) = 0 \/ \E i \in 1..Len(log) : log[i].call = h /\ MadeBy(log, h) = i
      BY <1>2, MadeByPlace
    <3>. QED
      BY <2>3, <3>1, <3>2 DEF At
  <2>6. snap.version \in saved..Len(log)
    BY <1>2, <2>1 DEF LogInv
  <2>7. Durable!Succeeding({h}) /\ status' = Durable!Marked({h}, "saved")
    BY <1>2, <2>3, <2>4, <2>5 DEF Durable!Succeeding, Durable!Marked, At, MadeBy
  <2>8. At' = At
    BY <2>3 DEF At
  <2>9. Durable!Save
    BY <2>3, <2>6, <2>7, <2>8 DEF Durable!Save, At, MadeBy
  <2>. QED
    BY <2>3, <2>9 DEF Durable!Next
<1>5. CASE WriteFails
  <2>1. PICK h \in Calls : h = Head(queue) /\ status[h] = "waiting"
    BY <1>3, <1>5 DEF WriteFails
  <2>2. /\ saved' = saved /\ log' = log
        /\ status' = [status EXCEPT ![h] = "failed"]
    BY <1>5, <2>1 DEF WriteFails, WriteEnds, Ends
  <2>3. /\ {h} \in SUBSET {c \in Calls : status[c] = "waiting"}
        /\ status' = Durable!Marked({h}, "failed")
    BY <1>2, <2>1, <2>2 DEF Durable!Marked
  <2>4. At' = At
    BY <2>2 DEF At
  <2>5. Durable!Fail
    BY <2>2, <2>3, <2>4 DEF Durable!Fail, At, MadeBy
  <2>. QED
    BY <2>2, <2>5 DEF Durable!Next
<1>. QED
  BY <1>1, <1>4, <1>5 DEF WriteStep

(* A restart takes up what the file holds. *)
LEMMA RestartIsDurable ==
  ASSUME IInv, LogInv, Once(log), Restart
  PROVE  Durable!Restart /\ Once(log')
<1>1. PICK w \in saved..Len(log) : saved' = w /\ log' = SubSeq(log, 1, w)
  <2>1. PICK w \in {saved} \cup (IF snap.taken THEN {snap.version} ELSE {}) :
          saved' = w /\ log' = SubSeq(log, 1, w)
    BY DEF Restart
  <2>2. saved \in 0..Len(log) /\ snap.version \in 0..Len(log) /\ Len(log) \in Nat
    BY DEF IInv, TypeOK
  <2>3. w \in saved..Len(log)
    BY <2>2 DEF LogInv
  <2>. QED
    BY <2>1, <2>3
<1>2. w \in 0..Len(log)
  BY <1>1 DEF IInv, TypeOK
<1>3. /\ Once(log') /\ Len(log') = w
      /\ \A b \in Calls : MadeBy(log', b) = IF MadeBy(log, b) <= w THEN MadeBy(log, b) ELSE 0
  BY <1>1, <1>2, RestartUnmakes
<1>4. At' = [b \in Calls |-> IF At[b] <= w THEN At[b] ELSE 0]
  BY <1>3 DEF At
<1>5. status' = Durable!Marked({c \in Calls : status[c] = "waiting"}, "lost")
  BY DEF Restart, Durable!Marked
<1>. QED
  BY <1>1, <1>3, <1>4, <1>5 DEF Durable!Restart, At, MadeBy

(* Every step is one of the abstract store's, or leaves it alone. *)
LEMMA DurableStep ==
  IInv /\ LogInv /\ OneEntryEach /\ [Next]_vars
    => [Durable!Next]_(Durable!vars) /\ OneEntryEach'
<1> SUFFICES ASSUME IInv, LogInv, Once(log), [Next]_vars
             PROVE  (Durable!Next \/ StoreSame) /\ Once(log')
  BY DEF OneEntryEach, StoreSame, Durable!vars
<1>1. CASE BeginPairing \/ CodeLapses \/ UNCHANGED vars
  BY <1>1 DEF BeginPairing, CodeLapses, vars, storeVars, StoreSame
<1>2. ASSUME NEW c \in Calls, NEW d \in Devices, NEW guess \in 0..MaxWindows,
             \/ PairNoCode(c, d, guess) \/ PairWrongCode(c, d, guess) \/ PairAccepted(c, d)
             \/ ConnectAccepted(c, d) \/ ConnectRefused(c, d) \/ Unpair(c, d)
      PROVE  Durable!Next /\ Once(log')
  <2>1. /\ status[c] = "idle"
        /\ \/ \E op \in {"add", "remove"} : Mutates(c, op, d)
           \/ Ends(c, "refused") /\ UNCHANGED storeVars
    BY <1>2 DEF PairNoCode, PairWrongCode, PairAccepted, PairAsks, ConnectAccepted,
                ConnectRefused, Unpair
  <2>. QED
    BY <2>1, CallIsDurable
<1>3. CASE Restart
  BY <1>3, RestartIsDurable DEF Durable!Next
<1>4. 0 \in 0..MaxWindows
  BY PairingAssumption
<1>. QED
  BY <1>1, <1>2, <1>3, <1>4, WriteIsDurable DEF Next

(* A pairing or unpairing reported done is in the file and survives a      *)
(* restart, and no write takes the file back, however many calls, failing  *)
(* writes and restarts there are (trust-store.ts persist).                 *)
THEOREM PairingIsDurable == Spec => ImplementsDurableStore
<1>1. Init => LogInv /\ OneEntryEach /\ Durable!Init
  <2> SUFFICES ASSUME Init PROVE LogInv /\ OneEntryEach /\ Durable!Init
    OBVIOUS
  <2>1. log = <<>> /\ Len(log) = 0 /\ DOMAIN log = {}
    BY DEF Init
  <2>2. LogInv /\ OneEntryEach
    BY <2>1 DEF OneEntryEach, Init, LogInv, Once, NoSnap
  <2>3. \A b \in Calls : MadeBy(log, b) = 0
    BY <2>1 DEF MadeBy, Max0
  <2>. QED
    BY <2>1, <2>2, <2>3 DEF Init, Durable!Init, MadeBy
<1>. QED
  BY <1>1, InitIInv, NextStep, LogStep, DurableStep, PTL
  DEF Spec, ImplementsDurableStore, Durable!Spec

-----------------------------------------------------------------------------
(***************************************************************************)
(* HFP requests. The gate reads the trust store before the body is awaited *)
(* and the cancellation of unpairPeer comes after the store changed, so    *)
(* what bounds the work left is where each request is (WorkInv); the rest  *)
(* is the order in which the client pins, sends, opens its file and cleans *)
(* up (ClientInv) and the server gates, reads and handles (ServerInv).     *)
(***************************************************************************)
Fields == {"kind", "server", "size", "at", "sock", "sent", "srv", "gate", "got",
           "temp", "reply", "moved", "file", "cause", "sse", "wire"}

IsExchange(q) ==
  /\ DOMAIN q = Fields
  /\ q.kind \in Kinds /\ q.server \in {"expected", "impostor", "nocert"}
  /\ q.at \in {"idle", "connect", "pinned", "sent", "receiving", "cleaning", "settled"}
  /\ q.srv \in {"idle", "arrived", "body", "handler", "answered"}
  /\ q.size \in Nat /\ q.got \in Nat /\ q.moved \in Nat
  /\ q.sent \in BOOLEAN /\ q.temp \in BOOLEAN

Trusted(q) == q.server = "expected" \/ (q.kind = "pair" /\ q.server = "impostor")

ClientInv(q) ==
  /\ q.sent \/ q.at \in {"pinned", "sent"} => Trusted(q)
  /\ q.at \in {"idle", "connect", "pinned", "sent"} => q.file = "none" /\ q.moved = 0
  /\ q.at = "receiving" =>
       \/ q.kind = "events" /\ q.file = "none"
       \/ q.kind = "download" /\ q.file = "partial" /\ q.moved <= MaxBody
  /\ q.at = "cleaning" => q.cause \in {"too_large", "broken"}
  /\ q.kind = "download" /\ q.at = "settled" =>
       /\ q.file = IF q.cause = "ok" THEN "whole" ELSE "none"
       /\ q.cause = "ok" => q.moved = q.size /\ q.size <= MaxBody

ServerInv(q) ==
  /\ q.at \in {"idle", "connect", "pinned"} => q.srv = "idle"
  /\ q.srv \in {"idle", "arrived"} => ~q.temp /\ q.got = 0 /\ q.gate = "none"
  /\ q.srv = "body" => q.got <= MaxBody
  /\ q.srv = "handler" /\ q.kind = "upload" => q.got = q.size /\ q.size <= MaxBody
  /\ q.srv = "answered" => ~q.temp
  /\ q.gate = "unpaired" /\ q.kind # "pair" => q.srv = "answered" /\ q.reply = 401

Applied(q) == q.srv = "answered" /\ q.got = q.size /\ q.size <= MaxBody
AtWork(q) == q.srv \in {"body", "handler"} /\ q.kind # "pair"

WorkInv ==
  /\ trust # "paired" => \A r \in Requests : AtWork(req[r]) => r \in admitted
  /\ trust = "unpaired" => active \subseteq admitted
  /\ \A r \in applied : Applied(req[r])

TransportInv ==
  /\ trust \in {"paired", "revoking", "unpaired"}
  /\ admitted \subseteq Requests /\ active \subseteq Requests /\ applied \subseteq Requests
  /\ DOMAIN req = Requests
  /\ \A r \in Requests :
       IsExchange(req[r]) /\ ClientInv(req[r]) /\ ServerInv(req[r])
  /\ WorkInv

LEMMA TransportStarts == TransportInit => TransportInv
<1> SUFFICES ASSUME TransportInit PROVE TransportInv
  OBVIOUS
<1> DEFINE q == [Idle EXCEPT !.at = "idle"]
<1>1. /\ q.kind = "submit" /\ q.server = "expected" /\ q.size = 0 /\ q.at = "idle"
      /\ q.sock = "open" /\ q.sent = FALSE /\ q.srv = "idle" /\ q.gate = "none"
      /\ q.got = 0 /\ q.temp = FALSE /\ q.reply = 0 /\ q.moved = 0 /\ q.file = "none"
      /\ q.cause = "none"
  BY DEF Idle, Fresh
<1>2. IsExchange(q)
  BY DEF IsExchange, Fields, Idle, Fresh, Kinds
<1> HIDE DEF q
<1>3. ClientInv(q) /\ ServerInv(q) /\ ~AtWork(q)
  BY <1>1 DEF ClientInv, ServerInv, AtWork
<1>4. \A r \in Requests : req[r] = q
  BY DEF TransportInit, q
<1>5. DOMAIN req = Requests
  BY DEF TransportInit
<1>6. WorkInv
  BY DEF TransportInit, WorkInv
<1> QED BY <1>2, <1>3, <1>4, <1>5, <1>6 DEF TransportInit, TransportInv

(* A step of one exchange that leaves the server's lists alone. What was   *)
(* applied stays so, and nobody gets to work once the peer is unpaired.    *)
LEMMA ChangeKeeps ==
  ASSUME TransportInv, NEW r \in Requests, NEW q, Change(r, q), Unchanged,
         IsExchange(q), ClientInv(q), ServerInv(q),
         Applied(req[r]) => Applied(q),
         trust # "paired" /\ AtWork(q) => AtWork(req[r])
  PROVE  TransportInv'
<1>1. /\ DOMAIN req' = Requests /\ req'[r] = q
      /\ \A k \in Requests : k # r => req'[k] = req[k]
  BY DEF Change, TransportInv
<1>2. WorkInv'
  BY <1>1 DEF TransportInv, WorkInv, Unchanged
<1>3. \A k \in Requests : IsExchange(req'[k]) /\ ClientInv(req'[k]) /\ ServerInv(req'[k])
  BY <1>1 DEF TransportInv
<1> QED BY <1>1, <1>2, <1>3 DEF TransportInv, Unchanged

(* The same, of the client: the server's part of the exchange is as it was.*)
LEMMA ClientKeeps ==
  ASSUME TransportInv, NEW r \in Requests, NEW q, Change(r, q), Unchanged,
         IsExchange(q), ClientInv(q),
         q.kind = req[r].kind, q.size = req[r].size, q.srv = req[r].srv,
         q.got = req[r].got, q.temp = req[r].temp, q.gate = req[r].gate,
         q.reply = req[r].reply,
         q.at \in {"idle", "connect", "pinned"} => req[r].at \in {"idle", "connect", "pinned"}
  PROVE  TransportInv'
<1>1. ServerInv(q)
  BY DEF TransportInv, ServerInv
<1>2. (Applied(req[r]) => Applied(q)) /\ (AtWork(q) => AtWork(req[r]))
  BY DEF Applied, AtWork
<1> QED BY <1>1, <1>2, ChangeKeeps

(* And of the server: the client's part is as it was.                      *)
LEMMA ServerKeeps ==
  ASSUME TransportInv, NEW r \in Requests, NEW q, Change(r, q), Unchanged,
         IsExchange(q), ServerInv(q),
         q.kind = req[r].kind, q.size = req[r].size, q.server = req[r].server,
         q.at = req[r].at, q.sent = req[r].sent, q.file = req[r].file,
         q.moved = req[r].moved, q.cause = req[r].cause,
         req[r].srv # "answered",
         trust # "paired" /\ AtWork(q) => AtWork(req[r])
  PROVE  TransportInv'
<1>1. ClientInv(q)
  BY DEF TransportInv, ClientInv, Trusted
<1>2. Applied(req[r]) => Applied(q)
  BY DEF Applied
<1> QED BY <1>1, <1>2, ChangeKeeps

LEMMA ConnectKeeps ==
  ASSUME TransportInv, NEW r \in Requests, NEW k \in Kinds,
         NEW server \in {"expected", "impostor", "nocert"}, NEW size \in Sizes, NEW w,
         Connect(r, k, server, size, w)
  PROVE  TransportInv'
<1> DEFINE q == [Fresh(k, server, size) EXCEPT !.wire = w]
<1>1. req[r].at = "idle" /\ Change(r, q) /\ Unchanged
  BY DEF Connect
<1>2. size \in Nat
  BY BodyAssumption DEF Sizes
<1>3. IsExchange(q)
  BY <1>2 DEF IsExchange, Fields, Fresh
<1>4. /\ q.kind = k /\ q.server = server /\ q.size = size /\ q.at = "connect"
      /\ q.sent = FALSE /\ q.srv = "idle" /\ q.gate = "none" /\ q.got = 0
      /\ q.temp = FALSE /\ q.reply = 0 /\ q.file = "none" /\ q.cause = "none"
      /\ q.moved = 0
  BY DEF Fresh
<1> HIDE DEF q
<1>5. ClientInv(q) /\ ServerInv(q) /\ ~AtWork(q)
  BY <1>4 DEF ClientInv, ServerInv, AtWork
<1>6. ~Applied(req[r])
  BY <1>1 DEF TransportInv, ServerInv, Applied
<1> QED BY <1>1, <1>3, <1>5, <1>6, ChangeKeeps

(* What closing the socket does to an exchange. *)
LEMMA SettledIs ==
  ASSUME NEW q, IsExchange(q),
         NEW c
  PROVE  /\ IsExchange(Settled(q, c)) /\ Settled(q, c).at = "settled"
         /\ Settled(q, c).cause = "ok" <=> c = "ok"
         /\ Settled(q, c).kind = q.kind /\ Settled(q, c).server = q.server
         /\ Settled(q, c).size = q.size /\ Settled(q, c).sent = q.sent
         /\ Settled(q, c).srv = q.srv /\ Settled(q, c).gate = q.gate
         /\ Settled(q, c).got = q.got /\ Settled(q, c).temp = q.temp
         /\ Settled(q, c).reply = q.reply /\ Settled(q, c).moved = q.moved
         /\ Settled(q, c).file = q.file
BY DEF IsExchange, Fields, Settled

(* An exchange settles: a download with its file whole if it went well,    *)
(* and without one otherwise.                                              *)
LEMMA SettleKeeps ==
  ASSUME TransportInv, NEW r \in Requests, NEW q,
         NEW c,
         Change(r, Settled(q, c)), Unchanged, IsExchange(q),
         q.kind = req[r].kind, q.server = req[r].server, q.size = req[r].size,
         q.srv = req[r].srv, q.sent = req[r].sent,
         q.got = req[r].got, q.temp = req[r].temp, q.gate = req[r].gate,
         q.reply = req[r].reply,
         q.kind = "download" =>
           /\ q.file = IF c = "ok" THEN "whole" ELSE "none"
           /\ c = "ok" => q.moved = q.size /\ q.size <= MaxBody
  PROVE  TransportInv'
<1> DEFINE s == Settled(q, c)
<1>1. /\ IsExchange(s) /\ s.at = "settled" /\ (s.cause = "ok" <=> c = "ok")
      /\ s.kind = q.kind /\ s.server = q.server /\ s.size = q.size /\ s.sent = q.sent
      /\ s.srv = q.srv /\ s.gate = q.gate /\ s.got = q.got /\ s.temp = q.temp
      /\ s.reply = q.reply /\ s.moved = q.moved /\ s.file = q.file
  BY SettledIs
<1>2. Change(r, s)
  OBVIOUS
<1> HIDE DEF s
<1>3. ClientInv(s)
  BY <1>1 DEF TransportInv, ClientInv, Trusted
<1> QED BY <1>1, <1>2, <1>3, ClientKeeps

LEMMA ClientStepKeeps ==
  ASSUME TransportInv, NEW r \in Requests, ClientStep(r)
  PROVE  TransportInv'
<1> DEFINE q == req[r]
<1>1. IsExchange(q) /\ ClientInv(q) /\ ServerInv(q)
  BY DEF TransportInv
<1>2. CASE Pinned(r)
  <2>1. CASE Trusted(q)
    <3> DEFINE s == [q EXCEPT !.at = "pinned"]
    <3>1. q.at = "connect" /\ Change(r, s) /\ Unchanged
      BY <1>2, <2>1 DEF Pinned, Trusted
    <3>2. IsExchange(s) /\ ClientInv(s)
      BY <1>1, <2>1, <3>1 DEF IsExchange, Fields, ClientInv, Trusted
    <3>3. /\ s.kind = q.kind /\ s.size = q.size /\ s.srv = q.srv /\ s.got = q.got
          /\ s.temp = q.temp /\ s.gate = q.gate /\ s.reply = q.reply
      BY <1>1 DEF IsExchange, Fields
    <3> HIDE DEF s
    <3> QED BY <3>1, <3>2, <3>3, ClientKeeps
  <2>2. CASE ~Trusted(q)
    <3> DEFINE s == [q EXCEPT !.at = "settled", !.cause = "mismatch", !.sock = "closed"]
    <3>1. q.at = "connect" /\ Change(r, s) /\ Unchanged
      BY <1>2, <2>2 DEF Pinned, Trusted
    <3>2. IsExchange(s) /\ ClientInv(s)
      BY <1>1, <3>1 DEF IsExchange, Fields, ClientInv, Trusted
    <3>3. /\ s.kind = q.kind /\ s.size = q.size /\ s.srv = q.srv /\ s.got = q.got
          /\ s.temp = q.temp /\ s.gate = q.gate /\ s.reply = q.reply /\ s.at = "settled"
      BY <1>1 DEF IsExchange, Fields
    <3> HIDE DEF s
    <3> QED BY <3>1, <3>2, <3>3, ClientKeeps
  <2> QED BY <2>1, <2>2
<1>3. CASE Send(r)
  <2> DEFINE s == [q EXCEPT !.at = "sent", !.sent = TRUE,
                     !.srv = IF q.server = "expected" THEN "arrived" ELSE @]
  <2>1. q.at = "pinned" /\ q.srv = "idle" /\ Change(r, s) /\ Unchanged
    BY <1>1, <1>3 DEF Send, ServerInv
  <2>2. IsExchange(s) /\ ClientInv(s) /\ ServerInv(s)
    BY <1>1, <2>1 DEF IsExchange, Fields, ClientInv, ServerInv, Trusted
  <2>3. ~Applied(q) /\ ~AtWork(s)
    BY <1>1, <2>1 DEF IsExchange, Fields, Applied, AtWork
  <2> HIDE DEF s
  <2> QED BY <2>1, <2>2, <2>3, ChangeKeeps
<1>4. CASE HeadArrives(r)
  <2>1. q.at = "sent" /\ q.file = "none" /\ Unchanged
    BY <1>1, <1>4 DEF HeadArrives, ClientInv
  <2>2. CASE q.reply # 200 /\ Change(r, Settled(q, "refused"))
    BY <1>1, <2>1, <2>2, SettleKeeps
  <2>3. CASE q.kind = "download" /\ Change(r, Settled(q, "bad_header"))
    BY <1>1, <2>1, <2>3, SettleKeeps
  <2>4. CASE q.kind \notin {"download", "events"} /\ Change(r, Settled(q, "ok"))
    BY <1>1, <2>1, <2>4, SettleKeeps
  <2>5. CASE /\ q.reply = 200 /\ q.kind \in {"download", "events"}
             /\ Change(r, [q EXCEPT !.at = "receiving",
                             !.file = IF q.kind = "download" THEN "partial" ELSE @])
    <3> DEFINE s == [q EXCEPT !.at = "receiving",
                       !.file = IF q.kind = "download" THEN "partial" ELSE @]
    <3>1. IsExchange(s)
      BY <1>1, <2>1 DEF IsExchange, Fields
    <3>2. /\ s.kind = q.kind /\ s.size = q.size /\ s.srv = q.srv /\ s.got = q.got
          /\ s.temp = q.temp /\ s.gate = q.gate /\ s.reply = q.reply /\ s.at = "receiving"
          /\ s.moved = q.moved /\ s.sent = q.sent /\ s.server = q.server
          /\ s.file = IF q.kind = "download" THEN "partial" ELSE q.file
      BY <1>1 DEF IsExchange, Fields
    <3>3. Change(r, s)
      BY <2>5
    <3> HIDE DEF s
    <3>4. q.moved <= MaxBody
      BY <1>1, <2>1, BodyAssumption DEF ClientInv
    <3>5. ClientInv(s)
      BY <1>1, <2>1, <2>5, <3>2, <3>4 DEF ClientInv, Trusted
    <3> QED BY <2>1, <3>1, <3>2, <3>3, <3>5, ClientKeeps
  <2> QED BY <1>4, <2>2, <2>3, <2>4, <2>5 DEF HeadArrives
<1>5. CASE ChunkArrives(r)
  <2>1. q.at = "receiving" /\ q.kind = "download" /\ Unchanged
    BY <1>5 DEF ChunkArrives
  <2>2. CASE q.moved + 1 > MaxBody
    <3> DEFINE s == [q EXCEPT !.moved = @ + 1, !.at = "cleaning", !.cause = "too_large"]
    <3>1. Change(r, s)
      BY <1>5, <2>2 DEF ChunkArrives
    <3>2. IsExchange(s) /\ ClientInv(s)
      BY <1>1, <2>1 DEF IsExchange, Fields, ClientInv, Trusted
    <3>3. /\ s.kind = q.kind /\ s.size = q.size /\ s.srv = q.srv /\ s.got = q.got
          /\ s.temp = q.temp /\ s.gate = q.gate /\ s.reply = q.reply /\ s.at = "cleaning"
      BY <1>1 DEF IsExchange, Fields
    <3> HIDE DEF s
    <3> QED BY <2>1, <3>1, <3>2, <3>3, ClientKeeps
  <2>3. CASE ~(q.moved + 1 > MaxBody)
    <3> DEFINE s == [q EXCEPT !.moved = @ + 1]
    <3>1. Change(r, s)
      BY <1>5, <2>3 DEF ChunkArrives
    <3>2. q.moved \in Nat /\ MaxBody \in Nat
      BY <1>1, BodyAssumption DEF IsExchange, Fields
    <3>3. IsExchange(s) /\ ClientInv(s)
      BY <1>1, <2>1, <2>3, <3>2 DEF IsExchange, Fields, ClientInv, Trusted
    <3>4. /\ s.kind = q.kind /\ s.size = q.size /\ s.srv = q.srv /\ s.got = q.got
          /\ s.temp = q.temp /\ s.gate = q.gate /\ s.reply = q.reply /\ s.at = q.at
      BY <1>1 DEF IsExchange, Fields
    <3> HIDE DEF s
    <3> QED BY <2>1, <3>1, <3>3, <3>4, ClientKeeps
  <2> QED BY <2>2, <2>3
<1>6. CASE BodyEnds(r)
  <2> DEFINE s == [q EXCEPT !.file = "whole"]
  <2>1. /\ q.at = "receiving" /\ q.kind = "download" /\ q.moved = q.size
        /\ q.moved <= MaxBody /\ Change(r, Settled(s, "ok")) /\ Unchanged
    BY <1>1, <1>6 DEF BodyEnds, ClientInv
  <2>2. IsExchange(s)
    BY <1>1 DEF IsExchange, Fields
  <2>3. /\ s.kind = q.kind /\ s.size = q.size /\ s.srv = q.srv /\ s.got = q.got
        /\ s.temp = q.temp /\ s.gate = q.gate /\ s.reply = q.reply /\ s.sent = q.sent
        /\ s.server = q.server /\ s.moved = q.moved /\ s.file = "whole"
    BY <1>1 DEF IsExchange, Fields
  <2> HIDE DEF s
  <2> QED BY <2>1, <2>2, <2>3, SettleKeeps
<1>7. CASE FileRemoved(r)
  <2> DEFINE s == [q EXCEPT !.file = "none"]
             c == q.cause
  <2>1. q.at = "cleaning" /\ c \in {"too_large", "broken"} /\ Change(r, Settled(s, c))
        /\ Unchanged
    BY <1>1, <1>7 DEF FileRemoved, ClientInv
  <2>2. IsExchange(s)
    BY <1>1 DEF IsExchange, Fields
  <2>3. /\ s.kind = q.kind /\ s.size = q.size /\ s.srv = q.srv /\ s.got = q.got
        /\ s.temp = q.temp /\ s.gate = q.gate /\ s.reply = q.reply /\ s.sent = q.sent
        /\ s.server = q.server /\ s.moved = q.moved /\ s.file = "none"
    BY <1>1 DEF IsExchange, Fields
  <2> HIDE DEF s, c
  <2> QED BY <2>1, <2>2, <2>3, SettleKeeps
<1>8. CASE EventsEnd(r)
  <2>1. q.kind = "events" /\ Change(r, Settled(q, "ok")) /\ Unchanged
    BY <1>8 DEF EventsEnd
  <2> QED BY <1>1, <2>1, SettleKeeps
<1>9. CASE FailureSurfaces(r)
  <2>1. q.at \in {"connect", "pinned", "sent", "receiving"} /\ Unchanged
    BY <1>9 DEF FailureSurfaces
  <2>2. CASE q.file = "none"
    <3>1. Change(r, Settled(q, "broken"))
      BY <1>9, <2>2 DEF FailureSurfaces
    <3> QED BY <1>1, <2>1, <2>2, <3>1, SettleKeeps
  <2>3. CASE q.file # "none"
    <3> DEFINE s == [q EXCEPT !.at = "cleaning", !.cause = "broken"]
    <3>1. Change(r, s)
      BY <1>9, <2>3 DEF FailureSurfaces
    <3>2. IsExchange(s) /\ ClientInv(s)
      BY <1>1 DEF IsExchange, Fields, ClientInv, Trusted
    <3>3. /\ s.kind = q.kind /\ s.size = q.size /\ s.srv = q.srv /\ s.got = q.got
          /\ s.temp = q.temp /\ s.gate = q.gate /\ s.reply = q.reply /\ s.at = "cleaning"
      BY <1>1 DEF IsExchange, Fields
    <3> HIDE DEF s
    <3> QED BY <2>1, <3>1, <3>2, <3>3, ClientKeeps
  <2> QED BY <2>2, <2>3
<1>10. ASSUME NEW n \in 1..MaxTotal, EventsArrive(r, n) PROVE TransportInv'
  <2> DEFINE p == ParseChunk(q.sse, SubSeq(q.wire, q.moved + 1, q.moved + n))
             s == [q EXCEPT !.sse = p, !.moved = @ + n]
  <2>1. /\ q.at = "receiving" /\ q.kind = "events" /\ Unchanged
        /\ \/ Change(r, s)
           \/ \E c : Change(r, Settled(s, c))
    BY <1>10 DEF EventsArrive
  <2>2. q.moved + n \in Nat
    BY <1>1 DEF IsExchange, Fields
  <2> HIDE DEF p
  <2>3. IsExchange(s)
    BY <1>1, <2>2 DEF IsExchange, Fields
  <2>4. /\ s.kind = q.kind /\ s.size = q.size /\ s.srv = q.srv /\ s.got = q.got
        /\ s.temp = q.temp /\ s.gate = q.gate /\ s.reply = q.reply /\ s.sent = q.sent
        /\ s.server = q.server /\ s.file = q.file /\ s.at = q.at /\ s.cause = q.cause
    BY <1>1 DEF IsExchange, Fields
  <2> HIDE DEF s
  <2>5. CASE Change(r, s)
    <3>1. ClientInv(s)
      BY <1>1, <2>1, <2>4 DEF ClientInv, Trusted
    <3> QED BY <2>1, <2>3, <2>4, <2>5, <3>1, ClientKeeps
  <2>6. ASSUME NEW c, Change(r, Settled(s, c)) PROVE TransportInv'
    BY <2>1, <2>3, <2>4, <2>6, SettleKeeps
  <2> QED BY <2>1, <2>5, <2>6
<1> QED BY <1>2, <1>3, <1>4, <1>5, <1>6, <1>7, <1>8, <1>9, <1>10 DEF ClientStep, Reacts

LEMMA SocketKeeps ==
  ASSUME TransportInv, NEW r \in Requests, NEW how \in {"timedout", "reset"},
         SocketDies(r, how)
  PROVE  TransportInv'
<1> DEFINE q == req[r]
           s == [q EXCEPT !.sock = how]
<1>1. IsExchange(q) /\ ClientInv(q)
  BY DEF TransportInv
<1>2. Change(r, s) /\ Unchanged
  BY DEF SocketDies
<1>3. IsExchange(s) /\ ClientInv(s)
  BY <1>1 DEF IsExchange, Fields, ClientInv, Trusted
<1>4. /\ s.kind = q.kind /\ s.size = q.size /\ s.srv = q.srv /\ s.got = q.got
      /\ s.temp = q.temp /\ s.gate = q.gate /\ s.reply = q.reply /\ s.at = q.at
  BY <1>1 DEF IsExchange, Fields
<1> HIDE DEF s
<1> QED BY <1>2, <1>3, <1>4, ClientKeeps

(* An answer frees what the exchange held on disk. *)
LEMMA RepliesIs ==
  ASSUME NEW q, IsExchange(q), ~q.temp, NEW answer \in {200, 400, 401, 404, 413}
  PROVE  /\ IsExchange(Replies(q, answer))
         /\ Replies(q, answer).srv = "answered" /\ Replies(q, answer).reply = answer
         /\ Replies(q, answer).kind = q.kind /\ Replies(q, answer).server = q.server
         /\ Replies(q, answer).size = q.size /\ Replies(q, answer).at = q.at
         /\ Replies(q, answer).sent = q.sent /\ Replies(q, answer).gate = q.gate
         /\ Replies(q, answer).got = q.got /\ ~Replies(q, answer).temp
         /\ Replies(q, answer).moved = q.moved /\ Replies(q, answer).file = q.file
         /\ Replies(q, answer).cause = q.cause
BY DEF IsExchange, Fields, Replies

LEMMA ReplyKeeps ==
  ASSUME TransportInv, NEW r \in Requests, NEW q, NEW answer \in {200, 400, 401, 404, 413},
         Change(r, Replies(q, answer)), Unchanged, IsExchange(q), ~q.temp,
         q.kind = req[r].kind, q.size = req[r].size, q.server = req[r].server,
         q.at = req[r].at, q.sent = req[r].sent, q.file = req[r].file,
         q.moved = req[r].moved, q.cause = req[r].cause,
         req[r].srv \in {"arrived", "body", "handler"},
         q.gate = "unpaired" /\ q.kind # "pair" => answer = 401
  PROVE  TransportInv'
<1> DEFINE s == Replies(q, answer)
<1>1. /\ IsExchange(s) /\ s.srv = "answered" /\ s.reply = answer /\ s.kind = q.kind
      /\ s.server = q.server /\ s.size = q.size /\ s.at = q.at /\ s.sent = q.sent
      /\ s.gate = q.gate /\ ~s.temp /\ s.moved = q.moved /\ s.file = q.file
      /\ s.cause = q.cause
  BY RepliesIs
<1>2. Change(r, s)
  OBVIOUS
<1> HIDE DEF s
<1>3. q.at \notin {"idle", "connect", "pinned"}
  BY DEF TransportInv, ServerInv
<1>4. ServerInv(s) /\ ~AtWork(s)
  BY <1>1, <1>3 DEF ServerInv, AtWork
<1> QED BY <1>1, <1>2, <1>4, ServerKeeps

(* The gate. An unpaired peer gets past it for a pairing only. *)
LEMMA ArrivesKeeps ==
  ASSUME TransportInv, NEW r \in Requests, Arrives(r)
  PROVE  TransportInv'
<1> DEFINE o == req[r]
           q == [o EXCEPT !.gate = IF trust = "paired" THEN "paired" ELSE "unpaired"]
<1>1. IsExchange(o) /\ ClientInv(o) /\ ServerInv(o)
  BY DEF TransportInv
<1>2. IsExchange(q)
  BY <1>1 DEF IsExchange, Fields
<1>3. /\ q.kind = o.kind /\ q.size = o.size /\ q.server = o.server /\ q.at = o.at
      /\ q.sent = o.sent /\ q.file = o.file /\ q.moved = o.moved /\ q.cause = o.cause
      /\ q.srv = o.srv /\ q.temp = o.temp /\ q.got = o.got
      /\ q.gate = IF trust = "paired" THEN "paired" ELSE "unpaired"
  BY <1>1 DEF IsExchange, Fields
<1> DEFINE body == [q EXCEPT !.srv = "body", !.temp = (q.kind = "upload")]
           handler == [q EXCEPT !.srv = "handler"]
<1>4. q.srv = "arrived" /\ Unchanged
  BY DEF Arrives
<1>5. CASE q.kind # "pair" /\ trust # "paired"
  <2>1. Change(r, Replies(q, 401))
    BY <1>5 DEF Arrives
  <2> HIDE DEF q
  <2>2. ~q.temp
    BY <1>1, <1>3, <1>4 DEF ServerInv
  <2>3. 401 \in {200, 400, 401, 404, 413} /\ o.srv = "arrived"
    BY <1>3, <1>4
  <2> QED BY <1>2, <1>3, <1>4, <2>1, <2>2, <2>3, ReplyKeeps
<1>6. CASE q.kind = "unknown" /\ trust = "paired"
  <2>1. Change(r, Replies(q, 404))
    BY <1>6 DEF Arrives
  <2> HIDE DEF q
  <2>2. ~q.temp /\ q.gate = "paired"
    BY <1>1, <1>3, <1>4, <1>6 DEF ServerInv
  <2>3. 404 \in {200, 400, 401, 404, 413} /\ o.srv = "arrived"
    BY <1>3, <1>4
  <2> QED BY <1>2, <1>3, <1>4, <2>1, <2>2, <2>3, ReplyKeeps
<1>7. CASE q.kind \in {"download", "events"} /\ trust = "paired"
  <2>1. Change(r, handler)
    BY <1>7 DEF Arrives
  <2> HIDE DEF q
  <2>2. /\ IsExchange(handler) /\ handler.srv = "handler"
        /\ handler.kind = q.kind /\ handler.size = q.size /\ handler.server = q.server
        /\ handler.at = q.at /\ handler.sent = q.sent /\ handler.file = q.file
        /\ handler.moved = q.moved /\ handler.cause = q.cause /\ handler.gate = q.gate
        /\ handler.got = q.got /\ handler.temp = q.temp
    BY <1>2 DEF IsExchange, Fields
  <2> HIDE DEF handler
  <2>3. ServerInv(handler)
    BY <1>1, <1>3, <1>4, <1>7, <2>2 DEF ServerInv
  <2> QED BY <1>3, <1>4, <1>7, <2>1, <2>2, <2>3, ServerKeeps
<1>8. CASE /\ ~(q.kind # "pair" /\ trust # "paired")
           /\ ~(q.kind = "unknown" /\ trust = "paired")
           /\ ~(q.kind \in {"download", "events"} /\ trust = "paired")
  <2>1. Change(r, body)
    BY <1>8 DEF Arrives
  <2> HIDE DEF q
  <2>2. /\ IsExchange(body) /\ body.srv = "body"
        /\ body.kind = q.kind /\ body.size = q.size /\ body.server = q.server
        /\ body.at = q.at /\ body.sent = q.sent /\ body.file = q.file
        /\ body.moved = q.moved /\ body.cause = q.cause /\ body.gate = q.gate
        /\ body.got = q.got
    BY <1>2 DEF IsExchange, Fields
  <2> HIDE DEF body
  <2>3. 0 <= MaxBody
    BY BodyAssumption
  <2>4. ServerInv(body)
    BY <1>1, <1>3, <1>4, <1>8, <2>2, <2>3 DEF ServerInv
  <2>5. trust # "paired" => ~AtWork(body)
    BY <1>8, <2>2 DEF AtWork
  <2> QED BY <1>3, <1>4, <2>1, <2>2, <2>4, <2>5, ServerKeeps
<1> QED BY <1>5, <1>6, <1>7, <1>8

LEMMA ServerStepKeeps ==
  ASSUME TransportInv, NEW r \in Requests, ServerStep(r)
  PROVE  TransportInv'
<1> DEFINE q == req[r]
<1>1. IsExchange(q) /\ ClientInv(q) /\ ServerInv(q)
  BY DEF TransportInv
<1>2. CASE Arrives(r)
  BY <1>2, ArrivesKeeps
<1>3. CASE UploadRefused(r)
  <2> DEFINE s == [q EXCEPT !.gate = "paired"]
  <2>1. s.srv = "arrived" /\ Change(r, Replies(s, 400)) /\ Unchanged
    BY <1>3 DEF UploadRefused
  <2>2. /\ IsExchange(s) /\ s.kind = q.kind /\ s.size = q.size /\ s.server = q.server
        /\ s.at = q.at /\ s.sent = q.sent /\ s.file = q.file /\ s.moved = q.moved
        /\ s.cause = q.cause /\ s.srv = q.srv /\ s.temp = q.temp /\ s.gate = "paired"
    BY <1>1 DEF IsExchange, Fields
  <2> HIDE DEF s
  <2>3. ~s.temp
    BY <1>1, <2>1, <2>2 DEF ServerInv
  <2> QED BY <2>1, <2>2, <2>3, ReplyKeeps
<1>4. CASE BodyArrives(r)
  <2>1. q.srv = "body" /\ q.got \in Nat /\ MaxBody \in Nat /\ Unchanged
    BY <1>1, <1>4, BodyAssumption DEF BodyArrives, IsExchange
  <2>2. CASE q.got + 1 > MaxBody
    <3> DEFINE s == [q EXCEPT !.got = @ + 1, !.temp = FALSE]
    <3>1. Change(r, Replies(s, 413))
      BY <1>4, <2>2 DEF BodyArrives
    <3>2. /\ IsExchange(s) /\ s.kind = q.kind /\ s.size = q.size /\ s.server = q.server
          /\ s.at = q.at /\ s.sent = q.sent /\ s.file = q.file /\ s.moved = q.moved
          /\ s.cause = q.cause /\ s.gate = q.gate /\ ~s.temp
      BY <1>1 DEF IsExchange, Fields
    <3> HIDE DEF s
    <3>3. ~(s.gate = "unpaired" /\ s.kind # "pair")
      BY <1>1, <2>1, <3>2 DEF ServerInv
    <3> QED BY <2>1, <3>1, <3>2, <3>3, ReplyKeeps
  <2>3. CASE ~(q.got + 1 > MaxBody)
    <3> DEFINE s == [q EXCEPT !.got = @ + 1]
    <3>1. Change(r, s)
      BY <1>4, <2>3 DEF BodyArrives
    <3>2. /\ IsExchange(s) /\ s.kind = q.kind /\ s.size = q.size /\ s.server = q.server
          /\ s.at = q.at /\ s.sent = q.sent /\ s.file = q.file /\ s.moved = q.moved
          /\ s.cause = q.cause /\ s.gate = q.gate /\ s.got = q.got + 1 /\ s.srv = q.srv
      BY <1>1 DEF IsExchange, Fields
    <3> HIDE DEF s
    <3>3. q.got + 1 <= MaxBody
      BY <2>1, <2>3
    <3>4. ServerInv(s) /\ (AtWork(s) => AtWork(q))
      BY <1>1, <2>1, <3>2, <3>3 DEF ServerInv, AtWork
    <3> QED BY <2>1, <3>1, <3>2, <3>4, ServerKeeps
  <2> QED BY <2>2, <2>3
<1>5. CASE BodyComplete(r) \/ BodyBreaks(r)
  <2> DEFINE s == [q EXCEPT !.temp = FALSE]
             handler == [q EXCEPT !.srv = "handler"]
  <2>1. /\ q.srv = "body" /\ Unchanged
        /\ \/ q.got = q.size /\ Change(r, handler)
           \/ Change(r, Replies(s, 400))
    BY <1>5 DEF BodyComplete, BodyBreaks
  <2>2. CASE Change(r, Replies(s, 400))
    <3>1. /\ IsExchange(s) /\ s.kind = q.kind /\ s.size = q.size /\ s.server = q.server
          /\ s.at = q.at /\ s.sent = q.sent /\ s.file = q.file /\ s.moved = q.moved
          /\ s.cause = q.cause /\ s.gate = q.gate /\ ~s.temp
      BY <1>1 DEF IsExchange, Fields
    <3> HIDE DEF s
    <3>2. ~(s.gate = "unpaired" /\ s.kind # "pair")
      BY <1>1, <2>1, <3>1 DEF ServerInv
    <3> QED BY <2>1, <2>2, <3>1, <3>2, ReplyKeeps
  <2>3. CASE q.got = q.size /\ Change(r, handler)
    <3>1. /\ IsExchange(handler) /\ handler.srv = "handler"
          /\ handler.kind = q.kind /\ handler.size = q.size /\ handler.server = q.server
          /\ handler.at = q.at /\ handler.sent = q.sent /\ handler.file = q.file
          /\ handler.moved = q.moved /\ handler.cause = q.cause /\ handler.gate = q.gate
          /\ handler.got = q.got
      BY <1>1 DEF IsExchange, Fields
    <3>2. Change(r, handler)
      BY <2>3
    <3> HIDE DEF handler
    <3>3. ServerInv(handler) /\ (AtWork(handler) => AtWork(q))
      BY <1>1, <2>1, <2>3, <3>1 DEF ServerInv, AtWork
    <3> QED BY <2>1, <3>1, <3>2, <3>3, ServerKeeps
  <2> QED BY <2>1, <2>2, <2>3
<1>6. CASE Handler(r)
  <2> DEFINE f == [q EXCEPT !.temp = FALSE]
             s == Replies(f, 200)
  <2>1. q.srv = "handler" /\ trust' = trust /\ admitted' = admitted
    BY <1>6 DEF Handler
  <2>2. /\ IsExchange(f) /\ f.kind = q.kind /\ f.size = q.size /\ f.server = q.server
        /\ f.at = q.at /\ f.sent = q.sent /\ f.file = q.file /\ f.moved = q.moved
        /\ f.cause = q.cause /\ f.gate = q.gate /\ f.got = q.got /\ ~f.temp
    BY <1>1 DEF IsExchange, Fields
  <2>3. ~(q.gate = "unpaired" /\ q.kind # "pair")
    BY <1>1, <2>1 DEF ServerInv
  <2> HIDE DEF f
  <2>4. CASE Change(r, Replies(f, 400)) /\ UNCHANGED <<active, applied>>
    <3>1. Unchanged
      BY <2>1, <2>4 DEF Unchanged
    <3> QED BY <2>1, <2>2, <2>3, <2>4, <3>1, ReplyKeeps
  <2>5. CASE /\ Change(r, s)
             /\ active' = active \cup (IF q.kind = "submit" THEN {r} ELSE {})
             /\ applied' = applied \cup (IF q.kind = "upload" THEN {r} ELSE {})
    <3>1. /\ IsExchange(s) /\ s.srv = "answered" /\ s.reply = 200 /\ s.kind = q.kind
          /\ s.server = q.server /\ s.size = q.size /\ s.at = q.at /\ s.sent = q.sent
          /\ s.gate = q.gate /\ ~s.temp /\ s.moved = q.moved /\ s.file = q.file
          /\ s.cause = q.cause /\ s.got = q.got
      BY <2>2, RepliesIs
    <3>2. /\ DOMAIN req' = Requests /\ req'[r] = s
          /\ \A k \in Requests : k # r => req'[k] = req[k]
      BY <2>5 DEF Change, TransportInv
    <3> HIDE DEF s
    <3>3. ClientInv(s)
      BY <1>1, <3>1 DEF ClientInv, Trusted
    <3>4. ServerInv(s)
      BY <1>1, <2>1, <2>3, <3>1 DEF ServerInv
    <3>5. q.kind = "upload" => Applied(s)
      BY <1>1, <2>1, <3>1 DEF ServerInv, Applied
    <3>6. trust # "paired" /\ q.kind = "submit" => r \in admitted
      BY <2>1 DEF TransportInv, WorkInv, AtWork
    <3>7. r \notin applied
      BY <2>1 DEF TransportInv, WorkInv, Applied
    <3>8. \A k \in applied' : Applied(req'[k])
      BY <2>5, <3>2, <3>5, <3>7 DEF TransportInv, WorkInv
    <3>9. trust' = "unpaired" => active' \subseteq admitted'
      BY <2>1, <2>5, <3>6 DEF TransportInv, WorkInv
    <3>10. trust' # "paired" => \A k \in Requests : AtWork(req'[k]) => k \in admitted'
      BY <2>1, <3>1, <3>2 DEF TransportInv, WorkInv, AtWork
    <3>11. WorkInv'
      BY <3>8, <3>9, <3>10 DEF WorkInv
    <3>12. \A k \in Requests : IsExchange(req'[k]) /\ ClientInv(req'[k]) /\ ServerInv(req'[k])
      BY <3>1, <3>2, <3>3, <3>4 DEF TransportInv
    <3>13. active' \subseteq Requests /\ applied' \subseteq Requests
      BY <2>5 DEF TransportInv
    <3> QED BY <2>1, <3>2, <3>11, <3>12, <3>13 DEF TransportInv
  <2> QED BY <1>6, <2>4, <2>5 DEF Handler, f, s
<1> QED BY <1>2, <1>3, <1>4, <1>5, <1>6 DEF ServerStep

LEMMA UnpairKeeps ==
  ASSUME TransportInv, Revoke \/ CancelOwned
  PROVE  TransportInv'
<1>1. req' = req /\ applied' = applied
  BY DEF Revoke, CancelOwned
<1>2. CASE Revoke
  BY <1>1, <1>2 DEF Revoke, TransportInv, WorkInv, AtWork
<1>3. CASE CancelOwned
  BY <1>1, <1>3 DEF CancelOwned, TransportInv, WorkInv
<1> QED BY <1>2, <1>3

LEMMA TransportStep == TransportInv /\ [TransportNext]_transportVars => TransportInv'
<1> SUFFICES ASSUME TransportInv, [TransportNext]_transportVars PROVE TransportInv'
  OBVIOUS
<1>1. CASE UNCHANGED transportVars
  BY <1>1 DEF transportVars, TransportInv, WorkInv
<1>2. ASSUME NEW r \in Requests, NEW k \in Kinds,
             NEW s \in {"expected", "impostor", "nocert"}, NEW n \in Sizes,
             NEW w \in Streams \cup {<<>>}, Connect(r, k, s, n, w)
      PROVE  TransportInv'
  BY <1>2, ConnectKeeps
<1> QED
  BY <1>1, <1>2, ClientStepKeeps, ServerStepKeeps, SocketKeeps, UnpairKeeps
  DEF TransportNext

(* The inductive invariant of the exchanges holds throughout.              *)
THEOREM TransportInductive == TransportSpec => []TransportInv
<1>1. TransportInit => TransportInv
  BY TransportStarts
<1>2. TransportInv /\ [TransportNext]_transportVars => TransportInv'
  BY TransportStep
<1> QED BY <1>1, <1>2, PTL DEF TransportSpec

(* No byte goes to a peer that was not pinned, an unpaired peer learns     *)
(* nothing of the routes, and an unpair leaves no work but that of the     *)
(* requests already past the gate (connectPinned, handleRequest,           *)
(* unpairPeer).                                                            *)
THEOREM RequestsAreTrusted == TransportSpec => []PeersAsTrusted
<1>1. TransportInv => PeersAsTrusted
  <2> SUFFICES ASSUME TransportInv PROVE PeersAsTrusted
    OBVIOUS
  <2>1. OnlyAdmittedWorkRemains
    BY DEF TransportInv, WorkInv, OnlyAdmittedWorkRemains
  <2>2. ASSUME NEW r \in Requests
        PROVE  /\ req[r].sent => Trusted(req[r])
               /\ req[r].gate = "unpaired" /\ req[r].kind # "pair" => req[r].reply \in {0, 401}
    BY DEF TransportInv, ClientInv, ServerInv
  <2> QED BY <2>1, <2>2 DEF PeersAsTrusted, Trusted
<1> QED BY <1>1, TransportInductive, PTL

(* A download is whole and within the cap or leaves no file, a bundle is   *)
(* applied only if all of it came, and no temporary file outlives its      *)
(* request, however sockets break (downloadToFile, handleBundleUpload).    *)
THEOREM BodiesArriveWhole == TransportSpec => []BodiesAreWhole
<1>1. TransportInv => BodiesAreWhole
  <2> SUFFICES ASSUME TransportInv PROVE BodiesAreWhole
    OBVIOUS
  <2>1. \A r \in applied : Applied(req[r])
    BY DEF TransportInv, WorkInv
  <2>2. \A r \in Requests : ClientInv(req[r]) /\ ServerInv(req[r])
    BY DEF TransportInv
  <2> QED BY <2>1, <2>2 DEF BodiesAreWhole, ClientInv, ServerInv, Applied
<1> QED BY <1>1, TransportInductive, PTL

-----------------------------------------------------------------------------
(***************************************************************************)
(* The parser of event streams, against the records of the whole text.     *)
(* Both the text a parser has read and what it holds of it are told by     *)
(* places: a line begins after the last newline (Opens), a record in       *)
(* progress is the data since the last blank line (Pending), and a byte    *)
(* more moves none of the places before it.                                *)
(***************************************************************************)
\* What is collected along the places in S comes from V.
Fits(V, N, S, value) == \A n \in 1..N : n \in S => value[n] \in V

\* f collects the values along the places.
Collects(f, N, S, value) ==
  /\ f[0] = <<>>
  /\ \A n \in 1..N : f[n] = IF n \in S THEN Append(f[n - 1], value[n]) ELSE f[n - 1]

Gathers(f, V, N, S, value) ==
  f \in [0..N -> Seq(V)] /\ Collects(f, N, S, value) /\ Along(N, S, value) = f[N]

LEMMA AlongCollects ==
  ASSUME NEW V, NEW N \in Nat, NEW S, NEW value, Fits(V, N, S, value)
  PROVE  \E f : Gathers(f, V, N, S, value)
<1> DEFINE Unfolds(f) ==
             f = [n \in 0..N |-> IF n = 0 THEN <<>>
                                 ELSE IF n \in S THEN Append(f[n - 1], value[n]) ELSE f[n - 1]]
           step == [n \in 1..N |-> [a \in Seq(V) |-> IF n \in S THEN Append(a, value[n]) ELSE a]]
<1>1. Along(N, S, value) = (CHOOSE f : Unfolds(f))[N]
  BY DEF Along
<1>2. step \in Steps(Seq(V), N)
  <2>1. SUFFICES ASSUME NEW n \in 1..N, NEW a \in Seq(V)
                 PROVE  (IF n \in S THEN Append(a, value[n]) ELSE a) \in Seq(V)
    BY DEF Steps
  <2>. QED
    BY DEF Fits
<1>3. \A a \in Seq(V), n \in 1..N :
        step[n][a] = IF n \in S THEN Append(a, value[n]) ELSE a
  OBVIOUS
<1> HIDE DEF step
<1>4. PICK f : Takes(f, Seq(V), N, <<>>, step)
  <2> DEFINE Texts == Seq(V)
             empty == <<>>
  <2>1. empty \in Texts /\ step \in Steps(Texts, N)
    BY <1>2
  <2> HIDE DEF Texts, empty
  <2>2. \E f : Takes(f, Texts, N, empty, step)
    BY <2>1, StepsExist
  <2>. QED
    BY <2>2 DEF Texts, empty
<1>5. f \in [0..N -> Seq(V)] /\ Collects(f, N, S, value)
  <2>1. \A n \in 1..N : f[n - 1] \in Seq(V)
    BY <1>4 DEF Takes
  <2>. QED
    BY <1>3, <1>4, <2>1 DEF Takes, Collects
<1>6. Unfolds(f)
  <2>1. ASSUME NEW n \in 0..N
        PROVE  f[n] = IF n = 0 THEN <<>>
                      ELSE IF n \in S THEN Append(f[n - 1], value[n]) ELSE f[n - 1]
    <3>1. CASE n = 0
      BY <1>5, <3>1 DEF Collects
    <3>2. CASE n # 0
      <4>1. n \in 1..N
        BY <3>2
      <4>. QED
        BY <1>5, <3>2, <4>1 DEF Collects
    <3>. QED
      BY <3>1, <3>2
  <2>2. f = [n \in 0..N |-> f[n]]
    BY <1>5
  <2>. QED
    BY <2>1, <2>2
<1> DEFINE g == CHOOSE h : Unfolds(h)
<1>7. Unfolds(g)
  BY <1>6
<1>8. \A n \in 0..N : g[n] = IF n = 0 THEN <<>>
                             ELSE IF n \in S THEN Append(g[n - 1], value[n]) ELSE g[n - 1]
  BY <1>7
<1> HIDE DEF g
<1>9. Collects(g, N, S, value)
  <2>1. 0 \in 0..N /\ \A n \in 1..N : n \in 0..N /\ n # 0
    OBVIOUS
  <2>. QED
    BY <1>8, <2>1 DEF Collects
<1>10. \A n \in 0..N : g[n] = f[n]
  <2> DEFINE Good == {n \in 0..N : g[n] = f[n]}
  <2>1. 0 \in Good
    BY <1>5, <1>9 DEF Collects
  <2>2. ASSUME NEW n \in 1..N, n - 1 \in Good PROVE n \in Good
    <3>1. n \in 0..N /\ g[n - 1] = f[n - 1]
      BY <2>2
    <3>2. f[n] = IF n \in S THEN Append(f[n - 1], value[n]) ELSE f[n - 1]
      BY <1>5 DEF Collects
    <3>3. g[n] = IF n \in S THEN Append(g[n - 1], value[n]) ELSE g[n - 1]
      BY <1>9 DEF Collects
    <3>4. g[n] = f[n]
      BY <3>1, <3>2, <3>3
    <3>. QED
      BY <3>1, <3>4
  <2>3. \A n \in 0..N : n \in Good
    <3> HIDE DEF Good
    <3>. QED
      BY <2>1, <2>2, AllAlong
  <2>. QED
    BY <2>3
<1>11. g[N] = f[N]
  BY <1>10
<1>12. Gathers(f, V, N, S, value)
  BY <1>1, <1>5, <1>11 DEF g, Gathers
<1>. QED
  BY <1>12

(* Only what lies at the places counts.                                    *)
LEMMA AlongSame ==
  ASSUME NEW V, NEW N \in Nat, NEW S, NEW T, NEW value, NEW other,
         Fits(V, N, S, value),
         \A n \in 1..N : (n \in S <=> n \in T) /\ (n \in S => value[n] = other[n])
  PROVE  Along(N, S, value) = Along(N, T, other)
<1>1. PICK f : Gathers(f, V, N, S, value)
  BY AlongCollects
<1>2. Fits(V, N, T, other)
  BY DEF Fits
<1>3. PICK g : Gathers(g, V, N, T, other)
  BY <1>2, AlongCollects
<1> DEFINE Good == {n \in 0..N : g[n] = f[n]}
<1>4. 0 \in Good
  BY <1>1, <1>3 DEF Gathers, Collects
<1>5. ASSUME NEW n \in 1..N, n - 1 \in Good PROVE n \in Good
  <2>1. n \in 0..N /\ g[n - 1] = f[n - 1]
    BY <1>5
  <2>2. f[n] = IF n \in S THEN Append(f[n - 1], value[n]) ELSE f[n - 1]
    BY <1>1 DEF Gathers, Collects
  <2>3. g[n] = IF n \in T THEN Append(g[n - 1], other[n]) ELSE g[n - 1]
    BY <1>3 DEF Gathers, Collects
  <2>4. g[n] = f[n]
    BY <2>1, <2>2, <2>3
  <2>. QED
    BY <2>1, <2>4
<1>6. \A n \in 0..N : n \in Good
  <2> HIDE DEF Good
  <2>. QED
    BY <1>4, <1>5, AllAlong
<1>. QED
  BY <1>1, <1>3, <1>6 DEF Gathers

(* One place more.                                                         *)
LEMMA AlongNext ==
  ASSUME NEW V, NEW N \in Nat, NEW S, NEW value, Fits(V, N + 1, S, value)
  PROVE  /\ Along(N + 1, S, value) =
              IF N + 1 \in S THEN Append(Along(N, S, value), value[N + 1]) ELSE Along(N, S, value)
         /\ Along(N, S, value) \in Seq(V)
<1> DEFINE M == N + 1
<1>1. M \in Nat /\ M \in 1..M /\ M - 1 = N /\ N \in 0..N /\ Fits(V, N, S, value)
  BY DEF Fits
<1>2. Fits(V, M, S, value)
  OBVIOUS
<1>0. \A n \in 1..N : n \in 1..M
  OBVIOUS
<1> HIDE DEF M
<1>3. PICK f : Gathers(f, V, N, S, value)
  BY <1>1, AlongCollects
<1>4. PICK g : Gathers(g, V, M, S, value)
  BY <1>1, <1>2, AlongCollects
<1> DEFINE Good == {n \in 0..N : g[n] = f[n]}
<1>5. 0 \in Good
  BY <1>3, <1>4 DEF Gathers, Collects
<1>6. ASSUME NEW n \in 1..N, n - 1 \in Good PROVE n \in Good
  <2>1. n \in 0..N /\ g[n - 1] = f[n - 1] /\ n \in 1..M
    BY <1>0, <1>6
  <2>2. f[n] = IF n \in S THEN Append(f[n - 1], value[n]) ELSE f[n - 1]
    BY <1>3 DEF Gathers, Collects
  <2>3. g[n] = IF n \in S THEN Append(g[n - 1], value[n]) ELSE g[n - 1]
    BY <1>4, <2>1 DEF Gathers, Collects
  <2>4. g[n] = f[n]
    BY <2>1, <2>2, <2>3
  <2>. QED
    BY <2>1, <2>4
<1>7. \A n \in 0..N : n \in Good
  <2> HIDE DEF Good
  <2>. QED
    BY <1>5, <1>6, AllAlong
<1>8. g[N] = f[N]
  BY <1>1, <1>7
<1>9. g[M] = IF M \in S THEN Append(g[M - 1], value[M]) ELSE g[M - 1]
  BY <1>1, <1>4 DEF Gathers, Collects
<1>10. Along(M, S, value) = IF M \in S THEN Append(Along(N, S, value), value[M]) ELSE Along(N, S, value)
  BY <1>1, <1>3, <1>4, <1>8, <1>9 DEF Gathers
<1>11. Along(N, S, value) \in Seq(V)
  BY <1>1, <1>3 DEF Gathers
<1>. QED
  BY <1>10, <1>11 DEF M

(* Without a place nothing is collected.                                   *)
LEMMA AlongEmpty ==
  ASSUME NEW V, NEW N \in Nat, NEW S, NEW value, Fits(V, N, S, value)
  PROVE  Along(N, S, value) = <<>> <=> \A n \in 1..N : n \notin S
<1>1. PICK f : Gathers(f, V, N, S, value)
  BY AlongCollects
<1> DEFINE Good == {n \in 0..N : f[n] = <<>> <=> \A m \in 1..n : m \notin S}
<1>2. 0 \in Good
  BY <1>1 DEF Gathers, Collects
<1>3. ASSUME NEW n \in 1..N, n - 1 \in Good PROVE n \in Good
  <2>1. n \in 0..N /\ (f[n - 1] = <<>> <=> \A m \in 1..(n - 1) : m \notin S)
    BY <1>3
  <2>2. f[n] = IF n \in S THEN Append(f[n - 1], value[n]) ELSE f[n - 1]
    BY <1>1 DEF Gathers, Collects
  <2>3. f[n - 1] \in Seq(V)
    BY <1>1 DEF Gathers
  <2>4. n \in S => f[n] # <<>>
    BY <2>2, <2>3, AppendProperties DEF Fits
  <2>5. \A m \in 1..n : m \in 1..(n - 1) \/ m = n
    OBVIOUS
  <2>6. n \in 1..n /\ \A m \in 1..(n - 1) : m \in 1..n
    OBVIOUS
  <2>7. f[n] = <<>> <=> \A m \in 1..n : m \notin S
    BY <2>1, <2>2, <2>4, <2>5, <2>6
  <2>. QED
    BY <2>1, <2>7
<1>4. \A n \in 0..N : n \in Good
  <2> HIDE DEF Good
  <2>. QED
    BY <1>2, <1>3, AllAlong
<1>5. N \in 0..N /\ Along(N, S, value) = f[N]
  BY <1>1 DEF Gathers
<1>. QED
  BY <1>4, <1>5

-----------------------------------------------------------------------------
\* o begins the line that goes on at i.
BeginsAt(t, o, i) ==
  /\ o \in 1..i
  /\ o = 1 \/ t[o - 1] = "n"
  /\ \A k \in o..(i - 1) : t[k] # "n"

LEMMA OpensIs ==
  ASSUME NEW t \in Seq(Marks), NEW i \in 1..(Len(t) + 1), NEW o, BeginsAt(t, o, i)
  PROVE  Opens(t, i) = o
<1> DEFINE ends == {k \in 0..(i - 1) : k = 0 \/ t[k] = "n"}
           last == o - 1
<1>1. ends \in SUBSET Nat
  OBVIOUS
<1>2. last \in ends /\ last + 1 = o
  BY DEF BeginsAt
<1>3. \A k \in ends : k <= last
  BY DEF BeginsAt
<1>4. Opens(t, i) = Max(ends) + 1
  BY DEF Opens
<1> HIDE DEF ends, last
<1>5. Max(ends) = last
  BY <1>1, <1>2, <1>3, MaxIs
<1>. QED
  BY <1>2, <1>4, <1>5

LEMMA OpensOf ==
  ASSUME NEW t \in Seq(Marks), NEW i \in 1..(Len(t) + 1)
  PROVE  BeginsAt(t, Opens(t, i), i)
<1> DEFINE ends == {k \in 0..(i - 1) : k = 0 \/ t[k] = "n"}
           N == i - 1
<1>1. N \in Nat /\ ends \in SUBSET (0..N) /\ 0 \in ends
  OBVIOUS
<1>2. Opens(t, i) = Max(ends) + 1
  BY DEF Opens
<1> DEFINE last == Max(ends)
<1>3. last \in ends /\ \A k \in ends : k <= last
  <2> HIDE DEF ends, N
  <2>. QED
    BY <1>1, MaxOf
<1> HIDE DEF last
<1> DEFINE o == last + 1
<1>4. o \in 1..i /\ o - 1 = last
  BY <1>3
<1>5. o = 1 \/ t[o - 1] = "n"
  BY <1>3, <1>4
<1>6. \A k \in o..(i - 1) : t[k] # "n"
  BY <1>3, <1>4
<1>7. BeginsAt(t, o, i)
  BY <1>4, <1>5, <1>6 DEF BeginsAt
<1>. QED
  BY <1>2, <1>7 DEF last

Begins(t) == Opens(t, Len(t) + 1)

(* A byte more moves no beginning, and a newline makes one.                *)
LEMMA OpensNext ==
  ASSUME NEW t \in Seq(Marks), NEW b \in Marks
  PROVE  /\ \A i \in 1..(Len(t) + 1) : Opens(Append(t, b), i) = Opens(t, i)
         /\ Begins(Append(t, b)) = IF b = "n" THEN Len(t) + 2 ELSE Begins(t)
<1> DEFINE N == Len(t)
           u == Append(t, b)
<1>1. N \in Nat /\ u \in Seq(Marks) /\ Len(u) = N + 1
      /\ u[N + 1] = b /\ \A k \in 1..N : u[k] = t[k]
  BY AppendProperties
<1> HIDE DEF u
<1>2. ASSUME NEW i \in 1..(N + 1) PROVE Opens(u, i) = Opens(t, i)
  <2> DEFINE o == Opens(t, i)
  <2>1. BeginsAt(t, o, i)
    BY OpensOf
  <2> HIDE DEF o
  <2>2. BeginsAt(u, o, i)
    <3>1. o \in 1..i /\ (o = 1 \/ t[o - 1] = "n") /\ \A k \in o..(i - 1) : t[k] # "n"
      BY <2>1 DEF BeginsAt
    <3>2. o = 1 \/ o - 1 \in 1..N
      BY <1>1, <3>1
    <3>3. \A k \in o..(i - 1) : k \in 1..N
      BY <1>1, <3>1
    <3>. QED
      BY <1>1, <3>1, <3>2, <3>3 DEF BeginsAt
  <2>3. i \in 1..(Len(u) + 1)
    BY <1>1
  <2>4. Opens(u, i) = o
    BY <1>1, <2>2, <2>3, OpensIs
  <2>. QED
    BY <2>4 DEF o
<1> DEFINE next == N + 2
<1>3. next \in 1..(Len(u) + 1) /\ next = Len(u) + 1
  BY <1>1
<1>4. CASE b = "n"
  <2>1. BeginsAt(u, next, next)
    BY <1>1, <1>4 DEF BeginsAt
  <2> HIDE DEF next
  <2>2. Opens(u, next) = next
    BY <1>1, <1>3, <2>1, OpensIs
  <2>3. Begins(u) = next
    BY <1>3, <2>2 DEF Begins
  <2>. QED
    BY <1>2, <1>4, <2>3 DEF next, u
<1>5. CASE b # "n"
  <2> DEFINE o == Opens(t, N + 1)
  <2>1. BeginsAt(u, o, N + 1)
    <3>1. N + 1 \in 1..(Len(u) + 1) /\ N + 1 \in 1..(N + 1)
      BY <1>1
    <3>2. BeginsAt(u, Opens(u, N + 1), N + 1)
      BY <1>1, <3>1, OpensOf
    <3>. QED
      BY <1>2, <3>1, <3>2
  <2> HIDE DEF o
  <2>2. BeginsAt(u, o, next)
    <3>1. \A k \in o..(N + 1) : k \in o..N \/ k = N + 1
      BY <1>1, <2>1 DEF BeginsAt
    <3>. QED
      BY <1>1, <1>5, <2>1, <3>1 DEF BeginsAt
  <2>3. Opens(u, next) = o
    <3> HIDE DEF next
    <3>. QED
      BY <1>1, <1>3, <2>2, OpensIs
  <2>4. Begins(u) = Begins(t)
    BY <1>3, <2>3 DEF Begins, o
  <2>. QED
    BY <1>2, <1>5, <2>4 DEF u
<1>. QED
  BY <1>4, <1>5

Pending(t) == {i \in Data(t) : i < Begins(t) /\ ~\E k \in Blanks(t) : i < k}

\* The line in progress is Begins(t) .. Len(t); ended here, it is up to Trim(t).
Trim(t) == IF Begins(t) <= Len(t) /\ t[Len(t)] = "c" THEN Len(t) - 1 ELSE Len(t)
Bare(t) == Trim(t) < Begins(t)

LEMMA PlacesIn ==
  ASSUME NEW t \in Seq(Marks)
  PROVE  /\ Blanks(t) \subseteq 1..Len(t) /\ Data(t) \subseteq 1..Len(t)
         /\ \A c : DataOf(t, c) \subseteq 1..Len(t)
         /\ Pending(t) \subseteq 1..Len(t)
         /\ Full(t) \subseteq 1..Len(t) /\ Stops(t) \subseteq Full(t) /\ Yielded(t) \subseteq Full(t)
         /\ Spoilt(t) \subseteq Stops(t)
<1>1. DOMAIN t = 1..Len(t)
  OBVIOUS
<1>. QED
  BY <1>1 DEF Blanks, Data, DataOf, Pending, Full, Stops, Spoilt, Yielded

\* u is t and the byte b, N the length of t.
Longer(t, b, u, N) == u = Append(t, b) /\ N = Len(t)

(* What a byte more changes of the places: at most a blank line at its end, *)
(* or that a carriage return before it is no data.                         *)
LEMMA PlacesNext ==
  ASSUME NEW t \in Seq(Marks), NEW b \in Marks, NEW u, NEW N,
         Longer(t, b, u, N)
  PROVE  /\ \A i \in 1..N : i \in Blanks(u) <=> i \in Blanks(t)
         /\ \A i \in 1..N : i \in Data(u) <=> i \in Data(t) /\ ~(i = N /\ b = "n" /\ t[N] = "c")
         /\ N + 1 \in Blanks(u) <=> b = "n" /\ Bare(t)
         /\ N + 1 \in Data(u) => b # "n"
         /\ \A c \in 1..N : DataOf(u, c) = DataOf(t, c) /\ Record(u, c) = Record(t, c)
         /\ b = "n" /\ Bare(t) => DataOf(u, N + 1) = Pending(t)
<1>1. N \in Nat /\ u \in Seq(Marks) /\ Len(u) = N + 1 /\ DOMAIN u = 1..(N + 1) /\ DOMAIN t = 1..N
      /\ u[N + 1] = b /\ (\A k \in 1..N : u[k] = t[k]) /\ Len(t) = N
  BY AppendProperties DEF Longer
<1>2. \A i \in 1..(N + 1) : Opens(u, i) = Opens(t, i)
  BY OpensNext DEF Longer
<1>3. \A i \in 1..(N + 1) : Opens(t, i) \in 1..i
  BY OpensOf DEF BeginsAt, Longer
<1>4. Blanks(t) \subseteq 1..N /\ Data(t) \subseteq 1..N /\ \A c : DataOf(t, c) \subseteq 1..N
  BY PlacesIn DEF Longer
<1> DEFINE o == Begins(t)
<1>5. o = Opens(t, N + 1) /\ BeginsAt(t, o, N + 1)
  <2>1. N + 1 \in 1..(Len(t) + 1) /\ o = Opens(t, N + 1)
    BY <1>1 DEF Begins
  <2>. QED
    BY <2>1, OpensOf
<1> HIDE DEF o
<1>6. ASSUME NEW i \in 1..N
      PROVE  /\ i \in Blanks(u) <=> i \in Blanks(t)
             /\ i \in Data(u) <=> i \in Data(t) /\ ~(i = N /\ b = "n" /\ t[N] = "c")
  <2> DEFINE w == Opens(t, i)
  <2>1. i \in 1..(N + 1) /\ i \in DOMAIN u /\ i \in DOMAIN t /\ u[i] = t[i]
    BY <1>1
  <2>2. Opens(u, i) = w /\ w \in 1..i
    BY <1>2, <1>3, <2>1
  <2>3. w \in 1..N /\ u[w] = t[w] /\ \A k \in w..(i - 1) : u[k] = t[k]
    BY <1>1, <2>2
  <2>4. Return(u, i) <=> Return(t, i) \/ (i = N /\ b = "n" /\ t[N] = "c")
    <3>1. CASE i = N
      BY <1>1, <2>1, <3>1 DEF Return
    <3>2. CASE i # N
      <4>1. i + 1 \in 1..N /\ i < Len(u) /\ i < Len(t)
        BY <1>1, <3>2
      <4>. QED
        BY <1>1, <2>1, <3>2, <4>1 DEF Return
    <3>. QED
      BY <3>1, <3>2
  <2> HIDE DEF w
  <2>5. i \in Blanks(u) <=> i \in Blanks(t)
    BY <2>1, <2>2, <2>3 DEF Blanks, w
  <2>6. i \in Data(u) <=> u[i] # "n" /\ ~Return(u, i) /\ u[w] \notin Mute
    BY <2>1, <2>2 DEF Data
  <2>7. i \in Data(t) <=> t[i] # "n" /\ ~Return(t, i) /\ t[w] \notin Mute
    BY <2>1 DEF Data, w
  <2>. QED
    BY <2>1, <2>3, <2>4, <2>5, <2>6, <2>7
<1>7. N + 1 \in 1..(N + 1) /\ N + 1 \in DOMAIN u
  BY <1>1
<1>8. N + 1 \in Blanks(u) <=> b = "n" /\ Bare(t)
  <2>1. o \in 1..(N + 1)
    BY <1>1, <1>5 DEF BeginsAt
  <2>2. (\A k \in o..N : k = N /\ u[k] = "c") <=> Bare(t)
    <3>1. CASE o = N + 1
      BY <1>1, <3>1 DEF Bare, Trim, o
    <3>2. CASE o = N
      <4>1. u[N] = t[N] /\ o..N = {N}
        BY <1>1, <2>1, <3>2
      <4>. QED
        BY <1>1, <3>2, <4>1 DEF Bare, Trim, o
    <3>3. CASE o < N
      <4>1. o \in o..N /\ o # N
        BY <1>1, <2>1, <3>3
      <4>2. ~Bare(t)
        BY <1>1, <2>1, <3>3 DEF Bare, Trim, o
      <4>. QED
        BY <4>1, <4>2
    <3>. QED
      BY <1>1, <2>1, <3>1, <3>2, <3>3
  <2>3. Opens(u, N + 1) = o /\ N + 1 - 1 = N
    BY <1>1, <1>2, <1>5, <1>7
  <2>4. N + 1 \in Blanks(u) <=> b = "n" /\ \A k \in o..N : k = N /\ u[k] = "c"
    BY <1>1, <1>7, <2>3 DEF Blanks
  <2>. QED
    BY <2>2, <2>4
<1>9. N + 1 \in Data(u) => b # "n"
  BY <1>1, <1>7 DEF Data
<1>10. \A i : i \in Data(u) => i \in 1..N \/ i = N + 1
  BY <1>1 DEF Data
<1>11. \A i : i \in Blanks(u) => i \in 1..N \/ i = N + 1
  BY <1>1 DEF Blanks
<1>12. ASSUME NEW c \in 1..N PROVE DataOf(u, c) = DataOf(t, c)
  <2>1. \A i \in Data(u) : i < c => i \in Data(t)
    BY <1>1, <1>6, <1>10
  <2>2. \A i \in Data(t) : i < c => i \in Data(u)
    BY <1>1, <1>4, <1>6
  <2>3. \A i, k : k < c /\ k \in Blanks(u) => k \in Blanks(t)
    BY <1>1, <1>6, <1>11
  <2>4. \A k \in Blanks(t) : k \in Blanks(u)
    BY <1>4, <1>6
  <2>. QED
    BY <2>1, <2>2, <2>3, <2>4 DEF DataOf
<1>13. ASSUME NEW c \in 1..N PROVE Record(u, c) = Record(t, c)
  <2> DEFINE S == DataOf(t, c)
             M == N + 1
  <2>1. Record(u, c) = Along(M, S, u) /\ Record(t, c) = Along(N, S, t)
    BY <1>1, <1>12 DEF Record, Longer
  <2>2. S \subseteq 1..N
    BY <1>4
  <2> HIDE DEF S
  <2>3. Fits(Marks, N + 1, S, u) /\ Fits(Marks, N, S, u)
    BY <1>1 DEF Fits
  <2>4. Along(M, S, u) = IF M \in S THEN Append(Along(N, S, u), u[M]) ELSE Along(N, S, u)
    BY <1>1, <2>3, AlongNext
  <2>5. M \notin S
    BY <1>1, <2>2
  <2>6. \A n \in 1..N : (n \in S <=> n \in S) /\ (n \in S => u[n] = t[n])
    BY <1>1
  <2>7. Along(N, S, u) = Along(N, S, t)
    BY <1>1, <2>3, <2>6, AlongSame
  <2>. QED
    BY <2>1, <2>4, <2>5, <2>7
<1>14. ASSUME b = "n", Bare(t) PROVE DataOf(u, N + 1) = Pending(t)
  <2>1. o \in 1..(N + 1) /\ (o <= N => o = N /\ t[N] = "c") /\ (o = N + 1 => N = 0 \/ t[N] = "n")
    <3>1. o \in 1..(N + 1) /\ (o = 1 \/ t[o - 1] = "n")
      BY <1>1, <1>5 DEF BeginsAt
    <3>2. o <= N => o = N /\ t[N] = "c"
      BY <1>1, <1>14, <3>1 DEF Bare, Trim, o
    <3>. QED
      BY <1>1, <3>1, <3>2
  <2>2. N \notin Data(t)
    <3>1. CASE N = 0
      BY <1>4, <3>1
    <3>2. CASE N # 0 /\ o = N + 1
      BY <1>1, <2>1, <3>2 DEF Data
    <3>3. CASE N # 0 /\ o = N
      <4>1. BeginsAt(t, N, N) /\ N \in 1..(Len(t) + 1)
        BY <1>1, <1>5, <3>3 DEF BeginsAt
      <4>2. Opens(t, N) = N
        BY <4>1, OpensIs
      <4>. QED
        BY <2>1, <3>3, <4>2 DEF Data, Mute
    <3>. QED
      BY <1>1, <2>1, <3>1, <3>2, <3>3
  <2>3. \A i \in Data(t) : i \in 1..N /\ i # N /\ i < N + 1 /\ i < o
    BY <1>1, <1>4, <2>1, <2>2
  <2>4. \A i \in Data(u) : i < N + 1 => i \in Data(t)
    BY <1>1, <1>6, <1>10
  <2>5. \A i \in Data(t) : i \in Data(u)
    BY <1>6, <2>3
  <2>6. \A k : k < N + 1 /\ k \in Blanks(u) => k \in Blanks(t)
    BY <1>1, <1>6, <1>11
  <2>7. \A k \in Blanks(t) : k \in Blanks(u) /\ k < N + 1
    BY <1>1, <1>4, <1>6
  <2>. QED
    BY <2>3, <2>4, <2>5, <2>6, <2>7 DEF DataOf, Pending, o
<1>. QED
  BY <1>6, <1>8, <1>9, <1>12, <1>13, <1>14

(* The records yielded are texts, collected at their ends.                 *)
LEMMA RecordsIn ==
  ASSUME NEW t \in Seq(Marks), NEW c
  PROVE  Record(t, c) \in Seq(Marks)
<1> DEFINE N == Len(t)
           S == DataOf(t, c)
<1>1. N \in Nat /\ Fits(Marks, N + 1, S, t) /\ Record(t, c) = Along(N, S, t)
  <2>1. S \subseteq 1..N
    BY PlacesIn
  <2>. QED
    BY <2>1 DEF Fits, Record
<1> HIDE DEF N, S
<1>2. Along(N, S, t) \in Seq(Marks)
  BY <1>1, AlongNext
<1>. QED
  BY <1>1, <1>2

\* The records that end at the places in S.
Ended(t, S, N) == Along(N, S, [c \in S |-> Record(t, c)])

LEMMA EndedAlike ==
  ASSUME NEW t \in Seq(Marks), NEW b \in Marks, NEW u, NEW N, Longer(t, b, u, N),
         NEW S \in SUBSET (1..(N + 1)), \A c \in 1..N : Record(u, c) = Record(t, c)
  PROVE  /\ Ended(t, S \ {N + 1}, N) \in Seq(Seq(Marks))
         /\ Ended(u, S, N + 1) = IF N + 1 \in S THEN Append(Ended(t, S \ {N + 1}, N), Record(u, N + 1))
                                 ELSE Ended(t, S \ {N + 1}, N)
<1> DEFINE M == N + 1
           T == S \ {M}
           new == [c \in S |-> Record(u, c)]
           old == [c \in T |-> Record(t, c)]
           Texts == Seq(Marks)
<1>1. N \in Nat /\ u \in Seq(Marks)
  BY AppendProperties DEF Longer
<1>2. \A c : Record(u, c) \in Texts /\ Record(t, c) \in Texts
  BY <1>1, RecordsIn
<1>3. \A n \in 1..N : (n \in S <=> n \in T) /\ (n \in S => new[n] = old[n])
  BY <1>1
<1>4. Fits(Texts, N + 1, S, new)
  BY <1>2 DEF Fits
<1>5. Fits(Texts, N, S, new)
  BY <1>2 DEF Fits
<1>6. M \in S => new[M] = Record(u, M)
  OBVIOUS
<1> HIDE DEF T, new, old, Texts
<1>7. /\ Along(N + 1, S, new) =
           IF N + 1 \in S THEN Append(Along(N, S, new), new[N + 1]) ELSE Along(N, S, new)
      /\ Along(N, S, new) \in Seq(Texts)
  BY <1>1, <1>4, AlongNext
<1>8. Along(N, S, new) = Along(N, T, old)
  BY <1>1, <1>3, <1>5, AlongSame
<1>9. Ended(t, T, N) = Along(N, T, old) /\ Ended(u, S, M) = Along(M, S, new)
  BY DEF Ended, old, new
<1>. QED
  BY <1>6, <1>7, <1>8, <1>9 DEF T, Texts

\* The byte after t ends a blank line that has data before it.
EndsRecord(t, b) == b = "n" /\ Bare(t) /\ Pending(t) # {}

(* A byte that ends no record yields none.                                 *)
LEMMA NothingYielded ==
  ASSUME NEW t \in Seq(Marks), NEW b \in Marks, NEW u, NEW N, Longer(t, b, u, N),
         ~EndsRecord(t, b)
  PROVE  Stops(u) = Stops(t) /\ RecordsOf(u) = RecordsOf(t) /\ FateOf(u) = FateOf(t)
<1> DEFINE M == N + 1
<1>1. N \in Nat /\ u \in Seq(Marks) /\ Len(u) = M /\ M \in Nat /\ Len(t) = N
  BY AppendProperties DEF Longer
<1>2. /\ \A i \in 1..N : i \in Blanks(u) <=> i \in Blanks(t)
      /\ M \in Blanks(u) <=> b = "n" /\ Bare(t)
      /\ \A c \in 1..N : DataOf(u, c) = DataOf(t, c) /\ Record(u, c) = Record(t, c)
      /\ b = "n" /\ Bare(t) => DataOf(u, M) = Pending(t)
  BY PlacesNext
<1>3. Blanks(t) \subseteq 1..N /\ Blanks(u) \subseteq 1..M
  BY <1>1, PlacesIn
<1>4. \A i \in 1..M : i \in 1..N \/ i = M
  BY <1>1
<1>5. M \notin Full(u)
  BY <1>1, <1>2 DEF Full, EndsRecord
<1>6. Full(u) = Full(t)
  <2>1. \A c \in Full(u) : c \in 1..N
    BY <1>3, <1>4, <1>5 DEF Full
  <2>2. \A c \in Full(t) : c \in 1..N
    BY <1>3 DEF Full
  <2>. QED
    BY <1>2, <2>1, <2>2 DEF Full
<1>7. \A c \in Full(t) : c \in 1..N /\ Record(u, c) = Record(t, c)
  BY <1>2, <1>3 DEF Full
<1>8. Spoilt(u) = Spoilt(t) /\ Stops(u) = Stops(t)
  BY <1>6, <1>7 DEF Stops, Spoilt
<1>9. Yielded(u) = Yielded(t) /\ FateOf(u) = FateOf(t)
  BY <1>6, <1>8 DEF Yielded, FateOf
<1>10. RecordsOf(u) = RecordsOf(t)
  <2> DEFINE S == Yielded(t)
  <2>1. S \subseteq 1..N /\ S \in SUBSET (1..(N + 1)) /\ S \ {N + 1} = S /\ N + 1 \notin S
    BY <1>1, PlacesIn
  <2>2. RecordsOf(u) = Ended(u, S, M) /\ RecordsOf(t) = Ended(t, S, N)
    BY <1>1, <1>9 DEF RecordsOf, Ended
  <2>3. \A c \in 1..N : Record(u, c) = Record(t, c)
    BY <1>2
  <2> HIDE DEF S
  <2>4. Ended(u, S, N + 1) = IF N + 1 \in S THEN Append(Ended(t, S \ {N + 1}, N), Record(u, N + 1))
                             ELSE Ended(t, S \ {N + 1}, N)
    BY <2>1, <2>3, EndedAlike
  <2>. QED
    BY <2>1, <2>2, <2>4
<1>. QED
  BY <1>8, <1>9, <1>10

Within(S, N) == S \subseteq 1..N
Grown(S, N) == S \cup {N + 1}

(* A byte more, and what was collected before it.                          *)
LEMMA AlongLonger ==
  ASSUME NEW t \in Seq(Marks), NEW b \in Marks, NEW u, NEW N, Longer(t, b, u, N),
         NEW S, Within(S, N)
  PROVE  /\ Along(N, S, t) \in Seq(Marks)
         /\ Along(N + 1, S, u) = Along(N, S, t)
         /\ Along(N + 1, Grown(S, N), u) = Append(Along(N, S, t), b)
<1> DEFINE M == N + 1
           T == Grown(S, N)
<1>1. N \in Nat /\ u \in Seq(Marks) /\ Len(u) = N + 1 /\ u[M] = b /\ (\A k \in 1..N : u[k] = t[k])
      /\ \A j \in 1..N : t[j] \in Marks
  BY AppendProperties DEF Longer
<1>2. M \notin S /\ M \in T /\ \A n \in 1..N : n \in T <=> n \in S
  BY <1>1 DEF Within, Grown
<1>3. Fits(Marks, N + 1, S, u) /\ Fits(Marks, N + 1, T, u) /\ Fits(Marks, N, S, t) /\ Fits(Marks, N, T, u)
      /\ Fits(Marks, N, S, u)
  BY <1>1 DEF Fits, Within, Grown
<1> HIDE DEF T
<1>4. /\ Along(N + 1, S, u) = IF N + 1 \in S THEN Append(Along(N, S, u), u[N + 1]) ELSE Along(N, S, u)
      /\ Along(N, S, u) \in Seq(Marks)
  BY <1>1, <1>3, AlongNext
<1>5. Along(N + 1, T, u) = IF N + 1 \in T THEN Append(Along(N, T, u), u[N + 1]) ELSE Along(N, T, u)
  BY <1>1, <1>3, AlongNext
<1>6. \A n \in 1..N : (n \in S <=> n \in S) /\ (n \in S => u[n] = t[n])
  BY <1>1
<1>7. Along(N, S, u) = Along(N, S, t)
  BY <1>1, <1>3, <1>6, AlongSame
<1>8. \A n \in 1..N : (n \in T <=> n \in S) /\ (n \in T => u[n] = t[n])
  BY <1>1, <1>2
<1>9. Along(N, T, u) = Along(N, S, t)
  BY <1>1, <1>3, <1>8, AlongSame
<1>. QED
  BY <1>1, <1>2, <1>4, <1>5, <1>7, <1>9 DEF T

DataText(t) == Along(Len(t), Pending(t), t)

(* A byte that ends a record yields it, unless it is malformed or the text *)
(* has come to its end before.                                             *)
LEMMA RecordYielded ==
  ASSUME NEW t \in Seq(Marks), NEW b \in Marks, NEW u, NEW N, Longer(t, b, u, N),
         EndsRecord(t, b)
  PROVE  /\ Stops(t) = {} =>
              /\ RecordsOf(u) = IF Malformed(DataText(t)) THEN RecordsOf(t)
                                ELSE Append(RecordsOf(t), DataText(t))
              /\ FateOf(u) = IF Malformed(DataText(t)) THEN "malformed"
                             ELSE IF DataText(t)[1] = "r" THEN "done" ELSE "reading"
         /\ Stops(t) # {} => RecordsOf(u) = RecordsOf(t) /\ Stops(u) # {} /\ FateOf(u) = FateOf(t)
<1> DEFINE M == N + 1
           rec == DataText(t)
<1>1. N \in Nat /\ u \in Seq(Marks) /\ Len(u) = M /\ M \in Nat /\ Len(t) = N
  BY AppendProperties DEF Longer
<1>2. /\ \A i \in 1..N : i \in Blanks(u) <=> i \in Blanks(t)
      /\ M \in Blanks(u) <=> b = "n" /\ Bare(t)
      /\ \A c \in 1..N : DataOf(u, c) = DataOf(t, c) /\ Record(u, c) = Record(t, c)
      /\ b = "n" /\ Bare(t) => DataOf(u, M) = Pending(t)
  BY PlacesNext
<1>3. Blanks(t) \subseteq 1..N /\ Blanks(u) \subseteq 1..M /\ Pending(t) \in SUBSET (1..N)
  BY <1>1, PlacesIn
<1>4. \A i \in 1..M : i \in 1..N \/ i = M
  BY <1>1
<1>5. M \in Blanks(u) /\ DataOf(u, M) = Pending(t) /\ Pending(t) # {}
  BY <1>1, <1>2 DEF EndsRecord
<1>6. Full(u) = Full(t) \cup {M}
  <2>1. \A c \in Full(u) : c \in 1..N \/ c = M
    BY <1>3, <1>4 DEF Full
  <2>2. \A c \in Full(t) : c \in 1..N
    BY <1>3 DEF Full
  <2>. QED
    BY <1>2, <1>5, <2>1, <2>2 DEF Full
<1>7. \A c \in Full(t) : c \in 1..N /\ Record(u, c) = Record(t, c)
  BY <1>2, <1>3 DEF Full
<1>8. Record(u, M) = rec
  <2> DEFINE S == Pending(t)
  <2>1. Record(u, M) = Along(N + 1, S, u) /\ rec = Along(N, S, t) /\ S \in SUBSET (1..N)
    BY <1>1, <1>3, <1>5 DEF Record, DataText
  <2> HIDE DEF S
  <2>2. Within(S, N)
    BY <2>1 DEF Within
  <2>3. Along(N + 1, S, u) = Along(N, S, t)
    BY <2>2, AlongLonger
  <2>. QED
    BY <2>1, <2>3
<1> HIDE DEF rec
<1>9. /\ Spoilt(u) = Spoilt(t) \cup {c \in {M} : Malformed(rec)}
      /\ Stops(u) = Stops(t) \cup {c \in {M} : Malformed(rec) \/ rec[1] = "r"}
  BY <1>6, <1>7, <1>8 DEF Stops, Spoilt
<1> DEFINE S == Yielded(u)
<1>10. /\ S \in SUBSET (1..(N + 1)) /\ Yielded(t) \subseteq 1..N /\ Full(t) \subseteq 1..N
       /\ Stops(t) \subseteq Full(t) /\ Spoilt(t) \subseteq Stops(t)
  BY <1>1, PlacesIn
<1>11. Yielded(u) \ {M} = Yielded(t)
  <2>1. \A c \in Full(t) : c <= M /\ c # M
    BY <1>1, <1>10
  <2>2. \A c \in Full(t) : (\A d \in Stops(u) : c <= d) <=> (\A d \in Stops(t) : c <= d)
    BY <1>9, <2>1
  <2>3. \A c \in Full(t) : c \in Spoilt(u) <=> c \in Spoilt(t)
    BY <1>9, <2>1
  <2>. QED
    BY <1>6, <2>1, <2>2, <2>3 DEF Yielded
<1>12. M \in Yielded(u) <=> Stops(t) = {} /\ ~Malformed(rec)
  <2>1. \A d \in Stops(t) : ~(M <= d)
    BY <1>1, <1>10
  <2>2. M <= M
    BY <1>1
  <2>3. M \in Spoilt(u) <=> Malformed(rec)
    BY <1>1, <1>9, <1>10
  <2>. QED
    BY <1>6, <1>9, <2>1, <2>2, <2>3 DEF Yielded
<1>13. RecordsOf(u) = Ended(u, S, N + 1) /\ RecordsOf(t) = Ended(t, S \ {N + 1}, N)
  BY <1>1, <1>11 DEF RecordsOf, Ended
<1>14. \A c \in 1..N : Record(u, c) = Record(t, c)
  BY <1>2
<1> HIDE DEF S
<1>15. Ended(u, S, N + 1) = IF N + 1 \in S THEN Append(Ended(t, S \ {N + 1}, N), Record(u, N + 1))
                            ELSE Ended(t, S \ {N + 1}, N)
  BY <1>10, <1>14, EndedAlike
<1>16. RecordsOf(u) = IF Stops(t) = {} /\ ~Malformed(rec) THEN Append(RecordsOf(t), rec)
                      ELSE RecordsOf(t)
  BY <1>8, <1>12, <1>13, <1>15 DEF S
<1>17. Stops(t) = {} => FateOf(u) = IF Malformed(rec) THEN "malformed"
                                    ELSE IF rec[1] = "r" THEN "done" ELSE "reading"
  <2>1. ASSUME Stops(t) = {}
        PROVE  /\ Spoilt(u) = {c \in {M} : Malformed(rec)}
               /\ Stops(u) = {c \in {M} : Malformed(rec) \/ rec[1] = "r"}
    BY <1>9, <1>10, <2>1
  <2>2. M <= M
    BY <1>1
  <2>. QED
    BY <2>1, <2>2 DEF FateOf
<1>18. Stops(t) # {} => Stops(u) # {}
  BY <1>9
<1>19. Stops(t) # {} => FateOf(u) = FateOf(t)
  <2>1. SUFFICES ASSUME Stops(t) # {} PROVE FateOf(u) = FateOf(t)
    OBVIOUS
  <2>2. \A d \in Stops(t) : ~(M <= d) /\ d <= M
    BY <1>1, <1>10
  <2>3. (\E c \in Spoilt(u) : \A d \in Stops(u) : c <= d)
          <=> (\E c \in Spoilt(t) : \A d \in Stops(t) : c <= d)
    <3>1. ASSUME NEW c \in Spoilt(u), \A d \in Stops(u) : c <= d
          PROVE  c \in Spoilt(t) /\ \A d \in Stops(t) : c <= d
      BY <1>9, <2>1, <2>2, <3>1
    <3>2. ASSUME NEW c \in Spoilt(t), \A d \in Stops(t) : c <= d
          PROVE  c \in Spoilt(u) /\ \A d \in Stops(u) : c <= d
      BY <1>9, <1>10, <2>2, <3>2
    <3>. QED
      BY <3>1, <3>2
  <2>. QED
    BY <1>18, <2>1, <2>3 DEF FateOf
<1>. QED
  BY <1>16, <1>17, <1>18, <1>19 DEF rec

(* Where a byte more leaves the data of the record in progress.            *)
LEMMA PendingNext ==
  ASSUME NEW t \in Seq(Marks), NEW b \in Marks, NEW u, NEW N, Longer(t, b, u, N)
  PROVE  /\ b # "n" => Pending(u) = Pending(t) /\ Begins(u) = Begins(t)
         /\ b = "n" => /\ Begins(u) = N + 2
                       /\ Pending(u) = IF Bare(t) THEN {}
                                       ELSE IF t[Begins(t)] \in Mute THEN Pending(t)
                                       ELSE Pending(t) \cup (Begins(t) .. Trim(t))
<1> DEFINE M == N + 1
           o == Begins(t)
<1>1. N \in Nat /\ u \in Seq(Marks) /\ Len(u) = M /\ Len(t) = N /\ DOMAIN t = 1..N
      /\ \A k \in 1..N : u[k] = t[k]
  BY AppendProperties DEF Longer
<1>2. /\ \A i \in 1..N : i \in Blanks(u) <=> i \in Blanks(t)
      /\ \A i \in 1..N : i \in Data(u) <=> i \in Data(t) /\ ~(i = N /\ b = "n" /\ t[N] = "c")
      /\ M \in Blanks(u) <=> b = "n" /\ Bare(t)
      /\ M \in Data(u) => b # "n"
  BY PlacesNext
<1>3. Blanks(t) \subseteq 1..N /\ Blanks(u) \subseteq 1..M /\ Data(t) \subseteq 1..N /\ Data(u) \subseteq 1..M
  BY <1>1, PlacesIn
<1>4. \A i \in 1..M : i \in 1..N \/ i = M
  BY <1>1
<1>5. Begins(u) = IF b = "n" THEN N + 2 ELSE o
  BY OpensNext DEF Longer
<1>6. BeginsAt(t, o, M) /\ M \in 1..(Len(t) + 1)
  <2>1. M \in 1..(Len(t) + 1)
    BY <1>1
  <2>. QED
    BY <1>1, <2>1, OpensOf DEF Begins
<1> HIDE DEF o
<1>7. o \in 1..M /\ (o = 1 \/ t[o - 1] = "n") /\ \A k \in o..N : t[k] # "n"
  BY <1>1, <1>6 DEF BeginsAt
<1>8. \A i \in o..N : i \in 1..N /\ Opens(t, i) = o
  <2>1. SUFFICES ASSUME NEW i \in o..N PROVE i \in 1..N /\ Opens(t, i) = o
    OBVIOUS
  <2>2. i \in 1..N /\ i \in 1..(Len(t) + 1)
    BY <1>1, <1>7
  <2>3. BeginsAt(t, o, i)
    BY <1>1, <1>7, <2>2 DEF BeginsAt
  <2>. QED
    BY <2>2, <2>3, OpensIs
<1>9. \A i \in o..N : i \notin Blanks(t) /\ ((i < N \/ t[N] # "c") => (i \in Data(t) <=> t[o] \notin Mute))
  <2>1. SUFFICES ASSUME NEW i \in o..N
                 PROVE  /\ i \notin Blanks(t)
                        /\ (i < N \/ t[N] # "c") => (i \in Data(t) <=> t[o] \notin Mute)
    OBVIOUS
  <2>2. t[i] # "n" /\ i \in 1..N /\ Opens(t, i) = o
    BY <1>7, <1>8, <2>1
  <2>3. ~Return(t, i)
    <3>1. i < Len(t) => i + 1 \in o..N
      BY <1>1, <1>7, <2>1, <2>2
    <3>. QED
      BY <1>7, <3>1 DEF Return
  <2>. QED
    BY <1>1, <2>2, <2>3 DEF Blanks, Data
<1>10. ASSUME b # "n" PROVE Pending(u) = Pending(t)
  <2>1. \A i : i < o /\ i \in Data(u) <=> i < o /\ i \in Data(t)
    BY <1>1, <1>2, <1>3, <1>4, <1>7, <1>10
  <2>2. \A i : i \in Blanks(u) <=> i \in Blanks(t)
    BY <1>2, <1>3, <1>4, <1>10
  <2>. QED
    BY <1>5, <1>10, <2>1, <2>2 DEF Pending, o
<1>11. ASSUME b = "n"
       PROVE  Pending(u) = IF Bare(t) THEN {}
                           ELSE IF t[o] \in Mute THEN Pending(t) ELSE Pending(t) \cup (o .. Trim(t))
  <2>1. \A i \in Data(u) : i \in Data(t) /\ ~(i = N /\ t[N] = "c") /\ i < M /\ i < N + 2
    BY <1>1, <1>2, <1>3, <1>4, <1>11
  <2>2. \A i \in Data(t) : ~(i = N /\ t[N] = "c") => i \in Data(u)
    BY <1>2, <1>3
  <2>3. Begins(u) = N + 2
    BY <1>5, <1>11
  <2>4. CASE Bare(t)
    <3>1. M \in Blanks(u)
      BY <1>2, <1>11, <2>4
    <3>. QED
      BY <2>1, <2>3, <2>4, <3>1 DEF Pending
  <2>5. CASE ~Bare(t)
    <3>1. \A i : i \in Blanks(u) <=> i \in Blanks(t)
      BY <1>2, <1>3, <1>4, <2>5
    <3>2. \A i \in Data(t) : i < o \/ i \in o..N
      BY <1>3, <1>7
    <3>3. \A i \in o..N : ~(i < o) /\ ~\E k \in Blanks(t) : i < k
      <4>1. SUFFICES ASSUME NEW i \in o..N, NEW k \in Blanks(t), i < k PROVE FALSE
        BY <1>7
      <4>2. k \in o..N
        BY <1>3, <1>7, <4>1
      <4>. QED
        BY <1>9, <4>2
    <3>4. Pending(u) = {i \in Data(u) : ~\E k \in Blanks(t) : i < k}
      BY <2>1, <2>3, <3>1 DEF Pending
    <3>5. Pending(t) = {i \in Data(t) : i < o /\ ~\E k \in Blanks(t) : i < k}
      BY DEF Pending, o
    <3>6. Trim(t) = (IF t[N] = "c" THEN N - 1 ELSE N) /\ o <= N
      BY <1>1, <1>7, <2>5 DEF Bare, Trim, o
    <3>7. \A i : i \in o .. Trim(t) <=> i \in o..N /\ ~(i = N /\ t[N] = "c")
      BY <1>1, <1>7, <3>6
    <3>8. \A i \in o .. Trim(t) : i \in Data(u) <=> t[o] \notin Mute
      <4>1. SUFFICES ASSUME NEW i \in o .. Trim(t) PROVE i \in Data(u) <=> t[o] \notin Mute
        OBVIOUS
      <4>2. i \in o..N /\ ~(i = N /\ t[N] = "c")
        BY <3>7
      <4>3. i < N \/ t[N] # "c"
        BY <1>1, <1>7, <4>2
      <4>. QED
        BY <1>9, <2>1, <2>2, <4>2, <4>3
    <3>9. \A i \in Data(u) : i < o \/ i \in o .. Trim(t)
      BY <2>1, <3>2, <3>7
    <3>10. \A i : i < o /\ i \in Data(t) => i \in Data(u)
      BY <1>1, <1>7, <2>2, <3>6
    <3>11. \A i \in o .. Trim(t) : ~(i < o) /\ ~\E k \in Blanks(t) : i < k
      BY <3>3, <3>7
    <3>12. CASE t[o] \in Mute
      BY <2>1, <2>5, <3>4, <3>5, <3>8, <3>9, <3>10, <3>11, <3>12
    <3>13. CASE t[o] \notin Mute
      BY <2>1, <2>5, <3>4, <3>5, <3>8, <3>9, <3>10, <3>11, <3>13
    <3>. QED
      BY <3>12, <3>13
  <2>. QED
    BY <2>4, <2>5
<1>. QED
  BY <1>5, <1>10, <1>11 DEF o

\* The line in progress, after the data of the record in progress.
Both(t) == Pending(t) \cup (Begins(t) .. Len(t))
AllText(t) == Along(Len(t), Both(t), t)
\* The same, if the line ended here.
ReadText(t) == Along(Len(t), Pending(t) \cup (Begins(t) .. Trim(t)), t)

LEMMA TextsIn ==
  ASSUME NEW t \in Seq(Marks)
  PROVE  /\ DataText(t) \in Seq(Marks) /\ AllText(t) \in Seq(Marks)
         /\ DataText(t) = <<>> <=> Pending(t) = {}
         /\ Begins(t) \in 1..(Len(t) + 1)
<1> DEFINE N == Len(t)
           S == Pending(t)
           T == Both(t)
           o == Begins(t)
<1>1. N \in Nat /\ \A k \in 1..N : t[k] \in Marks
  OBVIOUS
<1>2. o \in 1..(N + 1)
  <2>1. N + 1 \in 1..(Len(t) + 1)
    OBVIOUS
  <2>2. BeginsAt(t, Opens(t, N + 1), N + 1)
    BY <2>1, OpensOf
  <2>. QED
    BY <2>2 DEF BeginsAt, Begins
<1>3. S \subseteq 1..N
  BY PlacesIn
<1>4. T \subseteq 1..N
  <2> HIDE DEF o
  <2>1. \A i \in o..N : i \in 1..N
    BY <1>2
  <2>. QED
    BY <1>3, <2>1 DEF Both, o
<1>5. DataText(t) = Along(N, S, t) /\ AllText(t) = Along(N, T, t)
  BY DEF DataText, AllText
<1> HIDE DEF N, S, T, o
<1>6. Fits(Marks, N, S, t) /\ Fits(Marks, N + 1, S, t) /\ Fits(Marks, N + 1, T, t)
  BY <1>1, <1>3, <1>4 DEF Fits
<1>7. Along(N, S, t) \in Seq(Marks) /\ Along(N, T, t) \in Seq(Marks)
  BY <1>1, <1>6, AlongNext
<1>8. Along(N, S, t) = <<>> <=> \A n \in 1..N : n \notin S
  BY <1>1, <1>6, AlongEmpty
<1>9. Along(N, S, t) = <<>> <=> S = {}
  BY <1>3, <1>8
<1>. QED
  BY <1>2, <1>5, <1>7, <1>9 DEF N, S, o

(* A line that ends in a carriage return is read without it.               *)
LEMMA TextTrimmed ==
  ASSUME NEW t \in Seq(Marks)
  PROVE  /\ ReadText(t) \in Seq(Marks)
         /\ AllText(t) = IF Trim(t) = Len(t) THEN ReadText(t) ELSE Append(ReadText(t), "c")
         /\ Trim(t) # Len(t) => Begins(t) <= Len(t) /\ t[Len(t)] = "c" /\ Trim(t) = Len(t) - 1
<1> DEFINE N == Len(t)
           o == Begins(t)
           T == Both(t)
           R == Pending(t) \cup (o .. Trim(t))
<1>1. N \in Nat /\ (\A k \in 1..N : t[k] \in Marks) /\ o \in 1..(N + 1) /\ Pending(t) \subseteq 1..N
      /\ (\A i \in Pending(t) : i < o)
  <2>1. o \in 1..(N + 1) /\ Pending(t) \subseteq 1..N
    BY PlacesIn, TextsIn
  <2>2. \A i \in Pending(t) : i < o
    BY DEF Pending
  <2>. QED
    BY <2>1, <2>2
<1>2. /\ Trim(t) = IF o <= N /\ t[N] = "c" THEN N - 1 ELSE N
      /\ T = Pending(t) \cup (o .. N)
  BY DEF Trim, Both
<1> HIDE DEF o
<1>3. R \subseteq 1..N /\ T \subseteq 1..N
  BY <1>1, <1>2
<1>4. ReadText(t) = Along(N, R, t) /\ AllText(t) = Along(N, T, t)
  BY DEF ReadText, AllText, o
<1>5. CASE Trim(t) = N
  <2>1. R = T
    BY <1>2, <1>5
  <2> HIDE DEF N, R
  <2>2. Fits(Marks, N + 1, R, t)
    BY <1>1, <1>3 DEF Fits
  <2>3. Along(N, R, t) \in Seq(Marks)
    BY <1>1, <2>2, AlongNext
  <2>. QED
    BY <1>4, <1>5, <2>1, <2>3 DEF N
<1>6. CASE Trim(t) # N
  <2> DEFINE K == N - 1
  <2>1. o <= N /\ t[N] = "c" /\ Trim(t) = K
    BY <1>2, <1>6
  <2>2. K \in Nat /\ K + 1 = N
    BY <1>1, <2>1
  <2>3. N \in T /\ N \notin R /\ \A n \in 1..K : n \in T <=> n \in R
    BY <1>1, <1>2, <2>1, <2>2
  <2> HIDE DEF N, R, T, K
  <2>4. Fits(Marks, K + 1, R, t) /\ Fits(Marks, K + 1, T, t) /\ Fits(Marks, K, T, t) /\ Fits(Marks, K, R, t)
    BY <1>1, <1>3, <2>2 DEF Fits
  <2>5. /\ Along(K + 1, T, t) = IF K + 1 \in T THEN Append(Along(K, T, t), t[K + 1]) ELSE Along(K, T, t)
        /\ Along(K + 1, R, t) = IF K + 1 \in R THEN Append(Along(K, R, t), t[K + 1]) ELSE Along(K, R, t)
        /\ Along(K, R, t) \in Seq(Marks)
    BY <2>2, <2>4, AlongNext
  <2>6. \A n \in 1..K : (n \in T <=> n \in R) /\ (n \in T => t[n] = t[n])
    BY <2>3
  <2>7. Along(K, T, t) = Along(K, R, t)
    BY <2>2, <2>4, <2>6, AlongSame
  <2>. QED
    BY <1>4, <1>6, <2>1, <2>2, <2>3, <2>5, <2>7 DEF N, K, o
<1>. QED
  BY <1>5, <1>6

(* Where a byte more leaves the text of the record in progress.            *)
LEMMA TextNext ==
  ASSUME NEW t \in Seq(Marks), NEW b \in Marks, NEW u, NEW N, Longer(t, b, u, N)
  PROVE  /\ b # "n" => /\ DataText(u) = DataText(t) /\ AllText(u) = Append(AllText(t), b)
                       /\ Begins(u) = Begins(t)
         /\ b = "n" => /\ Begins(u) = N + 2 /\ AllText(u) = DataText(u)
                       /\ DataText(u) = IF Bare(t) THEN <<>>
                                        ELSE IF t[Begins(t)] \in Mute THEN DataText(t)
                                        ELSE ReadText(t)
<1> DEFINE M == N + 1
           S == Pending(t)
           T == Both(t)
           R == Pending(t) \cup (Begins(t) .. Trim(t))
           o == Begins(t)
<1>1. N \in Nat /\ u \in Seq(Marks) /\ Len(u) = M /\ Len(t) = N
  BY AppendProperties DEF Longer
<1>2. Within(S, N) /\ Within(T, N) /\ Within(R, N) /\ o \in 1..(N + 1)
  <2>1. S \subseteq 1..N /\ o \in 1..(N + 1)
    BY <1>1, PlacesIn, TextsIn
  <2>2. Trim(t) <= N /\ Trim(t) \in Int
    BY <1>1 DEF Trim
  <2>3. (\A i \in o..N : i \in 1..N) /\ (\A i \in o .. Trim(t) : i \in 1..N)
    <3> HIDE DEF o
    <3>. QED
      BY <1>1, <2>1, <2>2
  <2>. QED
    BY <1>1, <2>1, <2>3 DEF Within, Both
<1>3. /\ b # "n" => Pending(u) = Pending(t) /\ Begins(u) = Begins(t)
      /\ b = "n" => /\ Begins(u) = N + 2
                    /\ Pending(u) = IF Bare(t) THEN {}
                                    ELSE IF t[Begins(t)] \in Mute THEN Pending(t)
                                    ELSE Pending(t) \cup (Begins(t) .. Trim(t))
  BY PendingNext
<1>4. /\ DataText(t) = Along(N, S, t) /\ AllText(t) = Along(N, T, t) /\ ReadText(t) = Along(N, R, t)
      /\ DataText(u) = Along(M, Pending(u), u) /\ AllText(u) = Along(M, Both(u), u)
  BY <1>1 DEF DataText, AllText, ReadText
<1>5. T = Pending(t) \cup (o .. N) /\ Both(u) = Pending(u) \cup (Begins(u) .. M)
  BY <1>1 DEF Both
<1>6. DataText(u) = <<>> <=> Pending(u) = {}
  BY <1>1, TextsIn
<1> HIDE DEF S, T, R, o
<1>7. Along(N + 1, S, u) = Along(N, S, t)
  BY <1>2, AlongLonger
<1>8. Along(N + 1, R, u) = Along(N, R, t)
  BY <1>2, AlongLonger
<1>9. Along(N + 1, Grown(T, N), u) = Append(Along(N, T, t), b)
  BY <1>2, AlongLonger
<1>10. CASE b # "n"
  <2>1. Both(u) = Grown(T, N)
    <3>1. (o .. N) \cup {N + 1} = o .. (N + 1)
      BY <1>1, <1>2
    <3>. QED
      BY <1>3, <1>5, <1>10, <3>1 DEF Grown, o
  <2>. QED
    BY <1>3, <1>4, <1>7, <1>9, <1>10, <2>1 DEF S
<1>11. CASE b = "n"
  <2>1. Begins(u) .. M = {}
    BY <1>1, <1>3, <1>11
  <2>2. AllText(u) = DataText(u)
    BY <1>4, <1>5, <2>1
  <2>3. CASE Bare(t)
    BY <1>3, <1>6, <1>11, <2>2, <2>3
  <2>4. CASE ~Bare(t) /\ t[o] \in Mute
    BY <1>3, <1>4, <1>7, <1>11, <2>2, <2>4 DEF o, S
  <2>5. CASE ~Bare(t) /\ t[o] \notin Mute
    BY <1>3, <1>4, <1>8, <1>11, <2>2, <2>5 DEF o, R
  <2>. QED
    BY <1>3, <1>11, <2>2, <2>3, <2>4, <2>5 DEF o
<1>. QED
  BY <1>10, <1>11

-----------------------------------------------------------------------------
States == {"reading", "done", "malformed", "too_large"}

Parsers ==
  [line: Seq(Marks), data: Seq(Marks), events: Seq(Seq(Marks)), total: Nat, state: States]

\* The line in progress, as the text t has it.
InLine(l, t) ==
  /\ Len(l) = Len(t) + 1 - Begins(t)
  /\ Len(l) # 0 => l[1] = t[Begins(t)] /\ l[Len(l)] = t[Len(t)]

\* The parser is in the middle of the text t.
Reads(p, t) ==
  /\ p.events = RecordsOf(t) /\ Stops(t) = {}
  /\ p.data = DataText(t)
  /\ p.data \o p.line = AllText(t)
  /\ InLine(p.line, t)

\* What the parser has come to after the text t.
Follows(p, t) ==
  /\ p \in Parsers
  /\ p.state = "reading" => Reads(p, t)
  /\ p.state \in {"done", "malformed"} =>
       p.events = RecordsOf(t) /\ Stops(t) # {} /\ FateOf(t) = p.state

LEMMA ConcatAppend ==
  ASSUME NEW s \in Seq(Marks), NEW l \in Seq(Marks), NEW b \in Marks
  PROVE  s \o Append(l, b) = Append(s \o l, b) /\ Append(l, b) # <<>>
<1>1. Append(l, b) # <<>>
  BY AppendProperties
<1>2. s \o Append(l, b) = Append(s \o l, b)
  OBVIOUS
<1>. QED
  BY <1>1, <1>2

\* A line is what is left of it without its carriage return, and that.
LEMMA StrippedIs ==
  ASSUME NEW l \in Seq(Marks)
  PROVE  /\ Stripped(l) \in Seq(Marks)
         /\ Len(l) # 0 /\ l[Len(l)] = "c" =>
              Len(Stripped(l)) = Len(l) - 1 /\ l = Append(Stripped(l), "c")
         /\ ~(Len(l) # 0 /\ l[Len(l)] = "c") => Stripped(l) = l
         /\ Len(Stripped(l)) # 0 => Stripped(l)[1] = l[1]
         /\ Stripped(l) = <<>> <=> Len(Stripped(l)) = 0
<1>1. Len(l) \in Nat /\ (l = <<>> <=> Len(l) = 0)
  OBVIOUS
<1>2. CASE Len(l) # 0 /\ l[Len(l)] = "c"
  <2> DEFINE k == Len(l) - 1
             m == SubSeq(l, 1, k)
             d == Append(m, "c")
  <2>1. Stripped(l) = m
    BY <1>1, <1>2 DEF Stripped
  <2>2. k \in Nat /\ k + 1 = Len(l) /\ \A i \in 1..k : l[i] \in Marks
    BY <1>1, <1>2
  <2>3. m \in Seq(Marks) /\ Len(m) = k /\ \A i \in 1..k : m[i] = l[i]
    BY <2>2, SubSeqProperties
  <2>4. "c" \in Marks
    BY DEF Marks
  <2> HIDE DEF k, m
  <2>5. d \in Seq(Marks) /\ Len(d) = k + 1 /\ d[k + 1] = "c" /\ \A i \in 1..k : d[i] = m[i]
    BY <2>2, <2>3, <2>4, AppendProperties
  <2>6. \A i \in 1..(k + 1) : l[i] = d[i]
    <3> HIDE DEF d
    <3>1. \A i \in 1..(k + 1) : i \in 1..k \/ i = k + 1
      BY <2>2
    <3>. QED
      BY <1>2, <2>2, <2>3, <2>5, <3>1
  <2> HIDE DEF d
  <2>7. l = d
    BY <2>2, <2>5, <2>6, SeqEqual
  <2>8. k # 0 => m[1] = l[1]
    BY <2>2, <2>3
  <2>9. m = <<>> <=> k = 0
    BY <2>3
  <2>. QED
    BY <1>2, <2>1, <2>2, <2>3, <2>7, <2>8, <2>9 DEF d, k
<1>3. CASE ~(Len(l) # 0 /\ l[Len(l)] = "c")
  BY <1>1, <1>3 DEF Stripped
<1>. QED
  BY <1>2, <1>3

\* The line as the parser takes it, where the text stands.
LEMMA LineTaken ==
  ASSUME NEW t \in Seq(Marks), NEW p \in Parsers, Reads(p, t)
  PROVE  /\ Stripped(p.line) = <<>> <=> Bare(t)
         /\ Stripped(p.line) # <<>> => Stripped(p.line)[1] = t[Begins(t)]
         /\ p.data \o Stripped(p.line) = ReadText(t)
<1> DEFINE l == p.line
           x == Stripped(l)
           N == Len(t)
           o == Begins(t)
<1>1. N \in Nat /\ o \in 1..(N + 1)
  BY TextsIn
<1>2. l \in Seq(Marks) /\ p.data \in Seq(Marks) /\ InLine(l, t) /\ p.data \o l = AllText(t)
  BY DEF Parsers, Reads
<1>3. /\ x \in Seq(Marks)
      /\ Len(l) # 0 /\ l[Len(l)] = "c" => Len(x) = Len(l) - 1 /\ l = Append(x, "c")
      /\ ~(Len(l) # 0 /\ l[Len(l)] = "c") => x = l
      /\ Len(x) # 0 => x[1] = l[1]
      /\ x = <<>> <=> Len(x) = 0
  <2> HIDE DEF l
  <2>. QED
    BY <1>2, StrippedIs
<1>4. /\ Trim(t) = IF o <= N /\ t[N] = "c" THEN N - 1 ELSE N
      /\ Bare(t) <=> Trim(t) < o
  BY DEF Trim, Bare
<1>5. Len(l) = N + 1 - o /\ (Len(l) # 0 => l[1] = t[o] /\ l[Len(l)] = t[N])
  BY <1>2 DEF InLine
<1>6. /\ ReadText(t) \in Seq(Marks)
      /\ AllText(t) = IF Trim(t) = N THEN ReadText(t) ELSE Append(ReadText(t), "c")
  BY TextTrimmed
<1>7. AllText(t) = p.data \o l
  BY <1>2
<1> DEFINE s == p.data
<1>8. s \in Seq(Marks) /\ "c" \in Marks
  BY <1>2 DEF Marks
<1> HIDE DEF l, x, N, o, s
<1>9. Len(l) # 0 <=> o <= N
  BY <1>1, <1>5
<1>10. CASE o <= N /\ t[N] = "c"
  <2>1. Len(l) # 0 /\ l[Len(l)] = "c"
    BY <1>5, <1>9, <1>10
  <2>2. Trim(t) = N - 1 /\ Trim(t) # N
    BY <1>1, <1>4, <1>10
  <2>3. Len(x) = Len(l) - 1 /\ l = Append(x, "c")
    BY <1>3, <2>1
  <2>4. Len(x) = N - o
    BY <1>1, <1>5, <2>3
  <2>5. s \o l = Append(s \o x, "c")
    BY <1>3, <1>8, <2>3, ConcatAppend
  <2>6. s \o x \in Seq(Marks)
    BY <1>3, <1>8, ConcatProperties
  <2>7. Append(s \o x, "c") = Append(ReadText(t), "c")
    BY <1>6, <1>7, <2>2, <2>5 DEF s
  <2>8. s \o x = ReadText(t)
    <3> DEFINE f == s \o x
               g == ReadText(t)
    <3>1. f \in Seq(Marks) /\ g \in Seq(Marks) /\ Append(f, "c") = Append(g, "c")
      BY <1>6, <2>6, <2>7
    <3> HIDE DEF f, g
    <3>2. /\ Len(Append(f, "c")) = Len(f) + 1 /\ Len(Append(g, "c")) = Len(g) + 1
          /\ \A i \in 1..Len(f) : Append(f, "c")[i] = f[i]
          /\ \A i \in 1..Len(g) : Append(g, "c")[i] = g[i]
      BY <1>8, <3>1, AppendProperties
    <3>3. Len(f) = Len(g) /\ \A i \in 1..Len(f) : f[i] = g[i]
      BY <3>1, <3>2
    <3>4. f = g
      BY <3>1, <3>3, SeqEqual
    <3>. QED
      BY <3>4 DEF f, g
  <2>9. Bare(t) <=> Len(x) = 0
    BY <1>1, <1>4, <1>10, <2>2, <2>4
  <2>10. Len(x) # 0 => x[1] = t[o]
    BY <1>3, <1>5, <1>9, <1>10
  <2>. QED
    BY <1>3, <2>8, <2>9, <2>10 DEF s, x, l, o
<1>11. CASE ~(o <= N /\ t[N] = "c")
  <2>1. Trim(t) = N /\ x = l
    BY <1>3, <1>4, <1>5, <1>9, <1>11
  <2>2. Bare(t) <=> Len(x) = 0
    BY <1>1, <1>4, <1>5, <2>1
  <2>3. Len(x) # 0 => x[1] = t[o]
    BY <1>5, <2>1
  <2>. QED
    BY <1>3, <1>6, <1>7, <2>1, <2>2, <2>3 DEF s, x, l, o
<1>. QED
  BY <1>10, <1>11

LEMMA ParseTyped ==
  ASSUME NEW p \in Parsers, NEW b \in Marks
  PROVE  ParseByte(b, p) \in Parsers
<1>1. p.line \in Seq(Marks) /\ p.data \in Seq(Marks) /\ p.events \in Seq(Seq(Marks))
      /\ p.state \in States /\ p.total \in Nat /\ <<>> \in Seq(Marks)
  BY DEF Parsers
<1>2. Append(p.line, b) \in Seq(Marks) /\ Append(p.events, p.data) \in Seq(Seq(Marks))
  BY <1>1, AppendProperties
<1> DEFINE x == Stripped(p.line)
           next == [p EXCEPT !.line = <<>>]
<1>3. x \in Seq(Marks) /\ p.data \o x \in Seq(Marks)
  <2>1. x \in Seq(Marks)
    BY <1>1, StrippedIs
  <2> HIDE DEF x
  <2>. QED
    BY <1>1, <2>1, ConcatProperties
<1>4. EndLine(p) \in Parsers
  <2>1. next \in Parsers /\ next.data = p.data /\ next.events = p.events /\ next.state = p.state
    BY <1>1 DEF Parsers
  <2>2. EndLine(p) = IF x = <<>> THEN Flushed(next)
                     ELSE IF x[1] \in Mute THEN next ELSE [next EXCEPT !.data = @ \o x]
    BY DEF EndLine
  <2> HIDE DEF next, x
  <2>3. [next EXCEPT !.data = @ \o x] \in Parsers
    BY <1>3, <2>1 DEF Parsers
  <2>4. Flushed(next) \in Parsers
    <3>1. CASE next.data = <<>>
      BY <2>1, <3>1 DEF Flushed
    <3>2. CASE next.data # <<>> /\ Malformed(next.data)
      <4>1. Flushed(next) = [next EXCEPT !.state = "malformed"]
        BY <3>2 DEF Flushed
      <4>. QED
        BY <2>1, <4>1 DEF Parsers, States
    <3>3. CASE next.data # <<>> /\ ~Malformed(next.data)
      <4>1. Flushed(next) = [next EXCEPT !.data = <<>>, !.events = Append(@, next.data),
                                         !.state = IF next.data[1] = "r" THEN "done" ELSE @]
        BY <3>3 DEF Flushed
      <4>. QED
        BY <1>1, <1>2, <2>1, <4>1 DEF Parsers, States
    <3>. QED
      BY <3>1, <3>2, <3>3
  <2>. QED
    BY <2>1, <2>2, <2>3, <2>4
<1>5. CASE p.state # "reading"
  BY <1>5 DEF ParseByte
<1>6. CASE p.state = "reading" /\ b = "n"
  BY <1>4, <1>6 DEF ParseByte
<1>7. CASE p.state = "reading" /\ b # "n"
  <2>1. ParseByte(b, p) = [p EXCEPT !.line = Append(@, b)]
    BY <1>7 DEF ParseByte
  <2>. QED
    BY <1>1, <1>2, <2>1 DEF Parsers
<1>. QED
  BY <1>5, <1>6, <1>7

LEMMA ByteRead ==
  ASSUME NEW t \in Seq(Marks), NEW b \in Marks, NEW u, NEW N, Longer(t, b, u, N),
         NEW p, Follows(p, t)
  PROVE  Follows(ParseByte(b, p), u)
<1> DEFINE q == ParseByte(b, p)
<1>1. N \in Nat /\ u \in Seq(Marks) /\ Len(u) = N + 1 /\ Len(t) = N /\ u[N + 1] = b
      /\ \A k \in 1..N : u[k] = t[k]
  BY AppendProperties DEF Longer
<1>2. p \in Parsers /\ p.line \in Seq(Marks) /\ p.data \in Seq(Marks) /\ p.events \in Seq(Seq(Marks))
      /\ p.state \in States /\ p.total \in Nat
  BY DEF Follows, Parsers
<1>3. Begins(t) \in 1..(N + 1)
  BY <1>1, TextsIn
<1>4. ~EndsRecord(t, b) => Stops(u) = Stops(t) /\ RecordsOf(u) = RecordsOf(t) /\ FateOf(u) = FateOf(t)
  BY NothingYielded
<1>5. EndsRecord(t, b) =>
        /\ Stops(t) = {} =>
             /\ RecordsOf(u) = IF Malformed(DataText(t)) THEN RecordsOf(t)
                               ELSE Append(RecordsOf(t), DataText(t))
             /\ FateOf(u) = IF Malformed(DataText(t)) THEN "malformed"
                            ELSE IF DataText(t)[1] = "r" THEN "done" ELSE "reading"
             /\ Stops(u) # {} <=> FateOf(u) # "reading"
        /\ Stops(t) # {} => RecordsOf(u) = RecordsOf(t) /\ Stops(u) # {} /\ FateOf(u) = FateOf(t)
  <2>1. Stops(u) # {} <=> FateOf(u) # "reading"
    BY DEF FateOf
  <2>. QED
    BY <2>1, RecordYielded
<1>6. /\ b # "n" => /\ DataText(u) = DataText(t) /\ AllText(u) = Append(AllText(t), b)
                    /\ Begins(u) = Begins(t)
      /\ b = "n" => /\ Begins(u) = N + 2 /\ AllText(u) = DataText(u)
                    /\ DataText(u) = IF Bare(t) THEN <<>>
                                     ELSE IF t[Begins(t)] \in Mute THEN DataText(t)
                                     ELSE ReadText(t)
  BY TextNext
<1>7. DataText(t) = <<>> <=> Pending(t) = {}
  BY TextsIn
<1>8. CASE p.state # "reading"
  <2>1. q = p
    BY <1>8 DEF ParseByte
  <2>2. p.state \in {"done", "malformed"} =>
          p.events = RecordsOf(u) /\ Stops(u) # {} /\ FateOf(u) = p.state
    BY <1>4, <1>5 DEF Follows
  <2>. QED
    BY <1>2, <1>8, <2>1, <2>2 DEF Follows
<1>9. ASSUME p.state = "reading", b # "n" PROVE Follows(q, u)
  <2>1. q = [p EXCEPT !.line = Append(@, b)]
    BY <1>9 DEF ParseByte
  <2>2. q \in Parsers /\ q.line = Append(p.line, b) /\ q.data = p.data /\ q.events = p.events
        /\ q.state = "reading"
    <3>1. Append(p.line, b) \in Seq(Marks)
      BY <1>2, AppendProperties
    <3>. QED
      BY <1>2, <1>9, <2>1, <3>1 DEF Parsers
  <2>3. Reads(p, t)
    BY <1>9 DEF Follows
  <2>4. q.events = RecordsOf(u) /\ Stops(u) = {}
    BY <1>4, <1>9, <2>2, <2>3 DEF Reads, EndsRecord
  <2> HIDE DEF q
  <2>5. q.data \o q.line = Append(p.data \o p.line, b)
    <3> DEFINE s == p.data
               l == p.line
    <3>1. s \in Seq(Marks) /\ l \in Seq(Marks)
      BY <1>2
    <3> HIDE DEF s, l
    <3>2. s \o Append(l, b) = Append(s \o l, b)
      BY <3>1, ConcatAppend
    <3>. QED
      BY <2>2, <3>2 DEF s, l
  <2>6. InLine(q.line, u)
    <3> DEFINE l == p.line
               n == Append(l, b)
               o == Begins(t)
    <3>1. l \in Seq(Marks) /\ Len(l) = N + 1 - o /\ (Len(l) # 0 => l[1] = t[o])
      BY <1>1, <1>2, <2>3 DEF Reads, InLine
    <3>2. o \in 1..(N + 1) /\ Begins(u) = o /\ q.line = n
      BY <1>3, <1>6, <1>9, <2>2
    <3> HIDE DEF l, o
    <3>3. Len(n) = Len(l) + 1 /\ n[Len(l) + 1] = b /\ \A i \in 1..Len(l) : n[i] = l[i]
      BY <3>1, AppendProperties
    <3> HIDE DEF n
    <3>4. n[1] = u[o]
      <4>1. CASE Len(l) = 0
        BY <1>1, <3>1, <3>2, <3>3, <4>1
      <4>2. CASE Len(l) # 0
        <5>1. o \in 1..N /\ 1 \in 1..Len(l)
          BY <1>1, <3>1, <3>2, <4>2
        <5>. QED
          BY <1>1, <3>1, <3>3, <4>2, <5>1
      <4>. QED
        BY <4>1, <4>2
    <3>. QED
      BY <1>1, <3>1, <3>2, <3>3, <3>4 DEF InLine
  <2>7. Reads(q, u)
    BY <1>6, <1>9, <2>2, <2>3, <2>4, <2>5, <2>6 DEF Reads
  <2>. QED
    BY <2>2, <2>7 DEF Follows
<1>10. ASSUME p.state = "reading", b = "n" PROVE Follows(q, u)
  <2> DEFINE x == Stripped(p.line)
             next == [p EXCEPT !.line = <<>>]
  <2>1. q = IF x = <<>> THEN Flushed(next)
            ELSE IF x[1] \in Mute THEN next ELSE [next EXCEPT !.data = @ \o x]
    BY <1>10 DEF ParseByte, EndLine
  <2>2. Reads(p, t)
    BY <1>10 DEF Follows
  <2>3. Begins(u) = Len(u) + 1
    BY <1>1, <1>6, <1>10
  <2>4. q \in Parsers
    BY <1>2, ParseTyped
  <2>5. (x = <<>> <=> Bare(t)) /\ (x # <<>> => x[1] = t[Begins(t)]) /\ p.data \o x = ReadText(t)
    BY <1>2, <2>2, LineTaken
  <2>6. next \in Parsers /\ next.line = <<>> /\ next.data = p.data /\ next.events = p.events
        /\ next.state = "reading"
    <3>1. <<>> \in Seq(Marks)
      OBVIOUS
    <3>. QED
      BY <1>2, <1>10, <3>1 DEF Parsers
  <2> HIDE DEF next, x
  <2>7. ASSUME q.state = "reading", q.line = <<>>, q.data = DataText(u),
               q.events = RecordsOf(u), Stops(u) = {}
        PROVE  Follows(q, u)
    <3> HIDE DEF q
    <3>1. q.data \o q.line = q.data
      <4>1. q.data \in Seq(Marks)
        BY <2>4 DEF Parsers
      <4>. QED
        BY <2>7, <4>1
    <3>2. InLine(q.line, u)
      BY <1>1, <2>3, <2>7 DEF InLine
    <3>3. Reads(q, u)
      BY <1>6, <1>10, <2>7, <3>1, <3>2 DEF Reads
    <3>. QED
      BY <2>4, <2>7, <3>3 DEF Follows
  <2>8. CASE x = <<>> /\ p.data = <<>>
    <3>1. q = next
      BY <2>1, <2>6, <2>8 DEF Flushed
    <3>2. ~EndsRecord(t, b) /\ DataText(u) = <<>>
      BY <1>6, <1>7, <1>10, <2>2, <2>5, <2>8 DEF Reads, EndsRecord
    <3>3. RecordsOf(u) = RecordsOf(t) /\ Stops(u) = {}
      BY <1>4, <2>2, <3>2 DEF Reads
    <3>. QED
      BY <2>2, <2>6, <2>7, <2>8, <3>1, <3>2, <3>3 DEF Reads
  <2>9. CASE x = <<>> /\ p.data # <<>>
    <3>1. EndsRecord(t, b) /\ DataText(u) = <<>> /\ DataText(t) = p.data /\ Stops(t) = {}
          /\ RecordsOf(t) = p.events
      BY <1>6, <1>7, <1>10, <2>2, <2>5, <2>9 DEF Reads, EndsRecord
    <3>2. CASE Malformed(p.data)
      <4>1. q = [next EXCEPT !.state = "malformed"]
        BY <2>1, <2>6, <2>9, <3>2 DEF Flushed
      <4>2. q.state = "malformed" /\ q.events = p.events
        BY <2>6, <4>1 DEF Parsers
      <4>3. FateOf(u) = "malformed" /\ Stops(u) # {} /\ RecordsOf(u) = p.events
        BY <1>5, <3>1, <3>2
      <4> HIDE DEF q
      <4>. QED
        BY <2>4, <4>2, <4>3 DEF Follows
    <3>3. CASE ~Malformed(p.data)
      <4>1. q = [next EXCEPT !.data = <<>>, !.events = Append(@, next.data),
                             !.state = IF next.data[1] = "r" THEN "done" ELSE @]
        BY <2>1, <2>6, <2>9, <3>3 DEF Flushed
      <4>2. q.line = <<>> /\ q.data = <<>> /\ q.events = Append(p.events, p.data)
            /\ q.state = IF p.data[1] = "r" THEN "done" ELSE "reading"
        BY <2>6, <4>1 DEF Parsers
      <4>3. /\ RecordsOf(u) = q.events /\ (Stops(u) # {} <=> q.state = "done")
            /\ FateOf(u) = q.state
        BY <1>5, <3>1, <3>3, <4>2
      <4>4. CASE q.state = "done"
        <5> HIDE DEF q
        <5>. QED
          BY <2>4, <4>3, <4>4 DEF Follows
      <4>5. CASE q.state # "done"
        BY <2>7, <3>1, <4>2, <4>3, <4>5
      <4>. QED
        BY <4>4, <4>5
    <3>. QED
      BY <3>2, <3>3
  <2>10. ASSUME x # <<>>
         PROVE  ~Bare(t) /\ x[1] = t[Begins(t)] /\ RecordsOf(u) = p.events /\ Stops(u) = {}
    BY <1>4, <2>2, <2>5, <2>10 DEF Reads, EndsRecord
  <2>11. CASE x # <<>> /\ x[1] \in Mute
    <3>1. q = next
      BY <2>1, <2>11
    <3>2. DataText(u) = p.data
      BY <1>6, <1>10, <2>2, <2>10, <2>11 DEF Reads
    <3>. QED
      BY <2>6, <2>7, <2>10, <2>11, <3>1, <3>2
  <2>12. CASE x # <<>> /\ x[1] \notin Mute
    <3>1. q = [next EXCEPT !.data = @ \o x]
      BY <2>1, <2>12
    <3>2. q.line = <<>> /\ q.data = p.data \o x /\ q.events = p.events /\ q.state = "reading"
      BY <2>6, <3>1 DEF Parsers
    <3>3. DataText(u) = p.data \o x
      BY <1>6, <1>10, <2>5, <2>10, <2>12
    <3>. QED
      BY <2>7, <2>10, <2>12, <3>2, <3>3
  <2>. QED
    BY <2>8, <2>9, <2>11, <2>12
<1>. QED
  BY <1>2, <1>8, <1>9, <1>10

\* f is what the parser comes to, byte by byte.
Parses(f, p, chunk) ==
  /\ f \in [0..Len(chunk) -> Parsers] /\ f[0] = p
  /\ \A n \in 1..Len(chunk) : f[n] = ParseByte(chunk[n], f[n - 1])
  /\ ParseBytes(p, chunk) = f[Len(chunk)]

LEMMA ParsesIs ==
  ASSUME NEW p \in Parsers, NEW chunk \in Seq(Marks)
  PROVE  \E f : Parses(f, p, chunk)
<1> DEFINE N == Len(chunk)
           Unfolds(f) == f = [n \in 0..N |-> IF n = 0 THEN p ELSE ParseByte(chunk[n], f[n - 1])]
           step == [n \in 1..N |-> [q \in Parsers |-> ParseByte(chunk[n], q)]]
<1>0. N \in Nat
  OBVIOUS
<1>1. ParseBytes(p, chunk) = (CHOOSE f : Unfolds(f))[N]
  BY DEF ParseBytes
<1>2. step \in Steps(Parsers, N)
  <2>1. SUFFICES ASSUME NEW n \in 1..N, NEW q \in Parsers PROVE ParseByte(chunk[n], q) \in Parsers
    BY DEF Steps
  <2> DEFINE b == chunk[n]
  <2>2. b \in Marks
    OBVIOUS
  <2> HIDE DEF b
  <2>3. ParseByte(b, q) \in Parsers
    BY <2>2, ParseTyped
  <2>. QED
    BY <2>3 DEF b
<1>3. \A q \in Parsers, n \in 1..N : step[n][q] = ParseByte(chunk[n], q)
  OBVIOUS
<1> HIDE DEF step, N
<1>4. PICK f : Takes(f, Parsers, N, p, step)
  BY <1>0, <1>2, StepsExist
<1>5. /\ f \in [0..N -> Parsers] /\ f[0] = p
      /\ \A n \in 1..N : f[n] = ParseByte(chunk[n], f[n - 1])
  <2>1. \A n \in 1..N : f[n - 1] \in Parsers
    BY <1>0, <1>4 DEF Takes
  <2>. QED
    BY <1>3, <1>4, <2>1 DEF Takes
<1>6. Unfolds(f)
  <2>1. ASSUME NEW n \in 0..N
        PROVE  f[n] = IF n = 0 THEN p ELSE ParseByte(chunk[n], f[n - 1])
    <3>1. CASE n = 0
      BY <1>5, <3>1
    <3>2. CASE n # 0
      <4>1. n \in 1..N
        BY <1>0, <3>2
      <4>. QED
        BY <1>5, <3>2, <4>1
    <3>. QED
      BY <3>1, <3>2
  <2>2. f = [n \in 0..N |-> f[n]]
    BY <1>5
  <2>. QED
    BY <2>1, <2>2
<1> DEFINE g == CHOOSE h : Unfolds(h)
<1>7. Unfolds(g)
  BY <1>6
<1>8. \A n \in 0..N : g[n] = IF n = 0 THEN p ELSE ParseByte(chunk[n], g[n - 1])
  BY <1>7
<1> HIDE DEF g
<1>9. \A n \in 0..N : g[n] = f[n]
  <2> DEFINE Good == {n \in 0..N : g[n] = f[n]}
  <2>1. 0 \in Good
    BY <1>0, <1>5, <1>8
  <2>2. ASSUME NEW n \in 1..N, n - 1 \in Good PROVE n \in Good
    <3>1. n \in 0..N /\ n # 0 /\ g[n - 1] = f[n - 1]
      BY <1>0, <2>2
    <3>2. g[n] = ParseByte(chunk[n], g[n - 1])
      BY <1>8, <3>1
    <3>3. g[n] = f[n]
      BY <1>5, <3>1, <3>2
    <3>. QED
      BY <3>1, <3>3
  <2>3. \A n \in 0..N : n \in Good
    <3> HIDE DEF Good
    <3>. QED
      BY <1>0, <2>1, <2>2, AllAlong
  <2>. QED
    BY <2>3
<1>10. ParseBytes(p, chunk) = f[N]
  <2>1. N \in 0..N
    BY <1>0
  <2>. QED
    BY <1>1, <1>9, <2>1 DEF g
<1>11. Parses(f, p, chunk)
  BY <1>5, <1>10 DEF Parses, N
<1>. QED
  BY <1>11

\* The first n bytes of the wire.
First(w, n) == SubSeq(w, 1, n)

LEMMA FirstNext ==
  ASSUME NEW w \in Seq(Marks), NEW n \in Nat, n < Len(w)
  PROVE  /\ First(w, n) \in Seq(Marks) /\ w[n + 1] \in Marks
         /\ Longer(First(w, n), w[n + 1], First(w, n + 1), n)
<1> DEFINE a == First(w, n)
           c == First(w, n + 1)
           b == w[n + 1]
<1>1. /\ a \in Seq(Marks) /\ Len(a) = n /\ \A i \in 1..n : a[i] = w[i]
  <2>1. \A i \in 1..n : w[i] \in Marks
    OBVIOUS
  <2>. QED
    BY <2>1, SubSeqProperties DEF First
<1>2. /\ c \in Seq(Marks) /\ Len(c) = n + 1 /\ \A i \in 1..(n + 1) : c[i] = w[i]
  <2>1. \A i \in 1..(n + 1) : w[i] \in Marks
    OBVIOUS
  <2>. QED
    BY <2>1, SubSeqProperties DEF First
<1>3. b \in Marks
  OBVIOUS
<1> HIDE DEF a, b
<1> DEFINE d == Append(a, b)
<1>4. d \in Seq(Marks) /\ Len(d) = n + 1 /\ d[n + 1] = b /\ \A i \in 1..n : d[i] = a[i]
  BY <1>1, <1>3, AppendProperties
<1>5. \A i \in 1..(n + 1) : c[i] = d[i]
  <2> HIDE DEF c, d
  <2>1. \A i \in 1..(n + 1) : i \in 1..n \/ i = n + 1
    OBVIOUS
  <2>2. c[n + 1] = b
    <3>1. n + 1 \in 1..(n + 1)
      OBVIOUS
    <3>. QED
      BY <1>2, <3>1 DEF b
  <2>3. \A i \in 1..n : i \in 1..(n + 1)
    OBVIOUS
  <2>. QED
    BY <1>1, <1>2, <1>4, <2>1, <2>2, <2>3
<1> HIDE DEF c, d
<1>6. c = d
  BY <1>2, <1>4, <1>5, SeqEqual
<1>. QED
  BY <1>1, <1>3, <1>6 DEF Longer, a, b, c, d

(* However many bytes come at once, the parser follows the text.           *)
LEMMA BytesRead ==
  ASSUME NEW w \in Seq(Marks), NEW m \in Nat, NEW n \in Nat, m + n <= Len(w),
         NEW p, Follows(p, First(w, m))
  PROVE  Follows(ParseBytes(p, SubSeq(w, m + 1, m + n)), First(w, m + n))
<1> DEFINE chunk == SubSeq(w, m + 1, m + n)
<1>1. chunk \in Seq(Marks) /\ Len(chunk) = n /\ \A i \in 1..n : chunk[i] = w[m + i]
  <2>1. \A i \in (m + 1)..(m + n) : w[i] \in Marks
    OBVIOUS
  <2>2. chunk \in Seq(Marks) /\ Len(chunk) = (IF m + 1 <= m + n THEN m + n - (m + 1) + 1 ELSE 0)
        /\ \A i \in 1..(m + n - (m + 1) + 1) : chunk[i] = w[m + 1 + i - 1]
    BY <2>1, SubSeqProperties
  <2>3. m + n - (m + 1) + 1 = n /\ (m + 1 <= m + n <=> 0 < n)
    OBVIOUS
  <2>4. \A i \in 1..n : m + 1 + i - 1 = m + i
    OBVIOUS
  <2>. QED
    BY <2>2, <2>3, <2>4
<1>2. p \in Parsers
  BY DEF Follows
<1> HIDE DEF chunk
<1>3. PICK f : Parses(f, p, chunk)
  BY <1>1, <1>2, ParsesIs
<1> DEFINE Good == {i \in 0..n : Follows(f[i], First(w, m + i))}
<1>4. 0 \in Good
  BY <1>1, <1>3 DEF Parses
<1>5. ASSUME NEW i \in 1..n, i - 1 \in Good PROVE i \in Good
  <2> DEFINE k == m + (i - 1)
             t == First(w, k)
             u == First(w, k + 1)
             b == w[k + 1]
             q == f[i - 1]
  <2>1. k \in Nat /\ k < Len(w) /\ k + 1 = m + i
    OBVIOUS
  <2>2. Follows(q, t)
    BY <1>5
  <2>3. f[i] = ParseByte(b, q)
    <3>1. f[i] = ParseByte(chunk[i], f[i - 1]) /\ chunk[i] = w[m + i]
      BY <1>1, <1>3 DEF Parses
    <3>. QED
      BY <2>1, <3>1
  <2> HIDE DEF k, q
  <2>4. t \in Seq(Marks) /\ b \in Marks /\ Longer(t, b, u, k)
    BY <2>1, FirstNext
  <2> HIDE DEF t, b, u
  <2>5. Follows(ParseByte(b, q), u)
    BY <2>2, <2>4, ByteRead
  <2>6. u = First(w, m + i) /\ i \in 0..n
    BY <2>1 DEF u
  <2>. QED
    BY <2>3, <2>5, <2>6
<1>6. \A i \in 0..n : i \in Good
  <2> HIDE DEF Good
  <2>. QED
    BY <1>4, <1>5, AllAlong
<1>7. Follows(f[n], First(w, m + n))
  <2>1. n \in 0..n
    OBVIOUS
  <2>. QED
    BY <1>6, <2>1
<1>. QED
  BY <1>1, <1>3, <1>7 DEF Parses, chunk

(* What the parser follows does not depend on its byte count.              *)
LEMMA Counted ==
  ASSUME NEW p, NEW t, NEW n \in Nat, Follows(p, t)
  PROVE  Follows([p EXCEPT !.total = @ + n], t)
<1> DEFINE q == [p EXCEPT !.total = @ + n]
<1>1. p \in Parsers /\ p.total + n \in Nat
  BY DEF Follows, Parsers
<1>2. q \in Parsers /\ q.line = p.line /\ q.data = p.data /\ q.events = p.events /\ q.state = p.state
  BY <1>1 DEF Parsers
<1> HIDE DEF q
<1>3. q.state = "reading" => Reads(q, t)
  BY <1>2 DEF Follows, Reads
<1>4. Follows(q, t)
  BY <1>2, <1>3 DEF Follows
<1>. QED
  BY <1>4 DEF q

LEMMA Stopped ==
  ASSUME NEW p \in Parsers, NEW t
  PROVE  Follows([p EXCEPT !.state = "too_large"], t)
<1> DEFINE q == [p EXCEPT !.state = "too_large"]
<1>1. q \in Parsers /\ q.state = "too_large"
  BY DEF Parsers, States
<1> HIDE DEF q
<1>2. Follows(q, t)
  BY <1>1 DEF Follows
<1>. QED
  BY <1>2 DEF q

LEMMA ChunkRead ==
  ASSUME NEW w \in Seq(Marks), NEW m \in Nat, NEW n \in Nat, m + n <= Len(w),
         NEW p, Follows(p, First(w, m))
  PROVE  Follows(ParseChunk(p, SubSeq(w, m + 1, m + n)), First(w, m + n))
<1> DEFINE chunk == SubSeq(w, m + 1, m + n)
           l == Len(chunk)
           o == [p EXCEPT !.total = @ + l]
           q == ParseBytes(o, chunk)
           t == First(w, m)
           u == First(w, m + n)
<1>1. l \in Nat
  <2>1. \A i \in (m + 1)..(m + n) : w[i] \in Marks
    OBVIOUS
  <2>2. chunk \in Seq(Marks)
    BY <2>1, SubSeqProperties
  <2>. QED
    BY <2>2
<1>2. Follows(o, t)
  <2> HIDE DEF l, t
  <2>1. Follows(p, t)
    BY DEF t
  <2>. QED
    BY <1>1, <2>1, Counted
<1>3. Follows(q, u)
  <2> HIDE DEF o
  <2>. QED
    BY <1>2, BytesRead
<1>4. o \in Parsers /\ q \in Parsers
  BY <1>2, <1>3 DEF Follows
<1> DEFINE cut == [o EXCEPT !.state = "too_large"]
           full == [q EXCEPT !.state = "too_large"]
<1>5. \/ ParseChunk(p, chunk) = cut \/ ParseChunk(p, chunk) = full \/ ParseChunk(p, chunk) = q
  <2>1. CASE p.total + l > MaxTotal
    <3>1. ParseChunk(p, chunk) = [p EXCEPT !.total = @ + l, !.state = "too_large"]
      BY <2>1 DEF ParseChunk
    <3>2. p \in Parsers
      BY DEF Follows
    <3>3. [p EXCEPT !.total = @ + l, !.state = "too_large"] = cut
      BY <3>2 DEF Parsers
    <3>. QED
      BY <3>1, <3>3
  <2>2. CASE ~(p.total + l > MaxTotal)
    BY <2>2 DEF ParseChunk
  <2>. QED
    BY <2>1, <2>2
<1> HIDE DEF chunk, o, q, u
<1>6. Follows(cut, u)
  BY <1>4, Stopped
<1>7. Follows(full, u)
  BY <1>4, Stopped
<1> HIDE DEF cut, full
<1>8. Follows(ParseChunk(p, chunk), u)
  BY <1>3, <1>5, <1>6, <1>7
<1>. QED
  BY <1>8 DEF chunk, u

LEMMA NothingRead == Follows(ParserStart, <<>>)
<1> DEFINE t == <<>>
<1>1. t \in Seq(Marks) /\ Len(t) = 0
  OBVIOUS
<1> HIDE DEF t
<1>2. /\ Pending(t) \subseteq 1..0 /\ Full(t) \subseteq 1..0
      /\ Stops(t) \subseteq Full(t) /\ Yielded(t) \subseteq Full(t)
  BY <1>1, PlacesIn
<1>3. Pending(t) = {} /\ Stops(t) = {} /\ Yielded(t) = {}
  BY <1>2
<1>4. Begins(t) = 1 /\ DataText(t) = <<>>
  <2>1. Begins(t) \in 1..(Len(t) + 1) /\ (DataText(t) = <<>> <=> Pending(t) = {})
    BY <1>1, TextsIn
  <2>. QED
    BY <1>1, <1>3, <2>1
<1>5. AllText(t) = <<>>
  <2>1. Both(t) = Pending(t)
    <3>1. 1..0 = {}
      OBVIOUS
    <3>. QED
      BY <1>1, <1>4, <3>1 DEF Both
  <2>. QED
    BY <1>4, <2>1 DEF AllText, DataText
<1>6. RecordsOf(t) = <<>>
  <2> DEFINE S == Yielded(t)
             v == [b \in S |-> Record(t, b)]
             N == Len(t)
  <2>1. RecordsOf(t) = Along(N, S, v)
    BY DEF RecordsOf
  <2>2. N \in Nat /\ \A n \in 1..N : n \notin S
    BY <1>1, <1>3
  <2> HIDE DEF N, S, v
  <2>3. Fits(Marks, N, S, v)
    BY <2>2 DEF Fits
  <2>4. Along(N, S, v) = <<>>
    BY <2>2, <2>3, AlongEmpty
  <2>. QED
    BY <2>1, <2>4
<1>7. ParserStart \in Parsers
  <2>1. <<>> \in Seq(Marks) /\ <<>> \in Seq(Seq(Marks))
    OBVIOUS
  <2>. QED
    BY <2>1 DEF ParserStart, Parsers, States
<1>8. /\ ParserStart.line = <<>> /\ ParserStart.data = <<>> /\ ParserStart.events = <<>>
      /\ ParserStart.state = "reading"
  BY DEF ParserStart
<1>9. <<>> \o <<>> = <<>>
  OBVIOUS
<1>10. InLine(ParserStart.line, t)
  BY <1>1, <1>4, <1>8 DEF InLine
<1>11. Reads(ParserStart, t)
  BY <1>3, <1>4, <1>5, <1>6, <1>8, <1>9, <1>10 DEF Reads
<1>. QED
  BY <1>7, <1>8, <1>11 DEF Follows, t
-----------------------------------------------------------------------------
(* An exchange that carries events: its parser has followed what came.     *)
Received(q) ==
  q.kind = "events" =>
    /\ q.wire \in Seq(Marks) /\ q.moved \in 0..Len(q.wire)
    /\ Follows(q.sse, First(q.wire, q.moved))
    /\ q.sse.state # "reading" =>
         q.at = "settled" /\ (q.sse.state = "malformed" => q.cause # "ok")

EventsInv == TransportInv /\ \A r \in Requests : Received(req[r])

\* s carries the stream of q as far as q has.
SameStream(s, q) == s.kind = q.kind /\ s.wire = q.wire /\ s.moved = q.moved /\ s.sse = q.sse
SameEnd(s, q) == s.at = q.at /\ s.cause = q.cause

LEMMA ExchangeReceives ==
  ASSUME EventsInv, NEW r \in Requests, NEW q, Change(r, q),
         \/ Received(q)
         \/ SameStream(q, req[r]) /\ (req[r].at # "settled" \/ SameEnd(q, req[r]))
  PROVE  \A k \in Requests : Received(req'[k])
<1>1. /\ req'[r] = q /\ \A k \in Requests : k # r => req'[k] = req[k]
  BY DEF Change, EventsInv, TransportInv
<1>2. Received(q)
  BY DEF EventsInv, SameStream, SameEnd, Received
<1>. QED
  BY <1>1, <1>2 DEF EventsInv

(* Ways out and answers leave the stream where it is.                      *)
LEMMA StreamStays ==
  ASSUME NEW q, IsExchange(q), NEW c
  PROVE  SameStream(Settled(q, c), q) /\ SameStream(Replies(q, c), q) /\ SameEnd(Replies(q, c), q)
BY DEF IsExchange, Fields, Settled, Replies, SameStream, SameEnd

LEMMA ClientStepReceives ==
  ASSUME EventsInv, NEW r \in Requests, ClientStep(r)
  PROVE  \A k \in Requests : Received(req'[k])
<1> DEFINE q == req[r]
<1>1. IsExchange(q) /\ Received(q)
  BY DEF EventsInv, TransportInv
<1>0. q.at # "settled"
  BY DEF ClientStep, Reacts, Pinned, Send, HeadArrives, ChunkArrives, BodyEnds, FileRemoved, EventsEnd,
     FailureSurfaces, EventsArrive
<1>2. ASSUME NEW s, Change(r, s), SameStream(s, q) PROVE \A k \in Requests : Received(req'[k])
  BY <1>0, <1>2, ExchangeReceives
<1>3. \A c : SameStream(Settled(q, c), q)
  BY <1>1, StreamStays
<1>4. ASSUME NEW s, NEW c, IsExchange(s), Change(r, Settled(s, c)), SameStream(s, q)
      PROVE  \A k \in Requests : Received(req'[k])
  <2> DEFINE e == Settled(s, c)
  <2>1. SameStream(e, s)
    BY <1>4, StreamStays
  <2>2. Change(r, e)
    BY <1>4
  <2>3. SameStream(e, q)
    BY <1>4, <2>1 DEF SameStream
  <2> HIDE DEF e
  <2>. QED
    BY <1>2, <2>2, <2>3
<1>5. CASE Pinned(r)
  <2> DEFINE s == [q EXCEPT !.at = "pinned"]
             e == [q EXCEPT !.at = "settled", !.cause = "mismatch", !.sock = "closed"]
  <2>1. SameStream(s, q) /\ SameStream(e, q)
    BY <1>1 DEF IsExchange, Fields, SameStream
  <2>2. Change(r, s) \/ Change(r, e)
    BY <1>5 DEF Pinned
  <2> HIDE DEF s, e
  <2>. QED
    BY <1>2, <2>1, <2>2
<1>6. CASE Send(r)
  <2> DEFINE s == [q EXCEPT !.at = "sent", !.sent = TRUE,
                     !.srv = IF q.server = "expected" THEN "arrived" ELSE @]
  <2>1. SameStream(s, q)
    BY <1>1 DEF IsExchange, Fields, SameStream
  <2>2. Change(r, s)
    BY <1>6 DEF Send
  <2> HIDE DEF s
  <2>. QED
    BY <1>2, <2>1, <2>2
<1>7. CASE HeadArrives(r)
  <2> DEFINE s == [q EXCEPT !.at = "receiving",
                     !.file = IF q.kind = "download" THEN "partial" ELSE @]
  <2>1. SameStream(s, q) /\ SameStream(q, q)
    BY <1>1 DEF IsExchange, Fields, SameStream
  <2>2. Change(r, s) \/ \E c : Change(r, Settled(q, c))
    BY <1>7 DEF HeadArrives
  <2> HIDE DEF s
  <2>. QED
    BY <1>1, <1>2, <1>4, <2>1, <2>2
<1>8. CASE ChunkArrives(r)
  <2> DEFINE s == [q EXCEPT !.moved = @ + 1]
             e == [q EXCEPT !.moved = @ + 1, !.at = "cleaning", !.cause = "too_large"]
  <2>1. q.kind = "download" /\ (Change(r, s) \/ Change(r, e))
    BY <1>8 DEF ChunkArrives
  <2>2. s.kind = q.kind /\ e.kind = q.kind
    BY <1>1 DEF IsExchange, Fields
  <2> HIDE DEF s, e
  <2>3. Received(s) /\ Received(e)
    BY <2>1, <2>2 DEF Received
  <2>. QED
    BY <2>1, <2>3, ExchangeReceives
<1>9. CASE BodyEnds(r) \/ FileRemoved(r)
  <2> DEFINE whole == [q EXCEPT !.file = "whole"]
             gone == [q EXCEPT !.file = "none"]
  <2>1. SameStream(whole, q) /\ SameStream(gone, q) /\ IsExchange(whole) /\ IsExchange(gone)
    BY <1>1 DEF IsExchange, Fields, SameStream
  <2>2. \E c : Change(r, Settled(whole, c)) \/ Change(r, Settled(gone, c))
    BY <1>9 DEF BodyEnds, FileRemoved
  <2> HIDE DEF whole, gone
  <2>. QED
    BY <1>4, <2>1, <2>2
<1>10. CASE EventsEnd(r) \/ FailureSurfaces(r)
  <2> DEFINE e == [q EXCEPT !.at = "cleaning", !.cause = "broken"]
  <2>1. SameStream(e, q) /\ SameStream(q, q)
    BY <1>1 DEF IsExchange, Fields, SameStream
  <2>2. Change(r, e) \/ \E c : Change(r, Settled(q, c))
    BY <1>10 DEF EventsEnd, FailureSurfaces
  <2> HIDE DEF e
  <2>. QED
    BY <1>1, <1>2, <1>4, <2>1, <2>2
<1>11. ASSUME NEW n \in 1..MaxTotal, EventsArrive(r, n)
       PROVE  \A k \in Requests : Received(req'[k])
  <2> DEFINE w == q.wire
             m == q.moved
             p == q.sse
             after == ParseChunk(p, SubSeq(w, m + 1, m + n))
             s == [q EXCEPT !.sse = after, !.moved = @ + n]
  <2>1. q.kind = "events" /\ m + n <= Len(w)
    BY <1>11 DEF EventsArrive
  <2>2. w \in Seq(Marks) /\ m \in 0..Len(w) /\ Follows(p, First(w, m))
    BY <1>1, <2>1 DEF Received
  <2>3. m \in Nat /\ n \in Nat /\ m + n \in 0..Len(w)
    BY <2>1, <2>2
  <2>4. s.kind = "events" /\ s.wire = w /\ s.moved = m + n /\ s.sse = after /\ IsExchange(s)
    BY <1>1, <2>1, <2>3 DEF IsExchange, Fields
  <2>5. IF after.state = "reading" THEN Change(r, s)
        ELSE Change(r, Settled(s, IF after.state = "done" THEN "ok" ELSE after.state))
    BY <1>11 DEF EventsArrive
  <2> HIDE DEF q, w, m, p, s
  <2>6. Follows(after, First(w, m + n))
    BY <2>1, <2>2, <2>3, ChunkRead
  <2> HIDE DEF after
  <2>7. CASE after.state = "reading"
    <3>1. Received(s)
      BY <2>2, <2>3, <2>4, <2>6, <2>7 DEF Received
    <3>. QED
      BY <2>5, <2>7, <3>1, ExchangeReceives
  <2>8. CASE after.state # "reading"
    <3> DEFINE c == IF after.state = "done" THEN "ok" ELSE after.state
               e == Settled(s, c)
    <3>1. SameStream(e, s) /\ Change(r, e)
      BY <2>4, <2>5, <2>8, StreamStays
    <3>2. e.at = "settled" /\ (after.state = "malformed" => e.cause # "ok")
      BY <2>4 DEF Settled, IsExchange, Fields
    <3> HIDE DEF e
    <3>3. Received(e)
      BY <2>2, <2>3, <2>4, <2>6, <3>1, <3>2 DEF SameStream, Received
    <3>. QED
      BY <3>1, <3>3, ExchangeReceives
  <2>. QED
    BY <2>7, <2>8
<1>. QED
  BY <1>5, <1>6, <1>7, <1>8, <1>9, <1>10, <1>11 DEF ClientStep, Reacts

LEMMA ServerStepReceives ==
  ASSUME EventsInv, NEW r \in Requests, ServerStep(r)
  PROVE  \A k \in Requests : Received(req'[k])
<1> DEFINE q == req[r]
<1>1. IsExchange(q)
  BY DEF EventsInv, TransportInv
<1>2. ASSUME NEW s, IsExchange(s), SameStream(s, q), SameEnd(s, q),
             Change(r, s) \/ \E answer : Change(r, Replies(s, answer))
      PROVE  \A k \in Requests : Received(req'[k])
  <2>1. CASE Change(r, s)
    BY <1>2, <2>1, ExchangeReceives
  <2>2. ASSUME NEW answer, Change(r, Replies(s, answer)) PROVE \A k \in Requests : Received(req'[k])
    <3> DEFINE e == Replies(s, answer)
    <3>1. SameStream(e, s) /\ SameEnd(e, s) /\ Change(r, e)
      BY <1>2, <2>2, StreamStays
    <3> HIDE DEF e
    <3>2. SameStream(e, q) /\ SameEnd(e, q)
      BY <1>2, <3>1 DEF SameStream, SameEnd
    <3>. QED
      BY <3>1, <3>2, ExchangeReceives
  <2>. QED
    BY <1>2, <2>1, <2>2
<1>3. CASE Arrives(r)
  <2> DEFINE g == [q EXCEPT !.gate = IF trust = "paired" THEN "paired" ELSE "unpaired"]
             h == [g EXCEPT !.srv = "handler"]
             b == [g EXCEPT !.srv = "body", !.temp = (g.kind = "upload")]
  <2>1. /\ IsExchange(g) /\ IsExchange(h) /\ IsExchange(b)
        /\ SameStream(g, q) /\ SameStream(h, q) /\ SameStream(b, q)
        /\ SameEnd(g, q) /\ SameEnd(h, q) /\ SameEnd(b, q)
    BY <1>1 DEF IsExchange, Fields, SameStream, SameEnd
  <2>2. Change(r, h) \/ Change(r, b) \/ Change(r, Replies(g, 401)) \/ Change(r, Replies(g, 404))
    <3>1. CASE g.kind # "pair" /\ trust # "paired"
      BY <1>3, <3>1 DEF Arrives
    <3>2. CASE g.kind = "unknown" /\ trust = "paired"
      BY <1>3, <3>2 DEF Arrives
    <3>3. CASE g.kind \in {"download", "events"} /\ trust = "paired"
      BY <1>3, <3>3 DEF Arrives
    <3>4. CASE /\ ~(g.kind # "pair" /\ trust # "paired")
               /\ ~(g.kind = "unknown" /\ trust = "paired")
               /\ ~(g.kind \in {"download", "events"} /\ trust = "paired")
      BY <1>3, <3>4 DEF Arrives
    <3>. QED
      BY <3>1, <3>2, <3>3, <3>4
  <2> HIDE DEF g, h, b
  <2>. QED
    BY <1>2, <2>1, <2>2
<1>4. CASE UploadRefused(r)
  <2> DEFINE g == [q EXCEPT !.gate = "paired"]
  <2>1. IsExchange(g) /\ SameStream(g, q) /\ SameEnd(g, q)
    BY <1>1 DEF IsExchange, Fields, SameStream, SameEnd
  <2>2. Change(r, Replies(g, 400))
    BY <1>4 DEF UploadRefused
  <2> HIDE DEF g
  <2>. QED
    BY <1>2, <2>1, <2>2
<1>5. CASE BodyArrives(r)
  <2> DEFINE more == [q EXCEPT !.got = @ + 1]
             over == [q EXCEPT !.got = @ + 1, !.temp = FALSE]
  <2>1. IsExchange(more) /\ SameStream(more, q) /\ IsExchange(over) /\ SameStream(over, q)
        /\ SameEnd(more, q) /\ SameEnd(over, q)
    BY <1>1 DEF IsExchange, Fields, SameStream, SameEnd
  <2>2. Change(r, more) \/ Change(r, Replies(over, 413))
    BY <1>5 DEF BodyArrives
  <2> HIDE DEF more, over
  <2>. QED
    BY <1>2, <2>1, <2>2
<1>6. CASE BodyComplete(r) \/ BodyBreaks(r) \/ Handler(r)
  <2> DEFINE h == [q EXCEPT !.srv = "handler"]
             f == [q EXCEPT !.temp = FALSE]
  <2>1. IsExchange(h) /\ SameStream(h, q) /\ IsExchange(f) /\ SameStream(f, q)
        /\ SameEnd(h, q) /\ SameEnd(f, q)
    BY <1>1 DEF IsExchange, Fields, SameStream, SameEnd
  <2>2. Change(r, h) \/ \E answer : Change(r, Replies(f, answer))
    BY <1>6 DEF BodyComplete, BodyBreaks, Handler
  <2> HIDE DEF h, f
  <2>. QED
    BY <1>2, <2>1, <2>2
<1>. QED
  BY <1>3, <1>4, <1>5, <1>6 DEF ServerStep

LEMMA EventsStep == EventsInv /\ [TransportNext]_transportVars => EventsInv'
<1> SUFFICES ASSUME EventsInv, [TransportNext]_transportVars PROVE EventsInv'
  OBVIOUS
<1>1. TransportInv'
  BY TransportStep DEF EventsInv
<1>2. CASE req' = req
  BY <1>1, <1>2 DEF EventsInv, Received
<1>3. ASSUME NEW r \in Requests, NEW k \in Kinds,
             NEW s \in {"expected", "impostor", "nocert"}, NEW n \in Sizes,
             NEW w \in Streams \cup {<<>>}, Connect(r, k, s, n, w)
      PROVE  \A i \in Requests : Received(req'[i])
  <2> DEFINE q == [Fresh(k, s, n) EXCEPT !.wire = w]
  <2>1. Change(r, q)
    BY <1>3 DEF Connect
  <2>2. q.wire = w /\ q.moved = 0 /\ q.sse = ParserStart /\ q.sse.state = "reading"
    BY DEF Fresh, ParserStart
  <2>3. w \in Seq(Marks)
    <3>1. <<>> \in Seq(Marks)
      OBVIOUS
    <3>. QED
      BY <3>1, StreamsAssumption
  <2> HIDE DEF q
  <2>4. First(w, 0) = <<>>
    BY SubSeqEmpty DEF First
  <2>5. Received(q)
    BY <2>2, <2>3, <2>4, NothingRead DEF Received
  <2>. QED
    BY <2>1, <2>5, ExchangeReceives
<1>4. ASSUME NEW r \in Requests, NEW how \in {"timedout", "reset"}, SocketDies(r, how)
      PROVE  \A i \in Requests : Received(req'[i])
  <2> DEFINE q == [req[r] EXCEPT !.sock = how]
  <2>1. Change(r, q) /\ req[r].at # "settled"
    BY <1>4 DEF SocketDies
  <2>2. SameStream(q, req[r])
    BY DEF EventsInv, TransportInv, IsExchange, Fields, SameStream
  <2> HIDE DEF q
  <2>. QED
    BY <2>1, <2>2, ExchangeReceives
<1>5. CASE Revoke \/ CancelOwned \/ UNCHANGED transportVars
  BY <1>2, <1>5, <1>1 DEF Revoke, CancelOwned, transportVars
<1>6. CASE \A i \in Requests : Received(req'[i])
  BY <1>1, <1>6 DEF EventsInv
<1>. QED
  BY <1>3, <1>4, <1>5, <1>6, ClientStepReceives, ServerStepReceives DEF TransportNext

(* However the stream of a job's events is cut into chunks, the client     *)
(* yields the records of what has come; unless a cap stops it, it stops    *)
(* with the first result, or at the first malformed record and then as a   *)
(* failure, and at nothing else (parseSseEvents).                          *)
THEOREM EventsArriveAsSent == TransportSpec => []EventsAsSent
<1>1. TransportInit => EventsInv
  <2> SUFFICES ASSUME TransportInit PROVE EventsInv
    OBVIOUS
  <2>1. \A r \in Requests : req[r].kind = "submit"
    BY DEF TransportInit, Idle, Fresh
  <2>2. \A r \in Requests : Received(req[r])
    BY <2>1 DEF Received
  <2>. QED
    BY <2>2, TransportStarts DEF EventsInv
<1>2. EventsInv /\ [TransportNext]_transportVars => EventsInv'
  BY EventsStep
<1>3. EventsInv => EventsAsSent
  <2> SUFFICES ASSUME EventsInv, NEW r \in Requests,
                      req[r].kind = "events", req[r].sse.state # "too_large"
               PROVE  LET q == req[r]
                          text == SubSeq(q.wire, 1, q.moved)
                      IN  /\ q.sse.events = RecordsOf(text) /\ q.sse.state = FateOf(text)
                          /\ q.sse.state = "malformed" => q.cause # "ok"
    BY DEF EventsAsSent
  <2> DEFINE q == req[r]
             t == First(q.wire, q.moved)
  <2>1. Follows(q.sse, t) /\ (q.sse.state = "malformed" => q.cause # "ok")
    BY DEF EventsInv, Received
  <2>2. q.sse.state \in {"reading", "done", "malformed"}
    BY <2>1 DEF Follows, Parsers, States
  <2>3. q.sse.state = "reading" => q.sse.events = RecordsOf(t) /\ FateOf(t) = "reading"
    BY <2>1 DEF Follows, Reads, FateOf
  <2>4. q.sse.state # "reading" => q.sse.events = RecordsOf(t) /\ FateOf(t) = q.sse.state
    BY <2>1, <2>2 DEF Follows
  <2>. QED
    BY <2>1, <2>3, <2>4 DEF First
<1>. QED
  BY <1>1, <1>2, <1>3, PTL DEF TransportSpec
=============================================================================
