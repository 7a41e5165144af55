--------------------------- MODULE ProcessProofs ---------------------------
(***************************************************************************)
(* Child processes and daemon processes: what safeSpawn answers is what    *)
(* happened to its child, for every order of calls, aborts, timers and     *)
(* exits; whoever answers as the daemon is the one whose token the file    *)
(* holds, with its components behind it, and a stop that reports success   *)
(* stopped a daemon, for any number of processes, commands and signals.    *)
(* Between the two, a job's execute(): what its result says is true of the *)
(* conversation, the commit and the child, for every budget, and what its  *)
(* tools leave out of their answers they say, for every input and cap.     *)
(***************************************************************************)
EXTENDS Executors, DaemonLifecycle, ListLemmas, SequenceTheorems, TLAPS

(* What SpawnTruth leaves unsaid of the fields between two steps: a child  *)
(* that ended has a code, an armed watchdog knows the reason of its kill,  *)
(* and a call that is not past its checks has touched nothing.             *)
FieldsAgree ==
  /\ spawn \in {"idle", "checking"} =>
       child = "none" /\ exit = "null" /\ killedBy = "none"
  /\ spawn = "running" => child \in {"running", "exited"}
  /\ child \in {"exited", "closed"} => exit # "null"
  /\ watchdog => killedBy # "none"
  /\ killedBy = "canceled" => aborted

SpawnInv == SpawnTypeOK /\ FieldsAgree /\ SpawnTruth

-----------------------------------------------------------------------------
(* Before the first call nothing is armed and nothing was answered. *)
LEMMA SpawnStarts == SpawnInit => SpawnInv
<1> SUFFICES ASSUME SpawnInit PROVE SpawnInv
  OBVIOUS
<1>1. outcome \in [kind : Kinds \cup {"none"}, exit : ExitCodes \cup {"null"}]
  BY DEF SpawnInit, NoOutcome
<1>2. SpawnTypeOK
  BY <1>1 DEF SpawnInit, SpawnTypeOK
<1>3. FieldsAgree /\ SpawnTruth
  BY DEF SpawnInit, FieldsAgree, SpawnTruth, OutcomeNamesTheEnd, NothingLeftArmed,
         SomethingSettles
<1>. QED
  BY <1>2, <1>3 DEF SpawnInv

(* A call that is refused, or goes on to its checks (spawn.ts:277-298). *)
LEMMA CallKeeps ==
  ASSUME SpawnInv, NEW listed \in BOOLEAN, SpawnCall(listed)
  PROVE  SpawnInv'
<1> USE DEF SpawnInv, SpawnTypeOK, FieldsAgree, SpawnTruth, OutcomeNamesTheEnd,
            NothingLeftArmed, SomethingSettles, NoOutcome, Kinds, ExitCodes
<1>1. CASE listed
  BY <1>1 DEF SpawnCall
<1>2. CASE ~listed
  BY <1>2 DEF SpawnCall, Answer
<1>. QED
  BY <1>1, <1>2

(* The checks end in an answer or in a running child (spawn.ts:300-354). *)
LEMMA CheckedKeeps ==
  ASSUME SpawnInv, NEW d \in BOOLEAN, NEW q \in BOOLEAN, NEW s \in BOOLEAN,
         SpawnChecked(d, q, s)
  PROVE  SpawnInv'
<1> USE DEF SpawnInv, SpawnTypeOK, FieldsAgree, SpawnTruth, OutcomeNamesTheEnd,
            NothingLeftArmed, SomethingSettles, NoOutcome, Kinds, ExitCodes
<1>1. CASE ~d
  BY <1>1 DEF SpawnChecked, Answer
<1>2. CASE d /\ aborted
  BY <1>2 DEF SpawnChecked, Answer
<1>3. CASE d /\ ~aborted /\ ~(q /\ s)
  BY <1>3 DEF SpawnChecked, Answer
<1>4. CASE d /\ ~aborted /\ q /\ s
  BY <1>4 DEF SpawnChecked
<1>. QED
  BY <1>1, <1>2, <1>3, <1>4

(* The kill path, by either reason, finds a running child and arms the     *)
(* watchdog, or finds one that exited and leaves it alone (spawn.ts:369).  *)
LEMMA KillKeeps ==
  ASSUME SpawnInv, TimerFires \/ Abort
  PROVE  SpawnInv'
<1>1. CASE Abort /\ ~listening
  <2>1. /\ aborted' = TRUE
        /\ UNCHANGED <<spawn, child, exit, killedBy, timer, watchdog, listening, outcome>>
    BY <1>1 DEF Abort
  <2>. QED
    BY <2>1 DEF SpawnInv, SpawnTypeOK, FieldsAgree, SpawnTruth, OutcomeNamesTheEnd,
                NothingLeftArmed, SomethingSettles
<1>2. CASE TimerFires \/ (Abort /\ listening)
  <2>1. /\ spawn = "running" /\ spawn' = "running" /\ child \in {"running", "exited"}
        /\ UNCHANGED <<child, exit, outcome>>
    BY <1>2 DEF SpawnInv, FieldsAgree, SpawnTruth, NothingLeftArmed, TimerFires, Abort
  <2>2. /\ timer' \in BOOLEAN /\ listening' \in BOOLEAN /\ aborted' \in BOOLEAN
        /\ aborted => aborted'
    BY <1>2 DEF SpawnInv, SpawnTypeOK, TimerFires, Abort
  <2>3. \/ UNCHANGED <<killedBy, watchdog>> /\ (killedBy # "none" \/ child = "exited")
        \/ killedBy' \in {"timeout", "canceled"} /\ watchdog' = TRUE
    BY <1>2, <2>1 DEF TimerFires, Abort, Kill
  <2>4. killedBy' = "canceled" => aborted'
    BY <1>2 DEF SpawnInv, FieldsAgree, TimerFires, Abort, Kill
  <2>5. SpawnTypeOK'
    BY <2>1, <2>2, <2>3 DEF SpawnInv, SpawnTypeOK
  <2>6. FieldsAgree'
    BY <2>1, <2>3, <2>4 DEF SpawnInv, FieldsAgree
  <2>7. SpawnTruth'
    BY <2>1, <2>3 DEF SpawnInv, SpawnTruth, OutcomeNamesTheEnd, NothingLeftArmed,
                      SomethingSettles
  <2>. QED
    BY <2>5, <2>6, <2>7 DEF SpawnInv
<1>. QED
  BY <1>1, <1>2

(* What settle writes is an outcome (spawn.ts:387).                        *)
LEMMA OutcomeTyped ==
  ASSUME NEW kind \in Kinds, NEW code \in ExitCodes \cup {"null"}
  PROVE  [kind |-> kind, exit |-> code] \in
           [kind : Kinds \cup {"none"}, exit : ExitCodes \cup {"null"}]
  OBVIOUS

(* The child's own end, and the watchdog of one that does not end.         *)
LEMMA EndKeeps ==
  ASSUME SpawnInv, Exits \/ ChildCloses \/ WatchdogFires
  PROVE  SpawnInv'
<1> USE DEF SpawnInv, SpawnTypeOK, FieldsAgree, SpawnTruth, OutcomeNamesTheEnd,
            NothingLeftArmed, SomethingSettles, NoOutcome, Kinds, ExitCodes
<1>1. CASE Exits
  BY <1>1 DEF Exits, ChildExits
<1>2. CASE WatchdogFires
  <2>1. spawn = "running" /\ killedBy \in Kinds
    BY <1>2 DEF WatchdogFires
  <2>2. /\ spawn' = "settled" /\ outcome' = [kind |-> killedBy, exit |-> "null"]
        /\ timer' = FALSE /\ watchdog' = FALSE /\ listening' = FALSE
        /\ UNCHANGED <<child, exit, killedBy, aborted>>
    BY <1>2, <2>1 DEF WatchdogFires, Settle
  <2>. QED
    BY <2>1, <2>2, OutcomeTyped
<1>3. CASE ChildCloses /\ spawn = "settled"
  BY <1>3 DEF ChildCloses, Settle
<1>4. CASE ChildCloses /\ spawn # "settled" /\ killedBy = "none"
  <2>1. spawn = "running" /\ exit \in ExitCodes /\ "completed" \in Kinds
    BY <1>4 DEF ChildCloses
  <2>2. /\ spawn' = "settled" /\ child' = "closed"
        /\ outcome' = [kind |-> "completed", exit |-> exit]
        /\ timer' = FALSE /\ watchdog' = FALSE /\ listening' = FALSE
        /\ UNCHANGED <<exit, killedBy, aborted>>
    BY <1>4, <2>1 DEF ChildCloses, Settle
  <2>. QED
    BY <1>4, <2>1, <2>2, OutcomeTyped
<1>5. CASE ChildCloses /\ spawn # "settled" /\ killedBy # "none"
  <2>1. spawn = "running" /\ child = "exited" /\ killedBy \in Kinds
    BY <1>5 DEF ChildCloses
  <2>2. /\ spawn' = "settled" /\ child' = "closed"
        /\ outcome' = [kind |-> killedBy, exit |-> "null"]
        /\ timer' = FALSE /\ watchdog' = FALSE /\ listening' = FALSE
        /\ UNCHANGED <<exit, killedBy, aborted>>
    BY <1>5, <2>1 DEF ChildCloses, Settle
  <2>3. SpawnTypeOK'
    BY <1>5, <2>1, <2>2, OutcomeTyped
  <2>4. OutcomeNamesTheEnd'
    BY <1>5, <2>1, <2>2
  <2>5. FieldsAgree'
    BY <2>1, <2>2
  <2>6. NothingLeftArmed' /\ SomethingSettles'
    BY <2>2
  <2>. QED
    BY <2>3, <2>4, <2>5, <2>6
<1>. QED
  BY <1>1, <1>2, <1>3, <1>4, <1>5

-----------------------------------------------------------------------------
(* Each step of the calls of a job, however often it spawns. *)
LEMMA SpawnSteps == SpawnInv /\ [Next]_svars => SpawnInv'
<1> SUFFICES ASSUME SpawnInv, [Next]_svars PROVE SpawnInv'
  OBVIOUS
<1>1. CASE Calls
  BY <1>1, CallKeeps DEF Calls
<1>2. CASE Checked
  BY <1>2, CheckedKeeps DEF Checked
<1>3. CASE Abort \/ TimerFires
  BY <1>3, KillKeeps
<1>4. CASE WatchdogFires \/ Exits \/ ChildCloses
  BY <1>4, EndKeeps
<1>5. CASE UNCHANGED svars
  BY <1>5 DEF svars, spawnVars, SpawnInv, SpawnTypeOK, FieldsAgree, SpawnTruth,
     OutcomeNamesTheEnd, NothingLeftArmed, SomethingSettles
<1>. QED
  BY <1>1, <1>2, <1>3, <1>4, <1>5 DEF Next, SpawnNext

(* The invariant holds of every call of a job, however often it spawns.    *)
THEOREM SpawnInvariant == Spec => []SpawnInv
BY SpawnStarts, SpawnSteps, PTL DEF Spec

(* An outcome names how the child ended, nothing stays armed once it is    *)
(* given, and until then something is armed or on its way that settles the *)
(* call (spawn.ts, settle and kill).                                       *)
THEOREM SpawnTellsTruth == Spec => []SpawnTruth
<1>1. SpawnInv => SpawnTruth
  BY DEF SpawnInv
<1>. QED
  BY <1>1, SpawnInvariant, PTL

-----------------------------------------------------------------------------
(***************************************************************************)
(* One job's execute() over its calls.                                     *)
(***************************************************************************)
ExecTypes ==
  /\ TypeOK
  /\ job \in [type : {"recon", "write", "command"},
              verify : {"none", "listed", "unlisted"}, endpoint : BOOLEAN]
  /\ turn \in Seq(ToolCalls)

(* What each phase has behind it: a result is given once, a command job    *)
(* never converses, only a write job that was declared done is finalized,  *)
(* and the call being answered is counted.                                 *)
PhasesAgree ==
  /\ phase = "start" => asked = 0 /\ answered = 0
  /\ phase # "done" => result = Pending
  /\ phase = "command" => job.type = "command"
  /\ phase \in ModelPhases => job.type # "command"
  /\ phase \in {"finalize", "verify", "verifying"} => declared /\ job.type = "write"
  /\ phase \in {"tool", "spawned", "answer"} => answered < used

(* A commit is of the whole tree, which holds every edit reported done. *)
CommitsWhole ==
  /\ acked \subseteq tree
  /\ phase \notin {"verify", "verifying", "done"} => committed = {}
  /\ phase \in {"verify", "verifying"} => committed = tree
  /\ committed # {} => declared /\ committed = tree

ExecInv == SpawnInv /\ ExecTypes /\ PhasesAgree /\ CommitsWhole /\ ResultTruthful

(* No phase has begun, nothing was asked or written. *)
LEMMA ExecStarts == Init => ExecInv
<1> SUFFICES ASSUME Init PROVE ExecInv
  OBVIOUS
<1>1. SpawnInv
  BY SpawnStarts DEF Init
<1>2. <<>> \in Seq(ToolCalls) /\ MaxToolCalls \in Nat
  BY BudgetsAssumption
<1>3. ExecTypes
  BY <1>1, <1>2 DEF Init, ExecTypes, TypeOK, SpawnInv, Pending
<1>4. PhasesAgree /\ CommitsWhole
  BY DEF Init, PhasesAgree, CommitsWhole, ModelPhases
<1>5. ResultTruthful
  BY <1>3 DEF Init, ResultTruthful, ConversationWellFormed, ExecTypes, Pending
<1>. QED
  BY <1>1, <1>3, <1>4, <1>5 DEF ExecInv

-----------------------------------------------------------------------------
(* The executor moves on and the call, if there was one, stays as it is. *)
Still == UNCHANGED <<svars, job, expired>>

LEMMA StillKeepsTheCall ==
  ASSUME ExecInv, Still
  PROVE  /\ SpawnInv' /\ SpawnTypeOK'
         /\ UNCHANGED <<job, expired, aborted, spawn, child, exit, killedBy, outcome>>
BY SpawnSteps DEF ExecInv, Still, svars, spawnVars, SpawnInv

(* A job that ends before anything was committed. *)
LEMMA EndingKeeps ==
  ASSUME ExecInv, Still, NEW status \in {"succeeded", "failed", "canceled"}, NEW code,
         Finish(status, code), UNCHANGED <<loopVars, workVars>>,
         status = "canceled" => aborted,
         code = "BUDGET_EXCEEDED" => committed = {} /\ (expired \/ used = MaxToolCalls),
         status = "succeeded" => 
            IF job.type = "command" THEN child = "closed" /\ exit = "zero" /\ killedBy = "none"
            ELSE job.type = "write" => committed = tree
  PROVE  ExecInv'
<1> USE DEF ExecInv, ExecTypes, PhasesAgree, CommitsWhole, ResultTruthful,
            ConversationWellFormed, TypeOK
<1>1. /\ SpawnInv' /\ SpawnTypeOK'
      /\ UNCHANGED <<job, expired, aborted, spawn, child, exit, killedBy, outcome>>
  BY StillKeepsTheCall
<1>2. /\ phase' = "done" /\ result' = [status |-> status, code |-> code]
      /\ result'.status = status /\ result'.code = code
      /\ UNCHANGED <<turn, used, asked, answered, tree, acked, declared, committed>>
  BY DEF Finish, loopVars, workVars
<1>3. ExecTypes'
  BY <1>1, <1>2
<1>4. PhasesAgree' /\ CommitsWhole'
  BY <1>1, <1>2 DEF ModelPhases
<1>5. ResultTruthful'
  BY <1>1, <1>2, <1>3
<1>. QED
  BY <1>1, <1>3, <1>4, <1>5
(* The gates of a model job, the ends of its turns, and what ends it       *)
(* between two of them (loop.ts:180-206).                                  *)
LEMMA BeginsKeep ==
  ASSUME ExecInv, BeginModelJob \/ LoopTop \/ TurnEnds
  PROVE  ExecInv'
<1> USE DEF ExecInv, ExecTypes, PhasesAgree, CommitsWhole, ResultTruthful,
            ConversationWellFormed, TypeOK, ModelPhases
<1>1. Still /\ UNCHANGED <<loopVars, workVars>>
  BY DEF BeginModelJob, LoopTop, TurnEnds, Still
<1>2. \/ phase = "start" /\ job.type # "command" /\ GoTo("loop")
      \/ phase = "calls" /\ turn = <<>> /\ GoTo("loop")
      \/ phase = "loop" /\ GoTo("chat")
      \/ phase = "start" /\ job.type # "command" /\ Finish("failed", "COMMAND_NOT_ALLOWED")
      \/ phase = "start" /\ job.type # "command" /\ Finish("failed", "INTERNAL")
      \/ phase = "loop" /\ aborted /\ Finish("canceled", "CANCELED")
      \/ phase = "loop" /\ expired /\ Finish("failed", "BUDGET_EXCEEDED")
  BY DEF BeginModelJob, LoopTop, TurnEnds
<1>3. CASE \E p \in {"loop", "chat"} : GoTo(p)
  <2>1. /\ SpawnInv' /\ SpawnTypeOK'
        /\ UNCHANGED <<job, expired, aborted, spawn, child, exit, killedBy, outcome>>
    BY <1>1, StillKeepsTheCall
  <2>2. phase \in {"start", "loop", "calls"} /\ phase' \in {"loop", "chat"}
        /\ job.type # "command" /\ UNCHANGED result
    BY <1>2, <1>3 DEF GoTo, Finish
  <2>3. UNCHANGED <<turn, used, asked, answered, tree, acked, declared, committed>>
    BY <1>1 DEF loopVars, workVars
  <2>4. asked = answered
    BY <1>2, <1>3 DEF GoTo, Finish
  <2>. QED
    BY <2>1, <2>2, <2>3, <2>4
<1>4. CASE \E status \in {"failed", "canceled"} :
             \E code \in {"COMMAND_NOT_ALLOWED", "INTERNAL", "CANCELED", "BUDGET_EXCEEDED"} :
               /\ Finish(status, code)
               /\ status = "canceled" => aborted
               /\ code = "BUDGET_EXCEEDED" => expired /\ phase = "loop"
  <2>1. PICK status \in {"failed", "canceled"},
             code \in {"COMMAND_NOT_ALLOWED", "INTERNAL", "CANCELED", "BUDGET_EXCEEDED"} :
               /\ Finish(status, code)
               /\ status = "canceled" => aborted
               /\ code = "BUDGET_EXCEEDED" => expired /\ phase = "loop"
    BY <1>4
  <2>2. code = "BUDGET_EXCEEDED" => committed = {}
    BY <2>1
  <2>. HIDE DEF ExecInv
  <2>. QED
    BY <1>1, <2>1, <2>2, EndingKeeps
<1>. QED
  BY <1>2, <1>3, <1>4

(* A command job's outcome is its result (command-executor.ts). *)
LEMMA CommandEndsKeeps ==
  ASSUME ExecInv, CommandEnds
  PROVE  ExecInv'
<1> DEFINE How(status, code) ==
             /\ Finish(status, code) /\ code # "BUDGET_EXCEEDED"
             /\ status = "canceled" => aborted
             /\ status = "succeeded" => child = "closed" /\ exit = "zero" /\ killedBy = "none"
<1>1. Still /\ UNCHANGED <<loopVars, workVars>> /\ job.type = "command"
  BY DEF CommandEnds, Still, ExecInv, PhasesAgree
<1>2. /\ outcome.kind \in Kinds
      /\ outcome.kind = "completed" => killedBy = "none" /\ child = "closed" /\ outcome.exit = exit
      /\ outcome.kind = "canceled" => aborted
  BY DEF CommandEnds, ExecInv, SpawnInv, SpawnTruth, OutcomeNamesTheEnd
<1>3. \E status \in {"succeeded", "failed", "canceled"} :
        \E code \in {"none", "INTERNAL", "TIMEOUT", "CANCELED", "REFUSED"} : How(status, code)
  BY <1>2 DEF CommandEnds, Kinds
<1>. QED
  BY <1>1, <1>3, EndingKeeps

(* The model concludes, calls tools, or does not answer at all. *)
LEMMA ModelKeeps ==
  ASSUME ExecInv, Model \/ FetchAborts \/ EndpointFails
  PROVE  ExecInv'
<1> USE DEF ExecInv, ExecTypes, PhasesAgree, CommitsWhole, ResultTruthful,
            ConversationWellFormed, TypeOK, ModelPhases
<1>1. Still
  BY DEF Model, ModelConcludes, ModelCallsTools, FetchAborts, EndpointFails, ChatThrows, Still
<1>2. phase = "chat" /\ job.type \in {"recon", "write"} /\ asked = answered
  BY DEF Model, ModelConcludes, ModelCallsTools, FetchAborts, EndpointFails
<1>3. /\ SpawnInv' /\ SpawnTypeOK'
      /\ UNCHANGED <<job, expired, aborted, spawn, child, exit, killedBy, outcome>>
  BY <1>1, StillKeepsTheCall
<1>4. CASE ModelConcludes /\ job.type = "recon"
  <2>1. Finish("succeeded", "none") /\ UNCHANGED <<loopVars, workVars>>
    BY <1>4 DEF ModelConcludes, workVars
  <2>. QED
    BY <1>1, <1>4, <2>1, EndingKeeps
<1>5. CASE ModelConcludes /\ job.type # "recon"
  <2>1. /\ phase' = "finalize" /\ declared' = TRUE
        /\ UNCHANGED <<result, turn, used, asked, answered, tree, acked, committed>>
    BY <1>5 DEF ModelConcludes, GoTo, loopVars
  <2>. QED
    BY <1>2, <1>3, <1>5, <2>1
<1>6. CASE \E calls \in Turns : ModelCallsTools(calls)
  <2>1. PICK calls \in Turns : ModelCallsTools(calls)
    BY <1>6
  <2>2. calls \in Seq(ToolCalls) /\ Len(calls) \in Nat
    BY BudgetsAssumption DEF Turns
  <2>3. /\ phase' = "calls" /\ turn' = calls /\ asked' = asked + Len(calls)
        /\ UNCHANGED <<result, used, answered, tree, acked, declared, committed>>
    BY <2>1 DEF ModelCallsTools, GoTo, workVars
  <2>4. asked' \in Nat /\ asked' = answered' + Len(turn')
    BY <1>2, <2>2, <2>3
  <2>5. ExecTypes' 
    BY <1>3, <2>2, <2>3, <2>4
  <2>. QED
    BY <1>2, <1>3, <2>3, <2>4, <2>5
<1>7. CASE ChatThrows
  <2>1. UNCHANGED <<loopVars, workVars>>
    BY <1>7 DEF ChatThrows
  <2>2. \/ Finish("canceled", "CANCELED") /\ aborted
        \/ Finish("failed", "BUDGET_EXCEEDED") /\ expired
        \/ Finish("failed", "INTERNAL")
    BY <1>7 DEF ChatThrows
  <2>. QED
    BY <1>1, <1>2, <2>1, <2>2, EndingKeeps
<1>. QED
  BY <1>4, <1>5, <1>6, <1>7 DEF Model, FetchAborts, EndpointFails

-----------------------------------------------------------------------------
(* A terminal call hands over, or is refused; a spent budget ends the job; *)
(* any other call is counted and taken (loop.ts:207-240).                  *)
LEMMA DispatchKeeps ==
  ASSUME ExecInv, Concludes \/ ToolBudgetSpent \/ Dispatch
  PROVE  ExecInv'
<1> USE DEF ExecInv, ExecTypes, PhasesAgree, CommitsWhole, ResultTruthful,
            ConversationWellFormed, TypeOK, ModelPhases
<1>1. Still /\ phase = "calls" /\ turn # <<>>
  BY DEF Concludes, TerminalCall, ToolBudgetSpent, Dispatch, Dispatchable, Still
<1>2. /\ SpawnInv' /\ SpawnTypeOK'
      /\ UNCHANGED <<job, expired, aborted, spawn, child, exit, killedBy, outcome>>
  BY <1>1, StillKeepsTheCall
<1>3. CASE TerminalCall(TRUE)
  <2>1. /\ phase' = "finalize" /\ declared' = TRUE
        /\ UNCHANGED <<result, turn, used, asked, answered, tree, acked, committed>>
    BY <1>3 DEF TerminalCall, GoTo, loopVars
  <2>2. job.type = "write"
    BY <1>3 DEF TerminalCall, Terminal
  <2>. QED
    BY <1>1, <1>2, <2>1, <2>2
<1>4. CASE TerminalCall(FALSE)
  <2>1. Finish("failed", "INTERNAL") /\ UNCHANGED <<loopVars, workVars>>
    BY <1>4 DEF TerminalCall, workVars
  <2>. HIDE DEF ExecInv
  <2>. QED
    BY <1>1, <2>1, EndingKeeps
<1>5. CASE ToolBudgetSpent
  <2>1. Finish("failed", "BUDGET_EXCEEDED") /\ UNCHANGED <<loopVars, workVars>>
    BY <1>5 DEF ToolBudgetSpent
  <2>2. used = MaxToolCalls /\ committed = {}
    BY <1>1, <1>5, BudgetsAssumption DEF ToolBudgetSpent
  <2>. HIDE DEF ExecInv
  <2>. QED
    BY <1>1, <2>1, <2>2, EndingKeeps
<1>6. CASE Dispatch
  <2>1. /\ used < MaxToolCalls /\ used' = used + 1 /\ turn' = Tail(turn) /\ phase' = "tool"
        /\ UNCHANGED <<result, asked, answered, tree, acked, declared, committed>>
    BY <1>6 DEF Dispatch, GoTo, workVars
  <2>2. turn' \in Seq(ToolCalls) /\ Len(turn) = Len(turn') + 1
    BY <1>1, <2>1
  <2>3. used' \in 0..MaxToolCalls /\ answered' \in 0..used' /\ answered' < used'
    BY <2>1, BudgetsAssumption
  <2>4. asked' = answered' + Len(turn') + 1
    BY <1>1, <2>1, <2>2
  <2>5. ExecTypes'
    BY <1>2, <2>1, <2>2, <2>3
  <2>. QED
    BY <1>1, <1>2, <2>1, <2>2, <2>3, <2>4, <2>5
<1>. QED
  BY <1>3, <1>4, <1>5, <1>6 DEF Concludes

(* A tool leaves its answer to be pushed, and the edits it made. *)
LEMMA AnswerKeeps ==
  ASSUME ExecInv, phase \in {"tool", "spawned"}, Still,
         GoTo("answer"), UNCHANGED <<loopVars, declared, committed>>,
         acked' \subseteq tree'
  PROVE  ExecInv'
<1> USE DEF ExecInv, ExecTypes, PhasesAgree, CommitsWhole, ResultTruthful,
            ConversationWellFormed, TypeOK, ModelPhases
<1>1. /\ SpawnInv' /\ SpawnTypeOK'
      /\ UNCHANGED <<job, expired, aborted, spawn, child, exit, killedBy, outcome>>
  BY StillKeepsTheCall
<1>2. phase' = "answer"
      /\ UNCHANGED <<result, turn, used, asked, answered, declared, committed>>
  BY DEF GoTo, loopVars
<1>3. ExecTypes'
  BY <1>1, <1>2
<1>4. committed' = {} /\ result' = Pending
  BY <1>2
<1>. QED
  BY <1>1, <1>2, <1>3, <1>4 DEF Pending

(* Every tool that answers at once, or throws (tools.ts, write-tools.ts),  *)
(* and the command that was waited for.                                    *)
LEMMA ToolsKeep ==
  ASSUME ExecInv, ToolFails \/ ReadTool \/ Writes \/ CommandAnswers
  PROVE  ExecInv'
<1>1. acked \subseteq tree
  BY DEF ExecInv, CommitsWhole
<1>2. /\ phase \in {"tool", "spawned"} /\ GoTo("answer")
      /\ UNCHANGED <<svars, job, loopVars, expired, declared, committed>>
  BY DEF ToolFails, ReadTool, Writes, WriteFile, EditTool, CommandAnswers, Executing,
         ToolAnswers
<1>3. acked' \subseteq tree'
  BY <1>1 DEF ToolFails, ReadTool, Writes, WriteFile, EditTool, CommandAnswers
<1>4. Still
  BY <1>2 DEF Still
<1>. QED
  BY <1>2, <1>3, <1>4, AnswerKeeps

(* The answer is pushed, and the job's signal asked (loop.ts:258-268). *)
LEMMA PushKeeps ==
  ASSUME ExecInv, PushAnswer
  PROVE  ExecInv'
<1> USE DEF ExecInv, ExecTypes, PhasesAgree, CommitsWhole, ResultTruthful,
            ConversationWellFormed, TypeOK, ModelPhases
<1>1. /\ SpawnInv' /\ SpawnTypeOK'
      /\ UNCHANGED <<job, expired, aborted, spawn, child, exit, killedBy, outcome>>
  <2>1. Still
    BY DEF PushAnswer, Still
  <2>. QED
    BY <2>1, StillKeepsTheCall
<1>2. /\ phase = "answer" /\ answered' = answered + 1
      /\ UNCHANGED <<turn, used, asked, tree, acked, declared, committed>>
  BY DEF PushAnswer, workVars
<1>3. \/ aborted /\ phase' = "done" /\ result' = [status |-> "canceled", code |-> "CANCELED"]
      \/ ~aborted /\ phase' = "calls" /\ UNCHANGED result
  BY DEF PushAnswer, Finish, GoTo
<1>4. result'.status \in {"none", "canceled"} /\ result'.code \in {"none", "CANCELED"}
      /\ (result'.status = "canceled" => aborted)
  BY <1>2, <1>3 DEF Pending
<1>5. answered' \in 0..used /\ asked = answered' + Len(turn)
  BY <1>2, BudgetsAssumption
<1>6. ExecTypes'
  BY <1>1, <1>2, <1>3, <1>4, <1>5
<1>7. PhasesAgree' /\ CommitsWhole'
  BY <1>1, <1>2, <1>3
<1>. QED
  BY <1>1, <1>2, <1>3, <1>4, <1>5, <1>6, <1>7

-----------------------------------------------------------------------------
(* finalize commits, or throws before or after it did; a verify is only    *)
(* reported (write-executor.ts).                                           *)
LEMMA FinalizesKeeps ==
  ASSUME ExecInv, Finalizes
  PROVE  ExecInv'
<1> USE DEF ExecInv, ExecTypes, PhasesAgree, CommitsWhole, ResultTruthful,
            ConversationWellFormed, TypeOK, ModelPhases
<1>1. /\ SpawnInv' /\ SpawnTypeOK'
      /\ UNCHANGED <<job, expired, aborted, spawn, child, exit, killedBy, outcome>>
  <2>1. Still
    BY DEF Finalizes, FinalizeReturns, FinalizeThrows, Still
  <2>. QED
    BY <2>1, StillKeepsTheCall
<1>2. /\ phase = "finalize" /\ declared /\ job.type = "write" /\ acked \subseteq tree
      /\ UNCHANGED <<turn, used, asked, answered, tree, acked, declared>>
      /\ committed' \in {{}, tree}
  BY DEF Finalizes, FinalizeReturns, FinalizeThrows, loopVars
<1>3. \/ /\ phase' = "done" /\ committed' = tree
         /\ result' = [status |-> "succeeded", code |-> "none"]
      \/ phase' = "verify" /\ committed' = tree /\ UNCHANGED result
      \/ aborted /\ phase' = "done" /\ result' = [status |-> "canceled", code |-> "CANCELED"]
      \/ phase' = "done" /\ result' = [status |-> "failed", code |-> "INTERNAL"]
  BY DEF Finalizes, FinalizeReturns, FinalizeThrows, Finish, GoTo
<1>4. /\ result'.status \in {"none", "succeeded", "failed", "canceled"}
      /\ result'.code # "BUDGET_EXCEEDED"
      /\ result'.status = "canceled" => aborted
      /\ result'.status = "succeeded" => committed' = tree
  BY <1>2, <1>3 DEF Pending
<1>5. ExecTypes'
  BY <1>1, <1>2, <1>3, <1>4
<1>6. PhasesAgree' /\ CommitsWhole'
  BY <1>1, <1>2, <1>3
<1>. QED
  BY <1>1, <1>2, <1>3, <1>4, <1>5, <1>6

LEMMA VerifyEndsKeeps ==
  ASSUME ExecInv, VerifyEnds
  PROVE  ExecInv'
<1>1. Still /\ UNCHANGED <<loopVars, workVars>> /\ Finish("succeeded", "none")
  BY DEF VerifyEnds, Still
<1>2. job.type = "write" /\ committed = tree
  BY DEF VerifyEnds, ExecInv, PhasesAgree, CommitsWhole
<1>. QED
  BY <1>1, <1>2, EndingKeeps

-----------------------------------------------------------------------------
(* A call is made, or moves on by itself, or is aborted, and the job goes  *)
(* to the phase that waits for it, or its wall budget runs out.            *)
LEMMA CallsKeep ==
  ASSUME ExecInv, phase # "done",
         SpawnNext \/ Calls \/ Abort \/ (UNCHANGED svars /\ (expired => expired')),
         UNCHANGED <<job, loopVars, workVars, result>>,
         \/ UNCHANGED phase
         \/ phase = "start" /\ job.type = "command" /\ phase' = "command"
         \/ phase = "tool" /\ phase' = "spawned"
         \/ phase = "verify" /\ phase' = "verifying"
  PROVE  ExecInv'
<1> USE DEF ExecInv, ExecTypes, PhasesAgree, CommitsWhole, ResultTruthful,
            ConversationWellFormed, TypeOK, ModelPhases
<1>1. [Next]_svars
  BY DEF Next
<1>2. SpawnInv' /\ SpawnTypeOK'
  BY <1>1, SpawnSteps DEF SpawnInv
<1>3. UNCHANGED <<turn, used, asked, answered, tree, acked, declared, committed>>
  BY DEF loopVars, workVars
<1>4. result' = Pending /\ result'.status = "none" /\ result'.code = "none"
  BY DEF Pending
<1>5. ExecTypes'
  BY <1>2, <1>3, <1>4
<1>6. PhasesAgree' /\ CommitsWhole'
  BY <1>3
<1>. QED
  BY <1>2, <1>3, <1>4, <1>5, <1>6

LEMMA ExecSteps == ExecInv /\ [ExecNext]_vars => ExecInv'
<1> SUFFICES ASSUME ExecInv, [ExecNext]_vars PROVE ExecInv'
  OBVIOUS
<1>1. CASE BeginModelJob \/ LoopTop \/ TurnEnds
  BY <1>1, BeginsKeep
<1>2. CASE BeginCommandJob
  <2>1. SpawnCall(CommandsListed) /\ phase = "start" /\ phase' = "command"
        /\ job.type = "command" /\ UNCHANGED <<job, loopVars, workVars, result>>
    BY <1>2 DEF BeginCommandJob, GoTo
  <2>2. Calls
    BY <2>1, BudgetsAssumption DEF Calls
  <2>. QED
    BY <2>1, <2>2, CallsKeep
<1>3. CASE PushAnswer
  BY <1>3, PushKeeps
<1>4. CASE Model \/ FetchAborts \/ EndpointFails
  BY <1>4, ModelKeeps
<1>5. CASE Concludes \/ ToolBudgetSpent \/ Dispatch
  BY <1>5, DispatchKeeps
<1>6. CASE ToolFails \/ ReadTool \/ Writes \/ CommandAnswers
  BY <1>6, ToolsKeep
<1>7. CASE RunCommand
  <2>1. Calls /\ phase = "tool" /\ phase' = "spawned"
        /\ UNCHANGED <<job, loopVars, workVars, result>>
    BY <1>7 DEF RunCommand, Executing, Calls, GoTo
  <2>. QED
    BY <2>1, CallsKeep
<1>8. CASE CommandEnds
  BY <1>8, CommandEndsKeeps
<1>9. CASE VerifyStarts
  <2>1. SpawnCall(CommandsListed) /\ phase = "verify" /\ phase' = "verifying"
        /\ UNCHANGED <<job, loopVars, workVars, result>>
    BY <1>9 DEF VerifyStarts, GoTo
  <2>2. Calls
    BY <2>1, BudgetsAssumption DEF Calls
  <2>. QED
    BY <2>1, <2>2, CallsKeep
<1>10. CASE VerifyEnds
  BY <1>10, VerifyEndsKeeps
<1>11. CASE Finalizes
  BY <1>11, FinalizesKeeps
<1>12. CASE SpawnStep \/ AbortJob
  <2>1. (SpawnNext \/ Abort) /\ phase # "done" /\ UNCHANGED phase
        /\ UNCHANGED <<job, loopVars, workVars, result>>
    BY <1>12 DEF SpawnStep, AbortJob
  <2>. QED
    BY <2>1, CallsKeep
<1>13. CASE WallBudgetRunsOut
  <2>1. UNCHANGED svars /\ (expired => expired') /\ phase # "done" /\ UNCHANGED phase
        /\ UNCHANGED <<job, loopVars, workVars, result>>
    BY <1>13 DEF WallBudgetRunsOut
  <2>. QED
    BY <2>1, CallsKeep
<1>14. CASE UNCHANGED vars
  <2>1. Still
    BY <1>14 DEF vars, Still
  <2>2. SpawnInv' /\ SpawnTypeOK'
        /\ UNCHANGED <<job, expired, aborted, spawn, child, exit, killedBy, outcome>>
    BY <2>1, StillKeepsTheCall
  <2>3. UNCHANGED <<phase, turn, used, asked, answered, tree, acked, declared, committed,
                    result>>
    BY <1>14 DEF vars, loopVars, workVars
  <2>. QED
    BY <2>2, <2>3 DEF ExecInv, ExecTypes, PhasesAgree, CommitsWhole, ResultTruthful,
                      ConversationWellFormed, TypeOK
<1>. QED
  BY <1>1, <1>2, <1>3, <1>4, <1>5, <1>6, <1>7, <1>8, <1>9, <1>10, <1>11, <1>12, <1>13, <1>14
     DEF ExecNext, Begins, ToolStep, Ends

(* The invariant of execute(), for every budget, turn and tool answer. *)
THEOREM ExecInductive == ExecSpec => []ExecInv
BY ExecStarts, ExecSteps, PTL DEF ExecSpec

(* Nothing half finished is committed, a budget failure leaves no commit,  *)
(* and canceled and succeeded are said of what was aborted and of what     *)
(* ended well (write-executor.ts:15-19, loop.ts:180-268).                  *)
THEOREM ResultsAreTrue == ExecSpec => []ResultTruthful
<1>1. ExecInv => ResultTruthful
  BY DEF ExecInv
<1>. QED
  BY <1>1, ExecInductive, PTL

-----------------------------------------------------------------------------
(***************************************************************************)
(* What the agent's tools answer.                                          *)
(***************************************************************************)
(* What running totals are.                                                *)
LEMMA SumsOf ==
  ASSUME NEW s \in Seq(Nat)
  PROVE  /\ Sums(s) \in [0..Len(s) -> Nat] /\ Sums(s)[0] = 0
         /\ \A n \in 1..Len(s) : Sums(s)[n] = Sums(s)[n - 1] + s[n]
<1> DEFINE N == Len(s)
           Unfolds(f) == f = [n \in 0..N |-> IF n = 0 THEN 0 ELSE f[n - 1] + s[n]]
           step == [n \in 1..N |-> [a \in Nat |-> a + s[n]]]
<1>1. N \in Nat /\ \A n \in 1..N : s[n] \in Nat
  OBVIOUS
<1>2. Sums(s) = CHOOSE f : Unfolds(f)
  BY DEF Sums
<1>3. step \in Steps(Nat, N)
  BY <1>1 DEF Steps
<1>4. \A a \in Nat, n \in 1..N : step[n][a] = a + s[n]
  OBVIOUS
<1> HIDE DEF step, N
<1>5. PICK f : Takes(f, Nat, N, 0, step)
  <2> DEFINE Numbers == Nat
             zero == 0
  <2>1. zero \in Numbers /\ step \in Steps(Numbers, N) /\ N \in Nat
    BY <1>1, <1>3
  <2> HIDE DEF Numbers, zero
  <2>2. \E f : Takes(f, Numbers, N, zero, step)
    BY <2>1, StepsExist
  <2>. QED
    BY <2>2 DEF Numbers, zero
<1>6. f \in [0..N -> Nat] /\ f[0] = 0 /\ \A n \in 1..N : f[n] = f[n - 1] + s[n]
  <2>1. \A n \in 1..N : f[n - 1] \in Nat
    BY <1>1, <1>5 DEF Takes
  <2>. QED
    BY <1>4, <1>5, <2>1 DEF Takes
<1>7. Unfolds(f)
  <2>1. \A n \in 0..N : f[n] = IF n = 0 THEN 0 ELSE f[n - 1] + s[n]
    BY <1>1, <1>6
  <2>. QED
    BY <1>6, <2>1
<1>8. Unfolds(Sums(s))
  BY <1>2, <1>7
<1>9. \A n \in 0..N : Sums(s)[n] = IF n = 0 THEN 0 ELSE Sums(s)[n - 1] + s[n]
  BY <1>8
<1>10. /\ Sums(s)[0] = 0
       /\ \A n \in 1..N : Sums(s)[n] = Sums(s)[n - 1] + s[n]
  BY <1>1, <1>9
<1> DEFINE Good == {n \in 0..N : Sums(s)[n] \in Nat}
<1>11. \A n \in 0..N : n \in Good
  <2>1. 0 \in Good
    BY <1>1, <1>10
  <2>2. ASSUME NEW n \in 1..N, n - 1 \in Good PROVE n \in Good
    <3>1. Sums(s)[n - 1] \in Nat /\ s[n] \in Nat /\ Sums(s)[n] = Sums(s)[n - 1] + s[n]
      BY <1>1, <1>10, <2>2
    <3>. QED
      BY <1>1, <3>1
  <2> HIDE DEF Good
  <2>. QED
    BY <1>1, <2>1, <2>2, AllAlong
<1>. QED
  BY <1>8, <1>10, <1>11 DEF N

(* They never fall.                                                        *)
LEMMA SumsGrow ==
  ASSUME NEW s \in Seq(Nat), NEW k \in 0..Len(s), NEW n \in 0..Len(s), k <= n
  PROVE  Sums(s)[k] <= Sums(s)[n]
<1> DEFINE t == Sums(s)
           N == Len(s)
           Good == {m \in 0..N : k <= m => t[k] <= t[m]}
<1>1. /\ N \in Nat /\ t \in [0..N -> Nat] /\ t[0] = 0
      /\ \A m \in 1..N : t[m] = t[m - 1] + s[m] /\ s[m] \in Nat
  BY SumsOf
<1> HIDE DEF t
<1>2. 0 \in Good
  BY <1>1
<1>3. ASSUME NEW m \in 1..N, m - 1 \in Good PROVE m \in Good
  <2>1. m \in 0..N /\ m - 1 \in 0..N
    BY <1>1
  <2>2. t[m] = t[m - 1] + s[m] /\ s[m] \in Nat /\ t[m - 1] \in Nat /\ t[m] \in Nat /\ t[k] \in Nat
    BY <1>1, <2>1
  <2>3. k <= m - 1 => t[k] <= t[m - 1]
    BY <1>3
  <2>4. k <= m => t[k] <= t[m]
    <3>1. CASE k = m
      BY <2>2, <3>1
    <3>2. CASE k # m
      <4>1. k <= m => k <= m - 1
        BY <1>1, <3>2
      <4>. QED
        BY <2>2, <2>3, <4>1
    <3>. QED
      BY <3>1, <3>2
  <2>. QED
    BY <2>1, <2>4
<1>4. \A m \in 0..N : m \in Good
  <2> HIDE DEF Good, N
  <2>. QED
    BY <1>1, <1>2, <1>3, AllAlong
<1>. QED
  BY <1>4 DEF t

(* When no character is empty, each starts past the ones before it.        *)
LEMMA CharactersApart ==
  ASSUME NEW s \in Seq(Nat \ {0}), NEW k \in 0..Len(s), NEW n \in 0..Len(s), k < n
  PROVE  Sums(s)[k] + 1 <= Sums(s)[n]
<1>1. s \in Seq(Nat)
  OBVIOUS
<1> DEFINE t == Sums(s)
           m == k + 1
<1>2. m \in 0..Len(s) /\ m \in 1..Len(s) /\ m <= n /\ m - 1 = k /\ s[m] \in Nat \ {0}
  OBVIOUS
<1>3. t \in [0..Len(s) -> Nat] /\ t[m] = t[m - 1] + s[m]
  BY <1>1, <1>2, SumsOf
<1> HIDE DEF m
<1>4. Sums(s)[m] <= Sums(s)[n]
  BY <1>1, <1>2, SumsGrow
<1>5. t[m] <= t[n]
  BY <1>4
<1> HIDE DEF t
<1>6. t[k] \in Nat /\ t[n] \in Nat /\ t[m] = t[k] + s[m]
  BY <1>2, <1>3
<1>7. t[k] + 1 <= t[n]
  BY <1>2, <1>5, <1>6
<1>. QED
  BY <1>7 DEF t

ByteKinds == {"lead", "more"}

(* A character leads with its first byte only.                             *)
LEMMA CharOf ==
  ASSUME NEW width \in Nat
  PROVE  /\ Char(width) \in Seq(ByteKinds) /\ Len(Char(width)) = width
         /\ \A i \in 1..width : Char(width)[i] = "lead" <=> i = 1
<1> DEFINE c == Char(width)
<1>1. c \in [1..width -> ByteKinds]
  BY DEF Char, ByteKinds
<1>2. c \in Seq(ByteKinds)
  BY <1>1, IsASeq
<1>. QED
  BY <1>1, <1>2 DEF Char

\* The bytes of n characters that end where t says.
Marked(bytes, t, n) ==
  /\ bytes \in Seq(ByteKinds) /\ Len(bytes) = t[n]
  /\ \A b \in 1..t[n] : bytes[b] = "lead" <=> \E k \in 0..(n - 1) : b = t[k] + 1

(* The bytes that lead are the first of each character.                    *)
LEMMA EncodedIs ==
  ASSUME NEW s \in Seq(Nat \ {0})
  PROVE  Marked(Encoded(s), Sums(s), Len(s))
<1> DEFINE N == Len(s)
           t == Sums(s)
           Unfolds(f) == f = [n \in 0..N |-> IF n = 0 THEN <<>> ELSE f[n - 1] \o Char(s[n])]
           step == [n \in 1..N |-> [a \in Seq(ByteKinds) |-> a \o Char(s[n])]]
<1>1. N \in Nat /\ \A n \in 1..N : s[n] \in Nat \ {0}
  OBVIOUS
<1>2. ASSUME NEW n \in 1..N
      PROVE  /\ Char(s[n]) \in Seq(ByteKinds) /\ Len(Char(s[n])) = s[n]
             /\ \A i \in 1..s[n] : Char(s[n])[i] = "lead" <=> i = 1
  <2> DEFINE width == s[n]
  <2>1. width \in Nat
    BY <1>1
  <2> HIDE DEF width
  <2>2. /\ Char(width) \in Seq(ByteKinds) /\ Len(Char(width)) = width
        /\ \A i \in 1..width : Char(width)[i] = "lead" <=> i = 1
    BY <2>1, CharOf
  <2>. QED
    BY <2>2 DEF width
<1>3. step \in Steps(Seq(ByteKinds), N)
  <2>1. \A n \in 1..N, a \in Seq(ByteKinds) : a \o Char(s[n]) \in Seq(ByteKinds)
    BY <1>2, ConcatProperties
  <2>. QED
    BY <2>1 DEF Steps
<1>4. \A a \in Seq(ByteKinds), n \in 1..N : step[n][a] = a \o Char(s[n])
  OBVIOUS
<1>5. Encoded(s) = (CHOOSE f : Unfolds(f))[N]
  BY DEF Encoded
<1>6. t \in [0..N -> Nat] /\ t[0] = 0 /\ \A n \in 1..N : t[n] = t[n - 1] + s[n]
  BY SumsOf
<1>7. \A k, n \in 0..N : k < n => t[k] + 1 <= t[n]
  BY CharactersApart
<1> HIDE DEF step, N, t
<1>8. PICK f : Takes(f, Seq(ByteKinds), N, <<>>, step)
  <2> DEFINE Texts == Seq(ByteKinds)
             empty == <<>>
  <2>1. empty \in Texts /\ step \in Steps(Texts, N) /\ N \in Nat
    BY <1>1, <1>3
  <2> HIDE DEF Texts, empty
  <2>2. \E f : Takes(f, Texts, N, empty, step)
    BY <2>1, StepsExist
  <2>. QED
    BY <2>2 DEF Texts, empty
<1>9. f \in [0..N -> Seq(ByteKinds)] /\ f[0] = <<>> /\ \A n \in 1..N : f[n] = f[n - 1] \o Char(s[n])
  <2>1. \A n \in 1..N : f[n - 1] \in Seq(ByteKinds)
    BY <1>1, <1>8 DEF Takes
  <2>. QED
    BY <1>4, <1>8, <2>1 DEF Takes
<1>10. Unfolds(f)
  <2>1. ASSUME NEW n \in 0..N
        PROVE  f[n] = IF n = 0 THEN <<>> ELSE f[n - 1] \o Char(s[n])
    <3>1. CASE n = 0
      BY <1>9, <3>1
    <3>2. CASE n # 0
      <4>1. n \in 1..N
        BY <1>1, <3>2
      <4>. QED
        BY <1>9, <3>2, <4>1
    <3>. QED
      BY <3>1, <3>2
  <2>2. DOMAIN f = 0..N
    BY <1>9
  <2>3. f = [n \in 0..N |-> f[n]]
    BY <1>9
  <2>. QED
    BY <2>1, <2>3
<1> DEFINE bytes == CHOOSE g : Unfolds(g)
           Good == {n \in 0..N : Marked(bytes[n], t, n)}
<1>11. Unfolds(bytes)
  BY <1>10
<1>12. \A n \in 0..N : bytes[n] = IF n = 0 THEN <<>> ELSE bytes[n - 1] \o Char(s[n])
  BY <1>11
<1> HIDE DEF bytes
<1>13. 0 \in Good
  <2>1. bytes[0] = <<>> /\ 0 \in 0..N
    BY <1>1, <1>12
  <2>2. <<>> \in Seq(ByteKinds) /\ Len(<<>>) = 0
    OBVIOUS
  <2>3. Marked(bytes[0], t, 0)
    BY <1>6, <2>1, <2>2 DEF Marked
  <2>. QED
    BY <2>1, <2>3
<1>14. ASSUME NEW n \in 1..N, n - 1 \in Good PROVE n \in Good
  <2> DEFINE before == bytes[n - 1]
             last == Char(s[n])
             start == t[n - 1]
  <2>1. n \in 0..N /\ n - 1 \in 0..N /\ Marked(before, t, n - 1) /\ n # 0
    BY <1>1, <1>14
  <2>0. bytes[n] = before \o last
    BY <1>12, <2>1
  <2>2. before \in Seq(ByteKinds) /\ Len(before) = start
    BY <2>1 DEF Marked
  <2>3. last \in Seq(ByteKinds) /\ Len(last) = s[n] /\ s[n] \in Nat \ {0}
    BY <1>1, <1>2
  <2>4. start \in Nat /\ t[n] = start + s[n] /\ t[n] \in Nat
    BY <1>6, <2>1
  <2>5. \A b \in 1..start : before[b] = "lead" <=> \E k \in 0..(n - 2) : b = t[k] + 1
    <3>1. (n - 1) - 1 = n - 2
      BY <1>1
    <3>. QED
      BY <2>1, <3>1 DEF Marked
  <2>6. \A i \in 1..s[n] : last[i] = "lead" <=> i = 1
    BY <1>2
  <2> HIDE DEF before, last
  <2>7. /\ before \o last \in Seq(ByteKinds) /\ Len(before \o last) = start + s[n]
        /\ \A b \in 1..(start + s[n]) :
             (before \o last)[b] = IF b <= start THEN before[b] ELSE last[b - start]
    <3> DEFINE Markers == ByteKinds
    <3>1. before \in Seq(Markers) /\ last \in Seq(Markers)
      BY <2>2, <2>3
    <3> HIDE DEF Markers
    <3>2. before \o last \in Seq(Markers) /\ Len(before \o last) = Len(before) + Len(last)
      BY <3>1, ConcatProperties
    <3>3. \A b \in 1..(Len(before) + Len(last)) :
            (before \o last)[b] = IF b <= Len(before) THEN before[b] ELSE last[b - Len(before)]
      BY <3>1, ConcatProperties
    <3>. QED
      BY <2>2, <2>3, <3>2, <3>3 DEF Markers
  <2>8. ASSUME NEW b \in 1..t[n]
        PROVE  bytes[n][b] = "lead" <=> \E k \in 0..(n - 1) : b = t[k] + 1
    <3>1. b \in 1..(start + s[n])
      BY <2>4
    <3>2. bytes[n][b] = IF b <= start THEN before[b] ELSE last[b - start]
      BY <2>0, <2>7, <3>1
    <3>3. CASE b <= start
      <4>1. b # t[n - 1] + 1
        BY <2>4, <3>3
      <4>2. (\E k \in 0..(n - 1) : b = t[k] + 1) <=> (\E k \in 0..(n - 2) : b = t[k] + 1)
        <5>1. \A k \in 0..(n - 1) : k \in 0..(n - 2) \/ k = n - 1
          BY <1>1
        <5>2. \A k \in 0..(n - 2) : k \in 0..(n - 1)
          BY <1>1
        <5>. QED
          BY <4>1, <5>1, <5>2, Zenon
      <4>. QED
        BY <2>4, <2>5, <3>2, <3>3, <4>2
    <3>4. CASE start < b
      <4>1. \A k \in 0..(n - 2) : b # t[k] + 1
        <5>1. \A k \in 0..(n - 2) : k \in 0..N /\ k < n - 1
          BY <1>1
        <5>. QED
          BY <1>6, <1>7, <2>1, <2>4, <3>4, <5>1
      <4>2. (\E k \in 0..(n - 1) : b = t[k] + 1) <=> b = start + 1
        <5>1. \A k \in 0..(n - 1) : k \in 0..(n - 2) \/ k = n - 1
          BY <1>1
        <5>2. n - 1 \in 0..(n - 1)
          BY <1>1
        <5>. QED
          BY <4>1, <5>1, <5>2, Zenon
      <4>3. b - start \in 1..s[n] /\ bytes[n][b] = last[b - start]
        BY <2>3, <2>4, <3>1, <3>2, <3>4
      <4>4. bytes[n][b] = "lead" <=> b - start = 1
        BY <2>6, <4>3
      <4>. QED
        BY <2>4, <3>4, <4>2, <4>4
    <3>. QED
      BY <2>4, <3>3, <3>4
  <2>. QED
    BY <2>0, <2>1, <2>4, <2>7, <2>8 DEF Marked
<1>15. \A n \in 0..N : n \in Good
  <2> HIDE DEF Good
  <2>. QED
    BY <1>1, <1>13, <1>14, AllAlong
<1>16. N \in 0..N
  BY <1>1
<1>17. Marked(bytes[N], t, N)
  BY <1>15, <1>16
<1>. QED
  BY <1>5, <1>17 DEF bytes, t, N

(* The read is cut where the last character that fits ends.                *)
LEMMA CutIsAtAnEnd ==
  ASSUME NEW s \in Seq(Nat \ {0}), NEW max \in Nat, NEW k \in 0..(Len(s) - 1),
         Sums(s)[k] <= max, max < Sums(s)[k + 1]
  PROVE  /\ Cut(s, max) = Sums(s)[k]
         /\ \A j \in 0..Len(s) : Sums(s)[j] <= max => Sums(s)[j] <= Sums(s)[k]
         /\ Sums(s)[k] # Bytes(s) /\ ~(Bytes(s) <= max)
<1> DEFINE N == Len(s)
           t == Sums(s)
           bytes == Encoded(s)
           next == k + 1
<1>1. N \in Nat /\ s \in Seq(Nat) /\ k \in 0..N /\ next \in 0..N /\ N \in 0..N
  OBVIOUS
<1>2. t \in [0..N -> Nat] /\ t[0] = 0
  BY <1>1, SumsOf
<1>3. \A i, j \in 0..N : i <= j => t[i] <= t[j]
  BY <1>1, SumsGrow
<1>4. Marked(bytes, t, N)
  BY EncodedIs
<1>5. Bytes(s) = t[N]
  BY DEF Bytes, Total
<1> HIDE DEF t, bytes, N
<1>6. t[k] <= max /\ max < t[next] /\ t[next] <= t[N] /\ t[k] \in Nat /\ t[N] \in Nat /\ t[next] \in Nat
  <2>1. t[k] <= max /\ max < t[next]
    BY DEF t
  <2>2. next <= N
    BY <1>1 DEF N
  <2>. QED
    BY <1>1, <1>2, <1>3, <2>1, <2>2
<1>7. \A j \in 0..N : t[j] <= max => t[j] <= t[k]
  <2>1. SUFFICES ASSUME NEW j \in 0..N, t[j] <= max PROVE t[j] <= t[k]
    OBVIOUS
  <2>2. ~(next <= j)
    BY <1>1, <1>2, <1>3, <1>6, <2>1
  <2>3. j <= k
    BY <1>1, <2>2
  <2>. QED
    BY <1>1, <1>3, <2>3
<1>8. Cut(s, max) = t[k]
  <2> DEFINE Cuts == {c \in 0..max : c = 0 \/ bytes[c + 1] = "lead"}
             at == t[k]
  <2>1. \A c \in 0..max : bytes[c + 1] = "lead" <=> \E j \in 0..(N - 1) : c = t[j]
    <3>1. SUFFICES ASSUME NEW c \in 0..max
                   PROVE  bytes[c + 1] = "lead" <=> \E j \in 0..(N - 1) : c = t[j]
      OBVIOUS
    <3>2. c + 1 \in 1..t[N]
      BY <1>6
    <3>3. bytes[c + 1] = "lead" <=> \E j \in 0..(N - 1) : c + 1 = t[j] + 1
      BY <1>4, <3>2 DEF Marked
    <3>4. \A j \in 0..(N - 1) : c + 1 = t[j] + 1 <=> c = t[j]
      <4>1. SUFFICES ASSUME NEW j \in 0..(N - 1) PROVE c + 1 = t[j] + 1 <=> c = t[j]
        OBVIOUS
      <4>2. t[j] \in Nat /\ c \in Nat
        BY <1>1, <1>2
      <4>. QED
        BY <4>2
    <3>. QED
      BY <3>3, <3>4, Zenon
  <2>2. Cuts \in SUBSET Nat
    OBVIOUS
  <2>3. at \in Cuts
    <3>1. at \in 0..max
      BY <1>6
    <3>2. k \in 0..(N - 1)
      BY DEF N
    <3>3. bytes[at + 1] = "lead"
      BY <2>1, <3>1, <3>2
    <3>. QED
      BY <3>1, <3>3
  <2>4. \A c \in Cuts : c <= at
    <3>1. SUFFICES ASSUME NEW c \in Cuts PROVE c <= at
      OBVIOUS
    <3>2. CASE c = 0
      BY <1>6, <3>2
    <3>3. CASE c # 0
      <4>1. PICK j \in 0..(N - 1) : c = t[j]
        BY <2>1, <3>3
      <4>. QED
        BY <1>1, <1>7, <4>1
    <3>. QED
      BY <3>2, <3>3
  <2>5. Cut(s, max) = Max(Cuts)
    BY DEF Cut, bytes
  <2> HIDE DEF Cuts, at
  <2>6. Max(Cuts) = at
    BY <2>2, <2>3, <2>4, MaxIs
  <2>. QED
    BY <2>5, <2>6 DEF at
<1>. QED
  BY <1>5, <1>6, <1>7, <1>8 DEF t, N

(* A capped read is honest whatever the text.                              *)
LEMMA ReadIsHonest ==
  ASSUME NEW s \in Seq(Nat \ {0})
  PROVE  ReadHonest(s, ReadFile(s))
<1> DEFINE N == Len(s)
           t == Sums(s)
           max == MaxReadBytes
           Fits == {t[n] : n \in 0..N}
           Kept == {b \in Fits : b <= max}
           out == ReadFile(s)
<1>1. N \in Nat /\ s \in Seq(Nat) /\ max \in Nat
  BY CapsAssumption
<1>2. t \in [0..N -> Nat] /\ t[0] = 0
  BY <1>1, SumsOf
<1>3. Bytes(s) = t[N] /\ t[N] \in Nat
  BY <1>1, <1>2 DEF Bytes, Total
<1>4. Kept \in SUBSET Nat
  BY <1>2
<1>5. ReadHonest(s, out) <=> out.bytes = Max(Kept) /\ (out.marked <=> out.bytes # Bytes(s))
  BY DEF ReadHonest
<1>6. CASE t[N] <= max
  <2> DEFINE all == t[N]
  <2>1. out = [bytes |-> all, marked |-> FALSE]
    BY <1>3, <1>6 DEF ReadFile, DecodeUtf8Capped
  <2>2. all \in Kept
    BY <1>1, <1>6
  <2>3. \A n \in 0..N : t[n] <= all
    <3>1. \A n \in 0..N : n <= N /\ N \in 0..N
      BY <1>1
    <3>. QED
      BY <1>1, <3>1, SumsGrow
  <2>4. \A b \in Kept : b <= all
    BY <2>3
  <2> HIDE DEF Kept, all, out
  <2>5. Max(Kept) = all
    BY <1>4, <2>2, <2>4, MaxIs
  <2>. QED
    BY <1>3, <1>5, <2>1, <2>5 DEF all, out
<1>7. CASE max < t[N]
  <2>1. PICK k \in 0..(N - 1) : t[k] <= max /\ max < t[k + 1]
    <3> DEFINE Good == {n \in 0..N : t[n] <= max}
    <3>1. SUFFICES ASSUME \A n \in 0..(N - 1) : t[n] <= max => ~(max < t[n + 1]) PROVE FALSE
      OBVIOUS
    <3>2. 0 \in Good
      BY <1>1, <1>2
    <3>3. ASSUME NEW n \in 1..N, n - 1 \in Good PROVE n \in Good
      <4>1. n - 1 \in 0..(N - 1) /\ (n - 1) + 1 = n /\ n \in 0..N
        BY <1>1
      <4>2. ~(max < t[n])
        BY <3>1, <3>3, <4>1
      <4>3. t[n] \in Nat
        BY <1>2, <4>1
      <4>. QED
        BY <1>1, <4>1, <4>2, <4>3
    <3>4. \A n \in 0..N : n \in Good
      <4> HIDE DEF Good, N
      <4>. QED
        BY <1>1, <3>2, <3>3, AllAlong
    <3>5. t[N] <= max
      BY <1>1, <3>4
    <3>. QED
      BY <1>1, <1>3, <1>7, <3>5
  <2> DEFINE at == t[k]
  <2>2. /\ Cut(s, max) = at
        /\ \A j \in 0..N : t[j] <= max => t[j] <= at
        /\ at # Bytes(s) /\ ~(Bytes(s) <= max)
    <3>1. k \in 0..(Len(s) - 1) /\ Sums(s)[k] <= max /\ max < Sums(s)[k + 1]
      BY <2>1
    <3> HIDE DEF max
    <3>. QED
      BY <1>1, <3>1, CutIsAtAnEnd
  <2>3. out = [bytes |-> at, marked |-> TRUE]
    BY <2>2 DEF ReadFile, DecodeUtf8Capped
  <2>4. at \in Kept
    BY <1>1, <2>1
  <2>5. \A b \in Kept : b <= at
    BY <2>2
  <2> HIDE DEF Kept, at, out
  <2>6. Max(Kept) = at
    BY <1>4, <2>4, <2>5, MaxIs
  <2>. QED
    BY <1>5, <2>2, <2>3, <2>6 DEF out
<1>. QED
  BY <1>1, <1>3, <1>6, <1>7

(* A capped list is honest.                                                *)
LEMMA GlobIsHonest ==
  ASSUME NEW found \in Nat
  PROVE  GlobHonest(found, Glob(found))
<1>1. MaxGlob \in Nat
  BY CapsAssumption
<1>2. Min({found, MaxGlob}) = IF found <= MaxGlob THEN found ELSE MaxGlob
  BY <1>1, LesserIs
<1> DEFINE out == Glob(found)
<1>3. out.paths = Min({found, MaxGlob}) /\ (out.marked <=> found > MaxGlob)
  BY DEF Glob
<1>4. out.paths # found <=> found > MaxGlob
  BY <1>1, <1>2, <1>3
<1>. QED
  BY <1>3, <1>4, Zenon DEF GlobHonest

(* An edit is honest.                                                      *)
LEMMA EditIsHonest ==
  ASSUME NEW text \in Seq(Nat \ {0}), NEW old, NEW new \in Nat \ {0}, NEW max \in Nat
  PROVE  EditHonest(text, old, max, EditFile(text, old, new, max))
<1> DEFINE at == Occurrences(text, old)
           edited == [i \in DOMAIN text |-> IF i \in at THEN new ELSE text[i]]
           out == EditFile(text, old, new, max)
           refused == Bytes(text) > max \/ Cardinality(at) # 1 \/ Bytes(edited) > max
<1>1. out = IF refused THEN [isError |-> TRUE, text |-> text]
            ELSE [isError |-> FALSE, text |-> edited]
  BY DEF EditFile
<1>2. edited \in Seq(Nat)
  <2>1. edited \in [1..Len(text) -> Nat]
    OBVIOUS
  <2>. QED
    BY <2>1, IsASeq
<1>3. \A i \in DOMAIN text : text[i] # old => edited[i] = text[i]
  BY DEF Occurrences
<1> HIDE DEF edited
<1>4. Bytes(edited) \in Nat
  <2>1. Len(edited) \in 0..Len(edited)
    BY <1>2
  <2>. QED
    BY <1>2, <2>1, SumsOf DEF Bytes, Total
<1>5. CASE refused
  BY <1>1, <1>5 DEF EditHonest
<1>6. CASE ~refused
  <2>1. out = [isError |-> FALSE, text |-> edited]
    BY <1>1, <1>6
  <2>2. Cardinality(at) = 1 /\ Bytes(edited) <= max
    BY <1>4, <1>6
  <2> HIDE DEF out, at, refused
  <2>3. out.isError = FALSE /\ out.text = edited
    BY <2>1
  <2>. QED
    BY <1>3, <2>2, <2>3 DEF EditHonest, at, out
<1>. QED
  BY <1>5, <1>6

Scans == [matches : Nat, capped : BOOLEAN, skipped : Nat, bytesCapped : BOOLEAN, total : Nat]
Listed == [size : Nat, hits : Nat, gone : BOOLEAN]

LEMMA HitsAre ==
  ASSUME NEW file \in Listed
  PROVE  Hits(file) \in Nat /\ (~file.gone => Hits(file) = file.hits)
BY DEF Hits, Listed

\* What the scan knows, of the matches in the files met so far.
Scanned(scan, found) ==
  /\ scan \in Scans
  /\ scan.matches <= MaxMatches /\ scan.total <= MaxTotalBytes
  /\ scan.capped => scan.matches = MaxMatches
  /\ ~scan.capped /\ ~scan.bytesCapped /\ scan.skipped = 0 => scan.matches = found

(* One more file keeps it.                                                 *)
LEMMA ScanKeeps ==
  ASSUME NEW scan \in Scans, NEW file \in Listed, NEW found \in Nat, Scanned(scan, found)
  PROVE  Scanned(ScanFile(scan, file), found + Hits(file))
<1> DEFINE next == ScanFile(scan, file)
           matches == scan.matches
           hits == Hits(file)
<1>1. /\ matches \in Nat /\ scan.total \in Nat /\ scan.skipped \in Nat
      /\ scan.capped \in BOOLEAN /\ scan.bytesCapped \in BOOLEAN
      /\ hits \in Nat /\ file.size \in Nat /\ (~file.gone => file.hits = hits)
      /\ (file.gone => hits = 0)
  BY HitsAre DEF Scans, Listed, Hits
<1>2. MaxMatches \in Nat /\ MaxTotalBytes \in Nat /\ MaxFileBytes \in Nat
  BY CapsAssumption
<1> HIDE DEF hits
<1>3. CASE scan.capped \/ scan.bytesCapped \/ file.gone
  <2>1. next = scan
    BY <1>3 DEF ScanFile
  <2> HIDE DEF next
  <2>2. ~scan.capped /\ ~scan.bytesCapped => found + hits = found
    BY <1>1, <1>3
  <2>. QED
    BY <2>1, <2>2 DEF Scanned, next, hits
<1>4. CASE ~(scan.capped \/ scan.bytesCapped \/ file.gone) /\ file.size > MaxFileBytes
  <2>1. next = [scan EXCEPT !.skipped = @ + 1]
    BY <1>4 DEF ScanFile
  <2>2. /\ next.matches = matches /\ next.total = scan.total /\ next.skipped = scan.skipped + 1
        /\ next.capped = scan.capped /\ next.bytesCapped = scan.bytesCapped
    BY <2>1 DEF Scans
  <2>3. next \in Scans
    BY <1>1, <2>1 DEF Scans
  <2>. QED
    BY <1>1, <1>4, <2>2, <2>3 DEF Scanned
<1>5. CASE /\ ~(scan.capped \/ scan.bytesCapped \/ file.gone) /\ ~(file.size > MaxFileBytes)
           /\ scan.total + file.size > MaxTotalBytes
  <2>1. next = [scan EXCEPT !.bytesCapped = TRUE]
    BY <1>5 DEF ScanFile
  <2>2. /\ next.matches = matches /\ next.total = scan.total
        /\ next.capped = scan.capped /\ next.bytesCapped
    BY <2>1 DEF Scans
  <2>3. next \in Scans
    BY <1>1, <2>1 DEF Scans
  <2>. QED
    BY <1>1, <1>5, <2>2, <2>3 DEF Scanned
<1>6. CASE /\ ~(scan.capped \/ scan.bytesCapped \/ file.gone) /\ ~(file.size > MaxFileBytes)
           /\ ~(scan.total + file.size > MaxTotalBytes)
  <2> DEFINE all == matches + hits
             kept == Min({all, MaxMatches})
             over == all > MaxMatches
  <2>1. next = [scan EXCEPT !.total = @ + file.size, !.matches = kept, !.capped = over]
    BY <1>1, <1>6 DEF ScanFile
  <2>2. all \in Nat /\ kept = IF all <= MaxMatches THEN all ELSE MaxMatches
    BY <1>1, <1>2, LesserIs
  <2>3. over \in BOOLEAN
    OBVIOUS
  <2>0. over <=> ~(all <= MaxMatches)
    BY <1>2, <2>2
  <2> HIDE DEF kept, over, next, all
  <2>4. /\ next.matches = kept /\ next.total = scan.total + file.size
        /\ next.capped = over /\ next.bytesCapped = scan.bytesCapped
        /\ next.skipped = scan.skipped
    BY <2>1 DEF Scans
  <2>5. kept \in Nat
    BY <1>2, <2>2
  <2>6. next \in Scans
    <3>1. scan.total + file.size \in Nat
      BY <1>1
    <3>. QED
      BY <1>1, <2>1, <2>3, <2>5, <3>1 DEF Scans
  <2>7. next.matches <= MaxMatches /\ next.total <= MaxTotalBytes
    BY <1>1, <1>2, <1>6, <2>2, <2>4
  <2>8. next.capped => next.matches = MaxMatches
    BY <1>2, <2>0, <2>2, <2>4
  <2>9. ~next.capped => next.matches = all
    BY <1>2, <2>0, <2>2, <2>4
  <2>10. scan.skipped = 0 => matches = found
    BY <1>6 DEF Scanned
  <2>. QED
    BY <2>4, <2>6, <2>7, <2>8, <2>9, <2>10 DEF Scanned, next, all, hits
<1>. QED
  BY <1>3, <1>4, <1>5, <1>6

(* A grep is honest whatever the files.                                    *)
LEMMA GrepIsHonest ==
  ASSUME NEW files \in Seq(Listed)
  PROVE  GrepHonest(files, Grep(files))
<1> DEFINE N == Len(files)
           hits == [i \in DOMAIN files |-> Hits(files[i])]
           h == Sums(hits)
           Unfolds(f) == f = [n \in 0..N |-> IF n = 0 THEN NoScan ELSE ScanFile(f[n - 1], files[n])]
           step == [n \in 1..N |-> [a \in Scans |-> ScanFile(a, files[n])]]
<1>1. N \in Nat
  OBVIOUS
<1>2. \A n \in 1..N : files[n] \in Listed
  BY ElementOfSeq
<1>3. hits \in Seq(Nat) /\ Len(hits) = N /\ \A n \in 1..N : hits[n] = Hits(files[n])
  <2>1. \A n \in 1..N : Hits(files[n]) \in Nat
    BY <1>2, HitsAre
  <2>2. hits \in [1..N -> Nat]
    BY <2>1
  <2>. QED
    BY <1>1, <2>2, IsASeq
<1> HIDE DEF hits
<1>4. h \in [0..N -> Nat] /\ h[0] = 0 /\ \A n \in 1..N : h[n] = h[n - 1] + Hits(files[n])
  <2>1. h \in [0..N -> Nat] /\ h[0] = 0 /\ \A n \in 1..N : h[n] = h[n - 1] + hits[n]
    BY <1>3, SumsOf
  <2>. QED
    BY <1>3, <2>1
<1>5. Total(hits) = h[N]
  BY <1>3 DEF Total
<1>6. step \in Steps(Scans, N)
  <2>1. SUFFICES ASSUME NEW n \in 1..N, NEW a \in Scans PROVE ScanFile(a, files[n]) \in Scans
    BY DEF Steps
  <2> DEFINE file == files[n]
             matches == Min({a.matches + file.hits, MaxMatches})
  <2>2. file.size \in Nat /\ file.hits \in Nat
    BY <1>2 DEF Listed
  <2>3. a.matches \in Nat /\ a.skipped + 1 \in Nat /\ a.total + file.size \in Nat
    BY <2>2 DEF Scans
  <2>4. matches \in Nat
    <3> DEFINE all == a.matches + file.hits
    <3>1. all \in Nat /\ MaxMatches \in Nat
      BY <2>2, <2>3, CapsAssumption
    <3> HIDE DEF all
    <3>2. Min({all, MaxMatches}) = IF all <= MaxMatches THEN all ELSE MaxMatches
      BY <3>1, LesserIs
    <3>. QED
      BY <3>1, <3>2 DEF all
  <2> DEFINE over == a.matches + file.hits > MaxMatches
             total == a.total + file.size
  <2>0. over \in BOOLEAN /\ total \in Nat
    BY <2>3
  <2> HIDE DEF matches
  <2>5. ScanFile(a, file) \in
          {a, [a EXCEPT !.skipped = @ + 1], [a EXCEPT !.bytesCapped = TRUE],
           [a EXCEPT !.total = total, !.matches = matches, !.capped = over]}
    BY DEF ScanFile, matches
  <2> HIDE DEF over, total
  <2>6. [a EXCEPT !.skipped = @ + 1] \in Scans
    BY <2>3 DEF Scans
  <2>7. [a EXCEPT !.bytesCapped = TRUE] \in Scans
    BY DEF Scans
  <2>8. [a EXCEPT !.total = total, !.matches = matches, !.capped = over] \in Scans
    BY <2>0, <2>4 DEF Scans
  <2>. QED
    BY <2>5, <2>6, <2>7, <2>8
<1>7. \A a \in Scans, n \in 1..N : step[n][a] = ScanFile(a, files[n])
  OBVIOUS
<1>8. Grep(files) = (CHOOSE f : Unfolds(f))[N]
  BY DEF Grep
<1>9. NoScan \in Scans /\ Scanned(NoScan, 0)
  BY CapsAssumption DEF NoScan, Scans, Scanned
<1> HIDE DEF step, N, h
<1>10. PICK f : Takes(f, Scans, N, NoScan, step)
  BY <1>1, <1>6, <1>9, StepsExist
<1>11. f \in [0..N -> Scans] /\ f[0] = NoScan /\ \A n \in 1..N : f[n] = ScanFile(f[n - 1], files[n])
  <2>1. \A n \in 1..N : f[n - 1] \in Scans
    BY <1>1, <1>10 DEF Takes
  <2>. QED
    BY <1>7, <1>10, <2>1 DEF Takes
<1>12. Unfolds(f)
  <2>1. ASSUME NEW n \in 0..N
        PROVE  f[n] = IF n = 0 THEN NoScan ELSE ScanFile(f[n - 1], files[n])
    <3>1. CASE n = 0
      BY <1>11, <3>1
    <3>2. CASE n # 0
      <4>1. n \in 1..N
        BY <1>1, <3>2
      <4>. QED
        BY <1>11, <3>2, <4>1
    <3>. QED
      BY <3>1, <3>2
  <2>2. f = [n \in 0..N |-> f[n]]
    BY <1>11
  <2>. QED
    BY <2>1, <2>2
<1> DEFINE scan == CHOOSE g : Unfolds(g)
           Good == {n \in 0..N : Scanned(scan[n], h[n])}
<1>13. Unfolds(scan)
  BY <1>12
<1>14. \A n \in 0..N : scan[n] = IF n = 0 THEN NoScan ELSE ScanFile(scan[n - 1], files[n])
  BY <1>13
<1> HIDE DEF scan
<1>15. 0 \in Good
  BY <1>1, <1>4, <1>9, <1>14
<1>16. ASSUME NEW n \in 1..N, n - 1 \in Good PROVE n \in Good
  <2> DEFINE before == scan[n - 1]
             file == files[n]
             found == h[n - 1]
  <2>1. n \in 0..N /\ n # 0 /\ n - 1 \in 0..N
    BY <1>1
  <2>2. scan[n] = ScanFile(before, file) /\ h[n] = found + Hits(file) /\ found \in Nat
    BY <1>4, <1>14, <2>1
  <2>3. Scanned(before, found) /\ file \in Listed
    BY <1>2, <1>16
  <2>4. before \in Scans
    BY <2>3 DEF Scanned
  <2> HIDE DEF before, file, found
  <2>5. Scanned(ScanFile(before, file), found + Hits(file))
    BY <2>2, <2>3, <2>4, ScanKeeps
  <2>. QED
    BY <2>1, <2>2, <2>5
<1>17. \A n \in 0..N : n \in Good
  <2> HIDE DEF Good
  <2>. QED
    BY <1>1, <1>15, <1>16, AllAlong
<1>18. Scanned(scan[N], h[N])
  BY <1>1, <1>17
<1> DEFINE out == Grep(files)
           all == Total(hits)
<1>19. Scanned(out, all) /\ all \in Nat
  BY <1>1, <1>4, <1>5, <1>8, <1>18 DEF scan
<1>20. GrepHonest(files, out) <=>
         /\ out.matches <= MaxMatches /\ out.total <= MaxTotalBytes
         /\ out.matches < all => out.capped \/ out.bytesCapped \/ out.skipped > 0
         /\ out.capped => out.matches = MaxMatches
  BY DEF GrepHonest, hits
<1> HIDE DEF out, all
<1>21. out.matches \in Nat /\ out.skipped \in Nat
  BY <1>19 DEF Scanned, Scans
<1>22. out.matches < all => out.capped \/ out.bytesCapped \/ out.skipped > 0
  BY <1>19, <1>21 DEF Scanned
<1>. QED
  BY <1>19, <1>20, <1>22 DEF Scanned, out

-----------------------------------------------------------------------------
(* A tool's answer is honest when it is made, and stays till it is pushed. *)
LEMMA AnswersKept == AnswersHonest /\ [ExecNext]_vars => AnswersHonest'
<1> SUFFICES ASSUME AnswersHonest, [ExecNext]_vars PROVE AnswersHonest'
  OBVIOUS
<1>1. CASE UNCHANGED shown
  BY <1>1 DEF AnswersHonest
<1>2. CASE shown'.tool \notin {"read_file", "grep", "glob", "edit_file"}
  BY <1>2 DEF AnswersHonest
<1>3. CASE ReadTool
  <2>1. CASE \E text \in ReadTexts :
               shown' = [tool |-> "read_file", input |-> text, out |-> ReadFile(text)]
    <3>1. PICK text \in ReadTexts :
                 shown' = [tool |-> "read_file", input |-> text, out |-> ReadFile(text)]
      BY <2>1
    <3>2. shown'.tool = "read_file" /\ shown'.input = text /\ shown'.out = ReadFile(text)
      BY <3>1
    <3>3. ReadHonest(text, ReadFile(text))
      BY InputsAssumption, ReadIsHonest
    <3>. QED
      BY <3>2, <3>3 DEF AnswersHonest
  <2>2. CASE \E files \in GrepFiles :
               shown' = [tool |-> "grep", input |-> files, out |-> Grep(files)]
    <3>1. PICK files \in GrepFiles :
                 shown' = [tool |-> "grep", input |-> files, out |-> Grep(files)]
      BY <2>2
    <3>2. shown'.tool = "grep" /\ shown'.input = files /\ shown'.out = Grep(files)
      BY <3>1
    <3>3. GrepHonest(files, Grep(files))
      BY InputsAssumption, GrepIsHonest DEF Listed
    <3>. QED
      BY <3>2, <3>3 DEF AnswersHonest
  <2>3. CASE \E found \in GlobCounts :
               shown' = [tool |-> "glob", input |-> found, out |-> Glob(found)]
    <3>1. PICK found \in GlobCounts :
                 shown' = [tool |-> "glob", input |-> found, out |-> Glob(found)]
      BY <2>3
    <3>2. shown'.tool = "glob" /\ shown'.input = found /\ shown'.out = Glob(found)
      BY <3>1
    <3>3. GlobHonest(found, Glob(found))
      BY InputsAssumption, GlobIsHonest
    <3>. QED
      BY <3>2, <3>3 DEF AnswersHonest
  <2>. QED
    BY <1>3, <2>1, <2>2, <2>3 DEF ReadTool, ToolAnswers
<1>4. CASE EditTool(TRUE)
  <2>1. PICK text \in ReadTexts, new \in 1..3 :
          shown' = [tool |-> "edit_file", input |-> text,
                    out |-> EditFile(text, 1, new, MaxReadBytes)]
    BY <1>4 DEF EditTool, ToolAnswers
  <2>2. /\ shown'.tool = "edit_file" /\ shown'.input = text
        /\ shown'.out = EditFile(text, 1, new, MaxReadBytes)
    BY <2>1
  <2>3. EditHonest(text, 1, MaxReadBytes, EditFile(text, 1, new, MaxReadBytes))
    <3> DEFINE max == MaxReadBytes
               old == 1
    <3>1. text \in Seq(Nat \ {0}) /\ new \in Nat \ {0} /\ max \in Nat
      BY InputsAssumption, CapsAssumption
    <3> HIDE DEF max, old
    <3>2. EditHonest(text, old, max, EditFile(text, old, new, max))
      BY <3>1, EditIsHonest
    <3>. QED
      BY <3>2 DEF max, old
  <2>. QED
    BY <2>2, <2>3 DEF AnswersHonest
<1>5. CASE \/ ToolFails \/ Ends \/ Begins \/ EditTool(FALSE)
           \/ \E complete \in BOOLEAN : WriteFile(complete)
  <2>1. UNCHANGED shown \/ shown' \in {[tool |-> name] : name \in {"error", "write_file", "run_command", "none"}}
    BY <1>5
    DEF ToolFails, WriteFile, EditTool, Ends, CommandEnds, CommandAnswers, VerifyStarts, VerifyEnds,
        Begins, BeginModelJob, BeginCommandJob, LoopTop, TurnEnds, PushAnswer, ToolAnswers, Nothing
  <2>. QED
    BY <1>1, <1>2, <2>1
<1>6. CASE UNCHANGED vars
  BY <1>1, <1>6 DEF vars
<1>. QED
  BY <1>1, <1>3, <1>4, <1>5, <1>6
  DEF ExecNext, Model, ModelConcludes, ModelCallsTools, FetchAborts, EndpointFails, ChatThrows,
      Concludes, TerminalCall, ToolBudgetSpent, Dispatch, ToolStep, Writes, RunCommand, Finalizes,
      FinalizeReturns, FinalizeThrows, SpawnStep, AbortJob, WallBudgetRunsOut

(* For any caps, texts, file lists and edits, a tool says what it left out *)
(* of its answer (tools.ts:279-586, write-tools.ts:226-323).               *)
THEOREM AnswersAreHonest == ExecSpec => []AnswersHonest
<1>1. Init => AnswersHonest
  BY DEF Init, Nothing, AnswersHonest
<1>. QED
  BY <1>1, AnswersKept, PTL DEF ExecSpec

-----------------------------------------------------------------------------
(***************************************************************************)
(* The daemon's processes and the commands that start and stop them.       *)
(***************************************************************************)
Progress == [on : BOOLEAN, rest : Seq(Ups)]
Processes ==
  [life : {"none", "alive", "exit0", "exit1", "forced", "killed"},
   state : {"new", "started", "stopped"}, next : 0..6, up : SUBSET Ups,
   teardown : Seq(Ups), early : BOOLEAN, stop : Progress, unwind : Progress,
   halting : BOOLEAN, asked : BOOLEAN, timer : BOOLEAN,
   job : {"none", "running", "ruined"}, signals : Nat]
Commands ==
  [pc : {"idle", "stop", "post", "waitExit", "waitKill", "start", "waitStart", "done"},
   restarts : BOOLEAN, pid : Procs \cup {Nobody}, child : Procs \cup {Nobody},
   stopped : BOOLEAN]

Gone(p) == proc[p].life \notin {"none", "alive"}

(* The first n components, in the order they came up and in the one they   *)
(* are to go.                                                              *)
Upward(n) == [i \in 1..n |-> i]
Downward(n) == [i \in 1..n |-> n - i + 1]

(* start() has brought up n components and pushed a step for each. *)
Starting(r, n) ==
  /\ r.state = "started" /\ r.next = n + 1 /\ r.teardown = Upward(n)
  /\ r.stop = Idle /\ r.unwind = Idle

(* stop(), or the unwind of a failed start(), has n components left to pop, *)
(* and start() is through.                                                 *)
Stopping(r, n) ==
  /\ r.state = "stopped" /\ r.next \notin Ups /\ r.teardown = <<>>
  /\ \/ r.stop.rest = Downward(n) /\ r.unwind.rest = <<>>
     \/ r.unwind.rest = Downward(n) /\ r.stop.rest = <<>>

(* What is up is a beginning of the start order, for a process whose       *)
(* stop() did not cut into its start().                                    *)
InOrder(r) ==
  r.life = "alive" =>
    IF r.early THEN r.state = "stopped"
    ELSE \E n \in 0..5 : r.up = 1..n /\ (Starting(r, n) \/ Stopping(r, n))

ProcTypes ==
  /\ proc \in [Procs -> Processes]
  /\ \A p \in Procs : proc[p].life = "none" => ~proc[p].early
Ordered == \A p \in Procs : InOrder(proc[p])

(* A port is bound by one process. *)
Exclusive ==
  \A p, q \in Procs : \A c \in Fronts : Holds(p, c) /\ Holds(q, c) => p = q

NoneEarly == \A p \in Procs : ~proc[p].early
TokenInv ==
  NoneEarly => \A p \in Answering : proc[p].state = "started" => token = p

ProcInv == ProcTypes /\ Ordered /\ Exclusive /\ TokenInv

(* A command knows of the process it asked, and reports a stop only of one *)
(* that is gone; a pid is reused only when its process is.                 *)
CmdInv ==
  /\ cmd \in [Cmds -> Commands]
  /\ \A p \in reused \cap Procs : Gone(p)
  /\ \A c \in Cmds :
       /\ cmd[c].pc \in {"waitExit", "waitKill"} => cmd[c].pid \in Procs
       /\ cmd[c].pid \in Procs => proc[cmd[c].pid].life # "none"
       /\ cmd[c].stopped => /\ cmd[c].pid \in Procs /\ Gone(cmd[c].pid)
                            /\ cmd[c].pc \in {"start", "waitStart", "done"}

DaemonInv == ProcInv /\ CmdInv

-----------------------------------------------------------------------------
(* What each step leaves of what went before: the dead stay dead.          *)
StayGone == \A p \in Procs : Gone(p) => Gone(p)'
StayLaunched == \A p \in Procs : proc[p].life # "none" => proc'[p].life # "none"
Lasting == StayGone /\ StayLaunched

(* A process moves to r, which neither binds a port nor takes back a stop. *)
MayBecome(p, r) ==
  /\ r \in Processes /\ InOrder(r) /\ r.life # "none"
  /\ proc[p].early => r.early
  /\ r.life = "alive" =>
       /\ ~Gone(p)
       /\ \A c \in r.up \cap Fronts : Holds(p, c)
       /\ r.state = "started" /\ Control \in r.up => proc[p].state = "started"

LEMMA MoveKeepsMost ==
  ASSUME ProcInv, NEW p \in Procs, NEW r, MayBecome(p, r), Set(p, r)
  PROVE  /\ ProcTypes' /\ Ordered' /\ Exclusive' /\ Lasting
         /\ proc'[p] = r
         /\ NoneEarly' => NoneEarly
         /\ \A q \in Answering' : proc'[q].state = "started"
                                  => q \in Answering /\ proc[q].state = "started"
<1>1. /\ r \in Processes /\ InOrder(r) /\ r.life # "none"
      /\ proc[p].early => r.early
      /\ r.life = "alive" =>
           /\ ~Gone(p)
           /\ \A c \in r.up \cap Fronts : Holds(p, c)
           /\ r.state = "started" /\ Control \in r.up => proc[p].state = "started"
  BY DEF MayBecome
<1>2. proc \in [Procs -> Processes] /\ \A q \in Procs : proc[q].life = "none" => ~proc[q].early
  BY DEF ProcInv, ProcTypes
<1>3. proc' = [proc EXCEPT ![p] = r]
  BY DEF Set
<1>4. proc'[p] = r /\ \A q \in Procs \ {p} : proc'[q] = proc[q]
  BY <1>2, <1>3
<1>5. ProcTypes'
  <2>1. proc' \in [Procs -> Processes]
    BY <1>1, <1>2, <1>3
  <2>2. \A q \in Procs : proc'[q].life = "none" => ~proc'[q].early
    BY <1>1, <1>2, <1>4
  <2>. QED
    BY <2>1, <2>2 DEF ProcTypes
<1>6. Ordered'
  <2>1. \A q \in Procs : InOrder(proc[q])
    BY DEF ProcInv, Ordered
  <2>2. \A q \in Procs : InOrder(proc'[q])
    BY <2>1, <1>1, <1>4
  <2>. QED
    BY <2>2 DEF Ordered, InOrder, Starting, Stopping
<1>7. \A q \in Procs, c \in Fronts : Holds(q, c)' => Holds(q, c)
  BY <1>1, <1>4 DEF Holds, Alive
<1>8. Exclusive'
  BY <1>7 DEF ProcInv, Exclusive
<1>9. NoneEarly' => NoneEarly
  BY <1>1, <1>4 DEF NoneEarly
<1>10. \A q \in Procs : q \in Answering' /\ proc'[q].state = "started"
                          => q \in Answering /\ proc[q].state = "started"
  BY <1>1, <1>4, <1>7 DEF Answering, Holds, Alive, Fronts
<1>11. Answering' \subseteq Procs
  BY DEF Answering
<1>12. Lasting
  BY <1>1, <1>4 DEF Lasting, StayGone, StayLaunched, Gone
<1>. QED
  BY <1>4, <1>5, <1>6, <1>8, <1>9, <1>10, <1>11, <1>12

LEMMA MoveKeeps ==
  ASSUME ProcInv, NEW p \in Procs, NEW r, MayBecome(p, r), Set(p, r), token' = token
  PROVE  ProcInv' /\ Lasting
BY MoveKeepsMost DEF ProcInv, TokenInv

LEMMA Fresh ==
  /\ NotLaunched \in Processes /\ Launched \in Processes
  /\ \A life \in {"exit0", "exit1", "forced", "killed"}, r \in Processes :
       /\ Dead(r, life) \in Processes
       /\ Dead(r, life).life = life /\ Dead(r, life).early = r.early
<1>1. NotLaunched \in Processes
  BY DEF NotLaunched, Processes, Progress, Idle, Store, Ups
<1>2. Launched \in Processes
  BY <1>1 DEF Launched, NotLaunched, Processes
<1>3. ASSUME NEW life \in {"exit0", "exit1", "forced", "killed"}, NEW r \in Processes
      PROVE  /\ Dead(r, life) \in Processes
             /\ Dead(r, life).life = life /\ Dead(r, life).early = r.early
  <2>1. r.early \in BOOLEAN
    BY DEF Processes
  <2>. QED
    BY <1>1, <2>1 DEF Dead, NotLaunched, Processes
<1>. QED
  BY <1>1, <1>2, <1>3

LEMMA DeadMayBecome ==
  ASSUME ProcInv, NEW p \in Procs, NEW r \in Processes, r.early = proc[p].early,
         NEW life \in {"exit0", "exit1", "forced", "killed"}
  PROVE  MayBecome(p, Dead(r, life))
<1>1. Dead(r, life) \in Processes /\ Dead(r, life).life = life /\ Dead(r, life).early = r.early
  BY Fresh
<1>. QED
  BY <1>1 DEF MayBecome, InOrder

-----------------------------------------------------------------------------
(* r differs from s in its flags, its job and its signals at most. *)
SameRun(r, s) ==
  /\ r.life = s.life /\ r.state = s.state /\ r.next = s.next /\ r.up = s.up
  /\ r.teardown = s.teardown /\ r.early = s.early
  /\ r.stop = s.stop /\ r.unwind = s.unwind

LEMMA SameInOrder ==
  ASSUME NEW r, NEW s, SameRun(r, s), InOrder(s)
  PROVE  InOrder(r)
BY DEF SameRun, InOrder, Starting, Stopping

LEMMA SameMayBecome ==
  ASSUME ProcInv, NEW p \in Procs, Alive(p), NEW r \in Processes, SameRun(r, proc[p])
  PROVE  MayBecome(p, r)
<1>1. InOrder(proc[p])
  BY DEF ProcInv, Ordered
<1>2. InOrder(r)
  BY <1>1, SameInOrder
<1>. QED
  BY <1>2 DEF SameRun, MayBecome, Alive, Holds, Gone

(* The steps to await are those pushed, last first. *)
LEMMA ReverseUpward == \A n \in 0..5 : Reverse(Upward(n)) = Downward(n)
<1> SUFFICES ASSUME NEW n \in 0..5 PROVE Reverse(Upward(n)) = Downward(n)
  OBVIOUS
<1>1. Upward(n) \in Seq(Nat) /\ Len(Upward(n)) = n /\ \A i \in 1..n : Upward(n)[i] = i
  BY DEF Upward
<1>2. Reverse(Upward(n)) = [i \in 1..n |-> Upward(n)[(n - i) + 1]]
  BY <1>1 DEF Reverse
<1>3. \A i \in 1..n : Upward(n)[(n - i) + 1] = n - i + 1
  BY <1>1
<1>. QED
  BY <1>2, <1>3 DEF Downward

LEMMA ReverseTyped == \A s \in Seq(Ups) : Reverse(s) \in Seq(Ups)
<1> SUFFICES ASSUME NEW s \in Seq(Ups) PROVE Reverse(s) \in Seq(Ups)
  OBVIOUS
<1>1. \A i \in 1..Len(s) : s[(Len(s) - i) + 1] \in Ups
  OBVIOUS
<1>2. Reverse(s) \in [1..Len(s) -> Ups]
  BY <1>1 DEF Reverse
<1>. QED
  BY <1>2

(* Daemon.stop leaves a process in order (daemon.ts stop). *)
LEMMA StoppedInOrder ==
  ASSUME NEW r \in Processes, InOrder(r), r.life = "alive"
  PROVE  /\ Stopped(r) \in Processes /\ InOrder(Stopped(r))
         /\ Stopped(r).life = "alive" /\ Stopped(r).up = r.up
         /\ Stopped(r).state = "stopped" /\ (r.early /\ r.state = "stopped" => Stopped(r).early)
<1>1. /\ r.stop \in Progress /\ r.unwind \in Progress /\ r.teardown \in Seq(Ups)
      /\ r.state \in {"new", "started", "stopped"} /\ r.next \in 0..6
  BY DEF Processes
<1>2. CASE r.state = "stopped"
  <2> DEFINE st == [r.stop EXCEPT !.on = TRUE]
  <2>1. st \in Progress /\ st.rest = r.stop.rest
    BY <1>1 DEF Progress
  <2>2. Stopped(r) = [r EXCEPT !.stop = st]
    BY <1>2 DEF Stopped, Processes
  <2> HIDE DEF st
  <2> DEFINE to == [r EXCEPT !.stop = st]
  <2>3. /\ to \in Processes /\ to.stop = st /\ to.life = r.life /\ to.early = r.early
        /\ to.up = r.up /\ to.state = r.state /\ to.next = r.next
        /\ to.teardown = r.teardown /\ to.unwind = r.unwind
    BY <2>1 DEF Processes
  <2> HIDE DEF to
  <2>4. InOrder(to)
    BY <2>1, <2>3, <1>2 DEF InOrder, Starting, Stopping
  <2>. QED
    BY <2>2, <2>3, <2>4, <1>2 DEF to
<1>3. CASE r.state # "stopped"
  <2> DEFINE st == [on |-> TRUE, rest |-> Reverse(r.teardown)]
             cut == r.next \in Ups
             to == [r EXCEPT !.state = "stopped", !.early = cut, !.teardown = <<>>,
                             !.stop = st]
  <2>1. st \in Progress /\ st.rest = Reverse(r.teardown)
    BY <1>1, ReverseTyped DEF Progress
  <2>2. Stopped(r) = to
    BY <1>3 DEF Stopped
  <2>9. cut \in BOOLEAN /\ (cut <=> r.next \in Ups)
    OBVIOUS
  <2> HIDE DEF st, cut
  <2>10. <<>> \in Seq(Ups)
    OBVIOUS
  <2>11. to \in Processes
    BY <2>1, <2>9, <2>10 DEF Processes
  <2>3. /\ to.stop = st /\ to.life = r.life /\ to.early = cut /\ to.up = r.up
        /\ to.state = "stopped" /\ to.next = r.next /\ to.teardown = <<>>
        /\ to.unwind = r.unwind
    BY DEF Processes
  <2> HIDE DEF to
  <2>4. ~r.early
    BY <1>3 DEF InOrder
  <2>5. PICK n \in 0..5 : r.up = 1..n /\ (Starting(r, n) \/ Stopping(r, n))
    BY <2>4 DEF InOrder
  <2>6. r.next = n + 1 /\ r.teardown = Upward(n) /\ r.unwind = Idle
    BY <2>5, <1>3 DEF Starting, Stopping
  <2>7. to.stop.rest = Downward(n) /\ to.unwind.rest = <<>>
    BY <2>1, <2>3, <2>6, ReverseUpward DEF Idle
  <2>8. InOrder(to)
    BY <2>3, <2>5, <2>7, <2>9 DEF InOrder, Stopping
  <2>. QED
    BY <2>2, <2>3, <2>4, <2>8, <2>11
<1>. QED
  BY <1>1, <1>2, <1>3

(* homefleetd's shutdown, first or second request. *)
LEMMA ShutDownMayBecome ==
  ASSUME ProcInv, NEW p \in Procs, Alive(p), NEW r \in Processes, SameRun(r, proc[p])
  PROVE  MayBecome(p, ShutDown(r))
<1>1. InOrder(proc[p])
  BY DEF ProcInv, Ordered
<1>2. InOrder(r) /\ r.life = "alive" /\ r.early = proc[p].early /\ r.up = proc[p].up
      /\ r.state = proc[p].state
  BY <1>1, SameInOrder DEF SameRun, Alive
<1>3. CASE r.halting
  BY <1>2, <1>3, DeadMayBecome DEF ShutDown
<1>4. CASE ~r.halting
  <2> DEFINE q == [r EXCEPT !.halting = TRUE]
  <2>1. q \in Processes /\ SameRun(q, r)
    BY DEF Processes, SameRun
  <2>2. q.life = "alive" /\ q.up = r.up /\ q.state = r.state /\ q.early = r.early
    BY <1>2 DEF Processes
  <2>3. ShutDown(r) = Stopped(q)
    BY <1>4 DEF ShutDown
  <2> HIDE DEF q
  <2>4. InOrder(q)
    BY <1>2, <2>1, SameInOrder
  <2>5. /\ Stopped(q) \in Processes /\ InOrder(Stopped(q))
        /\ Stopped(q).life = "alive" /\ Stopped(q).up = r.up
        /\ Stopped(q).state = "stopped" /\ (r.early => Stopped(q).early)
    BY <2>1, <2>2, <2>4, StoppedInOrder DEF InOrder
  <2>. QED
    BY <1>2, <2>3, <2>5 DEF MayBecome, Alive, Holds, Gone
<1>. QED
  BY <1>3, <1>4 DEF Processes

(* One component goes; those before it stay. *)
LEMMA TornInOrder ==
  ASSUME NEW n \in 1..5
  PROVE  /\ Head(Downward(n)) = n /\ Tail(Downward(n)) = Downward(n - 1)
         /\ Downward(n) # <<>> /\ (1..n) \ {n} = 1..(n - 1)
<1>1. Downward(n) \in Seq(Nat) /\ Len(Downward(n)) = n
  BY DEF Downward
<1>2. \A s, u \in Seq(Nat) : Len(s) = Len(u) /\ (\A i \in 1..Len(s) : s[i] = u[i]) => s = u
  OBVIOUS
<1>3. /\ Tail(Downward(n)) \in Seq(Nat) /\ Len(Tail(Downward(n))) = n - 1
      /\ \A i \in 1..(n - 1) : Tail(Downward(n))[i] = Downward(n)[i + 1]
  BY <1>1
<1>6. Downward(n - 1) \in Seq(Nat) /\ Len(Downward(n - 1)) = n - 1
  BY DEF Downward
<1>7. \A i \in 1..(n - 1) : Downward(n)[i + 1] = Downward(n - 1)[i]
  BY DEF Downward
<1>4. Tail(Downward(n)) = Downward(n - 1)
  BY <1>2, <1>3, <1>6, <1>7
<1>5. Head(Downward(n)) = n
  BY <1>1 DEF Downward
<1>. QED
  BY <1>1, <1>4, <1>5

(* Torn changes what is up and the job, as a popped step goes on. *)
LEMMA TornMayBecome ==
  ASSUME ProcInv, NEW p \in Procs, Alive(p), NEW c \in Ups, NEW r \in Processes,
         /\ r.life = "alive" /\ r.state = proc[p].state
         /\ r.early = proc[p].early /\ r.up = proc[p].up \ {c},
         InOrder(r)
  PROVE  MayBecome(p, r)
BY DEF MayBecome, Alive, Holds, Gone

LEMMA StopStepKeeps ==
  ASSUME ProcInv, NEW p \in Procs, StopStep(p)
  PROVE  ProcInv' /\ Lasting
<1>1. Alive(p) /\ proc[p].stop.on /\ token' = token
  BY DEF StopStep
<1>2. proc[p] \in Processes /\ InOrder(proc[p])
  BY DEF ProcInv, Ordered, ProcTypes
<1>3. /\ proc[p].stop \in Progress /\ proc[p].stop.rest \in Seq(Ups)
      /\ proc[p].unwind \in Progress
  BY <1>2 DEF Processes, Progress
<1>4. CASE proc[p].stop.rest = <<>>
  BY <1>1, <1>2, <1>4, DeadMayBecome, MoveKeeps DEF StopStep
<1>5. CASE proc[p].stop.rest # <<>>
  <2> DEFINE c == Head(proc[p].stop.rest)
             st == [proc[p].stop EXCEPT !.rest = Tail(@)]
  <2>1. PICK overrun \in BOOLEAN : Set(p, [Torn(proc[p], c, overrun) EXCEPT !.stop.rest = Tail(@)])
    BY <1>5 DEF StopStep
  <2> DEFINE ongoing == IF c = Jobs /\ ~overrun THEN "none" ELSE proc[p].job
             to == [proc[p] EXCEPT !.up = @ \ {c}, !.job = ongoing, !.stop = st]
  <2>2. [Torn(proc[p], c, overrun) EXCEPT !.stop.rest = Tail(@)] = to
    BY <1>2 DEF Torn, Processes
  <2>3. c \in Ups /\ Tail(proc[p].stop.rest) \in Seq(Ups)
    BY <1>3, <1>5
  <2>4. st \in Progress /\ st.on /\ st.rest = Tail(proc[p].stop.rest)
    BY <1>1, <1>3, <2>3 DEF Progress
  <2>5. ongoing \in {"none", "running", "ruined"}
    BY <1>2 DEF Processes
  <2> HIDE DEF st, ongoing
  <2>6. to \in Processes
    BY <1>2, <2>3, <2>4, <2>5 DEF Processes
  <2>7. /\ to.life = proc[p].life /\ to.state = proc[p].state /\ to.next = proc[p].next
        /\ to.teardown = proc[p].teardown /\ to.early = proc[p].early
        /\ to.up = proc[p].up \ {c} /\ to.stop = st /\ to.unwind = proc[p].unwind
    BY <1>2 DEF Processes
  <2> HIDE DEF to
  <2>8. ASSUME ~to.early
        PROVE  \E n \in 0..5 : to.up = 1..n /\ Stopping(to, n)
    <3>1. PICK n \in 0..5 : proc[p].up = 1..n
                              /\ (Starting(proc[p], n) \/ Stopping(proc[p], n))
      BY <1>1, <1>2, <2>7, <2>8 DEF InOrder, Alive
    <3>2. Stopping(proc[p], n) /\ proc[p].stop.rest = Downward(n) /\ proc[p].unwind.rest = <<>>
      BY <1>1, <1>5, <3>1 DEF Starting, Stopping, Idle
    <3>3. n \in 1..5
      BY <1>5, <3>2 DEF Downward
    <3>4. c = n /\ to.up = 1..(n - 1) /\ to.stop.rest = Downward(n - 1)
      BY <2>4, <2>7, <3>1, <3>2, <3>3, TornInOrder
    <3>5. Stopping(to, n - 1)
      BY <2>7, <3>2, <3>4 DEF Stopping
    <3>. QED
      BY <3>3, <3>4, <3>5
  <2>9. InOrder(to)
    BY <1>1, <1>2, <2>7, <2>8 DEF InOrder, Alive
  <2>10. MayBecome(p, to)
    BY <1>1, <2>3, <2>6, <2>7, <2>9, TornMayBecome DEF Alive
  <2>. QED
    BY <1>1, <2>1, <2>2, <2>10, MoveKeeps
<1>. QED
  BY <1>4, <1>5

LEMMA UnwindStepKeeps ==
  ASSUME ProcInv, NEW p \in Procs, UnwindStep(p)
  PROVE  ProcInv' /\ Lasting
<1>1. Alive(p) /\ proc[p].unwind.on /\ token' = token
  BY DEF UnwindStep
<1>2. proc[p] \in Processes /\ InOrder(proc[p])
  BY DEF ProcInv, Ordered, ProcTypes
<1>3. /\ proc[p].unwind \in Progress /\ proc[p].unwind.rest \in Seq(Ups)
      /\ proc[p].stop \in Progress
  BY <1>2 DEF Processes, Progress
<1>4. CASE proc[p].unwind.rest = <<>>
  BY <1>1, <1>2, <1>4, DeadMayBecome, MoveKeeps DEF UnwindStep
<1>5. CASE proc[p].unwind.rest # <<>>
  <2> DEFINE c == Head(proc[p].unwind.rest)
             st == [proc[p].unwind EXCEPT !.rest = Tail(@)]
  <2>1. PICK overrun \in BOOLEAN : Set(p, [Torn(proc[p], c, overrun) EXCEPT !.unwind.rest = Tail(@)])
    BY <1>5 DEF UnwindStep
  <2> DEFINE ongoing == IF c = Jobs /\ ~overrun THEN "none" ELSE proc[p].job
             to == [proc[p] EXCEPT !.up = @ \ {c}, !.job = ongoing, !.unwind = st]
  <2>2. [Torn(proc[p], c, overrun) EXCEPT !.unwind.rest = Tail(@)] = to
    BY <1>2 DEF Torn, Processes
  <2>3. c \in Ups /\ Tail(proc[p].unwind.rest) \in Seq(Ups)
    BY <1>3, <1>5
  <2>4. st \in Progress /\ st.on /\ st.rest = Tail(proc[p].unwind.rest)
    BY <1>1, <1>3, <2>3 DEF Progress
  <2>5. ongoing \in {"none", "running", "ruined"}
    BY <1>2 DEF Processes
  <2> HIDE DEF st, ongoing
  <2>6. to \in Processes
    BY <1>2, <2>3, <2>4, <2>5 DEF Processes
  <2>7. /\ to.life = proc[p].life /\ to.state = proc[p].state /\ to.next = proc[p].next
        /\ to.teardown = proc[p].teardown /\ to.early = proc[p].early
        /\ to.up = proc[p].up \ {c} /\ to.unwind = st /\ to.stop = proc[p].stop
    BY <1>2 DEF Processes
  <2> HIDE DEF to
  <2>8. ASSUME ~to.early
        PROVE  \E n \in 0..5 : to.up = 1..n /\ Stopping(to, n)
    <3>1. PICK n \in 0..5 : proc[p].up = 1..n
                              /\ (Starting(proc[p], n) \/ Stopping(proc[p], n))
      BY <1>1, <1>2, <2>7, <2>8 DEF InOrder, Alive
    <3>2. Stopping(proc[p], n) /\ proc[p].unwind.rest = Downward(n) /\ proc[p].stop.rest = <<>>
      BY <1>1, <1>5, <3>1 DEF Starting, Stopping, Idle
    <3>3. n \in 1..5
      BY <1>5, <3>2 DEF Downward
    <3>4. c = n /\ to.up = 1..(n - 1) /\ to.unwind.rest = Downward(n - 1)
      BY <2>4, <2>7, <3>1, <3>2, <3>3, TornInOrder
    <3>5. Stopping(to, n - 1)
      BY <2>7, <3>2, <3>4 DEF Stopping
    <3>. QED
      BY <3>3, <3>4, <3>5
  <2>9. InOrder(to)
    BY <1>1, <1>2, <2>7, <2>8 DEF InOrder, Alive
  <2>10. MayBecome(p, to)
    BY <1>1, <2>3, <2>6, <2>7, <2>9, TornMayBecome DEF Alive
  <2>. QED
    BY <1>1, <2>1, <2>2, <2>10, MoveKeeps
<1>. QED
  BY <1>4, <1>5


(* Who answers has come up all the way. *)
LEMMA StartedHasAll ==
  ASSUME ProcInv, NEW q \in Answering, proc[q].state = "started"
  PROVE  \A c \in Ups : Holds(q, c)
<1>1. q \in Procs /\ Alive(q) /\ Control \in proc[q].up
  BY DEF Answering, Holds
<1>2. ~proc[q].early /\ InOrder(proc[q])
  BY <1>1 DEF ProcInv, Ordered, InOrder, Alive
<1>3. PICK n \in 0..5 : proc[q].up = 1..n
  BY <1>1, <1>2 DEF InOrder, Alive
<1>. QED
  BY <1>1, <1>3 DEF Holds, Control, Ups

(* A component throws (daemon.ts start, the catch). *)
LEMMA StartFailsKeeps ==
  ASSUME ProcInv, NEW p \in Procs, StartFails(p)
  PROVE  ProcInv' /\ Lasting
<1> DEFINE back == [on |-> TRUE, rest |-> Reverse(proc[p].teardown)]
           to == [proc[p] EXCEPT !.state = "stopped", !.next = 0, !.teardown = <<>>,
                                 !.unwind = back]
<1>1. /\ Alive(p) /\ proc[p].next \in Ups /\ ~proc[p].unwind.on
      /\ proc' = [proc EXCEPT ![p] = to]
      /\ token' = TokenWritten(p, proc[p].next)
  BY DEF StartFails, Set
<1>2. proc[p] \in Processes /\ InOrder(proc[p])
  BY DEF ProcInv, Ordered, ProcTypes
<1>3. proc[p].teardown \in Seq(Ups) /\ <<>> \in Seq(Ups)
  BY <1>2 DEF Processes
<1>4. back \in Progress /\ back.rest = Reverse(proc[p].teardown)
  BY <1>3, ReverseTyped DEF Progress
<1> HIDE DEF back
<1>5. to \in Processes
  BY <1>2, <1>3, <1>4, 0 \in 0..6 DEF Processes
<1>6. /\ to.life = proc[p].life /\ to.state = "stopped" /\ to.next = 0
      /\ to.teardown = <<>> /\ to.early = proc[p].early
      /\ to.up = proc[p].up /\ to.stop = proc[p].stop /\ to.unwind = back
  BY <1>2 DEF Processes
<1> HIDE DEF to
<1>7. ASSUME ~proc[p].early
      PROVE  \E n \in 0..5 : /\ proc[p].up = 1..n /\ Starting(proc[p], n)
                             /\ proc[p].next = n + 1 /\ Stopping(to, n)
  <2>1. PICK n \in 0..5 : proc[p].up = 1..n
                            /\ (Starting(proc[p], n) \/ Stopping(proc[p], n))
    BY <1>1, <1>2, <1>7 DEF InOrder, Alive
  <2>2. Starting(proc[p], n)
    BY <1>1, <2>1 DEF Stopping
  <2>3. to.unwind.rest = Downward(n) /\ to.stop.rest = <<>> /\ proc[p].next = n + 1
    BY <1>4, <1>6, <2>2, ReverseUpward DEF Starting, Idle
  <2>4. Stopping(to, n)
    BY <1>6, <2>3 DEF Stopping, Ups
  <2>. QED
    BY <2>1, <2>2, <2>3, <2>4
<1>8. InOrder(to)
  BY <1>1, <1>2, <1>6, <1>7 DEF InOrder, Alive
<1>9. MayBecome(p, to)
  BY <1>1, <1>5, <1>6, <1>8 DEF MayBecome, Alive, Holds, Gone
<1>10. CASE proc[p].next # Control
  BY <1>1, <1>9, <1>10, MoveKeeps DEF TokenWritten, Set
<1>11. CASE proc[p].next = Control
  <2>1. /\ ProcTypes' /\ Ordered' /\ Exclusive' /\ Lasting /\ proc'[p] = to
        /\ NoneEarly' => NoneEarly
        /\ \A q \in Answering' : proc'[q].state = "started"
                                 => q \in Answering /\ proc[q].state = "started"
    BY <1>1, <1>9, MoveKeepsMost DEF Set
  \* With the HFP port bound here, nobody else has come to answer.
  <2>2. ASSUME NoneEarly, NEW q \in Answering, proc[q].state = "started"
        PROVE  q = p
    <3>1. Holds(p, Hfp)
      BY <1>1, <1>7, <1>11, <2>2 DEF NoneEarly, Holds, Control, Hfp
    <3>2. Holds(q, Hfp)
      BY <2>2, StartedHasAll DEF Hfp, Ups
    <3>. QED
      BY <3>1, <3>2 DEF ProcInv, Exclusive, Answering, Fronts
  <2>3. TokenInv'
    BY <1>6, <2>1, <2>2 DEF TokenInv
  <2>. QED
    BY <2>1, <2>3 DEF ProcInv
<1>. QED
  BY <1>10, <1>11

(* The next component comes up; the store's purge may ruin others' jobs    *)
(* (daemon.ts start).                                                      *)
LEMMA StartComponentKeeps ==
  ASSUME ProcInv, NEW p \in Procs, StartComponent(p)
  PROVE  ProcInv' /\ Lasting
<1> DEFINE c == proc[p].next
           was == IF c = Store THEN Purged(p) ELSE proc
           to == Brought(p, c)
<1>1. /\ Alive(p) /\ c \in Ups /\ ~proc[p].unwind.on
      /\ c \in Fronts => \A q \in Procs \ {p} : ~Holds(q, c)
      /\ proc' = [was EXCEPT ![p] = to]
      /\ token' = TokenWritten(p, c)
  BY DEF StartComponent
<1>2. \A q \in Procs : proc[q] \in Processes /\ InOrder(proc[q])
                       /\ (proc[q].life = "none" => ~proc[q].early)
  BY DEF ProcInv, Ordered, ProcTypes
<1>3. \A q \in Procs : Purged(p)[q] \in Processes /\ SameRun(Purged(p)[q], proc[q])
  <2> SUFFICES ASSUME NEW q \in Procs
               PROVE  Purged(p)[q] \in Processes /\ SameRun(Purged(p)[q], proc[q])
    OBVIOUS
  <2> DEFINE ruined == [proc[q] EXCEPT !.job = "ruined"]
  <2>1. proc[q] \in Processes
    BY <1>2
  <2>2. ruined \in Processes /\ SameRun(ruined, proc[q])
    BY <2>1 DEF Processes, SameRun
  <2>3. SameRun(proc[q], proc[q])
    BY DEF SameRun
  <2> HIDE DEF ruined
  <2>4. Purged(p)[q] \in {ruined, proc[q]}
    BY DEF Purged, ruined
  <2>. QED
    BY <2>1, <2>2, <2>3, <2>4
<1>4. DOMAIN was = Procs /\ was = [q \in Procs |-> was[q]]
  BY DEF ProcInv, ProcTypes, Purged
<1>5. \A q \in Procs : was[q] \in Processes /\ SameRun(was[q], proc[q])
  <2>1. \A q \in Procs : SameRun(proc[q], proc[q])
    BY DEF SameRun
  <2>. QED
    BY <1>2, <1>3, <2>1
<1> HIDE DEF was
<1>6. proc' \in [Procs -> {proc'[q] : q \in Procs}] /\ proc'[p] = to
      /\ \A q \in Procs \ {p} : proc'[q] = was[q]
  BY <1>1, <1>4
<1>7. to \in Processes
  <2> DEFINE td == Append(proc[p].teardown, c)
             ups == proc[p].up \cup {c}
  <2>1. td \in Seq(Ups) /\ ups \in SUBSET Ups /\ c + 1 \in 0..6
    BY <1>1, <1>2 DEF Processes, Ups
  <2>2. to = [proc[p] EXCEPT !.next = c + 1, !.up = ups, !.teardown = td]
    BY DEF Brought
  <2> HIDE DEF td, ups, to
  <2>3. proc[p] \in Processes
    BY <1>2
  <2>. QED
    BY <2>1, <2>2, <2>3 DEF Processes
<1>8. /\ to.life = proc[p].life /\ to.state = proc[p].state /\ to.next = c + 1
      /\ to.teardown = Append(proc[p].teardown, c) /\ to.early = proc[p].early
      /\ to.up = proc[p].up \cup {c} /\ to.stop = proc[p].stop /\ to.unwind = proc[p].unwind
  <2>1. proc[p] \in Processes
    BY <1>2
  <2>. QED
    BY <2>1 DEF Processes, Brought
<1> HIDE DEF to
<1>9. ASSUME ~proc[p].early
      PROVE  \E n \in 0..4 : /\ proc[p].up = 1..n /\ Starting(proc[p], n) /\ c = n + 1
                             /\ to.up = 1..(n + 1) /\ Starting(to, n + 1)
  <2>1. PICK n \in 0..5 : proc[p].up = 1..n
                            /\ (Starting(proc[p], n) \/ Stopping(proc[p], n))
    BY <1>1, <1>2, <1>9 DEF InOrder, Alive
  <2>2. Starting(proc[p], n) /\ c = n + 1 /\ n \in 0..4
    BY <1>1, <2>1 DEF Stopping, Starting, Ups
  <2>3. Append(Upward(n), n + 1) = Upward(n + 1)
    BY <2>2 DEF Upward
  <2>4. Starting(to, n + 1) /\ to.up = 1..(n + 1)
    BY <1>8, <2>1, <2>2, <2>3 DEF Starting
  <2>. QED
    BY <2>1, <2>2, <2>4
<1>10. InOrder(to)
  <2>1. CASE proc[p].early
    BY <1>1, <1>2, <1>8, <2>1 DEF InOrder, Alive
  <2>2. CASE ~proc[p].early
    <3>1. PICK n \in 0..4 : to.up = 1..(n + 1) /\ Starting(to, n + 1)
      BY <1>9, <2>2
    <3>2. n + 1 \in 0..5
      OBVIOUS
    <3>. QED
      BY <1>8, <2>2, <3>1, <3>2 DEF InOrder
  <2>. QED
    BY <2>1, <2>2
<1>11. ProcTypes' /\ Ordered'
  <2>1. \A q \in Procs : proc'[q] \in Processes /\ InOrder(proc'[q])
                         /\ (proc'[q].life = "none" => ~proc'[q].early)
    <3>1. \A q \in Procs \ {p} : InOrder(was[q]) /\ (was[q].life = "none" => ~was[q].early)
      BY <1>2, <1>5, SameInOrder DEF SameRun
    <3>. QED
      BY <1>1, <1>5, <1>6, <1>7, <1>8, <1>10, <3>1 DEF Alive
  <2>2. proc' \in [Procs -> Processes]
    BY <1>6, <2>1
  <2>. QED
    BY <2>1, <2>2 DEF ProcTypes, Ordered, InOrder, Starting, Stopping
<1>12. \A q \in Procs \ {p} : \A d \in Fronts : Holds(q, d)' <=> Holds(q, d)
  BY <1>5, <1>6 DEF Holds, Alive, SameRun
<1>13. \A d \in Fronts : Holds(p, d)' <=> Holds(p, d) \/ d = c
  BY <1>1, <1>6, <1>8 DEF Holds, Alive
<1>14. Exclusive'
  BY <1>1, <1>12, <1>13 DEF ProcInv, Exclusive
<1>15. NoneEarly' => NoneEarly
  BY <1>5, <1>6, <1>8 DEF NoneEarly, SameRun
<1>16. TokenInv'
  <2>1. CASE c = Control
    BY <1>1, <1>12, <2>1 DEF TokenInv, TokenWritten, Answering, Fronts
  <2>2. CASE c # Control
    <3>1. \A q \in Answering' : proc'[q].state = "started"
                                => q \in Answering /\ proc[q].state = "started"
      BY <1>5, <1>6, <1>8, <1>12, <1>13, <2>2 DEF Answering, Fronts, SameRun
    <3>2. token' = token
      BY <1>1, <2>2 DEF TokenWritten
    <3>. QED
      BY <1>15, <3>1, <3>2 DEF ProcInv, TokenInv
  <2>. QED
    BY <2>1, <2>2
<1>17. Lasting
  BY <1>5, <1>6, <1>8 DEF Lasting, StayGone, StayLaunched, Gone, SameRun
<1>. QED
  BY <1>11, <1>14, <1>16, <1>17 DEF ProcInv

LEMMA LaunchedMayBecome ==
  ASSUME ProcInv, NEW p \in Procs, proc[p].life = "none"
  PROVE  MayBecome(p, Launched)
<1>1. /\ Launched.life = "alive" /\ Launched.state = "started" /\ Launched.next = 1
      /\ Launched.up = {} /\ Launched.teardown = <<>> /\ Launched.early = FALSE
      /\ Launched.stop = Idle /\ Launched.unwind = Idle
  BY DEF Launched, NotLaunched, Store
<1>2. Upward(0) = <<>> /\ 1..0 = {} /\ 0 \in 0..5 /\ 0 + 1 = 1
  BY DEF Upward
<1>3. Starting(Launched, 0)
  BY <1>1, <1>2 DEF Starting
<1>4. Launched.up = 1..0
  BY <1>1, <1>2
<1>5. InOrder(Launched)
  BY <1>1, <1>2, <1>3, <1>4 DEF InOrder
<1>6. ~proc[p].early
  BY DEF ProcInv, ProcTypes
<1>. QED
  BY <1>1, <1>5, <1>6, Fresh DEF MayBecome, Gone

LEMMA LaunchKeeps ==
  ASSUME ProcInv, NEW p \in Procs, Launch(p)
  PROVE  ProcInv' /\ Lasting
<1>1. p = NextProcess /\ Set(p, Launched) /\ token' = token
  BY DEF Launch
<1>2. p \in Unlaunched
  BY <1>1, LifecycleAssumption DEF NextProcess
<1>. QED
  BY <1>1, <1>2, LaunchedMayBecome, MoveKeeps DEF Unlaunched

(* Signals, timers, crashes and jobs. *)
LEMMA OtherKeeps ==
  ASSUME ProcInv, NEW p \in Procs,
         Signal(p) \/ StopTimerFires(p) \/ Crash(p) \/ JobArrives(p) \/ JobEnds(p)
  PROVE  ProcInv' /\ Lasting
<1>1. proc[p] \in Processes /\ Alive(p) /\ token' = token
  BY DEF ProcInv, ProcTypes, Signal, StopTimerFires, Crash, JobArrives, JobEnds
<1>2. CASE Signal(p)
  <2> DEFINE r == [proc[p] EXCEPT !.signals = @ + 1]
  <2>1. r \in Processes /\ SameRun(r, proc[p])
    BY <1>1 DEF Processes, SameRun
  <2>2. Set(p, ShutDown(r))
    BY <1>2 DEF Signal
  <2> HIDE DEF r
  <2>. QED
    BY <1>1, <2>1, <2>2, ShutDownMayBecome, MoveKeeps
<1>3. CASE StopTimerFires(p)
  <2> DEFINE r == [proc[p] EXCEPT !.timer = FALSE]
  <2>1. r \in Processes /\ SameRun(r, proc[p])
    BY <1>1 DEF Processes, SameRun
  <2>2. Set(p, IF r.state # "stopped" THEN ShutDown(r) ELSE r)
    BY <1>3 DEF StopTimerFires
  <2> HIDE DEF r
  <2>3. MayBecome(p, ShutDown(r)) /\ MayBecome(p, r)
    BY <1>1, <2>1, ShutDownMayBecome, SameMayBecome
  <2>. QED
    BY <1>1, <2>2, <2>3, MoveKeeps
<1>4. CASE Crash(p)
  BY <1>1, <1>4, DeadMayBecome, MoveKeeps DEF Crash
<1>5. CASE JobArrives(p) \/ JobEnds(p)
  <2>1. PICK ongoing \in {"none", "running"} : Set(p, [proc[p] EXCEPT !.job = ongoing])
    BY <1>5 DEF JobArrives, JobEnds
  <2> DEFINE r == [proc[p] EXCEPT !.job = ongoing]
  <2>2. r \in Processes /\ SameRun(r, proc[p])
    BY <1>1 DEF Processes, SameRun
  <2> HIDE DEF r
  <2>. QED
    BY <1>1, <2>1, <2>2, SameMayBecome, MoveKeeps DEF r
<1>. QED
  BY <1>2, <1>3, <1>4, <1>5

LEMMA IdleKeeps ==
  ASSUME ProcInv, UNCHANGED <<proc, token>>
  PROVE  ProcInv' /\ Lasting
<1>1. proc' = proc /\ token' = token
  OBVIOUS
<1>2. ProcTypes' /\ Ordered' /\ Exclusive'
  BY <1>1 DEF ProcInv, ProcTypes, Ordered, Exclusive, InOrder, Starting, Stopping, Holds, Alive
<1>3. TokenInv'
  BY <1>1 DEF ProcInv, TokenInv, NoneEarly, Answering, Holds, Alive
<1>4. Lasting
  BY <1>1 DEF Lasting, StayGone, StayLaunched, Gone
<1>. QED
  BY <1>2, <1>3, <1>4 DEF ProcInv

(* What a command does to a daemon: ask, kill or launch it. *)
LEMMA CliKeeps ==
  ASSUME ProcInv, CmdInv, NEW c \in Cmds, Cli(c)
  PROVE  ProcInv' /\ Lasting
<1>1. CASE UNCHANGED <<proc, token>>
  BY <1>1, IdleKeeps
<1>2. CASE StopPosts(c) /\ proc' # proc
  <2>1. PICK p \in Answering : Set(p, [proc[p] EXCEPT !.asked = TRUE, !.timer = TRUE])
    BY <1>2 DEF StopPosts
  <2> DEFINE r == [proc[p] EXCEPT !.asked = TRUE, !.timer = TRUE]
  <2>2. p \in Procs /\ Alive(p) /\ proc[p] \in Processes /\ token' = token
    BY <1>2 DEF StopPosts, Answering, Holds, ProcInv, ProcTypes
  <2>3. r \in Processes /\ SameRun(r, proc[p])
    BY <2>2 DEF Processes, SameRun
  <2> HIDE DEF r
  <2>. QED
    BY <2>1, <2>2, <2>3, SameMayBecome, MoveKeeps DEF r
<1>3. CASE StopWaitOver(c) /\ proc' # proc
  <2> DEFINE p == cmd[c].pid
  <2>1. p \in Procs /\ Set(p, Dead(proc[p], "killed")) /\ token' = token
    BY <1>3 DEF StopWaitOver, CmdInv
  <2>2. proc[p] \in Processes
    BY <2>1 DEF ProcInv, ProcTypes
  <2>. QED
    BY <2>1, <2>2, DeadMayBecome, MoveKeeps
<1>4. CASE CliLaunches(c) /\ proc' # proc
  <2>1. PICK p \in Procs : proc[p].life = "none" /\ Set(p, Launched)
    BY <1>4 DEF CliLaunches
  <2>. QED
    BY <1>4, <2>1, LaunchedMayBecome, MoveKeeps DEF CliLaunches
<1>5. token' = token
  BY DEF Cli, StopProbes, StopPosts, ExitSeen, StopWaitOver, KillSeen, KillWaitOver,
         StartProbes, CliLaunches, StartSeen, StartExited, StartWaitOver
<1>6. proc' = proc \/ StopPosts(c) \/ StopWaitOver(c) \/ CliLaunches(c)
  BY DEF Cli, StopProbes, ExitSeen, KillSeen, KillWaitOver, StartProbes, StartSeen,
         StartExited, StartWaitOver
<1>. QED
  BY <1>1, <1>2, <1>3, <1>4, <1>5, <1>6

LEMMA ProcInvKept ==
  ASSUME DaemonInv, [DaemonNext]_daemonVars
  PROVE  ProcInv' /\ Lasting
<1>1. ProcInv /\ CmdInv
  BY DEF DaemonInv
<1>2. CASE UNCHANGED daemonVars
  BY <1>1, <1>2, IdleKeeps DEF daemonVars
<1>3. ASSUME NEW p \in Procs,
             Launch(p) \/ Daemon(p) \/ Signal(p) \/ Crash(p) \/ PidReused(p)
               \/ JobArrives(p) \/ JobEnds(p)
      PROVE  ProcInv' /\ Lasting
  <2>1. CASE PidReused(p)
    BY <1>1, <2>1, IdleKeeps DEF PidReused
  <2>. QED
    BY <1>1, <1>3, <2>1, LaunchKeeps, StartComponentKeeps, StartFailsKeeps, StopStepKeeps,
       UnwindStepKeeps, OtherKeeps DEF Daemon
<1>4. ASSUME NEW c \in Cmds, Issue(c) \/ Cli(c)
      PROVE  ProcInv' /\ Lasting
  BY <1>1, <1>4, IdleKeeps, CliKeeps DEF Issue
<1>. QED
  BY <1>2, <1>3, <1>4 DEF DaemonNext

-----------------------------------------------------------------------------
(* A command moves to r: what r says of its process was true before.       *)
LEMMA CmdMoves ==
  ASSUME CmdInv, Lasting, NEW c \in Cmds, NEW r \in Commands,
         cmd' = [cmd EXCEPT ![c] = r], reused' = reused,
         r.pc \in {"waitExit", "waitKill"} => r.pid \in Procs,
         r.pid \in Procs => proc[r.pid].life # "none",
         r.stopped => /\ r.pid \in Procs /\ Gone(r.pid)
                      /\ r.pc \in {"start", "waitStart", "done"}
  PROVE  CmdInv'
<1>1. /\ cmd \in [Cmds -> Commands]
      /\ \A p \in reused \cap Procs : Gone(p)
      /\ \A d \in Cmds :
           /\ cmd[d].pc \in {"waitExit", "waitKill"} => cmd[d].pid \in Procs
           /\ cmd[d].pid \in Procs => proc[cmd[d].pid].life # "none"
           /\ cmd[d].stopped => /\ cmd[d].pid \in Procs /\ Gone(cmd[d].pid)
                                /\ cmd[d].pc \in {"start", "waitStart", "done"}
  BY DEF CmdInv
<1>2. \A p \in Procs : /\ Gone(p) => proc'[p].life \notin {"none", "alive"}
                       /\ proc[p].life # "none" => proc'[p].life # "none"
  BY DEF Lasting, StayGone, StayLaunched, Gone
<1>3. cmd' \in [Cmds -> Commands] /\ cmd'[c] = r /\ \A d \in Cmds \ {c} : cmd'[d] = cmd[d]
  BY <1>1
<1>. QED
  BY <1>1, <1>2, <1>3 DEF CmdInv, Gone

LEMMA CmdRests ==
  ASSUME CmdInv, Lasting, cmd' = cmd, reused' = reused
  PROVE  CmdInv'
BY DEF CmdInv, Lasting, StayGone, StayLaunched, Gone

(* A step that only moves a command on, or ends its stop part. *)
LEMMA GoesKeeps ==
  ASSUME CmdInv, Lasting, NEW c \in Cmds, reused' = reused,
         NEW pc \in {"idle", "stop", "post", "waitKill", "start", "waitStart", "done"}, Goes(c, pc),
         pc = "waitKill" => cmd[c].pid \in Procs,
         cmd[c].pc \notin {"start", "waitStart", "done"} \/ pc \in {"start", "waitStart", "done"}
  PROVE  CmdInv'
<1> DEFINE r == [cmd[c] EXCEPT !.pc = pc]
<1>1. cmd[c] \in Commands /\ cmd' = [cmd EXCEPT ![c] = r]
  BY DEF CmdInv, Goes
<1>2. /\ r \in Commands /\ r.pc = pc /\ r.pid = cmd[c].pid /\ r.stopped = cmd[c].stopped
  BY <1>1 DEF Commands
<1> HIDE DEF r
<1>3. /\ r.pc \in {"waitExit", "waitKill"} => r.pid \in Procs
      /\ r.pid \in Procs => proc[r.pid].life # "none"
      /\ r.stopped => /\ r.pid \in Procs /\ Gone(r.pid)
                      /\ r.pc \in {"start", "waitStart", "done"}
  BY <1>2 DEF CmdInv
<1>. QED
  BY <1>1, <1>2, <1>3, CmdMoves

LEMMA StopEndsKeeps ==
  ASSUME CmdInv, Lasting, NEW c \in Cmds, NEW died \in BOOLEAN, StopEnds(c, died),
         reused' = reused, died => cmd[c].pid \in Procs /\ Gone(cmd[c].pid)
  PROVE  CmdInv'
<1> DEFINE pc == IF cmd[c].restarts THEN "start" ELSE "done"
           r == [cmd[c] EXCEPT !.pc = pc, !.stopped = died]
<1>1. cmd[c] \in Commands /\ cmd' = [cmd EXCEPT ![c] = r]
  BY DEF CmdInv, StopEnds
<1>2. pc \in {"start", "done"}
  OBVIOUS
<1> HIDE DEF pc
<1>3. /\ r \in Commands /\ r.pc = pc /\ r.pid = cmd[c].pid /\ r.stopped = died
  BY <1>1, <1>2 DEF Commands
<1> HIDE DEF r
<1>4. /\ r.pc \in {"waitExit", "waitKill"} => r.pid \in Procs
      /\ r.pid \in Procs => proc[r.pid].life # "none"
      /\ r.stopped => /\ r.pid \in Procs /\ Gone(r.pid)
                      /\ r.pc \in {"start", "waitStart", "done"}
  BY <1>2, <1>3 DEF CmdInv
<1>. QED
  BY <1>1, <1>3, <1>4, CmdMoves

LEMMA CliCmdKeeps ==
  ASSUME DaemonInv, Lasting, NEW c \in Cmds, Issue(c) \/ Cli(c)
  PROVE  CmdInv'
<1>1. CmdInv /\ cmd[c] \in Commands /\ reused' = reused /\ ProcTypes
  BY DEF DaemonInv, ProcInv, CmdInv, Issue, Cli, StopProbes, StopPosts, ExitSeen, StopWaitOver,
         KillSeen, KillWaitOver, StartProbes, CliLaunches, StartSeen, StartExited, StartWaitOver
<1>2. /\ cmd[c].pc \in {"waitExit", "waitKill"} => cmd[c].pid \in Procs
      /\ cmd[c].pid \in Procs => proc[cmd[c].pid].life # "none"
      /\ \A p \in reused \cap Procs : Gone(p)
  BY <1>1 DEF CmdInv
<1>3. CASE Issue(c)
  <2>1. CASE Goes(c, "start")
    BY <1>1, <1>3, <2>1, GoesKeeps DEF Issue
  <2>2. CASE \E restarts \in BOOLEAN :
               cmd' = [cmd EXCEPT ![c].pc = "stop", ![c].restarts = restarts]
    <3>1. PICK restarts \in BOOLEAN :
            cmd' = [cmd EXCEPT ![c].pc = "stop", ![c].restarts = restarts]
      BY <2>2
    <3> DEFINE r == [cmd[c] EXCEPT !.pc = "stop", !.restarts = restarts]
    <3>2. cmd' = [cmd EXCEPT ![c] = r]
      BY <3>1, <1>1 DEF CmdInv
    <3>3. r \in Commands /\ r.pc = "stop" /\ r.pid = cmd[c].pid /\ r.stopped = cmd[c].stopped
      BY <1>1 DEF Commands
    <3> HIDE DEF r
    <3>4. ~r.stopped
      BY <1>1, <1>3, <3>3 DEF CmdInv, Issue
    <3>. QED
      BY <1>1, <1>2, <3>2, <3>3, <3>4, CmdMoves
  <2>. QED
    BY <1>3, <2>1, <2>2 DEF Issue
<1>4. CASE StopProbes(c)
  <2>1. Goes(c, "post") \/ StopEnds(c, FALSE)
    BY <1>4 DEF StopProbes
  <2>2. cmd[c].pc = "stop"
    BY <1>4 DEF StopProbes
  <2>. QED
    BY <1>1, <2>1, <2>2, GoesKeeps, StopEndsKeeps
<1>5. CASE StopPosts(c)
  <2>1. cmd[c].pc = "post"
    BY <1>5 DEF StopPosts
  <2>2. CASE StopEnds(c, FALSE) \/ CmdEnds(c)
    BY <1>1, <2>1, <2>2, GoesKeeps, StopEndsKeeps DEF CmdEnds, Goes
  <2>3. CASE \E p \in Answering : cmd' = [cmd EXCEPT ![c].pc = "waitExit", ![c].pid = p]
    <3>1. PICK p \in Answering : cmd' = [cmd EXCEPT ![c].pc = "waitExit", ![c].pid = p]
      BY <2>3
    <3>2. p \in Procs /\ proc[p].life # "none"
      BY DEF Answering, Holds, Alive
    <3> DEFINE r == [cmd[c] EXCEPT !.pc = "waitExit", !.pid = p]
    <3>3. cmd' = [cmd EXCEPT ![c] = r]
      BY <3>1, <1>1 DEF CmdInv
    <3>4. r \in Commands /\ r.pc = "waitExit" /\ r.pid = p /\ r.stopped = cmd[c].stopped
      BY <1>1, <3>2 DEF Commands
    <3> HIDE DEF r
    <3>5. ~r.stopped
      BY <1>1, <2>1, <3>4 DEF CmdInv
    <3>. QED
      BY <1>1, <3>2, <3>3, <3>4, <3>5, CmdMoves
  <2>. QED
    BY <1>5, <2>2, <2>3 DEF StopPosts
<1>6. CASE ExitSeen(c) \/ KillSeen(c)
  <2>1. cmd[c].pc \in {"waitExit", "waitKill"} /\ ~Alive(cmd[c].pid) /\ StopEnds(c, TRUE)
    BY <1>6 DEF ExitSeen, KillSeen, PidAlive
  <2>2. cmd[c].pid \in Procs /\ Gone(cmd[c].pid)
    BY <1>2, <2>1 DEF Gone, Alive
  <2>. QED
    BY <1>1, <2>1, <2>2, StopEndsKeeps
<1>7. CASE StopWaitOver(c)
  <2>1. cmd[c].pc = "waitExit" /\ cmd[c].pid \in Procs
    BY <1>2, <1>7 DEF StopWaitOver
  <2>2. CASE cmd[c].pid \in reused /\ StopEnds(c, TRUE)
    BY <1>1, <1>2, <2>1, <2>2, StopEndsKeeps
  <2>3. CASE CmdEnds(c)
    BY <1>1, <2>1, <2>3, GoesKeeps DEF CmdEnds, Goes
  <2>4. CASE Goes(c, "waitKill")
    BY <1>1, <2>1, <2>4, GoesKeeps
  <2>. QED
    BY <1>7, <2>2, <2>3, <2>4 DEF StopWaitOver
<1>8. CASE CliLaunches(c) /\ ~CmdEnds(c)
  <2>1. PICK p \in Procs : cmd' = [cmd EXCEPT ![c].pc = "waitStart", ![c].child = p]
    BY <1>8 DEF CliLaunches
  <2> DEFINE r == [cmd[c] EXCEPT !.pc = "waitStart", !.child = p]
  <2>2. cmd' = [cmd EXCEPT ![c] = r]
    BY <2>1, <1>1 DEF CmdInv
  <2>3. r \in Commands /\ r.pc = "waitStart" /\ r.pid = cmd[c].pid /\ r.stopped = cmd[c].stopped
    BY <1>1 DEF Commands
  <2> HIDE DEF r
  <2>4. r.stopped => r.pid \in Procs /\ Gone(r.pid)
    BY <1>1, <2>3 DEF CmdInv
  <2>. QED
    BY <1>1, <1>2, <2>2, <2>3, <2>4, CmdMoves
<1>9. CASE CmdEnds(c)
  BY <1>1, <1>9, GoesKeeps DEF CmdEnds, Goes
<1>. QED
  BY <1>3, <1>4, <1>5, <1>6, <1>7, <1>8, <1>9
     DEF Cli, KillWaitOver, StartProbes, StartSeen, StartExited, StartWaitOver

LEMMA DaemonStarts == DaemonInit => DaemonInv
<1> SUFFICES ASSUME DaemonInit PROVE DaemonInv
  OBVIOUS
<1>1. proc = [p \in Procs |-> NotLaunched] /\ cmd = [c \in Cmds |-> NoCmd] /\ reused = {}
  BY DEF DaemonInit
<1>2. /\ NotLaunched.life = "none" /\ NotLaunched.early = FALSE /\ NotLaunched.up = {}
  BY DEF NotLaunched
<1>3. ProcTypes /\ Ordered
  BY <1>1, <1>2, Fresh DEF ProcTypes, Ordered, InOrder
<1>4. Answering = {} /\ Exclusive
  BY <1>1, <1>2 DEF Answering, Exclusive, Holds, Alive
<1>5. NoCmd \in Commands /\ NoCmd.pc = "idle" /\ NoCmd.pid = Nobody /\ NoCmd.stopped = FALSE
  BY DEF NoCmd, Commands
<1>6. CmdInv
  BY <1>1, <1>5, LifecycleAssumption DEF CmdInv
<1>. QED
  BY <1>3, <1>4, <1>6 DEF DaemonInv, ProcInv, TokenInv

LEMMA DaemonInvKept == DaemonInv /\ [DaemonNext]_daemonVars => DaemonInv'
<1> SUFFICES ASSUME DaemonInv, [DaemonNext]_daemonVars PROVE DaemonInv'
  OBVIOUS
<1>1. ProcInv' /\ Lasting
  BY ProcInvKept
<1>2. CmdInv
  BY DEF DaemonInv
<1>3. ASSUME cmd' = cmd, reused' = reused
      PROVE  CmdInv'
  BY <1>1, <1>2, <1>3, CmdRests
<1>4. ASSUME NEW p \in Procs, PidReused(p)
      PROVE  CmdInv'
  <2>1. Gone(p) /\ reused' = reused \cup {p} /\ proc' = proc /\ cmd' = cmd
    BY <1>4 DEF PidReused, Gone
  <2>2. \A q \in (reused \cup {p}) \cap Procs : proc[q].life \notin {"none", "alive"}
    BY <1>2, <2>1 DEF CmdInv, Gone
  <2>3. /\ cmd \in [Cmds -> Commands]
        /\ \A c \in Cmds :
             /\ cmd[c].pc \in {"waitExit", "waitKill"} => cmd[c].pid \in Procs
             /\ cmd[c].pid \in Procs => proc[cmd[c].pid].life # "none"
             /\ cmd[c].stopped => /\ cmd[c].pid \in Procs
                                  /\ proc[cmd[c].pid].life \notin {"none", "alive"}
                                  /\ cmd[c].pc \in {"start", "waitStart", "done"}
    BY <1>2 DEF CmdInv, Gone
  <2>. QED
    BY <2>1, <2>2, <2>3 DEF CmdInv, Gone
<1>5. ASSUME NEW c \in Cmds, Issue(c) \/ Cli(c)
      PROVE  CmdInv'
  BY <1>1, <1>5, CliCmdKeeps
<1>6. \/ cmd' = cmd /\ reused' = reused
      \/ \E p \in Procs : PidReused(p)
      \/ \E c \in Cmds : Issue(c) \/ Cli(c)
  BY DEF DaemonNext, daemonVars, Daemon, Launch, StartComponent, StartFails, StopStep,
         UnwindStep, StopTimerFires, Signal, Crash, JobArrives, JobEnds
<1>7. CmdInv'
  BY <1>3, <1>4, <1>5, <1>6
<1>. QED
  BY <1>1, <1>7 DEF DaemonInv

(* The order of the components, the ports, the token and what commands     *)
(* know, through every start, stop, unwind, signal, crash and command.     *)
THEOREM DaemonInductive == DaemonSpec => []DaemonInv
BY DaemonStarts, DaemonInvKept, PTL DEF DaemonSpec

LEMMA InOrderServes == DaemonInv => TokenMatchesListener
<1> SUFFICES ASSUME DaemonInv PROVE TokenMatchesListener
  OBVIOUS
<1>1. ASSUME NEW p \in Procs, Alive(p), ~proc[p].early, proc[p].up \cap Fronts # {}
      PROVE  {Store, Jobs} \subseteq proc[p].up
  <2>1. InOrder(proc[p])
    BY DEF DaemonInv, ProcInv, Ordered
  <2>2. PICK n \in 0..5 : proc[p].up = 1..n
    BY <1>1, <2>1 DEF InOrder, Alive
  <2>. QED
    BY <1>1, <2>2 DEF Fronts, Store, Jobs, Hfp, Mcp, Control
<1>2. FrontsNeedJobs
  BY <1>1 DEF FrontsNeedJobs
<1>. QED
  BY <1>2 DEF DaemonInv, ProcInv, TokenInv, NoneEarly, TokenMatchesListener

(* The file holds the token of the daemon that serves, and what a daemon   *)
(* serves has its job manager and its store behind it (daemon.ts start and *)
(* stop).                                                                  *)
THEOREM TokenIsTheListeners == DaemonSpec => []TokenMatchesListener
BY DaemonInductive, InOrderServes, PTL

LEMMA GoneIsStopped == DaemonInv => StopTruthful
BY DEF DaemonInv, CmdInv, StopTruthful, Gone, Alive

(* A stop that reports success stopped the daemon it asked, for good       *)
(* (cli/daemon-command.ts runDaemonStop).                                  *)
THEOREM StopsAreTrue == DaemonSpec => []StopTruthful
BY DaemonInductive, GoneIsStopped, PTL
=============================================================================
