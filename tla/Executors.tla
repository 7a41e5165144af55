----------------------------- MODULE Executors -----------------------------
(***************************************************************************)
(* One job's execute(): the recon and write executors around the shared    *)
(* model conversation (agent-executor.ts, write-executor.ts, loop.ts), and *)
(* the command executor, over one SafeSpawn at a time.                     *)
(*                                                                         *)
(* The model and the file system are the environment: what the model asks  *)
(* for is any turn of Calls, and a tool may fail in any way it can.  The   *)
(* wall budget is one bit that turns when it is spent.  Of the messages    *)
(* only the tool calls asked and answered are kept, of the work tree the   *)
(* edits that reached it.                                                  *)
(***************************************************************************)
EXTENDS SafeSpawn, AgentTools

CONSTANTS
  MaxToolCalls,   \* the job's tool-call budget
  MaxTurn,        \* calls in one answer of the model, at most
  CommandsListed, \* whether the allowlist has entries
  ReadTexts, GrepFiles, GlobCounts  \* inputs of the read tools

ASSUME BudgetsAssumption == MaxToolCalls \in Nat /\ MaxTurn \in Nat /\ CommandsListed \in BOOLEAN

ASSUME InputsAssumption ==
  /\ ReadTexts \subseteq Seq(Nat \ {0}) /\ GlobCounts \subseteq Nat
  /\ GrepFiles \subseteq Seq([size : Nat, hits : Nat, gone : BOOLEAN])

VARIABLES
  job,        \* its type and verify command, and whether a model endpoint resolved
  phase,
  turn,       \* the calls of the model's answer still to be handled
  current,    \* the tool call being executed
  used,       \* toolCallsUsed
  asked, answered,  \* tool calls echoed to the conversation, and their results
  expired,    \* maxWallMs has passed
  shown,      \* the tool answer being pushed to the conversation
  tree, acked,      \* edits that reached the work tree; those reported as done
  declared,   \* the model said the task is done
  committed,  \* the edits finalize committed
  result

loopVars == <<turn, current, used, asked, answered>>
workVars == <<tree, acked, declared, committed>>
vars == <<svars, job, phase, loopVars, expired, shown, workVars, result>>

ReadTools == {"read_file", "grep", "glob"}
WriteTools == {"write_file", "edit_file"}
Names == ReadTools \cup WriteTools \cup {"run_command", "finish_task", "no_such_tool"}
\* parsed: the arguments are JSON
ToolCalls == {[name |-> n, parsed |-> TRUE] : n \in Names}
               \cup {[name |-> "finish_task", parsed |-> FALSE]}
NoCall == [name |-> "none", parsed |-> TRUE]
Nothing == [tool |-> "none"]
Pending == [status |-> "none", code |-> "none"]

Init ==
  /\ SpawnInit
  /\ job \in [type : {"recon", "write", "command"},
              verify : {"none", "listed", "unlisted"}, endpoint : BOOLEAN]
  /\ job.type # "write" => job.verify = "none"
  /\ job.type = "command" => job.endpoint
  /\ CommandsListed \/ job.verify # "listed"
  /\ phase = "start"
  /\ turn = <<>> /\ current = NoCall /\ used = 0 /\ asked = 0 /\ answered = 0
  /\ expired = FALSE /\ shown = Nothing
  /\ tree = {} /\ acked = {} /\ declared = FALSE /\ committed = {}
  /\ result = Pending

-----------------------------------------------------------------------------
Finish(status, code) ==
  /\ phase' = "done"
  /\ result' = [status |-> status, code |-> code]

GoTo(p) == phase' = p /\ UNCHANGED result

(* The toolset advertised to the model, and dispatched. *)
Toolset ==
  ReadTools
    \cup (IF job.type = "write" THEN WriteTools \cup {"finish_task"} ELSE {})
    \cup (IF CommandsListed THEN {"run_command"} ELSE {})

Terminal == IF job.type = "write" THEN {"finish_task"} ELSE {}

(* The gates before any model traffic. *)
BeginModelJob ==
  /\ phase = "start" /\ job.type # "command"
  /\ CASE job.verify = "unlisted" -> Finish("failed", "COMMAND_NOT_ALLOWED")
       [] job.verify # "unlisted" /\ ~job.endpoint -> Finish("failed", "INTERNAL")
       [] OTHER -> GoTo("loop")
  /\ UNCHANGED <<svars, job, loopVars, expired, shown, workVars>>

BeginCommandJob ==
  /\ phase = "start" /\ job.type = "command"
  /\ SpawnCall(CommandsListed)
  /\ GoTo("command")
  /\ UNCHANGED <<job, loopVars, expired, shown, workVars>>

CommandEnds ==
  /\ phase = "command" /\ spawn = "settled"
  /\ CASE outcome.kind = "completed" /\ outcome.exit = "zero" -> Finish("succeeded", "none")
       [] outcome.kind = "completed" /\ outcome.exit # "zero" -> Finish("failed", "INTERNAL")
       [] outcome.kind = "timeout" -> Finish("failed", "TIMEOUT")
       [] outcome.kind = "canceled" -> Finish("canceled", "CANCELED")
       [] outcome.kind = "refused" -> Finish("failed", "REFUSED")
  /\ UNCHANGED <<svars, job, loopVars, expired, shown, workVars>>

-----------------------------------------------------------------------------
LoopTop ==
  /\ phase = "loop"
  /\ CASE aborted -> Finish("canceled", "CANCELED")
       [] ~aborted /\ expired -> Finish("failed", "BUDGET_EXCEEDED")
       [] OTHER -> GoTo("chat")
  /\ UNCHANGED <<svars, job, loopVars, expired, shown, workVars>>

(* Plain content ends the conversation: a recon job's summary, a write     *)
(* job's declaration that it is done.                                      *)
ModelConcludes ==
  /\ phase = "chat"
  /\ IF job.type = "recon"
     THEN Finish("succeeded", "none") /\ UNCHANGED declared
     ELSE GoTo("finalize") /\ declared' = TRUE
  /\ UNCHANGED <<svars, job, loopVars, expired, shown, tree, acked, committed>>

ModelCallsTools(calls) ==
  /\ phase = "chat"
  /\ turn' = calls
  /\ asked' = asked + Len(calls)
  /\ GoTo("calls")
  /\ UNCHANGED <<svars, job, current, used, answered, expired, shown, workVars>>

ChatThrows ==
  /\ CASE aborted -> Finish("canceled", "CANCELED")
       [] ~aborted /\ expired -> Finish("failed", "BUDGET_EXCEEDED")
       [] OTHER -> Finish("failed", "INTERNAL")
  /\ UNCHANGED <<svars, job, loopVars, expired, shown, workVars>>

FetchAborts_NoWallTimer == phase = "chat" /\ aborted /\ ChatThrows

(* The fetch is aborted by the job's signal or the wall timer ... *)
FetchAborts == phase = "chat" /\ (aborted \/ expired) /\ ChatThrows

(* ... or the endpoint is unreachable, or answers garbage, or neither      *)
(* content nor calls.                                                      *)
EndpointFails == phase = "chat" /\ ChatThrows

-----------------------------------------------------------------------------
TurnEnds ==
  /\ phase = "calls" /\ turn = <<>>
  /\ GoTo("loop")
  /\ UNCHANGED <<svars, job, loopVars, expired, shown, workVars>>

(* A terminal call is returned, not executed; its arguments may still be   *)
(* refused before anything is committed.                                   *)
TerminalCall(valid) ==
  /\ phase = "calls" /\ turn # <<>>
  /\ Head(turn).name \in Terminal /\ Head(turn).parsed
  /\ IF valid
     THEN declared' = TRUE /\ GoTo("finalize")
     ELSE Finish("failed", "INTERNAL") /\ UNCHANGED declared
  /\ UNCHANGED <<svars, job, loopVars, expired, shown, tree, acked, committed>>

Dispatchable == phase = "calls" /\ turn # <<>>
                  /\ ~(Head(turn).name \in Terminal /\ Head(turn).parsed)

ToolBudgetSpent_KeepsTheWork ==
  /\ Dispatchable /\ used >= MaxToolCalls
  /\ IF job.type = "write" THEN GoTo("finalize") ELSE Finish("failed", "BUDGET_EXCEEDED")
  /\ UNCHANGED <<svars, job, loopVars, expired, shown, workVars>>

ToolBudgetSpent ==
  /\ Dispatchable /\ used >= MaxToolCalls
  /\ Finish("failed", "BUDGET_EXCEEDED")
  /\ UNCHANGED <<svars, job, loopVars, expired, shown, workVars>>

Dispatch ==
  /\ Dispatchable /\ used < MaxToolCalls
  /\ current' = Head(turn) /\ turn' = Tail(turn)
  /\ used' = used + 1
  /\ GoTo("tool")
  /\ UNCHANGED <<svars, job, asked, answered, expired, shown, workVars>>

ToolAnswers(out) ==
  /\ shown' = out
  /\ GoTo("answer")
  /\ UNCHANGED <<job, loopVars, expired, declared, committed>>

(* The result is pushed to the conversation, then the signal is asked. *)
PushAnswer ==
  /\ phase = "answer"
  /\ answered' = answered + 1
  /\ shown' = Nothing /\ current' = NoCall
  /\ IF aborted THEN Finish("canceled", "CANCELED") ELSE GoTo("calls")
  /\ UNCHANGED <<svars, job, turn, used, asked, expired, workVars>>

Executing(name) ==
  /\ phase = "tool" /\ current.name = name
  /\ current.name \in Toolset /\ current.parsed
  /\ spawn \in {"idle", "settled"}

(* Unknown name, bad arguments, or anything the tool threw. *)
ToolFails ==
  /\ phase = "tool" /\ spawn \in {"idle", "settled"}
  /\ ToolAnswers([tool |-> "error"])
  /\ UNCHANGED <<svars, tree, acked>>

ReadTool ==
  \/ /\ Executing("read_file")
     /\ \E text \in ReadTexts :
          ToolAnswers([tool |-> "read_file", input |-> text, out |-> ReadFile(text)])
     /\ UNCHANGED <<svars, tree, acked>>
  \/ /\ Executing("grep")
     /\ \E files \in GrepFiles :
          ToolAnswers([tool |-> "grep", input |-> files, out |-> Grep(files)])
     /\ UNCHANGED <<svars, tree, acked>>
  \/ /\ Executing("glob")
     /\ \E found \in GlobCounts :
          ToolAnswers([tool |-> "glob", input |-> found, out |-> Glob(found)])
     /\ UNCHANGED <<svars, tree, acked>>

(* write_file replaces the file whole.  A path outside the workspace or    *)
(* under .git, a directory, a file in the way or too many bytes leaves no  *)
(* trace (ToolFails); the write itself may fail half way.                  *)
WriteFile(complete) ==
  /\ Executing("write_file")
  /\ tree' = tree \cup {used}
  /\ acked' = IF complete THEN acked \cup {used} ELSE acked
  /\ ToolAnswers([tool |-> IF complete THEN "write_file" ELSE "error"])
  /\ UNCHANGED svars

(* The write of an edit, too, may fail half way. *)
EditTool(complete) ==
  /\ Executing("edit_file")
  /\ \E text \in ReadTexts, new \in 1 .. 3 :
       LET out == EditFile(text, 1, new, MaxReadBytes)
       IN  /\ complete \/ ~out.isError
           /\ ToolAnswers(IF complete THEN [tool |-> "edit_file", input |-> text, out |-> out]
                                      ELSE [tool |-> "error"])
           /\ tree' = IF out.isError THEN tree ELSE tree \cup {used}
           /\ acked' = IF complete /\ ~out.isError THEN acked \cup {used} ELSE acked
  /\ UNCHANGED svars

RunCommand ==
  /\ Executing("run_command")
  /\ \E listed \in BOOLEAN : SpawnCall(listed)
  /\ GoTo("spawned")
  /\ UNCHANGED <<job, loopVars, expired, shown, workVars>>

(* A nonzero exit is information, the other outcomes are error results. *)
CommandAnswers ==
  /\ phase = "spawned" /\ spawn = "settled"
  /\ ToolAnswers([tool |-> IF outcome.kind = "completed" THEN "run_command" ELSE "error"])
  /\ UNCHANGED <<svars, tree, acked>>

-----------------------------------------------------------------------------
(* finalize commits the tree and bundles it, or finds it clean. *)
FinalizeReturns ==
  /\ phase = "finalize"
  /\ committed' = tree
  /\ IF job.verify = "none" THEN Finish("succeeded", "none") ELSE GoTo("verify")
  /\ UNCHANGED <<svars, job, loopVars, expired, shown, tree, acked, declared>>

FinalizeThrows(afterCommit) ==
  /\ phase = "finalize"
  /\ committed' = IF afterCommit THEN tree ELSE {}
  /\ IF aborted THEN Finish("canceled", "CANCELED") ELSE Finish("failed", "INTERNAL")
  /\ UNCHANGED <<svars, job, loopVars, expired, shown, tree, acked, declared>>

(* verify runs on the committed tree and is only reported. *)
VerifyStarts ==
  /\ phase = "verify"
  /\ SpawnCall(CommandsListed)
  /\ GoTo("verifying")
  /\ UNCHANGED <<job, loopVars, expired, shown, workVars>>

VerifyEnds ==
  /\ phase = "verifying" /\ spawn = "settled"
  /\ Finish("succeeded", "none")
  /\ UNCHANGED <<svars, job, loopVars, expired, shown, workVars>>

-----------------------------------------------------------------------------
AbortJob ==
  /\ phase \notin {"answer", "done"}
  /\ Abort
  /\ UNCHANGED <<job, phase, loopVars, expired, shown, workVars, result>>

WallBudgetRunsOut ==
  /\ phase \notin {"answer", "done"} /\ job.type # "command" /\ ~expired
  /\ expired' = TRUE
  /\ UNCHANGED <<svars, job, phase, loopVars, shown, workVars, result>>

SpawnStep ==
  /\ phase \notin {"answer", "done"}
  /\ SpawnNext
  /\ UNCHANGED <<job, phase, loopVars, expired, shown, workVars, result>>

(* What the call itself drives; and an exited child lets go of its pipes. *)
SpawnMovesOn ==
  /\ phase \notin {"answer", "done"}
  /\ Checked \/ TimerFires \/ WatchdogFires \/ ChildCloses
  /\ UNCHANGED <<job, phase, loopVars, expired, shown, workVars, result>>

Turns == UNION {[1 .. n -> ToolCalls] : n \in 1 .. MaxTurn}

Begins == BeginModelJob \/ BeginCommandJob \/ LoopTop \/ TurnEnds \/ PushAnswer
Concludes == \E valid \in BOOLEAN : TerminalCall(valid)
Model == ModelConcludes \/ \E calls \in Turns : ModelCallsTools(calls)
Writes == \E complete \in BOOLEAN : WriteFile(complete) \/ EditTool(complete)
ToolStep == ToolFails \/ ReadTool \/ Writes \/ RunCommand
Ends == CommandEnds \/ CommandAnswers \/ VerifyStarts \/ VerifyEnds
Finalizes == FinalizeReturns \/ \E after \in BOOLEAN : FinalizeThrows(after)

ExecNext ==
  \/ Begins \/ Model \/ FetchAborts \/ EndpointFails
  \/ Concludes \/ ToolBudgetSpent \/ Dispatch \/ ToolStep
  \/ Ends \/ Finalizes \/ SpawnStep \/ AbortJob \/ WallBudgetRunsOut

(* The executor's own steps, its timers, the disk and git are fair.  The   *)
(* model may never answer, and a child may never exit by itself, but one   *)
(* that exits lets go of its pipes (one whose descendant holds them would  *)
(* never settle, spawn.ts:373), and time passes.                           *)
ExecSpec ==
  /\ Init /\ [][ExecNext]_vars
  /\ WF_vars(Begins) /\ WF_vars(FetchAborts) /\ WF_vars(Concludes)
  /\ WF_vars(ToolBudgetSpent) /\ WF_vars(Dispatch) /\ WF_vars(ToolStep)
  /\ WF_vars(Ends) /\ WF_vars(Finalizes) /\ WF_vars(WallBudgetRunsOut)
  /\ WF_vars(SpawnMovesOn)

-----------------------------------------------------------------------------
ModelPhases == {"loop", "chat", "calls", "tool", "spawned", "answer"}

TypeOK ==
  /\ SpawnTypeOK
  /\ phase \in ModelPhases \cup
       {"start", "command", "finalize", "verify", "verifying", "done"}
  /\ used \in 0 .. MaxToolCalls /\ asked \in Nat /\ answered \in 0 .. used
  /\ result.status \in {"none", "succeeded", "failed", "canceled"}

(* Every request to the model carries one result for each call it ever     *)
(* made, and within a turn the calls still owed are exactly those not yet  *)
(* reached (loop.ts:207-268): an endpoint refuses a conversation with a    *)
(* missing tool message.                                                   *)
ConversationWellFormed ==
  /\ TypeOK
  /\ phase \in {"loop", "chat"} => asked = answered
  /\ phase = "calls" => asked = answered + Len(turn)
  /\ phase \in {"tool", "spawned", "answer"} => asked = answered + Len(turn) + 1

(* No half-finished work is committed: a commit needs the model's          *)
(* declaration, holds every edit that was reported to the model as done,   *)
(* and a job that failed for its budget, its endpoint or a cancellation    *)
(* before that leaves none (write-executor.ts:15-19).  A result says       *)
(* canceled only of a canceled job, and a verify never fails one.          *)
ResultTruthful ==
  /\ ConversationWellFormed
  /\ committed # {} => declared /\ acked \subseteq committed
  /\ result.code = "BUDGET_EXCEEDED" => committed = {} /\ (expired \/ used = MaxToolCalls)
  /\ result.status = "canceled" => aborted
  /\ result.status = "succeeded" /\ job.type = "write" => committed = tree
  /\ job.type = "command" /\ result.status = "succeeded" =>
       child = "closed" /\ exit = "zero" /\ killedBy = "none"

(* What a tool leaves out of its answer, it says (tools.ts:279-586,        *)
(* write-tools.ts:226-323); only what vanished while it ran is not missed. *)
AnswersHonest ==
  CASE shown.tool = "read_file" -> ReadHonest(shown.input, shown.out)
    [] shown.tool = "grep" -> GrepHonest(shown.input, shown.out)
    [] shown.tool = "glob" -> GlobHonest(shown.input, shown.out)
    [] shown.tool = "edit_file" -> EditHonest(shown.input, 1, MaxReadBytes, shown.out)
    [] OTHER -> TRUE

(* execute() resolves: whatever the model, the disk and the child do, the  *)
(* job ends (executor.ts:77-79), and its slot is freed.                    *)
ExecutorSettles == <>(phase = "done")
=============================================================================
