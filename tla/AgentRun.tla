------------------------------ MODULE AgentRun ------------------------------
(***************************************************************************)
(* One diagnosis in detail: Runtime.Diagnose, the agent's loop of model    *)
(* answers and tool calls, and the Recorder that stores the run, its final *)
(* step and every tool call and publishes an event about each.  The tool   *)
(* calls of one model answer run in parallel goroutines; the recorder's    *)
(* budget counter is a plain field, read and written without a lock.       *)
(***************************************************************************)
EXTENDS Naturals, Sequences, FiniteSets

CONSTANTS
    Call,            \* tool calls the model may ask for
    MaxToolCalls,    \* the budget; 0 is no limit
    MaxFaults,       \* how many writes the database may fail
    ApprovalEnabled  \* approval.enabled of the configuration

ASSUME AgentRunAssumption ==
    /\ IsFiniteSet(Call)
    /\ MaxToolCalls \in Nat /\ MaxFaults \in Nat /\ ApprovalEnabled \in BOOLEAN

VARIABLES
    pc,         \* where Diagnose is
    ctxLive,    \* its context: neither cancelled nor past the run's timeout
    toolCalls,  \* Recorder.toolCalls
    call,       \* per call: the goroutine of its InvokableRun
    runRow,     \* table agent_runs: the run's status
    stepRow,    \* table agent_steps: the final step is stored
    callRow,    \* table tool_calls: the status of each call
    approval,   \* table approvals: one was requested that names this call
    stream,     \* what the recorder published to the stream of the run
    faults,     \* how many writes failed
    raced,      \* history: two goroutines were in checkToolCall at once
    lost        \* history: most calls at a time that the counter misses

history == <<raced, lost>>
local == <<pc, ctxLive, toolCalls, call>>
tables == <<runRow, stepRow, callRow, approval>>
vars == <<local, tables, stream, faults, history>>

RowStatus == {"NONE", "RUNNING", "COMPLETED", "FAILED"}
Over == {"succeeded", "gave up", "crashed"}
Returned == {"succeeded", "failed"}   \* InvokableRun returned, without or with an error
Invocation ==
    [at : {"unasked", "load", "store", "compare", "record", "tool", "result"} \cup Returned,
     tool : {"read", "restart"}, seen : Nat, inner : {"none", "ok", "error"}]
StreamEvent ==
    [type : {"run.started", "tool.started", "tool.completed", "agent.thinking", "done"},
     call : SUBSET Call, status : RowStatus]

-----------------------------------------------------------------------------
(* How a write ends: it is done; it fails; or it is committed and the      *)
(* caller sees an error.  The latter two need a database fault, or a       *)
(* context that ends before or during the write.  persistenceContext is    *)
(* never cancelled.                                                        *)
Ending == {"done", "failed", "lost"}
Committed(how) == how \in {"done", "lost"}

WriteUnder(live, how) ==
    IF how = "done" THEN live /\ UNCHANGED faults
    ELSE \/ ~live /\ UNCHANGED faults
         \/ faults < MaxFaults /\ faults' = faults + 1

(* Mutant: results are stored under the context of the diagnosis.          *)
persistenceContextInherited == ctxLive

persistenceContext == TRUE

Tells(event) == stream' = Append(stream, event)
Event(type, c, status) == [type |-> type, call |-> {c}, status |-> status]
RunEvent(type, status) == [type |-> type, call |-> {}, status |-> status]

Stored(row, how, status) == IF Committed(how) THEN status ELSE row

-----------------------------------------------------------------------------
Init ==
    /\ pc = "start" /\ ctxLive = TRUE /\ toolCalls = 0
    /\ call = [c \in Call |-> [at |-> "unasked", tool |-> "read",
                               seen |-> 0, inner |-> "none"]]
    /\ runRow = "NONE" /\ stepRow = FALSE
    /\ callRow = [c \in Call |-> "NONE"]
    /\ approval = [c \in Call |-> FALSE]
    /\ stream = <<>> /\ faults = 0 /\ raced = FALSE /\ lost = 0

(* Start: a run that cannot be stored is given up without a record.        *)
Start(how) ==
    /\ pc = "start"
    /\ WriteUnder(ctxLive, how)
    /\ runRow' = Stored(runRow, how, "RUNNING")
    /\ IF how = "done"
       THEN pc' = "agent" /\ Tells(RunEvent("run.started", "RUNNING"))
       ELSE pc' = "gave up" /\ UNCHANGED stream
    /\ UNCHANGED <<ctxLive, toolCalls, call, stepRow, callRow, approval, history>>

-----------------------------------------------------------------------------
(* The agent's loop (external).  A round is the set of tool calls of one   *)
(* model answer; the next answer is asked for when all of them returned    *)
(* without an error.                                                       *)
Asked == {c \in Call : call[c].at # "unasked"}
Quiet == \A c \in Asked : call[c].at \in Returned
SomeFailed == \E c \in Asked : call[c].at = "failed"

ModelAsks(round, tool) ==
    /\ pc = "agent" /\ ctxLive /\ Quiet /\ ~SomeFailed
    /\ round # {} /\ round \cap Asked = {}
    /\ call' = [c \in Call |->
            IF c \in round THEN [call[c] EXCEPT !.at = "load", !.tool = tool[c]]
                           ELSE call[c]]
    /\ UNCHANGED <<pc, ctxLive, toolCalls, tables, stream, faults, history>>

ModelAnswers ==
    /\ pc = "agent" /\ ctxLive /\ Quiet /\ ~SomeFailed
    /\ pc' = "step"
    /\ UNCHANGED <<ctxLive, toolCalls, call, tables, stream, faults, history>>

(* Build or Generate returns an error: of a tool, of the model, of the     *)
(* context, or because max_steps is reached.                               *)
AgentFails ==
    /\ pc = "agent" /\ Quiet
    /\ pc' = "fail"
    /\ UNCHANGED <<ctxLive, toolCalls, call, tables, stream, faults, history>>

-----------------------------------------------------------------------------
(* checkToolCall: load and store of the counter, then the comparison,      *)
(* which the compiler may do on the register or on the field.              *)
Counting == {c \in Call : call[c].at \in {"store", "compare"}}

LoadCount(c) ==
    /\ pc = "agent" /\ call[c].at = "load"
    /\ call' = [call EXCEPT ![c].at = "store", ![c].seen = toolCalls]
    /\ raced' = (raced \/ Counting # {})
    /\ UNCHANGED <<pc, ctxLive, toolCalls, tables, stream, faults, lost>>

(* The calls that stored an increment: more than the counter says when a   *)
(* store overwrites another's.                                             *)
Counted == {c \in Call : call[c].at \notin {"unasked", "load", "store"}}

RecordLost ==
    LET n == Cardinality(Counted')
    IN  lost' = IF n > toolCalls' + lost THEN n - toolCalls' ELSE lost

(* Mutant: a call is counted twice.                                        *)
StoreCountTwice(c) ==
    /\ pc = "agent" /\ call[c].at = "store"
    /\ toolCalls' = call[c].seen + 2
    /\ call' = [call EXCEPT ![c].at = "compare", ![c].seen = @ + 2]
    /\ RecordLost
    /\ UNCHANGED <<pc, ctxLive, tables, stream, faults, raced>>

StoreCount(c) ==
    /\ pc = "agent" /\ call[c].at = "store"
    /\ toolCalls' = call[c].seen + 1
    /\ call' = [call EXCEPT ![c].at = "compare", ![c].seen = @ + 1]
    /\ RecordLost
    /\ UNCHANGED <<pc, ctxLive, tables, stream, faults, raced>>

(* Mutant: the budget is checked before the call is counted.               *)
ExceedsLate(n) == MaxToolCalls > 0 /\ n > MaxToolCalls + 1

Exceeds(n) == MaxToolCalls > 0 /\ n > MaxToolCalls

CompareCount(c) ==
    /\ pc = "agent" /\ call[c].at = "compare"
    /\ \E n \in {call[c].seen, toolCalls} :
          call' = [call EXCEPT ![c].at = IF Exceeds(n) THEN "failed" ELSE "record"]
    /\ UNCHANGED <<pc, ctxLive, toolCalls, tables, stream, faults, history>>

(* Mutants: the tool runs although its record could not be stored; the     *)
(* record is tried until it is stored.                                     *)
StartToolCallAnyway(c, how) ==
    /\ pc = "agent" /\ call[c].at = "record"
    /\ WriteUnder(ctxLive, how)
    /\ callRow' = [callRow EXCEPT ![c] = Stored(@, how, "RUNNING")]
    /\ call' = [call EXCEPT ![c].at = "tool"]
    /\ Tells(Event("tool.started", c, "RUNNING"))
    /\ UNCHANGED <<pc, ctxLive, toolCalls, runRow, stepRow, approval, history>>

StartToolCallRetried(c, how) ==
    /\ pc = "agent" /\ call[c].at = "record"
    /\ WriteUnder(ctxLive, how)
    /\ callRow' = [callRow EXCEPT ![c] = Stored(@, how, "RUNNING")]
    /\ IF how = "done"
       THEN /\ call' = [call EXCEPT ![c].at = "tool"]
            /\ Tells(Event("tool.started", c, "RUNNING"))
       ELSE UNCHANGED <<call, stream>>
    /\ UNCHANGED <<pc, ctxLive, toolCalls, runRow, stepRow, approval, history>>

(* StartToolCall: stored before the tool runs, else the tool does not run. *)
StartToolCall(c, how) ==
    /\ pc = "agent" /\ call[c].at = "record"
    /\ WriteUnder(ctxLive, how)
    /\ callRow' = [callRow EXCEPT ![c] = Stored(@, how, "RUNNING")]
    /\ IF how = "done"
       THEN /\ call' = [call EXCEPT ![c].at = "tool"]
            /\ Tells(Event("tool.started", c, "RUNNING"))
       ELSE /\ call' = [call EXCEPT ![c].at = "failed"]
            /\ UNCHANGED stream
    /\ UNCHANGED <<pc, ctxLive, toolCalls, runRow, stepRow, approval, history>>

-----------------------------------------------------------------------------
(* The tools.  A read-only tool answers or fails.  worker_restart asks for *)
(* an approval that names the call, unless policy or target forbid it; the *)
(* approval may be stored although the tool returns an error.              *)
Evaluate(risk) ==
    CASE risk = "LOW" -> "ALLOW"
      [] risk \in {"MEDIUM", "HIGH"} /\ ApprovalEnabled -> "REQUIRE_APPROVAL"
      [] OTHER -> "DENY"

ToolReturns(c, result) ==
    call' = [call EXCEPT ![c].at = "result", ![c].inner = result]

ReadTool(c, result) ==
    /\ pc = "agent" /\ call[c].at = "tool" /\ call[c].tool = "read"
    /\ ToolReturns(c, result)
    /\ UNCHANGED <<pc, ctxLive, toolCalls, tables, stream, faults, history>>

RestartTool(c, result) ==
    /\ pc = "agent" /\ call[c].at = "tool" /\ call[c].tool = "restart"
    /\ ToolReturns(c, result)
    /\ \/ /\ Evaluate("MEDIUM") # "DENY"
          /\ approval' = [approval EXCEPT ![c] = TRUE]
       \/ result = "error" /\ UNCHANGED approval
    /\ UNCHANGED <<pc, ctxLive, toolCalls, runRow, stepRow, callRow, stream, faults, history>>

(* CompleteToolCall: the result is stored even if the context has ended; a *)
(* result that cannot be stored is an error of the call.                   *)
ResultStatus(c) == IF call[c].inner = "ok" THEN "COMPLETED" ELSE "FAILED"
CallFailedQuietly(c, how) == call[c].inner # "ok"     \* mutant: drops perr
CallFailed(c, how) == call[c].inner # "ok" \/ how # "done"

CompleteToolCall(c, how) ==
    /\ pc = "agent" /\ call[c].at = "result"
    /\ WriteUnder(persistenceContext, how)
    /\ callRow' = [callRow EXCEPT ![c] = Stored(@, how, ResultStatus(c))]
    /\ call' = [call EXCEPT ![c].at = IF CallFailed(c, how) THEN "failed" ELSE "succeeded"]
    /\ IF how = "done" THEN Tells(Event("tool.completed", c, ResultStatus(c)))
                       ELSE UNCHANGED stream
    /\ UNCHANGED <<pc, ctxLive, toolCalls, runRow, stepRow, approval, history>>

-----------------------------------------------------------------------------
(* Diagnose after Generate: the final step, then COMPLETED; if either      *)
(* write fails, FAILED.                                                    *)
Step(how) ==
    /\ pc = "step"
    /\ WriteUnder(ctxLive, how)
    /\ stepRow' = Stored(stepRow, how, TRUE)
    /\ IF how = "done" THEN pc' = "complete" /\ Tells(RunEvent("agent.thinking", "COMPLETED"))
                       ELSE pc' = "fail" /\ UNCHANGED stream
    /\ UNCHANGED <<ctxLive, toolCalls, call, runRow, callRow, approval, history>>

(* Mutant: the event is published whatever became of the write.            *)
CompleteEagerly(how) ==
    /\ pc = "complete"
    /\ WriteUnder(persistenceContext, how)
    /\ runRow' = Stored(runRow, how, "COMPLETED")
    /\ pc' = IF how = "done" THEN "succeeded" ELSE "fail"
    /\ Tells(RunEvent("done", "COMPLETED"))
    /\ UNCHANGED <<ctxLive, toolCalls, call, stepRow, callRow, approval, history>>

Complete(how) ==
    /\ pc = "complete"
    /\ WriteUnder(persistenceContext, how)
    /\ runRow' = Stored(runRow, how, "COMPLETED")
    /\ IF how = "done" THEN pc' = "succeeded" /\ Tells(RunEvent("done", "COMPLETED"))
                       ELSE pc' = "fail" /\ UNCHANGED stream
    /\ UNCHANGED <<ctxLive, toolCalls, call, stepRow, callRow, approval, history>>

Fail(how) ==
    /\ pc = "fail"
    /\ WriteUnder(persistenceContext, how)
    /\ runRow' = Stored(runRow, how, "FAILED")
    /\ IF how = "done" THEN Tells(RunEvent("done", "FAILED")) ELSE UNCHANGED stream
    /\ pc' = "gave up"
    /\ UNCHANGED <<ctxLive, toolCalls, call, stepRow, callRow, approval, history>>

-----------------------------------------------------------------------------
(* The run's timeout, or the worker shutting down.                         *)
Cancel ==
    /\ pc \notin Over /\ ctxLive
    /\ ctxLive' = FALSE
    /\ UNCHANGED <<pc, toolCalls, call, tables, stream, faults, history>>

Crash ==
    /\ pc \notin Over
    /\ pc' = "crashed"
    /\ UNCHANGED <<ctxLive, toolCalls, call, tables, stream, faults, history>>

InvokableRun(c) ==
    \/ LoadCount(c) \/ StoreCount(c) \/ CompareCount(c)
    \/ \E how \in Ending : StartToolCall(c, how) \/ CompleteToolCall(c, how)
    \/ \E result \in {"ok", "error"} : ReadTool(c, result) \/ RestartTool(c, result)

Diagnose ==
    \/ \E how \in Ending : Start(how) \/ Step(how) \/ Complete(how) \/ Fail(how)
    \/ ModelAnswers \/ AgentFails
    \/ \E round \in SUBSET Call : \E tool \in [round -> {"read", "restart"}] :
          ModelAsks(round, tool)

Next == Diagnose \/ (\E c \in Call : InvokableRun(c)) \/ Cancel \/ Crash

Spec == Init /\ [][Next]_vars

(* Model, tools and database answer or time out; nothing is assumed of     *)
(* cancellation, crashes and which way a step ends.                        *)
FairSpec == Spec /\ WF_vars(Diagnose) /\ \A c \in Call : WF_vars(InvokableRun(c))

-----------------------------------------------------------------------------
(* Every variable has its type.                                            *)
TypeOK ==
    /\ pc \in {"start", "agent", "step", "complete", "fail"} \cup Over
    /\ ctxLive \in BOOLEAN /\ stepRow \in BOOLEAN /\ raced \in BOOLEAN
    /\ toolCalls \in 0 .. Cardinality(Call) /\ lost \in 0 .. Cardinality(Call)
    /\ faults \in 0 .. MaxFaults
    /\ call \in [Call -> Invocation]
    /\ runRow \in RowStatus /\ callRow \in [Call -> RowStatus]
    /\ approval \in [Call -> BOOLEAN]
    /\ stream \in Seq(StreamEvent)

(* An approval names a tool call that is stored, at every moment and after *)
(* a crash or a database failure at any step (recorder.go:93).             *)
ApprovalNamesStoredCall == \A c \in Call : approval[c] => callRow[c] # "NONE"

(* A run is stored as COMPLETED only with its whole audit trail: the final *)
(* step, and every tool call the model asked for stored as COMPLETED; so   *)
(* no failed write, refused or failed call hides behind a success          *)
(* (runtime.go:113, recorder.go:116).                                      *)
CompletedHasFullTrail ==
    runRow = "COMPLETED" =>
        stepRow /\ \A c \in Asked : callRow[c] = "COMPLETED"

(* The recorder's events tell what is stored: a call is announced when it  *)
(* is stored and reported with the status it is stored with, and "done"    *)
(* is the recorder's last event, once and with the status of the run       *)
(* (recorder.go:57, 134, 151, 168).                                        *)
StreamTellsTheTrail ==
    \A k \in DOMAIN stream : LET e == stream[k] IN
        /\ e.type = "run.started" => k = 1
        /\ e.type = "tool.started" => \A c \in e.call : callRow[c] # "NONE"
        /\ e.type = "tool.completed" => \A c \in e.call :
              /\ callRow[c] = e.status
              /\ \E j \in 1 .. k - 1 : stream[j] = Event("tool.started", c, "RUNNING")
        /\ e.type = "agent.thinking" => stepRow
        /\ e.type = "done" => k = Len(stream) /\ runRow = e.status

(* A context that ends, at any step, leaves no open record: as long as the *)
(* database answers, a Diagnose that got past Start returns with its run   *)
(* settled, and with it every tool call that ran (recorder.go:172).        *)
CancellationLeavesNothingOpen ==
    pc \in {"succeeded", "gave up"} /\ faults = 0 /\ stream # <<>> =>
        /\ runRow = IF pc = "succeeded" THEN "COMPLETED" ELSE "FAILED"
        /\ \A c \in Asked : call[c].inner # "none" => callRow[c] = ResultStatus(c)

Ran == {c \in Call : call[c].at \in {"tool", "result"} \/ call[c].inner # "none"}

(* At most one tool too many runs per increment that was overwritten, and  *)
(* an increment is overwritten only when two goroutines counted at the     *)
(* same time, however comparisons read the counter (recorder.go:47).       *)
BudgetHeldButForLost ==
    /\ MaxToolCalls > 0 => Cardinality(Ran) <= MaxToolCalls + lost
    /\ ~raced => lost = 0

(* Readers of the recorder's trail may rely on AuditTrail: however calls   *)
(* run in parallel, writes fail or are lost, and the context or the pro-   *)
(* cess ends, rows are settled once and in order, an event is told with    *)
(* its write or never, and the recorder stores and tells nothing after its *)
(* "done" (recorder.go:55, runtime.go:113).                                *)
Trail == INSTANCE AuditTrail
    WITH run <- runRow, final <- stepRow, record <- callRow, told <- stream

ImplementsAuditTrail == Trail!Spec

(* Diagnose returns, or its process dies: no error path leaves it waiting. *)
DiagnoseReturns == <>(pc \in Over)

=============================================================================
