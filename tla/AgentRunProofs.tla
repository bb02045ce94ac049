--------------------------- MODULE AgentRunProofs ---------------------------
(***************************************************************************)
(* Proofs about AgentRun, for any number of tool calls, any budget and any *)
(* number of faults.                                                       *)
(***************************************************************************)
EXTENDS AgentRun, FiniteSetTheorems, TLAPS

(* The types, but for the bound on the counter, which BudgetInv gives.     *)
Types ==
    /\ pc \in {"start", "agent", "step", "complete", "fail"} \cup Over
    /\ ctxLive \in BOOLEAN /\ stepRow \in BOOLEAN /\ raced \in BOOLEAN
    /\ toolCalls \in Nat /\ lost \in Nat /\ faults \in 0 .. MaxFaults
    /\ call \in [Call -> Invocation]
    /\ runRow \in RowStatus /\ callRow \in [Call -> RowStatus]
    /\ approval \in [Call -> BOOLEAN]
    /\ stream \in Seq(StreamEvent)

Announced(c, n) == \E j \in 1 .. n : stream[j] = Event("tool.started", c, "RUNNING")

(* What the record of a tool call is worth at each place of its goroutine. *)
RecordInv(c) ==
    /\ call[c].at \in {"tool", "result"} => callRow[c] # "NONE" /\ Announced(c, Len(stream))
    /\ approval[c] => callRow[c] # "NONE"
    /\ call[c].at \notin {"result"} \cup Returned => call[c].inner = "none"
    /\ call[c].at = "succeeded" => callRow[c] = "COMPLETED"
    /\ call[c].at \in Returned /\ call[c].inner # "none" /\ faults = 0
          => callRow[c] = ResultStatus(c)

CallInv == \A c \in Call : RecordInv(c)

(* What is stored of the run at each place of Diagnose.                    *)
RunInv ==
    /\ pc = "start" => stream = <<>> /\ runRow = "NONE" /\ Asked = {}
    /\ pc \in {"agent", "step", "complete"} => runRow = "RUNNING"
    /\ pc \in {"step", "complete", "succeeded", "fail", "gave up"} => Quiet
    /\ pc \in {"step", "complete", "succeeded"} => ~SomeFailed
    /\ pc \in {"complete", "succeeded"} => stepRow
    /\ pc = "succeeded" => runRow = "COMPLETED"
    /\ pc = "gave up" /\ faults = 0 /\ stream # <<>> => runRow = "FAILED"
    /\ CompletedHasFullTrail

(* What each event of the stream implies.                                  *)
EventInv(k) == LET e == stream[k] IN
    /\ e.type = "run.started" => k = 1
    /\ e.type = "tool.started" => \A c \in e.call : callRow[c] # "NONE"
    /\ e.type = "tool.completed" => \A c \in e.call :
          call[c].at \in Returned /\ callRow[c] = e.status /\ Announced(c, k - 1)
    /\ e.type = "agent.thinking" => stepRow
    /\ e.type = "done" =>
          pc \in {"succeeded", "gave up"} /\ k = Len(stream) /\ runRow = e.status

StreamInv == \A k \in DOMAIN stream : EventInv(k)

(* The calls that were let through, and those that will be if they compare *)
(* the value they stored.                                                  *)
Passed == {c \in Call : call[c].at \in {"record", "tool", "result"} \/ call[c].inner # "none"}
MayPass == Passed \cup {c \in Call : call[c].at = "compare" /\ call[c].seen <= MaxToolCalls}

(* The counter: never above the number of counted calls, never further be- *)
(* low it than was ever lost, and equal to it as long as no two goroutines *)
(* counted at once.                                                        *)
BudgetInv ==
    /\ toolCalls <= Cardinality(Counted)
    /\ Cardinality(Counted) <= toolCalls + lost
    /\ lost <= Cardinality(Counted)
    /\ \A c \in Call : call[c].at = "store" => call[c].seen <= Cardinality(Counted)
    /\ MaxToolCalls > 0 => Cardinality(MayPass) <= MaxToolCalls + lost
    /\ ~raced =>
          /\ toolCalls = Cardinality(Counted) /\ lost = 0
          /\ \A c \in Counting : call[c].seen = toolCalls
          /\ \A c, d \in Counting : c = d

IInv == Types /\ CallInv /\ RunInv /\ StreamInv /\ BudgetInv

-----------------------------------------------------------------------------
(* Every event the recorder publishes is one of StreamEvent.               *)
LEMMA EventTypes ==
    /\ \A t \in {"run.started", "agent.thinking", "done"} : \A s \in RowStatus :
          RunEvent(t, s) \in StreamEvent
    /\ \A t \in {"tool.started", "tool.completed"} : \A c \in Call : \A s \in RowStatus :
          Event(t, c, s) \in StreamEvent
BY DEF RunEvent, Event, StreamEvent

(* Publishing keeps the stream a sequence of events.                       *)
LEMMA TellsTyped ==
    ASSUME stream \in Seq(StreamEvent), NEW e \in StreamEvent, Tells(e)
    PROVE  stream' \in Seq(StreamEvent)
BY DEF Tells

(* A write keeps the count of faults a number; without a fault, it fails   *)
(* only under a context that has ended.                                    *)
LEMMA WriteTyped ==
    ASSUME faults \in 0 .. MaxFaults, NEW live, NEW how \in Ending, WriteUnder(live, how)
    PROVE  faults' \in 0 .. MaxFaults /\ (faults' = 0 => faults = 0 /\ (how = "done" \/ ~live))
BY AgentRunAssumption DEF WriteUnder

(* Every step keeps the types.                                             *)
LEMMA TypesStep == Types /\ [Next]_vars => Types'
<1> SUFFICES ASSUME Types, [Next]_vars PROVE Types'
  OBVIOUS
<1> USE DEF local, tables, history
<1>1. ASSUME NEW how \in Ending, Start(how) PROVE Types'
  <2>1. stream' \in Seq(StreamEvent)
    BY <1>1, EventTypes, TellsTyped DEF Start, Types, RowStatus
  <2> QED
    BY <1>1, <2>1, WriteTyped DEF Start, Types, RowStatus, Over, Stored, Committed
<1>2. ASSUME NEW round \in SUBSET Call, NEW tool \in [round -> {"read", "restart"}], ModelAsks(round, tool)
      PROVE  Types'
  <2>2. call' \in [Call -> Invocation]
    BY <1>2 DEF ModelAsks, Types, Invocation, Returned
  <2> QED
    BY <1>2, <2>2, WriteTyped DEF ModelAsks, Types, RowStatus, Over
<1>3. ASSUME ModelAnswers PROVE Types'
  BY <1>3, AgentRunAssumption DEF ModelAnswers, Types, RowStatus, Over
<1>4. ASSUME AgentFails PROVE Types'
  BY <1>4, AgentRunAssumption DEF AgentFails, Types, RowStatus, Over
<1>5. ASSUME NEW c \in Call, LoadCount(c) PROVE Types'
  <2>2. call' \in [Call -> Invocation]
    BY <1>5 DEF LoadCount, Types, Invocation, Returned
  <2> QED
    BY <1>5, <2>2, WriteTyped DEF LoadCount, Types, RowStatus, Over
<1>6. ASSUME NEW c \in Call, StoreCount(c) PROVE Types'
  <2>1. call[c].seen + 1 \in Nat
    BY DEF Types, Invocation
  <2>2. call' = [call EXCEPT ![c] = [call[c] EXCEPT !.at = "compare", !.seen = call[c].seen + 1]]
    BY <1>6 DEF StoreCount, Types, Invocation
  <2>3. [call[c] EXCEPT !.at = "compare", !.seen = call[c].seen + 1] \in Invocation
    BY <2>1 DEF Types, Invocation
  <2>4. call' \in [Call -> Invocation] /\ toolCalls' \in Nat
    BY <1>6, <2>1, <2>2, <2>3 DEF StoreCount, Types
  <2>5. Cardinality(Counted') \in Nat
    <3>1. Counted' \subseteq Call
      BY DEF Counted
    <3> QED
      BY <3>1, FS_Subset, FS_CardinalityType, AgentRunAssumption
  <2>6. lost' \in Nat
    BY <1>6, <2>4, <2>5 DEF StoreCount, RecordLost, Types
  <2> QED
    BY <1>6, <2>4, <2>6, WriteTyped DEF StoreCount, Types, RowStatus, Over
<1>7. ASSUME NEW c \in Call, CompareCount(c) PROVE Types'
  <2>1. PICK n : call' = [call EXCEPT ![c].at = IF Exceeds(n) THEN "failed" ELSE "record"]
    BY <1>7 DEF CompareCount
  <2>2. call' \in [Call -> Invocation]
    BY <2>1 DEF Types, Invocation, Returned
  <2> QED
    BY <1>7, <2>2, WriteTyped DEF CompareCount, Types, RowStatus, Over, Exceeds
<1>8. ASSUME NEW c \in Call, NEW how \in Ending, StartToolCall(c, how) PROVE Types'
  <2>1. stream' \in Seq(StreamEvent)
    BY <1>8, EventTypes, TellsTyped DEF StartToolCall, Types, RowStatus
  <2>2. call' \in [Call -> Invocation]
    BY <1>8 DEF StartToolCall, Types, Invocation, Returned
  <2> QED
    BY <1>8, <2>1, <2>2, WriteTyped DEF StartToolCall, Types, RowStatus, Over, Stored, Committed
<1>9. ASSUME NEW c \in Call, NEW result \in {"ok", "error"}, ReadTool(c, result)
      PROVE  Types'
  <2>2. call' \in [Call -> Invocation]
    BY <1>9 DEF ReadTool, Types, Invocation, Returned, ToolReturns
  <2> QED
    BY <1>9, <2>2, WriteTyped DEF ReadTool, Types, RowStatus, Over, ToolReturns
<1>10. ASSUME NEW c \in Call, NEW result \in {"ok", "error"}, RestartTool(c, result)
       PROVE  Types'
  <2>2. call' \in [Call -> Invocation]
    BY <1>10 DEF RestartTool, Types, Invocation, Returned, ToolReturns
  <2> QED
    BY <1>10, <2>2, WriteTyped DEF RestartTool, Types, RowStatus, Over, ToolReturns
<1>11. ASSUME NEW c \in Call, NEW how \in Ending, CompleteToolCall(c, how) PROVE Types'
  <2>1. stream' \in Seq(StreamEvent)
    BY <1>11, EventTypes, TellsTyped DEF CompleteToolCall, Types, RowStatus, ResultStatus
  <2>2. call' \in [Call -> Invocation]
    BY <1>11 DEF CompleteToolCall, Types, Invocation, Returned, ResultStatus, CallFailed
  <2> QED
    BY <1>11, <2>1, <2>2, WriteTyped
       DEF CompleteToolCall, Types, RowStatus, Over, Stored, Committed, ResultStatus, CallFailed
<1>12. ASSUME NEW how \in Ending, Step(how) PROVE Types'
  <2>1. stream' \in Seq(StreamEvent)
    BY <1>12, EventTypes, TellsTyped DEF Step, Types, RowStatus
  <2> QED
    BY <1>12, <2>1, WriteTyped DEF Step, Types, RowStatus, Over, Stored, Committed
<1>13. ASSUME NEW how \in Ending, Complete(how) PROVE Types'
  <2>1. stream' \in Seq(StreamEvent)
    BY <1>13, EventTypes, TellsTyped DEF Complete, Types, RowStatus
  <2> QED
    BY <1>13, <2>1, WriteTyped DEF Complete, Types, RowStatus, Over, Stored, Committed
<1>14. ASSUME NEW how \in Ending, Fail(how) PROVE Types'
  <2>1. stream' \in Seq(StreamEvent)
    BY <1>14, EventTypes, TellsTyped DEF Fail, Types, RowStatus
  <2> QED
    BY <1>14, <2>1, WriteTyped DEF Fail, Types, RowStatus, Over, Stored, Committed
<1>15. ASSUME Cancel PROVE Types'
  BY <1>15, AgentRunAssumption DEF Cancel, Types, RowStatus, Over
<1>16. ASSUME Crash PROVE Types'
  BY <1>16, AgentRunAssumption DEF Crash, Types, RowStatus, Over
<1>17. CASE UNCHANGED vars
  BY <1>17 DEF vars, Types
<1> QED
  BY <1>1, <1>2, <1>3, <1>4, <1>5, <1>6, <1>7, <1>8, <1>9, <1>10, <1>11, <1>12, <1>13, <1>14, <1>15, <1>16, <1>17
     DEF Next, Diagnose, InvokableRun

(* The stream only grows at its end.                                       *)
LEMMA StreamGrows ==
    ASSUME Types, [Next]_vars
    PROVE  /\ Len(stream) \in Nat /\ Len(stream') \in Nat /\ Len(stream) <= Len(stream')
           /\ \A k \in 1 .. Len(stream) : stream'[k] = stream[k]
<1>1. stream' = stream \/ \E e \in StreamEvent : stream' = Append(stream, e)
  <2>1. ASSUME NEW how \in Ending, Start(how)
        PROVE  stream' = stream \/ \E e \in StreamEvent : stream' = Append(stream, e)
    BY <2>1, EventTypes DEF Start, Tells, Types, RowStatus, ResultStatus
  <2>2. ASSUME NEW round \in SUBSET Call, NEW tool \in [round -> {"read", "restart"}], ModelAsks(round, tool)
        PROVE  stream' = stream \/ \E e \in StreamEvent : stream' = Append(stream, e)
    BY <2>2 DEF ModelAsks
  <2>3. ASSUME ModelAnswers
        PROVE  stream' = stream \/ \E e \in StreamEvent : stream' = Append(stream, e)
    BY <2>3 DEF ModelAnswers
  <2>4. ASSUME AgentFails
        PROVE  stream' = stream \/ \E e \in StreamEvent : stream' = Append(stream, e)
    BY <2>4 DEF AgentFails
  <2>5. ASSUME NEW c \in Call, LoadCount(c)
        PROVE  stream' = stream \/ \E e \in StreamEvent : stream' = Append(stream, e)
    BY <2>5 DEF LoadCount
  <2>6. ASSUME NEW c \in Call, StoreCount(c)
        PROVE  stream' = stream \/ \E e \in StreamEvent : stream' = Append(stream, e)
    BY <2>6 DEF StoreCount
  <2>7. ASSUME NEW c \in Call, CompareCount(c)
        PROVE  stream' = stream \/ \E e \in StreamEvent : stream' = Append(stream, e)
    BY <2>7 DEF CompareCount
  <2>8. ASSUME NEW c \in Call, NEW how \in Ending, StartToolCall(c, how)
        PROVE  stream' = stream \/ \E e \in StreamEvent : stream' = Append(stream, e)
    BY <2>8, EventTypes DEF StartToolCall, Tells, Types, RowStatus, ResultStatus
  <2>9. ASSUME NEW c \in Call, NEW result \in {"ok", "error"}, ReadTool(c, result)
        PROVE  stream' = stream \/ \E e \in StreamEvent : stream' = Append(stream, e)
    BY <2>9 DEF ReadTool
  <2>10. ASSUME NEW c \in Call, NEW result \in {"ok", "error"}, RestartTool(c, result)
        PROVE  stream' = stream \/ \E e \in StreamEvent : stream' = Append(stream, e)
    BY <2>10 DEF RestartTool
  <2>11. ASSUME NEW c \in Call, NEW how \in Ending, CompleteToolCall(c, how)
        PROVE  stream' = stream \/ \E e \in StreamEvent : stream' = Append(stream, e)
    BY <2>11, EventTypes DEF CompleteToolCall, Tells, Types, RowStatus, ResultStatus
  <2>12. ASSUME NEW how \in Ending, Step(how)
        PROVE  stream' = stream \/ \E e \in StreamEvent : stream' = Append(stream, e)
    BY <2>12, EventTypes DEF Step, Tells, Types, RowStatus, ResultStatus
  <2>13. ASSUME NEW how \in Ending, Complete(how)
        PROVE  stream' = stream \/ \E e \in StreamEvent : stream' = Append(stream, e)
    BY <2>13, EventTypes DEF Complete, Tells, Types, RowStatus, ResultStatus
  <2>14. ASSUME NEW how \in Ending, Fail(how)
        PROVE  stream' = stream \/ \E e \in StreamEvent : stream' = Append(stream, e)
    BY <2>14, EventTypes DEF Fail, Tells, Types, RowStatus, ResultStatus
  <2>15. ASSUME Cancel
        PROVE  stream' = stream \/ \E e \in StreamEvent : stream' = Append(stream, e)
    BY <2>15 DEF Cancel
  <2>16. ASSUME Crash
        PROVE  stream' = stream \/ \E e \in StreamEvent : stream' = Append(stream, e)
    BY <2>16 DEF Crash
  <2>17. CASE UNCHANGED vars
    BY <2>17 DEF vars
  <2> QED
    BY <2>1, <2>2, <2>3, <2>4, <2>5, <2>6, <2>7, <2>8, <2>9, <2>10, <2>11, <2>12, <2>13, <2>14, <2>15, <2>16, <2>17
       DEF Next, Diagnose, InvokableRun
<1> QED
  BY <1>1 DEF Types

(* What was announced stays announced: the stream only grows (Tells).     *)
LEMMA AnnouncedKept ==
    ASSUME Types, [Next]_vars, NEW c \in Call, NEW n \in 0 .. Len(stream), Announced(c, n)
    PROVE  Announced(c, n)'
BY StreamGrows DEF Announced, Event

(* A call's record is kept by every step.                                  *)
LEMMA CallStep == Types /\ CallInv /\ [Next]_vars => CallInv'
<1> SUFFICES ASSUME Types, CallInv, [Next]_vars, NEW d \in Call PROVE RecordInv(d)'
  BY DEF CallInv
<1> USE DEF local, tables, history
<1>a. RecordInv(d) /\ call[d] \in Invocation /\ faults \in Nat /\ call \in [Call -> Invocation]
      /\ callRow \in [Call -> RowStatus] /\ approval \in [Call -> BOOLEAN]
  BY AgentRunAssumption DEF CallInv, Types
<1>b. Announced(d, Len(stream)) => Announced(d, Len(stream))'
  BY StreamGrows DEF Announced, Event
<1>c. ASSUME call'[d] = call[d], callRow'[d] = callRow[d], approval'[d] = approval[d],
             faults' = 0 => faults = 0
      PROVE  RecordInv(d)'
  BY <1>a, <1>b, <1>c DEF RecordInv, ResultStatus
<1>1. ASSUME NEW how \in Ending, Start(how) PROVE RecordInv(d)'
  BY <1>1, <1>c, WriteTyped DEF Start, Types
<1>2. ASSUME NEW round \in SUBSET Call, NEW tool \in [round -> {"read", "restart"}], ModelAsks(round, tool)
      PROVE  RecordInv(d)'
  <2>1. CASE d \notin round
    BY <1>2, <2>1, <1>c DEF ModelAsks
  <2>2. CASE d \in round
    BY <1>2, <2>2, <1>a DEF ModelAsks, RecordInv, Returned, Asked, Invocation
  <2> QED
    BY <2>1, <2>2
<1>3. ASSUME ModelAnswers PROVE RecordInv(d)'
  BY <1>3, <1>c DEF ModelAnswers
<1>4. ASSUME AgentFails PROVE RecordInv(d)'
  BY <1>4, <1>c DEF AgentFails
<1>5. ASSUME NEW c \in Call, LoadCount(c) PROVE RecordInv(d)'
  <2>1. CASE d # c
    BY <1>5, <2>1, <1>a, <1>c DEF LoadCount, ToolReturns
  <2>2. CASE d = c
    BY <1>5, <2>2, <1>a, <1>b DEF LoadCount, ToolReturns, RecordInv, Returned, Invocation
  <2> QED
    BY <2>1, <2>2
<1>6. ASSUME NEW c \in Call, StoreCount(c) PROVE RecordInv(d)'
  <2>1. CASE d # c
    BY <1>6, <2>1, <1>a, <1>c DEF StoreCount, ToolReturns
  <2>2. CASE d = c
    BY <1>6, <2>2, <1>a, <1>b DEF StoreCount, ToolReturns, RecordInv, Returned, Invocation
  <2> QED
    BY <2>1, <2>2
<1>7. ASSUME NEW c \in Call, CompareCount(c) PROVE RecordInv(d)'
  <2>1. CASE d # c
    BY <1>7, <2>1, <1>a, <1>c DEF CompareCount
  <2>2. CASE d = c
    <3>1. PICK n : call' = [call EXCEPT ![c].at = IF Exceeds(n) THEN "failed" ELSE "record"]
      BY <1>7 DEF CompareCount
    <3> QED
      BY <1>7, <2>2, <3>1, <1>a, <1>b DEF CompareCount, RecordInv, Returned, Invocation
  <2> QED
    BY <2>1, <2>2
<1>8. ASSUME NEW c \in Call, NEW how \in Ending, StartToolCall(c, how) PROVE RecordInv(d)'
  <2>1. CASE d # c
    BY <1>8, <2>1, <1>a, <1>c, WriteTyped DEF StartToolCall, Types
  <2>2. CASE d = c
    <3>1. CASE how = "done"
      <4>1. Announced(d, Len(stream))'
        BY <1>8, <2>2, <3>1 DEF StartToolCall, Tells, Types, Announced, Event
      <4> QED
        BY <1>8, <2>2, <3>1, <4>1, <1>a
           DEF StartToolCall, Stored, Committed, RecordInv, Returned, Invocation
    <3>2. CASE how # "done"
      BY <1>8, <2>2, <3>2, <1>a
         DEF StartToolCall, Stored, Committed, RecordInv, Returned, Invocation
    <3> QED
      BY <3>1, <3>2
  <2> QED
    BY <2>1, <2>2
<1>9. ASSUME NEW c \in Call, NEW result \in {"ok", "error"}, ReadTool(c, result)
      PROVE  RecordInv(d)'
  <2>1. CASE d # c
    BY <1>9, <2>1, <1>a, <1>c DEF ReadTool, ToolReturns
  <2>2. CASE d = c
    BY <1>9, <2>2, <1>a, <1>b DEF ReadTool, ToolReturns, RecordInv, Returned, Invocation
  <2> QED
    BY <2>1, <2>2
<1>10. ASSUME NEW c \in Call, NEW result \in {"ok", "error"}, RestartTool(c, result)
       PROVE  RecordInv(d)'
  <2>1. CASE d # c
    BY <1>10, <2>1, <1>a, <1>c DEF RestartTool, ToolReturns
  <2>2. CASE d = c
    BY <1>10, <2>2, <1>a, <1>b DEF RestartTool, ToolReturns, RecordInv, Returned, Invocation
  <2> QED
    BY <2>1, <2>2
<1>11. ASSUME NEW c \in Call, NEW how \in Ending, CompleteToolCall(c, how)
       PROVE  RecordInv(d)'
  <2>1. CASE d # c
    BY <1>11, <2>1, <1>a, <1>c, WriteTyped DEF CompleteToolCall, Types
  <2>2. CASE d = c
    <3>1. faults' = 0 => how = "done"
      BY <1>11, WriteTyped DEF CompleteToolCall, Types, persistenceContext
    <3> QED
      BY <1>11, <2>2, <3>1, <1>a DEF CompleteToolCall, CallFailed, ResultStatus, Stored, Committed,
         RecordInv, Returned, Invocation
  <2> QED
    BY <2>1, <2>2
<1>12. ASSUME NEW how \in Ending, Step(how) PROVE RecordInv(d)'
  BY <1>12, <1>c, WriteTyped DEF Step, Types
<1>13. ASSUME NEW how \in Ending, Complete(how) PROVE RecordInv(d)'
  BY <1>13, <1>c, WriteTyped DEF Complete, Types
<1>14. ASSUME NEW how \in Ending, Fail(how) PROVE RecordInv(d)'
  BY <1>14, <1>c, WriteTyped DEF Fail, Types
<1>15. ASSUME Cancel PROVE RecordInv(d)'
  BY <1>15, <1>c DEF Cancel
<1>16. ASSUME Crash PROVE RecordInv(d)'
  BY <1>16, <1>c DEF Crash
<1>17. CASE UNCHANGED vars
  BY <1>17, <1>c DEF vars
<1> QED
  BY <1>1, <1>2, <1>3, <1>4, <1>5, <1>6, <1>7, <1>8, <1>9, <1>10, <1>11, <1>12, <1>13, <1>14, <1>15, <1>16, <1>17
     DEF Next, Diagnose, InvokableRun

(* What is stored of the run is kept by every step.                        *)
LEMMA RunStep == Types /\ CallInv /\ RunInv /\ [Next]_vars => RunInv'
<1> SUFFICES ASSUME Types, CallInv, RunInv, [Next]_vars PROVE RunInv'
  OBVIOUS
<1> USE DEF local, tables, history
<1>a. ASSUME pc = "agent", pc' = "agent", runRow' = runRow PROVE RunInv'
  BY <1>a DEF RunInv, CompletedHasFullTrail
<1>b. ASSUME call' = call
      PROVE  (Quiet <=> Quiet') /\ (SomeFailed <=> SomeFailed') /\ Asked' = Asked
  BY <1>b DEF Quiet, SomeFailed, Asked
<1>c. Quiet /\ ~SomeFailed => \A c \in Asked : callRow[c] = "COMPLETED"
  BY DEF Quiet, SomeFailed, Asked, CallInv, RecordInv, Returned
<1>1. ASSUME NEW how \in Ending, Start(how) PROVE RunInv'
  <2>1. Asked' = {} /\ Quiet' /\ ~SomeFailed'
    BY <1>1, <1>b DEF Start, RunInv, Quiet, SomeFailed
  <2>2. CASE how = "done"
    BY <1>1, <2>1, <2>2 DEF Start, Stored, Committed, RunInv, CompletedHasFullTrail
  <2>3. CASE how # "done"
    BY <1>1, <2>1, <2>3 DEF Start, Stored, Committed, RunInv, CompletedHasFullTrail
  <2> QED
    BY <2>2, <2>3
<1>2. ASSUME NEW round \in SUBSET Call, NEW tool \in [round -> {"read", "restart"}], ModelAsks(round, tool)
      PROVE  RunInv'
  BY <1>2, <1>a DEF ModelAsks
<1>3. ASSUME ModelAnswers PROVE RunInv'
  BY <1>3, <1>b DEF ModelAnswers, RunInv, CompletedHasFullTrail, Over
<1>4. ASSUME AgentFails PROVE RunInv'
  BY <1>4, <1>b DEF AgentFails, RunInv, CompletedHasFullTrail, Over
<1>5. ASSUME NEW c \in Call, LoadCount(c) PROVE RunInv'
  BY <1>5, <1>a DEF LoadCount
<1>6. ASSUME NEW c \in Call, StoreCount(c) PROVE RunInv'
  BY <1>6, <1>a DEF StoreCount
<1>7. ASSUME NEW c \in Call, CompareCount(c) PROVE RunInv'
  BY <1>7, <1>a DEF CompareCount
<1>8. ASSUME NEW c \in Call, NEW how \in Ending, StartToolCall(c, how) PROVE RunInv'
  BY <1>8, <1>a DEF StartToolCall
<1>9. ASSUME NEW c \in Call, NEW result \in {"ok", "error"}, ReadTool(c, result)
      PROVE  RunInv'
  BY <1>9, <1>a DEF ReadTool
<1>10. ASSUME NEW c \in Call, NEW result \in {"ok", "error"}, RestartTool(c, result)
       PROVE  RunInv'
  BY <1>10, <1>a DEF RestartTool
<1>11. ASSUME NEW c \in Call, NEW how \in Ending, CompleteToolCall(c, how) PROVE RunInv'
  BY <1>11, <1>a DEF CompleteToolCall
<1>12. ASSUME NEW how \in Ending, Step(how) PROVE RunInv'
  <2>1. CASE how = "done"
    BY <1>12, <1>b, <2>1 DEF Step, Stored, Committed, RunInv, CompletedHasFullTrail
  <2>2. CASE how # "done"
    BY <1>12, <1>b, <2>2 DEF Step, RunInv, CompletedHasFullTrail
  <2> QED
    BY <2>1, <2>2
<1>13. ASSUME NEW how \in Ending, Complete(how) PROVE RunInv'
  <2>1. stepRow' /\ \A c \in Asked' : callRow'[c] = "COMPLETED"
    BY <1>13, <1>b, <1>c DEF Complete, RunInv
  <2>2. CASE how = "done"
    BY <1>13, <1>b, <2>1, <2>2 DEF Complete, Stored, Committed, RunInv, CompletedHasFullTrail
  <2>3. CASE how # "done"
    BY <1>13, <1>b, <2>1, <2>3 DEF Complete, RunInv, CompletedHasFullTrail
  <2> QED
    BY <2>2, <2>3
<1>14. ASSUME NEW how \in Ending, Fail(how) PROVE RunInv'
  <2>1. faults' = 0 => how = "done"
    BY <1>14, WriteTyped DEF Fail, Types, persistenceContext
  <2>2. pc' = "gave up" /\ Quiet' /\ (how = "done" => runRow' = "FAILED")
    BY <1>14, <1>b DEF Fail, Stored, Committed, RunInv
  <2>3. runRow' = "COMPLETED" => stepRow' /\ \A c \in Asked' : callRow'[c] = "COMPLETED"
    BY <1>14, <1>b DEF Fail, Stored, RunInv, CompletedHasFullTrail
  <2> QED
    BY <2>1, <2>2, <2>3 DEF RunInv, CompletedHasFullTrail
<1>15. ASSUME Cancel PROVE RunInv'
  BY <1>15, <1>b DEF Cancel, RunInv, CompletedHasFullTrail, Over
<1>16. ASSUME Crash PROVE RunInv'
  BY <1>16, <1>b DEF Crash, RunInv, CompletedHasFullTrail, Over
<1>17. CASE UNCHANGED vars
  BY <1>17, <1>b DEF vars, RunInv, CompletedHasFullTrail
<1> QED
  BY <1>1, <1>2, <1>3, <1>4, <1>5, <1>6, <1>7, <1>8, <1>9, <1>10, <1>11, <1>12, <1>13, <1>14, <1>15, <1>16, <1>17
     DEF Next, Diagnose, InvokableRun

(* Records settle: a stored call stays stored, the record of a call that   *)
(* returned does not change any more, and nothing changes once Diagnose    *)
(* returned.                                                               *)
Settles ==
    /\ \A c \in Call : callRow[c] # "NONE" => callRow'[c] # "NONE"
    /\ \A c \in Call : call[c].at \in Returned =>
          call'[c].at \in Returned /\ callRow'[c] = callRow[c]
    /\ stepRow => stepRow'
    /\ pc \in {"succeeded", "gave up"} => pc' = pc /\ runRow' = runRow /\ stream' = stream

LEMMA RecordsSettle == Types /\ [Next]_vars => Settles
<1> SUFFICES ASSUME Types, [Next]_vars PROVE Settles
  OBVIOUS
<1> USE DEF local, tables, history
<1>a. call \in [Call -> Invocation] /\ callRow \in [Call -> RowStatus]
  BY DEF Types
<1>1. ASSUME NEW how \in Ending, Start(how) PROVE Settles
  BY <1>1, <1>a DEF Start, Settles, Invocation
<1>2. ASSUME NEW round \in SUBSET Call, NEW tool \in [round -> {"read", "restart"}], ModelAsks(round, tool)
      PROVE  Settles
  BY <1>2, <1>a DEF ModelAsks, Settles, Invocation, Asked, Returned
<1>3. ASSUME ModelAnswers PROVE Settles
  BY <1>3, <1>a DEF ModelAnswers, Settles, Invocation
<1>4. ASSUME AgentFails PROVE Settles
  BY <1>4, <1>a DEF AgentFails, Settles, Invocation
<1>5. ASSUME NEW c \in Call, LoadCount(c) PROVE Settles
  BY <1>5, <1>a DEF LoadCount, Settles, Invocation, Returned
<1>6. ASSUME NEW c \in Call, StoreCount(c) PROVE Settles
  BY <1>6, <1>a DEF StoreCount, Settles, Invocation, Returned
<1>7. ASSUME NEW c \in Call, CompareCount(c) PROVE Settles
  <2>1. PICK n : call' = [call EXCEPT ![c].at = IF Exceeds(n) THEN "failed" ELSE "record"]
    BY <1>7 DEF CompareCount
  <2> QED
    BY <1>7, <2>1, <1>a DEF CompareCount, Settles, Returned, Invocation
<1>8. ASSUME NEW c \in Call, NEW how \in Ending, StartToolCall(c, how) PROVE Settles
  BY <1>8, <1>a DEF StartToolCall, Settles, Invocation, Stored, Returned
<1>9. ASSUME NEW c \in Call, NEW result \in {"ok", "error"}, ReadTool(c, result)
      PROVE  Settles
  BY <1>9, <1>a DEF ReadTool, Settles, Invocation, ToolReturns, Returned
<1>10. ASSUME NEW c \in Call, NEW result \in {"ok", "error"}, RestartTool(c, result)
       PROVE  Settles
  BY <1>10, <1>a DEF RestartTool, Settles, Invocation, ToolReturns, Returned
<1>11. ASSUME NEW c \in Call, NEW how \in Ending, CompleteToolCall(c, how) PROVE Settles
  BY <1>11, <1>a DEF CompleteToolCall, Settles, Invocation, Stored, Returned, ResultStatus
<1>12. ASSUME NEW how \in Ending, Step(how) PROVE Settles
  BY <1>12, <1>a DEF Step, Settles, Invocation, Stored
<1>13. ASSUME NEW how \in Ending, Complete(how) PROVE Settles
  BY <1>13, <1>a DEF Complete, Settles, Invocation
<1>14. ASSUME NEW how \in Ending, Fail(how) PROVE Settles
  BY <1>14, <1>a DEF Fail, Settles, Invocation
<1>15. ASSUME Cancel PROVE Settles
  BY <1>15, <1>a DEF Cancel, Settles, Invocation
<1>16. ASSUME Crash PROVE Settles
  BY <1>16, <1>a DEF Crash, Settles, Invocation, Over
<1>17. CASE UNCHANGED vars
  BY <1>17 DEF vars, Settles
<1> QED
  BY <1>1, <1>2, <1>3, <1>4, <1>5, <1>6, <1>7, <1>8, <1>9, <1>10, <1>11, <1>12, <1>13, <1>14, <1>15, <1>16, <1>17
     DEF Next, Diagnose, InvokableRun

(* What the events imply is kept by every step.                            *)
LEMMA StreamStep == Types /\ CallInv /\ RunInv /\ StreamInv /\ [Next]_vars => StreamInv'
<1> SUFFICES ASSUME Types, CallInv, RunInv, StreamInv, [Next]_vars PROVE StreamInv'
  OBVIOUS
<1> USE DEF local, tables, history
<1>a. /\ DOMAIN stream = 1 .. Len(stream) /\ DOMAIN stream' = 1 .. Len(stream')
      /\ stream \in Seq(StreamEvent) /\ Len(stream) \in Nat
  <2>1. Types'
    BY TypesStep
  <2> QED
    BY <2>1 DEF Types
<1>b. ASSUME NEW k \in 1 .. Len(stream) PROVE EventInv(k)'
  <2>1. stream[k] = stream'[k] /\ stream[k] \in StreamEvent
    BY StreamGrows, <1>a
  <2>2. EventInv(k) /\ Settles
    BY <1>a, RecordsSettle DEF StreamInv
  <2>3. \A c \in Call : Announced(c, k - 1) => Announced(c, k - 1)'
    BY AnnouncedKept, <1>a
  <2> QED
    BY <2>1, <2>2, <2>3 DEF EventInv, Settles, StreamEvent
<1>c. SUFFICES ASSUME NEW k \in 1 .. Len(stream'), k \notin 1 .. Len(stream)
               PROVE  EventInv(k)'
  BY <1>a, <1>b DEF StreamInv
<1>d. ASSUME NEW e, Tells(e)
      PROVE  k = Len(stream) + 1 /\ k = Len(stream') /\ stream'[k] = e
  BY <1>a, <1>c, <1>d DEF Tells
<1>1. ASSUME NEW how \in Ending, Start(how) PROVE EventInv(k)'
  <2>1. how = "done" /\ stream = <<>> /\ Tells(RunEvent("run.started", "RUNNING"))
    BY <1>1, <1>c DEF Start, RunInv
  <2>2. stream'[k] = RunEvent("run.started", "RUNNING") /\ k = 1
    BY <2>1, <1>d
  <2> QED
    BY <2>2 DEF EventInv, RunEvent
<1>2. ASSUME NEW round \in SUBSET Call, NEW tool \in [round -> {"read", "restart"}], ModelAsks(round, tool)
      PROVE  EventInv(k)'
  BY <1>2, <1>c DEF ModelAsks
<1>3. ASSUME ModelAnswers PROVE EventInv(k)'
  BY <1>3, <1>c DEF ModelAnswers
<1>4. ASSUME AgentFails PROVE EventInv(k)'
  BY <1>4, <1>c DEF AgentFails
<1>5. ASSUME NEW c \in Call, LoadCount(c) PROVE EventInv(k)'
  BY <1>5, <1>c DEF LoadCount
<1>6. ASSUME NEW c \in Call, StoreCount(c) PROVE EventInv(k)'
  BY <1>6, <1>c DEF StoreCount
<1>7. ASSUME NEW c \in Call, CompareCount(c) PROVE EventInv(k)'
  BY <1>7, <1>c DEF CompareCount
<1>8. ASSUME NEW c \in Call, NEW how \in Ending, StartToolCall(c, how) PROVE EventInv(k)'
  <2>1. how = "done" /\ stream'[k] = Event("tool.started", c, "RUNNING")
    BY <1>8, <1>a, <1>c, <1>d DEF StartToolCall
  <2> QED
    BY <1>8, <2>1 DEF StartToolCall, Types, Stored, Committed, EventInv, Event
<1>9. ASSUME NEW c \in Call, NEW result \in {"ok", "error"}, ReadTool(c, result)
      PROVE  EventInv(k)'
  BY <1>9, <1>c DEF ReadTool
<1>10. ASSUME NEW c \in Call, NEW result \in {"ok", "error"}, RestartTool(c, result)
       PROVE  EventInv(k)'
  BY <1>10, <1>c DEF RestartTool
<1>11. ASSUME NEW c \in Call, NEW how \in Ending, CompleteToolCall(c, how)
       PROVE  EventInv(k)'
  <2>1. /\ how = "done" /\ stream'[k] = Event("tool.completed", c, ResultStatus(c))
        /\ k - 1 = Len(stream)
    BY <1>11, <1>a, <1>c, <1>d DEF CompleteToolCall
  <2>2. Announced(c, k - 1)'
    BY <1>11, <2>1, AnnouncedKept DEF CompleteToolCall, CallInv, RecordInv
  <2>3. call'[c].at \in Returned /\ callRow'[c] = ResultStatus(c)
    BY <1>11, <2>1 DEF CompleteToolCall, Types, Invocation, Stored, Committed, Returned
  <2> QED
    BY <2>1, <2>2, <2>3 DEF EventInv, Event
<1>12. ASSUME NEW how \in Ending, Step(how) PROVE EventInv(k)'
  <2>1. how = "done" /\ stream'[k] = RunEvent("agent.thinking", "COMPLETED") /\ k = Len(stream')
    BY <1>12, <1>a, <1>c, <1>d DEF Step
  <2>2. stepRow'
    BY <1>12, <2>1 DEF Step, Stored, Committed
  <2>3. stream'[k].type = "agent.thinking"
    BY <2>1 DEF RunEvent
  <2> QED
    BY <2>1, <2>2, <2>3 DEF EventInv
<1>13. ASSUME NEW how \in Ending, Complete(how) PROVE EventInv(k)'
  <2>1. how = "done" /\ stream'[k] = RunEvent("done", "COMPLETED") /\ k = Len(stream')
    BY <1>13, <1>a, <1>c, <1>d DEF Complete
  <2>2. pc' = "succeeded" /\ runRow' = "COMPLETED"
    BY <1>13, <2>1 DEF Complete, Stored, Committed
  <2>3. stream'[k].type = "done" /\ stream'[k].status = "COMPLETED"
    BY <2>1 DEF RunEvent
  <2> QED
    BY <2>1, <2>2, <2>3 DEF EventInv
<1>14. ASSUME NEW how \in Ending, Fail(how) PROVE EventInv(k)'
  <2>1. how = "done" /\ stream'[k] = RunEvent("done", "FAILED") /\ k = Len(stream')
    BY <1>14, <1>a, <1>c, <1>d DEF Fail
  <2>2. pc' = "gave up" /\ runRow' = "FAILED"
    BY <1>14, <2>1 DEF Fail, Stored, Committed
  <2>3. stream'[k].type = "done" /\ stream'[k].status = "FAILED"
    BY <2>1 DEF RunEvent
  <2> QED
    BY <2>1, <2>2, <2>3 DEF EventInv
<1>15. ASSUME Cancel PROVE EventInv(k)'
  BY <1>15, <1>c DEF Cancel
<1>16. ASSUME Crash PROVE EventInv(k)'
  BY <1>16, <1>c DEF Crash
<1>17. CASE UNCHANGED vars
  BY <1>17, <1>c DEF vars
<1> QED
  BY <1>1, <1>2, <1>3, <1>4, <1>5, <1>6, <1>7, <1>8, <1>9, <1>10, <1>11, <1>12, <1>13, <1>14, <1>15, <1>16, <1>17
     DEF Next, Diagnose, InvokableRun

(* The counted and the passed calls are finite sets, the ones among the    *)
(* others.                                                                 *)
LEMMA CountedFinite ==
    ASSUME Types, CallInv
    PROVE  /\ IsFiniteSet(Counted) /\ Cardinality(Counted) \in Nat
           /\ IsFiniteSet(MayPass) /\ Cardinality(MayPass) \in Nat
           /\ MayPass \subseteq Counted
<1>1. Counted \subseteq Call /\ MayPass \subseteq Call
  BY DEF Counted, MayPass, Passed
<1>2. MayPass \subseteq Counted
  BY DEF MayPass, Passed, Counted, CallInv, RecordInv, Returned
<1> QED
  BY <1>1, <1>2, FS_Subset, FS_CardinalityType, AgentRunAssumption

(* The accounting of the budget is kept by every step.                     *)
LEMMA BudgetStep == Types /\ CallInv /\ BudgetInv /\ [Next]_vars => BudgetInv'
<1> SUFFICES ASSUME Types, CallInv, BudgetInv, [Next]_vars PROVE BudgetInv'
  OBVIOUS
<1> USE DEF local, tables, history
<1>a. Types' /\ CallInv'
  BY TypesStep, CallStep
<1>b. /\ call \in [Call -> Invocation] /\ call' \in [Call -> Invocation]
      /\ toolCalls \in Nat /\ toolCalls' \in Nat
      /\ \A c \in Call : call[c].seen \in Nat /\ call'[c].seen \in Nat
      /\ lost \in Nat /\ lost' \in Nat /\ raced \in BOOLEAN /\ MaxToolCalls \in Nat
  BY <1>a, AgentRunAssumption DEF Types, Invocation
<1>c. /\ IsFiniteSet(Counted) /\ Cardinality(Counted) \in Nat
      /\ IsFiniteSet(MayPass) /\ Cardinality(MayPass) \in Nat
  BY CountedFinite
<1>d. /\ IsFiniteSet(Counted') /\ Cardinality(Counted') \in Nat
      /\ IsFiniteSet(MayPass') /\ Cardinality(MayPass') \in Nat /\ MayPass' \subseteq Counted'
  <2>1. Counted' \subseteq Call /\ MayPass' \subseteq Counted'
    BY <1>a DEF Counted, MayPass, Passed, CallInv, RecordInv, Returned
  <2> QED
    BY <2>1, FS_Subset, FS_CardinalityType, AgentRunAssumption
<1>e. /\ MayPass' \subseteq MayPass => Cardinality(MayPass') <= Cardinality(MayPass)
      /\ Cardinality(MayPass') <= Cardinality(Counted')
  BY <1>c, <1>d, FS_Subset
<1>f. ASSUME toolCalls' = toolCalls, raced' = raced, lost' = lost, Counted' = Counted,
             Passed' \subseteq Passed,
             \A c \in Call : call'[c].at \in {"store", "compare"} =>
                 call[c].at = call'[c].at /\ call[c].seen = call'[c].seen
      PROVE  BudgetInv'
  <2>1. Counting' \subseteq Counting /\ \A c \in Counting' : call'[c].seen = call[c].seen
    BY <1>f DEF Counting
  <2>2. Cardinality(Counted') = Cardinality(Counted)
    BY <1>f
  <2>3. MayPass' \subseteq MayPass
    BY <1>f DEF MayPass
  <2> QED
    BY <1>b, <1>c, <1>d, <1>e, <1>f, <2>1, <2>2, <2>3 DEF BudgetInv, Counting
<1>1. ASSUME NEW how \in Ending, Start(how) PROVE BudgetInv'
  BY <1>1, <1>f DEF Start, Counted, Passed
<1>2. ASSUME NEW round \in SUBSET Call, NEW tool \in [round -> {"read", "restart"}], ModelAsks(round, tool)
      PROVE  BudgetInv'
  <2>1. \A d \in Call : d \in round =>
            /\ call[d].at = "unasked" /\ call'[d].at = "load" /\ call'[d].inner = call[d].inner
    <3> SUFFICES ASSUME NEW d \in round
                 PROVE  call[d].at = "unasked" /\ call'[d].at = "load" /\ call'[d].inner = call[d].inner
      OBVIOUS
    <3>1. call[d].at = "unasked"
      BY <1>2 DEF ModelAsks, Asked
    <3>2. call'[d] = [call[d] EXCEPT !.at = "load", !.tool = tool[d]] /\ call[d] \in Invocation
      BY <1>2, <1>b DEF ModelAsks
    <3> QED
      BY <3>1, <3>2 DEF Invocation
  <2>2. \A d \in Call : d \notin round => call'[d] = call[d]
    BY <1>2 DEF ModelAsks
  <2>3. Counted' = Counted /\ Passed' \subseteq Passed
    BY <2>1, <2>2 DEF Counted, Passed
  <2> QED
    BY <1>2, <2>1, <2>2, <2>3, <1>f DEF ModelAsks
<1>3. ASSUME ModelAnswers PROVE BudgetInv'
  BY <1>3, <1>f DEF ModelAnswers, Counted, Passed
<1>4. ASSUME AgentFails PROVE BudgetInv'
  BY <1>4, <1>f DEF AgentFails, Counted, Passed
<1>5. ASSUME NEW c \in Call, LoadCount(c) PROVE BudgetInv'
  <2>1. Counted' = Counted /\ MayPass' = MayPass
    BY <1>5, <1>b DEF LoadCount, Counted, MayPass, Passed, Invocation
  <2>2. \A d \in Call : d # c => call'[d] = call[d]
    BY <1>5, <1>b DEF LoadCount
  <2>3. /\ call'[c].at = "store" /\ call'[c].seen = toolCalls
        /\ toolCalls' = toolCalls /\ lost' = lost
    BY <1>5, <1>b DEF LoadCount, Invocation
  <2>4. ~raced' => ~raced /\ Counting = {}
    BY <1>5, <1>b DEF LoadCount
  <2>5. Counting = {} => \A d \in Counting' : d = c
    BY <2>2 DEF Counting
  <2>6. Cardinality(Counted') = Cardinality(Counted) /\ Cardinality(MayPass') = Cardinality(MayPass)
    BY <2>1
  <2> QED
    BY <1>b, <1>c, <2>2, <2>3, <2>4, <2>5, <2>6 DEF BudgetInv
<1>6. ASSUME NEW c \in Call, StoreCount(c) PROVE BudgetInv'
  <2>1. Counted' = Counted \cup {c} /\ c \notin Counted
    BY <1>6, <1>b DEF StoreCount, Counted, Invocation
  <2>2. \A d \in Call : d # c => call'[d] = call[d]
    BY <1>6, <1>b DEF StoreCount
  <2>3. /\ call'[c].at = "compare" /\ call'[c].seen = call[c].seen + 1
        /\ toolCalls' = call[c].seen + 1 /\ raced' = raced
        /\ call[c].inner = call'[c].inner
    BY <1>6, <1>b DEF StoreCount, Invocation
  <2>4. c \in Counting /\ call[c].at = "store"
    BY <1>6 DEF StoreCount, Counting
  <2>5. Cardinality(Counted') = Cardinality(Counted) + 1
    BY <2>1, <1>c, FS_AddElement
  <2>6. ~raced => \A d \in Counting' : d = c
    BY <2>2, <2>4 DEF BudgetInv, Counting
  <2>7. /\ toolCalls' <= Cardinality(Counted')
        /\ \A d \in Call : call'[d].at = "store" => call'[d].seen <= Cardinality(Counted')
    BY <1>b, <1>c, <2>2, <2>3, <2>4, <2>5 DEF BudgetInv
  <2>8. lost' = IF Cardinality(Counted') > toolCalls' + lost
                THEN Cardinality(Counted') - toolCalls' ELSE lost
    BY <1>6 DEF StoreCount, RecordLost
  <2>9. /\ lost <= lost' /\ lost' <= Cardinality(Counted')
        /\ Cardinality(Counted') <= toolCalls' + lost'
    BY <1>b, <1>d, <1>c, <2>5, <2>8 DEF BudgetInv
  <2>10. ~raced => toolCalls' = Cardinality(Counted') /\ lost' = 0
    BY <1>b, <1>c, <2>3, <2>4, <2>5, <2>8 DEF BudgetInv
  <2>11. MaxToolCalls > 0 => Cardinality(MayPass') <= MaxToolCalls + lost'
    <3>1. CASE call[c].seen + 1 <= MaxToolCalls
      BY <1>b, <1>d, <1>e, <2>3, <2>9, <3>1
    <3>2. CASE ~(call[c].seen + 1 <= MaxToolCalls)
      <4>1. MayPass' \subseteq MayPass
        BY <2>2, <2>3, <2>4, <3>2 DEF MayPass, Passed
      <4> QED
        BY <1>b, <1>c, <1>d, <1>e, <2>9, <4>1 DEF BudgetInv
    <3> QED
      BY <3>1, <3>2
  <2> QED
    BY <2>3, <2>6, <2>7, <2>9, <2>10, <2>11 DEF BudgetInv
<1>7. ASSUME NEW c \in Call, CompareCount(c) PROVE BudgetInv'
  <2>1. PICK n \in {call[c].seen, toolCalls} :
          call' = [call EXCEPT ![c].at = IF Exceeds(n) THEN "failed" ELSE "record"]
    BY <1>7 DEF CompareCount
  <2>2. Counted' = Counted /\ toolCalls' = toolCalls /\ raced' = raced /\ lost' = lost
    BY <1>7, <2>1, <1>b DEF CompareCount, Counted, Invocation
  <2>3. \A d \in Call : call'[d].at \in {"store", "compare"} =>
            call[d].at = call'[d].at /\ call[d].seen = call'[d].seen
    BY <2>1, <1>b DEF Invocation
  <2>4. CASE Exceeds(n)
    <3>1. Passed' \subseteq Passed
      BY <2>1, <2>4, <1>b DEF Passed, Invocation
    <3> QED
      BY <3>1, <2>2, <2>3, <1>f
  <2>5. CASE ~Exceeds(n)
    <3>1. Cardinality(Counted') = Cardinality(Counted)
      BY <2>2
    <3>2. MaxToolCalls > 0 => Cardinality(MayPass') <= MaxToolCalls + lost'
      <4>1. CASE n = toolCalls
        BY <1>b, <1>c, <1>d, <1>e, <2>2, <2>5, <3>1, <4>1 DEF BudgetInv, Exceeds
      <4>2. CASE n = call[c].seen
        <5>1. MaxToolCalls > 0 => MayPass' \subseteq MayPass
          <6> SUFFICES ASSUME MaxToolCalls > 0, NEW d \in MayPass' PROVE d \in MayPass
            OBVIOUS
          <6>1. d \in Call
            BY DEF MayPass, Passed
          <6>2. CASE d = c
            BY <1>7, <1>b, <2>5, <4>2, <6>2 DEF CompareCount, Exceeds, MayPass
          <6>3. CASE d # c
            BY <2>1, <6>1, <6>3 DEF MayPass, Passed
          <6> QED
            BY <6>2, <6>3
        <5> QED
          BY <1>b, <1>c, <1>d, <1>e, <2>2, <5>1 DEF BudgetInv
      <4> QED
        BY <4>1, <4>2
    <3>3. Counting' \subseteq Counting /\ \A d \in Counting' : call'[d].seen = call[d].seen
      BY <2>3 DEF Counting
    <3> QED
      BY <1>b, <1>c, <2>2, <2>3, <3>1, <3>2, <3>3 DEF BudgetInv, Counting
  <2> QED
    BY <2>4, <2>5
<1>8. ASSUME NEW c \in Call, NEW how \in Ending, StartToolCall(c, how) PROVE BudgetInv'
  <2>1. Counted' = Counted /\ Passed' \subseteq Passed
    BY <1>8, <1>b DEF StartToolCall, Counted, Passed, Invocation
  <2>2. \A d \in Call : call'[d].at \in {"store", "compare"} =>
            call[d].at = call'[d].at /\ call[d].seen = call'[d].seen
    BY <1>8, <1>b DEF StartToolCall, Invocation
  <2> QED
    BY <1>8, <2>1, <2>2, <1>f DEF StartToolCall
<1>9. ASSUME NEW c \in Call, NEW result \in {"ok", "error"}, ReadTool(c, result)
      PROVE  BudgetInv'
  <2>1. Counted' = Counted /\ Passed' \subseteq Passed
    BY <1>9, <1>b DEF ReadTool, Counted, Passed, Invocation, ToolReturns
  <2>2. \A d \in Call : call'[d].at \in {"store", "compare"} =>
            call[d].at = call'[d].at /\ call[d].seen = call'[d].seen
    BY <1>9, <1>b DEF ReadTool, Invocation, ToolReturns
  <2> QED
    BY <1>9, <2>1, <2>2, <1>f DEF ReadTool
<1>10. ASSUME NEW c \in Call, NEW result \in {"ok", "error"}, RestartTool(c, result)
       PROVE  BudgetInv'
  <2>1. Counted' = Counted /\ Passed' \subseteq Passed
    BY <1>10, <1>b DEF RestartTool, Counted, Passed, Invocation, ToolReturns
  <2>2. \A d \in Call : call'[d].at \in {"store", "compare"} =>
            call[d].at = call'[d].at /\ call[d].seen = call'[d].seen
    BY <1>10, <1>b DEF RestartTool, Invocation, ToolReturns
  <2> QED
    BY <1>10, <2>1, <2>2, <1>f DEF RestartTool
<1>11. ASSUME NEW c \in Call, NEW how \in Ending, CompleteToolCall(c, how) PROVE BudgetInv'
  <2>1. Counted' = Counted /\ Passed' \subseteq Passed
    BY <1>11, <1>b DEF CompleteToolCall, Counted, Passed, Invocation
  <2>2. \A d \in Call : call'[d].at \in {"store", "compare"} =>
            call[d].at = call'[d].at /\ call[d].seen = call'[d].seen
    BY <1>11, <1>b DEF CompleteToolCall, Invocation
  <2> QED
    BY <1>11, <2>1, <2>2, <1>f DEF CompleteToolCall
<1>12. ASSUME NEW how \in Ending, Step(how) PROVE BudgetInv'
  BY <1>12, <1>f DEF Step, Counted, Passed
<1>13. ASSUME NEW how \in Ending, Complete(how) PROVE BudgetInv'
  BY <1>13, <1>f DEF Complete, Counted, Passed
<1>14. ASSUME NEW how \in Ending, Fail(how) PROVE BudgetInv'
  BY <1>14, <1>f DEF Fail, Counted, Passed
<1>15. ASSUME Cancel PROVE BudgetInv'
  BY <1>15, <1>f DEF Cancel, Counted, Passed
<1>16. ASSUME Crash PROVE BudgetInv'
  BY <1>16, <1>f DEF Crash, Counted, Passed
<1>17. CASE UNCHANGED vars
  BY <1>17, <1>f DEF vars, Counted, Passed
<1> QED
  BY <1>1, <1>2, <1>3, <1>4, <1>5, <1>6, <1>7, <1>8, <1>9, <1>10, <1>11, <1>12, <1>13, <1>14, <1>15, <1>16, <1>17
     DEF Next, Diagnose, InvokableRun

-----------------------------------------------------------------------------
(* A recorder that has just been created satisfies the invariant           *)
(* (NewRecorder).                                                          *)
LEMMA InitInv == Init => IInv
<1> SUFFICES ASSUME Init PROVE IInv
  OBVIOUS
<1>1. Types
  <2>1. call \in [Call -> Invocation]
    BY DEF Init, Invocation
  <2>2. callRow \in [Call -> RowStatus] /\ runRow \in RowStatus
    BY DEF Init, RowStatus
  <2>3. stream \in Seq(StreamEvent)
    BY DEF Init
  <2>4. approval \in [Call -> BOOLEAN] /\ ctxLive \in BOOLEAN /\ stepRow \in BOOLEAN /\ raced \in BOOLEAN
    BY Zenon DEF Init
  <2>5. toolCalls \in Nat /\ lost \in Nat /\ faults \in 0 .. MaxFaults
    BY AgentRunAssumption DEF Init
  <2>6. pc \in {"start", "agent", "step", "complete", "fail"} \cup Over
    BY DEF Init
  <2> QED
    BY <2>1, <2>2, <2>3, <2>4, <2>5, <2>6 DEF Types
<1>2. /\ stream = <<>> /\ Asked = {} /\ Counting = {} /\ Counted = {} /\ MayPass = {}
      /\ \A c \in Call : call[c].at = "unasked" /\ call[c].inner = "none" /\ ~approval[c]
  BY DEF Init, Asked, Counting, Counted, MayPass, Passed
<1>3. CallInv
  BY <1>2 DEF CallInv, RecordInv, Returned
<1>4. RunInv
  BY <1>2 DEF Init, RunInv, CompletedHasFullTrail
<1>5. StreamInv
  BY <1>2 DEF StreamInv
<1>6. BudgetInv
  BY <1>2, FS_EmptySet, AgentRunAssumption DEF Init, BudgetInv
<1> QED
  BY <1>1, <1>3, <1>4, <1>5, <1>6 DEF IInv

(* The inductive invariant holds in every behaviour.                       *)
THEOREM Invariance == Spec => []IInv
<1>1. IInv /\ [Next]_vars => IInv'
  BY TypesStep, CallStep, RunStep, StreamStep, BudgetStep DEF IInv
<1> QED
  BY <1>1, InitInv, PTL DEF Spec

(* The types hold, and the counter never exceeds the calls asked for, even *)
(* when increments are lost.                                               *)
THEOREM TypeCorrect == Spec => []TypeOK
<1>1. IInv => TypeOK
  <2> SUFFICES ASSUME IInv PROVE TypeOK
    OBVIOUS
  <2>1. Cardinality(Counted) <= Cardinality(Call) /\ Cardinality(Call) \in Nat
    BY FS_Subset, FS_CardinalityType, AgentRunAssumption DEF Counted
  <2>2. toolCalls \in 0 .. Cardinality(Call) /\ lost \in 0 .. Cardinality(Call)
    BY <2>1, CountedFinite DEF IInv, Types, BudgetInv
  <2> QED
    BY <2>2 DEF IInv, Types, TypeOK
<1> QED
  BY <1>1, Invariance, PTL

(* An approval names a stored tool call (recorder.go:93).                  *)
THEOREM ApprovalsNameCalls == Spec => []ApprovalNamesStoredCall
<1>1. IInv => ApprovalNamesStoredCall
  BY DEF IInv, CallInv, RecordInv, ApprovalNamesStoredCall
<1> QED
  BY <1>1, Invariance, PTL

(* A COMPLETED run has its whole audit trail (runtime.go:113).             *)
THEOREM FullTrail == Spec => []CompletedHasFullTrail
<1>1. IInv => CompletedHasFullTrail
  BY DEF IInv, RunInv
<1> QED
  BY <1>1, Invariance, PTL

(* The stream tells what is stored (recorder.go:134).                      *)
THEOREM StreamIsTrue == Spec => []StreamTellsTheTrail
<1>1. IInv => StreamTellsTheTrail
  BY DEF IInv, StreamInv, EventInv, Announced, StreamTellsTheTrail
<1> QED
  BY <1>1, Invariance, PTL

(* Without a database fault, cancellation leaves no open record            *)
(* (recorder.go:169).                                                      *)
THEOREM CancellationSettles == Spec => []CancellationLeavesNothingOpen
<1>1. IInv => CancellationLeavesNothingOpen
  <2> SUFFICES ASSUME IInv, pc \in {"succeeded", "gave up"}, faults = 0, stream # <<>>
               PROVE  /\ runRow = IF pc = "succeeded" THEN "COMPLETED" ELSE "FAILED"
                      /\ \A c \in Asked : call[c].inner # "none" => callRow[c] = ResultStatus(c)
    BY DEF CancellationLeavesNothingOpen
  <2>1. Quiet /\ runRow = IF pc = "succeeded" THEN "COMPLETED" ELSE "FAILED"
    BY DEF IInv, RunInv
  <2> QED
    BY <2>1 DEF IInv, CallInv, RecordInv, Quiet, Asked
<1> QED
  BY <1>1, Invariance, PTL

(* No more tools too many run than increments were lost, and only a race   *)
(* loses one (recorder.go:47).                                             *)
THEOREM BudgetHeld == Spec => []BudgetHeldButForLost
<1>1. IInv => BudgetHeldButForLost
  <2> SUFFICES ASSUME IInv, MaxToolCalls > 0 PROVE Cardinality(Ran) <= MaxToolCalls + lost
    BY DEF IInv, BudgetInv, BudgetHeldButForLost
  <2>1. Ran \subseteq MayPass
    BY DEF Ran, MayPass, Passed
  <2>2. IsFiniteSet(MayPass) /\ Cardinality(MayPass) \in Nat
    BY CountedFinite DEF IInv
  <2>3. Cardinality(Ran) <= Cardinality(MayPass) /\ Cardinality(Ran) \in Nat
    BY <2>1, <2>2, FS_Subset, FS_CardinalityType
  <2> QED
    BY <2>2, <2>3, AgentRunAssumption DEF IInv, Types, BudgetInv
<1> QED
  BY <1>1, Invariance, PTL

-----------------------------------------------------------------------------
(* The audit trail.  What is stored of the run and of each call, and what  *)
(* was told of it, at each place.                                          *)
CallRows ==
    \A c \in Call :
        /\ call[c].at \in {"unasked", "load", "store", "compare", "record"} => callRow[c] = "NONE"
        /\ call[c].at \in {"tool", "result"} => callRow[c] = "RUNNING"

RunRows ==
    /\ pc \in {"start", "agent", "step"} => ~stepRow
    /\ pc \in {"agent", "step", "complete", "fail"} => stream # <<>>
    /\ pc = "fail" => runRow \in {"RUNNING", "COMPLETED"}
    /\ pc = "complete" => Trail!Told("agent.thinking")

LEMMA ToldKept ==
    ASSUME stream \in Seq(StreamEvent), NEW e \in StreamEvent, Tells(e)
    PROVE  /\ stream' # <<>> /\ Trail!Told(e.type)'
           /\ \A type : Trail!Told(type) => Trail!Told(type)'
<1> DEFINE n == Len(stream)
<1>1. /\ n \in Nat /\ DOMAIN stream = 1 .. n /\ DOMAIN stream' = 1 .. n + 1
      /\ stream'[n + 1] = e /\ \A k \in 1 .. n : stream'[k] = stream[k]
  BY DEF Tells
<1> HIDE DEF n
<1>2. n + 1 \in DOMAIN stream' /\ \A k \in DOMAIN stream : k \in DOMAIN stream'
  BY <1>1
<1> QED
  BY <1>1, <1>2 DEF Trail!Told

LEMMA CallRowsKept == Types /\ CallRows /\ RunInv /\ [Next]_vars => CallRows'
<1> SUFFICES ASSUME Types, CallRows, RunInv, [Next]_vars, NEW d \in Call
             PROVE  (/\ call[d].at \in {"unasked", "load", "store", "compare", "record"} =>
                           callRow[d] = "NONE"
                     /\ call[d].at \in {"tool", "result"} => callRow[d] = "RUNNING")'
  BY DEF CallRows
<1> DEFINE Row == /\ call[d].at \in {"unasked", "load", "store", "compare", "record"} =>
                        callRow[d] = "NONE"
                  /\ call[d].at \in {"tool", "result"} => callRow[d] = "RUNNING"
<1>a. Row /\ call \in [Call -> Invocation] /\ callRow \in [Call -> RowStatus]
  BY DEF CallRows, Types
<1> USE DEF local, tables, history
<1>b. ASSUME call'[d] = call[d], callRow'[d] = callRow[d] PROVE Row'
  BY <1>a, <1>b
<1>1. ASSUME NEW how \in Ending, Start(how) PROVE Row'
  BY <1>1, <1>b DEF Start
<1>2. ASSUME NEW round \in SUBSET Call, NEW tool \in [round -> {"read", "restart"}], ModelAsks(round, tool)
      PROVE  Row'
  <2>1. callRow' = callRow /\ (d \in round => call[d].at = "unasked")
    BY <1>2 DEF ModelAsks, Asked
  <2>2. d \in round => call'[d].at = "load"
    BY <1>2, <1>a DEF ModelAsks, Invocation
  <2>3. d \notin round => call'[d] = call[d]
    BY <1>2 DEF ModelAsks
  <2> QED
    BY <1>a, <2>1, <2>2, <2>3
<1>3. ASSUME ModelAnswers PROVE Row'
  BY <1>3, <1>b DEF ModelAnswers
<1>4. ASSUME AgentFails PROVE Row'
  BY <1>4, <1>b DEF AgentFails
<1>5. ASSUME NEW c \in Call, LoadCount(c) PROVE Row'
  BY <1>5, <1>a DEF LoadCount, Invocation
<1>6. ASSUME NEW c \in Call, StoreCount(c) PROVE Row'
  BY <1>6, <1>a DEF StoreCount, Invocation
<1>7. ASSUME NEW c \in Call, CompareCount(c) PROVE Row'
  <2>1. PICK n : call' = [call EXCEPT ![c].at = IF Exceeds(n) THEN "failed" ELSE "record"]
    BY <1>7 DEF CompareCount
  <2> QED
    BY <1>7, <2>1, <1>a DEF CompareCount, Invocation
<1>8. ASSUME NEW c \in Call, NEW how \in Ending, StartToolCall(c, how) PROVE Row'
  <2>1. CASE how = "done"
    BY <1>8, <2>1, <1>a DEF StartToolCall, Invocation, Stored, Committed
  <2>2. CASE how # "done"
    BY <1>8, <2>2, <1>a DEF StartToolCall, Invocation, Stored, Committed
  <2> QED
    BY <2>1, <2>2
<1>9. ASSUME NEW c \in Call, NEW result \in {"ok", "error"}, ReadTool(c, result)
      PROVE  Row'
  BY <1>9, <1>a DEF ReadTool, ToolReturns, Invocation
<1>10. ASSUME NEW c \in Call, NEW result \in {"ok", "error"}, RestartTool(c, result)
       PROVE  Row'
  BY <1>10, <1>a DEF RestartTool, ToolReturns, Invocation
<1>11. ASSUME NEW c \in Call, NEW how \in Ending, CompleteToolCall(c, how) PROVE Row'
  BY <1>11, <1>a DEF CompleteToolCall, Invocation
<1>12. ASSUME NEW how \in Ending, Step(how) PROVE Row'
  BY <1>12, <1>b DEF Step
<1>13. ASSUME NEW how \in Ending, Complete(how) PROVE Row'
  BY <1>13, <1>b DEF Complete
<1>14. ASSUME NEW how \in Ending, Fail(how) PROVE Row'
  BY <1>14, <1>b DEF Fail
<1>15. ASSUME Cancel PROVE Row'
  BY <1>15, <1>b DEF Cancel
<1>16. ASSUME Crash PROVE Row'
  BY <1>16, <1>b DEF Crash
<1>17. CASE UNCHANGED vars
  BY <1>17, <1>b DEF vars
<1> QED
  BY <1>1, <1>2, <1>3, <1>4, <1>5, <1>6, <1>7, <1>8, <1>9, <1>10, <1>11, <1>12, <1>13, <1>14, <1>15, <1>16, <1>17
     DEF Next, Diagnose, InvokableRun

LEMMA RunRowsKept == Types /\ RunRows /\ RunInv /\ [Next]_vars => RunRows'
<1> SUFFICES ASSUME Types, RunRows, RunInv, [Next]_vars PROVE RunRows'
  OBVIOUS
<1> USE DEF local, tables, history
<1>a. stream \in Seq(StreamEvent)
  BY DEF Types
<1>b. ASSUME pc' = pc, stepRow' = stepRow, runRow' = runRow, stream' = stream PROVE RunRows'
  BY <1>b DEF RunRows, Trail!Told
<1>c. ASSUME pc = "agent", pc' = "agent", stepRow' = stepRow, NEW e \in StreamEvent, Tells(e)
      PROVE  RunRows'
  BY <1>a, <1>c, ToldKept DEF RunRows
<1>1. ASSUME NEW how \in Ending, Start(how) PROVE RunRows'
  <2>1. how = "done" => Tells(RunEvent("run.started", "RUNNING"))
    BY <1>1 DEF Start
  <2>2. how = "done" => stream' # <<>>
    <3>1. RunEvent("run.started", "RUNNING") \in StreamEvent
      BY EventTypes DEF RowStatus
    <3> QED
      BY <1>a, <2>1, <3>1, ToldKept
  <2> QED
    BY <1>1, <2>2 DEF Start, RunRows
<1>2. ASSUME NEW round \in SUBSET Call, NEW tool \in [round -> {"read", "restart"}], ModelAsks(round, tool)
      PROVE  RunRows'
  BY <1>2, <1>b DEF ModelAsks
<1>3. ASSUME ModelAnswers PROVE RunRows'
  BY <1>3 DEF ModelAnswers, RunRows
<1>4. ASSUME AgentFails PROVE RunRows'
  BY <1>4 DEF AgentFails, RunRows, RunInv
<1>5. ASSUME NEW c \in Call, LoadCount(c) PROVE RunRows'
  BY <1>5, <1>b DEF LoadCount
<1>6. ASSUME NEW c \in Call, StoreCount(c) PROVE RunRows'
  BY <1>6, <1>b DEF StoreCount
<1>7. ASSUME NEW c \in Call, CompareCount(c) PROVE RunRows'
  BY <1>7, <1>b DEF CompareCount
<1>8. ASSUME NEW c \in Call, NEW how \in Ending, StartToolCall(c, how) PROVE RunRows'
  <2>1. CASE how = "done"
    <3>1. Event("tool.started", c, "RUNNING") \in StreamEvent
      BY EventTypes DEF RowStatus
    <3> QED
      BY <1>8, <2>1, <3>1, <1>c DEF StartToolCall
  <2>2. CASE how # "done"
    BY <1>8, <2>2, <1>b DEF StartToolCall
  <2> QED
    BY <2>1, <2>2
<1>9. ASSUME NEW c \in Call, NEW result \in {"ok", "error"}, ReadTool(c, result)
      PROVE  RunRows'
  BY <1>9, <1>b DEF ReadTool
<1>10. ASSUME NEW c \in Call, NEW result \in {"ok", "error"}, RestartTool(c, result)
       PROVE  RunRows'
  BY <1>10, <1>b DEF RestartTool
<1>11. ASSUME NEW c \in Call, NEW how \in Ending, CompleteToolCall(c, how) PROVE RunRows'
  <2>1. CASE how = "done"
    <3>1. ResultStatus(c) \in RowStatus
      BY DEF ResultStatus, RowStatus
    <3> QED
      BY <1>11, <2>1, <3>1, <1>c, EventTypes DEF CompleteToolCall
  <2>2. CASE how # "done"
    BY <1>11, <2>2, <1>b DEF CompleteToolCall
  <2> QED
    BY <2>1, <2>2
<1>12. ASSUME NEW how \in Ending, Step(how) PROVE RunRows'
  <2>1. CASE how = "done"
    <3>1. Tells(RunEvent("agent.thinking", "COMPLETED")) /\ pc' = "complete"
      BY <1>12, <2>1 DEF Step
    <3>2. RunEvent("agent.thinking", "COMPLETED") \in StreamEvent
          /\ RunEvent("agent.thinking", "COMPLETED").type = "agent.thinking"
      BY EventTypes DEF RowStatus, RunEvent
    <3>3. stream' # <<>> /\ Trail!Told("agent.thinking")'
      BY <1>a, <3>1, <3>2, ToldKept
    <3> QED
      BY <3>1, <3>3 DEF RunRows
  <2>2. CASE how # "done"
    BY <1>12, <2>2 DEF Step, RunRows, RunInv
  <2> QED
    BY <2>1, <2>2
<1>13. ASSUME NEW how \in Ending, Complete(how) PROVE RunRows'
  <2>1. how # "done" => stream' = stream /\ stream # <<>>
    BY <1>13 DEF Complete, RunRows
  <2>2. how # "done" => runRow' \in {"RUNNING", "COMPLETED"}
    BY <1>13 DEF Complete, RunInv, Stored
  <2> QED
    BY <1>13, <2>1, <2>2 DEF Complete, RunRows
<1>14. ASSUME NEW how \in Ending, Fail(how) PROVE RunRows'
  BY <1>14 DEF Fail, RunRows
<1>15. ASSUME Cancel PROVE RunRows'
  BY <1>15, <1>b DEF Cancel
<1>16. ASSUME Crash PROVE RunRows'
  BY <1>16 DEF Crash, RunRows
<1>17. CASE UNCHANGED vars
  BY <1>17, <1>b DEF vars
<1> QED
  BY <1>1, <1>2, <1>3, <1>4, <1>5, <1>6, <1>7, <1>8, <1>9, <1>10, <1>11, <1>12, <1>13, <1>14, <1>15, <1>16, <1>17
     DEF Next, Diagnose, InvokableRun

(* Every step of Diagnose, of a call, of a fault and of the end of the     *)
(* context or the process is one of the trail's, or leaves it alone.       *)
LEMMA TrailStep == IInv /\ CallRows /\ RunRows /\ [Next]_vars => [Trail!Next]_(Trail!trail)
<1> SUFFICES ASSUME IInv, CallRows, RunRows, [Next]_vars
             PROVE  Trail!Next \/ UNCHANGED Trail!trail
  OBVIOUS
<1> USE DEF local, tables, history, Trail!trail
<1>a. Types /\ CallInv /\ RunInv /\ StreamInv
  BY DEF IInv
<1>b. stream \in Seq(StreamEvent) /\ callRow \in [Call -> RowStatus] /\ Len(stream) \in Nat
      /\ DOMAIN stream = 1 .. Len(stream)
  BY <1>a DEF Types
<1>c. ASSUME NEW c \in Call, call[c].at \in {"tool", "result"}
      PROVE  callRow[c] = "RUNNING" /\ Trail!Announced(c)
  <2>1. PICK j \in 1 .. Len(stream) : stream[j] = Event("tool.started", c, "RUNNING")
    BY <1>a, <1>c DEF CallInv, RecordInv, Announced
  <2> QED
    BY <1>b, <1>c, <2>1 DEF Event, CallRows, Trail!Announced
<1>d. pc = "agent" => Trail!Working
  BY <1>a DEF RunInv, RunRows, Trail!Working
<1>1. ASSUME NEW how \in Ending, Start(how) PROVE Trail!Next \/ UNCHANGED Trail!trail
  <2>1. runRow = "NONE"
    BY <1>1, <1>a DEF Start, RunInv
  <2>2. CASE Committed(how)
    <3>1. Trail!Begin
      BY <1>1, <2>1, <2>2 DEF Start, Stored, Tells, RunEvent, Trail!Begin, Trail!Tell
    <3> QED
      BY <3>1 DEF Trail!Next
  <2>3. CASE ~Committed(how)
    BY <1>1, <2>3 DEF Start, Stored, Committed
  <2> QED
    BY <2>2, <2>3
<1>2. ASSUME NEW round \in SUBSET Call, NEW tool \in [round -> {"read", "restart"}], ModelAsks(round, tool)
      PROVE  UNCHANGED Trail!trail
  BY <1>2 DEF ModelAsks
<1>3. ModelAnswers \/ AgentFails => UNCHANGED Trail!trail
  BY DEF ModelAnswers, AgentFails
<1>4. ASSUME NEW c \in Call, LoadCount(c) \/ StoreCount(c) \/ CompareCount(c)
      PROVE  UNCHANGED Trail!trail
  BY <1>4 DEF LoadCount, StoreCount, CompareCount
<1>5. ASSUME NEW c \in Call, NEW how \in Ending, StartToolCall(c, how)
      PROVE  Trail!Next \/ UNCHANGED Trail!trail
  <2>1. Trail!Working /\ callRow[c] = "NONE"
    BY <1>5, <1>d DEF StartToolCall, CallRows
  <2>2. CASE Committed(how)
    <3>1. callRow' = [callRow EXCEPT ![c] = "RUNNING"]
      BY <1>5, <2>2 DEF StartToolCall, Stored
    <3>2. Trail!Tell("tool.started", {c}, "RUNNING")
      BY <1>5 DEF StartToolCall, Tells, Event, Trail!Tell
    <3>3. Trail!Record(c)
      BY <1>5, <2>1, <3>1, <3>2 DEF StartToolCall, Trail!Record
    <3> QED
      BY <3>3 DEF Trail!Next
  <2>3. CASE ~Committed(how)
    BY <1>5, <1>b, <2>3 DEF StartToolCall, Stored, Committed
  <2> QED
    BY <2>2, <2>3
<1>6. ASSUME NEW c \in Call, NEW result \in {"ok", "error"}, ReadTool(c, result)
      PROVE  UNCHANGED Trail!trail
  BY <1>6 DEF ReadTool
<1>7. ASSUME NEW c \in Call, NEW result \in {"ok", "error"}, RestartTool(c, result)
      PROVE  Trail!Next \/ UNCHANGED Trail!trail
  <2>1. Trail!Working /\ callRow[c] = "RUNNING" /\ Trail!Announced(c)
    BY <1>7, <1>c, <1>d DEF RestartTool
  <2>2. CASE approval' = [approval EXCEPT ![c] = TRUE]
    <3>1. Trail!Request(c)
      BY <1>7, <2>1, <2>2 DEF RestartTool, Trail!Request
    <3> QED
      BY <3>1 DEF Trail!Next
  <2>3. CASE UNCHANGED approval
    BY <1>7, <2>3 DEF RestartTool
  <2> QED
    BY <1>7, <2>2, <2>3 DEF RestartTool
<1>8. ASSUME NEW c \in Call, NEW how \in Ending, CompleteToolCall(c, how)
      PROVE  Trail!Next \/ UNCHANGED Trail!trail
  <2>1. Trail!Working /\ callRow[c] = "RUNNING" /\ Trail!Announced(c)
    BY <1>8, <1>c, <1>d DEF CompleteToolCall
  <2> DEFINE status == ResultStatus(c)
  <2>2. status \in {"COMPLETED", "FAILED"}
    BY DEF ResultStatus
  <2> HIDE DEF status
  <2>3. CASE Committed(how)
    <3>1. callRow' = [callRow EXCEPT ![c] = status]
      BY <1>8, <2>3 DEF CompleteToolCall, Stored, status
    <3>2. Trail!Tell("tool.completed", {c}, status)
      BY <1>8 DEF CompleteToolCall, Tells, Event, Trail!Tell, status
    <3>3. Trail!Settle(c)
      BY <1>8, <2>1, <2>2, <3>1, <3>2 DEF CompleteToolCall, Trail!Settle
    <3> QED
      BY <3>3 DEF Trail!Next
  <2>4. CASE ~Committed(how)
    BY <1>8, <1>b, <2>4 DEF CompleteToolCall, Stored, Committed
  <2> QED
    BY <2>3, <2>4
<1>9. ASSUME NEW how \in Ending, Step(how) PROVE Trail!Next \/ UNCHANGED Trail!trail
  <2>1. Trail!Working
    BY <1>9, <1>a DEF Step, RunInv, RunRows, Trail!Working
  <2>2. \A c \in Call : callRow[c] \in {"NONE", "COMPLETED"}
    <3>1. Quiet /\ ~SomeFailed
      BY <1>9, <1>a DEF Step, RunInv
    <3> TAKE c \in Call
    <3>2. call[c].at = "unasked" \/ call[c].at = "succeeded"
      BY <3>1 DEF Quiet, SomeFailed, Asked, Returned
    <3> QED
      BY <1>a, <3>2 DEF CallRows, CallInv, RecordInv
  <2>3. CASE Committed(how)
    <3>1. Trail!Finish
      BY <1>9, <2>1, <2>2, <2>3 DEF Step, Stored, Tells, RunEvent, Trail!Finish, Trail!Tell
    <3> QED
      BY <3>1 DEF Trail!Next
  <2>4. CASE ~Committed(how)
    BY <1>9, <2>4 DEF Step, Stored, Committed
  <2> QED
    BY <2>3, <2>4
<1>10. ASSUME NEW how \in Ending, Complete(how) PROVE Trail!Next \/ UNCHANGED Trail!trail
  <2>1. runRow = "RUNNING" /\ stepRow /\ Trail!Told("agent.thinking")
    BY <1>10, <1>a DEF Complete, RunInv, RunRows
  <2>2. CASE Committed(how)
    <3>1. Trail!Complete
      BY <1>10, <2>1, <2>2 DEF Complete, Stored, Tells, RunEvent, Trail!Complete, Trail!Tell
    <3> QED
      BY <3>1 DEF Trail!Next
  <2>3. CASE ~Committed(how)
    BY <1>10, <2>3 DEF Complete, Stored, Committed
  <2> QED
    BY <2>2, <2>3
<1>11. ASSUME NEW how \in Ending, Fail(how) PROVE Trail!Next \/ UNCHANGED Trail!trail
  <2>1. runRow \in {"RUNNING", "COMPLETED"} /\ stream # <<>>
    BY <1>11 DEF Fail, RunRows
  <2>2. ~Trail!Told("done")
    BY <1>11, <1>a DEF Fail, StreamInv, EventInv, Trail!Told
  <2>3. CASE Committed(how)
    <3>1. Trail!Fail
      BY <1>11, <2>1, <2>2, <2>3 DEF Fail, Stored, Tells, RunEvent, Trail!Fail, Trail!Tell
    <3> QED
      BY <3>1 DEF Trail!Next
  <2>4. CASE ~Committed(how)
    BY <1>11, <2>4 DEF Fail, Stored, Committed
  <2> QED
    BY <2>3, <2>4
<1>12. Cancel \/ Crash \/ UNCHANGED vars => UNCHANGED Trail!trail
  BY DEF Cancel, Crash, vars
<1> QED
  BY <1>1, <1>2, <1>3, <1>4, <1>5, <1>6, <1>7, <1>8, <1>9, <1>10, <1>11, <1>12
     DEF Next, Diagnose, InvokableRun

(* Whoever reads the recorder's trail may rely on AuditTrail: rows are     *)
(* settled once, a request for approval and a result only follow an an-    *)
(* nounced call, the final step only completed calls, and the recorder     *)
(* stores and tells nothing after its "done" (recorder.go:55).             *)
THEOREM TrailKept == Spec => ImplementsAuditTrail
<1>1. Init => CallRows /\ RunRows
  BY DEF Init, CallRows, RunRows
<1>2. Init => Trail!Init
  BY DEF Init, Trail!Init
<1>3. IInv /\ CallRows /\ RunRows /\ [Next]_vars => CallRows' /\ RunRows'
  BY CallRowsKept, RunRowsKept DEF IInv
<1> QED
  BY <1>1, <1>2, <1>3, TrailStep, Invariance, PTL DEF Spec, ImplementsAuditTrail, Trail!Spec

=============================================================================
