------------------------------ MODULE Diagnosis ------------------------------
(***************************************************************************)
(* From a firing alert to a finished diagnosis: the webhook and the        *)
(* analyze endpoint create the incident and publish agent.requested, the   *)
(* broker keeps the message in the main, retry or dead-letter queue, and   *)
(* workers (messaging.Consumer, bootstrap.RunDiagnosis, runtime.Diagnose,  *)
(* runtime.Recorder) diagnose the incident at most once at a time.         *)
(*                                                                         *)
(* Every database access and every exchange with the broker is a step of   *)
(* its own.  Statuses of an incident never return to an earlier value, so  *)
(* a versioned write is a write conditional on the status that was read.   *)
(***************************************************************************)
EXTENDS IncidentStates, FiniteSets

CONSTANTS
    Incident,    \* incident ids Create may still draw
    AlertOf,     \* the fingerprint of each incident
    Api,         \* goroutines of the API serving a webhook or an analyze call
    Worker,      \* consumers, each handling one delivery after the other
    Msg,         \* bound: messages held by the broker at the same time
    Reserve,     \* bound: how many of them the API leaves for the copies of Route
    Run,         \* bound: run rows; the row of a FAILED run may be reused
    None,        \* "no incident", "no message", "no run"
    Endpoints,   \* endpoints in use: a subset of {"webhook", "create", "analyze"}
    MaxRetries,  \* retry.go MaxRetries
    Faults,      \* a subset of {"db", "broker", "crash", "disconnect"}
    MaxFaults    \* bound: how many faults strike

ASSUME NoneAssumption == None \notin Incident \cup Msg \cup Run
ASSUME BoundAssumption == MaxRetries \in Nat /\ MaxFaults \in Nat /\ Reserve \in Nat

VARIABLES
    status,      \* incidents.status, "ABSENT" before the row exists
    run,         \* agent_runs: the incident and the status of each row
    msg,         \* the broker: queue, incident and x-retry-count of each message
    worker,      \* what each consumer is doing
    api,         \* what each API goroutine is doing
    accepted,    \* incidents whose firing notification was answered 2xx
    faults,      \* faults that struck so far
    stranded     \* history: incidents whose delivery lost its channel, or which
                 \* the analyze endpoint moved without publishing in the end

vars == <<status, run, msg, worker, api, accepted, faults, stranded>>

-----------------------------------------------------------------------------
Live(i) == status[i] \notin Terminal \cup {"ABSENT"}

SameAlert(i, j) == AlertOf[i] = AlertOf[j]

(* Rows ListRunsByIncident returns whose status IsActive.                  *)
ActiveRuns(i) == {r \in Run : run[r].inc = i /\ run[r].st \in ActiveRun}

FreeSlots == {m \in Msg : msg[m].at = "none"}

NoMsg == [at |-> "none", inc |-> None, retries |-> 0]
NoWork == [pc |-> "idle", msg |-> None, inc |-> None, run |-> None, saw |-> "ABSENT"]
NoApi == [pc |-> "idle", inc |-> None, via |-> "none"]

(* A fault of one kind strikes, while the budget lasts; the incidents in   *)
(* about have to do without their message from then on.                    *)
FaultAbout(kind, about) ==
    /\ kind \in Faults /\ faults < MaxFaults
    /\ faults' = faults + 1 /\ stranded' = stranded \cup about

Fault(kind) == FaultAbout(kind, {})
NoFault == UNCHANGED <<faults, stranded>>

(* The incident worker w is busy with, and whether its channel still holds *)
(* the delivery.                                                           *)
IncOf(w) == worker[w].inc
Holds(w) == worker[w].msg # None

At(w, label) == worker[w].pc = label
Goto(w, label) == worker' = [worker EXCEPT ![w].pc = label, ![w].saw = "ABSENT"]

(* The recorder is done with its run.                                      *)
Leave(w, label) == worker' = [worker EXCEPT ![w].pc = label, ![w].run = None]

ApiAt(c, label) == api[c].pc = label
ApiGoto(c, label) == api' = [api EXCEPT ![c].pc = label]
Serve(c, label, i, via) ==
    api' = [api EXCEPT ![c] = [pc |-> label, inc |-> i, via |-> via]]
Return(c) == api' = [api EXCEPT ![c] = NoApi]

(* An analyze call that has moved its incident and is still to publish.    *)
Analyzing(c, i) == ApiAt(c, "publish") /\ api[c].via = "analyze" /\ api[c].inc = i

AnalyzedBy(c) == {i \in Incident : Analyzing(c, i)}

(* The webhook answers 2xx for incident i.                                 *)
Accept(c, i) == Return(c) /\ accepted' = accepted \cup {i}

-----------------------------------------------------------------------------
(* The API: alert.go Webhook (Create, then publish), incident.go Create    *)
(* (never publishes) and Analyze.                                          *)

Known(i) == \E j \in Incident : SameAlert(i, j) /\ Live(j)

(* A duplicate of the live incident i: the webhook publishes again only if *)
(* it is OPEN and, which is read next, no run is active.                   *)
Duplicate(c, i, via) ==
    \/ via = "create" /\ Return(c) /\ UNCHANGED accepted
    \/ via # "create" /\ status[i] = "OPEN" /\ Serve(c, "runs", i, via) /\ UNCHANGED accepted
    \/ via # "create" /\ status[i] # "OPEN" /\ Accept(c, i)

(* Create up to GetActiveByFingerprint; i is the id it would create.       *)
Fire(c, i, via) ==
    /\ via \in Endpoints \ {"analyze"} /\ ApiAt(c, "idle")
    /\ \/ \E j \in Incident : SameAlert(i, j) /\ Live(j) /\ Duplicate(c, j, via)
       \/ /\ status[i] = "ABSENT" /\ ~Known(i)
          /\ \A d \in Api : ~(ApiAt(d, "insert") /\ api[d].inc = i)
          /\ Serve(c, "insert", i, via) /\ UNCHANGED accepted
    /\ NoFault /\ UNCHANGED <<status, run, msg, worker>>

(* Mutant: the insert does not see an incident created meanwhile.          *)
InsertUnchecked(c) ==
    /\ ApiAt(c, "insert")
    /\ status' = [status EXCEPT ![api[c].inc] = "OPEN"]
    /\ IF api[c].via = "create" THEN Return(c) ELSE ApiGoto(c, "publish")
    /\ NoFault /\ UNCHANGED <<run, msg, worker, accepted>>

(* CreateWithEvent: the partial unique index lets one live incident per    *)
(* fingerprint in.                                                         *)
Insert(c) ==
    LET i == api[c].inc IN
    /\ ApiAt(c, "insert")
    /\ \/ /\ ~Known(i)
          /\ status' = [status EXCEPT ![i] = "OPEN"]
          /\ IF api[c].via = "create" THEN Return(c) ELSE ApiGoto(c, "publish")
       \/ Known(i) /\ ApiGoto(c, "refetch") /\ UNCHANGED status
    /\ NoFault /\ UNCHANGED <<run, msg, worker, accepted>>

(* Create fails, or commits although it reports a failure: 503 either way. *)
InsertFails(c) ==
    LET i == api[c].inc IN
    /\ ApiAt(c, "insert") /\ Fault("db")
    /\ \/ UNCHANGED status
       \/ ~Known(i) /\ status' = [status EXCEPT ![i] = "OPEN"]
    /\ Return(c)
    /\ UNCHANGED <<run, msg, worker, accepted>>

(* After ErrConflict Create looks the winner up; it may be closed already. *)
Refetch(c) ==
    LET i == api[c].inc IN
    /\ ApiAt(c, "refetch")
    /\ \/ /\ NoFault
          /\ \E j \in Incident : SameAlert(i, j) /\ Live(j) /\ Duplicate(c, j, api[c].via)
       \/ NoFault /\ ~Known(i) /\ Return(c) /\ UNCHANGED accepted
       \/ Fault("db") /\ Return(c) /\ UNCHANGED accepted
    /\ UNCHANGED <<status, run, msg, worker>>

(* hasActiveRun of the webhook: a failed read counts as "no run".          *)
CheckRuns(c) ==
    LET i == api[c].inc IN
    /\ ApiAt(c, "runs")
    /\ \/ NoFault /\ ActiveRuns(i) # {} /\ Accept(c, i)
       \/ NoFault /\ ActiveRuns(i) = {} /\ ApiGoto(c, "publish") /\ UNCHANGED accepted
       \/ Fault("db") /\ ApiGoto(c, "publish") /\ UNCHANGED accepted
    /\ UNCHANGED <<status, run, msg, worker>>

(* POST /incidents/:id/analyze: the status moves first; if that is kept    *)
(* but reported as failed, nothing is published.                           *)
AnalyzeCall(c, i) ==
    /\ "analyze" \in Endpoints /\ ApiAt(c, "idle") /\ status[i] = "OPEN"
    /\ status' = [status EXCEPT ![i] = "INVESTIGATING"]
    /\ \/ NoFault /\ Serve(c, "publish", i, "analyze")
       \/ FaultAbout("db", {i}) /\ UNCHANGED api
    /\ UNCHANGED <<run, msg, worker, accepted>>

Enqueue(i) ==
    /\ Cardinality(FreeSlots) > Reserve
    /\ \E m \in FreeSlots :
        msg' = [msg EXCEPT ![m] = [at |-> "main", inc |-> i, retries |-> 0]]

(* Producer.Publish, confirmed by the broker.                              *)
Publish(c) ==
    /\ ApiAt(c, "publish")
    /\ Enqueue(api[c].inc)
    /\ IF api[c].via = "webhook" THEN Accept(c, api[c].inc)
                                 ELSE Return(c) /\ UNCHANGED accepted
    /\ NoFault /\ UNCHANGED <<status, run, worker>>

(* Publication fails, or is kept although the confirmation got lost.  The  *)
(* webhook answers 503; analyze answers 200 all the same.                  *)
PublishFails(c) ==
    /\ ApiAt(c, "publish")
    /\ \/ FaultAbout("broker", AnalyzedBy(c)) /\ UNCHANGED msg
       \/ Fault("broker") /\ Enqueue(api[c].inc)
    /\ Return(c)
    /\ UNCHANGED <<status, run, worker, accepted>>

(* The API process dies in the middle of a call.                           *)
ApiCrash(c) ==
    /\ ~ApiAt(c, "idle") /\ FaultAbout("crash", AnalyzedBy(c))
    /\ Return(c)
    /\ UNCHANGED <<status, run, msg, worker, accepted>>

-----------------------------------------------------------------------------
(* The consumer loop up to the diagnosis: Subscribe, RunDiagnosis.         *)

(* The broker hands the message to an idle consumer, unacknowledged.       *)
Deliver(w, m) ==
    /\ At(w, "idle") /\ msg[m].at = "main"
    /\ msg' = [msg EXCEPT ![m].at = "unacked"]
    /\ worker' = [worker EXCEPT ![w] = [NoWork EXCEPT !.pc = "get", !.msg = m, !.inc = msg[m].inc]]
    /\ NoFault /\ UNCHANGED <<status, run, api, accepted>>

(* Mutant: a failed read of the incident is acknowledged as handled.       *)
GetSwallowingErrors(w) ==
    /\ At(w, "get")
    /\ \/ NoFault /\ status[IncOf(w)] \in Terminal /\ Goto(w, "ack")
       \/ /\ NoFault /\ status[IncOf(w)] \notin Terminal
          /\ worker' = [worker EXCEPT ![w].pc = "list", ![w].saw = status[IncOf(w)]]
       \/ Fault("db") /\ Goto(w, "ack")
    /\ UNCHANGED <<status, run, msg, api, accepted>>

(* svc.Get: a terminal incident is skipped, the message acknowledged.      *)
Get(w) ==
    /\ At(w, "get")
    /\ \/ NoFault /\ status[IncOf(w)] \in Terminal /\ Goto(w, "ack")
       \/ /\ NoFault /\ status[IncOf(w)] \notin Terminal
          /\ worker' = [worker EXCEPT ![w].pc = "list", ![w].saw = status[IncOf(w)]]
       \/ Fault("db") /\ Goto(w, "route")
    /\ UNCHANGED <<status, run, msg, api, accepted>>

(* Mutant: the diagnosis starts without moving the incident out of OPEN.   *)
ListRunsThenStart(w) ==
    /\ At(w, "list")
    /\ \/ NoFault /\ ActiveRuns(IncOf(w)) # {} /\ Goto(w, "ack")
       \/ NoFault /\ ActiveRuns(IncOf(w)) = {} /\ Goto(w, "start")
       \/ Fault("db") /\ Goto(w, "start")
    /\ UNCHANGED <<status, run, msg, api, accepted>>

(* hasActiveRun: a duplicate is skipped; a failed read counts as "no run". *)
ListRuns(w) ==
    LET next == IF worker[w].saw = "OPEN" THEN "analyze" ELSE "start" IN
    /\ At(w, "list")
    /\ \/ NoFault /\ ActiveRuns(IncOf(w)) # {} /\ Goto(w, "ack")
       \/ NoFault /\ ActiveRuns(IncOf(w)) = {} /\ Goto(w, next)
       \/ Fault("db") /\ Goto(w, next)
    /\ UNCHANGED <<status, run, msg, api, accepted>>

(* svc.Analyze: OPEN -> INVESTIGATING.                                     *)
Analyze(w) ==
    LET i == IncOf(w) IN
    /\ At(w, "analyze") /\ status[i] = "OPEN"
    /\ status' = [status EXCEPT ![i] = "INVESTIGATING"]
    /\ \/ NoFault /\ Goto(w, "start")
       \/ Fault("db") /\ Goto(w, "route")
    /\ UNCHANGED <<run, msg, api, accepted>>

(* Someone else moved the incident meanwhile, or the database fails.       *)
AnalyzeFails(w) ==
    /\ At(w, "analyze")
    /\ \/ NoFault /\ status[IncOf(w)] # "OPEN"
       \/ Fault("db")
    /\ Goto(w, "route")
    /\ UNCHANGED <<status, run, msg, api, accepted>>

-----------------------------------------------------------------------------
(* One diagnosis: runtime.Diagnose and its Recorder.                       *)

(* A row CreateRun may write: one not created yet, or that of a failed run.*)
FreshRuns == {r \in Run : run[r].st \notin ActiveRun}

CreateRow(r, i) == run' = [run EXCEPT ![r] = [inc |-> i, st |-> "RUNNING"]]

(* Mutant: CreateRun without the partial unique index.                     *)
StartUnchecked(w) ==
    /\ At(w, "start")
    /\ \E r \in FreshRuns :
          /\ CreateRow(r, IncOf(w))
          /\ worker' = [worker EXCEPT ![w].pc = "diagnose", ![w].run = r]
    /\ NoFault /\ UNCHANGED <<status, msg, api, accepted>>

(* CreateRun: the partial unique index lets one active run per incident in.*)
Start(w) ==
    /\ At(w, "start") /\ ActiveRuns(IncOf(w)) = {}
    /\ \E r \in FreshRuns :
          /\ CreateRow(r, IncOf(w))
          /\ \/ NoFault /\ worker' = [worker EXCEPT ![w].pc = "diagnose", ![w].run = r]
             \/ Fault("db") /\ Goto(w, "route")
    /\ UNCHANGED <<status, msg, api, accepted>>

(* ErrConflict acknowledges the message as a duplicate, any other error    *)
(* fails the attempt.                                                      *)
StartFails(w) ==
    /\ At(w, "start")
    /\ \/ NoFault /\ ActiveRuns(IncOf(w)) # {} /\ Goto(w, "ack")
       \/ Fault("db") /\ Goto(w, "route")
    /\ UNCHANGED <<status, run, msg, api, accepted>>

(* The agent's worker_restart tool takes the incident to WAITING_APPROVAL. *)
RequestApproval(w) ==
    /\ At(w, "diagnose") /\ status[IncOf(w)] = "INVESTIGATING"
    /\ status' = [status EXCEPT ![IncOf(w)] = "WAITING_APPROVAL"]
    /\ NoFault /\ UNCHANGED <<run, msg, worker, api, accepted>>

(* Generate returns a conclusion and the final step is recorded, or the    *)
(* model, a tool, the run's timeout or the recording ends the diagnosis.   *)
Conclude(w) ==
    /\ At(w, "diagnose")
    /\ Goto(w, "complete") \/ Goto(w, "fail")
    /\ NoFault /\ UNCHANGED <<status, run, msg, api, accepted>>

SetRun(w, st) == run' = [run EXCEPT ![worker[w].run].st = st]

(* Recorder.Complete; when its write fails, or is kept unknown to the      *)
(* recorder, the run is failed instead.                                    *)
Complete(w) ==
    /\ At(w, "complete")
    /\ \/ NoFault /\ SetRun(w, "COMPLETED") /\ Leave(w, "ack")
       \/ Fault("db") /\ (UNCHANGED run \/ SetRun(w, "COMPLETED")) /\ Goto(w, "fail")
    /\ UNCHANGED <<status, msg, api, accepted>>

(* Recorder.Fail; its own failure leaves the run as it is.                 *)
Fail(w) ==
    /\ At(w, "fail")
    /\ \/ NoFault /\ SetRun(w, "FAILED")
       \/ Fault("db") /\ (UNCHANGED run \/ SetRun(w, "FAILED"))
    /\ Leave(w, "route")
    /\ UNCHANGED <<status, msg, api, accepted>>

-----------------------------------------------------------------------------
(* What becomes of a delivery: failedMessageRoute, republishConfirmed,     *)
(* finishDeadLetter.                                                       *)

(* Mutant: one retry too many.                                             *)
ExhaustedLate(w) == msg[worker[w].msg].retries > MaxRetries

Exhausted(w) == msg[worker[w].msg].retries >= MaxRetries

(* The copy that goes to the retry queue, or to the dead-letter queue.     *)
Copy(w) ==
    LET m == msg[worker[w].msg] IN
    IF Exhausted(w) THEN [m EXCEPT !.at = "dlq"]
                    ELSE [m EXCEPT !.at = "retry", !.retries = @ + 1]

(* Mutant: the incident is failed before the dead letter is confirmed.     *)
RouteAfterCallback(w) ==
    /\ At(w, "route") /\ Holds(w)
    /\ IF Exhausted(w)
         THEN UNCHANGED msg /\ Goto(w, "terminalRead")
         ELSE (\E m \in FreeSlots : msg' = [msg EXCEPT ![m] = Copy(w)]) /\ Goto(w, "ack")
    /\ NoFault /\ UNCHANGED <<status, run, api, accepted>>

(* The broker confirmed the copy.                                          *)
Route(w) ==
    /\ At(w, "route") /\ Holds(w)
    /\ \E m \in FreeSlots : msg' = [msg EXCEPT ![m] = Copy(w)]
    /\ Goto(w, IF Exhausted(w) THEN "terminalRead" ELSE "ack")
    /\ NoFault /\ UNCHANGED <<status, run, api, accepted>>

(* Mutant: the delivery is dropped when its copy was not confirmed.        *)
RouteDropped(w) ==
    /\ At(w, "route") /\ Holds(w) /\ Fault("broker")
    /\ msg' = [msg EXCEPT ![worker[w].msg] = NoMsg]
    /\ worker' = [worker EXCEPT ![w] = NoWork]
    /\ UNCHANGED <<status, run, api, accepted>>

(* No confirmation, though the broker may have kept the copy: Nack with    *)
(* requeue, which keeps the retry count.  A channel already closed cannot  *)
(* publish, and its delivery is back in the queue anyway.                  *)
RouteFails(w) ==
    LET requeued == [msg EXCEPT ![worker[w].msg].at = "main"] IN
    /\ At(w, "route")
    /\ \/ Holds(w) /\ Fault("broker") /\ msg' = requeued
       \/ /\ Holds(w) /\ Fault("broker")
          /\ \E m \in FreeSlots : msg' = [requeued EXCEPT ![m] = Copy(w)]
       \/ ~Holds(w) /\ NoFault /\ UNCHANGED msg
    /\ worker' = [worker EXCEPT ![w] = NoWork]
    /\ UNCHANGED <<status, run, api, accepted>>

(* Mutant: the callback spares an incident that waits for an approval.     *)
TerminalReadSparing(w) ==
    LET seen == status[IncOf(w)] IN
    /\ At(w, "terminalRead")
    /\ \/ /\ NoFault /\ seen \in {"OPEN", "INVESTIGATING"}
          /\ worker' = [worker EXCEPT ![w].pc = "terminalWrite", ![w].saw = seen]
       \/ NoFault /\ seen \notin {"OPEN", "INVESTIGATING"} /\ Goto(w, "ack")
       \/ Fault("db") /\ Goto(w, "ack")
    /\ UNCHANGED <<status, run, msg, api, accepted>>

(* failIncidentOnDeadLetter: Fail reads the incident ...                   *)
TerminalRead(w) ==
    LET seen == status[IncOf(w)] IN
    /\ At(w, "terminalRead")
    /\ \/ /\ NoFault /\ CanTransition(seen, "FAILED")
          /\ worker' = [worker EXCEPT ![w].pc = "terminalWrite", ![w].saw = seen]
       \/ NoFault /\ ~CanTransition(seen, "FAILED") /\ Goto(w, "ack")
       \/ Fault("db") /\ Goto(w, "ack")
    /\ UNCHANGED <<status, run, msg, api, accepted>>

(* ... and writes FAILED unless it changed meanwhile; an error is logged.  *)
TerminalWrite(w) ==
    LET i == IncOf(w) IN
    /\ At(w, "terminalWrite")
    /\ \/ /\ status[i] = worker[w].saw /\ (NoFault \/ Fault("db"))
          /\ status' = [status EXCEPT ![i] = "FAILED"]
       \/ NoFault /\ status[i] # worker[w].saw /\ UNCHANGED status
       \/ Fault("db") /\ UNCHANGED status
    /\ Goto(w, "ack")
    /\ UNCHANGED <<run, msg, api, accepted>>

(* msg.Ack; on a closed channel it has no effect.                          *)
Ack(w) ==
    /\ At(w, "ack")
    /\ msg' = IF Holds(w) THEN [msg EXCEPT ![worker[w].msg] = NoMsg] ELSE msg
    /\ worker' = [worker EXCEPT ![w] = NoWork]
    /\ NoFault /\ UNCHANGED <<status, run, api, accepted>>

Requeue(w) == IF Holds(w) THEN [msg EXCEPT ![worker[w].msg].at = "main"] ELSE msg

(* The worker dies: the broker requeues its delivery, its run stays.       *)
Crash(w) ==
    /\ ~At(w, "idle") /\ Fault("crash")
    /\ msg' = Requeue(w)
    /\ worker' = [worker EXCEPT ![w] = NoWork]
    /\ UNCHANGED <<status, run, api, accepted>>

(* The connection breaks: the broker requeues the delivery while the       *)
(* worker carries on with it.                                              *)
Disconnect(w) ==
    /\ ~At(w, "idle") /\ Holds(w) /\ FaultAbout("disconnect", {IncOf(w)})
    /\ msg' = Requeue(w)
    /\ worker' = [worker EXCEPT ![w].msg = None]
    /\ UNCHANGED <<status, run, api, accepted>>

(* The TTL of the retry queue: the message returns to the main queue.      *)
RetryExpires(m) ==
    /\ msg[m].at = "retry"
    /\ msg' = [msg EXCEPT ![m].at = "main"]
    /\ NoFault /\ UNCHANGED <<status, run, worker, api, accepted>>

-----------------------------------------------------------------------------
(* What the alert's recovery, the operators and the remediation do to the  *)
(* status: here any of their moves may happen at any time.                 *)
OutsideMove(i) ==
    /\ \E next \in OutsideTargets(status[i]) : status' = [status EXCEPT ![i] = next]
    /\ NoFault /\ UNCHANGED <<run, msg, worker, api, accepted>>

-----------------------------------------------------------------------------
Init ==
    /\ status   = [i \in Incident |-> "ABSENT"]
    /\ run      = [r \in Run |-> [inc |-> None, st |-> "ABSENT"]]
    /\ msg      = [m \in Msg |-> NoMsg]
    /\ worker   = [w \in Worker |-> NoWork]
    /\ api      = [c \in Api |-> NoApi]
    /\ accepted = {}
    /\ faults   = 0
    /\ stranded = {}

ApiStep(c) ==
    \/ Insert(c) \/ InsertFails(c) \/ Refetch(c) \/ CheckRuns(c) \/ Publish(c) \/ PublishFails(c)

ApiCall(c) ==
    \E i \in Incident :
        AnalyzeCall(c, i) \/ \E via \in {"webhook", "create"} : Fire(c, i, via)

WorkerStep(w) ==
    \/ Get(w) \/ ListRuns(w) \/ Analyze(w) \/ AnalyzeFails(w)
    \/ Start(w) \/ StartFails(w) \/ Conclude(w) \/ Complete(w) \/ Fail(w)
    \/ Route(w) \/ RouteFails(w) \/ TerminalRead(w) \/ TerminalWrite(w) \/ Ack(w)

Next ==
    \/ \E c \in Api : ApiCall(c) \/ ApiStep(c) \/ ApiCrash(c)
    \/ \E w \in Worker : WorkerStep(w) \/ RequestApproval(w) \/ Crash(w) \/ Disconnect(w)
    \/ \E w \in Worker, m \in Msg : Deliver(w, m)
    \/ \E m \in Msg : RetryExpires(m)
    \/ \E i \in Incident : OutsideMove(i)

Spec == Init /\ [][Next]_vars

(* Goroutines run, the diagnosis and every access have a timeout, queues   *)
(* are FIFO (a message is not overtaken for ever) and the TTL of the retry *)
(* queue expires.  Nothing is assumed of arrivals, humans and recoveries.  *)
FairSpec ==
    /\ Spec
    /\ \A w \in Worker : WF_vars(WorkerStep(w))
    /\ \A m \in Msg : SF_vars(\E w \in Worker : Deliver(w, m))
    /\ \A m \in Msg : WF_vars(RetryExpires(m))

-----------------------------------------------------------------------------
(* Properties.                                                             *)

WorkerPC == {"idle", "get", "list", "analyze", "start", "diagnose", "complete",
             "fail", "route", "terminalRead", "terminalWrite", "ack"}

(* Every variable has its type, and no message was retried more often than *)
(* MaxRetries.                                                             *)
TypeOK ==
    /\ status \in [Incident -> Status \cup {"ABSENT"}]
    /\ run \in [Run -> [inc : Incident \cup {None}, st : RunStatus]]
    /\ msg \in [Msg -> [at : {"none", "main", "unacked", "retry", "dlq"},
                        inc : Incident \cup {None}, retries : 0 .. MaxRetries]]
    /\ worker \in [Worker -> [pc : WorkerPC, msg : Msg \cup {None},
                              inc : Incident \cup {None}, run : Run \cup {None}, saw : Status \cup {"ABSENT"}]]
    /\ api \in [Api -> [pc : {"idle", "insert", "refetch", "runs", "publish"},
                        inc : Incident \cup {None}, via : {"none", "webhook", "create", "analyze"}]]
    /\ accepted \subseteq Incident
    /\ faults \in 0 .. MaxFaults
    /\ stranded \subseteq Incident

Diagnosing(w) == worker[w].pc \in {"diagnose", "complete", "fail"}

(* However messages are duplicated, redelivered or retried, an incident is *)
(* diagnosed by one worker at a time (RunDiagnosis, CreateRun).            *)
OneDiagnosisAtATime ==
    \A v, w \in Worker :
        Diagnosing(v) /\ Diagnosing(w) /\ IncOf(v) = IncOf(w) => v = w

(* A fingerprint has at most one incident that is not terminal, whatever   *)
(* notifications race in Create (memory.go createLocked, the index).       *)
OneLiveIncident ==
    \A i, j \in Incident : SameAlert(i, j) /\ Live(i) /\ Live(j) => i = j

Lifecycle == INSTANCE IncidentLifecycle

(* Whatever notifications, workers, dead letters and recoveries race, an   *)
(* incident is opened only when no other of its alert is live (memory.go   *)
(* createLocked, the index), moves along the table and stays closed.       *)
ImplementsLifecycle == Lifecycle!Spec

InFlight(i) == \E m \in Msg : msg[m].inc = i /\ msg[m].at # "none"
DeadLettered(i) == \E m \in Msg : msg[m].inc = i /\ msg[m].at = "dlq"

(* The dead-letter callback touches the incident only once the broker has  *)
(* confirmed the message in the dead-letter queue (README:20).             *)
FailedOnlyAfterDeadLetter ==
    \A w \in Worker :
        worker[w].pc \in {"terminalRead", "terminalWrite"} => DeadLettered(IncOf(w))

(* A firing alert answered 2xx keeps a run or a message, which may be a    *)
(* dead letter, until its incident is terminal (Webhook's 503, Publish,    *)
(* Subscribe), whatever database, broker and process failures strike.  Two *)
(* things alone may take both away, and only of an incident beyond OPEN:   *)
(* the channel broke under its delivery (consumer.go Subscribe), or the    *)
(* analyze endpoint moved it and has not published (incident.go Analyze).  *)
NoAcceptedAlertLost ==
    \A i \in accepted :
        \/ status[i] \in Terminal \/ ActiveRuns(i) # {} \/ InFlight(i)
        \/ status[i] # "OPEN" /\ (i \in stranded \/ \E c \in Api : Analyzing(c, i))

(* Where an accepted alert may end: closed, diagnosed, or under a human's  *)
(* hands.                                                                  *)
Concluded(i) ==
    \/ status[i] \in Terminal \cup InRemediation
    \/ \E r \in ActiveRuns(i) : run[r].st = "COMPLETED"

(* As long as no fault strikes every accepted alert is diagnosed or closed,*)
(* however often the agent itself fails: the retries run out and the       *)
(* dead-letter callback fails the incident.                                *)
DiagnosisConcludes ==
    [](faults = 0) => \A i \in Incident : i \in accepted ~> Concluded(i)

Orphaned(i) ==
    \E r \in Run : /\ run[r].inc = i /\ run[r].st = "RUNNING"
                   /\ \A w \in Worker : worker[w].run # r

(* With faults an accepted alert can get stuck in two ways only: in the    *)
(* dead-letter queue with its callback lost, or behind a RUNNING run whose *)
(* worker is gone (README:17, no takeover by time).                        *)
StuckOnlyBehindRunOrDeadLetter ==
    \A i \in Incident :
        i \in accepted ~> Concluded(i) \/ DeadLettered(i) \/ Orphaned(i)
=============================================================================
