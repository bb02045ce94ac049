--------------------------- MODULE DiagnosisProofs ---------------------------
(***************************************************************************)
(* Proofs, for any number of incidents, goroutines, workers, messages and  *)
(* faults, of the safety of Diagnosis.  IInv is the inductive invariant;   *)
(* NothingLost, which an accepted alert depends on, is inductive with it.  *)
(***************************************************************************)
EXTENDS Diagnosis, TLAPS

-----------------------------------------------------------------------------
(* The inductive invariant.                                                *)

Exists(i) == i \in Incident /\ status[i] # "ABSENT"

PastOpen(i) == i \in Incident /\ status[i] \notin {"ABSENT", "OPEN"}

(* What a goroutine of the API is about: an insert creates its own, new    *)
(* incident, what is published about exists.                               *)
CallsOK ==
    /\ \A c \in Api : ~ApiAt(c, "idle") => api[c].inc \in Incident /\ api[c].via # "none"
    /\ \A c \in Api : ApiAt(c, "insert") => status[api[c].inc] = "ABSENT"
    /\ \A c, d \in Api :
          ApiAt(c, "insert") /\ ApiAt(d, "insert") /\ api[c].inc = api[d].inc => c = d
    /\ \A c \in Api : api[c].pc \in {"runs", "publish"} => Exists(api[c].inc)

(* Messages and accepted alerts are about incidents that exist.            *)
NamesExist ==
    /\ \A m \in Msg : msg[m].at # "none" => Exists(msg[m].inc)
    /\ \A i \in accepted : Exists(i)
    /\ \A w \in Worker : ~At(w, "idle") => Exists(IncOf(w))

(* The dead-letter callback writes only over a status that may fail.       *)
FailsOnlyLive == \A w \in Worker : At(w, "terminalWrite") => CanTransition(worker[w].saw, "FAILED")

(* A worker whose channel is open has the one unacknowledged delivery it   *)
(* was given.                                                              *)
DeliveriesHeld ==
    /\ \A w \in Worker : Holds(w) =>
          /\ ~At(w, "idle") /\ worker[w].msg \in Msg
          /\ msg[worker[w].msg].at = "unacked" /\ msg[worker[w].msg].inc = IncOf(w)
    /\ \A v, w \in Worker : Holds(v) /\ worker[v].msg = worker[w].msg => v = w

(* No run is started for an incident that is still OPEN, also not after    *)
(* the status it was seen with has changed.                                *)
RunsAfterOpen ==
    /\ \A w \in Worker :
          worker[w].pc \in {"start", "diagnose", "complete", "fail"} => PastOpen(IncOf(w))
    /\ \A w \in Worker : At(w, "list") => worker[w].saw = "OPEN" \/ PastOpen(IncOf(w))
    /\ \A r \in Run : run[r].st \in ActiveRun => PastOpen(run[r].inc)

(* An incident has one active run (the partial unique index), and whoever  *)
(* diagnoses it has that run.                                              *)
RunsOwned ==
    /\ \A r, s \in Run :
          run[r].st \in ActiveRun /\ run[s].st \in ActiveRun /\ run[r].inc = run[s].inc => r = s
    /\ \A w \in Worker : Diagnosing(w) =>
          /\ worker[w].run \in Run /\ run[worker[w].run].st \in ActiveRun
          /\ run[worker[w].run].inc = IncOf(w)

(* A message a worker is done with: what follows is its acknowledgement.   *)
Settling(w) == worker[w].pc \in {"terminalRead", "terminalWrite", "ack"}

(* A message about i that is still to be handled, or a dead letter.        *)
Carries(m, i) ==
    /\ msg[m].inc = i /\ msg[m].at # "none"
    /\ \A w \in Worker : Settling(w) => worker[w].msg # m

Carried(i) == \E m \in Msg : Carries(m, i)

(* The message of an accepted alert whose incident is still OPEN outlives  *)
(* every fault; those a worker is about to acknowledge do not count.       *)
OpenCarried == \A i \in accepted : status[i] = "OPEN" => Carried(i)

IInv ==
    /\ TypeOK /\ CallsOK /\ NamesExist /\ FailsOnlyLive /\ DeliveriesHeld /\ RunsAfterOpen
    /\ RunsOwned /\ OneDiagnosisAtATime /\ OneLiveIncident
    /\ FailedOnlyAfterDeadLetter /\ OpenCarried

(* An incident beyond OPEN, whether or not its alert was accepted (the     *)
(* webhook accepts for it at any time), or an accepted one, is diagnosed   *)
(* or about to be, unless it is stranded.                                  *)
NothingLost ==
    /\ \A w \in Worker : ~At(w, "idle") => Holds(w) \/ IncOf(w) \in stranded
    /\ \A i \in Incident \ stranded :
          Live(i) /\ (i \in accepted \/ status[i] # "OPEN") =>
             ActiveRuns(i) # {} \/ Carried(i) \/ \E c \in Api : Analyzing(c, i)

-----------------------------------------------------------------------------
(* What the operators on a worker's and a goroutine's entry do to it.      *)

Work == [pc : WorkerPC, msg : Msg \cup {None}, inc : Incident \cup {None},
         run : Run \cup {None}, saw : Status \cup {"ABSENT"}]

Call == [pc : {"idle", "insert", "refetch", "runs", "publish"},
         inc : Incident \cup {None}, via : {"none", "webhook", "create", "analyze"}]

Message == [at : {"none", "main", "unacked", "retry", "dlq"},
            inc : Incident \cup {None}, retries : 0 .. MaxRetries]

Row == [inc : Incident \cup {None}, st : RunStatus]

OnlyWorker(w) == \A v \in Worker \ {w} : worker'[v] = worker[v]
OnlyApi(c) == \A d \in Api \ {c} : api'[d] = api[d]

LEMMA EntryOf ==
    ASSUME TypeOK
    PROVE  /\ worker \in [Worker -> Work] /\ api \in [Api -> Call]
           /\ \A w \in Worker : worker[w] \in Work
           /\ \A c \in Api : api[c] \in Call
BY DEF TypeOK, Work, Call

LEMMA EntryEffect ==
    ASSUME TypeOK, NEW w \in Worker, NEW e \in Work, worker' = [worker EXCEPT ![w] = e]
    PROVE  worker' \in [Worker -> Work] /\ OnlyWorker(w) /\ worker'[w] = e
BY EntryOf DEF OnlyWorker

LEMMA GotoEffect ==
    ASSUME TypeOK, NEW w \in Worker, NEW label \in WorkerPC, Goto(w, label)
    PROVE  /\ worker' \in [Worker -> Work] /\ OnlyWorker(w)
           /\ worker'[w] = [worker[w] EXCEPT !.pc = label, !.saw = "ABSENT"]
<1>1. [worker[w] EXCEPT !.pc = label, !.saw = "ABSENT"] \in Work
    BY EntryOf DEF Work
<1>2. worker' = [worker EXCEPT ![w] = [worker[w] EXCEPT !.pc = label, !.saw = "ABSENT"]]
    BY EntryOf DEF Goto
<1>. QED
    BY <1>1, <1>2, EntryEffect

LEMMA LeaveEffect ==
    ASSUME TypeOK, NEW w \in Worker, NEW label \in WorkerPC, Leave(w, label)
    PROVE  /\ worker' \in [Worker -> Work] /\ OnlyWorker(w)
           /\ worker'[w] = [worker[w] EXCEPT !.pc = label, !.run = None]
<1>1. [worker[w] EXCEPT !.pc = label, !.run = None] \in Work
    BY EntryOf DEF Work
<1>2. worker' = [worker EXCEPT ![w] = [worker[w] EXCEPT !.pc = label, !.run = None]]
    BY EntryOf DEF Leave
<1>. QED
    BY <1>1, <1>2, EntryEffect

LEMMA ServeEffect ==
    ASSUME TypeOK, NEW c \in Api, NEW i \in Incident,
           NEW label \in {"insert", "runs", "publish"}, NEW via \in {"webhook", "create", "analyze"},
           Serve(c, label, i, via)
    PROVE  /\ api' \in [Api -> Call] /\ OnlyApi(c)
           /\ api'[c] = [pc |-> label, inc |-> i, via |-> via]
BY DEF TypeOK, Call, Serve, OnlyApi

LEMMA ApiGotoEffect ==
    ASSUME TypeOK, NEW c \in Api, NEW label \in {"refetch", "publish"}, ApiGoto(c, label)
    PROVE  /\ api' \in [Api -> Call] /\ OnlyApi(c)
           /\ api'[c] = [api[c] EXCEPT !.pc = label]
BY DEF TypeOK, Call, ApiGoto, OnlyApi

LEMMA ReturnEffect ==
    ASSUME TypeOK, NEW c \in Api, Return(c)
    PROVE  api' \in [Api -> Call] /\ OnlyApi(c) /\ api'[c] = NoApi
BY DEF TypeOK, Call, Return, NoApi, OnlyApi

LEMMA FaultEffect ==
    ASSUME TypeOK, NoFault \/ \E kind, about : about \subseteq Incident /\ FaultAbout(kind, about)
    PROVE  faults' \in 0 .. MaxFaults /\ stranded' \subseteq Incident /\ stranded \subseteq stranded'
BY BoundAssumption DEF TypeOK, NoFault, FaultAbout

-----------------------------------------------------------------------------
(* How a status may change: created by the insert, moved on while live.    *)

StatusMoves ==
    \A i \in Incident :
        \/ status'[i] = status[i]
        \/ /\ status[i] = "ABSENT" /\ status'[i] = "OPEN"
           /\ ~Known(i) /\ UNCHANGED <<accepted, run>>
           /\ \A j \in Incident \ {i} : status'[j] = status[j]
           /\ \E c \in Api : /\ ApiAt(c, "insert") /\ api[c].inc = i
                             /\ api'[c].pc # "insert"
        \/ Live(i) /\ status'[i] \in Status \ {"OPEN"}

LEMMA StatusOnlyMoves ==
    ASSUME TypeOK, CallsOK, FailsOnlyLive, [Next]_vars
    PROVE  StatusMoves /\ status' \in [Incident -> Status \cup {"ABSENT"}]
<1>. USE DEF StatusMoves, TypeOK, Live, Status, Terminal
<1>1. CASE \E c \in Api, i \in Incident : AnalyzeCall(c, i)
    BY <1>1 DEF AnalyzeCall
<1>2. ASSUME NEW c \in Api, Insert(c) \/ InsertFails(c)
      PROVE  StatusMoves /\ status' \in [Incident -> Status \cup {"ABSENT"}]
  <2>1. ASSUME Return(c) PROVE api'[c].pc # "insert"
      BY <2>1, ReturnEffect DEF NoApi
  <2>2. ASSUME \E label \in {"refetch", "publish"} : ApiGoto(c, label)
        PROVE  api'[c].pc # "insert"
    <3>1. PICK label \in {"refetch", "publish"} : ApiGoto(c, label)
        BY <2>2
    <3>2. api[c] \in Call /\ api'[c] = [api[c] EXCEPT !.pc = label]
        BY <3>1, ApiGotoEffect, EntryOf
    <3>. QED
        BY <3>2 DEF Call
  <2>3. api'[c].pc # "insert"
      BY <1>2, <2>1, <2>2 DEF Insert, InsertFails
  <2>. QED
      BY <1>2, <2>3 DEF Insert, InsertFails, CallsOK, ApiAt
<1>3. CASE \E w \in Worker : Analyze(w) \/ RequestApproval(w)
    BY <1>3 DEF Analyze, RequestApproval
<1>4. CASE \E w \in Worker : TerminalWrite(w)
    BY <1>4 DEF TerminalWrite, FailsOnlyLive, CanTransition, AllowedTargets
<1>5. CASE \E i \in Incident : OutsideMove(i)
    BY <1>5 DEF OutsideMove, OutsideTargets, AllowedTargets, InRemediation
<1>6. CASE UNCHANGED status
    BY <1>6
<1>. QED
    BY <1>1, <1>2, <1>3, <1>4, <1>5, <1>6
    DEF Next, vars, ApiCall, ApiStep, WorkerStep, Fire, Refetch, CheckRuns, Publish,
        PublishFails, ApiCrash, Deliver, Get, ListRuns, AnalyzeFails, Start, StartFails,
        Conclude, Complete, Fail, Route, RouteFails, TerminalRead, Ack, Crash, Disconnect,
        RetryExpires

(* A message and a run row keep their types.                               *)
LEMMA MessageEffects ==
    ASSUME TypeOK
    PROVE  /\ msg \in [Msg -> Message] /\ NoMsg \in Message
           /\ \A i \in Incident : [at |-> "main", inc |-> i, retries |-> 0] \in Message
           /\ \A m \in Msg, q \in {"main", "unacked"} : [msg[m] EXCEPT !.at = q] \in Message
           /\ \A w \in Worker : worker[w].msg \in Msg => Copy(w) \in Message
<1>1. msg \in [Msg -> Message]
    BY DEF TypeOK, Message
<1>2. NoMsg \in Message /\ \A i \in Incident : [at |-> "main", inc |-> i, retries |-> 0] \in Message
    BY BoundAssumption DEF NoMsg, Message
<1>3. \A m \in Msg, q \in {"main", "unacked"} : [msg[m] EXCEPT !.at = q] \in Message
    BY <1>1 DEF Message
<1>4. ASSUME NEW w \in Worker, worker[w].msg \in Msg
      PROVE  Copy(w) \in Message
  <2>. DEFINE m == msg[worker[w].msg]
  <2>1. m \in Message
      BY <1>1, <1>4
  <2>2. m.retries \in 0 .. MaxRetries
      BY <2>1 DEF Message
  <2>3. CASE Exhausted(w)
    <3>1. Copy(w) = [m EXCEPT !.at = "dlq"]
        BY <2>3 DEF Copy
    <3>. HIDE DEF m
    <3>. QED
        BY <2>1, <3>1 DEF Message
  <2>4. CASE ~Exhausted(w)
    <3>1. Copy(w) = [m EXCEPT !.at = "retry", !.retries = @ + 1]
        BY <2>4 DEF Copy
    <3>2. m.retries + 1 \in 0 .. MaxRetries
        BY <2>2, <2>4, BoundAssumption DEF Exhausted
    <3>. HIDE DEF m
    <3>. QED
        BY <2>1, <3>1, <3>2 DEF Message
  <2>. QED
      BY <2>3, <2>4
<1>. QED
    BY <1>1, <1>2, <1>3, <1>4

LEMMA MessagesTyped ==
    ASSUME TypeOK, CallsOK, [Next]_vars
    PROVE  msg' \in [Msg -> Message]
<1>1. \A m \in Msg, e \in Message : [msg EXCEPT ![m] = e] \in [Msg -> Message]
    BY MessageEffects
<1>2. \A m \in Msg, q \in {"main", "unacked"} :
         /\ [msg EXCEPT ![m].at = q] = [msg EXCEPT ![m] = [msg[m] EXCEPT !.at = q]]
         /\ [msg EXCEPT ![m].at = q] \in [Msg -> Message]
    BY MessageEffects
<1>3. ASSUME NEW c \in Api, api[c].inc \in Incident, Enqueue(api[c].inc)
      PROVE  msg' \in [Msg -> Message]
    BY <1>1, <1>3, MessageEffects DEF Enqueue, FreeSlots
<1>5. CASE \E c \in Api : Publish(c) \/ PublishFails(c)
    BY <1>3, <1>5, MessageEffects DEF Publish, PublishFails, CallsOK, ApiAt
<1>6. CASE \E w \in Worker, m \in Msg : Deliver(w, m)
    BY <1>2, <1>6 DEF Deliver
<1>7. ASSUME NEW w \in Worker, Route(w) \/ RouteFails(w)
      PROVE  msg' \in [Msg -> Message]
  <2>1. Holds(w) => worker[w].msg \in Msg
      BY EntryOf DEF Holds, Work
  <2>2. CASE UNCHANGED msg
      BY <2>2, MessageEffects
  <2>3. CASE Holds(w) /\ \E m \in FreeSlots : msg' = [msg EXCEPT ![m] = Copy(w)]
      BY <1>1, <2>1, <2>3, MessageEffects DEF FreeSlots
  <2>4. CASE Holds(w) /\ msg' = [msg EXCEPT ![worker[w].msg].at = "main"]
      BY <1>2, <2>1, <2>4
  <2>5. CASE /\ Holds(w)
             /\ \E m \in FreeSlots :
                   msg' = [[msg EXCEPT ![worker[w].msg].at = "main"] EXCEPT ![m] = Copy(w)]
    <3>1. [msg EXCEPT ![worker[w].msg].at = "main"] \in [Msg -> Message] /\ Copy(w) \in Message
        BY <1>2, <2>1, <2>5, MessageEffects
    <3>. QED
        BY <2>5, <3>1 DEF FreeSlots
  <2>. QED
      BY <1>7, <2>2, <2>3, <2>4, <2>5 DEF Route, RouteFails
<1>8. ASSUME NEW w \in Worker, Ack(w) \/ Crash(w) \/ Disconnect(w)
      PROVE  msg' \in [Msg -> Message]
  <2>1. Holds(w) => worker[w].msg \in Msg
      BY EntryOf DEF Holds, Work
  <2>2. CASE Ack(w)
      BY <1>1, <2>1, <2>2, MessageEffects DEF Ack
  <2>3. CASE Crash(w) \/ Disconnect(w)
      BY <1>2, <2>1, <2>3, MessageEffects DEF Crash, Disconnect, Requeue
  <2>. QED
      BY <1>8, <2>2, <2>3
<1>9. CASE \E m \in Msg : RetryExpires(m)
    BY <1>2, <1>9 DEF RetryExpires
<1>10. CASE UNCHANGED msg
    BY <1>10, MessageEffects
<1>. QED
    BY <1>5, <1>6, <1>7, <1>8, <1>9, <1>10
    DEF Next, vars, ApiCall, ApiStep, WorkerStep, AnalyzeCall, Fire, Insert, InsertFails,
        Refetch, CheckRuns, ApiCrash, Get, ListRuns, Analyze, AnalyzeFails, Start, StartFails,
        RequestApproval, Conclude, Complete, Fail, TerminalRead, TerminalWrite, OutsideMove

LEMMA RunsTyped ==
    ASSUME TypeOK, NamesExist, [Next]_vars
    PROVE  run' \in [Run -> Row]
<1>1. run \in [Run -> Row]
    BY DEF TypeOK, Row
<1>2. ASSUME NEW w \in Worker, Start(w)
      PROVE  run' \in [Run -> Row]
  <2>1. [inc |-> IncOf(w), st |-> "RUNNING"] \in Row
      BY <1>2 DEF Start, NamesExist, At, Exists, Row, RunStatus
  <2>. QED
      BY <1>1, <1>2, <2>1 DEF Start, CreateRow, FreshRuns
<1>3. ASSUME NEW w \in Worker, NEW st \in RunStatus, SetRun(w, st)
      PROVE  run' \in [Run -> Row]
  <2>1. \A r \in Run : [run[r] EXCEPT !.st = st] \in Row
      BY <1>1 DEF Row
  <2>. QED
      BY <1>1, <1>3, <2>1 DEF SetRun
<1>4. ASSUME NEW w \in Worker, Complete(w) \/ Fail(w)
      PROVE  run' \in [Run -> Row]
    BY <1>1, <1>3, <1>4 DEF Complete, Fail, RunStatus
<1>5. CASE UNCHANGED run
    BY <1>1, <1>5
<1>. QED
    BY <1>2, <1>4, <1>5
    DEF Next, vars, ApiCall, ApiStep, WorkerStep, AnalyzeCall, Fire, Insert, InsertFails,
        Refetch, CheckRuns, Publish, PublishFails, ApiCrash, Deliver, Get, ListRuns, Analyze,
        AnalyzeFails, StartFails, RequestApproval, Conclude, Route, RouteFails, TerminalRead,
        TerminalWrite, Ack, Crash, Disconnect, RetryExpires, OutsideMove

LEMMA WorkersTyped ==
    ASSUME TypeOK, NamesExist, [Next]_vars
    PROVE  worker' \in [Worker -> Work]
<1>1. \A w \in Worker, e \in Work : [worker EXCEPT ![w] = e] \in [Worker -> Work]
    BY EntryOf
<1>2. \A w \in Worker, label \in WorkerPC : Goto(w, label) \/ Leave(w, label) =>
         worker' \in [Worker -> Work]
    BY GotoEffect, LeaveEffect
<1>3. NoWork \in Work
    BY DEF NoWork, Work, WorkerPC
<1>4. ASSUME NEW w \in Worker, NEW m \in Msg, Deliver(w, m)
      PROVE  worker' \in [Worker -> Work]
  <2>1. msg[m].inc \in Incident
      BY <1>4 DEF Deliver, NamesExist, Exists
  <2>2. [NoWork EXCEPT !.pc = "get", !.msg = m, !.inc = msg[m].inc] \in Work
      BY <1>3, <2>1 DEF Work, WorkerPC
  <2>. QED
      BY <1>1, <1>4, <2>2 DEF Deliver
<1>5. ASSUME NEW w \in Worker, NEW label \in {"list", "terminalWrite"}, status[IncOf(w)] \in Status \cup {"ABSENT"},
             worker' = [worker EXCEPT ![w].pc = label, ![w].saw = status[IncOf(w)]]
      PROVE  worker' \in [Worker -> Work]
  <2>1. [worker[w] EXCEPT !.pc = label, !.saw = status[IncOf(w)]] \in Work
      BY <1>5, EntryOf DEF Work, WorkerPC
  <2>2. worker' = [worker EXCEPT ![w] = [worker[w] EXCEPT !.pc = label, !.saw = status[IncOf(w)]]]
      BY <1>5, EntryOf
  <2>. QED
      BY <1>1, <2>1, <2>2
<1>6. ASSUME NEW w \in Worker, Get(w) \/ TerminalRead(w)
      PROVE  worker' \in [Worker -> Work]
  <2>1. status[IncOf(w)] \in Status \cup {"ABSENT"}
      BY <1>6 DEF Get, TerminalRead, At, NamesExist, Exists, TypeOK
  <2>. QED
      BY <1>2, <1>5, <1>6, <2>1 DEF Get, TerminalRead, WorkerPC
<1>7. ASSUME NEW w \in Worker, Start(w)
      PROVE  worker' \in [Worker -> Work]
  <2>1. ASSUME NEW r \in Run, worker' = [worker EXCEPT ![w].pc = "diagnose", ![w].run = r]
        PROVE  worker' \in [Worker -> Work]
    <3>1. [worker[w] EXCEPT !.pc = "diagnose", !.run = r] \in Work
        BY EntryOf DEF Work, WorkerPC
    <3>2. worker' = [worker EXCEPT ![w] = [worker[w] EXCEPT !.pc = "diagnose", !.run = r]]
        BY <2>1, EntryOf
    <3>. QED
        BY <1>1, <3>1, <3>2
  <2>. QED
      BY <1>2, <1>7, <2>1 DEF Start, FreshRuns, WorkerPC
<1>8. ASSUME NEW w \in Worker, Disconnect(w)
      PROVE  worker' \in [Worker -> Work]
  <2>1. [worker[w] EXCEPT !.msg = None] \in Work
      BY EntryOf DEF Work
  <2>2. worker' = [worker EXCEPT ![w] = [worker[w] EXCEPT !.msg = None]]
      BY <1>8, EntryOf DEF Disconnect
  <2>. QED
      BY <1>1, <2>1, <2>2
<1>9. ASSUME NEW w \in Worker, RouteFails(w) \/ Ack(w) \/ Crash(w)
      PROVE  worker' \in [Worker -> Work]
    BY <1>1, <1>3, <1>9 DEF RouteFails, Ack, Crash
<1>10. ASSUME NEW w \in Worker,
              \/ ListRuns(w) \/ Analyze(w) \/ AnalyzeFails(w) \/ StartFails(w) \/ Conclude(w)
              \/ Complete(w) \/ Fail(w) \/ Route(w) \/ TerminalWrite(w)
       PROVE  worker' \in [Worker -> Work]
    BY <1>2, <1>10 DEF ListRuns, Analyze, AnalyzeFails, StartFails, Conclude, Complete, Fail, Route,
       TerminalWrite, WorkerPC
<1>11. CASE UNCHANGED worker
    BY <1>11, EntryOf
<1>. QED
    BY <1>4, <1>6, <1>7, <1>8, <1>9, <1>10, <1>11
    DEF Next, vars, ApiCall, ApiStep, WorkerStep, AnalyzeCall, Fire, Insert, InsertFails,
        Refetch, CheckRuns, Publish, PublishFails, ApiCrash, RequestApproval, RetryExpires,
        OutsideMove

(* What Create does about the incident it finds is about that incident.    *)
LEMMA DuplicateEffect ==
    ASSUME TypeOK, NEW c \in Api, NEW i \in Incident, NEW via \in {"webhook", "create", "analyze"},
           Duplicate(c, i, via)
    PROVE  /\ api' \in [Api -> Call] /\ OnlyApi(c)
           /\ \/ api'[c] = NoApi /\ accepted' = accepted
              \/ api'[c] = NoApi /\ accepted' = accepted \cup {i} /\ status[i] # "OPEN"
              \/ api'[c] = [pc |-> "runs", inc |-> i, via |-> via] /\ status[i] = "OPEN" /\ accepted' = accepted
<1>1. CASE via = "create"
  <2>1. Return(c) /\ accepted' = accepted
      BY <1>1 DEF Duplicate
  <2>. QED
      BY <2>1, ReturnEffect
<1>2. CASE via # "create" /\ status[i] = "OPEN"
    BY <1>2, ServeEffect DEF Duplicate
<1>3. CASE via # "create" /\ status[i] # "OPEN"
    BY <1>3, ReturnEffect DEF Duplicate, Accept
<1>. QED
    BY <1>1, <1>2, <1>3

(* The calls and what was accepted.                                        *)
LEMMA CallsTyped ==
    ASSUME TypeOK, CallsOK, [Next]_vars
    PROVE  api' \in [Api -> Call] /\ accepted' \subseteq Incident
<1>0. accepted \subseteq Incident
    BY DEF TypeOK
<1>1. ASSUME NEW c \in Api, NEW i \in Incident, NEW via \in {"webhook", "create"}, Fire(c, i, via)
      PROVE  api' \in [Api -> Call] /\ accepted' \subseteq Incident
  <2>1. CASE \E j \in Incident : Duplicate(c, j, via)
      BY <1>0, <2>1, DuplicateEffect
  <2>2. CASE Serve(c, "insert", i, via) /\ UNCHANGED accepted
      BY <1>0, <2>2, ServeEffect
  <2>. QED
      BY <1>1, <2>1, <2>2 DEF Fire
<1>2. ASSUME NEW c \in Api, NEW i \in Incident, AnalyzeCall(c, i)
      PROVE  api' \in [Api -> Call] /\ accepted' \subseteq Incident
    BY <1>0, <1>2, ServeEffect, EntryOf DEF AnalyzeCall
<1>3. ASSUME NEW c \in Api, Refetch(c)
      PROVE  api' \in [Api -> Call] /\ accepted' \subseteq Incident
  <2>1. api[c].via \in {"webhook", "create", "analyze"}
      BY <1>3, EntryOf DEF Refetch, CallsOK, ApiAt, Call
  <2>. QED
      BY <1>0, <1>3, <2>1, DuplicateEffect, ReturnEffect DEF Refetch
<1>4. ASSUME NEW c \in Api,
             Insert(c) \/ InsertFails(c) \/ CheckRuns(c) \/ Publish(c) \/ PublishFails(c) \/ ApiCrash(c)
      PROVE  api' \in [Api -> Call] /\ accepted' \subseteq Incident
  <2>1. api[c].inc \in Incident
      BY <1>4 DEF Insert, InsertFails, CheckRuns, Publish, PublishFails, ApiCrash, CallsOK, ApiAt
  <2>. QED
      BY <1>0, <1>4, <2>1, ApiGotoEffect, ReturnEffect
      DEF Insert, InsertFails, CheckRuns, Publish, PublishFails, ApiCrash, Accept
<1>5. CASE UNCHANGED <<api, accepted>>
    BY <1>0, <1>5, EntryOf
<1>. QED
    BY <1>1, <1>2, <1>3, <1>4, <1>5
    DEF Next, vars, ApiCall, ApiStep, WorkerStep, Deliver, Get, ListRuns, Analyze,
        AnalyzeFails, Start, StartFails, RequestApproval, Conclude, Complete, Fail, Route,
        RouteFails, TerminalRead, TerminalWrite, Ack, Crash, Disconnect, RetryExpires, OutsideMove

(* A step strikes with at most one fault, and nothing is taken back.       *)
LEMMA FaultsOnlyStrike ==
    ASSUME TypeOK, NamesExist, [Next]_vars
    PROVE  faults' \in 0 .. MaxFaults /\ stranded' \subseteq Incident /\ stranded \subseteq stranded'
<1>. DEFINE OneFault == NoFault \/ \E kind, about : about \subseteq Incident /\ FaultAbout(kind, about)
<1>1. ASSUME NEW kind, Fault(kind) PROVE OneFault
    BY <1>1 DEF Fault
<1>2. ASSUME NEW c \in Api, ApiCall(c) \/ ApiStep(c) \/ ApiCrash(c) PROVE OneFault
  <2>1. CASE \E i \in Incident : AnalyzeCall(c, i)
      BY <1>1, <2>1 DEF AnalyzeCall
  <2>2. CASE PublishFails(c) \/ ApiCrash(c)
      BY <1>1, <2>2 DEF PublishFails, ApiCrash, AnalyzedBy
  <2>. HIDE DEF OneFault
  <2>3. NoFault => OneFault
      BY DEF OneFault
  <2>. QED
      BY <1>1, <1>2, <2>1, <2>2, <2>3 DEF ApiCall, ApiStep, Fire, Insert, InsertFails, Refetch, CheckRuns, Publish
<1>3. ASSUME NEW w \in Worker, Disconnect(w) PROVE OneFault
    BY <1>3 DEF Disconnect, NamesExist, Exists
<1>. HIDE DEF OneFault
<1>4. NoFault => OneFault
    BY DEF OneFault
<1>5. ASSUME NEW w \in Worker,
             \/ Get(w) \/ ListRuns(w) \/ Analyze(w) \/ AnalyzeFails(w) \/ Start(w) \/ StartFails(w)
             \/ RequestApproval(w) \/ Conclude(w) \/ Complete(w)
      PROVE OneFault
    BY <1>1, <1>4, <1>5 DEF Get, ListRuns, Analyze, AnalyzeFails, Start, StartFails, RequestApproval,
       Conclude, Complete
<1>6. ASSUME NEW w \in Worker,
             \/ Fail(w) \/ Route(w) \/ RouteFails(w) \/ TerminalRead(w) \/ TerminalWrite(w)
             \/ Ack(w) \/ Crash(w) \/ \E m \in Msg : Deliver(w, m)
      PROVE OneFault
    BY <1>1, <1>4, <1>6 DEF Fail, Route, RouteFails, TerminalRead, TerminalWrite, Ack, Crash, Deliver
<1>7. ASSUME (\E m \in Msg : RetryExpires(m)) \/ (\E i \in Incident : OutsideMove(i))
      PROVE OneFault
    BY <1>4, <1>7 DEF RetryExpires, OutsideMove
<1>8. ASSUME UNCHANGED vars PROVE OneFault
    BY <1>4, <1>8 DEF vars, NoFault
<1>9. OneFault
    BY <1>2, <1>3, <1>5, <1>6, <1>7, <1>8 DEF Next, WorkerStep
<1>. QED
    BY <1>9, FaultEffect DEF OneFault

LEMMA TypeKept ==
    ASSUME TypeOK, CallsOK, NamesExist, FailsOnlyLive, [Next]_vars
    PROVE  TypeOK'
<1>. QED
    BY FaultsOnlyStrike, StatusOnlyMoves, MessagesTyped, RunsTyped, WorkersTyped, CallsTyped
    DEF TypeOK, Message, Row, Work, Call

-----------------------------------------------------------------------------
(* CallsOK.                                                                *)

(* A step that gives c another entry keeps it if that entry is in order.   *)
LEMMA CallStep ==
    ASSUME TypeOK, CallsOK, StatusMoves, NEW c \in Api, OnlyApi(c),
           api'[c].pc # "idle" => api'[c].inc \in Incident /\ api'[c].via # "none",
           api'[c].pc = "insert" =>
              /\ status'[api'[c].inc] = "ABSENT"
              /\ \A d \in Api : ~(ApiAt(d, "insert") /\ api[d].inc = api'[c].inc),
           api'[c].pc \in {"runs", "publish"} => status'[api'[c].inc] # "ABSENT"
    PROVE  CallsOK'
<1>1. \A d \in Api \ {c} : ApiAt(d, "insert") => status'[api[d].inc] = "ABSENT"
  <2>. TAKE d \in Api \ {c}
  <2>. HAVE ApiAt(d, "insert")
  <2>. DEFINE i == api[d].inc
  <2>1. i \in Incident /\ status[i] = "ABSENT"
      BY DEF CallsOK, ApiAt
  <2>2. CASE status'[i] = status[i]
      BY <2>1, <2>2
  <2>3. CASE \E e \in Api : ApiAt(e, "insert") /\ api[e].inc = i /\ api'[e].pc # "insert"
      BY <2>3 DEF CallsOK, OnlyApi, ApiAt
  <2>. QED
      BY <2>1, <2>2, <2>3 DEF StatusMoves, Live
<1>2. \A d \in Api \ {c} : api[d].pc \in {"runs", "publish"} => status'[api[d].inc] # "ABSENT"
    BY DEF CallsOK, Exists, StatusMoves, Status
<1>. QED
    BY <1>1, <1>2 DEF CallsOK, OnlyApi, ApiAt, Exists

(* Three ways to meet its conditions: the call ends, it goes on about an   *)
(* incident that exists, and nothing happens to it.                        *)
LEMMA CallEnds ==
    ASSUME TypeOK, CallsOK, StatusMoves, NEW c \in Api, Return(c)
    PROVE  CallsOK'
BY ReturnEffect, CallStep DEF NoApi

LEMMA CallGoesOn ==
    ASSUME TypeOK, CallsOK, StatusMoves, NEW c \in Api, OnlyApi(c),
           api'[c].inc \in Incident, api'[c].via # "none", api'[c].pc # "insert",
           api'[c].pc # "refetch" => status'[api'[c].inc] # "ABSENT"
    PROVE  CallsOK'
BY CallStep

LEMMA CallsUntouched ==
    ASSUME TypeOK, CallsOK, StatusMoves, UNCHANGED api
    PROVE  CallsOK'
<1>2. ASSUME NEW c \in Api, ApiAt(c, "insert")
      PROVE  status'[api[c].inc] = "ABSENT"
  <2>1. api[c].inc \in Incident /\ status[api[c].inc] = "ABSENT"
      BY <1>2 DEF CallsOK, ApiAt
  <2>2. ~\E d \in Api : ApiAt(d, "insert") /\ api[d].inc = api[c].inc /\ api'[d].pc # "insert"
      BY DEF ApiAt
  <2>. QED
      BY <2>1, <2>2 DEF StatusMoves, Live
<1>3. \A c \in Api : api[c].pc \in {"runs", "publish"} => status'[api[c].inc] # "ABSENT"
    BY DEF CallsOK, Exists, StatusMoves, Status
<1>. QED
    BY <1>2, <1>3 DEF CallsOK, ApiAt, Exists

LEMMA CallsKept ==
    ASSUME TypeOK, CallsOK, FailsOnlyLive, [Next]_vars
    PROVE  CallsOK'
<1>1. StatusMoves
    BY StatusOnlyMoves
<1>2. \A i \in Incident : status[i] # "ABSENT" => status'[i] # "ABSENT"
    BY <1>1 DEF StatusMoves, Status
<1>3. ASSUME NEW c \in Api, NEW j \in Incident, NEW via \in {"webhook", "create", "analyze"},
             Duplicate(c, j, via)
      PROVE  CallsOK'
  <2>1. CASE api'[c] = NoApi
    <3>1. OnlyApi(c)
        BY <1>3, DuplicateEffect
    <3>. QED
        BY <1>1, <2>1, <3>1, CallStep DEF NoApi
  <2>2. CASE api'[c] = [pc |-> "runs", inc |-> j, via |-> via] /\ status[j] = "OPEN"
    <3>1. OnlyApi(c)
        BY <1>3, DuplicateEffect
    <3>2. /\ api'[c].inc = j /\ api'[c].via = via /\ api'[c].pc = "runs"
          /\ status'[j] # "ABSENT"
        BY <1>2, <2>2
    <3>. QED
        BY <1>1, <3>1, <3>2, CallGoesOn
  <2>. QED
      BY <1>3, <2>1, <2>2, DuplicateEffect
<1>4. ASSUME NEW c \in Api, NEW i \in Incident, NEW via \in {"webhook", "create"}, Fire(c, i, via)
      PROVE  CallsOK'
  <2>1. CASE \E j \in Incident : Duplicate(c, j, via)
      BY <1>3, <2>1
  <2>2. CASE /\ Serve(c, "insert", i, via) /\ status[i] = "ABSENT" /\ UNCHANGED status
             /\ \A d \in Api : ~(ApiAt(d, "insert") /\ api[d].inc = i)
    <3>1. OnlyApi(c) /\ api'[c] = [pc |-> "insert", inc |-> i, via |-> via]
        BY <2>2, ServeEffect
    <3>2. /\ api'[c].inc = i /\ api'[c].via = via /\ api'[c].pc = "insert"
          /\ status'[i] = "ABSENT"
        BY <2>2, <3>1
    <3>. QED
        BY <1>1, <2>2, <3>1, <3>2, CallStep
  <2>. QED
      BY <1>4, <2>1, <2>2 DEF Fire
<1>5. ASSUME NEW c \in Api, NEW i \in Incident, AnalyzeCall(c, i)
      PROVE  CallsOK'
  <2>1. status[i] = "OPEN"
      BY <1>5 DEF AnalyzeCall
  <2>2. CASE Serve(c, "publish", i, "analyze")
    <3>1. OnlyApi(c) /\ api'[c] = [pc |-> "publish", inc |-> i, via |-> "analyze"]
        BY <2>2, ServeEffect
    <3>2. /\ api'[c].inc = i /\ api'[c].via = "analyze" /\ api'[c].pc = "publish"
          /\ status'[i] # "ABSENT"
        BY <1>2, <2>1, <3>1
    <3>. QED
        BY <1>1, <3>1, <3>2, CallGoesOn
  <2>. QED
      BY <1>1, <1>5, <2>2, CallsUntouched DEF AnalyzeCall
<1>6. ASSUME NEW c \in Api, ~ApiAt(c, "idle"), NEW label \in {"refetch", "publish"}, ApiGoto(c, label),
             label = "publish" => status'[api[c].inc] # "ABSENT"
      PROVE  CallsOK'
  <2>1. OnlyApi(c) /\ api'[c] = [api[c] EXCEPT !.pc = label] /\ api[c] \in Call
      BY <1>6, ApiGotoEffect, EntryOf
  <2>2. api'[c].inc = api[c].inc /\ api'[c].via = api[c].via /\ api'[c].pc = label
      BY <2>1 DEF Call
  <2>3. api[c].inc \in Incident /\ api[c].via # "none"
      BY <1>6 DEF CallsOK
  <2>. QED
      BY <1>1, <1>6, <2>1, <2>2, <2>3, CallGoesOn
<1>7. ASSUME NEW c \in Api, Insert(c) PROVE CallsOK'
  <2>1. ~ApiAt(c, "idle") /\ api[c].inc \in Incident
      BY <1>7 DEF Insert, ApiAt, CallsOK
  <2>2. CASE Return(c)
      BY <1>1, <2>2, CallEnds
  <2>3. CASE ApiGoto(c, "publish") /\ status' = [status EXCEPT ![api[c].inc] = "OPEN"]
    <3>1. status'[api[c].inc] # "ABSENT"
        BY <2>1, <2>3 DEF TypeOK
    <3>. QED
        BY <1>6, <2>1, <2>3, <3>1
  <2>4. CASE ApiGoto(c, "refetch")
      BY <1>6, <2>1, <2>4
  <2>. QED
      BY <1>7, <2>2, <2>3, <2>4 DEF Insert
<1>8. ASSUME NEW c \in Api, Refetch(c) PROVE CallsOK'
  <2>1. api[c].via \in {"webhook", "create", "analyze"}
      BY <1>8, EntryOf DEF Refetch, CallsOK, ApiAt, Call
  <2>. QED
      BY <1>1, <1>3, <1>8, <2>1, CallEnds DEF Refetch
<1>9. ASSUME NEW c \in Api, CheckRuns(c) PROVE CallsOK'
  <2>1. /\ ~ApiAt(c, "idle") /\ api[c].inc \in Incident /\ status[api[c].inc] # "ABSENT"
      BY <1>9 DEF CheckRuns, ApiAt, CallsOK, Exists
  <2>2. CASE Return(c)
      BY <1>1, <2>2, CallEnds
  <2>3. CASE ApiGoto(c, "publish")
      BY <1>2, <1>6, <2>1, <2>3
  <2>. QED
      BY <1>9, <2>2, <2>3 DEF CheckRuns, Accept
<1>10. ASSUME NEW c \in Api, InsertFails(c) \/ Publish(c) \/ PublishFails(c) \/ ApiCrash(c)
       PROVE  CallsOK'
    BY <1>1, <1>10, CallEnds DEF InsertFails, Publish, PublishFails, ApiCrash, Accept
<1>11. CASE UNCHANGED api
    BY <1>1, <1>11, CallsUntouched
<1>. QED
    BY <1>4, <1>5, <1>7, <1>8, <1>9, <1>10, <1>11
    DEF Next, vars, ApiCall, ApiStep, WorkerStep, Deliver, Get, ListRuns, Analyze,
        AnalyzeFails, Start, StartFails, RequestApproval, Conclude, Complete, Fail, Route,
        RouteFails, TerminalRead, TerminalWrite, Ack, Crash, Disconnect, RetryExpires, OutsideMove

-----------------------------------------------------------------------------
(* What a step does to a worker, a message and a run.                      *)

GoesOn(w) ==
    /\ ~At(w, "idle") /\ worker'[w].pc # "idle" /\ worker'[w].inc = worker[w].inc
    /\ worker'[w].msg = worker[w].msg \/ (worker'[w].msg = None /\ IncOf(w) \in stranded')

TakesDelivery(w) ==
    /\ At(w, "idle") /\ OnlyWorker(w)
    /\ \E m \in Msg : /\ msg[m].at = "main" /\ msg' = [msg EXCEPT ![m].at = "unacked"]
                      /\ worker'[w] = [NoWork EXCEPT !.pc = "get", !.msg = m, !.inc = msg[m].inc]

WorkersMove ==
    \A w \in Worker :
        worker'[w] = worker[w] \/ worker'[w] = NoWork \/ GoesOn(w) \/ TakesDelivery(w)

(* Goto and Leave to a step of the delivery's handling.                    *)
LEMMA HandlingGoesOn ==
    ASSUME TypeOK, NEW w \in Worker, NEW label \in WorkerPC \ {"idle"}, ~At(w, "idle"),
           Goto(w, label) \/ Leave(w, label)
    PROVE  WorkersMove
<1>1. OnlyWorker(w) /\ worker[w] \in Work
    BY EntryOf, GotoEffect, LeaveEffect
<1>2. CASE Goto(w, label)
  <2>1. worker'[w] = [worker[w] EXCEPT !.pc = label, !.saw = "ABSENT"]
      BY <1>2, GotoEffect
  <2>2. GoesOn(w)
      BY <1>1, <2>1 DEF GoesOn, Work
  <2>. QED
      BY <1>1, <2>2 DEF WorkersMove, OnlyWorker
<1>3. CASE Leave(w, label)
  <2>1. worker'[w] = [worker[w] EXCEPT !.pc = label, !.run = None]
      BY <1>3, LeaveEffect
  <2>2. GoesOn(w)
      BY <1>1, <2>1 DEF GoesOn, Work
  <2>. QED
      BY <1>1, <2>2 DEF WorkersMove, OnlyWorker
<1>. QED
    BY <1>2, <1>3

LEMMA WorkersOnlyMove ==
    ASSUME TypeOK, [Next]_vars
    PROVE  WorkersMove
<1>0. worker \in [Worker -> Work]
    BY EntryOf
<1>1. ASSUME NEW w \in Worker, NEW m \in Msg, Deliver(w, m)
      PROVE  WorkersMove
  <2>1. worker'[w] = [NoWork EXCEPT !.pc = "get", !.msg = m, !.inc = msg[m].inc] /\ OnlyWorker(w)
      BY <1>0, <1>1 DEF Deliver, OnlyWorker
  <2>2. TakesDelivery(w)
      BY <1>1, <2>1 DEF Deliver, TakesDelivery
  <2>. QED
      BY <2>1, <2>2 DEF WorkersMove, OnlyWorker
<1>3. ASSUME NEW w \in Worker, Get(w) \/ TerminalRead(w), NEW label \in {"list", "terminalWrite"},
             worker' = [worker EXCEPT ![w].pc = label, ![w].saw = status[IncOf(w)]]
      PROVE  WorkersMove
  <2>1. OnlyWorker(w) /\ worker'[w] = [worker[w] EXCEPT !.pc = label, !.saw = status[IncOf(w)]]
      BY <1>0, <1>3 DEF OnlyWorker
  <2>2. worker[w] \in Work /\ ~At(w, "idle")
      BY <1>3, EntryOf DEF Get, TerminalRead, At
  <2>3. GoesOn(w)
      BY <2>1, <2>2 DEF GoesOn, Work
  <2>. QED
      BY <2>1, <2>3 DEF WorkersMove, OnlyWorker
<1>4. ASSUME NEW w \in Worker, At(w, "start"), NEW r \in Run,
             worker' = [worker EXCEPT ![w].pc = "diagnose", ![w].run = r]
      PROVE  WorkersMove
  <2>1. OnlyWorker(w) /\ worker'[w] = [worker[w] EXCEPT !.pc = "diagnose", !.run = r]
      BY <1>0, <1>4 DEF OnlyWorker
  <2>2. worker[w] \in Work /\ ~At(w, "idle")
      BY <1>4, EntryOf DEF At
  <2>3. GoesOn(w)
      BY <2>1, <2>2 DEF GoesOn, Work
  <2>. QED
      BY <2>1, <2>3 DEF WorkersMove, OnlyWorker
<1>5. ASSUME NEW w \in Worker, Disconnect(w)
      PROVE  WorkersMove
  <2>1. OnlyWorker(w) /\ worker'[w] = [worker[w] EXCEPT !.msg = None]
      BY <1>0, <1>5 DEF OnlyWorker, Disconnect
  <2>2. worker[w] \in Work /\ ~At(w, "idle") /\ IncOf(w) \in stranded'
      BY <1>5, EntryOf DEF Disconnect, FaultAbout
  <2>3. GoesOn(w)
      BY <2>1, <2>2 DEF GoesOn, Work, At
  <2>. QED
      BY <2>1, <2>3 DEF WorkersMove, OnlyWorker
<1>6. ASSUME NEW w \in Worker, RouteFails(w) \/ Ack(w) \/ Crash(w)
      PROVE  WorkersMove
    BY <1>0, <1>6 DEF WorkersMove, RouteFails, Ack, Crash
<1>7. ASSUME NEW w \in Worker,
             \/ ListRuns(w) \/ Analyze(w) \/ AnalyzeFails(w) \/ StartFails(w) \/ Conclude(w)
             \/ Complete(w) \/ Fail(w) \/ Route(w) \/ TerminalWrite(w)
      PROVE  WorkersMove
  <2>1. ~At(w, "idle")
      BY <1>7 DEF ListRuns, Analyze, AnalyzeFails, StartFails, Conclude, Complete, Fail, Route,
         TerminalWrite, At
  <2>2. \E label \in WorkerPC \ {"idle"} : Goto(w, label) \/ Leave(w, label)
      BY <1>7 DEF ListRuns, Analyze, AnalyzeFails, StartFails, Conclude, Complete, Fail, Route,
         TerminalWrite, WorkerPC
  <2>. QED
      BY <2>1, <2>2, HandlingGoesOn
<1>8. ASSUME NEW w \in Worker, Get(w) \/ TerminalRead(w)
      PROVE  WorkersMove
  <2>1. ~At(w, "idle")
      BY <1>8 DEF Get, TerminalRead, At
  <2>2. \A label \in {"ack", "route"} : Goto(w, label) => WorkersMove
      BY <2>1, HandlingGoesOn DEF WorkerPC
  <2>. QED
      BY <1>3, <1>8, <2>2 DEF Get, TerminalRead
<1>9. ASSUME NEW w \in Worker, Start(w)
      PROVE  WorkersMove
  <2>1. ~At(w, "idle")
      BY <1>9 DEF Start, At
  <2>2. Goto(w, "route") => WorkersMove
      BY <2>1, HandlingGoesOn DEF WorkerPC
  <2>. QED
      BY <1>4, <1>9, <2>2 DEF Start, FreshRuns
<1>10. CASE UNCHANGED worker
    BY <1>10 DEF WorkersMove
<1>. QED
    BY <1>1, <1>5, <1>6, <1>7, <1>8, <1>9, <1>10
    DEF Next, vars, ApiCall, ApiStep, WorkerStep, AnalyzeCall, Fire, Insert, InsertFails,
        Refetch, CheckRuns, Publish, PublishFails, ApiCrash, RequestApproval, RetryExpires,
        OutsideMove

MessageKept(m) == msg'[m] = msg[m]
NewMessage(m) ==
    /\ msg[m].at = "none" /\ msg'[m].at \in {"main", "retry", "dlq"}
    /\ Exists(msg'[m].inc)
Delivered(m) == msg[m].at = "main" /\ msg'[m].at = "unacked" /\ msg'[m].inc = msg[m].inc
TimeUp(m) == msg[m].at = "retry" /\ msg'[m].at = "main" /\ msg'[m].inc = msg[m].inc
Settled(m) ==
    \E w \in Worker :
        /\ worker[w].msg = m /\ worker'[w].msg = None
        /\ \/ msg'[m].at = "main" /\ msg'[m].inc = msg[m].inc
           \/ msg'[m].at = "none" /\ At(w, "ack")

MessagesMove ==
    \A m \in Msg : MessageKept(m) \/ NewMessage(m) \/ Delivered(m) \/ TimeUp(m) \/ Settled(m)

LEMMA MessagesOnlyMove ==
    ASSUME TypeOK, CallsOK, NamesExist, DeliveriesHeld, [Next]_vars
    PROVE  MessagesMove
<1>0. msg \in [Msg -> Message] /\ worker \in [Worker -> Work]
    BY EntryOf, MessageEffects
<1>1. \A m \in Msg, q \in {"main", "unacked"} :
         [msg[m] EXCEPT !.at = q].at = q /\ [msg[m] EXCEPT !.at = q].inc = msg[m].inc
    BY <1>0 DEF Message
<1>2. ASSUME NEW c \in Api, ApiAt(c, "publish"), Enqueue(api[c].inc)
      PROVE  MessagesMove
  <2>1. Exists(api[c].inc)
      BY <1>2 DEF CallsOK, ApiAt
  <2>. QED
      BY <1>0, <1>2, <2>1 DEF Enqueue, FreeSlots, MessagesMove, MessageKept, NewMessage
<1>3. ASSUME NEW w \in Worker, NEW m \in Msg, Deliver(w, m)
      PROVE  MessagesMove
    BY <1>0, <1>1, <1>3 DEF Deliver, MessagesMove, MessageKept, Delivered
<1>4. ASSUME NEW m \in Msg, RetryExpires(m)
      PROVE  MessagesMove
    BY <1>0, <1>1, <1>4 DEF RetryExpires, MessagesMove, MessageKept, TimeUp
<1>5. ASSUME NEW w \in Worker, Holds(w)
      PROVE  /\ worker[w].msg \in Msg /\ msg[worker[w].msg].at = "unacked"
             /\ Copy(w).inc = IncOf(w) /\ Copy(w).at \in {"retry", "dlq"}
             /\ Exists(IncOf(w)) /\ ~At(w, "idle")
  <2>1. /\ worker[w].msg \in Msg /\ msg[worker[w].msg].at = "unacked" /\ ~At(w, "idle")
        /\ msg[worker[w].msg].inc = IncOf(w)
      BY <1>5 DEF DeliveriesHeld
  <2>2. msg[worker[w].msg] \in Message
      BY <1>0, <2>1
  <2>3. Copy(w).inc = msg[worker[w].msg].inc /\ Copy(w).at \in {"retry", "dlq"}
      BY <2>2 DEF Copy, Message
  <2>. QED
      BY <2>1, <2>3 DEF NamesExist
<1>6. ASSUME NEW w \in Worker, Route(w)
      PROVE  MessagesMove
    BY <1>0, <1>5, <1>6 DEF Route, FreeSlots, MessagesMove, MessageKept, NewMessage
<1>7. ASSUME NEW w \in Worker, Holds(w), worker'[w].msg = None,
             msg' = [msg EXCEPT ![worker[w].msg].at = "main"]
      PROVE  MessagesMove
    BY <1>0, <1>1, <1>5, <1>7 DEF MessagesMove, MessageKept, Settled
<1>8. ASSUME NEW w \in Worker, RouteFails(w)
      PROVE  MessagesMove
  <2>1. worker'[w].msg = None
      BY <1>0, <1>8 DEF RouteFails, NoWork
  <2>2. CASE UNCHANGED msg
      BY <2>2 DEF MessagesMove, MessageKept
  <2>3. CASE Holds(w) /\ msg' = [msg EXCEPT ![worker[w].msg].at = "main"]
      BY <1>7, <2>1, <2>3
  <2>4. CASE /\ Holds(w)
             /\ \E m \in FreeSlots :
                   msg' = [[msg EXCEPT ![worker[w].msg].at = "main"] EXCEPT ![m] = Copy(w)]
    <3>1. PICK m \in FreeSlots :
             msg' = [[msg EXCEPT ![worker[w].msg].at = "main"] EXCEPT ![m] = Copy(w)]
        BY <2>4
    <3>2. m \in Msg /\ msg[m].at = "none"
        BY <3>1 DEF FreeSlots
    <3>3. msg'[m] = Copy(w) /\ m # worker[w].msg
        BY <1>0, <1>5, <2>4, <3>1, <3>2
    <3>4. msg'[worker[w].msg] = [msg[worker[w].msg] EXCEPT !.at = "main"]
        BY <1>0, <1>5, <2>4, <3>1, <3>2, <3>3
    <3>5. \A n \in Msg \ {m, worker[w].msg} : msg'[n] = msg[n]
        BY <1>0, <3>1
    <3>6. NewMessage(m)
        BY <1>5, <2>4, <3>2, <3>3 DEF NewMessage
    <3>7. Settled(worker[w].msg)
        BY <1>1, <1>5, <2>1, <2>4, <3>4 DEF Settled
    <3>. QED
        BY <3>5, <3>6, <3>7 DEF MessagesMove, MessageKept
  <2>. QED
      BY <1>8, <2>2, <2>3, <2>4 DEF RouteFails
<1>9. ASSUME NEW w \in Worker, Crash(w) \/ Disconnect(w)
      PROVE  MessagesMove
  <2>1. worker'[w].msg = None
      BY <1>0, <1>9 DEF Crash, Disconnect, NoWork, Work
  <2>2. CASE Holds(w)
      BY <1>7, <1>9, <2>1, <2>2 DEF Crash, Disconnect, Requeue
  <2>3. CASE ~Holds(w)
      BY <1>9, <2>3 DEF Crash, Disconnect, Requeue, MessagesMove, MessageKept
  <2>. QED
      BY <2>2, <2>3
<1>10. ASSUME NEW w \in Worker, Ack(w)
       PROVE  MessagesMove
  <2>1. worker'[w].msg = None /\ At(w, "ack")
      BY <1>0, <1>10 DEF Ack, NoWork
  <2>2. CASE Holds(w)
    <3>1. msg' = [msg EXCEPT ![worker[w].msg] = NoMsg]
        BY <1>10, <2>2 DEF Ack
    <3>. QED
        BY <1>0, <1>5, <2>1, <2>2, <3>1 DEF NoMsg, MessagesMove, MessageKept, Settled
  <2>3. CASE ~Holds(w)
      BY <1>10, <2>3 DEF Ack, MessagesMove, MessageKept
  <2>. QED
      BY <2>2, <2>3
<1>11. ASSUME NEW c \in Api, Publish(c) \/ PublishFails(c)
       PROVE  MessagesMove
    BY <1>2, <1>11 DEF Publish, PublishFails, MessagesMove, MessageKept
<1>12. CASE UNCHANGED msg
    BY <1>12 DEF MessagesMove, MessageKept
<1>. QED
    BY <1>3, <1>4, <1>6, <1>8, <1>9, <1>10, <1>11, <1>12
    DEF Next, vars, ApiCall, ApiStep, WorkerStep, AnalyzeCall, Fire, Insert, InsertFails,
        Refetch, CheckRuns, ApiCrash, Get, ListRuns, Analyze, AnalyzeFails, Start, StartFails,
        RequestApproval, Conclude, Complete, Fail, TerminalRead, TerminalWrite, OutsideMove

(* What may be accepted by a step: an alert known to be handled, or one    *)
(* whose message the step publishes.                                       *)
NewlyAccepted(i) ==
    /\ i \in Incident /\ Exists(i) /\ UNCHANGED <<status, run, worker>>
    /\ \/ status[i] # "OPEN" /\ Live(i)
       \/ ActiveRuns(i) # {}
       \/ \E m \in Msg : msg[m].at = "none" /\ msg'[m].at = "main" /\ msg'[m].inc = i

AcceptedMoves ==
    /\ accepted \subseteq accepted'
    /\ \A i \in accepted' \ accepted : NewlyAccepted(i)

LEMMA AcceptedOnlyMoves ==
    ASSUME TypeOK, CallsOK, [Next]_vars
    PROVE  AcceptedMoves
<1>1. ASSUME NEW c \in Api, NEW j \in Incident, NEW via \in {"webhook", "create", "analyze"},
             Duplicate(c, j, via), Live(j), UNCHANGED <<status, run, worker>>
      PROVE  AcceptedMoves
  <2>1. accepted' = accepted \/ (accepted' = accepted \cup {j} /\ status[j] # "OPEN")
      BY <1>1, DuplicateEffect
  <2>2. Exists(j)
      BY <1>1 DEF Exists, Live
  <2>. QED
      BY <1>1, <2>1, <2>2 DEF AcceptedMoves, NewlyAccepted
<1>2. ASSUME NEW c \in Api, NEW i \in Incident, NEW via \in {"webhook", "create"}, Fire(c, i, via)
      PROVE  AcceptedMoves
    BY <1>1, <1>2 DEF Fire, AcceptedMoves
<1>3. ASSUME NEW c \in Api, Refetch(c)
      PROVE  AcceptedMoves
  <2>1. api[c].via \in {"webhook", "create", "analyze"}
      BY <1>3, EntryOf DEF Refetch, CallsOK, ApiAt, Call
  <2>. QED
      BY <1>1, <1>3, <2>1 DEF Refetch, AcceptedMoves
<1>4. ASSUME NEW c \in Api, CheckRuns(c)
      PROVE  AcceptedMoves
    BY <1>4 DEF CheckRuns, CallsOK, ApiAt, Accept, AcceptedMoves, NewlyAccepted, Exists
<1>5. ASSUME NEW c \in Api, Publish(c)
      PROVE  AcceptedMoves
  <2>. DEFINE i == api[c].inc
  <2>1. Exists(i)
      BY <1>5 DEF Publish, CallsOK, ApiAt
  <2>2. PICK m \in FreeSlots : msg' = [msg EXCEPT ![m] = [at |-> "main", inc |-> i, retries |-> 0]]
      BY <1>5 DEF Publish, Enqueue
  <2>3. m \in Msg /\ msg[m].at = "none" /\ msg'[m].at = "main" /\ msg'[m].inc = i
      BY <2>2, MessageEffects DEF FreeSlots
  <2>. HIDE DEF i
  <2>4. accepted' = accepted \/ accepted' = accepted \cup {i}
      BY <1>5 DEF Publish, Accept, i
  <2>. QED
      BY <1>5, <2>1, <2>3, <2>4 DEF Publish, AcceptedMoves, NewlyAccepted, Exists
<1>6. CASE UNCHANGED accepted
    BY <1>6 DEF AcceptedMoves
<1>. QED
    BY <1>2, <1>3, <1>4, <1>5, <1>6
    DEF Next, vars, ApiCall, ApiStep, WorkerStep, AnalyzeCall, Insert, InsertFails,
        PublishFails, ApiCrash, Deliver, Get, ListRuns, Analyze, AnalyzeFails, Start, StartFails,
        RequestApproval, Conclude, Complete, Fail, Route, RouteFails, TerminalRead,
        TerminalWrite, Ack, Crash, Disconnect, RetryExpires, OutsideMove

(* A run is created for an incident that has no active one by a worker     *)
(* that then diagnoses it or has its attempt failed, completed, or failed  *)
(* by the worker that gives it up; one row at a time.                      *)
CreatedFor(w, r) ==
    /\ At(w, "start") /\ ActiveRuns(IncOf(w)) = {} /\ r \in FreshRuns
    /\ run'[r] = [inc |-> IncOf(w), st |-> "RUNNING"]
    /\ worker'[w].pc \in {"diagnose", "route"} /\ worker'[w].inc = IncOf(w)
    /\ worker'[w].pc = "diagnose" => worker'[w].run = r
CompletedBy(w, r) ==
    /\ At(w, "complete") /\ r = worker[w].run
    /\ run'[r].inc = run[r].inc /\ run'[r].st = "COMPLETED"
FailedBy(w, r) ==
    /\ At(w, "fail") /\ r = worker[w].run /\ worker'[w].pc = "route"
    /\ run'[r].inc = run[r].inc /\ run'[r].st = "FAILED"

RunsMove ==
    \/ \A r \in Run : run'[r] = run[r]
    \/ \E w \in Worker, r \in Run :
          /\ CreatedFor(w, r) \/ CompletedBy(w, r) \/ FailedBy(w, r)
          /\ OnlyWorker(w) /\ \A s \in Run \ {r} : run'[s] = run[s]
          /\ UNCHANGED <<status, accepted, msg>>

LEMMA RunsOnlyMove ==
    ASSUME TypeOK, RunsOwned, [Next]_vars
    PROVE  RunsMove
<1>0. run \in [Run -> Row] /\ worker \in [Worker -> Work]
    BY EntryOf DEF TypeOK, Row
<1>1. ASSUME NEW w \in Worker, Start(w)
      PROVE  RunsMove
  <2>1. PICK r \in FreshRuns :
            /\ CreateRow(r, IncOf(w))
            /\ \/ worker' = [worker EXCEPT ![w].pc = "diagnose", ![w].run = r]
               \/ Goto(w, "route")
      BY <1>1 DEF Start
  <2>2. r \in Run /\ run'[r] = [inc |-> IncOf(w), st |-> "RUNNING"]
      BY <1>0, <2>1 DEF CreateRow, FreshRuns
  <2>3. \A s \in Run \ {r} : run'[s] = run[s]
      BY <1>0, <2>1 DEF CreateRow
  <2>4. CASE worker' = [worker EXCEPT ![w].pc = "diagnose", ![w].run = r]
    <3>1. worker'[w] = [worker[w] EXCEPT !.pc = "diagnose", !.run = r] /\ OnlyWorker(w)
        BY <1>0, <2>4 DEF OnlyWorker
    <3>2. worker'[w].pc = "diagnose" /\ worker'[w].run = r /\ worker'[w].inc = IncOf(w)
        BY <1>0, <3>1 DEF Work, IncOf
    <3>3. CreatedFor(w, r)
        BY <1>1, <2>1, <2>2, <3>2 DEF CreatedFor, Start
    <3>. QED
        BY <1>1, <2>2, <2>3, <3>1, <3>3 DEF RunsMove, Start
  <2>5. CASE Goto(w, "route")
    <3>1. worker'[w] = [worker[w] EXCEPT !.pc = "route", !.saw = "ABSENT"] /\ OnlyWorker(w)
        BY <2>5, GotoEffect DEF WorkerPC
    <3>2. worker'[w].pc = "route" /\ worker'[w].inc = IncOf(w)
        BY <1>0, <3>1 DEF Work, IncOf
    <3>3. CreatedFor(w, r)
        BY <1>1, <2>1, <2>2, <3>2 DEF CreatedFor, Start
    <3>. QED
        BY <1>1, <2>2, <2>3, <3>1, <3>3 DEF RunsMove, Start
  <2>. QED
      BY <2>1, <2>4, <2>5
<1>2. ASSUME NEW w \in Worker, Diagnosing(w), NEW st \in {"COMPLETED", "FAILED"}, SetRun(w, st)
      PROVE  /\ worker[w].run \in Run /\ run'[worker[w].run].inc = run[worker[w].run].inc
             /\ run'[worker[w].run].st = st
             /\ \A s \in Run \ {worker[w].run} : run'[s] = run[s]
  <2>1. worker[w].run \in Run
      BY <1>2 DEF RunsOwned
  <2>2. run'[worker[w].run] = [run[worker[w].run] EXCEPT !.st = st]
      BY <1>0, <1>2, <2>1 DEF SetRun
  <2>3. run[worker[w].run] \in Row
      BY <1>0, <2>1
  <2>4. \A s \in Run \ {worker[w].run} : run'[s] = run[s]
      BY <1>0, <1>2 DEF SetRun
  <2>. QED
      BY <2>1, <2>2, <2>3, <2>4 DEF Row
<1>3. ASSUME NEW w \in Worker, Complete(w)
      PROVE  RunsMove
  <2>1. OnlyWorker(w) /\ Diagnosing(w) /\ At(w, "complete") /\ UNCHANGED <<status, accepted, msg>>
      BY <1>3, GotoEffect, LeaveEffect DEF Complete, WorkerPC, Diagnosing, At
  <2>2. CASE SetRun(w, "COMPLETED")
      BY <1>2, <2>1, <2>2 DEF CompletedBy, RunsMove
  <2>3. CASE UNCHANGED run
      BY <2>3 DEF RunsMove
  <2>. QED
      BY <1>3, <2>2, <2>3 DEF Complete
<1>4. ASSUME NEW w \in Worker, Fail(w)
      PROVE  RunsMove
  <2>1. worker'[w] = [worker[w] EXCEPT !.pc = "route", !.run = None]
      BY <1>4, LeaveEffect DEF Fail, WorkerPC
  <2>2. OnlyWorker(w) /\ worker[w] \in Work
      BY <1>4, EntryOf, LeaveEffect DEF Fail, WorkerPC
  <2>3. Diagnosing(w) /\ At(w, "fail") /\ UNCHANGED <<status, accepted, msg>>
      BY <1>4 DEF Fail, Diagnosing, At
  <2>4. CASE SetRun(w, "FAILED")
    <3>1. worker'[w].pc = "route"
        BY <2>1, <2>2 DEF Work
    <3>. QED
        BY <1>2, <2>2, <2>3, <2>4, <3>1 DEF FailedBy, RunsMove
  <2>5. CASE UNCHANGED run
      BY <2>5 DEF RunsMove
  <2>. QED
      BY <1>4, <2>4, <2>5 DEF Fail
<1>5. CASE UNCHANGED run
    BY <1>5 DEF RunsMove
<1>. QED
    BY <1>1, <1>3, <1>4, <1>5
    DEF Next, vars, ApiCall, ApiStep, WorkerStep, AnalyzeCall, Fire, Insert, InsertFails,
        Refetch, CheckRuns, Publish, PublishFails, ApiCrash, Deliver, Get, ListRuns, Analyze,
        AnalyzeFails, StartFails, RequestApproval, Conclude, Route, RouteFails, TerminalRead,
        TerminalWrite, Ack, Crash, Disconnect, RetryExpires, OutsideMove

-----------------------------------------------------------------------------
(* The other parts of the invariant, one lemma each.                       *)

LEMMA StatusOnlyForward ==
    ASSUME StatusMoves
    PROVE  \A i : /\ Exists(i) => i \in Incident /\ status'[i] # "ABSENT"
                  /\ PastOpen(i) => i \in Incident /\ status'[i] \notin {"ABSENT", "OPEN"}
BY DEF StatusMoves, Exists, PastOpen, Status

LEMMA NamesKept ==
    ASSUME StatusMoves, WorkersMove, MessagesMove, AcceptedMoves, NamesExist, DeliveriesHeld
    PROVE  NamesExist'
<1>1. ASSUME NEW m \in Msg, msg'[m].at # "none"
      PROVE  msg'[m].inc \in Incident /\ status'[msg'[m].inc] # "ABSENT"
  <2>1. CASE msg[m].at # "none" /\ msg'[m].inc = msg[m].inc
      BY <2>1, StatusOnlyForward DEF NamesExist
  <2>2. CASE NewMessage(m)
      BY <2>2, StatusOnlyForward DEF NewMessage
  <2>3. CASE Settled(m)
    <3>1. msg'[m].inc = msg[m].inc /\ msg[m].at # "none"
        BY <1>1, <2>3, NoneAssumption DEF Settled, DeliveriesHeld, Holds
    <3>. QED
        BY <2>1, <3>1
  <2>. QED
      BY <1>1, <2>1, <2>2, <2>3 DEF MessagesMove, MessageKept, Delivered, TimeUp
<1>2. ASSUME NEW i \in accepted'
      PROVE  i \in Incident /\ status'[i] # "ABSENT"
  <2>1. Exists(i)
      BY <1>2 DEF NamesExist, AcceptedMoves, NewlyAccepted
  <2>. QED
      BY <2>1, StatusOnlyForward
<1>3. ASSUME NEW w \in Worker, worker'[w].pc # "idle"
      PROVE  worker'[w].inc \in Incident /\ status'[worker'[w].inc] # "ABSENT"
  <2>1. CASE TakesDelivery(w)
    <3>1. PICK m \in Msg : /\ msg[m].at = "main"
                           /\ worker'[w] = [NoWork EXCEPT !.pc = "get", !.msg = m, !.inc = msg[m].inc]
        BY <2>1 DEF TakesDelivery
    <3>2. worker'[w].inc = msg[m].inc
        BY <3>1 DEF NoWork
    <3>3. Exists(msg[m].inc)
        BY <3>1 DEF NamesExist
    <3>. QED
        BY <3>2, <3>3, StatusOnlyForward
  <2>2. CASE worker'[w] = worker[w] \/ GoesOn(w)
    <3>1. Exists(worker[w].inc) /\ worker'[w].inc = worker[w].inc
        BY <1>3, <2>2 DEF NamesExist, GoesOn, At, IncOf
    <3>. QED
        BY <3>1, StatusOnlyForward
  <2>3. worker'[w] # NoWork
      BY <1>3 DEF NoWork
  <2>. QED
      BY <2>1, <2>2, <2>3 DEF WorkersMove
<1>. QED
    BY <1>1, <1>2, <1>3 DEF NamesExist, At, IncOf, Exists

LEMMA HeldKept ==
    ASSUME TypeOK, WorkersMove, MessagesMove, DeliveriesHeld
    PROVE  DeliveriesHeld'
<1>0. msg \in [Msg -> Message]
    BY MessageEffects
<1>1. ASSUME NEW w \in Worker, worker'[w].msg # None
      PROVE  \/ /\ Holds(w) /\ worker'[w].msg = worker[w].msg /\ worker'[w].inc = worker[w].inc
                /\ worker'[w].pc # "idle"
             \/ /\ TakesDelivery(w) /\ worker'[w].pc # "idle" /\ worker'[w].msg \in Msg
                /\ msg[worker'[w].msg].at = "main" /\ worker'[w].inc = msg[worker'[w].msg].inc
                /\ msg' = [msg EXCEPT ![worker'[w].msg].at = "unacked"]
  <2>1. worker'[w] # NoWork
      BY <1>1 DEF NoWork
  <2>2. CASE worker'[w] = worker[w] \/ GoesOn(w)
      BY <1>1, <2>2 DEF GoesOn, Holds, DeliveriesHeld, At
  <2>3. CASE TakesDelivery(w)
    <3>1. PICK m \in Msg : /\ msg[m].at = "main" /\ msg' = [msg EXCEPT ![m].at = "unacked"]
                           /\ worker'[w] = [NoWork EXCEPT !.pc = "get", !.msg = m, !.inc = msg[m].inc]
        BY <2>3 DEF TakesDelivery
    <3>2. worker'[w].msg = m /\ worker'[w].inc = msg[m].inc /\ worker'[w].pc = "get"
        BY <3>1 DEF NoWork
    <3>. QED
        BY <2>3, <3>1, <3>2
  <2>. QED
      BY <2>1, <2>2, <2>3 DEF WorkersMove
<1>2. ASSUME NEW w \in Worker, worker'[w].msg # None
      PROVE  /\ worker'[w].pc # "idle" /\ worker'[w].msg \in Msg
             /\ msg'[worker'[w].msg].at = "unacked" /\ msg'[worker'[w].msg].inc = worker'[w].inc
  <2>. DEFINE m == worker'[w].msg
  <2>1. CASE Holds(w) /\ m = worker[w].msg /\ worker'[w].inc = worker[w].inc
    <3>1. m \in Msg /\ msg[m].at = "unacked" /\ msg[m].inc = worker'[w].inc
        BY <2>1 DEF DeliveriesHeld, IncOf
    <3>2. \A v \in Worker : worker[v].msg = m => v = w
        BY <2>1 DEF DeliveriesHeld
    <3>3. ~Settled(m)
        BY <1>2, <3>2 DEF Settled
    <3>4. msg'[m] = msg[m]
        BY <3>1, <3>3 DEF MessagesMove, MessageKept, NewMessage, Delivered, TimeUp
    <3>. QED
        BY <1>1, <1>2, <3>1, <3>4
  <2>2. CASE TakesDelivery(w) /\ m \in Msg /\ msg' = [msg EXCEPT ![m].at = "unacked"]
    <3>1. msg'[m] = [msg[m] EXCEPT !.at = "unacked"] /\ msg[m] \in Message
        BY <1>0, <2>2
    <3>2. msg'[m].at = "unacked" /\ msg'[m].inc = msg[m].inc
        BY <3>1 DEF Message
    <3>3. worker'[w].pc # "idle" /\ worker'[w].inc = msg[m].inc
      <4>1. m # None /\ ~(Holds(w) /\ At(w, "idle"))
          BY <1>2 DEF DeliveriesHeld
      <4>. QED
          BY <1>1, <1>2, <2>2, <4>1 DEF TakesDelivery
    <3>. QED
        BY <2>2, <3>2, <3>3
  <2>. QED
      BY <1>1, <1>2, <2>1, <2>2
<1>3. ASSUME NEW v \in Worker, NEW w \in Worker, worker'[v].msg # None, worker'[v].msg = worker'[w].msg
      PROVE  v = w
  <2>. DEFINE m == worker'[v].msg
  <2>1. ~(Holds(v) /\ worker[v].msg = m /\ msg[m].at = "main")
      BY DEF DeliveriesHeld
  <2>2. ~(Holds(w) /\ worker[w].msg = m /\ msg[m].at = "main")
      BY DEF DeliveriesHeld
  <2>3. CASE Holds(v) /\ worker[v].msg = m /\ Holds(w) /\ worker[w].msg = m
      BY <2>3 DEF DeliveriesHeld
  <2>4. CASE TakesDelivery(v) /\ TakesDelivery(w) /\ worker'[v].pc # "idle" /\ worker'[w].pc # "idle"
      BY <2>4 DEF TakesDelivery, OnlyWorker, At
  <2>5. CASE Holds(v) /\ worker[v].msg = m /\ msg[m].at = "main"
      BY <2>1, <2>5
  <2>6. CASE Holds(w) /\ worker[w].msg = m /\ msg[m].at = "main"
      BY <2>2, <2>6
  <2>. QED
      BY <1>1, <1>3, <2>3, <2>4, <2>5, <2>6
<1>. QED
    BY <1>2, <1>3 DEF DeliveriesHeld, Holds, At, IncOf

LEMMA OneLiveKept ==
    ASSUME TypeOK, StatusMoves, OneLiveIncident
    PROVE  OneLiveIncident'
<1>1. ASSUME NEW i \in Incident, NEW j \in Incident, SameAlert(i, j), Live(i)', Live(j)', ~Live(i)
      PROVE  i = j
  <2>1. status[i] = "ABSENT" /\ ~Known(i) /\ \A k \in Incident \ {i} : status'[k] = status[k]
      BY <1>1 DEF StatusMoves, Live, TypeOK
  <2>. QED
      BY <1>1, <2>1 DEF Known, Live
<1>2. ASSUME NEW i \in Incident, NEW j \in Incident, SameAlert(i, j), Live(i)', Live(j)'
      PROVE  i = j
  <2>1. SameAlert(j, i)
      BY <1>2 DEF SameAlert
  <2>. QED
      BY <1>1, <1>2, <2>1 DEF OneLiveIncident
<1>. QED
    BY <1>2 DEF OneLiveIncident, SameAlert

(* How a worker comes to the next step of handling its delivery, and why   *)
(* it may acknowledge it.                                                  *)
LeavesCopy(w, queue) ==
    \E m \in Msg : msg[m].at = "none" /\ msg'[m].at = queue /\ msg'[m].inc = IncOf(w)

ComesToAck(w) ==
    \/ At(w, "get") /\ status[IncOf(w)] \in Terminal /\ UNCHANGED status
    \/ (At(w, "list") \/ At(w, "start")) /\ ActiveRuns(IncOf(w)) # {} /\ UNCHANGED run
    \/ At(w, "complete") /\ SetRun(w, "COMPLETED")
    \/ At(w, "route") /\ LeavesCopy(w, "retry")
    \/ At(w, "terminalRead")
    \/ At(w, "terminalWrite")

Stays(w) ==
    /\ worker'[w].pc = worker[w].pc /\ worker'[w].saw = worker[w].saw
    /\ worker'[w].run = worker[w].run

Comes(w) ==
    \/ Stays(w)
    \/ worker'[w].pc \in {"idle", "get", "route"}
    \/ /\ At(w, "get") /\ worker'[w].pc = "list" /\ worker'[w].saw = status[IncOf(w)]
       /\ status[IncOf(w)] \notin Terminal
    \/ At(w, "list") /\ worker'[w].pc = "analyze" /\ worker[w].saw = "OPEN"
    \/ At(w, "list") /\ worker'[w].pc = "start" /\ worker[w].saw # "OPEN"
    \/ At(w, "analyze") /\ worker'[w].pc = "start" /\ status'[IncOf(w)] = "INVESTIGATING"
    \/ /\ At(w, "start") /\ worker'[w].pc = "diagnose" /\ worker'[w].run \in Run
       /\ CreatedFor(w, worker'[w].run) /\ OnlyWorker(w)
    \/ /\ Diagnosing(w) /\ worker'[w].pc \in {"complete", "fail"}
       /\ worker'[w].run = worker[w].run
    \/ At(w, "route") /\ worker'[w].pc = "terminalRead" /\ LeavesCopy(w, "dlq")
    \/ At(w, "terminalRead") /\ worker'[w].pc = "terminalWrite" /\ CanTransition(worker'[w].saw, "FAILED")
    \/ worker'[w].pc = "ack" /\ ComesToAck(w)

LEMMA GotoPlace ==
    ASSUME TypeOK, NEW w \in Worker, NEW label \in WorkerPC, Goto(w, label)
    PROVE  OnlyWorker(w) /\ worker'[w].pc = label /\ worker'[w].run = worker[w].run
<1>1. OnlyWorker(w) /\ worker'[w] = [worker[w] EXCEPT !.pc = label, !.saw = "ABSENT"] /\ worker[w] \in Work
    BY EntryOf, GotoEffect
<1>. QED
    BY <1>1 DEF Work

LEMMA WorkersCome ==
    ASSUME TypeOK, NamesExist, DeliveriesHeld, [Next]_vars
    PROVE  \A w \in Worker : Comes(w)
<1>0. worker \in [Worker -> Work] /\ msg \in [Msg -> Message] /\ run \in [Run -> Row]
    BY EntryOf, MessageEffects DEF TypeOK, Row
<1>1. ASSUME NEW w \in Worker, OnlyWorker(w), Comes(w)
      PROVE  \A v \in Worker : Comes(v)
    BY <1>1 DEF OnlyWorker, Comes, Stays
<1>2. ASSUME NEW w \in Worker, NEW label \in WorkerPC, Goto(w, label) \/ Leave(w, label)
      PROVE  OnlyWorker(w) /\ worker'[w].pc = label
  <2>1. worker[w] \in Work
      BY <1>0
  <2>2. CASE Leave(w, label)
    <3>1. worker'[w] = [worker[w] EXCEPT !.pc = label, !.run = None] /\ OnlyWorker(w)
        BY <2>2, LeaveEffect
    <3>. QED
        BY <2>1, <3>1 DEF Work
  <2>. QED
      BY <1>2, <2>2, GotoPlace
<1>3. ASSUME NEW w \in Worker, NEW m \in Msg, Deliver(w, m)
      PROVE  \A v \in Worker : Comes(v)
  <2>1. worker'[w] = [NoWork EXCEPT !.pc = "get", !.msg = m, !.inc = msg[m].inc] /\ OnlyWorker(w)
      BY <1>0, <1>3 DEF Deliver, OnlyWorker
  <2>2. worker'[w].pc = "get"
      BY <2>1 DEF NoWork
  <2>. QED
      BY <1>1, <2>1, <2>2 DEF Comes
<1>4. ASSUME NEW w \in Worker, Goto(w, "route") \/ Leave(w, "route")
      PROVE  \A v \in Worker : Comes(v)
    BY <1>1, <1>2, <1>4 DEF Comes, WorkerPC
<1>5. ASSUME NEW w \in Worker, Goto(w, "ack") \/ Leave(w, "ack"), ComesToAck(w)
      PROVE  \A v \in Worker : Comes(v)
    BY <1>1, <1>2, <1>5 DEF Comes, WorkerPC
<1>6. ASSUME NEW w \in Worker, worker[w] \in Work, NEW label \in {"list", "terminalWrite"},
             worker' = [worker EXCEPT ![w].pc = label, ![w].saw = status[IncOf(w)]]
      PROVE  OnlyWorker(w) /\ worker'[w].pc = label /\ worker'[w].saw = status[IncOf(w)]
  <2>1. worker'[w] = [worker[w] EXCEPT !.pc = label, !.saw = status[IncOf(w)]] /\ OnlyWorker(w)
      BY <1>0, <1>6 DEF OnlyWorker
  <2>. QED
      BY <1>6, <2>1 DEF Work
<1>7. ASSUME NEW w \in Worker, Get(w)
      PROVE  \A v \in Worker : Comes(v)
  <2>1. CASE status[IncOf(w)] \in Terminal /\ Goto(w, "ack")
      BY <1>5, <1>7, <2>1 DEF Get, ComesToAck
  <2>2. CASE /\ status[IncOf(w)] \notin Terminal
             /\ worker' = [worker EXCEPT ![w].pc = "list", ![w].saw = status[IncOf(w)]]
      BY <1>0, <1>1, <1>6, <1>7, <2>2 DEF Get, Comes
  <2>. QED
      BY <1>4, <1>7, <2>1, <2>2 DEF Get
<1>8. ASSUME NEW w \in Worker, TerminalRead(w)
      PROVE  \A v \in Worker : Comes(v)
  <2>1. CASE Goto(w, "ack")
      BY <1>5, <1>8, <2>1 DEF TerminalRead, ComesToAck
  <2>2. CASE /\ CanTransition(status[IncOf(w)], "FAILED")
             /\ worker' = [worker EXCEPT ![w].pc = "terminalWrite", ![w].saw = status[IncOf(w)]]
      BY <1>0, <1>1, <1>6, <1>8, <2>2 DEF TerminalRead, Comes
  <2>. QED
      BY <1>8, <2>1, <2>2 DEF TerminalRead
<1>9. ASSUME NEW w \in Worker, ListRuns(w)
      PROVE  \A v \in Worker : Comes(v)
  <2>1. CASE ActiveRuns(IncOf(w)) # {} /\ Goto(w, "ack")
      BY <1>5, <1>9, <2>1 DEF ListRuns, ComesToAck
  <2>2. CASE worker[w].saw = "OPEN" /\ Goto(w, "analyze")
      BY <1>1, <1>2, <1>9, <2>2 DEF ListRuns, Comes, WorkerPC
  <2>3. CASE worker[w].saw # "OPEN" /\ Goto(w, "start")
      BY <1>1, <1>2, <1>9, <2>3 DEF ListRuns, Comes, WorkerPC
  <2>. QED
      BY <1>9, <2>1, <2>2, <2>3 DEF ListRuns
<1>10. ASSUME NEW w \in Worker, Analyze(w)
       PROVE  \A v \in Worker : Comes(v)
  <2>1. IncOf(w) \in Incident
      BY <1>10 DEF Analyze, At, NamesExist, Exists
  <2>2. status'[IncOf(w)] = "INVESTIGATING"
      BY <1>10, <2>1 DEF Analyze, TypeOK
  <2>3. CASE Goto(w, "start")
      BY <1>1, <1>2, <1>10, <2>2, <2>3 DEF Analyze, Comes, WorkerPC
  <2>. QED
      BY <1>4, <1>10, <2>3 DEF Analyze
<1>11. ASSUME NEW w \in Worker, Start(w)
       PROVE  \A v \in Worker : Comes(v)
  <2>1. CASE Goto(w, "route")
      BY <1>4, <2>1
  <2>2. ASSUME NEW r \in FreshRuns, CreateRow(r, IncOf(w)),
               worker' = [worker EXCEPT ![w].pc = "diagnose", ![w].run = r]
        PROVE  \A v \in Worker : Comes(v)
    <3>1. worker'[w] = [worker[w] EXCEPT !.pc = "diagnose", !.run = r] /\ OnlyWorker(w) /\ worker[w] \in Work
        BY <1>0, <2>2 DEF OnlyWorker
    <3>2. worker'[w].pc = "diagnose" /\ worker'[w].run = r /\ worker'[w].inc = IncOf(w)
        BY <3>1 DEF Work, IncOf
    <3>3. r \in Run /\ run'[r] = [inc |-> IncOf(w), st |-> "RUNNING"]
        BY <1>0, <2>2 DEF CreateRow, FreshRuns
    <3>4. CreatedFor(w, r)
        BY <1>11, <3>2, <3>3 DEF Start, CreatedFor
    <3>5. Comes(w)
        BY <1>11, <3>1, <3>2, <3>3, <3>4 DEF Start, Comes
    <3>. QED
        BY <1>1, <3>1, <3>5
  <2>. QED
      BY <1>11, <2>1, <2>2 DEF Start
<1>12. ASSUME NEW w \in Worker, StartFails(w)
       PROVE  \A v \in Worker : Comes(v)
  <2>1. CASE ActiveRuns(IncOf(w)) # {} /\ Goto(w, "ack")
      BY <1>5, <1>12, <2>1 DEF StartFails, ComesToAck
  <2>. QED
      BY <1>4, <1>12, <2>1 DEF StartFails
<1>13. ASSUME NEW w \in Worker, Diagnosing(w), Goto(w, "complete") \/ Goto(w, "fail")
       PROVE  \A v \in Worker : Comes(v)
  <2>1. OnlyWorker(w) /\ worker'[w].pc \in {"complete", "fail"} /\ worker'[w].run = worker[w].run
      BY <1>13, GotoPlace DEF WorkerPC
  <2>. QED
      BY <1>1, <1>13, <2>1 DEF Comes
<1>14. ASSUME NEW w \in Worker, Complete(w)
       PROVE  \A v \in Worker : Comes(v)
  <2>1. CASE SetRun(w, "COMPLETED") /\ Leave(w, "ack")
      BY <1>5, <1>14, <2>1 DEF Complete, ComesToAck
  <2>. QED
      BY <1>13, <1>14, <2>1 DEF Complete, Diagnosing, At
<1>15. ASSUME NEW w \in Worker, Route(w)
       PROVE  \A v \in Worker : Comes(v)
  <2>. DEFINE q == IF Exhausted(w) THEN "dlq" ELSE "retry"
  <2>1. LeavesCopy(w, q)
    <3>1. worker[w].msg \in Msg /\ msg[worker[w].msg].inc = IncOf(w)
        BY <1>15 DEF Route, DeliveriesHeld
    <3>2. msg[worker[w].msg] \in Message
        BY <1>0, <3>1
    <3>3. Copy(w).inc = IncOf(w) /\ Copy(w).at = q
        BY <3>1, <3>2 DEF Copy, Message
    <3>. QED
        BY <1>0, <1>15, <3>3 DEF Route, FreeSlots, LeavesCopy
  <2>2. CASE Exhausted(w)
    <3>1. Goto(w, "terminalRead")
        BY <1>15, <2>2 DEF Route
    <3>2. OnlyWorker(w) /\ worker'[w].pc = "terminalRead"
        BY <1>2, <3>1 DEF WorkerPC
    <3>. QED
        BY <1>1, <1>15, <2>1, <2>2, <3>2 DEF Comes, Route
  <2>3. CASE ~Exhausted(w)
      BY <1>5, <1>15, <2>1, <2>3 DEF Route, ComesToAck
  <2>. QED
      BY <2>2, <2>3
<1>16. ASSUME NEW w \in Worker, TerminalWrite(w)
       PROVE  \A v \in Worker : Comes(v)
    BY <1>5, <1>16 DEF TerminalWrite, ComesToAck
<1>17. ASSUME NEW w \in Worker, Disconnect(w)
       PROVE  \A v \in Worker : Comes(v)
  <2>1. OnlyWorker(w) /\ worker'[w] = [worker[w] EXCEPT !.msg = None] /\ worker[w] \in Work
      BY <1>0, <1>17 DEF Disconnect, OnlyWorker
  <2>2. Stays(w)
      BY <2>1 DEF Stays, Work
  <2>. QED
      BY <1>1, <2>1, <2>2 DEF Comes
<1>18. ASSUME NEW w \in Worker, RouteFails(w) \/ Ack(w) \/ Crash(w)
       PROVE  \A v \in Worker : Comes(v)
  <2>1. worker'[w].pc = "idle" /\ OnlyWorker(w)
      BY <1>0, <1>18 DEF RouteFails, Ack, Crash, NoWork, OnlyWorker
  <2>. QED
      BY <1>1, <2>1 DEF Comes
<1>19. ASSUME NEW w \in Worker, AnalyzeFails(w) \/ Fail(w) \/ Conclude(w)
       PROVE  \A v \in Worker : Comes(v)
    BY <1>4, <1>13, <1>19 DEF AnalyzeFails, Fail, Conclude, Diagnosing, At
<1>20. CASE UNCHANGED worker
    BY <1>20 DEF Comes, Stays
<1>. QED
    BY <1>3, <1>7, <1>8, <1>9, <1>10, <1>11, <1>12, <1>14, <1>15, <1>16, <1>17, <1>18, <1>19, <1>20
    DEF Next, vars, ApiCall, ApiStep, WorkerStep, AnalyzeCall, Fire, Insert, InsertFails,
        Refetch, CheckRuns, Publish, PublishFails, ApiCrash, RequestApproval, RetryExpires,
        OutsideMove

Came == \A w \in Worker : Comes(w)

LEMMA FailsOnlyLiveKept ==
    ASSUME Came, FailsOnlyLive
    PROVE  FailsOnlyLive'
BY DEF Came, Comes, Stays, FailsOnlyLive, At, CanTransition

LEMMA DeliveryStarts ==
    ASSUME NEW w \in Worker, TakesDelivery(w)
    PROVE  worker'[w].pc = "get" /\ At(w, "idle")
<1>1. PICK m \in Msg :
         worker'[w] = [NoWork EXCEPT !.pc = "get", !.msg = m, !.inc = msg[m].inc]
    BY DEF TakesDelivery
<1>. QED
    BY <1>1 DEF TakesDelivery, NoWork

(* Where a worker's incident is the one it was.                            *)
LEMMA SameIncident ==
    ASSUME WorkersMove, NEW w \in Worker, worker'[w].pc \notin {"idle", "get"} \/ worker'[w] = worker[w]
    PROVE  worker'[w].inc = worker[w].inc
<1>1. worker'[w] = NoWork => worker'[w].pc = "idle"
    BY DEF NoWork
<1>. QED
    BY <1>1, DeliveryStarts DEF WorkersMove, GoesOn, At

LEMMA RunsAfterOpenKept ==
    ASSUME TypeOK, NamesExist, StatusMoves, WorkersMove, RunsMove, Came, RunsAfterOpen, RunsOwned
    PROVE  RunsAfterOpen'
<1>1. ASSUME NEW w \in Worker, worker'[w].pc \in {"start", "diagnose", "complete", "fail"}
      PROVE  worker'[w].inc \in Incident /\ status'[worker'[w].inc] \notin {"ABSENT", "OPEN"}
  <2>1. worker'[w].inc = IncOf(w)
      BY <1>1, SameIncident DEF IncOf
  <2>2. CASE PastOpen(IncOf(w))
      BY <2>1, <2>2, StatusOnlyForward
  <2>3. CASE At(w, "analyze") /\ status'[IncOf(w)] = "INVESTIGATING"
      BY <2>1, <2>3 DEF NamesExist, At, Exists
  <2>4. \/ worker[w].pc \in {"start", "diagnose", "complete", "fail"}
        \/ At(w, "list") /\ worker[w].saw # "OPEN"
        \/ At(w, "analyze") /\ status'[IncOf(w)] = "INVESTIGATING"
      BY <1>1 DEF Came, Comes, Stays, At, Diagnosing
  <2>. QED
      BY <2>2, <2>3, <2>4 DEF RunsAfterOpen
<1>2. ASSUME NEW w \in Worker, worker'[w].pc = "list", worker'[w].saw # "OPEN"
      PROVE  worker'[w].inc \in Incident /\ status'[worker'[w].inc] \notin {"ABSENT", "OPEN"}
  <2>1. worker'[w].inc = IncOf(w)
      BY <1>2, SameIncident DEF IncOf
  <2>2. \/ At(w, "list") /\ worker[w].saw # "OPEN"
        \/ At(w, "get") /\ status[IncOf(w)] # "OPEN"
      BY <1>2 DEF Came, Comes, Stays, At
  <2>3. PastOpen(IncOf(w))
      BY <2>2 DEF RunsAfterOpen, NamesExist, Exists, PastOpen, At
  <2>. QED
      BY <2>1, <2>3, StatusOnlyForward
<1>3. ASSUME NEW r \in Run, run'[r].st \in ActiveRun
      PROVE  run'[r].inc \in Incident /\ status'[run'[r].inc] \notin {"ABSENT", "OPEN"}
  <2>1. CASE run'[r] = run[r]
      BY <1>3, <2>1, StatusOnlyForward DEF RunsAfterOpen
  <2>2. ASSUME NEW w \in Worker, CreatedFor(w, r)
        PROVE  run'[r].inc \in Incident /\ status'[run'[r].inc] \notin {"ABSENT", "OPEN"}
    <3>1. run'[r].inc = IncOf(w) /\ PastOpen(IncOf(w))
        BY <2>2 DEF CreatedFor, RunsAfterOpen, At
    <3>. QED
        BY <3>1, StatusOnlyForward
  <2>3. ASSUME NEW w \in Worker, CompletedBy(w, r) \/ FailedBy(w, r)
        PROVE  run'[r].inc \in Incident /\ status'[run'[r].inc] \notin {"ABSENT", "OPEN"}
    <3>1. run'[r].inc = run[r].inc /\ run[r].st \in ActiveRun
        BY <2>3 DEF CompletedBy, FailedBy, RunsOwned, Diagnosing, At
    <3>. QED
        BY <3>1, StatusOnlyForward DEF RunsAfterOpen
  <2>. QED
      BY <2>1, <2>2, <2>3 DEF RunsMove
<1>. QED
    BY <1>1, <1>2, <1>3 DEF RunsAfterOpen, PastOpen, At, IncOf

LEMMA OneDiagnosisKept ==
    ASSUME TypeOK, WorkersMove, Came, RunsOwned, OneDiagnosisAtATime
    PROVE  OneDiagnosisAtATime'
<1>1. ASSUME NEW v \in Worker, NEW w \in Worker, v # w, Diagnosing(v), Diagnosing(w)',
             worker'[w].inc = IncOf(v)
      PROVE  FALSE
  <2>1. worker'[w].inc = IncOf(w)
      BY <1>1, SameIncident DEF Diagnosing, IncOf
  <2>2. CASE Diagnosing(w)
      BY <1>1, <2>1, <2>2 DEF OneDiagnosisAtATime
  <2>3. CASE CreatedFor(w, worker'[w].run)
    <3>1. worker[v].run \in ActiveRuns(IncOf(w))
        BY <1>1, <2>1 DEF RunsOwned, ActiveRuns
    <3>. QED
        BY <2>3, <3>1 DEF CreatedFor
  <2>. QED
      BY <1>1, <2>2, <2>3 DEF Came, Comes, Stays, Diagnosing, At
<1>2. ASSUME NEW v \in Worker, NEW w \in Worker, v # w, Diagnosing(v)', Diagnosing(w)',
             worker'[v].inc = worker'[w].inc
      PROVE  FALSE
  <2>1. worker'[v].inc = IncOf(v) /\ worker'[w].inc = IncOf(w)
      BY <1>2, SameIncident DEF Diagnosing, IncOf
  <2>2. CASE Diagnosing(v) \/ Diagnosing(w)
      BY <1>1, <1>2, <2>1, <2>2
  <2>3. CASE ~Diagnosing(v) /\ ~Diagnosing(w)
      BY <1>2, <2>3 DEF Came, Comes, Stays, Diagnosing, At, OnlyWorker
  <2>. QED
      BY <2>2, <2>3
<1>. QED
    BY <1>2 DEF OneDiagnosisAtATime, Diagnosing, IncOf

LEMMA RunsOwnedKept ==
    ASSUME TypeOK, WorkersMove, RunsMove, Came, RunsOwned, OneDiagnosisAtATime
    PROVE  RunsOwned'
<1>1. ASSUME NEW r \in Run, NEW s \in Run, r # s, run'[r].st \in ActiveRun, run'[s].st \in ActiveRun,
             run'[r].inc = run'[s].inc
      PROVE  FALSE
  <2>1. \A q \in Run : \/ run'[q] = run[q]
                       \/ \E w \in Worker : CreatedFor(w, q)
                       \/ run'[q].inc = run[q].inc /\ run[q].st \in ActiveRun
      BY DEF RunsMove, CompletedBy, FailedBy, RunsOwned, Diagnosing, At
  <2>2. ASSUME NEW p \in Run, NEW q \in Run, NEW w \in Worker, CreatedFor(w, p), p # q,
               run'[q] = run[q], run'[q].st \in ActiveRun, run'[p].inc = run'[q].inc
        PROVE  FALSE
    <3>1. q \in ActiveRuns(IncOf(w))
        BY <2>2 DEF CreatedFor, ActiveRuns
    <3>. QED
        BY <2>2, <3>1 DEF CreatedFor
  <2>3. run'[r] = run[r] \/ run'[s] = run[s]
      BY <1>1 DEF RunsMove
  <2>4. CASE ~\E w \in Worker : CreatedFor(w, r) \/ CreatedFor(w, s)
      BY <1>1, <2>1, <2>4 DEF RunsOwned
  <2>5. ASSUME NEW w \in Worker, CreatedFor(w, r)
        PROVE  FALSE
    <3>1. run'[r] # run[r]
        BY <2>5 DEF CreatedFor, FreshRuns, ActiveRun
    <3>. QED
        BY <1>1, <2>2, <2>3, <2>5, <3>1
  <2>6. ASSUME NEW w \in Worker, CreatedFor(w, s)
        PROVE  FALSE
    <3>1. run'[s] # run[s]
        BY <2>6 DEF CreatedFor, FreshRuns, ActiveRun
    <3>. QED
        BY <1>1, <2>2, <2>3, <2>6, <3>1
  <2>. QED
      BY <2>4, <2>5, <2>6
<1>2. ASSUME NEW w \in Worker, Diagnosing(w)'
      PROVE  /\ worker'[w].run \in Run /\ run'[worker'[w].run].st \in ActiveRun
             /\ run'[worker'[w].run].inc = worker'[w].inc
  <2>1. worker'[w].inc = IncOf(w)
      BY <1>2, SameIncident DEF Diagnosing, IncOf
  <2>2. CASE worker'[w].run \in Run /\ CreatedFor(w, worker'[w].run)
      BY <2>1, <2>2 DEF CreatedFor, ActiveRun
  <2>3. CASE Diagnosing(w) /\ worker'[w].run = worker[w].run
    <3>. DEFINE r == worker[w].run
    <3>1. r \in Run /\ run[r].st \in ActiveRun /\ run[r].inc = IncOf(w)
        BY <2>3 DEF RunsOwned
    <3>2. CASE run'[r] = run[r]
        BY <2>1, <2>3, <3>1, <3>2
    <3>3. CASE \E v \in Worker : CreatedFor(v, r)
        BY <3>1, <3>3 DEF CreatedFor, FreshRuns
    <3>4. CASE \E v \in Worker : CompletedBy(v, r)
        BY <2>1, <2>3, <3>1, <3>4 DEF CompletedBy, ActiveRun
    <3>5. ASSUME NEW v \in Worker, FailedBy(v, r)
          PROVE FALSE
      <4>1. Diagnosing(v) /\ IncOf(v) = IncOf(w)
          BY <3>1, <3>5 DEF FailedBy, Diagnosing, At, RunsOwned
      <4>2. v = w
          BY <2>3, <4>1 DEF OneDiagnosisAtATime
      <4>. QED
          BY <1>2, <3>5, <4>2 DEF FailedBy, Diagnosing
    <3>. QED
        BY <3>1, <3>2, <3>3, <3>4, <3>5 DEF RunsMove
  <2>. QED
      BY <1>2, <2>2, <2>3 DEF Came, Comes, Stays, Diagnosing, At
<1>. QED
    BY <1>1, <1>2 DEF RunsOwned, Diagnosing, IncOf

(* Dead letters are never taken away.                                      *)
LEMMA DeadLetterKept ==
    ASSUME TypeOK, WorkersMove, MessagesMove, DeliveriesHeld, Came, FailedOnlyAfterDeadLetter
    PROVE  FailedOnlyAfterDeadLetter'
<1>1. ASSUME NEW i, DeadLettered(i)
      PROVE  DeadLettered(i)'
  <2>1. PICK m \in Msg : msg[m].inc = i /\ msg[m].at = "dlq"
      BY <1>1 DEF DeadLettered
  <2>2. ~Settled(m)
      BY <2>1, NoneAssumption DEF Settled, DeliveriesHeld, Holds
  <2>3. msg'[m] = msg[m]
      BY <2>1, <2>2 DEF MessagesMove, MessageKept, NewMessage, Delivered, TimeUp
  <2>. QED
      BY <2>1, <2>3 DEF DeadLettered
<1>2. ASSUME NEW w \in Worker, worker'[w].pc \in {"terminalRead", "terminalWrite"}
      PROVE  \E m \in Msg : msg'[m].inc = worker'[w].inc /\ msg'[m].at = "dlq"
  <2>1. worker'[w].inc = IncOf(w)
      BY <1>2, SameIncident DEF IncOf
  <2>2. CASE LeavesCopy(w, "dlq")
      BY <2>1, <2>2 DEF LeavesCopy
  <2>3. CASE DeadLettered(IncOf(w))
      BY <1>1, <2>1, <2>3 DEF DeadLettered
  <2>. QED
      BY <1>2, <2>2, <2>3 DEF Came, Comes, Stays, At, FailedOnlyAfterDeadLetter
<1>. QED
    BY <1>2 DEF FailedOnlyAfterDeadLetter, DeadLettered, IncOf

(* A message about i stays, unless its handling ends for good reason: the  *)
(* incident is closed or has an active run.                                *)
LEMMA CarriedOrDone ==
    ASSUME TypeOK, StatusMoves, WorkersMove, MessagesMove, Came, DeliveriesHeld, RunsOwned,
           NEW i \in Incident, Carried(i)
    PROVE  Carried(i)' \/ status'[i] \in Terminal \/ ActiveRuns(i)' # {}
<1>1. PICK m \in Msg : Carries(m, i)
    BY DEF Carried
<1>2. ASSUME NEW n \in Msg, msg'[n].inc = i, msg'[n].at # "none",
             \A w \in Worker : worker'[w].pc \in {"terminalRead", "terminalWrite", "ack"} => worker'[w].msg # n
      PROVE  Carried(i)'
    BY <1>2 DEF Carried, Carries, Settling
<1>3. ASSUME NEW w \in Worker, worker'[w].pc \in {"terminalRead", "terminalWrite", "ack"}, worker'[w].msg \in Msg
      PROVE  Holds(w) /\ worker'[w].msg = worker[w].msg /\ msg[worker[w].msg].at = "unacked"
  <2>1. worker'[w] # NoWork /\ ~TakesDelivery(w)
      BY <1>3, DeliveryStarts DEF NoWork
  <2>2. worker'[w].msg = worker[w].msg
      BY <1>3, <2>1, NoneAssumption DEF WorkersMove, GoesOn
  <2>. QED
      BY <1>3, <2>2, NoneAssumption DEF DeliveriesHeld, Holds
<1>4. msg'[m].inc = i /\ msg'[m].at # "none"
  <2>1. ASSUME Settled(m)
        PROVE  msg'[m].inc = i /\ msg'[m].at # "none"
      BY <1>1, <2>1 DEF Settled, Carries, Settling, At
  <2>. QED
      BY <1>1, <2>1 DEF Carries, MessagesMove, MessageKept, NewMessage, Delivered, TimeUp
<1>5. ASSUME NEW w \in Worker, worker'[w].pc \in {"terminalRead", "terminalWrite", "ack"}, worker'[w].msg = m
      PROVE  Carried(i)' \/ status'[i] \in Terminal \/ ActiveRuns(i)' # {}
  <2>1. Holds(w) /\ worker[w].msg = m /\ IncOf(w) = i /\ ~Settling(w)
      BY <1>1, <1>3, <1>5 DEF DeliveriesHeld, Carries
  <2>2. ASSUME NEW queue \in {"retry", "dlq"}, LeavesCopy(w, queue)
        PROVE  Carried(i)'
    <3>1. PICK n \in Msg : msg[n].at = "none" /\ msg'[n].at = queue /\ msg'[n].inc = i
        BY <2>1, <2>2 DEF LeavesCopy
    <3>2. \A v \in Worker : worker'[v].pc \in {"terminalRead", "terminalWrite", "ack"} => worker'[v].msg # n
        BY <1>3, <3>1
    <3>. QED
        BY <1>2, <3>1, <3>2
  <2>3. CASE status[i] \in Terminal /\ UNCHANGED status
      BY <2>3
  <2>4. CASE ActiveRuns(i) # {} /\ UNCHANGED run
      BY <2>4 DEF ActiveRuns
  <2>5. ASSUME At(w, "complete"), SetRun(w, "COMPLETED")
        PROVE  ActiveRuns(i)' # {}
    <3>1. worker[w].run \in Run /\ run[worker[w].run].inc = i
        BY <2>1, <2>5 DEF RunsOwned, Diagnosing, At
    <3>2. run[worker[w].run] \in Row /\ run'[worker[w].run] = [run[worker[w].run] EXCEPT !.st = "COMPLETED"]
        BY <2>5, <3>1 DEF SetRun, TypeOK, Row
    <3>3. run'[worker[w].run].inc = i /\ run'[worker[w].run].st = "COMPLETED"
        BY <3>1, <3>2 DEF Row
    <3>. QED
        BY <3>1, <3>3 DEF ActiveRuns, ActiveRun
  <2>6. \/ LeavesCopy(w, "dlq")
        \/ ComesToAck(w) /\ ~At(w, "terminalRead") /\ ~At(w, "terminalWrite")
      BY <1>5, <2>1 DEF Came, Comes, Stays, Settling, At, Diagnosing
  <2>. QED
      BY <2>1, <2>2, <2>3, <2>4, <2>5, <2>6 DEF ComesToAck
<1>. QED
    BY <1>2, <1>4, <1>5

LEMMA OpenCarriedKept ==
    ASSUME TypeOK, NamesExist, StatusMoves, WorkersMove, MessagesMove, AcceptedMoves, Came,
           DeliveriesHeld, RunsOwned, RunsAfterOpen, RunsAfterOpen', OpenCarried
    PROVE  OpenCarried'
<1>1. ASSUME NEW i \in accepted', status'[i] = "OPEN"
      PROVE  Carried(i)'
  <2>1. CASE i \in accepted
    <3>1. i \in Incident /\ status[i] = "OPEN"
        BY <1>1, <2>1 DEF NamesExist, Exists, StatusMoves
    <3>2. Carried(i)
        BY <2>1, <3>1 DEF OpenCarried
    <3>3. ActiveRuns(i)' = {} /\ status'[i] \notin Terminal
        BY <1>1 DEF RunsAfterOpen, PastOpen, ActiveRuns, Terminal
    <3>. QED
        BY <3>1, <3>2, <3>3, CarriedOrDone
  <2>2. CASE i \notin accepted
    <3>1. NewlyAccepted(i) /\ status[i] = "OPEN"
        BY <1>1, <2>2 DEF AcceptedMoves, NewlyAccepted
    <3>2. ActiveRuns(i) = {}
        BY <3>1 DEF RunsAfterOpen, PastOpen, ActiveRuns
    <3>3. PICK m \in Msg : msg[m].at = "none" /\ msg'[m].at = "main" /\ msg'[m].inc = i
        BY <3>1, <3>2 DEF NewlyAccepted
    <3>4. \A w \in Worker : worker'[w].msg # m
        BY <3>1, <3>3, NoneAssumption DEF NewlyAccepted, DeliveriesHeld, Holds
    <3>. QED
        BY <3>3, <3>4 DEF Carried, Carries
  <2>. QED
      BY <2>1, <2>2
<1>. QED
    BY <1>1 DEF OpenCarried

THEOREM InitEstablishes == Init => IInv
<1>. SUFFICES ASSUME Init PROVE IInv
    OBVIOUS
<1>1. TypeOK
    BY BoundAssumption DEF Init, TypeOK, RunStatus, NoMsg, NoWork, NoApi, WorkerPC
<1>2. \A w \in Worker : worker[w] = NoWork
    BY DEF Init
<1>3. /\ \A m \in Msg : msg[m] = NoMsg
      /\ \A c \in Api : api[c] = NoApi
      /\ \A r \in Run : run[r].st = "ABSENT"
      /\ \A i \in Incident : status[i] = "ABSENT"
      /\ accepted = {}
    BY DEF Init
<1>4. CallsOK /\ NamesExist /\ OpenCarried /\ OneLiveIncident
    BY <1>2, <1>3 DEF CallsOK, ApiAt, NoApi, NamesExist, NoMsg, At, NoWork, OpenCarried, OneLiveIncident, Live
<1>5. FailsOnlyLive /\ DeliveriesHeld /\ OneDiagnosisAtATime /\ FailedOnlyAfterDeadLetter
    BY <1>2 DEF FailsOnlyLive, DeliveriesHeld, Holds, At, NoWork, OneDiagnosisAtATime, Diagnosing,
       FailedOnlyAfterDeadLetter
<1>6. RunsAfterOpen /\ RunsOwned
    BY <1>2, <1>3 DEF RunsAfterOpen, RunsOwned, At, NoWork, Diagnosing, ActiveRun
<1>. QED
    BY <1>1, <1>4, <1>5, <1>6 DEF IInv

(* All parts of the invariant, and how the step changed the state.         *)
LEMMA StepMoves ==
    ASSUME IInv, [Next]_vars
    PROVE  StatusMoves /\ WorkersMove /\ MessagesMove /\ AcceptedMoves /\ RunsMove /\ Came
BY StatusOnlyMoves, WorkersOnlyMove, MessagesOnlyMove, AcceptedOnlyMoves, RunsOnlyMove, WorkersCome
DEF IInv, Came

THEOREM NextKeeps == IInv /\ [Next]_vars => IInv'
<1>. SUFFICES ASSUME IInv, [Next]_vars PROVE IInv'
    OBVIOUS
<1>1. TypeOK' /\ CallsOK'
    BY TypeKept, CallsKept DEF IInv
<1>2. NamesExist' /\ DeliveriesHeld' /\ FailsOnlyLive' /\ OneLiveIncident'
    BY StepMoves, NamesKept, HeldKept, FailsOnlyLiveKept, OneLiveKept DEF IInv
<1>3. RunsAfterOpen' /\ OneDiagnosisAtATime' /\ RunsOwned' /\ FailedOnlyAfterDeadLetter'
    BY StepMoves, RunsAfterOpenKept, OneDiagnosisKept, RunsOwnedKept, DeadLetterKept DEF IInv
<1>4. OpenCarried'
    BY <1>3, StepMoves, OpenCarriedKept DEF IInv
<1>. QED
    BY <1>1, <1>2, <1>3, <1>4 DEF IInv

-----------------------------------------------------------------------------
(* NothingLost.                                                            *)

(* An incident leaves OPEN for another live status only in the hands of a  *)
(* worker, or of the analyze endpoint, which has then still to publish.    *)
LEMMA OpenLeaves ==
    ASSUME TypeOK, CallsOK, FailsOnlyLive, [Next]_vars,
           NEW i \in Incident, status[i] = "OPEN", status'[i] # "OPEN", Live(i)'
    PROVE  \/ \E w \in Worker : /\ At(w, "analyze") /\ IncOf(w) = i
                                /\ worker'[w].pc \in {"start", "route"}
           \/ i \in stranded' \/ \E c \in Api : Analyzing(c, i)'
<1>0. status \in [Incident -> Status \cup {"ABSENT"}]
    BY DEF TypeOK
<1>1. ASSUME NEW w \in Worker, Analyze(w)
      PROVE  \E v \in Worker : /\ At(v, "analyze") /\ IncOf(v) = i
                               /\ worker'[v].pc \in {"start", "route"}
  <2>1. At(w, "analyze") /\ IncOf(w) = i
      BY <1>0, <1>1 DEF Analyze
  <2>2. worker'[w].pc \in {"start", "route"}
      BY <1>1, GotoPlace DEF Analyze, WorkerPC
  <2>. QED
      BY <2>1, <2>2
<1>2. ASSUME NEW w \in Worker, RequestApproval(w) \/ TerminalWrite(w)
      PROVE  FALSE
    BY <1>0, <1>2 DEF RequestApproval, TerminalWrite, Live, Terminal
<1>3. ASSUME NEW c \in Api, Insert(c) \/ InsertFails(c)
      PROVE  FALSE
    BY <1>0, <1>3 DEF Insert, InsertFails
<1>4. ASSUME NEW j \in Incident, OutsideMove(j)
      PROVE  FALSE
    BY <1>0, <1>4 DEF OutsideMove, OutsideTargets, Live, Terminal, InRemediation
<1>5. ASSUME NEW c \in Api, NEW j \in Incident, AnalyzeCall(c, j)
      PROVE  i \in stranded' \/ Analyzing(c, i)'
  <2>1. i = j
      BY <1>0, <1>5 DEF AnalyzeCall
  <2>2. CASE Serve(c, "publish", i, "analyze")
    <3>1. api'[c] = [pc |-> "publish", inc |-> i, via |-> "analyze"]
        BY <2>2, ServeEffect
    <3>. QED
        BY <3>1 DEF Analyzing, ApiAt
  <2>. QED
      BY <1>5, <2>1, <2>2 DEF AnalyzeCall, FaultAbout
<1>6. CASE UNCHANGED status
    BY <1>6
<1>. QED
    BY <1>1, <1>2, <1>3, <1>4, <1>5, <1>6
    DEF Next, vars, ApiCall, ApiStep, WorkerStep, Fire, Refetch, CheckRuns, Publish,
        PublishFails, ApiCrash, Deliver, Get, ListRuns, AnalyzeFails, Start, StartFails,
        Conclude, Complete, Fail, Route, RouteFails, TerminalRead, Ack, Crash, Disconnect,
        RetryExpires

(* An analyze call under way about i goes on, publishes or strands i.      *)
LEMMA AnalyzeEnds ==
    ASSUME TypeOK, CallsOK, DeliveriesHeld, DeliveriesHeld', [Next]_vars,
           NEW c \in Api, NEW i \in Incident, Analyzing(c, i)
    PROVE  Analyzing(c, i)' \/ i \in stranded' \/ Carried(i)'
<1>1. ASSUME Enqueue(i), UNCHANGED worker
      PROVE  Carried(i)'
  <2>1. PICK m \in FreeSlots : msg' = [msg EXCEPT ![m] = [at |-> "main", inc |-> i, retries |-> 0]]
      BY <1>1 DEF Enqueue
  <2>2. m \in Msg /\ msg[m].at = "none" /\ msg'[m].at = "main" /\ msg'[m].inc = i
      BY <2>1, MessageEffects DEF FreeSlots
  <2>3. \A w \in Worker : worker'[w].msg # m
      BY <1>1, <2>2, NoneAssumption DEF DeliveriesHeld, Holds
  <2>. QED
      BY <2>2, <2>3 DEF Carried, Carries
<1>2. CASE Publish(c) \/ PublishFails(c) \/ ApiCrash(c)
    BY <1>1, <1>2 DEF Publish, PublishFails, ApiCrash, FaultAbout, AnalyzedBy, Analyzing
<1>3. CASE api'[c] = api[c]
    BY <1>3 DEF Analyzing, ApiAt
<1>4. ASSUME NEW d \in Api, d # c, OnlyApi(d)
      PROVE  api'[c] = api[c]
    BY <1>4 DEF OnlyApi
<1>5. ASSUME NEW d \in Api, NEW j \in Incident, NEW via \in {"webhook", "create", "analyze"},
             Duplicate(d, j, via)
      PROVE  OnlyApi(d)
    BY <1>5, DuplicateEffect
<1>6. ASSUME NEW d \in Api, ApiCall(d)
      PROVE  api'[c] = api[c]
  <2>1. d # c
      BY <1>6 DEF ApiCall, AnalyzeCall, Fire, Analyzing, ApiAt
  <2>2. CASE \E j \in Incident : AnalyzeCall(d, j)
      BY <1>4, <2>1, <2>2, ServeEffect DEF AnalyzeCall
  <2>3. CASE \E j \in Incident, via \in {"webhook", "create"} : Fire(d, j, via)
      BY <1>4, <1>5, <2>1, <2>3, ServeEffect DEF Fire
  <2>. QED
      BY <1>6, <2>2, <2>3 DEF ApiCall
<1>7. ASSUME NEW d \in Api, d # c, ApiStep(d) \/ ApiCrash(d)
      PROVE  api'[c] = api[c]
  <2>1. ASSUME Refetch(d) PROVE OnlyApi(d)
    <3>1. api[d].via \in {"webhook", "create", "analyze"}
        BY <2>1, EntryOf DEF Refetch, CallsOK, ApiAt, Call
    <3>. QED
        BY <1>5, <2>1, <3>1, ReturnEffect DEF Refetch
  <2>2. OnlyApi(d)
      BY <1>7, <2>1, ReturnEffect, ApiGotoEffect DEF ApiStep, Insert, InsertFails, CheckRuns, Publish,
         PublishFails, ApiCrash, Accept
  <2>. QED
      BY <1>4, <1>7, <2>2
<1>8. ASSUME ApiStep(c)
      PROVE  Publish(c) \/ PublishFails(c)
    BY <1>8 DEF ApiStep, Insert, InsertFails, Refetch, CheckRuns, Analyzing, ApiAt
<1>9. CASE UNCHANGED api
    BY <1>3, <1>9
<1>. QED
    BY <1>2, <1>3, <1>6, <1>7, <1>8, <1>9
    DEF Next, vars, WorkerStep, Deliver, Get, ListRuns, Analyze, AnalyzeFails, Start, StartFails,
        RequestApproval, Conclude, Complete, Fail, Route, RouteFails, TerminalRead, TerminalWrite,
        Ack, Crash, Disconnect, RetryExpires, OutsideMove

LEMMA NothingLostKept ==
    ASSUME IInv, [Next]_vars, IInv', NothingLost
    PROVE  NothingLost'
<1>0. /\ TypeOK /\ CallsOK /\ FailsOnlyLive /\ NamesExist /\ DeliveriesHeld /\ RunsOwned
      /\ StatusMoves /\ WorkersMove /\ MessagesMove /\ AcceptedMoves /\ RunsMove /\ Came
      /\ DeliveriesHeld' /\ stranded \subseteq stranded'
    BY StepMoves, FaultsOnlyStrike DEF IInv
<1>1. \A w \in Worker :
          worker'[w].pc # "idle" => worker'[w].msg # None \/ worker'[w].inc \in stranded'
  <2>. TAKE w \in Worker
  <2>. HAVE worker'[w].pc # "idle"
  <2>1. CASE TakesDelivery(w)
    <3>1. PICK m \in Msg : worker'[w] = [NoWork EXCEPT !.pc = "get", !.msg = m, !.inc = msg[m].inc]
        BY <2>1 DEF TakesDelivery
    <3>. QED
        BY <3>1, NoneAssumption DEF NoWork
  <2>2. CASE worker'[w] = worker[w] \/ GoesOn(w)
      BY <1>0, <2>2 DEF GoesOn, NothingLost, Holds, At, IncOf
  <2>3. worker'[w] # NoWork
      BY DEF NoWork
  <2>. QED
      BY <1>0, <2>1, <2>2, <2>3 DEF WorkersMove
<1>2. ASSUME NEW w \in Worker, NEW i \in Incident, worker'[w].pc \in {"start", "route"},
             worker'[w].inc = i, i \notin stranded'
      PROVE  Carried(i)'
  <2>. DEFINE m == worker'[w].msg
  <2>1. m # None
      BY <1>1, <1>2
  <2>2. /\ m \in Msg /\ msg'[m].at = "unacked" /\ msg'[m].inc = i
        /\ \A v \in Worker : worker'[v].msg = m => v = w
      BY <1>0, <1>2, <2>1 DEF DeliveriesHeld, Holds, IncOf
  <2>3. \A v \in Worker : worker'[v].pc \in {"terminalRead", "terminalWrite", "ack"} => worker'[v].msg # m
      BY <1>2, <2>2
  <2>. QED
      BY <2>2, <2>3 DEF Carried, Carries, Settling
<1>3. ASSUME NEW i \in Incident, Live(i)', ActiveRuns(i) # {}, i \notin stranded'
      PROVE  ActiveRuns(i)' # {} \/ Carried(i)'
  <2>1. PICK r \in Run : run[r].inc = i /\ run[r].st \in ActiveRun
      BY <1>3 DEF ActiveRuns
  <2>2. CASE run'[r].inc = i /\ run'[r].st \in ActiveRun
      BY <2>2 DEF ActiveRuns
  <2>3. ASSUME NEW w \in Worker, FailedBy(w, r)
        PROVE  Carried(i)'
    <3>1. IncOf(w) = i /\ worker'[w].pc = "route"
        BY <1>0, <2>1, <2>3 DEF FailedBy, RunsOwned, Diagnosing, At
    <3>2. worker'[w].inc = i
        BY <1>0, <3>1, SameIncident DEF IncOf
    <3>. QED
        BY <1>2, <1>3, <3>1, <3>2
  <2>4. ~\E w \in Worker : CreatedFor(w, r)
      BY <2>1 DEF CreatedFor, FreshRuns
  <2>. QED
      BY <1>0, <2>1, <2>2, <2>3, <2>4 DEF RunsMove, CompletedBy, ActiveRun
<1>4. ASSUME NEW i \in Incident, Live(i)', i \in accepted' \/ status'[i] # "OPEN", i \notin stranded'
      PROVE  ActiveRuns(i)' # {} \/ Carried(i)' \/ \E c \in Api : Analyzing(c, i)'
  <2>1. CASE Live(i) /\ (i \in accepted \/ status[i] # "OPEN")
    <3>1. ActiveRuns(i) # {} \/ Carried(i) \/ \E c \in Api : Analyzing(c, i)
        BY <1>0, <1>4, <2>1 DEF NothingLost
    <3>2. status'[i] \notin Terminal
        BY <1>4 DEF Live
    <3>. QED
        BY <1>0, <1>3, <1>4, <3>1, <3>2, CarriedOrDone, AnalyzeEnds
  <2>2. CASE i \in accepted' \ accepted /\ Live(i) /\ status[i] = "OPEN"
    <3>1. NewlyAccepted(i)
        BY <1>0, <2>2 DEF AcceptedMoves
    <3>2. ASSUME NEW m \in Msg, msg[m].at = "none", msg'[m].at = "main", msg'[m].inc = i
          PROVE  Carried(i)'
      <4>1. \A w \in Worker : worker'[w].msg # m
          BY <1>0, <3>1, <3>2, NoneAssumption DEF NewlyAccepted, DeliveriesHeld, Holds
      <4>. QED
          BY <3>2, <4>1 DEF Carried, Carries
    <3>. QED
        BY <1>3, <1>4, <2>2, <3>1, <3>2 DEF NewlyAccepted
  <2>3. CASE status[i] = "OPEN" /\ status'[i] # "OPEN"
    <3>1. ASSUME NEW w \in Worker, At(w, "analyze"), IncOf(w) = i,
                 worker'[w].pc \in {"start", "route"}
          PROVE  Carried(i)'
      <4>1. worker'[w].inc = i
          BY <1>0, <3>1, SameIncident DEF IncOf
      <4>. QED
          BY <1>2, <1>4, <3>1, <4>1
    <3>. QED
        BY <1>0, <1>4, <2>3, <3>1, OpenLeaves
  <2>4. CASE ~Live(i)
    <3>1. status[i] = "ABSENT" /\ status'[i] = "OPEN" /\ UNCHANGED accepted
        BY <1>0, <1>4, <2>4 DEF StatusMoves, Live
    <3>2. i \notin accepted
        BY <1>0, <3>1 DEF NamesExist, Exists
    <3>. QED
        BY <1>4, <3>1, <3>2
  <2>. QED
      BY <1>4, <2>1, <2>2, <2>3, <2>4
<1>. QED
    BY <1>1, <1>4 DEF NothingLost, Holds, At, IncOf

-----------------------------------------------------------------------------
(* The theorems.                                                           *)

(* IInv holds in every reachable state.                                    *)
THEOREM Invariance == Spec => []IInv
BY InitEstablishes, NextKeeps, PTL DEF Spec

(* Every variable keeps its type; in particular the copy of a message that *)
(* was retried MaxRetries times is a dead letter (failedMessageRoute).     *)
THEOREM TypeCorrect == Spec => []TypeOK
<1>1. IInv => TypeOK
    BY DEF IInv
<1>. QED
    BY <1>1, Invariance, PTL

(* Whatever notifications race in Create, a fingerprint has at most one    *)
(* incident that is not terminal (OneLiveIncident; createLocked).          *)
THEOREM AtMostOneLiveIncident == Spec => []OneLiveIncident
<1>1. IInv => OneLiveIncident
    BY DEF IInv
<1>. QED
    BY <1>1, Invariance, PTL

(* However messages are duplicated, redelivered, retried or requeued by a  *)
(* broken connection, an incident is diagnosed by one worker at a time     *)
(* (OneDiagnosisAtATime; RunDiagnosis and CreateRun).                      *)
THEOREM NeverDiagnosedTwice == Spec => []OneDiagnosisAtATime
<1>1. IInv => OneDiagnosisAtATime
    BY DEF IInv
<1>. QED
    BY <1>1, Invariance, PTL

(* The dead-letter callback of messaging.Consumer touches an incident only *)
(* when its message is in the dead-letter queue                            *)
(* (FailedOnlyAfterDeadLetter; republishConfirmed, finishDeadLetter).      *)
THEOREM DeadLetterFirst == Spec => []FailedOnlyAfterDeadLetter
<1>1. IInv => FailedOnlyAfterDeadLetter
    BY DEF IInv
<1>. QED
    BY <1>1, Invariance, PTL

(* A firing alert answered 2xx is never dropped: its incident is closed,   *)
(* has an active run or a message with the broker, whatever database,      *)
(* broker and process failures strike and whichever endpoints are in use;  *)
(* unless, beyond OPEN, the channel of its delivery broke or the analyze   *)
(* endpoint moved it without having published (NoAcceptedAlertLost;        *)
(* Webhook, Analyze, Consumer.Subscribe, RunDiagnosis, Recorder).          *)
THEOREM AcceptedAlertNotLost == Spec => []NoAcceptedAlertLost
<1>1. Init => NothingLost
    BY DEF Init, NothingLost, NoWork, At, Live
<1>2. IInv /\ NothingLost /\ [Next]_vars /\ IInv' => NothingLost'
    BY NothingLostKept
<1>3. IInv /\ NothingLost => NoAcceptedAlertLost
  <2>1. ASSUME IInv, NothingLost, NEW i \in accepted, status[i] \notin Terminal
        PROVE  \/ ActiveRuns(i) # {} \/ InFlight(i)
               \/ status[i] # "OPEN" /\ (i \in stranded \/ \E c \in Api : Analyzing(c, i))
    <3>1. i \in Incident /\ Live(i)
        BY <2>1 DEF IInv, NamesExist, Exists, Live
    <3>2. CASE status[i] = "OPEN"
        BY <2>1, <3>2 DEF IInv, OpenCarried, Carried, Carries, InFlight
    <3>. QED
        BY <2>1, <3>1, <3>2 DEF NothingLost, Carried, Carries, InFlight
  <2>. QED
      BY <2>1 DEF NoAcceptedAlertLost
<1>. QED
    BY <1>1, <1>2, <1>3, Invariance, PTL DEF Spec

-----------------------------------------------------------------------------
(* The life of an incident.                                                *)

LEMMA TableOfLifecycle ==
    /\ \A s, next : CanTransition(s, next) =>
          Lifecycle!CanTransition(s, next) /\ next \in Lifecycle!Status
    /\ Lifecycle!Terminal = Terminal /\ Lifecycle!InRemediation = InRemediation
<1>1. ASSUME NEW s, NEW next, CanTransition(s, next)
      PROVE  Lifecycle!CanTransition(s, next) /\ next \in Lifecycle!Status
  <2>1. AllowedTargets(s) = Lifecycle!AllowedTargets(s)
      BY DEF AllowedTargets, Lifecycle!AllowedTargets
  <2>2. next \in AllowedTargets(s)
      BY <1>1 DEF CanTransition
  <2>3. next \in Status
      BY <2>2 DEF AllowedTargets, Status
  <2>. QED
      BY <2>1, <2>2, <2>3 DEF Lifecycle!CanTransition, Lifecycle!Status, Status
<1>. QED
    BY <1>1 DEF Lifecycle!Terminal, Terminal, Lifecycle!InRemediation, InRemediation

(* A write that the table allows is a move.                                *)
LEMMA TableMoves ==
    ASSUME NEW i \in Incident, NEW next, CanTransition(status[i], next),
           status' = [status EXCEPT ![i] = next]
    PROVE  Lifecycle!Next
<1>1. Lifecycle!Move(i)
    BY TableOfLifecycle DEF Lifecycle!Move, Lifecycle!Changes
<1>. QED
    BY <1>1 DEF Lifecycle!Next

LEMMA LifecycleNext ==
    ASSUME IInv, [Next]_vars
    PROVE  [Lifecycle!Next]_status
<1>. /\ CanTransition("OPEN", "INVESTIGATING")
     /\ CanTransition("INVESTIGATING", "WAITING_APPROVAL")
    BY DEF CanTransition, AllowedTargets
<1>1. CASE \E c \in Api, i \in Incident : AnalyzeCall(c, i)
    BY <1>1, TableMoves DEF AnalyzeCall
<1>2. ASSUME NEW c \in Api, Insert(c) \/ InsertFails(c)
      PROVE  [Lifecycle!Next]_status
  <2>1. CASE UNCHANGED status
      BY <2>1
  <2>2. CASE ~UNCHANGED status
    <3>1. PICK i \in Incident : i = api[c].inc /\ status[i] = "ABSENT"
        BY <1>2 DEF Insert, InsertFails, IInv, CallsOK, ApiAt
    <3>2. ~Known(i) /\ status' = [status EXCEPT ![i] = "OPEN"]
        BY <1>2, <2>2, <3>1 DEF Insert, InsertFails
    <3>3. Lifecycle!OthersClosed(i)
        BY <3>2, TableOfLifecycle DEF Known, SameAlert, Live, Lifecycle!OthersClosed, Lifecycle!Live
    <3>4. Lifecycle!Open(i)
        BY <3>1, <3>2, <3>3 DEF Lifecycle!Open, Lifecycle!Changes
    <3>. QED
        BY <3>4 DEF Lifecycle!Next
  <2>. QED
      BY <2>1, <2>2
<1>3. ASSUME NEW w \in Worker, Analyze(w) \/ RequestApproval(w) \/ TerminalWrite(w)
      PROVE  [Lifecycle!Next]_status
  <2>1. IncOf(w) \in Incident
      BY <1>3 DEF Analyze, RequestApproval, TerminalWrite, At, IInv, NamesExist, Exists
  <2>2. CASE Analyze(w) \/ RequestApproval(w)
      BY <2>1, <2>2, TableMoves DEF Analyze, RequestApproval
  <2>3. CASE TerminalWrite(w) /\ ~UNCHANGED status
    <3>1. /\ status[IncOf(w)] = worker[w].saw
          /\ status' = [status EXCEPT ![IncOf(w)] = "FAILED"]
        BY <2>3 DEF TerminalWrite
    <3>2. CanTransition(worker[w].saw, "FAILED")
        BY <2>3 DEF TerminalWrite, IInv, FailsOnlyLive
    <3>. QED
        BY <2>1, <3>1, <3>2, TableMoves
  <2>. QED
      BY <1>3, <2>2, <2>3
<1>4. ASSUME NEW i \in Incident, OutsideMove(i)
      PROVE  [Lifecycle!Next]_status
  <2>1. PICK next \in OutsideTargets(status[i]) : status' = [status EXCEPT ![i] = next]
      BY <1>4 DEF OutsideMove
  <2>2. CASE CanTransition(status[i], next)
      BY <2>1, <2>2, TableMoves
  <2>3. CASE ~CanTransition(status[i], next)
    <3>1. next = "RESOLVED" /\ status[i] \notin Terminal \cup InRemediation \cup {"ABSENT"}
        BY <2>1, <2>3 DEF OutsideTargets, CanTransition, AllowedTargets
    <3>2. Lifecycle!Recover(i)
        BY <2>1, <3>1, TableOfLifecycle DEF Lifecycle!Recover, Lifecycle!Live, Lifecycle!Changes
    <3>. QED
        BY <3>2 DEF Lifecycle!Next
  <2>. QED
      BY <2>2, <2>3
<1>5. CASE UNCHANGED status
    BY <1>5
<1>. QED
    BY <1>1, <1>2, <1>3, <1>4, <1>5
    DEF Next, vars, ApiCall, ApiStep, WorkerStep, Fire, Refetch, CheckRuns, Publish,
        PublishFails, ApiCrash, Deliver, Get, ListRuns, AnalyzeFails, Start, StartFails,
        Conclude, Complete, Fail, Route, RouteFails, TerminalRead, Ack, Crash, Disconnect,
        RetryExpires

(* Diagnosis implements IncidentLifecycle: whatever notifications,         *)
(* workers, dead letters and recoveries race, an incident is opened only   *)
(* when no other of its alert is live, its status moves along the table or *)
(* by the recovery, and closed it stays closed (createLocked,              *)
(* transitionWithAudit, ResolveExternally).                                *)
THEOREM FollowsLifecycle == Spec => ImplementsLifecycle
<1>1. Init => Lifecycle!Init
    BY TableOfLifecycle DEF Init, Lifecycle!Init, Lifecycle!Live
<1>2. IInv /\ [Next]_vars => [Lifecycle!Next]_status
    BY LifecycleNext
<1>. QED
    BY <1>1, <1>2, Invariance, PTL DEF Spec, ImplementsLifecycle, Lifecycle!Spec


(* How far an incident has come.                                           *)
Rank(s) ==
    CASE s = "ABSENT"           -> 0
      [] s = "OPEN"             -> 1
      [] s = "INVESTIGATING"    -> 2
      [] s \in {"NEED_APPROVAL", "WAITING_APPROVAL"} -> 3
      [] s = "MITIGATING"       -> 4
      [] s = "VERIFYING"        -> 5
      [] OTHER                  -> 6

LEMMA TableAscends ==
    /\ \A s \in Status \cup {"ABSENT"} : Rank(s) \in Nat
    /\ \A s, next \in Status : CanTransition(s, next) => Rank(s) < Rank(next)
    /\ \A s \in Status \ Terminal : Rank(s) < Rank("RESOLVED")
    /\ Rank("ABSENT") < Rank("OPEN")
<1>. QED
    BY SMT DEF Rank, Status, Terminal, CanTransition, AllowedTargets

StatusAdvances ==
    \A i \in Incident : status'[i] # status[i] => Rank(status[i]) < Rank(status'[i])

LEMMA LifecycleAscends ==
    ASSUME TypeOK, TypeOK', [Lifecycle!Next]_status
    PROVE  StatusAdvances
<1>1. CASE UNCHANGED status
    BY <1>1 DEF StatusAdvances
<1>2. CASE Lifecycle!Next
  <2>1. PICK j \in Incident : Lifecycle!Open(j) \/ Lifecycle!Move(j) \/ Lifecycle!Recover(j)
      BY <1>2 DEF Lifecycle!Next
  <2>2. status \in [Incident -> Status \cup {"ABSENT"}]
      BY DEF TypeOK
  <2>3. ASSUME NEW next, Lifecycle!Changes(j, next), Rank(status[j]) < Rank(next)
        PROVE  StatusAdvances
      BY <2>2, <2>3 DEF Lifecycle!Changes, StatusAdvances
  <2>4. CASE Lifecycle!Open(j)
      BY <2>3, <2>4, TableAscends DEF Lifecycle!Open
  <2>5. CASE Lifecycle!Move(j)
    <3>1. PICK next \in Status :
            Lifecycle!CanTransition(status[j], next) /\ Lifecycle!Changes(j, next)
        BY <2>5 DEF Lifecycle!Move, Lifecycle!Status, Status
    <3>2. AllowedTargets(status[j]) = Lifecycle!AllowedTargets(status[j])
        BY DEF AllowedTargets, Lifecycle!AllowedTargets
    <3>3. CanTransition(status[j], next)
        BY <3>1, <3>2 DEF CanTransition, Lifecycle!CanTransition
    <3>4. status[j] \in Status
        BY <2>2, <3>3 DEF CanTransition, AllowedTargets, Status
    <3>. QED
        BY <2>3, <3>1, <3>3, <3>4, TableAscends
  <2>6. CASE Lifecycle!Recover(j)
    <3>1. status[j] \in Status \ Terminal /\ Lifecycle!Changes(j, "RESOLVED")
        BY <2>2, <2>6, TableOfLifecycle DEF Lifecycle!Recover, Lifecycle!Live
    <3>. QED
        BY <2>3, <3>1, TableAscends
  <2>. QED
      BY <2>1, <2>4, <2>5, <2>6
<1>. QED
    BY <1>1, <1>2

(* A status that an incident has left is never seen again, whoever writes: *)
(* so a write under the version that was read is a write under the status  *)
(* that was read, and no stale writer finds "its" status back (postgres.go *)
(* updateIncident, WHERE version).                                         *)
THEOREM StatusesNeverReturn == Spec => [][StatusAdvances]_vars
<1>1. TypeOK /\ TypeOK' /\ [Lifecycle!Next]_status => [StatusAdvances]_vars
    BY LifecycleAscends
<1>. QED
    BY <1>1, TypeCorrect, FollowsLifecycle, PTL DEF ImplementsLifecycle, Lifecycle!Spec

=============================================================================
