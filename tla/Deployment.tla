----------------------------- MODULE Deployment -----------------------------
(***************************************************************************)
(* One API and one worker process, started from configuration files, and   *)
(* one incident that passes through both: who is let in, where the alert   *)
(* goes, what may be restarted by whom, and on which measurements a        *)
(* restart is found to have worked.  Each handler is one step here: its    *)
(* interleavings are the subject of Diagnosis and Remediation, while the   *)
(* configuration, which they leave open, is the subject of this module.    *)
(* The verification of a restart is the one of Verification, its samples   *)
(* now being what the gatherer measured.                                   *)
(***************************************************************************)
EXTENDS Settings, Verification

CONSTANTS
    Deployments,   \* files in use: records [api |-> file, worker |-> file]
    Token,         \* what a request may carry as its token, "" for none
    WorkerName,    \* targets the agent may ask to restart, "" for none
    Consumers,     \* values of the three queries: in halves,
    Depth,         \*    in halves
    Rate           \*    and in thousandths

(* What is recorded of a request without authentication names no operator. *)
ASSUME ActorAssumption == \A d \in Deployments : Loaded(d.api).actor # "anonymous"

ASSUME FiguresAssumption ==
    \A d \in Deployments : Loaded(d.api).attempts \in Int /\ Loaded(d.api).required \in Int

ASSUME ReadingsAssumption == Consumers \subseteq Int /\ Depth \subseteq Int /\ Rate \subseteq Int

VARIABLES
    file,        \* the file each process is started with
    at,          \* "down", "up" or "exited", for each process
    incident,    \* its status, "ABSENT" before it exists
    alerted,     \* whether a webhook about it was accepted
    message,     \* agent.requested: "none", "queued" or "dead" (in the DLQ)
    diagnosed,   \* whether a run is active or completed
    faults,      \* history: the failures that took the message of an alert
    approval,    \* status of the approval
    target,      \* and the worker it names
    restart,     \* the restart carried out, or NoRestart
    measured     \* the readings behind the current streak

verification == <<attempts, required, samples, streak, ctx, pc>>
alertVars    == <<incident, alerted, message, diagnosed, faults>>
remedyVars   == <<approval, target, restart>>
deploymentVars ==
    <<file, at, alertVars, remedyVars, measured, verification>>

Process == {"api", "worker"}
NoRestart == [via |-> "none", target |-> "", token |-> "", by |-> ""]

In(p) == Loaded(file[p])
Up(p) == at[p] = "up"

-----------------------------------------------------------------------------
(* Starting (bootstrap.New): every part that cannot be built ends the      *)
(* process, and so does a dependency that cannot be reached.               *)

(* BuildRunbookRetriever: retrieval is not optional.                       *)
KnowledgeReady(s) ==
    /\ {"embedding.base_url", "embedding.model", "qdrant.url"} \subseteq s.given
    /\ RerankerSound(s)
    /\ s.store = "qdrant"

(* buildExecution and buildGatherer: the check of Validate once more.      *)
ExecutionReady(s) ==
    s.mode = "http" =>
        "execution.restart_url" \in s.given /\ s.vmode = "prometheus"

Boots(p) ==
    /\ Loads(file[p])
    /\ KnowledgeReady(In(p)) /\ ExecutionReady(In(p))
    /\ p = "worker" => "rabbitmq.url" \in In(p).given

Start(p) ==
    /\ at[p] = "down"
    /\ \/ at' = [at EXCEPT ![p] = "exited"]
       \/ Boots(p) /\ at' = [at EXCEPT ![p] = "up"]
    /\ UNCHANGED <<file, alertVars, remedyVars, measured, verification>>

(* buildDatabases: without a DSN each process keeps its own memory.        *)
Shared == \A p \in Process : "postgres.dsn" \in In(p).given

(* buildAgent *)
HasModel(s) == {"llm.base_url", "llm.model"} \subseteq s.given

-----------------------------------------------------------------------------
(* The entrance (router.New and the middleware).                           *)

AuthEnabled(s) == {s.webhook, s.read, s.admin} # {""}

(* A header is trimmed; an empty token matches nothing, not even an empty  *)
(* one, so that a group without a token of its own is closed.              *)
TokenMatches(configured, t) ==
    LET presented == IF t = " " THEN "" ELSE t
    IN  "" \notin {configured, presented} /\ configured = presented

(* Without any token there is no authentication at all.                    *)
LetIn(configured, t) == Up("api") /\ (AuthEnabled(In("api")) => TokenMatches(configured, t))

AsAdmin(t)   == LetIn(In("api").admin, t)
AsWebhook(t) == LetIn(In("api").webhook, t)

(* setActor and approvalActor: never what the request says.                *)
Actor ==
    LET s == In("api") IN
    IF ~AuthEnabled(s) THEN "anonymous" ELSE IF s.actor = "" THEN "admin" ELSE s.actor

(* PublishAgentRequested does nothing, successfully, without RabbitMQ.     *)
(* Copies of the message are not counted: see Handled.                     *)
Published == IF "rabbitmq.url" \in In("api").given THEN "queued" ELSE message

(* With it, the call may fail, and the message be with the broker or not.  *)
PublicationFails ==
    /\ "rabbitmq.url" \in In("api").given
    /\ message' \in {message, "queued"}

(* POST /alerts: a new incident, or one still OPEN, is queued; what is     *)
(* beyond OPEN is left alone, and a recurrence after it is another one.    *)
(* An alert whose publication failed is not accepted: the answer is 503.   *)
Webhook(t) ==
    /\ AsWebhook(t) /\ incident \notin {"RESOLVED", "FAILED"}
    /\ IF incident \in {"ABSENT", "OPEN"}
         THEN /\ incident' = "OPEN"
              /\ \/ message' = Published /\ alerted' = TRUE
                 \/ PublicationFails /\ UNCHANGED alerted
         ELSE alerted' = TRUE /\ UNCHANGED <<incident, message>>
    /\ UNCHANGED <<file, at, diagnosed, faults, remedyVars, measured, verification>>

(* POST /incidents *)
Create(t) ==
    /\ AsAdmin(t) /\ incident = "ABSENT"
    /\ incident' = "OPEN"
    /\ UNCHANGED <<file, at, alerted, message, diagnosed, faults, remedyVars, measured,
                   verification>>

(* POST /incidents/:id/analyze: a publication that fails is reported in    *)
(* the answer, which is a 200, and the incident stays moved.               *)
Analyze(t) ==
    /\ AsAdmin(t) /\ incident = "OPEN"
    /\ incident' = "INVESTIGATING"
    /\ \/ message' = Published /\ UNCHANGED faults
       \/ PublicationFails /\ faults' = faults \cup {"publication"}
    /\ UNCHANGED <<file, at, alerted, diagnosed, remedyVars, measured, verification>>

-----------------------------------------------------------------------------
(* The worker (RunDiagnosis behind the consumer).                          *)

Delivered == Up("worker") /\ message = "queued"

(* One copy ends as acknowledged or dead; another may be left, published   *)
(* twice or delivered again.                                               *)
Handled(end) == message' \in {end, "queued"}

(* The incident is not in this process' store: retries, then the DLQ, and  *)
(* no incident for the terminal callback to fail.                          *)
Miss ==
    /\ Delivered /\ ~Shared
    /\ Handled("dead")
    /\ UNCHANGED <<file, at, incident, alerted, diagnosed, faults, remedyVars, measured,
                   verification>>

Skip ==
    /\ Delivered /\ Shared
    /\ incident \in {"RESOLVED", "FAILED"} \/ diagnosed
    /\ Handled("none")
    /\ UNCHANGED <<file, at, incident, alerted, diagnosed, faults, remedyVars, measured,
                   verification>>

Undiagnosed == Delivered /\ Shared /\ incident \in {"OPEN", "INVESTIGATING"} /\ ~diagnosed

(* No LLM: the message is acknowledged all the same.                       *)
NoModel ==
    /\ Undiagnosed /\ ~HasModel(In("worker"))
    /\ incident' = "INVESTIGATING" /\ Handled("none")
    /\ UNCHANGED <<file, at, alerted, diagnosed, faults, remedyVars, measured, verification>>

(* The diagnosis concludes; a restart the tool refused is only an answer   *)
(* to the model.                                                           *)
Conclude ==
    /\ Undiagnosed /\ HasModel(In("worker"))
    /\ incident' = "INVESTIGATING" /\ diagnosed' = TRUE /\ Handled("none")
    /\ UNCHANGED <<file, at, alerted, faults, remedyVars, measured, verification>>

(* An attempt fails after it moved the incident; the message is retried.   *)
Retry ==
    /\ Undiagnosed
    /\ incident' = "INVESTIGATING"
    /\ UNCHANGED <<file, at, alerted, message, diagnosed, faults, remedyVars, measured,
                   verification>>

(* The retries are used up: the terminal callback fails the incident, or   *)
(* fails itself, which is logged, and the message is acknowledged anyway.  *)
DeadLetter ==
    /\ Undiagnosed /\ Handled("dead")
    /\ \/ incident' = "FAILED" /\ UNCHANGED faults
       \/ incident' \in {incident, "INVESTIGATING"} /\ faults' = faults \cup {"callback"}
    /\ UNCHANGED <<file, at, alerted, diagnosed, remedyVars, measured, verification>>

(* checkTarget: only the HTTP mode has a whitelist, and it fails closed.   *)
TargetAllowed(s, name) ==
    /\ name # ""
    /\ s.mode = "http" => \E k \in DOMAIN s.targets : s.targets[k] = name

(* The tool's request, under the worker's configuration.                   *)
RequestRestart ==
    /\ Undiagnosed /\ HasModel(In("worker")) /\ In("worker").approval
    /\ \E name \in WorkerName : TargetAllowed(In("worker"), name) /\ target' = name
    /\ approval' = "PENDING" /\ incident' = "WAITING_APPROVAL"
    /\ diagnosed' = TRUE /\ Handled("none")
    /\ UNCHANGED <<file, at, alerted, faults, restart, measured, verification>>

-----------------------------------------------------------------------------
(* The decision and the restart, in the API and under its configuration.   *)

Decidable == approval = "PENDING" /\ incident = "WAITING_APPROVAL"

Reject(t) ==
    /\ AsAdmin(t) /\ Decidable
    /\ approval' = "REJECTED" /\ incident' = "FAILED"
    /\ UNCHANGED <<file, at, alerted, message, diagnosed, faults, target, restart, measured,
                   verification>>

(* Mutant: the target is not checked again before the restart.             *)
ExecutableUnchecked == TRUE

(* Tool.Execute checks the target again: the list may have changed since.  *)
Executable == TargetAllowed(In("api"), target)

Granted(t) ==
    /\ AsAdmin(t) /\ Decidable
    /\ UNCHANGED <<file, at, alerted, message, diagnosed, faults, target, measured, verification>>

(* Refused by the check: nothing was called.                               *)
ApproveRefused(t) ==
    /\ Granted(t) /\ ~Executable
    /\ approval' = "FAILED" /\ incident' = "FAILED"
    /\ UNCHANGED restart

(* Carried out; the endpoint may also answer with an error, or not in      *)
(* time, which leaves the incident where it is.                            *)
Approve(t) ==
    /\ Granted(t) /\ Executable
    /\ restart' = [via |-> In("api").mode, target |-> target, token |-> t, by |-> Actor]
    /\ \/ approval' = "EXECUTING" /\ incident' = "VERIFYING"
       \/ In("api").mode = "http" /\ approval' = "FAILED" /\ incident' = "FAILED"
       \/ In("api").mode = "http" /\ approval' = "UNKNOWN" /\ incident' = "MITIGATING"

-----------------------------------------------------------------------------
(* The verification, in the request that approved.                         *)

(* Mutant: the gathered numbers are rounded.                               *)
Rounded(x) == (x + 1) \div 2

(* int() of a number given in halves: towards zero.                        *)
Truncated(x) == IF x >= 0 THEN x \div 2 ELSE -((-x) \div 2)

(* Gather: three queries, of which the first to fail ends the sample; a    *)
(* reading holds the values obtained.  The mock always measures the same.  *)
Readings(s) ==
    IF s.vmode = "mock" THEN {<<10, 200, 1>>}
    ELSE {<< >>} \cup {<<c>> : c \in Consumers}
         \cup (Consumers \X Depth) \cup (Consumers \X Depth \X Rate)

(* Verify with the thresholds of DefaultConfig: 1, 1000 and 0.01.          *)
SampleOf(reading) ==
    IF Len(reading) < 3 THEN "error"
    ELSE IF /\ Truncated(reading[1]) >= 1
            /\ Truncated(reading[2]) <= 1000
            /\ reading[3] <= 10
         THEN "pass" ELSE "checks"

Verifying == incident = "VERIFYING" /\ Up("api")

Measure ==
    /\ Verifying
    /\ \E reading \in Readings(In("api")) :
          /\ Gather /\ samples' = Append(samples, SampleOf(reading))
          /\ measured' = IF SampleOf(reading) = "pass" THEN measured \cup {reading} ELSE {}
    /\ UNCHANGED <<file, at, alertVars, remedyVars>>

Advance ==
    /\ Verifying
    /\ Check \/ Wait \/ Cancel
    /\ UNCHANGED <<file, at, alertVars, remedyVars, measured>>

(* The verdict closes the incident; an interrupted verification fails it.  *)
(* Any other verdict is lost with a client that has left: the move runs on *)
(* its context, and the call's error makes the approval FAILED.            *)
Close ==
    /\ Verifying /\ approval = "EXECUTING" /\ pc \in Verdict
    /\ \/ /\ incident' = IF pc = "passed" THEN "RESOLVED" ELSE "FAILED"
          /\ approval' = "EXECUTED"
       \/ /\ ctx = "cancelled" /\ pc # "interrupted"
          /\ approval' = "FAILED" /\ UNCHANGED incident
    /\ UNCHANGED <<file, at, alerted, message, diagnosed, faults, target, restart, measured,
                   verification>>

-----------------------------------------------------------------------------
DeploymentInit ==
    /\ file \in Deployments
    /\ at = [p \in Process |-> "down"]
    /\ incident = "ABSENT" /\ alerted = FALSE /\ message = "none" /\ diagnosed = FALSE
    /\ faults = {}
    /\ approval = "ABSENT" /\ target = "" /\ restart = NoRestart
    /\ measured = {}
    /\ Init
    /\ <<attempts, required>> = Normalized(<<In("api").attempts, In("api").required>>)

DeploymentNext ==
    \/ \E p \in Process : Start(p)
    \/ \E t \in Token : Webhook(t) \/ Create(t) \/ Analyze(t)
    \/ Miss \/ Skip \/ NoModel \/ Conclude \/ Retry \/ DeadLetter \/ RequestRestart
    \/ \E t \in Token : Reject(t) \/ ApproveRefused(t) \/ Approve(t)
    \/ Measure \/ Advance \/ Close

DeploymentSpec == DeploymentInit /\ [][DeploymentNext]_deploymentVars

-----------------------------------------------------------------------------
(* Every variable has its type, and a verification takes no more samples   *)
(* than the API's file asks for.                                           *)
DeploymentTypeOK ==
    /\ at \in [Process -> {"down", "up", "exited"}]
    /\ incident \in {"ABSENT", "OPEN", "INVESTIGATING", "WAITING_APPROVAL",
                     "MITIGATING", "VERIFYING", "RESOLVED", "FAILED"}
    /\ alerted \in BOOLEAN /\ diagnosed \in BOOLEAN
    /\ message \in {"none", "queued", "dead"}
    /\ faults \subseteq {"publication", "callback"}
    /\ approval \in {"ABSENT", "PENDING", "EXECUTING", "EXECUTED", "FAILED",
                     "REJECTED", "UNKNOWN"}
    /\ target \in WorkerName \cup {""}
    /\ restart.token \in Token \cup {""}
    /\ measured \subseteq Readings(In("api"))
    /\ TypeOK
    /\ samples # << >> => Len(samples) <= In("api").attempts

(* However the two processes are configured, a worker is restarted only    *)
(* with approvals enabled where it was asked for and at a named target;    *)
(* with any token configured only by its holder; and for real only at a    *)
(* target the API allows and by an authenticated administrator (Validate,  *)
(* AuthConfig, checkTarget in request and in Execute).                     *)
RestartsAreGuarded ==
    restart # NoRestart =>
        /\ In("worker").approval /\ restart.target # ""
        /\ AuthEnabled(In("api")) =>
              restart.token = In("api").admin /\ restart.token \notin {"", " "}
        /\ restart.via = "http" =>
              /\ restart.by # "anonymous"
              /\ \E k \in DOMAIN In("api").targets : In("api").targets[k] = restart.target

(* Where restarts are real, no configuration strands an alert that was     *)
(* accepted (what Validate asks for the HTTP mode: one database, RabbitMQ  *)
(* and an LLM): it is with the broker, diagnosed, or its incident closed.  *)
(* Only two failures do strand it, at their place: a publication lost by   *)
(* the analyze endpoint (incident.go:125), with nothing left to deliver,   *)
(* and a failed terminal callback (consumer.go:192), with a dead letter.   *)
RealAlertsAreNotStranded ==
    Up("api") /\ alerted /\ In("api").mode = "http" =>
       \/ message = "queued" \/ diagnosed \/ incident \in {"FAILED", "RESOLVED"}
       \/ "publication" \in faults /\ message = "none" /\ incident = "INVESTIGATING"
       \/ "callback" \in faults /\ message = "dead"

(* A real restart is found to have worked only on as many consecutive      *)
(* readings as the file asks for, all of them measured, with a consumer,   *)
(* fewer than 1001 messages and an error rate of at most 0.01 (buildGa-    *)
(* therer, Gather, Verify, and Validate for the number of samples).        *)
RealRestartsPassOnMeasurements ==
    restart.via = "http" /\ pc = "passed" =>
        /\ In("api").vmode = "prometheus"
        /\ streak = In("api").required /\ measured # {}
        /\ \A reading \in measured :
              reading[1] >= 2 /\ reading[2] < 2 * 1001 /\ reading[3] <= 10
=============================================================================
