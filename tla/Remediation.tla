----------------------------- MODULE Remediation -----------------------------
(***************************************************************************)
(* Human approval and remediation of incidents: approval.Service,          *)
(* executor.Remediation and the part of incident.Service they share with   *)
(* the webhook, the admin API and the dead-letter callback.                *)
(*                                                                         *)
(* A Proc is a goroutine serving one call: an HTTP request, a tool call of *)
(* the agent, or a consumer callback.  Every repository access is a step   *)
(* of its own, so calls interleave between any two of them: a status       *)
(* change is a read (GetByID), the state-machine check, and a later write  *)
(* that succeeds only on an unchanged version.  A call carries a context;  *)
(* once it is cancelled every access that uses it fails, while accesses    *)
(* through persistContext (context.WithoutCancel) still go through.        *)
(***************************************************************************)
EXTENDS IncidentStates

CONSTANTS
    Incident,    \* incident rows, all created before the behaviour starts
    Approval,    \* approval ids the agent may still create
    Proc,        \* goroutines serving calls
    None,        \* "no incident" / "no approval" in an idle goroutine
    Faults       \* which faults may strike: a subset of FaultKinds

FaultKinds == {"cancel",  \* a caller goes away or its deadline passes
               "db",      \* a database access fails (a write may be kept)
               "crash",   \* the process running a call dies
               "reset"}   \* the connection drops after the request was sent

ASSUME NoneAssumption  == None \notin Incident /\ None \notin Approval
ASSUME FaultAssumption == Faults \subseteq FaultKinds

VARIABLES
    status,      \* incidents.status
    version,     \* incidents.version
    event,       \* the newest incident_events row, named by the move it logs
    approval,    \* approvals.status
    owner,       \* approvals.incident_id
    req,         \* the call each goroutine is serving
    calls,       \* restart requests sent to the deployment endpoint
    applied,     \* whether the endpoint carried the restart out
    grantee      \* history: the approval that took the incident to MITIGATING

incidentVars == <<status, version, event, grantee>>
approvalVars == <<approval, owner>>
outsideVars  == <<calls, applied>>
vars == <<incidentVars, approvalVars, outsideVars, req>>

-----------------------------------------------------------------------------
(***************************************************************************)
(* Status moves.  Each kind is one call site of MoveTo, MoveToWithAudit,   *)
(* Fail, Analyze, Resolve or the write of ResolveExternally.               *)
(***************************************************************************)
ToFailed   == {"rejected", "actionFailed", "verifyFailed", "verifyInterrupted",
               "deadLetter"}
ToResolved == {"verified", "adminResolve", "external"}
Moves == ToFailed \cup ToResolved \cup
         {"analyze", "waiting", "mitigating", "verifying"}

Target(m) ==
    CASE m = "analyze"    -> "INVESTIGATING"
      [] m = "waiting"    -> "WAITING_APPROVAL"
      [] m = "mitigating" -> "MITIGATING"
      [] m = "verifying"  -> "VERIFYING"
      [] m \in ToResolved -> "RESOLVED"
      [] OTHER            -> "FAILED"

(* Mutant: the recovery refuses only terminal incidents.                   *)
PermittedInRemediation(from, m) ==
    IF m = "external" THEN from \notin Terminal ELSE CanTransition(from, Target(m))

(* What is checked on the status that was read: the table, except that     *)
(* ResolveExternally bypasses it and only refuses terminal incidents and   *)
(* those in remediation.                                                   *)
Permitted(from, m) ==
    IF m = "external" THEN from \notin Terminal \cup InRemediation
                      ELSE CanTransition(from, Target(m))

(* Where the call continues once the move is written ...                   *)
AfterMove(m) ==
    CASE m = "mitigating"   -> "claim"
      [] m = "verifying"    -> "verify"
      [] m = "actionFailed" -> "recordFailed"
      [] m \in {"verifyFailed", "verifyInterrupted", "verified"}
                            -> "recordExecuted"
      [] OTHER              -> "idle"

(* Mutant: a last move that fails is ignored and success is claimed.       *)
AfterRefusalIgnored(m) ==
    CASE m \in {"waiting", "mitigating"} -> "expire"
      [] m \in {"actionFailed", "verifying"} -> "recordFailed"
      [] m \in {"verifyFailed", "verifyInterrupted", "verified"} -> "recordExecuted"
      [] OTHER -> "idle"

(* ... and when it is refused, conflicts or fails.                         *)
AfterRefusal(m) ==
    CASE m \in {"waiting", "mitigating"} -> "expire"
      [] m \in {"actionFailed", "verifying", "verifyFailed",
                "verifyInterrupted", "verified"} -> "recordFailed"
      [] OTHER -> "idle"

Recording == {"recordExecuted", "recordFailed", "recordUnknown"}

(* Mutant: an unknown outcome gets a status the approvals table has not.   *)
OutcomeTimeout(pc) ==
    CASE pc = "recordExecuted" -> "EXECUTED"
      [] pc = "recordUnknown"  -> "TIMEOUT"
      [] OTHER                 -> "FAILED"

Outcome(pc) ==
    CASE pc = "recordExecuted" -> "EXECUTED"
      [] pc = "recordUnknown"  -> "UNKNOWN"
      [] OTHER                 -> "FAILED"

PC == {"idle", "read", "write", "expireAll", "expire", "claim", "check",
       "call", "calling", "verify"} \cup Recording

(* Status expire() moves an approval away from: PENDING on behalf of       *)
(* Request, APPROVED on behalf of Approve.                                 *)
ExpiresFrom(m) == IF m = "waiting" THEN "PENDING" ELSE "APPROVED"

NoCall == [pc |-> "idle", move |-> "none", inc |-> None, appr |-> None,
           seen |-> 0, live |-> TRUE]

-----------------------------------------------------------------------------
(* Helpers of the actions.                                                 *)

At(p, label) == req[p].pc = label

Serve(p, pc, m, i, a, v) ==
    req' = [req EXCEPT ![p] = [pc |-> pc, move |-> m, inc |-> i, appr |-> a,
                               seen |-> v, live |-> TRUE]]

Goto(p, label) ==
    req' = [req EXCEPT ![p] =
              IF label = "idle" THEN NoCall ELSE [@ EXCEPT !.pc = label]]

StartMove(p, m) == req' = [req EXCEPT ![p] = [@ EXCEPT !.pc = "read", !.move = m]]

(* Accesses through the caller's context fail once it is cancelled; the    *)
(* move of an interrupted verification and the dead-letter callback run on *)
(* a context of their own.                                                 *)
CtxAlive(p) == req[p].live \/ req[p].move \in {"verifyInterrupted", "deadLetter"}

DbMayFail == "db" \in Faults

(* Mutant: the write is not conditional on the version.                    *)
WriteIncidentBlindly(p) ==
    LET i == req[p].inc
        m == req[p].move
    IN  /\ status'  = [status EXCEPT ![i] = Target(m)]
        /\ version' = [version EXCEPT ![i] = @ + 1]
        /\ event'   = [event EXCEPT ![i] = m]
        /\ grantee' = IF m = "mitigating"
                        THEN [grantee EXCEPT ![i] = req[p].appr] ELSE grantee

(* UpdateWithEvent(s): status, version and audit event in one transaction. *)
WriteIncident(p) ==
    LET i == req[p].inc
        m == req[p].move
    IN  /\ version[i] = req[p].seen
        /\ status'  = [status EXCEPT ![i] = Target(m)]
        /\ version' = [version EXCEPT ![i] = @ + 1]
        /\ event'   = [event EXCEPT ![i] = m]
        /\ grantee' = IF m = "mitigating"
                        THEN [grantee EXCEPT ![i] = req[p].appr] ELSE grantee

(* TransitionStatus: the conditional update of one approval.               *)
SetApproval(a, from, to) ==
    /\ approval[a] = from
    /\ approval' = [approval EXCEPT ![a] = to]

-----------------------------------------------------------------------------
(* Calls arriving.                                                         *)

(* approval.Service.Request, called by the agent's worker_restart tool: a  *)
(* PENDING row bound to the run's incident, which RunDiagnosis has moved   *)
(* out of OPEN; then the move to WAITING_APPROVAL.                         *)
Request(p, a, i) ==
    /\ At(p, "idle") /\ approval[a] = "ABSENT" /\ status[i] # "OPEN"
    /\ approval' = [approval EXCEPT ![a] = "PENDING"]
    /\ owner'    = [owner EXCEPT ![a] = i]
    /\ Serve(p, "read", "waiting", i, a, 0)
    /\ UNCHANGED <<incidentVars, outsideVars>>

(* The insert is kept but reported as failed: Request returns at once.     *)
LoseRequestAck(a, i) ==
    /\ DbMayFail /\ approval[a] = "ABSENT" /\ status[i] # "OPEN"
    /\ approval' = [approval EXCEPT ![a] = "PENDING"]
    /\ owner'    = [owner EXCEPT ![a] = i]
    /\ UNCHANGED <<incidentVars, outsideVars, req>>

(* approval.Service.Approve: win the PENDING -> APPROVED update, then move *)
(* the incident to MITIGATING.  A loser returns ErrNotPending.             *)
Approve(p, a) ==
    /\ At(p, "idle")
    /\ SetApproval(a, "PENDING", "APPROVED")
    /\ Serve(p, "read", "mitigating", owner[a], a, 0)
    /\ UNCHANGED <<incidentVars, owner, outsideVars>>

(* approval.Service.Reject: PENDING -> REJECTED, then the incident FAILED. *)
Reject(p, a) ==
    /\ At(p, "idle")
    /\ SetApproval(a, "PENDING", "REJECTED")
    /\ Serve(p, "read", "rejected", owner[a], a, 0)
    /\ UNCHANGED <<incidentVars, owner, outsideVars>>

(* A decision is kept but reported as failed: the call returns at once.    *)
LoseDecisionAck(a) ==
    /\ DbMayFail
    /\ \E to \in {"APPROVED", "REJECTED"} : SetApproval(a, "PENDING", to)
    /\ UNCHANGED <<incidentVars, owner, outsideVars, req>>

(* incident.Service.ResolveExternally up to its read and refusals.         *)
ResolveExternally(p, i) ==
    /\ At(p, "idle") /\ Permitted(status[i], "external")
    /\ Serve(p, "expireAll", "external", i, None, version[i])
    /\ UNCHANGED <<incidentVars, approvalVars, outsideVars>>

(* Calls that are one status move: Analyze, the admin's Resolve, and Fail  *)
(* from the dead-letter callback.  A move the table refuses ends the call. *)
BeginMove(p, i) ==
    /\ At(p, "idle")
    /\ \E m \in {"analyze", "adminResolve", "deadLetter"} :
          /\ Permitted(status[i], m)
          /\ Serve(p, "write", m, i, None, version[i])
    /\ UNCHANGED <<incidentVars, approvalVars, outsideVars>>

-----------------------------------------------------------------------------
(* transitionWithAudit: GetByID and the table, then the versioned write.   *)

ReadIncident(p) ==
    LET i == req[p].inc IN
    /\ At(p, "read") /\ CtxAlive(p) /\ Permitted(status[i], req[p].move)
    /\ req' = [req EXCEPT ![p].pc = "write", ![p].seen = version[i]]
    /\ UNCHANGED <<incidentVars, approvalVars, outsideVars>>

RefuseMove(p) ==
    /\ At(p, "read")
    /\ ~Permitted(status[req[p].inc], req[p].move) \/ ~CtxAlive(p) \/ DbMayFail
    /\ Goto(p, AfterRefusal(req[p].move))
    /\ UNCHANGED <<incidentVars, approvalVars, outsideVars>>

CommitMove(p) ==
    /\ At(p, "write") /\ CtxAlive(p)
    /\ WriteIncident(p)
    /\ Goto(p, AfterMove(req[p].move))
    /\ UNCHANGED <<approvalVars, outsideVars>>

(* ErrConcurrentModification, a cancelled context or a database error.     *)
FailMove(p) ==
    /\ At(p, "write")
    /\ version[req[p].inc] # req[p].seen \/ ~CtxAlive(p) \/ DbMayFail
    /\ Goto(p, AfterRefusal(req[p].move))
    /\ UNCHANGED <<incidentVars, approvalVars, outsideVars>>

(* The transaction committed but the caller was told it failed.            *)
LoseMoveAck(p) ==
    /\ At(p, "write") /\ CtxAlive(p) /\ DbMayFail
    /\ WriteIncident(p)
    /\ Goto(p, AfterRefusal(req[p].move))
    /\ UNCHANGED <<approvalVars, outsideVars>>

-----------------------------------------------------------------------------
(* Expiry: all pending approvals of an incident about to be closed by the  *)
(* alert's recovery, or the one approval whose move failed.                *)

PendingExpired(i) ==
    [a \in Approval |-> IF owner[a] = i /\ approval[a] = "PENDING"
                          THEN "EXPIRED" ELSE approval[a]]

ExpirePending(p) ==
    /\ At(p, "expireAll") /\ CtxAlive(p)
    /\ approval' = PendingExpired(req[p].inc)
    /\ Goto(p, "write")
    /\ UNCHANGED <<incidentVars, owner, outsideVars>>

(* Any failure returns an error without closing the incident.              *)
FailExpirePending(p) ==
    /\ At(p, "expireAll")
    /\ \/ (~CtxAlive(p) \/ DbMayFail) /\ UNCHANGED approval
       \/ DbMayFail /\ CtxAlive(p) /\ approval' = PendingExpired(req[p].inc)
    /\ Goto(p, "idle")
    /\ UNCHANGED <<incidentVars, owner, outsideVars>>

(* Mutants: expire() overwrites whatever status it finds, or runs on the   *)
(* caller's context.                                                       *)
ExpireUnconditionally(p) ==
    /\ At(p, "expire")
    /\ approval' = [approval EXCEPT ![req[p].appr] = "EXPIRED"]
    /\ Goto(p, "idle")
    /\ UNCHANGED <<incidentVars, owner, outsideVars>>

ExpireOnCallerContext(p) ==
    LET a == req[p].appr IN
    /\ At(p, "expire")
    /\ \/ CtxAlive(p) /\ SetApproval(a, ExpiresFrom(req[p].move), "EXPIRED")
       \/ (~CtxAlive(p) \/ approval[a] # ExpiresFrom(req[p].move)) /\ UNCHANGED approval
    /\ Goto(p, "idle")
    /\ UNCHANGED <<incidentVars, owner, outsideVars>>

(* expire(): an approval another call has changed meanwhile is left alone. *)
Expire(p) ==
    LET a == req[p].appr IN
    /\ At(p, "expire")
    /\ \/ SetApproval(a, ExpiresFrom(req[p].move), "EXPIRED")
       \/ approval[a] # ExpiresFrom(req[p].move) /\ UNCHANGED approval
       \/ DbMayFail /\ UNCHANGED approval
    /\ Goto(p, "idle")
    /\ UNCHANGED <<incidentVars, owner, outsideVars>>

-----------------------------------------------------------------------------
(* Execution of a claimed approval: executeClaimed, Remediation.Execute    *)
(* and HTTPExecutor.Execute (execution.mode = http).                       *)

(* APPROVED -> EXECUTING, written through persistContext.                  *)
MarkExecuting(p) ==
    /\ At(p, "claim")
    /\ SetApproval(req[p].appr, "APPROVED", "EXECUTING")
    /\ Goto(p, "check")
    /\ UNCHANGED <<incidentVars, owner, outsideVars>>

FailMarkExecuting(p) ==
    /\ At(p, "claim")
    /\ approval[req[p].appr] # "APPROVED" \/ DbMayFail
    /\ SetApproval(req[p].appr, "APPROVED", "EXECUTING") \/ UNCHANGED approval
    /\ Goto(p, "idle")
    /\ UNCHANGED <<incidentVars, owner, outsideVars>>

(* The executor's own check: the incident must (still) be MITIGATING.      *)
CheckIncident(p) ==
    /\ At(p, "check")
    /\ \/ /\ CtxAlive(p) /\ status[req[p].inc] = "MITIGATING"
          /\ Goto(p, "call")
       \/ /\ \/ status[req[p].inc] # "MITIGATING"
             \/ ~CtxAlive(p) \/ DbMayFail
          /\ Goto(p, "recordFailed")
    /\ UNCHANGED <<incidentVars, approvalVars, outsideVars>>

(* The target is no longer whitelisted: an explicit failure, nothing sent. *)
RefuseTarget(p) ==
    /\ At(p, "call")
    /\ StartMove(p, "actionFailed")
    /\ UNCHANGED <<incidentVars, approvalVars, outsideVars>>

(* The POST leaves; whether the endpoint carries it out is its own choice. *)
SendRestart(p) ==
    LET a == req[p].appr IN
    /\ At(p, "call") /\ CtxAlive(p)
    /\ calls' = [calls EXCEPT ![a] = @ + 1]
    /\ \E done \in BOOLEAN : applied' = [applied EXCEPT ![a] = done]
    /\ Goto(p, "calling")
    /\ UNCHANGED <<incidentVars, approvalVars>>

(* A request whose context is already cancelled is not sent, and reported  *)
(* as unknown like any cancellation.                                       *)
CancelledBeforeSend(p) ==
    /\ At(p, "call") /\ ~CtxAlive(p)
    /\ Goto(p, "recordUnknown")
    /\ UNCHANGED <<incidentVars, approvalVars, outsideVars>>

RestartSucceeded(p) ==
    /\ At(p, "calling") /\ CtxAlive(p) /\ applied[req[p].appr]
    /\ StartMove(p, "verifying")
    /\ UNCHANGED <<incidentVars, approvalVars, outsideVars>>

(* A status outside 2xx, or an error that is neither a timeout nor a       *)
(* cancellation: a connection reset counts as an explicit failure even if  *)
(* the endpoint had already acted.                                         *)
RestartFailed(p) ==
    /\ At(p, "calling")
    /\ (CtxAlive(p) /\ ~applied[req[p].appr]) \/ "reset" \in Faults
    /\ StartMove(p, "actionFailed")
    /\ UNCHANGED <<incidentVars, approvalVars, outsideVars>>

(* Mutant: an unknown outcome is retried.                                  *)
RestartRetried(p) ==
    /\ At(p, "calling")
    /\ Goto(p, "call")
    /\ UNCHANGED <<incidentVars, approvalVars, outsideVars>>

(* The client timeout or the caller's cancellation: ErrResultUnknown, and  *)
(* the incident stays in MITIGATING.                                       *)
RestartUnknown(p) ==
    /\ At(p, "calling")
    /\ Goto(p, "recordUnknown")
    /\ UNCHANGED <<incidentVars, approvalVars, outsideVars>>

(* Mutant: a verification that fails is recorded without moving the        *)
(* incident to FAILED.                                                     *)
VerifyWithoutMove(p) ==
    /\ At(p, "verify")
    /\ \/ CtxAlive(p) /\ StartMove(p, "verified")
       \/ Goto(p, "recordFailed")
    /\ UNCHANGED <<incidentVars, approvalVars, outsideVars>>

(* VerifySequence, reduced to its verdict.  A cancelled context interrupts *)
(* it, unless the last attempt is the one cut short: that attempt then     *)
(* merely counts as failed.                                                *)
Verify(p) ==
    /\ At(p, "verify")
    /\ \/ CtxAlive(p) /\ StartMove(p, "verified")
       \/ StartMove(p, "verifyFailed")
       \/ ~CtxAlive(p) /\ StartMove(p, "verifyInterrupted")
    /\ UNCHANGED <<incidentVars, approvalVars, outsideVars>>

(* The outcome is written through persistContext ...                       *)
RecordOutcome(p) ==
    /\ req[p].pc \in Recording
    /\ SetApproval(req[p].appr, "EXECUTING", Outcome(req[p].pc))
    /\ Goto(p, "idle")
    /\ UNCHANGED <<incidentVars, owner, outsideVars>>

(* ... and if that fails the approval stays EXECUTING for an operator.     *)
FailRecordOutcome(p) ==
    /\ req[p].pc \in Recording
    /\ approval[req[p].appr] # "EXECUTING" \/ DbMayFail
    /\ Goto(p, "idle")
    /\ UNCHANGED <<incidentVars, approvalVars, outsideVars>>

-----------------------------------------------------------------------------
(* Faults of the environment.                                              *)

(* The client of the call disconnects, or its deadline passes.             *)
Cancel(p) ==
    /\ "cancel" \in Faults /\ ~At(p, "idle") /\ req[p].live
    /\ req' = [req EXCEPT ![p].live = FALSE]
    /\ UNCHANGED <<incidentVars, approvalVars, outsideVars>>

(* The process running the call dies; only what the database holds is left.*)
Crash(p) ==
    /\ "crash" \in Faults /\ ~At(p, "idle")
    /\ Goto(p, "idle")
    /\ UNCHANGED <<incidentVars, approvalVars, outsideVars>>

-----------------------------------------------------------------------------
Init ==
    /\ status   = [i \in Incident |-> "OPEN"]
    /\ version  = [i \in Incident |-> 0]
    /\ event    = [i \in Incident |-> "created"]
    /\ grantee  = [i \in Incident |-> None]
    /\ approval = [a \in Approval |-> "ABSENT"]
    /\ owner    = [a \in Approval |-> None]
    /\ calls    = [a \in Approval |-> 0]
    /\ applied  = [a \in Approval |-> FALSE]
    /\ req      = [p \in Proc |-> NoCall]

(* A call arriving from outside.                                           *)
Arrive(p) ==
    \/ \E a \in Approval, i \in Incident : Request(p, a, i)
    \/ \E a \in Approval : Approve(p, a) \/ Reject(p, a)
    \/ \E i \in Incident : ResolveExternally(p, i) \/ BeginMove(p, i)

(* One step of a call being served.                                        *)
Step(p) ==
    \/ ReadIncident(p) \/ RefuseMove(p)
    \/ CommitMove(p) \/ FailMove(p) \/ LoseMoveAck(p)
    \/ ExpirePending(p) \/ FailExpirePending(p) \/ Expire(p)
    \/ MarkExecuting(p) \/ FailMarkExecuting(p) \/ CheckIncident(p)
    \/ RefuseTarget(p) \/ SendRestart(p) \/ CancelledBeforeSend(p)
    \/ RestartSucceeded(p) \/ RestartFailed(p) \/ RestartUnknown(p)
    \/ Verify(p) \/ RecordOutcome(p) \/ FailRecordOutcome(p)

LostAck ==
    \/ \E a \in Approval, i \in Incident : LoseRequestAck(a, i)
    \/ \E a \in Approval : LoseDecisionAck(a)

Next ==
    \/ \E p \in Proc : Arrive(p) \/ Step(p) \/ Cancel(p) \/ Crash(p)
    \/ LostAck

Spec == Init /\ [][Next]_vars

(* A goroutine that can take its next step eventually does: the Go         *)
(* scheduler runs it and every wait in it (client timeout, persistTimeout, *)
(* verification interval) is bounded.  Nothing is assumed of arrivals.     *)
FairSpec == Spec /\ \A p \in Proc : WF_vars(Step(p))

-----------------------------------------------------------------------------
(* Properties.                                                             *)

Call == [pc : PC, move : Moves \cup {"none"}, inc : Incident \cup {None},
         appr : Approval \cup {None}, seen : Nat, live : BOOLEAN]

(* Every variable has its type, and a goroutine serving a call is bound to *)
(* the incident and the approval the call is about.                        *)
TypeOK ==
    /\ status   \in [Incident -> Status]
    /\ version  \in [Incident -> Nat]
    /\ event    \in [Incident -> Moves \cup {"created"}]
    /\ grantee  \in [Incident -> Approval \cup {None}]
    /\ approval \in [Approval -> ApprovalStatus]
    /\ owner    \in [Approval -> Incident \cup {None}]
    /\ calls    \in [Approval -> Nat]
    /\ applied  \in [Approval -> BOOLEAN]
    /\ req      \in [Proc -> Call]

(* However approvals, rejections, recoveries, dead letters, cancellations, *)
(* crashes and lost acknowledgements interleave, at most one restart       *)
(* request is ever sent for an incident: the approval claimed through      *)
(* TransitionStatus and the move to MITIGATING are each won once.          *)
AtMostOneRestart ==
    /\ \A a \in Approval : calls[a] <= 1
    /\ \A a, b \in Approval :
          calls[a] > 0 /\ calls[b] > 0 /\ owner[a] = owner[b] => a = b

(* A restart is sent only for an approval a human granted and the service  *)
(* marked EXECUTING first; one that was rejected, expired or is still      *)
(* pending never reached the endpoint (Approve, executeClaimed).           *)
RestartOnlyIfGranted ==
    \A a \in Approval : calls[a] > 0 =>
        approval[a] \in {"EXECUTING", "EXECUTED", "FAILED", "UNKNOWN"}

(* An incident closed by the alert's recovery has no restart, neither      *)
(* before nor after: ResolveExternally expires the pending approvals,      *)
(* refuses incidents in remediation and loses against a concurrent move.   *)
RecoveryExcludesRestart ==
    \A a \in Approval : calls[a] > 0 => event[owner[a]] # "external"

(* EXECUTED is recorded only when the endpoint carried the restart out and *)
(* the incident has reached a terminal status (Remediation.Execute returns *)
(* nil only after the last move was written).                              *)
ExecutedMeansClosed ==
    \A a \in Approval : approval[a] = "EXECUTED" =>
        applied[a] /\ status[owner[a]] \in Terminal

(* An incident closed with a postmortem had its restart really carried out.*)
VerifiedMeansApplied ==
    \A i \in Incident : event[i] = "verified" =>
        \E a \in Approval : owner[a] = i /\ applied[a]

(* A status changes only along the table of state_machine, or to RESOLVED  *)
(* by the alert's recovery before remediation: the status a call read may  *)
(* be stale when it writes, the version check makes that harmless.         *)
StatusFollowsTable ==
    [][\A i \in Incident : status'[i] # status[i] =>
          \/ CanTransition(status[i], status'[i])
          \/ status[i] \notin Terminal \cup InRemediation /\ status'[i] = "RESOLVED"]_vars

(* The audit chain model.ApprovalStatus documents.                         *)
ApprovalChain ==
    ({"ABSENT"} \X {"PENDING"})
    \cup ({"PENDING"} \X {"APPROVED", "REJECTED", "EXPIRED"})
    \cup ({"APPROVED"} \X {"EXECUTING", "EXPIRED"})
    \cup ({"EXECUTING"} \X {"EXECUTED", "FAILED", "UNKNOWN"})

(* An approval changes only along that chain, whatever calls race for it:  *)
(* a decision, an expiry and a recorded outcome never overwrite each other *)
(* (every update is conditional on the status it starts from).             *)
ApprovalFollowsChain ==
    [][\A a \in Approval : approval'[a] # approval[a] =>
          <<approval[a], approval'[a]>> \in ApprovalChain]_vars

(* A claimed approval does not stay APPROVED or EXECUTING when the client  *)
(* goes away: expire() and both writes of executeClaimed outlive its       *)
(* context (service.go:210, "otherwise the approval stays APPROVED").      *)
ClaimedApprovalSettles ==
    \A a \in Approval :
        approval[a] \in {"APPROVED", "EXECUTING"} ~> approval[a] \in SettledApproval

(* As long as no caller goes away a remediation that began ends, whatever  *)
(* the endpoint answers: the incident becomes terminal, or the outcome is  *)
(* UNKNOWN and left to an operator (Execute moves the incident before it   *)
(* returns, on every path).                                                *)
RemediationEnds ==
    [](\A p \in Proc : req[p].live) =>
       \A i \in Incident :
           status[i] \in InRemediation ~>
              \/ status[i] \in Terminal
              \/ \E a \in Approval : owner[a] = i /\ approval[a] = "UNKNOWN"

-----------------------------------------------------------------------------
(* What comments and the README say and the code does not do.              *)

(* bootstrap.go:224: an incident already in remediation is left alone when *)
(* the retries of its message are exhausted (failIncidentOnDeadLetter).    *)
DeadLetterSparesRemediation ==
    [][\A i \in Incident :
          status[i] \in InRemediation /\ status'[i] # status[i]
             => event'[i] # "deadLetter"]_vars

(* approval/service.go:228: cancellation must not keep the fact that the   *)
(* external action happened from being recorded; FAILED is an explicit     *)
(* failure (http_executor.go:55), so the restart was not carried out.      *)
FailedMeansNotApplied ==
    \A a \in Approval : approval[a] = "FAILED" => ~applied[a]
=============================================================================
