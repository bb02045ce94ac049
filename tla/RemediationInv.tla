--------------------------- MODULE RemediationInv ---------------------------
(***************************************************************************)
(* The inductive invariant of Remediation, in named parts, and the         *)
(* abstract specification it implements.  TLC checks both on the instances *)
(* of MCRemediation; RemediationProofs proves them for every instance.     *)
(***************************************************************************)
EXTENDS Remediation

(* The moves an Approve call goes through after it won its approval.       *)
VerifyMoves == {"verifying", "verifyFailed", "verifyInterrupted", "verified"}
GrantMoves  == {"mitigating", "actionFailed"} \cup VerifyMoves

(* p serves an Approve call that won the approval req[p].appr.             *)
Holds(p) == req[p].move \in GrantMoves

(* Its move to MITIGATING has not been written yet, or has failed.         *)
BeforeGrant(p) == req[p].move = "mitigating" /\ req[p].pc \in {"read", "write", "expire"}

-----------------------------------------------------------------------------
(* Of one call.                                                            *)

(* What a call is about follows from where it is.                          *)
Shape(p) ==
    /\ req[p].pc = "idle" => req[p].move = "none"
    /\ req[p].pc # "idle" => req[p].move \in Moves /\ req[p].inc \in Incident
    /\ req[p].move \in GrantMoves \cup {"waiting", "rejected"} =>
          /\ req[p].appr \in Approval
          /\ owner[req[p].appr] = req[p].inc /\ approval[req[p].appr] # "ABSENT"
    /\ req[p].pc = "expireAll" => req[p].move = "external"
    /\ req[p].pc = "expire" => req[p].move \in {"waiting", "mitigating"}
    /\ req[p].pc \in {"claim", "check", "call", "calling"} => req[p].move = "mitigating"
    /\ req[p].pc = "verify" => req[p].move = "verifying"
    /\ req[p].pc \in Recording => Holds(p)

(* The version that was read decides whether the status is still the one   *)
(* that was checked.                                                       *)
SeenDecides(p) ==
    req[p].pc \in {"expireAll", "write"} =>
        /\ req[p].seen <= version[req[p].inc]
        /\ req[p].seen = version[req[p].inc] =>
              Permitted(status[req[p].inc], req[p].move)

(* The approval a call won is where the call left it; past the move to     *)
(* MITIGATING it is the incident's grant; its restart is sent in the call  *)
(* step and verified only after it was carried out.                        *)
Holding(p) ==
    LET a == req[p].appr IN
    Holds(p) =>
        /\ approval[a] = IF BeforeGrant(p) \/ At(p, "claim") THEN "APPROVED"
                                                             ELSE "EXECUTING"
        /\ ~BeforeGrant(p) => grantee[req[p].inc] = a
        /\ BeforeGrant(p) \/ req[p].pc \in {"claim", "check", "call"} => calls[a] = 0
        /\ At(p, "calling") => calls[a] > 0
        /\ req[p].move \in VerifyMoves => calls[a] > 0 /\ applied[a]
        /\ At(p, "recordExecuted") =>
              req[p].move \in VerifyMoves /\ status[req[p].inc] \in Terminal

CallsOK == \A p \in Proc : Shape(p) /\ SeenDecides(p) /\ Holding(p)

(* One goroutine per won approval.                                         *)
HolderIsUnique ==
    \A p, q \in Proc : Holds(p) /\ Holds(q) /\ req[p].appr = req[q].appr => p = q

-----------------------------------------------------------------------------
(* Of the rows and of the world outside.                                   *)

(* An existing approval belongs to an incident.                            *)
OwnerKnown == \A a \in Approval : approval[a] # "ABSENT" => owner[a] \in Incident

(* A grant is given once, on the way into remediation, to an approval of   *)
(* the incident; the alert's recovery excludes it.                         *)
GrantsOK ==
    \A i \in Incident :
        /\ grantee[i] # None =>
              /\ status[i] \in InRemediation \cup Terminal
              /\ owner[grantee[i]] = i /\ approval[grantee[i]] # "ABSENT"
        /\ event[i] = "external" => grantee[i] = None /\ status[i] = "RESOLVED"
        /\ event[i] = "verified" =>
              /\ grantee[i] # None
              /\ calls[grantee[i]] > 0 /\ applied[grantee[i]]

(* What was sent was granted, and sent once.                               *)
SendsOK ==
    \A a \in Approval :
        /\ calls[a] <= 1
        /\ calls[a] > 0 =>
              /\ approval[a] \in {"EXECUTING", "EXECUTED", "FAILED", "UNKNOWN"}
              /\ grantee[owner[a]] = a
        /\ approval[a] = "EXECUTED" =>
              calls[a] > 0 /\ applied[a] /\ status[owner[a]] \in Terminal

(* The inductive invariant: every safety property of Remediation follows   *)
(* from it, and every action keeps it (RemediationProofs).                 *)
IInv ==
    /\ TypeOK
    /\ CallsOK /\ HolderIsUnique
    /\ OwnerKnown /\ GrantsOK /\ SendsOK

-----------------------------------------------------------------------------
ClosedIncidents == {i \in Incident : status[i] \in Terminal}

Contract == INSTANCE RestartOnce
              WITH sent <- calls, closed <- ClosedIncidents

(* Every interleaving of the calls keeps the promise of RestartOnce: one   *)
(* grant per incident, before it is closed and never revoked, restarts     *)
(* sent only for the grant and only once, and closed incidents stay closed.*)
ImplementsRestartOnce == Contract!Spec

(* Approvals are asked for only beyond OPEN (Request).                     *)
AskedBeyondOpen == \A a \in Approval : approval[a] # "ABSENT" => status[owner[a]] # "OPEN"

(* The moves Diagnosis makes itself: Analyze, RequestApproval and          *)
(* TerminalWrite.                                                          *)
DiagnosisMoves == {"analyze", "waiting", "deadLetter"}

(* What Diagnosis leaves to OutsideMove is all the others do: every other  *)
(* status that approvals, restarts, verifications, recoveries and the      *)
(* operator write is one of OutsideTargets of the status they found        *)
(* (Reject, Execute, ResolveExternally, Resolve).                          *)
OutsideMovesOnly ==
    [][\A i \in Incident : status'[i] # status[i] =>
          event'[i] \in DiagnosisMoves \/ status'[i] \in OutsideTargets(status[i])]_vars

(* To Remediation every incident is one of an alert of its own.            *)
Lifecycle == INSTANCE IncidentLifecycle WITH AlertOf <- [i \in Incident |-> i]
=============================================================================
