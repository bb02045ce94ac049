--------------------------- MODULE IncidentStates ---------------------------
(***************************************************************************)
(* The status vocabulary and the transition table every other module works *)
(* with: internal/incident/model (statuses, terminal statuses, approval    *)
(* statuses, run statuses) and internal/incident/state_machine (the        *)
(* table).  Only constants: there is no state here.                        *)
(***************************************************************************)
EXTENDS Naturals

(* model.Status.  NEED_APPROVAL and CANCELLED are declared by the code and  *)
(* accepted by Valid(), but no transition of the table reaches them.        *)
Status == {"OPEN", "INVESTIGATING", "NEED_APPROVAL", "WAITING_APPROVAL",
           "MITIGATING", "VERIFYING", "RESOLVED", "FAILED", "CANCELLED"}

(* model.Status.IsTerminal *)
Terminal == {"RESOLVED", "FAILED", "CANCELLED"}

(* The remediation phase: ResolveExternally refuses to close these.         *)
InRemediation == {"MITIGATING", "VERIFYING"}

(* state_machine.transitions: the targets each status may move to.          *)
AllowedTargets(current) ==
    CASE current = "OPEN"             -> {"INVESTIGATING", "FAILED"}
      [] current = "INVESTIGATING"    -> {"WAITING_APPROVAL", "FAILED"}
      [] current = "WAITING_APPROVAL" -> {"MITIGATING", "FAILED"}
      [] current = "MITIGATING"       -> {"VERIFYING", "FAILED"}
      [] current = "VERIFYING"        -> {"RESOLVED", "FAILED"}
      [] OTHER                        -> {}

(* state_machine.CanTransition *)
CanTransition(current, next) == next \in AllowedTargets(current)

(* What approvals, remediations and the recovery make of a status: what     *)
(* Execute and Verify move along the table, FAILED when an approval is      *)
(* refused, also before its incident waits for it, and RESOLVED when the    *)
(* alert recovers or the operator closes (ResolveExternally).               *)
OutsideTargets(current) ==
    LET remediated == IF current \in InRemediation \cup {"WAITING_APPROVAL"}
                        THEN AllowedTargets(current) ELSE {}
        refused    == IF current = "INVESTIGATING" THEN {"FAILED"} ELSE {}
        resolved   == IF current \in Terminal \cup InRemediation \cup {"ABSENT"}
                        THEN {} ELSE {"RESOLVED"}
    IN  remediated \cup refused \cup resolved

(* model.ApprovalStatus; ABSENT stands for a row not created yet.           *)
ApprovalStatus == {"ABSENT", "PENDING", "APPROVED", "EXECUTING", "EXECUTED",
                   "FAILED", "REJECTED", "EXPIRED", "UNKNOWN"}

(* Approval statuses no operation of the code moves away from.              *)
SettledApproval == {"EXECUTED", "FAILED", "REJECTED", "EXPIRED", "UNKNOWN"}

(* model.RunStatus; ABSENT stands for a row not created yet.                *)
RunStatus == {"ABSENT", "RUNNING", "COMPLETED", "FAILED", "INTERRUPTED"}

(* model.RunStatus.IsActive: the statuses that occupy the incident's slot.  *)
ActiveRun == {"RUNNING", "COMPLETED"}
=============================================================================
