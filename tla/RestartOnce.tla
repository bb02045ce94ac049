----------------------------- MODULE RestartOnce -----------------------------
(***************************************************************************)
(* What the approval and remediation code promises about the world outside,*)
(* with none of the protocol that keeps the promise.  Per incident one     *)
(* approval may be granted, only before the incident is closed and never   *)
(* taken back; only a granted approval causes a restart, and it causes one *)
(* at most; a closed incident stays closed.                                *)
(***************************************************************************)
CONSTANTS Incident, Approval, None

VARIABLES
    grantee,   \* the approval granted for each incident, or None
    sent,      \* how often a restart was sent for each approval
    closed     \* incidents in a terminal status

vars == <<grantee, sent, closed>>

Init ==
    /\ grantee = [i \in Incident |-> None]
    /\ sent = [a \in Approval |-> 0]
    /\ closed = {}

Grant(i, a) ==
    /\ i \notin closed /\ grantee[i] = None
    /\ grantee' = [grantee EXCEPT ![i] = a]
    /\ UNCHANGED <<sent, closed>>

Send(i) ==
    /\ grantee[i] # None /\ sent[grantee[i]] = 0
    /\ sent' = [sent EXCEPT ![grantee[i]] = 1]
    /\ UNCHANGED <<grantee, closed>>

Close(i) ==
    /\ i \notin closed
    /\ closed' = closed \cup {i}
    /\ UNCHANGED <<grantee, sent>>

Next == \E i \in Incident : Send(i) \/ Close(i) \/ \E a \in Approval : Grant(i, a)

Spec == Init /\ [][Next]_vars
=============================================================================
