------------------------- MODULE IncidentLifecycle -------------------------
(***************************************************************************)
(* What everybody who writes an incident promises about its status: an     *)
(* incident is opened only while no other one of its alert is live, moves  *)
(* along the table of state_machine, and may be closed by its alert's      *)
(* recovery until the remediation has begun; closed, it stays closed.      *)
(* Diagnosis and Remediation, which each leave the other's writes open,    *)
(* both implement it.                                                      *)
(***************************************************************************)
EXTENDS IncidentStates

CONSTANTS Incident, AlertOf

VARIABLE status   \* "ABSENT" before the incident exists

Live(i) == status[i] \notin Terminal \cup {"ABSENT"}

OthersClosed(i) == \A j \in Incident \ {i} : AlertOf[i] = AlertOf[j] => ~Live(j)

Init ==
    /\ status \in [Incident -> {"ABSENT", "OPEN"}]
    /\ \A i \in Incident : Live(i) => OthersClosed(i)

Changes(i, next) == status' = [status EXCEPT ![i] = next]

Open(i) == status[i] = "ABSENT" /\ OthersClosed(i) /\ Changes(i, "OPEN")

Move(i) == \E next \in Status : CanTransition(status[i], next) /\ Changes(i, next)

Recover(i) == Live(i) /\ status[i] \notin InRemediation /\ Changes(i, "RESOLVED")

Next == \E i \in Incident : Open(i) \/ Move(i) \/ Recover(i)

Spec == Init /\ [][Next]_status
=============================================================================
