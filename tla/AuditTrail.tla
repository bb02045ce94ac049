----------------------------- MODULE AuditTrail -----------------------------
(***************************************************************************)
(* What a reader of the audit trail a Diagnose leaves may rely on: the     *)
(* tables only gain rows, a row is settled once, an event is told in the   *)
(* very step that stores what it says or never, and the recorder stores    *)
(* and tells nothing after it told the end.  The one thing that is ever    *)
(* taken back is a success that nobody was told of.  What becomes of an    *)
(* approval once it was requested, and the events that its decision adds   *)
(* to the run's stream, maybe long after "done", are not part of it: they  *)
(* are the approval service's (Remediation).                               *)
(***************************************************************************)
EXTENDS Sequences

CONSTANT Call

VARIABLES
    run,       \* the run's status, "NONE" before it is stored
    final,     \* its final step is stored
    record,    \* the status of each tool call, "NONE" before it is stored
    approval,  \* an approval that names the call was requested
    told       \* the recorder's events, in order

trail == <<run, final, record, approval, told>>

Tell(type, calls, status) ==
    told' \in {told, Append(told, [type |-> type, call |-> calls, status |-> status])}

Told(type) == \E k \in DOMAIN told : told[k].type = type
Announced(c) == \E k \in DOMAIN told : told[k].type = "tool.started" /\ told[k].call = {c}

Init ==
    /\ run = "NONE" /\ final = FALSE /\ told = <<>>
    /\ record = [c \in Call |-> "NONE"]
    /\ approval = [c \in Call |-> FALSE]

Begin ==
    /\ run = "NONE" /\ run' = "RUNNING"
    /\ Tell("run.started", {}, "RUNNING")
    /\ UNCHANGED <<final, record, approval>>

(* Tool calls belong to a run that was announced and has no final step.    *)
Working == run = "RUNNING" /\ told # <<>> /\ ~final

Record(c) ==
    /\ Working /\ record[c] = "NONE"
    /\ record' = [record EXCEPT ![c] = "RUNNING"]
    /\ Tell("tool.started", {c}, "RUNNING")
    /\ UNCHANGED <<run, final, approval>>

Request(c) ==
    /\ Working /\ record[c] = "RUNNING" /\ Announced(c)
    /\ approval' = [approval EXCEPT ![c] = TRUE]
    /\ UNCHANGED <<run, final, record, told>>

Settle(c) ==
    /\ Working /\ record[c] = "RUNNING" /\ Announced(c)
    /\ \E status \in {"COMPLETED", "FAILED"} :
          /\ record' = [record EXCEPT ![c] = status]
          /\ Tell("tool.completed", {c}, status)
    /\ UNCHANGED <<run, final, approval>>

(* The final step is taken when every call that is stored is COMPLETED.    *)
Finish ==
    /\ Working /\ \A c \in Call : record[c] \in {"NONE", "COMPLETED"}
    /\ final' = TRUE
    /\ Tell("agent.thinking", {}, "COMPLETED")
    /\ UNCHANGED <<run, record, approval>>

Complete ==
    /\ run = "RUNNING" /\ final /\ Told("agent.thinking")
    /\ run' = "COMPLETED"
    /\ Tell("done", {}, "COMPLETED")
    /\ UNCHANGED <<final, record, approval>>

Fail ==
    /\ run \in {"RUNNING", "COMPLETED"} /\ told # <<>> /\ ~Told("done")
    /\ run' = "FAILED"
    /\ Tell("done", {}, "FAILED")
    /\ UNCHANGED <<final, record, approval>>

Next ==
    \/ Begin \/ Finish \/ Complete \/ Fail
    \/ \E c \in Call : Record(c) \/ Request(c) \/ Settle(c)

Spec == Init /\ [][Next]_trail

=============================================================================
