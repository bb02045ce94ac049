-------------------------- MODULE RemediationProofs --------------------------
(***************************************************************************)
(* Proofs, for any number of incidents, approvals and goroutines and any   *)
(* set of faults, that IInv is an invariant of Remediation and that the    *)
(* safety properties and the abstract specification RestartOnce follow.    *)
(***************************************************************************)
EXTENDS RemediationInv, TLAPS

-----------------------------------------------------------------------------
(* The effect of the operators that update a goroutine's call.             *)

(* What one update of req by p leaves to say about the other goroutines.   *)
OnlyCallOf(p) == \A q \in Proc \ {p} : req'[q] = req[q]

(* Serve starts a well-typed call and touches no other goroutine (the      *)
(* entry of every handler).                                                *)
LEMMA ServeEffect ==
    ASSUME TypeOK, NEW p \in Proc, NEW pc \in PC, NEW m \in Moves,
           NEW i \in Incident, NEW a \in Approval \cup {None}, NEW v \in Nat,
           Serve(p, pc, m, i, a, v)
    PROVE  /\ req' \in [Proc -> Call] /\ OnlyCallOf(p)
           /\ req'[p] = [pc |-> pc, move |-> m, inc |-> i, appr |-> a,
                         seen |-> v, live |-> TRUE]
  BY DEF TypeOK, Serve, Call, OnlyCallOf

(* Goto either clears the call or changes nothing but its program counter. *)
LEMMA GotoEffect ==
    ASSUME TypeOK, NEW p \in Proc, NEW label \in PC, Goto(p, label)
    PROVE  /\ req' \in [Proc -> Call] /\ OnlyCallOf(p)
           /\ req'[p] = IF label = "idle" THEN NoCall
                                          ELSE [req[p] EXCEPT !.pc = label]
  BY DEF TypeOK, Goto, Call, NoCall, OnlyCallOf, PC, Recording

(* StartMove only turns the call to its next status move.                  *)
LEMMA StartMoveEffect ==
    ASSUME TypeOK, NEW p \in Proc, NEW m \in Moves, StartMove(p, m)
    PROVE  /\ req' \in [Proc -> Call] /\ OnlyCallOf(p)
           /\ req'[p].pc = "read" /\ req'[p].move = m
           /\ req'[p].inc = req[p].inc /\ req'[p].appr = req[p].appr
           /\ req'[p].seen = req[p].seen
<1>1. req[p] \in Call
  BY DEF TypeOK
<1>2. [req[p] EXCEPT !.pc = "read", !.move = m] \in Call
  BY <1>1 DEF Call, PC
<1>3. req' = [req EXCEPT ![p] = [req[p] EXCEPT !.pc = "read", !.move = m]]
  BY DEF StartMove
<1> QED
  BY <1>1, <1>2, <1>3 DEF TypeOK, Call, OnlyCallOf

(* Uniqueness of the holder survives a step in which p wins nothing new.    *)
LEMMA HoldersKept ==
    ASSUME IInv, NEW p \in Proc, OnlyCallOf(p),
           Holds(p)' => Holds(p) /\ req'[p].appr = req[p].appr
    PROVE  HolderIsUnique'
  BY DEF IInv, HolderIsUnique, Holds, OnlyCallOf

-----------------------------------------------------------------------------
(* Steps that change nothing but the goroutine's own call.                 *)

(* Such a step keeps IInv if the call it leaves behind is in order and     *)
(* holds no approval it did not hold before.                               *)
LEMMA CallStep ==
    ASSUME IInv, NEW p \in Proc,
           UNCHANGED <<incidentVars, approvalVars, outsideVars>>,
           req' \in [Proc -> Call], OnlyCallOf(p),
           Shape(p)', SeenDecides(p)', Holding(p)',
           Holds(p)' => Holds(p) /\ req'[p].appr = req[p].appr
    PROVE  IInv'
<1> USE DEF incidentVars, approvalVars, outsideVars
<1>1. TypeOK'
  BY DEF IInv, TypeOK
<1>2. CallsOK'
  <2> SUFFICES ASSUME NEW q \in Proc, q # p
               PROVE  (Shape(q) /\ SeenDecides(q) /\ Holding(q))'
    BY DEF CallsOK
  <2>1. req'[q] = req[q]
    BY DEF OnlyCallOf
  <2>2. Shape(q) /\ SeenDecides(q) /\ Holding(q)
    BY DEF IInv, CallsOK
  <2> QED
    BY <2>1, <2>2 DEF Shape, SeenDecides, Holding, Holds, BeforeGrant, At
<1>3. HolderIsUnique'
  BY HoldersKept
<1>4. OwnerKnown' /\ GrantsOK' /\ SendsOK'
  BY DEF IInv, OwnerKnown, GrantsOK, SendsOK
<1> QED
  BY <1>1, <1>2, <1>3, <1>4 DEF IInv

(* A call that ends, as a crash or an early return leaves it.              *)
LEMMA EndCall ==
    ASSUME IInv, NEW p \in Proc, Goto(p, "idle"),
           UNCHANGED <<incidentVars, approvalVars, outsideVars>>
    PROVE  IInv'
<1>1. /\ req' \in [Proc -> Call] /\ OnlyCallOf(p)
      /\ req'[p] = NoCall
  BY GotoEffect DEF IInv, PC
<1>2. Shape(p)' /\ SeenDecides(p)' /\ Holding(p)' /\ ~Holds(p)'
  BY <1>1 DEF Shape, SeenDecides, Holding, Holds, NoCall, GrantMoves, VerifyMoves, Recording
<1> QED
  BY <1>1, <1>2, CallStep

(* A call that turns to its next status move: nothing is sent or recorded  *)
(* while it does, and what it carried out stays carried out.               *)
LEMMA NextMove ==
    ASSUME IInv, NEW p \in Proc, NEW m \in {"actionFailed"} \cup VerifyMoves,
           StartMove(p, m),
           UNCHANGED <<incidentVars, approvalVars, outsideVars>>,
           req[p].pc \in {"call", "calling", "verify"},
           m \in VerifyMoves => calls[req[p].appr] > 0 /\ applied[req[p].appr]
    PROVE  IInv'
<1> USE DEF incidentVars, approvalVars, outsideVars
<1>0. m \in Moves
  BY DEF VerifyMoves, Moves, ToFailed, ToResolved
<1>1. /\ req' \in [Proc -> Call] /\ OnlyCallOf(p)
      /\ req'[p].pc = "read" /\ req'[p].move = m
      /\ req'[p].inc = req[p].inc /\ req'[p].appr = req[p].appr
  BY <1>0, StartMoveEffect DEF IInv
<1>2. Shape(p) /\ Holding(p) /\ Holds(p)
  BY DEF IInv, CallsOK, Shape, Holds, GrantMoves, VerifyMoves
<1>3. Shape(p)' /\ SeenDecides(p)'
  BY <1>0, <1>1, <1>2 DEF Shape, SeenDecides, Holds, GrantMoves, VerifyMoves, Recording
<1>4. Holding(p)'
  BY <1>1, <1>2 DEF Holding, Holds, BeforeGrant, At, GrantMoves, VerifyMoves
<1> QED
  BY <1>1, <1>2, <1>3, <1>4, CallStep

(* A move that is refused or fails: the approval it was for is expired, or *)
(* the outcome is recorded as failed, or the call just ends.               *)
LEMMA MoveRefused ==
    ASSUME IInv, NEW p \in Proc, req[p].pc \in {"read", "write"},
           Goto(p, AfterRefusal(req[p].move)),
           UNCHANGED <<incidentVars, approvalVars, outsideVars>>
    PROVE  IInv'
<1> DEFINE label == AfterRefusal(req[p].move)
<1>1. CASE label = "idle"
  BY <1>1, EndCall
<1>2. CASE label # "idle"
  <2> USE DEF incidentVars, approvalVars, outsideVars
  <2>1. label \in {"expire", "recordFailed"}
    BY <1>2 DEF AfterRefusal
  <2>2. /\ req' \in [Proc -> Call] /\ OnlyCallOf(p)
        /\ req'[p] = [req[p] EXCEPT !.pc = label]
    BY <1>2, <2>1, GotoEffect DEF IInv, PC, Recording
  <2>3. /\ req'[p].pc = label /\ req'[p].move = req[p].move
        /\ req'[p].inc = req[p].inc /\ req'[p].appr = req[p].appr
    BY <2>2 DEF IInv, TypeOK, Call
  <2>4. Shape(p) /\ Holding(p)
    BY DEF IInv, CallsOK
  <2>5. /\ label = "expire" => req[p].move \in {"waiting", "mitigating"}
        /\ label = "recordFailed" => Holds(p) /\ req[p].move # "mitigating"
    BY <1>2 DEF AfterRefusal, Holds, GrantMoves, VerifyMoves
  <2>6. Shape(p)' /\ SeenDecides(p)' /\ (Holds(p)' <=> Holds(p))
    BY <2>1, <2>3, <2>4, <2>5 DEF Shape, SeenDecides, Holds, Recording
  <2>7. Holding(p)'
    BY <2>1, <2>3, <2>4, <2>5 DEF Holding, Holds, BeforeGrant, At
  <2> QED
    BY <2>2, <2>3, <2>6, <2>7, CallStep
<1> QED
  BY <1>1, <1>2

-----------------------------------------------------------------------------
(* One lemma per action: it keeps IInv.                                    *)

(* The recovery webhook read a status that lets it close the incident.     *)
LEMMA ResolveExternallyKeeps ==
    ASSUME IInv, NEW p \in Proc, NEW i \in Incident, ResolveExternally(p, i)
    PROVE  IInv'
<1> USE DEF incidentVars, approvalVars, outsideVars
<1>0. "external" \in Moves /\ "expireAll" \in PC /\ version[i] \in Nat
  BY DEF Moves, ToResolved, PC, IInv, TypeOK
<1>1. /\ req' \in [Proc -> Call] /\ OnlyCallOf(p)
      /\ req'[p] = [pc |-> "expireAll", move |-> "external", inc |-> i,
                    appr |-> None, seen |-> version[i], live |-> TRUE]
  BY <1>0, ServeEffect DEF ResolveExternally, IInv
<1>2. Shape(p)' /\ SeenDecides(p)' /\ Holding(p)' /\ ~Holds(p)'
  BY <1>0, <1>1 DEF ResolveExternally, Shape, SeenDecides, Holding, Holds,
                    GrantMoves, VerifyMoves, Recording, Permitted, CanTransition
<1> QED
  BY <1>1, <1>2, CallStep DEF ResolveExternally

(* The same for Analyze, the admin's Resolve and the dead-letter callback. *)
LEMMA BeginMoveKeeps ==
    ASSUME IInv, NEW p \in Proc, NEW i \in Incident, BeginMove(p, i)
    PROVE  IInv'
<1> USE DEF incidentVars, approvalVars, outsideVars
<1>1. PICK m \in {"analyze", "adminResolve", "deadLetter"} :
          Permitted(status[i], m) /\ Serve(p, "write", m, i, None, version[i])
  BY DEF BeginMove
<1>2. m \in Moves /\ "write" \in PC /\ version[i] \in Nat
  BY DEF Moves, ToFailed, ToResolved, PC, IInv, TypeOK
<1>3. /\ req' \in [Proc -> Call] /\ OnlyCallOf(p)
      /\ req'[p] = [pc |-> "write", move |-> m, inc |-> i,
                    appr |-> None, seen |-> version[i], live |-> TRUE]
  BY <1>1, <1>2, ServeEffect DEF IInv
<1>4. Shape(p)' /\ Holding(p)' /\ ~Holds(p)'
  BY <1>2, <1>3 DEF BeginMove, Shape, Holding, Holds, GrantMoves, VerifyMoves, Recording
<1>5. SeenDecides(p)'
  BY <1>1, <1>2, <1>3 DEF BeginMove, SeenDecides, Permitted, CanTransition, Target
<1> QED
  BY <1>3, <1>4, <1>5, CallStep DEF BeginMove

(* GetByID and the table check of a move.                                  *)
LEMMA ReadIncidentKeeps ==
    ASSUME IInv, NEW p \in Proc, ReadIncident(p)
    PROVE  IInv'
<1> USE DEF incidentVars, approvalVars, outsideVars
<1> DEFINE c == [req[p] EXCEPT !.pc = "write", !.seen = version[req[p].inc]]
<1>1. Shape(p) /\ Holding(p) /\ req[p].pc = "read" /\ req[p].inc \in Incident
  BY DEF IInv, CallsOK, ReadIncident, At, Shape
<1>2. req' = [req EXCEPT ![p] = c]
  BY DEF ReadIncident
<1>3. req[p] \in Call /\ version[req[p].inc] \in Nat
  BY <1>1 DEF IInv, TypeOK
<1>4. c \in Call
  BY <1>3 DEF Call, PC
<1>5. /\ req' \in [Proc -> Call] /\ OnlyCallOf(p)
      /\ req'[p].pc = "write" /\ req'[p].seen = version[req[p].inc]
      /\ req'[p].inc = req[p].inc /\ req'[p].appr = req[p].appr
      /\ req'[p].move = req[p].move
  BY <1>2, <1>3, <1>4 DEF IInv, TypeOK, Call, OnlyCallOf
<1>6. Shape(p)' /\ (Holds(p)' <=> Holds(p))
  BY <1>1, <1>5 DEF ReadIncident, Shape, Holds, Recording
<1>7. SeenDecides(p)'
  BY <1>3, <1>5 DEF ReadIncident, SeenDecides, Permitted, CanTransition
<1>8. Holding(p)'
  BY <1>1, <1>5 DEF ReadIncident, Holding, Holds, BeforeGrant, At
<1> QED
  BY <1>5, <1>6, <1>7, <1>8, CallStep DEF ReadIncident

(* The move is refused by the table, or the context or the database fails. *)
LEMMA RefuseMoveKeeps ==
    ASSUME IInv, NEW p \in Proc, RefuseMove(p) \/ FailMove(p)
    PROVE  IInv'
  BY MoveRefused DEF RefuseMove, FailMove, At

(* A goroutine that stays in its call and only moves its program counter.  *)
LEMMA GotoWithin ==
    ASSUME IInv, NEW p \in Proc, NEW label \in PC \ {"idle"}, Goto(p, label)
    PROVE  /\ req' \in [Proc -> Call] /\ OnlyCallOf(p)
           /\ req'[p].pc = label /\ req'[p].move = req[p].move
           /\ req'[p].inc = req[p].inc /\ req'[p].appr = req[p].appr
           /\ req'[p].seen = req[p].seen
<1>1. /\ req' \in [Proc -> Call] /\ OnlyCallOf(p)
      /\ req'[p] = [req[p] EXCEPT !.pc = label]
  BY GotoEffect DEF IInv
<1> QED
  BY <1>1 DEF IInv, TypeOK, Call

(* The executor's check of the incident's status.                          *)
LEMMA CheckIncidentKeeps ==
    ASSUME IInv, NEW p \in Proc, CheckIncident(p)
    PROVE  IInv'
<1> USE DEF incidentVars, approvalVars, outsideVars
<1>1. PICK label \in {"call", "recordFailed"} : Goto(p, label)
  BY DEF CheckIncident
<1>2. label \in PC \ {"idle"}
  BY DEF PC, Recording
<1>3. /\ req' \in [Proc -> Call] /\ OnlyCallOf(p)
      /\ req'[p].pc = label /\ req'[p].move = req[p].move
      /\ req'[p].inc = req[p].inc /\ req'[p].appr = req[p].appr
  BY <1>1, <1>2, GotoWithin
<1>4. Shape(p) /\ Holding(p) /\ req[p].pc = "check"
  BY DEF IInv, CallsOK, CheckIncident, At
<1>5. Shape(p)' /\ SeenDecides(p)' /\ Holding(p)' /\ (Holds(p)' <=> Holds(p))
  BY <1>3, <1>4 DEF CheckIncident, Shape, SeenDecides, Holding, Holds,
                    BeforeGrant, At, GrantMoves, VerifyMoves, Recording
<1> QED
  BY <1>3, <1>5, CallStep DEF CheckIncident

(* The endpoint's answer is unknown: a timeout or a cancellation.          *)
LEMMA RestartUnknownKeeps ==
    ASSUME IInv, NEW p \in Proc, RestartUnknown(p) \/ CancelledBeforeSend(p)
    PROVE  IInv'
<1> USE DEF incidentVars, approvalVars, outsideVars, RestartUnknown, CancelledBeforeSend
<1>1. "recordUnknown" \in PC \ {"idle"}
  BY DEF PC, Recording
<1>2. /\ req' \in [Proc -> Call] /\ OnlyCallOf(p)
      /\ req'[p].pc = "recordUnknown" /\ req'[p].move = req[p].move
      /\ req'[p].inc = req[p].inc /\ req'[p].appr = req[p].appr
  BY <1>1, GotoWithin
<1>3. Shape(p) /\ Holding(p) /\ req[p].pc \in {"call", "calling"}
  BY DEF IInv, CallsOK, At
<1>4. Shape(p)' /\ SeenDecides(p)' /\ Holding(p)' /\ (Holds(p)' <=> Holds(p))
  BY <1>2, <1>3 DEF Shape, SeenDecides, Holding, Holds,
                    BeforeGrant, At, GrantMoves, VerifyMoves, Recording
<1> QED
  BY <1>2, <1>4, CallStep

(* The endpoint refused, or is believed to have.                           *)
LEMMA RestartFailedKeeps ==
    ASSUME IInv, NEW p \in Proc, RestartFailed(p) \/ RefuseTarget(p)
    PROVE  IInv'
  BY NextMove DEF RestartFailed, RefuseTarget, At, VerifyMoves

(* The endpoint carried the restart out.                                   *)
LEMMA RestartSucceededKeeps ==
    ASSUME IInv, NEW p \in Proc, RestartSucceeded(p)
    PROVE  IInv'
<1>1. Holds(p) /\ Holding(p)
  BY DEF IInv, CallsOK, Shape, RestartSucceeded, At, Holds, GrantMoves
<1>2. calls[req[p].appr] > 0 /\ applied[req[p].appr]
  BY <1>1 DEF Holding, RestartSucceeded, At
<1> QED
  BY <1>2, NextMove DEF RestartSucceeded, At, VerifyMoves

(* Whatever the verdict of the verification.                               *)
LEMMA VerifyKeeps ==
    ASSUME IInv, NEW p \in Proc, Verify(p)
    PROVE  IInv'
<1>1. Shape(p) /\ Holding(p) /\ req[p].pc = "verify"
  BY DEF IInv, CallsOK, Verify, At
<1>2. calls[req[p].appr] > 0 /\ applied[req[p].appr]
  BY <1>1 DEF Shape, Holding, Holds, GrantMoves, VerifyMoves
<1> QED
  BY <1>1, <1>2, NextMove DEF Verify, VerifyMoves

(* The client of a call goes away.                                         *)
LEMMA CancelKeeps ==
    ASSUME IInv, NEW p \in Proc, Cancel(p)
    PROVE  IInv'
<1> USE DEF incidentVars, approvalVars, outsideVars, Cancel
<1>1. Shape(p) /\ SeenDecides(p) /\ Holding(p)
  BY DEF IInv, CallsOK
<1>2. /\ req' \in [Proc -> Call] /\ OnlyCallOf(p)
      /\ req'[p].pc = req[p].pc /\ req'[p].move = req[p].move
      /\ req'[p].inc = req[p].inc /\ req'[p].appr = req[p].appr
      /\ req'[p].seen = req[p].seen
  BY DEF IInv, TypeOK, Call, OnlyCallOf
<1>3. Shape(p)' /\ SeenDecides(p)' /\ Holding(p)' /\ (Holds(p)' <=> Holds(p))
  BY <1>1, <1>2 DEF Shape, SeenDecides, Holding, Holds, BeforeGrant, At
<1> QED
  BY <1>2, <1>3, CallStep

(* The restart request leaves.                                             *)
LEMMA SendRestartKeeps ==
    ASSUME IInv, NEW p \in Proc, SendRestart(p)
    PROVE  IInv'
<1> DEFINE a == req[p].appr
<1> USE DEF incidentVars, approvalVars
<1>1. Shape(p) /\ Holding(p) /\ Holds(p) /\ req[p].pc = "call" /\ a \in Approval
  BY DEF IInv, CallsOK, SendRestart, At, Shape, Holds, GrantMoves
<1>2. calls[a] = 0 /\ approval[a] = "EXECUTING" /\ grantee[owner[a]] = a
  BY <1>1 DEF Holding, At, BeforeGrant, Shape, Holds
<1>3. PICK done \in BOOLEAN : applied' = [applied EXCEPT ![a] = done]
  BY DEF SendRestart
<1>4. /\ calls' \in [Approval -> Nat] /\ applied' \in [Approval -> BOOLEAN]
      /\ calls'[a] = 1
      /\ \A b \in Approval \ {a} : calls'[b] = calls[b] /\ applied'[b] = applied[b]
  BY <1>1, <1>2, <1>3 DEF SendRestart, IInv, TypeOK
<1>5. "calling" \in PC \ {"idle"}
  BY DEF PC
<1>6. /\ req' \in [Proc -> Call] /\ OnlyCallOf(p)
      /\ req'[p].pc = "calling" /\ req'[p].move = req[p].move
      /\ req'[p].inc = req[p].inc /\ req'[p].appr = req[p].appr
  BY <1>5, GotoWithin DEF SendRestart
<1>7. TypeOK'
  BY <1>4, <1>6 DEF SendRestart, IInv, TypeOK
<1>8. CallsOK'
  <2>1. Shape(p)' /\ SeenDecides(p)' /\ Holding(p)'
    BY <1>1, <1>2, <1>4, <1>6 DEF SendRestart, Shape, SeenDecides, Holding, Holds,
                            BeforeGrant, At, GrantMoves, VerifyMoves, Recording
  <2>2. ASSUME NEW q \in Proc, q # p
        PROVE  (Shape(q) /\ SeenDecides(q) /\ Holding(q))'
    <3>1. req'[q] = req[q] /\ Shape(q) /\ SeenDecides(q) /\ Holding(q)
      BY <1>6, <2>2 DEF OnlyCallOf, IInv, CallsOK
    <3>2. Holds(q) => req[q].appr \in Approval \ {a}
      BY <1>1, <2>2, <3>1 DEF IInv, HolderIsUnique, Shape, Holds
    <3> QED
      BY <1>4, <3>1, <3>2 DEF SendRestart, Shape, SeenDecides, Holding, Holds, BeforeGrant, At
  <2> QED
    BY <2>1, <2>2 DEF CallsOK
<1>9. HolderIsUnique'
  BY <1>6, HoldersKept DEF Holds
<1>10. OwnerKnown'
  BY DEF IInv, OwnerKnown, SendRestart
<1>11. GrantsOK'
  <2>1. \A i \in Incident : grantee[i] # None => grantee[i] \in Approval
    BY DEF IInv, TypeOK
  <2> QED
    BY <1>2, <1>4, <2>1 DEF IInv, GrantsOK, SendRestart
<1>12. SendsOK'
  BY <1>1, <1>2, <1>4 DEF IInv, SendsOK, SendRestart
<1> QED
  BY <1>7, <1>8, <1>9, <1>10, <1>11, <1>12 DEF IInv

-----------------------------------------------------------------------------
(* Steps that change an approval row.                                      *)

SentStatus == {"EXECUTING", "EXECUTED", "FAILED", "UNKNOWN"}

(* What every such step has in common: rows are never deleted nor rebound, *)
(* and one whose restart was sent stays among the statuses after it.       *)
RowsKept ==
    /\ approval' \in [Approval -> ApprovalStatus]
    /\ owner' \in [Approval -> Incident \cup {None}]
    /\ \A a \in Approval :
          /\ approval[a] # "ABSENT" => approval'[a] # "ABSENT" /\ owner'[a] = owner[a]
          /\ approval'[a] # "ABSENT" => owner'[a] \in Incident
          /\ approval'[a] # approval[a] =>
                /\ calls[a] > 0 => approval'[a] \in SentStatus
                /\ approval'[a] = "EXECUTED" =>
                      calls[a] > 0 /\ applied[a] /\ status[owner[a]] \in Terminal

(* The row invariants then hold, and a goroutine whose call is unchanged   *)
(* finds the approval it won as it left it.                                *)
LEMMA RowStep ==
    ASSUME IInv, RowsKept, UNCHANGED <<incidentVars, outsideVars>>,
           req' \in [Proc -> Call]
    PROVE  /\ TypeOK' /\ OwnerKnown' /\ GrantsOK' /\ SendsOK'
           /\ \A q \in Proc :
                 /\ req'[q] = req[q]
                 /\ Holds(q) => approval'[req[q].appr] = approval[req[q].appr]
                 => (Shape(q) /\ SeenDecides(q) /\ Holding(q))'
<1> USE DEF incidentVars, outsideVars
<1>1. TypeOK' /\ OwnerKnown'
  BY DEF IInv, TypeOK, RowsKept, OwnerKnown
<1>2. GrantsOK'
  BY DEF IInv, TypeOK, RowsKept, GrantsOK
<1>3. SendsOK'
  BY DEF IInv, TypeOK, RowsKept, SendsOK, OwnerKnown, SentStatus
<1>4. ASSUME NEW q \in Proc, req'[q] = req[q],
             Holds(q) => approval'[req[q].appr] = approval[req[q].appr]
      PROVE  (Shape(q) /\ SeenDecides(q) /\ Holding(q))'
  <2>1. Shape(q) /\ SeenDecides(q) /\ Holding(q)
    BY DEF IInv, CallsOK
  <2> QED
    BY <1>4, <2>1 DEF RowsKept, Shape, SeenDecides, Holding, Holds, BeforeGrant, At
<1> QED
  BY <1>1, <1>2, <1>3, <1>4

(* An approval someone holds is APPROVED or EXECUTING.                     *)
LEMMA HeldStatus ==
    ASSUME IInv, NEW q \in Proc, Holds(q)
    PROVE  req[q].appr \in Approval /\ approval[req[q].appr] \in {"APPROVED", "EXECUTING"}
  BY DEF IInv, CallsOK, Shape, Holding, Holds

(* Creating the PENDING row of Request, acknowledged or not.               *)
LEMMA CreatedRowKept ==
    ASSUME IInv, NEW a \in Approval, NEW i \in Incident, approval[a] = "ABSENT",
           approval' = [approval EXCEPT ![a] = "PENDING"],
           owner' = [owner EXCEPT ![a] = i]
    PROVE  /\ RowsKept
           /\ \A q \in Proc : Holds(q) => approval'[req[q].appr] = approval[req[q].appr]
<1>1. calls[a] = 0
  BY DEF IInv, TypeOK, SendsOK
<1>2. RowsKept
  BY <1>1 DEF IInv, TypeOK, ApprovalStatus, OwnerKnown, RowsKept
<1> QED
  BY <1>2, HeldStatus DEF IInv, TypeOK

(* The agent's worker_restart tool creates a row and goes on to its move.  *)
LEMMA RequestKeeps ==
    ASSUME IInv, NEW p \in Proc, NEW a \in Approval, NEW i \in Incident, Request(p, a, i)
    PROVE  IInv'
<1>1. /\ RowsKept
      /\ \A q \in Proc : Holds(q) => approval'[req[q].appr] = approval[req[q].appr]
  BY CreatedRowKept DEF Request
<1>2. "waiting" \in Moves /\ "read" \in PC
  BY DEF Moves, PC
<1>3. /\ req' \in [Proc -> Call] /\ OnlyCallOf(p)
      /\ req'[p] = [pc |-> "read", move |-> "waiting", inc |-> i,
                    appr |-> a, seen |-> 0, live |-> TRUE]
  BY <1>2, ServeEffect DEF Request, IInv
<1>4. Shape(p)' /\ SeenDecides(p)' /\ Holding(p)' /\ ~Holds(p)'
  BY <1>2, <1>3 DEF Request, IInv, TypeOK, Shape, SeenDecides, Holding, Holds,
                    GrantMoves, VerifyMoves, Recording
<1>5. TypeOK' /\ OwnerKnown' /\ GrantsOK' /\ SendsOK' /\ CallsOK'
  BY <1>1, <1>3, <1>4, RowStep DEF Request, CallsOK, OnlyCallOf
<1>6. HolderIsUnique'
  BY <1>3, <1>4, HoldersKept
<1> QED
  BY <1>5, <1>6 DEF IInv

(* The row is created but its creator was told it was not.                 *)
LEMMA LoseRequestAckKeeps ==
    ASSUME IInv, NEW a \in Approval, NEW i \in Incident, LoseRequestAck(a, i)
    PROVE  IInv'
<1>1. /\ RowsKept
      /\ \A q \in Proc : Holds(q) => approval'[req[q].appr] = approval[req[q].appr]
  BY CreatedRowKept DEF LoseRequestAck
<1>2. req' \in [Proc -> Call] /\ \A q \in Proc : req'[q] = req[q]
  BY DEF LoseRequestAck, IInv, TypeOK
<1>3. TypeOK' /\ OwnerKnown' /\ GrantsOK' /\ SendsOK' /\ CallsOK'
  BY <1>1, <1>2, RowStep DEF LoseRequestAck, CallsOK
<1>4. HolderIsUnique'
  BY DEF LoseRequestAck, IInv, HolderIsUnique, Holds
<1> QED
  BY <1>3, <1>4 DEF IInv

(* A decision on a PENDING row: nobody holds it, nothing was sent for it.  *)
LEMMA DecidedRowKept ==
    ASSUME IInv, NEW a \in Approval, NEW to \in {"APPROVED", "REJECTED", "EXPIRED"},
           SetApproval(a, "PENDING", to), UNCHANGED owner
    PROVE  /\ RowsKept /\ calls[a] = 0
           /\ owner[a] \in Incident /\ approval'[a] = to
           /\ \A q \in Proc : Holds(q) =>
                 req[q].appr # a /\ approval'[req[q].appr] = approval[req[q].appr]
<1>1. calls[a] = 0 /\ owner[a] \in Incident
  BY DEF SetApproval, IInv, TypeOK, SendsOK, OwnerKnown
<1>2. RowsKept
  BY <1>1 DEF SetApproval, IInv, TypeOK, ApprovalStatus, OwnerKnown, RowsKept
<1>3. approval'[a] = to
  BY DEF SetApproval, IInv, TypeOK
<1>4. ASSUME NEW q \in Proc, Holds(q)
      PROVE  req[q].appr # a /\ approval'[req[q].appr] = approval[req[q].appr]
  BY <1>4, HeldStatus DEF SetApproval, IInv, TypeOK
<1> QED
  BY <1>1, <1>2, <1>3, <1>4

(* The approval is won: from here one goroutine holds it.                  *)
LEMMA ApproveKeeps ==
    ASSUME IInv, NEW p \in Proc, NEW a \in Approval, Approve(p, a)
    PROVE  IInv'
<1>1. /\ RowsKept /\ calls[a] = 0
      /\ owner[a] \in Incident /\ approval'[a] = "APPROVED"
      /\ \A q \in Proc : Holds(q) =>
            req[q].appr # a /\ approval'[req[q].appr] = approval[req[q].appr]
  BY DecidedRowKept DEF Approve
<1>2. "mitigating" \in Moves /\ "read" \in PC
  BY DEF Moves, PC
<1>3. /\ req' \in [Proc -> Call] /\ OnlyCallOf(p)
      /\ req'[p] = [pc |-> "read", move |-> "mitigating", inc |-> owner[a],
                    appr |-> a, seen |-> 0, live |-> TRUE]
  BY <1>1, <1>2, ServeEffect DEF Approve, IInv
<1>4. Shape(p)' /\ SeenDecides(p)' /\ Holding(p)'
  BY <1>1, <1>2, <1>3 DEF Approve, outsideVars, Shape, SeenDecides, Holding, Holds,
                    BeforeGrant, At, GrantMoves, VerifyMoves, Recording
<1>5. TypeOK' /\ OwnerKnown' /\ GrantsOK' /\ SendsOK' /\ CallsOK'
  BY <1>1, <1>3, <1>4, RowStep DEF Approve, CallsOK, OnlyCallOf
<1>6. HolderIsUnique'
  BY <1>1, <1>3 DEF IInv, HolderIsUnique, Holds, OnlyCallOf
<1> QED
  BY <1>5, <1>6 DEF IInv

(* A rejection of a pending row wins nothing that can be executed.         *)
LEMMA RejectKeeps ==
    ASSUME IInv, NEW p \in Proc, NEW a \in Approval, Reject(p, a)
    PROVE  IInv'
<1>1. /\ RowsKept
      /\ owner[a] \in Incident /\ approval'[a] = "REJECTED"
      /\ \A q \in Proc : Holds(q) =>
            req[q].appr # a /\ approval'[req[q].appr] = approval[req[q].appr]
  BY DecidedRowKept DEF Reject
<1>2. "rejected" \in Moves /\ "read" \in PC
  BY DEF Moves, ToFailed, PC
<1>3. /\ req' \in [Proc -> Call] /\ OnlyCallOf(p)
      /\ req'[p] = [pc |-> "read", move |-> "rejected", inc |-> owner[a],
                    appr |-> a, seen |-> 0, live |-> TRUE]
  BY <1>1, <1>2, ServeEffect DEF Reject, IInv
<1>4. Shape(p)' /\ SeenDecides(p)' /\ Holding(p)' /\ ~Holds(p)'
  BY <1>1, <1>2, <1>3 DEF Reject, Shape, SeenDecides, Holding, Holds,
                    GrantMoves, VerifyMoves, Recording
<1>5. TypeOK' /\ OwnerKnown' /\ GrantsOK' /\ SendsOK' /\ CallsOK'
  BY <1>1, <1>3, <1>4, RowStep DEF Reject, CallsOK, OnlyCallOf
<1>6. HolderIsUnique'
  BY <1>3, <1>4, HoldersKept
<1> QED
  BY <1>5, <1>6 DEF IInv

(* A decision kept by the database whose caller returned an error.         *)
LEMMA LoseDecisionAckKeeps ==
    ASSUME IInv, NEW a \in Approval, LoseDecisionAck(a)
    PROVE  IInv'
<1>1. /\ RowsKept
      /\ \A q \in Proc : Holds(q) => approval'[req[q].appr] = approval[req[q].appr]
  BY DecidedRowKept DEF LoseDecisionAck
<1>2. req' \in [Proc -> Call] /\ \A q \in Proc : req'[q] = req[q]
  BY DEF LoseDecisionAck, IInv, TypeOK
<1>3. TypeOK' /\ OwnerKnown' /\ GrantsOK' /\ SendsOK' /\ CallsOK'
  BY <1>1, <1>2, RowStep DEF LoseDecisionAck, CallsOK
<1>4. HolderIsUnique'
  BY DEF LoseDecisionAck, IInv, HolderIsUnique, Holds
<1> QED
  BY <1>3, <1>4 DEF IInv

(* A step of p that changes rows and ends p's call.                        *)
LEMMA RowStepEndsCall ==
    ASSUME IInv, NEW p \in Proc, RowsKept, Goto(p, "idle"),
           UNCHANGED <<incidentVars, outsideVars>>,
           \A q \in Proc \ {p} : Holds(q) => approval'[req[q].appr] = approval[req[q].appr]
    PROVE  IInv'
<1>1. /\ req' \in [Proc -> Call] /\ OnlyCallOf(p)
      /\ req'[p] = NoCall
  BY GotoEffect DEF IInv, PC
<1>2. Shape(p)' /\ SeenDecides(p)' /\ Holding(p)' /\ ~Holds(p)'
  BY <1>1 DEF Shape, SeenDecides, Holding, Holds, NoCall, GrantMoves, VerifyMoves, Recording
<1>3. TypeOK' /\ OwnerKnown' /\ GrantsOK' /\ SendsOK' /\ CallsOK'
  BY <1>1, <1>2, RowStep DEF CallsOK, OnlyCallOf
<1>4. HolderIsUnique'
  BY <1>1, <1>2, HoldersKept
<1> QED
  BY <1>3, <1>4 DEF IInv

(* All pending rows of an incident expire: none of them is held or sent.   *)
LEMMA PendingExpiredKept ==
    ASSUME IInv, NEW i \in Incident, approval' = PendingExpired(i), UNCHANGED owner
    PROVE  /\ RowsKept
           /\ \A q \in Proc : Holds(q) => approval'[req[q].appr] = approval[req[q].appr]
<1>1. \A a \in Approval : approval'[a] = IF owner[a] = i /\ approval[a] = "PENDING"
                                           THEN "EXPIRED" ELSE approval[a]
  BY DEF PendingExpired
<1>2. \A a \in Approval : approval[a] = "PENDING" => calls[a] = 0
  BY DEF IInv, TypeOK, SendsOK
<1>3. approval' \in [Approval -> ApprovalStatus]
  BY DEF PendingExpired, IInv, TypeOK, ApprovalStatus
<1>4. RowsKept
  BY <1>1, <1>2, <1>3 DEF IInv, TypeOK, OwnerKnown, RowsKept
<1> QED
  BY <1>1, <1>4, HeldStatus DEF IInv, TypeOK

(* An update that changes nothing.                                         *)
LEMMA SameRowsKept ==
    ASSUME IInv, UNCHANGED approvalVars
    PROVE  RowsKept
  BY DEF approvalVars, RowsKept, IInv, TypeOK, OwnerKnown

(* ResolveExternally expires the pending rows before its write.            *)
LEMMA ExpirePendingKeeps ==
    ASSUME IInv, NEW p \in Proc, ExpirePending(p)
    PROVE  IInv'
<1>1. Shape(p) /\ SeenDecides(p) /\ req[p].pc = "expireAll" /\ req[p].move = "external"
  BY DEF IInv, CallsOK, ExpirePending, At, Shape
<1>2. req[p].inc \in Incident
  BY <1>1 DEF Shape
<1>3. /\ RowsKept
      /\ \A q \in Proc : Holds(q) => approval'[req[q].appr] = approval[req[q].appr]
  BY <1>2, PendingExpiredKept DEF ExpirePending
<1>4. "write" \in PC \ {"idle"}
  BY DEF PC
<1>5. /\ req' \in [Proc -> Call] /\ OnlyCallOf(p)
      /\ req'[p].pc = "write" /\ req'[p].move = "external"
      /\ req'[p].inc = req[p].inc /\ req'[p].seen = req[p].seen
  BY <1>1, <1>4, GotoWithin DEF ExpirePending
<1>6. Shape(p)' /\ Holding(p)' /\ ~Holds(p)'
  BY <1>1, <1>5 DEF Shape, Holding, Holds, GrantMoves, VerifyMoves, Recording
<1>7. SeenDecides(p)'
  BY <1>1, <1>5 DEF ExpirePending, incidentVars, SeenDecides, Permitted, CanTransition
<1>8. TypeOK' /\ OwnerKnown' /\ GrantsOK' /\ SendsOK' /\ CallsOK'
  BY <1>3, <1>5, <1>6, <1>7, RowStep DEF ExpirePending, CallsOK, OnlyCallOf
<1>9. HolderIsUnique'
  BY <1>5, <1>6, HoldersKept
<1> QED
  BY <1>8, <1>9 DEF IInv

(* The expiry failed, or was kept without the caller knowing.              *)
LEMMA FailExpirePendingKeeps ==
    ASSUME IInv, NEW p \in Proc, FailExpirePending(p)
    PROVE  IInv'
<1>1. req[p].inc \in Incident
  BY DEF IInv, CallsOK, FailExpirePending, At, Shape
<1>2. CASE UNCHANGED approval
  BY <1>2, SameRowsKept, RowStepEndsCall DEF FailExpirePending, approvalVars
<1>3. CASE approval' = PendingExpired(req[p].inc)
  BY <1>1, <1>3, PendingExpiredKept, RowStepEndsCall DEF FailExpirePending
<1> QED
  BY <1>2, <1>3 DEF FailExpirePending

(* expire() on behalf of Request finds PENDING, of Approve its APPROVED.   *)
LEMMA ExpireKeeps ==
    ASSUME IInv, NEW p \in Proc, Expire(p)
    PROVE  IInv'
<1> DEFINE a == req[p].appr
<1>1. /\ Shape(p) /\ Holding(p) /\ req[p].pc = "expire" /\ a \in Approval
      /\ req[p].move \in {"waiting", "mitigating"}
  BY DEF IInv, CallsOK, Expire, At, Shape, GrantMoves
<1>2. CASE UNCHANGED approval
  BY <1>2, SameRowsKept, RowStepEndsCall DEF Expire, approvalVars
<1>3. CASE req[p].move = "waiting" /\ SetApproval(a, "PENDING", "EXPIRED")
  BY <1>1, <1>3, DecidedRowKept, RowStepEndsCall DEF Expire
<1>4. CASE req[p].move = "mitigating" /\ SetApproval(a, "APPROVED", "EXPIRED")
  <2>1. Holds(p) /\ calls[a] = 0
    BY <1>1, <1>4 DEF Holding, Holds, BeforeGrant, GrantMoves
  <2>2. RowsKept
    BY <1>1, <1>4, <2>1 DEF Expire, SetApproval, IInv, TypeOK, ApprovalStatus,
                            OwnerKnown, RowsKept
  <2>3. \A q \in Proc \ {p} : Holds(q) => approval'[req[q].appr] = approval[req[q].appr]
    BY <1>1, <1>4, <2>1, HeldStatus DEF SetApproval, IInv, TypeOK, HolderIsUnique
  <2> QED
    BY <2>2, <2>3, RowStepEndsCall DEF Expire
<1> QED
  BY <1>1, <1>2, <1>3, <1>4 DEF Expire, ExpiresFrom

(* The holder's own update of the approval it won disturbs nobody.         *)
LEMMA HeldRowKept ==
    ASSUME IInv, NEW p \in Proc, Holds(p), NEW from, NEW to \in SentStatus,
           SetApproval(req[p].appr, from, to), UNCHANGED owner,
           to = "EXECUTED" => At(p, "recordExecuted")
    PROVE  /\ RowsKept /\ approval'[req[p].appr] = to
           /\ \A q \in Proc \ {p} : Holds(q) =>
                 approval'[req[q].appr] = approval[req[q].appr]
<1> DEFINE a == req[p].appr
<1>1. Shape(p) /\ Holding(p) /\ a \in Approval /\ approval[a] # "ABSENT"
  BY HeldStatus DEF IInv, CallsOK
<1>2. approval' = [approval EXCEPT ![a] = to] /\ to \in ApprovalStatus /\ to # "ABSENT"
  BY DEF SetApproval, SentStatus, ApprovalStatus
<1>3. to = "EXECUTED" => calls[a] > 0 /\ applied[a] /\ status[owner[a]] \in Terminal
  BY <1>1 DEF Holding, Shape, Holds
<1>4. RowsKept
  BY <1>1, <1>2, <1>3 DEF IInv, TypeOK, OwnerKnown, RowsKept
<1>5. \A q \in Proc \ {p} : Holds(q) => req[q].appr # a /\ req[q].appr \in Approval
  BY HeldStatus DEF IInv, HolderIsUnique
<1> QED
  BY <1>1, <1>2, <1>4, <1>5 DEF IInv, TypeOK

(* executeClaimed turns the approval it holds to EXECUTING.                *)
LEMMA MarkExecutingKeeps ==
    ASSUME IInv, NEW p \in Proc, MarkExecuting(p)
    PROVE  IInv'
<1>1. Shape(p) /\ Holding(p) /\ Holds(p) /\ req[p].pc = "claim"
  BY DEF IInv, CallsOK, MarkExecuting, At, Shape, Holds, GrantMoves
<1>2. /\ RowsKept /\ approval'[req[p].appr] = "EXECUTING"
      /\ \A q \in Proc \ {p} : Holds(q) => approval'[req[q].appr] = approval[req[q].appr]
  BY <1>1, HeldRowKept DEF MarkExecuting, SentStatus
<1>3. "check" \in PC \ {"idle"}
  BY DEF PC
<1>4. /\ req' \in [Proc -> Call] /\ OnlyCallOf(p)
      /\ req'[p].pc = "check" /\ req'[p].move = req[p].move
      /\ req'[p].inc = req[p].inc /\ req'[p].appr = req[p].appr
  BY <1>3, GotoWithin DEF MarkExecuting
<1>5. Shape(p)' /\ SeenDecides(p)' /\ Holding(p)' /\ (Holds(p)' <=> Holds(p))
  BY <1>1, <1>2, <1>4 DEF MarkExecuting, incidentVars, outsideVars, Shape, SeenDecides,
        Holding, Holds, BeforeGrant, At, GrantMoves, VerifyMoves, Recording
<1>6. TypeOK' /\ OwnerKnown' /\ GrantsOK' /\ SendsOK' /\ CallsOK'
  BY <1>2, <1>4, <1>5, RowStep DEF MarkExecuting, CallsOK, OnlyCallOf
<1>7. HolderIsUnique'
  BY <1>4, <1>5, HoldersKept
<1> QED
  BY <1>6, <1>7 DEF IInv

(* executeClaimed gives up before anything was sent.                       *)
LEMMA FailMarkExecutingKeeps ==
    ASSUME IInv, NEW p \in Proc, FailMarkExecuting(p)
    PROVE  IInv'
<1>1. Holds(p)
  BY DEF IInv, CallsOK, FailMarkExecuting, At, Shape, Holds, GrantMoves
<1>2. CASE UNCHANGED approval
  BY <1>2, SameRowsKept, RowStepEndsCall DEF FailMarkExecuting, approvalVars
<1>3. CASE SetApproval(req[p].appr, "APPROVED", "EXECUTING")
  BY <1>1, <1>3, HeldRowKept, RowStepEndsCall DEF FailMarkExecuting, SentStatus
<1> QED
  BY <1>2, <1>3 DEF FailMarkExecuting

(* The outcome of the execution settles the approval.                      *)
LEMMA RecordOutcomeKeeps ==
    ASSUME IInv, NEW p \in Proc, RecordOutcome(p)
    PROVE  IInv'
<1>1. Holds(p)
  BY DEF IInv, CallsOK, RecordOutcome, Shape
<1>2. /\ Outcome(req[p].pc) \in SentStatus
      /\ Outcome(req[p].pc) = "EXECUTED" => At(p, "recordExecuted")
  BY DEF Outcome, SentStatus, At
<1> QED
  BY <1>1, <1>2, HeldRowKept, RowStepEndsCall DEF RecordOutcome

-----------------------------------------------------------------------------
(* The versioned write of an incident.                                     *)

(* What the write does: the status that was checked is still the current   *)
(* one, a closed incident is never written, and only the move to           *)
(* MITIGATING, from WAITING_APPROVAL, gives a grant.                       *)
LEMMA WriteEffect ==
    ASSUME IInv, NEW p \in Proc, At(p, "write"), WriteIncident(p)
    PROVE  LET i == req[p].inc
               m == req[p].move
           IN  /\ i \in Incident /\ m \in Moves
               /\ Permitted(status[i], m) /\ status[i] \notin Terminal
               /\ status' \in [Incident -> Status] /\ version' \in [Incident -> Nat]
               /\ event' \in [Incident -> Moves \cup {"created"}]
               /\ grantee' \in [Incident -> Approval \cup {None}]
               /\ status'[i] = Target(m) /\ version'[i] = version[i] + 1
               /\ event'[i] = m
               /\ m # "mitigating" => grantee' = grantee
               /\ m = "mitigating" =>
                     /\ grantee[i] = None /\ req[p].appr \in Approval
                     /\ grantee'[i] = req[p].appr
               /\ \A j \in Incident \ {i} :
                     /\ status'[j] = status[j] /\ version'[j] = version[j]
                     /\ event'[j] = event[j] /\ grantee'[j] = grantee[j]
<1> DEFINE i == req[p].inc
           m == req[p].move
<1>1. Shape(p) /\ SeenDecides(p) /\ i \in Incident /\ m \in Moves
  BY DEF IInv, CallsOK, At, Shape
<1>2. Permitted(status[i], m)
  BY <1>1 DEF WriteIncident, SeenDecides, At
<1>3. status[i] \notin Terminal
  BY <1>2 DEF Permitted, CanTransition, AllowedTargets, Terminal
<1>4. Target(m) \in Status
  BY DEF Target, Status
<1>5. /\ status' \in [Incident -> Status] /\ version' \in [Incident -> Nat]
      /\ event' \in [Incident -> Moves \cup {"created"}]
      /\ status'[i] = Target(m) /\ version'[i] = version[i] + 1 /\ event'[i] = m
      /\ \A j \in Incident \ {i} : /\ status'[j] = status[j] /\ version'[j] = version[j]
                                   /\ event'[j] = event[j]
  BY <1>1, <1>4 DEF WriteIncident, IInv, TypeOK
<1>6. CASE m # "mitigating"
  BY <1>1, <1>2, <1>3, <1>5, <1>6 DEF WriteIncident, IInv, TypeOK
<1>7. CASE m = "mitigating"
  <2>1. req[p].appr \in Approval
    BY <1>1, <1>7 DEF Shape, GrantMoves
  <2>2. status[i] \notin InRemediation
    BY <1>2, <1>7 DEF Permitted, CanTransition, AllowedTargets, Target, ToResolved,
                      InRemediation
  <2>3. grantee[i] = None
    BY <1>1, <1>3, <2>2 DEF IInv, GrantsOK
  <2>4. grantee' = [grantee EXCEPT ![i] = req[p].appr]
    BY <1>7 DEF WriteIncident
  <2> QED
    BY <1>1, <1>2, <1>3, <1>5, <1>7, <2>1, <2>3, <2>4 DEF IInv, TypeOK
<1> QED
  BY <1>6, <1>7

(* Whatever the call does next, a write keeps the row invariants and every *)
(* other call: a version that was read before is stale now.                *)
LEMMA WriteKeepsOthers ==
    ASSUME IInv, NEW p \in Proc, At(p, "write"), WriteIncident(p),
           UNCHANGED <<approvalVars, outsideVars>>,
           req' \in [Proc -> Call], OnlyCallOf(p)
    PROVE  /\ TypeOK' /\ OwnerKnown' /\ GrantsOK' /\ SendsOK'
           /\ \A q \in Proc \ {p} : (Shape(q) /\ SeenDecides(q) /\ Holding(q))'
<1> DEFINE i == req[p].inc
           m == req[p].move
<1> USE DEF approvalVars, outsideVars
<1>1. /\ i \in Incident /\ m \in Moves
      /\ Permitted(status[i], m) /\ status[i] \notin Terminal
      /\ status' \in [Incident -> Status] /\ version' \in [Incident -> Nat]
      /\ event' \in [Incident -> Moves \cup {"created"}]
      /\ grantee' \in [Incident -> Approval \cup {None}]
      /\ status'[i] = Target(m) /\ version'[i] = version[i] + 1
      /\ event'[i] = m
      /\ m # "mitigating" => grantee' = grantee
      /\ m = "mitigating" =>
            /\ grantee[i] = None /\ req[p].appr \in Approval
            /\ grantee'[i] = req[p].appr
      /\ \A j \in Incident \ {i} :
            /\ status'[j] = status[j] /\ version'[j] = version[j]
            /\ event'[j] = event[j] /\ grantee'[j] = grantee[j]
  BY WriteEffect
<1>2. Shape(p) /\ Holding(p) /\ At(p, "write")
  BY DEF IInv, CallsOK
<1>3. TypeOK' /\ OwnerKnown'
  BY <1>1 DEF IInv, TypeOK, OwnerKnown
<1>4. GrantsOK'
  <2>1. m = "mitigating" => owner[req[p].appr] = i /\ approval[req[p].appr] # "ABSENT"
    BY <1>2 DEF Shape, GrantMoves
  <2>2. grantee[i] # None => Target(m) \in InRemediation \cup Terminal
    <3>1. grantee[i] # None => status[i] \in InRemediation
      BY <1>1 DEF IInv, GrantsOK
    <3> QED
      BY <1>1, <3>1 DEF Permitted, CanTransition, AllowedTargets, InRemediation, Terminal
  <2>3. m = "external" => grantee[i] = None /\ Target(m) = "RESOLVED"
    BY <1>1 DEF Permitted, IInv, GrantsOK, Target, ToResolved
  <2>4. m = "verified" => /\ grantee[i] = req[p].appr /\ grantee[i] # None
                          /\ calls[grantee[i]] > 0 /\ applied[grantee[i]]
    <3>1. m = "verified" => Holds(p) /\ ~BeforeGrant(p) /\ req[p].appr \in Approval
      BY <1>2 DEF Holds, BeforeGrant, GrantMoves, VerifyMoves, Shape
    <3> QED
      BY <1>2, <3>1, NoneAssumption DEF Holding, VerifyMoves
  <2>5. m = "mitigating" => Target(m) \in InRemediation
    BY DEF Target, ToResolved, InRemediation
  <2> QED
    BY <1>1, <2>1, <2>2, <2>3, <2>4, <2>5 DEF IInv, TypeOK, GrantsOK
<1>5. SendsOK'
  <2>1. ASSUME NEW a \in Approval, calls[a] > 0
        PROVE  owner[a] \in Incident /\ grantee'[owner[a]] = a
    <3>1. owner[a] \in Incident /\ grantee[owner[a]] = a /\ a # None
      BY <2>1, NoneAssumption DEF IInv, SendsOK, OwnerKnown
    <3> QED
      BY <1>1, <3>1
  <2>2. ASSUME NEW a \in Approval, approval[a] = "EXECUTED"
        PROVE  status'[owner[a]] \in Terminal
    BY <1>1, <2>2 DEF IInv, SendsOK, OwnerKnown
  <2> QED
    BY <2>1, <2>2 DEF IInv, SendsOK
<1>6. ASSUME NEW q \in Proc, q # p
      PROVE  (Shape(q) /\ SeenDecides(q) /\ Holding(q))'
  <2>1. req'[q] = req[q] /\ Shape(q) /\ SeenDecides(q) /\ Holding(q) /\ req[q] \in Call
    BY <1>6 DEF OnlyCallOf, IInv, CallsOK, TypeOK
  <2>2. Shape(q)'
    BY <2>1 DEF Shape, Holds
  <2>3. SeenDecides(q)'
    <3>1. req[q].pc \in {"expireAll", "write"} => req[q].inc \in Incident
      BY <2>1 DEF Shape
    <3>2. CASE req[q].inc = i
      BY <1>1, <2>1, <3>1, <3>2 DEF SeenDecides, IInv, TypeOK, Call
    <3>3. CASE req[q].inc # i
      BY <1>1, <2>1, <3>1, <3>3 DEF SeenDecides, Permitted, CanTransition
    <3> QED
      BY <3>2, <3>3
  <2>4. Holding(q)'
    <3>1. Holds(q) /\ ~BeforeGrant(q) => /\ req[q].inc \in Incident
                                         /\ grantee[req[q].inc] = req[q].appr
                                         /\ req[q].appr # None
      BY <2>1, NoneAssumption DEF Shape, Holds, Holding, GrantMoves, VerifyMoves
    <3>2. Holds(q) /\ ~BeforeGrant(q) => grantee'[req[q].inc] = req[q].appr
      BY <1>1, <3>1
    <3>3. Holds(q) /\ At(q, "recordExecuted") => status'[req[q].inc] \in Terminal
      <4>1. Holds(q) /\ At(q, "recordExecuted") =>
               req[q].inc \in Incident /\ status[req[q].inc] \in Terminal
        BY <2>1 DEF Shape, Holding, At
      <4> QED
        BY <1>1, <4>1
    <3> QED
      BY <2>1, <3>2, <3>3 DEF Holding, Holds, BeforeGrant, At
  <2> QED
    BY <2>2, <2>3, <2>4
<1> QED
  BY <1>3, <1>4, <1>5, <1>6

(* The write succeeds and the call goes on to its next step.               *)
LEMMA CommitMoveKeeps ==
    ASSUME IInv, NEW p \in Proc, CommitMove(p)
    PROVE  IInv'
<1> DEFINE i == req[p].inc
           m == req[p].move
           label == AfterMove(m)
<1> USE DEF CommitMove, approvalVars, outsideVars
<1>1. Shape(p) /\ Holding(p) /\ At(p, "write")
  BY DEF IInv, CallsOK
<1>2. label \in PC
  BY DEF AfterMove, PC, Recording
<1>3. /\ req' \in [Proc -> Call] /\ OnlyCallOf(p)
      /\ req'[p] = IF label = "idle" THEN NoCall ELSE [req[p] EXCEPT !.pc = label]
  BY <1>2, GotoEffect DEF IInv
<1>4. /\ TypeOK' /\ OwnerKnown' /\ GrantsOK' /\ SendsOK'
      /\ \A q \in Proc \ {p} : (Shape(q) /\ SeenDecides(q) /\ Holding(q))'
  BY <1>1, <1>3, WriteKeepsOthers
<1>5. CASE label = "idle"
  <2>1. Shape(p)' /\ SeenDecides(p)' /\ Holding(p)' /\ ~Holds(p)'
    BY <1>3, <1>5 DEF Shape, SeenDecides, Holding, Holds, NoCall, GrantMoves,
                      VerifyMoves, Recording
  <2>2. HolderIsUnique'
    BY <1>3, <2>1, HoldersKept
  <2> QED
    BY <1>4, <2>1, <2>2 DEF IInv, CallsOK
<1>6. CASE label # "idle"
  <2>1. /\ req'[p].pc = label /\ req'[p].move = m
        /\ req'[p].inc = i /\ req'[p].appr = req[p].appr
    BY <1>3, <1>6 DEF IInv, TypeOK, Call
  <2>2. /\ label = "claim" => m = "mitigating"
        /\ label = "verify" => m = "verifying"
        /\ label = "recordFailed" => m = "actionFailed"
        /\ label = "recordExecuted" => m \in {"verifyFailed", "verifyInterrupted", "verified"}
        /\ label \in {"claim", "verify", "recordFailed", "recordExecuted"}
    BY <1>6 DEF AfterMove
  <2>3. Holds(p) /\ Holds(p)' /\ Shape(p)' /\ SeenDecides(p)'
    BY <1>1, <2>1, <2>2 DEF At, Shape, SeenDecides, Holds, GrantMoves, VerifyMoves, Recording
  <2>4. /\ i \in Incident /\ status'[i] = Target(m)
        /\ m # "mitigating" => grantee' = grantee
        /\ m = "mitigating" => grantee'[i] = req[p].appr
    BY <1>1, WriteEffect
  <2>5. label = "recordExecuted" => Target(m) \in Terminal
    BY <2>2 DEF Target, ToResolved, Terminal
  <2>6. Holding(p)'
    BY <1>1, <2>1, <2>2, <2>3, <2>4, <2>5 DEF At, Holding, Holds, BeforeGrant, VerifyMoves
  <2>7. HolderIsUnique'
    BY <1>3, <2>1, <2>3, HoldersKept
  <2> QED
    BY <1>4, <2>3, <2>6, <2>7 DEF IInv, CallsOK
<1> QED
  BY <1>5, <1>6

(* The write is kept, and the call is told that it failed.                 *)
LEMMA LoseMoveAckKeeps ==
    ASSUME IInv, NEW p \in Proc, LoseMoveAck(p)
    PROVE  IInv'
<1> DEFINE i == req[p].inc
           m == req[p].move
           label == AfterRefusal(m)
<1> USE DEF LoseMoveAck, approvalVars, outsideVars
<1>1. Shape(p) /\ Holding(p) /\ At(p, "write")
  BY DEF IInv, CallsOK
<1>2. label \in PC
  BY DEF AfterRefusal, PC, Recording
<1>3. /\ req' \in [Proc -> Call] /\ OnlyCallOf(p)
      /\ req'[p] = IF label = "idle" THEN NoCall ELSE [req[p] EXCEPT !.pc = label]
  BY <1>2, GotoEffect DEF IInv
<1>4. /\ TypeOK' /\ OwnerKnown' /\ GrantsOK' /\ SendsOK'
      /\ \A q \in Proc \ {p} : (Shape(q) /\ SeenDecides(q) /\ Holding(q))'
  BY <1>1, <1>3, WriteKeepsOthers
<1>5. CASE label = "idle"
  <2>1. Shape(p)' /\ SeenDecides(p)' /\ Holding(p)' /\ ~Holds(p)'
    BY <1>3, <1>5 DEF Shape, SeenDecides, Holding, Holds, NoCall, GrantMoves,
                      VerifyMoves, Recording
  <2>2. HolderIsUnique'
    BY <1>3, <2>1, HoldersKept
  <2> QED
    BY <1>4, <2>1, <2>2 DEF IInv, CallsOK
<1>6. CASE label # "idle"
  <2>1. /\ req'[p].pc = label /\ req'[p].move = m
        /\ req'[p].inc = i /\ req'[p].appr = req[p].appr
    BY <1>3, <1>6 DEF IInv, TypeOK, Call
  <2>2. /\ label = "expire" => m \in {"waiting", "mitigating"}
        /\ label = "recordFailed" => Holds(p) /\ m # "mitigating"
        /\ label \in {"expire", "recordFailed"}
    BY <1>6 DEF AfterRefusal, Holds, GrantMoves, VerifyMoves
  <2>3. (Holds(p) <=> Holds(p)') /\ Shape(p)' /\ SeenDecides(p)'
    BY <1>1, <2>1, <2>2 DEF At, Shape, SeenDecides, Holds, Recording
  <2>4. m # "mitigating" => grantee' = grantee
    BY <1>1, WriteEffect
  <2>5. Holding(p)'
    BY <1>1, <2>1, <2>2, <2>3, <2>4 DEF At, Holding, Holds, BeforeGrant
  <2>6. HolderIsUnique'
    BY <1>3, <2>1, <2>3, HoldersKept
  <2> QED
    BY <1>4, <2>3, <2>5, <2>6 DEF IInv, CallsOK
<1> QED
  BY <1>5, <1>6

-----------------------------------------------------------------------------
(* The invariant.                                                          *)

(* Nothing exists and no call is served at the start.                      *)
LEMMA InitEstablishes == Init => IInv
<1> SUFFICES ASSUME Init PROVE IInv
  OBVIOUS
<1>1. TypeOK
  BY DEF Init, TypeOK, Call, NoCall, PC, Recording, Status, ApprovalStatus
<1>2. \A p \in Proc : req[p].pc = "idle" /\ req[p].move = "none" /\ ~Holds(p)
  BY DEF Init, NoCall, Holds, GrantMoves, VerifyMoves
<1>3. CallsOK /\ HolderIsUnique
  BY <1>2 DEF CallsOK, HolderIsUnique, Shape, SeenDecides, Holding, Holds, Recording,
              GrantMoves, VerifyMoves
<1>4. OwnerKnown /\ GrantsOK /\ SendsOK
  BY DEF Init, OwnerKnown, GrantsOK, SendsOK
<1> QED
  BY <1>1, <1>3, <1>4 DEF IInv

(* Every action keeps it, and so does a step that changes nothing.         *)
LEMMA NextKeeps == IInv /\ [Next]_vars => IInv'
<1> SUFFICES ASSUME IInv, [Next]_vars PROVE IInv'
  OBVIOUS
<1>1. ASSUME NEW p \in Proc, Arrive(p) PROVE IInv'
  BY <1>1, RequestKeeps, ApproveKeeps, RejectKeeps, ResolveExternallyKeeps,
     BeginMoveKeeps DEF Arrive
<1>2. ASSUME NEW p \in Proc, Step(p) PROVE IInv'
  <2>1. CASE ReadIncident(p) \/ RefuseMove(p) \/ CommitMove(p) \/ FailMove(p)
             \/ LoseMoveAck(p)
    BY <2>1, ReadIncidentKeeps, RefuseMoveKeeps, CommitMoveKeeps, LoseMoveAckKeeps
  <2>2. CASE ExpirePending(p) \/ FailExpirePending(p) \/ Expire(p)
    BY <2>2, ExpirePendingKeeps, FailExpirePendingKeeps, ExpireKeeps
  <2>3. CASE MarkExecuting(p) \/ FailMarkExecuting(p) \/ CheckIncident(p)
             \/ RefuseTarget(p) \/ SendRestart(p) \/ CancelledBeforeSend(p)
    BY <2>3, MarkExecutingKeeps, FailMarkExecutingKeeps, CheckIncidentKeeps,
       RestartFailedKeeps, SendRestartKeeps, RestartUnknownKeeps
  <2>4. CASE RestartSucceeded(p) \/ RestartFailed(p) \/ RestartUnknown(p)
             \/ Verify(p) \/ RecordOutcome(p) \/ FailRecordOutcome(p)
    BY <2>4, RestartSucceededKeeps, RestartFailedKeeps, RestartUnknownKeeps,
       VerifyKeeps, RecordOutcomeKeeps, EndCall DEF FailRecordOutcome
  <2> QED
    BY <1>2, <2>1, <2>2, <2>3, <2>4 DEF Step
<1>3. ASSUME NEW p \in Proc, Cancel(p) \/ Crash(p) PROVE IInv'
  BY <1>3, CancelKeeps, EndCall DEF Crash
<1>4. CASE LostAck
  BY <1>4, LoseRequestAckKeeps, LoseDecisionAckKeeps DEF LostAck
<1>5. CASE UNCHANGED vars
  BY <1>5 DEF vars, incidentVars, approvalVars, outsideVars, IInv, TypeOK, CallsOK,
     HolderIsUnique, OwnerKnown, GrantsOK, SendsOK, Shape, SeenDecides, Holding, Holds,
     BeforeGrant, At, Permitted, CanTransition
<1> QED
  BY <1>1, <1>2, <1>3, <1>4, <1>5 DEF Next

(* IInv is an invariant of Remediation.                                    *)
THEOREM Invariance == Spec => []IInv
  BY InitEstablishes, NextKeeps, PTL DEF Spec

-----------------------------------------------------------------------------
(* What follows from IInv in every reachable state.                        *)

(* Every variable keeps its type.                                          *)
THEOREM TypeCorrect == Spec => []TypeOK
  BY Invariance, PTL DEF IInv

(* At most one restart request per incident: what was sent was the grant   *)
(* of its incident, and an incident has one grant.                         *)
THEOREM OneRestart == Spec => []AtMostOneRestart
<1>1. IInv => AtMostOneRestart
  BY DEF IInv, SendsOK, AtMostOneRestart
<1> QED
  BY <1>1, Invariance, PTL

(* No restart for an approval that was not granted and marked EXECUTING.   *)
THEOREM GrantedRestart == Spec => []RestartOnlyIfGranted
<1>1. IInv => RestartOnlyIfGranted
  BY DEF IInv, SendsOK, RestartOnlyIfGranted
<1> QED
  BY <1>1, Invariance, PTL

(* An incident the alert's recovery closed has and gets no restart.        *)
THEOREM NoRestartAfterRecovery == Spec => []RecoveryExcludesRestart
<1>1. IInv => RecoveryExcludesRestart
  <2> SUFFICES ASSUME IInv, NEW a \in Approval, calls[a] > 0
               PROVE  event[owner[a]] # "external"
    BY DEF RecoveryExcludesRestart
  <2>1. owner[a] \in Incident /\ grantee[owner[a]] = a
    BY DEF IInv, SendsOK, OwnerKnown
  <2> QED
    BY <2>1, NoneAssumption DEF IInv, GrantsOK
<1> QED
  BY <1>1, Invariance, PTL

(* EXECUTED is recorded of a restart that happened, of a closed incident.  *)
THEOREM ExecutedClosed == Spec => []ExecutedMeansClosed
<1>1. IInv => ExecutedMeansClosed
  BY DEF IInv, SendsOK, ExecutedMeansClosed
<1> QED
  BY <1>1, Invariance, PTL

(* A postmortem is written only of a restart that happened.                *)
THEOREM VerifiedApplied == Spec => []VerifiedMeansApplied
<1>1. IInv => VerifiedMeansApplied
  BY DEF IInv, TypeOK, GrantsOK, VerifiedMeansApplied
<1> QED
  BY <1>1, Invariance, PTL

-----------------------------------------------------------------------------
(* What every step of a reachable state does.                              *)

(* Only the two writes change incidents; every other step leaves them.     *)
LEMMA IncidentSteps ==
    ASSUME [Next]_vars
    PROVE  \/ UNCHANGED incidentVars
           \/ \E p \in Proc : /\ At(p, "write") /\ WriteIncident(p)
                              /\ UNCHANGED <<approvalVars, outsideVars>>
<1> USE DEF incidentVars
<1>1. ASSUME NEW p \in Proc, Arrive(p) PROVE UNCHANGED incidentVars
  BY <1>1 DEF Arrive, Request, Approve, Reject, ResolveExternally, BeginMove
<1>2. ASSUME NEW p \in Proc, Step(p)
      PROVE  \/ UNCHANGED incidentVars
             \/ /\ At(p, "write") /\ WriteIncident(p)
                /\ UNCHANGED <<approvalVars, outsideVars>>
  <2>1. CASE CommitMove(p) \/ LoseMoveAck(p)
    BY <2>1 DEF CommitMove, LoseMoveAck
  <2>2. CASE ReadIncident(p) \/ RefuseMove(p) \/ FailMove(p)
             \/ ExpirePending(p) \/ FailExpirePending(p) \/ Expire(p)
    BY <2>2 DEF ReadIncident, RefuseMove, FailMove, ExpirePending, FailExpirePending, Expire
  <2>3. CASE MarkExecuting(p) \/ FailMarkExecuting(p) \/ CheckIncident(p)
             \/ RefuseTarget(p) \/ SendRestart(p) \/ CancelledBeforeSend(p)
    BY <2>3 DEF MarkExecuting, FailMarkExecuting, CheckIncident, RefuseTarget,
                SendRestart, CancelledBeforeSend
  <2>4. CASE RestartSucceeded(p) \/ RestartFailed(p) \/ RestartUnknown(p)
             \/ Verify(p) \/ RecordOutcome(p) \/ FailRecordOutcome(p)
    BY <2>4 DEF RestartSucceeded, RestartFailed, RestartUnknown, Verify, RecordOutcome,
                FailRecordOutcome
  <2> QED
    BY <1>2, <2>1, <2>2, <2>3, <2>4 DEF Step
<1>3. ASSUME NEW p \in Proc, Cancel(p) \/ Crash(p) PROVE UNCHANGED incidentVars
  BY <1>3 DEF Cancel, Crash
<1>4. CASE LostAck
  BY <1>4 DEF LostAck, LoseRequestAck, LoseDecisionAck
<1>5. CASE UNCHANGED vars
  BY <1>5 DEF vars
<1> QED
  BY <1>1, <1>2, <1>3, <1>4, <1>5 DEF Next

(* A status that was read before another call wrote never leads to a move  *)
(* outside the table, the recovery's own bypass excepted.                  *)
THEOREM StatusTable == Spec => StatusFollowsTable
<1> DEFINE Moved(i) == status'[i] # status[i] =>
              \/ CanTransition(status[i], status'[i])
              \/ status[i] \notin Terminal \cup InRemediation /\ status'[i] = "RESOLVED"
<1>1. IInv /\ [Next]_vars => \A i \in Incident : Moved(i)
  <2> SUFFICES ASSUME IInv, [Next]_vars, NEW j \in Incident PROVE Moved(j)
    OBVIOUS
  <2>1. CASE UNCHANGED incidentVars
    BY <2>1 DEF incidentVars
  <2>2. ASSUME NEW p \in Proc, At(p, "write"), WriteIncident(p)
        PROVE  Moved(j)
    <3> DEFINE i == req[p].inc
               m == req[p].move
    <3>1. /\ Permitted(status[i], m) /\ status'[i] = Target(m)
          /\ \A k \in Incident \ {i} : status'[k] = status[k]
      BY <2>2, WriteEffect
    <3>2. m = "external" => Target(m) = "RESOLVED"
      BY DEF Target, ToResolved
    <3> QED
      BY <3>1, <3>2 DEF Permitted
  <2> QED
    BY <2>1, <2>2, IncidentSteps
<1> QED
  BY <1>1, Invariance, PTL DEF Spec, StatusFollowsTable

(* One conditional update along the chain.                                 *)
LEMMA OneUpdate ==
    ASSUME TypeOK, NEW a \in Approval, NEW from, NEW to,
           SetApproval(a, from, to), <<from, to>> \in ApprovalChain,
           NEW b \in Approval, approval'[b] # approval[b]
    PROVE  <<approval[b], approval'[b]>> \in ApprovalChain
<1>1. approval' = [approval EXCEPT ![a] = to] /\ approval[a] = from
  BY DEF SetApproval
<1>2. b = a /\ approval'[b] = to
  BY <1>1 DEF TypeOK
<1> QED
  BY <1>1, <1>2

(* Decisions, expiries and outcomes never overwrite each other.            *)
THEOREM ApprovalChainKept == Spec => ApprovalFollowsChain
<1> DEFINE Chained(b) == approval'[b] # approval[b] =>
                             <<approval[b], approval'[b]>> \in ApprovalChain
<1>1. IInv /\ [Next]_vars => \A a \in Approval : Chained(a)
  <2> SUFFICES ASSUME IInv, [Next]_vars, NEW b \in Approval, approval'[b] # approval[b]
               PROVE  <<approval[b], approval'[b]>> \in ApprovalChain
    OBVIOUS
  <2>0. TypeOK
    BY DEF IInv
  <2>1. ASSUME NEW i \in Incident, approval' = PendingExpired(i)
        PROVE  <<approval[b], approval'[b]>> \in ApprovalChain
    BY <2>1 DEF PendingExpired, ApprovalChain
  <2>2. ASSUME NEW a \in Approval, approval[a] = "ABSENT",
               approval' = [approval EXCEPT ![a] = "PENDING"]
        PROVE  <<approval[b], approval'[b]>> \in ApprovalChain
    BY <2>0, <2>2, OneUpdate DEF SetApproval, ApprovalChain
  <2>3. ASSUME NEW a \in Approval, NEW to \in {"APPROVED", "REJECTED", "EXPIRED"},
               SetApproval(a, "PENDING", to)
        PROVE  <<approval[b], approval'[b]>> \in ApprovalChain
    BY <2>0, <2>3, OneUpdate DEF ApprovalChain
  <2>4. ASSUME NEW p \in Proc, Arrive(p)
        PROVE  <<approval[b], approval'[b]>> \in ApprovalChain
    BY <2>2, <2>3, <2>4 DEF Arrive, Request, Approve, Reject, ResolveExternally, BeginMove,
                            approvalVars
  <2>5. ASSUME NEW p \in Proc, Step(p)
        PROVE  <<approval[b], approval'[b]>> \in ApprovalChain
    <3>1. req[p].pc \in {"expire", "claim"} \cup Recording => req[p].appr \in Approval
      BY DEF IInv, CallsOK, Shape, Holds, GrantMoves
    <3>2. req[p].pc = "expireAll" => req[p].inc \in Incident
      BY DEF IInv, CallsOK, Shape
    <3>3. CASE ExpirePending(p) \/ FailExpirePending(p)
      BY <2>1, <3>2, <3>3 DEF ExpirePending, FailExpirePending, At
    <3>4. CASE Expire(p)
      <4>1. PICK from \in {"PENDING", "APPROVED"} : SetApproval(req[p].appr, from, "EXPIRED")
        BY <3>4 DEF Expire, ExpiresFrom
      <4>2. <<from, "EXPIRED">> \in ApprovalChain
        BY DEF ApprovalChain
      <4> QED
        BY <2>0, <3>1, <3>4, <4>1, <4>2, OneUpdate DEF Expire, At
    <3>5. CASE MarkExecuting(p) \/ FailMarkExecuting(p)
      <4>1. SetApproval(req[p].appr, "APPROVED", "EXECUTING") /\ req[p].pc = "claim"
        BY <3>5 DEF MarkExecuting, FailMarkExecuting, At
      <4>2. <<"APPROVED", "EXECUTING">> \in ApprovalChain
        BY DEF ApprovalChain
      <4> QED
        BY <2>0, <3>1, <4>1, <4>2, OneUpdate
    <3>6. CASE RecordOutcome(p)
      <4>1. PICK to \in {"EXECUTED", "FAILED", "UNKNOWN"} :
               SetApproval(req[p].appr, "EXECUTING", to)
        BY <3>6 DEF RecordOutcome, Outcome
      <4>2. <<"EXECUTING", to>> \in ApprovalChain
        BY DEF ApprovalChain
      <4> QED
        BY <2>0, <3>1, <3>6, <4>1, <4>2, OneUpdate DEF RecordOutcome
    <3>7. CASE ReadIncident(p) \/ RefuseMove(p) \/ CommitMove(p) \/ FailMove(p)
               \/ LoseMoveAck(p) \/ CheckIncident(p) \/ RefuseTarget(p)
      BY <3>7 DEF ReadIncident, RefuseMove, CommitMove, FailMove, LoseMoveAck,
                  CheckIncident, RefuseTarget, approvalVars
    <3>8. CASE SendRestart(p) \/ CancelledBeforeSend(p) \/ RestartSucceeded(p)
               \/ RestartFailed(p) \/ RestartUnknown(p) \/ Verify(p) \/ FailRecordOutcome(p)
      BY <3>8 DEF SendRestart, CancelledBeforeSend, RestartSucceeded, RestartFailed,
                  RestartUnknown, Verify, FailRecordOutcome, approvalVars
    <3> QED
      BY <2>5, <3>3, <3>4, <3>5, <3>6, <3>7, <3>8 DEF Step
  <2>6. ASSUME NEW p \in Proc, Cancel(p) \/ Crash(p)
        PROVE  <<approval[b], approval'[b]>> \in ApprovalChain
    BY <2>6 DEF Cancel, Crash, approvalVars
  <2>7. CASE LostAck
    BY <2>2, <2>3, <2>7 DEF LostAck, LoseRequestAck, LoseDecisionAck
  <2>8. CASE UNCHANGED vars
    BY <2>8 DEF vars, approvalVars
  <2> QED
    BY <2>4, <2>5, <2>6, <2>7, <2>8 DEF Next
<1> QED
  BY <1>1, Invariance, PTL DEF Spec, ApprovalFollowsChain

-----------------------------------------------------------------------------
(* The abstract specification.                                             *)

(* Nothing is granted, sent or closed at the start.                        *)
LEMMA InitRefines == Init => Contract!Init
  BY DEF Init, Contract!Init, ClosedIncidents, Terminal

(* Only SendRestart changes what was sent, and nothing else then.          *)
LEMMA OutsideSteps ==
    ASSUME [Next]_vars
    PROVE  \/ UNCHANGED outsideVars
           \/ \E p \in Proc : SendRestart(p)
<1>1. ASSUME NEW p \in Proc, Arrive(p) PROVE UNCHANGED outsideVars
  BY <1>1 DEF Arrive, Request, Approve, Reject, ResolveExternally, BeginMove
<1>2. ASSUME NEW p \in Proc, Step(p) PROVE UNCHANGED outsideVars \/ SendRestart(p)
  <2>1. CASE ReadIncident(p) \/ RefuseMove(p) \/ FailMove(p) \/ CommitMove(p)
             \/ LoseMoveAck(p) \/ ExpirePending(p) \/ FailExpirePending(p) \/ Expire(p)
    BY <2>1 DEF ReadIncident, RefuseMove, FailMove, CommitMove, LoseMoveAck,
                ExpirePending, FailExpirePending, Expire
  <2>2. CASE MarkExecuting(p) \/ FailMarkExecuting(p) \/ CheckIncident(p)
             \/ RefuseTarget(p) \/ SendRestart(p) \/ CancelledBeforeSend(p)
    BY <2>2 DEF MarkExecuting, FailMarkExecuting, CheckIncident, RefuseTarget,
                CancelledBeforeSend
  <2>3. CASE RestartSucceeded(p) \/ RestartFailed(p) \/ RestartUnknown(p)
             \/ Verify(p) \/ RecordOutcome(p) \/ FailRecordOutcome(p)
    BY <2>3 DEF RestartSucceeded, RestartFailed, RestartUnknown, Verify, RecordOutcome,
                FailRecordOutcome
  <2> QED
    BY <1>2, <2>1, <2>2, <2>3 DEF Step
<1>3. ASSUME NEW p \in Proc, Cancel(p) \/ Crash(p) PROVE UNCHANGED outsideVars
  BY <1>3 DEF Cancel, Crash
<1>4. CASE LostAck
  BY <1>4 DEF LostAck, LoseRequestAck, LoseDecisionAck
<1>5. CASE UNCHANGED vars
  BY <1>5 DEF vars
<1> QED
  BY <1>1, <1>2, <1>3, <1>4, <1>5 DEF Next

(* A restart request is the abstract Send of the incident's grant.         *)
LEMMA SendRefines ==
    ASSUME IInv, NEW p \in Proc, SendRestart(p)
    PROVE  \E i \in Incident : Contract!Send(i)
<1> DEFINE a == req[p].appr
           i == req[p].inc
<1>1. /\ Shape(p) /\ Holding(p) /\ Holds(p) /\ req[p].pc = "call" /\ a \in Approval
      /\ i \in Incident
  BY DEF IInv, CallsOK, SendRestart, At, Shape, Holds, GrantMoves
<1>2. calls[a] = 0 /\ grantee[i] = a
  BY <1>1 DEF Holding, At, BeforeGrant
<1>3. calls' = [calls EXCEPT ![a] = 1]
  BY <1>1, <1>2 DEF SendRestart, IInv, TypeOK
<1>4. UNCHANGED <<grantee, ClosedIncidents>>
  BY DEF SendRestart, incidentVars, ClosedIncidents
<1> QED
  BY <1>1, <1>2, <1>3, <1>4, NoneAssumption DEF Contract!Send

(* A write grants, closes, or changes nothing the abstract one sees.       *)
LEMMA WriteRefines ==
    ASSUME IInv, NEW p \in Proc, At(p, "write"), WriteIncident(p), UNCHANGED outsideVars
    PROVE  [Contract!Next]_(Contract!vars)
<1> DEFINE i == req[p].inc
           m == req[p].move
<1>1. /\ i \in Incident /\ status[i] \notin Terminal
      /\ status'[i] = Target(m)
      /\ m # "mitigating" => grantee' = grantee
      /\ m = "mitigating" =>
            /\ grantee[i] = None /\ req[p].appr \in Approval
            /\ grantee' = [grantee EXCEPT ![i] = req[p].appr]
      /\ \A j \in Incident \ {i} : status'[j] = status[j]
  BY WriteEffect DEF WriteIncident
<1>2. calls' = calls
  BY DEF outsideVars
<1>3. ClosedIncidents' = IF Target(m) \in Terminal THEN ClosedIncidents \cup {i}
                                                   ELSE ClosedIncidents
  BY <1>1 DEF ClosedIncidents
<1>4. i \notin ClosedIncidents
  BY <1>1 DEF ClosedIncidents
<1>5. CASE m = "mitigating"
  <2>1. Target(m) \notin Terminal
    BY <1>5 DEF Target, ToResolved, Terminal
  <2>2. Contract!Grant(i, req[p].appr)
    BY <1>1, <1>2, <1>3, <1>4, <1>5, <2>1 DEF Contract!Grant
  <2> QED
    BY <1>1, <1>5, <2>2 DEF Contract!Next
<1>6. CASE m # "mitigating" /\ Target(m) \in Terminal
  <2>1. Contract!Close(i)
    BY <1>1, <1>2, <1>3, <1>4, <1>6 DEF Contract!Close
  <2> QED
    BY <1>1, <2>1 DEF Contract!Next
<1>7. CASE m # "mitigating" /\ Target(m) \notin Terminal
  BY <1>1, <1>2, <1>3, <1>7 DEF Contract!vars
<1> QED
  BY <1>5, <1>6, <1>7

(* Remediation implements RestartOnce.                                     *)
THEOREM Refinement == Spec => ImplementsRestartOnce
<1>1. IInv /\ [Next]_vars => [Contract!Next]_(Contract!vars)
  <2> SUFFICES ASSUME IInv, [Next]_vars PROVE [Contract!Next]_(Contract!vars)
    OBVIOUS
  <2>1. ASSUME NEW p \in Proc, SendRestart(p) PROVE Contract!Next
    BY <2>1, SendRefines DEF Contract!Next
  <2>2. ASSUME NEW p \in Proc, At(p, "write"), WriteIncident(p), UNCHANGED outsideVars
        PROVE  [Contract!Next]_(Contract!vars)
    BY <2>2, WriteRefines
  <2>3. CASE UNCHANGED <<incidentVars, outsideVars>>
    BY <2>3 DEF incidentVars, outsideVars, Contract!vars, ClosedIncidents
  <2> QED
    BY <2>1, <2>2, <2>3, IncidentSteps, OutsideSteps
<1> QED
  BY <1>1, InitRefines, Invariance, PTL DEF Spec, ImplementsRestartOnce, Contract!Spec

-----------------------------------------------------------------------------
(* The life of an incident.                                                *)

(* The abstract specification speaks of the same table and statuses.       *)
LEMMA TableOfLifecycle ==
    /\ \A s, next : CanTransition(s, next) =>
          Lifecycle!CanTransition(s, next) /\ next \in Lifecycle!Status
    /\ Lifecycle!Terminal = Terminal /\ Lifecycle!InRemediation = InRemediation
<1>1. ASSUME NEW s, NEW next, CanTransition(s, next)
      PROVE  Lifecycle!CanTransition(s, next) /\ next \in Lifecycle!Status
  <2>1. AllowedTargets(s) = Lifecycle!AllowedTargets(s)
    BY DEF AllowedTargets, Lifecycle!AllowedTargets
  <2>2. next \in AllowedTargets(s)
    BY <1>1 DEF CanTransition
  <2>3. next \in Status
    BY <2>2 DEF AllowedTargets, Status
  <2> QED
    BY <2>1, <2>2, <2>3 DEF Lifecycle!CanTransition, Lifecycle!Status, Status
<1> QED
  BY <1>1 DEF Lifecycle!Terminal, Terminal, Lifecycle!InRemediation, InRemediation

(* A versioned write is a move along the table, or it is the recovery of a *)
(* live incident that is not in remediation.                               *)
LEMMA WriteIsLifecycle ==
    ASSUME IInv, NEW p \in Proc, At(p, "write"), WriteIncident(p)
    PROVE  Lifecycle!Next
<1> DEFINE m == req[p].move
<1>1. PICK i \in Incident : i = req[p].inc
  BY WriteEffect
<1>2. /\ Permitted(status[i], m) /\ status[i] \in Status
      /\ status' = [status EXCEPT ![i] = Target(m)]
  BY <1>1, WriteEffect DEF WriteIncident, IInv, TypeOK
<1>3. CASE m = "external"
  <2>1. status[i] \notin Terminal \cup InRemediation /\ status[i] # "ABSENT"
    BY <1>2, <1>3 DEF Permitted, Status
  <2>2. Target(m) = "RESOLVED"
    BY <1>3 DEF Target, ToResolved
  <2>3. Lifecycle!Recover(i)
    BY <1>2, <2>1, <2>2, TableOfLifecycle
    DEF Lifecycle!Recover, Lifecycle!Live, Lifecycle!Changes
  <2> QED
    BY <2>3 DEF Lifecycle!Next
<1>4. CASE m # "external"
  <2>1. CanTransition(status[i], Target(m))
    BY <1>2, <1>4 DEF Permitted
  <2>2. Lifecycle!Move(i)
    BY <1>2, <2>1, TableOfLifecycle DEF Lifecycle!Move, Lifecycle!Changes
  <2> QED
    BY <2>2 DEF Lifecycle!Next
<1> QED
  BY <1>3, <1>4

(* Remediation implements IncidentLifecycle as Diagnosis does: through     *)
(* every race of approvals, restarts, verifications and recoveries a       *)
(* status moves along the table or by ResolveExternally, and never out of  *)
(* a terminal one.                                                         *)
THEOREM LifecycleKept == Spec => Lifecycle!Spec
<1>1. Init => Lifecycle!Init
  BY TableOfLifecycle
  DEF Init, Lifecycle!Init, Lifecycle!Live, Lifecycle!OthersClosed, Terminal
<1>2. IInv /\ [Next]_vars => [Lifecycle!Next]_status
  <2> SUFFICES ASSUME IInv, [Next]_vars PROVE [Lifecycle!Next]_status
    OBVIOUS
  <2>1. CASE UNCHANGED incidentVars
    BY <2>1 DEF incidentVars
  <2>2. CASE \E p \in Proc : At(p, "write") /\ WriteIncident(p)
    BY <2>2, WriteIsLifecycle
  <2> QED
    BY <2>1, <2>2, IncidentSteps
<1> QED
  BY <1>1, <1>2, Invariance, PTL DEF Spec, Lifecycle!Spec

-----------------------------------------------------------------------------
(* The moves Diagnosis leaves to OutsideMove.                              *)

(* A row is created for an incident beyond OPEN, or the step creates none. *)
CreatesRow ==
    \E a \in Approval, i \in Incident :
        /\ status[i] # "OPEN" /\ UNCHANGED status
        /\ approval' = [approval EXCEPT ![a] = "PENDING"]
        /\ owner' = [owner EXCEPT ![a] = i]

CreatesNoRow ==
    /\ UNCHANGED owner
    /\ \A a \in Approval : approval[a] = "ABSENT" => approval'[a] = "ABSENT"

LEMMA RowsCreated ==
    ASSUME IInv, [Next]_vars
    PROVE  CreatesRow \/ CreatesNoRow
<1>0. approval \in [Approval -> ApprovalStatus]
  BY DEF IInv, TypeOK
<1>1. ASSUME NEW a, NEW from \in ApprovalStatus \ {"ABSENT"}, NEW to, SetApproval(a, from, to), UNCHANGED owner
      PROVE  CreatesNoRow
  BY <1>0, <1>1 DEF SetApproval, CreatesNoRow
<1>2. ASSUME UNCHANGED approvalVars PROVE CreatesNoRow
  BY <1>2 DEF approvalVars, CreatesNoRow
<1>3. ASSUME NEW i, approval' = PendingExpired(i), UNCHANGED owner
      PROVE  CreatesNoRow
  BY <1>0, <1>3 DEF PendingExpired, CreatesNoRow
<1>4. ASSUME UNCHANGED <<approval, owner>> PROVE CreatesNoRow
  BY <1>4 DEF CreatesNoRow
<1> HIDE DEF CreatesNoRow
<1>5. ASSUME NEW p \in Proc, Arrive(p) PROVE CreatesRow \/ CreatesNoRow
  <2>1. CASE \E a \in Approval, i \in Incident : Request(p, a, i)
    BY <2>1 DEF Request, CreatesRow, incidentVars
  <2>2. CASE \E a \in Approval : Approve(p, a) \/ Reject(p, a)
    BY <1>1, <2>2 DEF Approve, Reject, ApprovalStatus
  <2>3. CASE \E i \in Incident : ResolveExternally(p, i) \/ BeginMove(p, i)
    BY <1>2, <2>3 DEF ResolveExternally, BeginMove
  <2> QED
    BY <1>5, <2>1, <2>2, <2>3 DEF Arrive
<1>6. ASSUME NEW p \in Proc, Step(p) PROVE CreatesNoRow
  <2>1. CASE ReadIncident(p) \/ RefuseMove(p) \/ CommitMove(p) \/ FailMove(p)
             \/ LoseMoveAck(p) \/ CheckIncident(p) \/ RefuseTarget(p)
    BY <1>2, <2>1 DEF ReadIncident, RefuseMove, CommitMove, FailMove, LoseMoveAck,
                CheckIncident, RefuseTarget
  <2>2. CASE SendRestart(p) \/ CancelledBeforeSend(p) \/ RestartSucceeded(p)
             \/ RestartFailed(p) \/ RestartUnknown(p) \/ Verify(p) \/ FailRecordOutcome(p)
    BY <1>2, <2>2 DEF SendRestart, CancelledBeforeSend, RestartSucceeded, RestartFailed,
                RestartUnknown, Verify, FailRecordOutcome
  <2>3. CASE ExpirePending(p) \/ FailExpirePending(p)
    BY <1>3, <1>4, <2>3 DEF ExpirePending, FailExpirePending
  <2>4. CASE Expire(p)
    <3>1. ExpiresFrom(req[p].move) \in ApprovalStatus \ {"ABSENT"}
      BY DEF ExpiresFrom, ApprovalStatus
    <3> QED
      BY <1>1, <1>4, <2>4, <3>1 DEF Expire
  <2>5. CASE MarkExecuting(p) \/ FailMarkExecuting(p) \/ RecordOutcome(p)
    BY <1>1, <1>4, <2>5 DEF MarkExecuting, FailMarkExecuting, RecordOutcome, ApprovalStatus
  <2> QED
    BY <1>6, <2>1, <2>2, <2>3, <2>4, <2>5 DEF Step
<1>7. ASSUME NEW p \in Proc, Cancel(p) \/ Crash(p) PROVE CreatesNoRow
  BY <1>2, <1>7 DEF Cancel, Crash
<1>8. ASSUME LostAck PROVE CreatesRow \/ CreatesNoRow
  <2>1. CASE \E a \in Approval, i \in Incident : LoseRequestAck(a, i)
    BY <2>1 DEF LoseRequestAck, CreatesRow, incidentVars
  <2>2. CASE \E a \in Approval : LoseDecisionAck(a)
    BY <1>1, <2>2 DEF LoseDecisionAck, ApprovalStatus
  <2> QED
    BY <1>8, <2>1, <2>2 DEF LostAck
<1>9. ASSUME UNCHANGED vars PROVE CreatesNoRow
  BY <1>2, <1>9 DEF vars
<1> QED
  BY <1>5, <1>6, <1>7, <1>8, <1>9 DEF Next

LEMMA AskedKept ==
    ASSUME IInv, AskedBeyondOpen, [Next]_vars
    PROVE  AskedBeyondOpen'
<1>1. \A i \in Incident : status[i] # "OPEN" => status'[i] # "OPEN"
  <2>1. CASE UNCHANGED incidentVars
    BY <2>1 DEF incidentVars
  <2>2. ASSUME NEW p \in Proc, At(p, "write"), WriteIncident(p)
        PROVE  \A i \in Incident : status[i] # "OPEN" => status'[i] # "OPEN"
    <3>1. Target(req[p].move) # "OPEN"
      BY DEF Target
    <3> QED
      BY <2>2, <3>1, WriteEffect
  <2> QED
    BY <2>1, <2>2, IncidentSteps
<1>2. ASSUME NEW a \in Approval, approval'[a] # "ABSENT"
      PROVE  status'[owner'[a]] # "OPEN"
  <2>1. CASE approval[a] # "ABSENT" /\ owner'[a] = owner[a]
    BY <1>1, <2>1 DEF AskedBeyondOpen, IInv, OwnerKnown
  <2>2. CASE CreatesNoRow
    BY <1>2, <2>1, <2>2 DEF CreatesNoRow
  <2>3. CASE CreatesRow
    <3>1. PICK b \in Approval, i \in Incident :
             /\ status[i] # "OPEN" /\ UNCHANGED status
             /\ approval' = [approval EXCEPT ![b] = "PENDING"]
             /\ owner' = [owner EXCEPT ![b] = i]
      BY <2>3 DEF CreatesRow
    <3>2. CASE a = b
      BY <3>1, <3>2 DEF IInv, TypeOK
    <3>3. CASE a # b
      BY <1>2, <2>1, <3>1, <3>3 DEF IInv, TypeOK
    <3> QED
      BY <3>2, <3>3
  <2> QED
    BY <2>2, <2>3, RowsCreated
<1> QED
  BY <1>2 DEF AskedBeyondOpen

(* What a call may write, by the kind of its move.                         *)
LEMMA WriteIsOutside ==
    ASSUME IInv, AskedBeyondOpen, NEW p \in Proc, At(p, "write"), WriteIncident(p)
    PROVE  LET i == req[p].inc
           IN  event'[i] \in DiagnosisMoves \/ status'[i] \in OutsideTargets(status[i])
<1> DEFINE i == req[p].inc
           m == req[p].move
<1>1. /\ i \in Incident /\ m \in Moves /\ Permitted(status[i], m) /\ status[i] \notin Terminal
      /\ status'[i] = Target(m) /\ event'[i] = m /\ status[i] \in Status
  BY WriteEffect DEF IInv, TypeOK
<1>2. CASE m = "external"
  <2>1. status[i] \notin Terminal \cup InRemediation \cup {"ABSENT"} /\ Target(m) = "RESOLVED"
    BY <1>1, <1>2 DEF Permitted, Target, ToResolved, Status
  <2> QED
    BY <1>1, <2>1 DEF OutsideTargets
<1>3. CASE m \in {"mitigating", "verifying", "verified", "adminResolve"}
  <2>1. Target(m) \in {"MITIGATING", "VERIFYING", "RESOLVED"} /\ Target(m) \in AllowedTargets(status[i])
    BY <1>1, <1>3 DEF Permitted, CanTransition, Target, ToResolved
  <2>2. status[i] \in InRemediation \cup {"WAITING_APPROVAL"}
    BY <2>1 DEF AllowedTargets, InRemediation
  <2> QED
    BY <1>1, <2>1, <2>2 DEF OutsideTargets
<1>4. CASE m \in {"actionFailed", "verifyFailed", "verifyInterrupted"}
  <2>1. status[i] \in InRemediation
    <3>1. Holds(p) /\ ~BeforeGrant(p) /\ Shape(p) /\ Holding(p)
      BY <1>4 DEF Holds, GrantMoves, VerifyMoves, BeforeGrant, IInv, CallsOK
    <3>2. grantee[i] # None
      BY <1>4, <3>1, NoneAssumption DEF Shape, GrantMoves, VerifyMoves, Holding
    <3> QED
      BY <1>1, <3>2 DEF IInv, GrantsOK
  <2>2. Target(m) \in AllowedTargets(status[i])
    BY <1>1, <1>4 DEF Permitted, CanTransition
  <2> QED
    BY <1>1, <2>1, <2>2 DEF OutsideTargets
<1>5. CASE m = "rejected"
  <2>1. status[i] # "OPEN"
    BY <1>5 DEF AskedBeyondOpen, IInv, CallsOK, Shape
  <2>2. Target(m) = "FAILED" /\ "FAILED" \in AllowedTargets(status[i])
    BY <1>1, <1>5 DEF Permitted, CanTransition, Target, ToResolved
  <2>3. status[i] \in InRemediation \cup {"WAITING_APPROVAL", "INVESTIGATING"}
    BY <2>1, <2>2 DEF AllowedTargets, InRemediation
  <2> QED
    BY <1>1, <2>2, <2>3 DEF OutsideTargets
<1> QED
  BY <1>1, <1>2, <1>3, <1>4, <1>5 DEF Moves, ToFailed, ToResolved, DiagnosisMoves

(* What Diagnosis leaves to OutsideMove is all the others do: through      *)
(* every race of approvals, rejections, restarts, verifications,           *)
(* recoveries and operators, a status that Diagnosis does not write itself *)
(* becomes one of OutsideTargets of the status it was (OutsideMovesOnly;   *)
(* Reject, Execute, ResolveExternally, Resolve).                           *)
THEOREM OutsideIsCovered == Spec => OutsideMovesOnly
<1>1. Init => AskedBeyondOpen
  BY DEF Init, AskedBeyondOpen
<1>2. IInv /\ AskedBeyondOpen /\ [Next]_vars => AskedBeyondOpen'
  BY AskedKept
<1>3. IInv /\ AskedBeyondOpen /\ [Next]_vars =>
         \A i \in Incident : status'[i] # status[i] =>
            event'[i] \in DiagnosisMoves \/ status'[i] \in OutsideTargets(status[i])
  <2> SUFFICES ASSUME IInv, AskedBeyondOpen, [Next]_vars,
                      NEW i \in Incident, status'[i] # status[i]
               PROVE  event'[i] \in DiagnosisMoves \/ status'[i] \in OutsideTargets(status[i])
    OBVIOUS
  <2>1. PICK p \in Proc : At(p, "write") /\ WriteIncident(p)
    BY IncidentSteps DEF incidentVars
  <2>2. i = req[p].inc
    BY <2>1, WriteEffect
  <2> QED
    BY <2>1, <2>2, WriteIsOutside
<1> QED
  BY <1>1, <1>2, <1>3, Invariance, PTL DEF Spec, OutsideMovesOnly
=============================================================================
