---------------------------- MODULE MCRemediation ----------------------------
(* Small instances of Remediation for TLC.  Incidents, approvals and        *)
(* goroutines are interchangeable: no action or invariant tells two apart.  *)
EXTENDS RemediationInv, TLC

Symmetry == Permutations(Incident) \cup Permutations(Approval) \cup Permutations(Proc)
=============================================================================
