----------------------------- MODULE MCDiagnosis -----------------------------
(* Small instances of Diagnosis for TLC: every incident belongs to the same *)
(* alert, so that notifications race and a terminal incident recurs.        *)
EXTENDS Diagnosis, TLC

OneAlert == [i \in Incident |-> "alert"]

Symmetry == Permutations(Incident) \cup Permutations(Api) \cup Permutations(Worker)
              \cup Permutations(Msg) \cup Permutations(Run)
=============================================================================
