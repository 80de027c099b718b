--------------------------- MODULE MCStudyEditing ---------------------------
(* A small instance of StudyEditing: requests, categories and constraints   *)
(* are exchangeable, versions are not.                                      *)
EXTENDS StudyEditing, TLC

Symmetry == Permutations(Workers) \cup Permutations(Keys) \cup Permutations(Constraints)
=============================================================================
