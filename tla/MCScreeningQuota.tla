--------------------------- MODULE MCScreeningQuota ---------------------------
(* ScreeningQuota with two options of one question, of which the second    *)
(* has no limit, and a limited option of another question.                 *)
EXTENDS ScreeningQuota, TLC

MCQuestion == <<"q1", "q1", "q2">>

\* The cap of the first option may also be raised and lowered.
MCLimits == <<{1, 3}, {}, {1}>>

\* The second question may be left open.
MCAnswers == {{1}, {2}, {1, 3}, {2, 3}}

Symmetry == Permutations(Workers)
=============================================================================
