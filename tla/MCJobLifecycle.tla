--------------------------- MODULE MCJobLifecycle ---------------------------
(* Constants of JobLifecycle for TLC. *)
EXTENDS JobLifecycle

CONSTANTS a, b, first, second

\* A job of each kind beside a second writer of the task table.
KindPairs == {[j \in Jobs |-> IF j = a THEN k ELSE "direct"] :
                  k \in {"hybrid", "simulate", "export"}}
AllDesigns == {{first}, {first, second}}
=============================================================================
