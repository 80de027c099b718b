---------------------------- MODULE TaskRegister ----------------------------
(***************************************************************************)
(* What the task table of a study promises to those who generate its       *)
(* tasks: it behaves as one register.  A generation replaces all the tasks *)
(* at once, and a job is reported completed only after it has done so.     *)
(* JobLifecycle, whose executions delete and insert rows one transaction   *)
(* beside the other, implements this specification.                        *)
(***************************************************************************)
CONSTANTS Jobs,        \* the jobs that generate tasks
          Executions,  \* the numbers of the executions of a job
          None         \* no tasks yet

VARIABLES table,      \* <<j, n>>: all tasks are those of execution n of job j
          written,    \* the jobs that have written the table
          completed   \* the jobs that are reported completed

vars == <<table, written, completed>>

Init == table = None /\ written = {} /\ completed = {}

Write(j, n) ==
    /\ table' = <<j, n>>
    /\ written' = written \cup {j}
    /\ UNCHANGED completed

Report(j) ==
    /\ j \in written
    /\ completed' = completed \cup {j}
    /\ UNCHANGED <<table, written>>

\* A report can be withdrawn: by a cancellation, a failure or the clean-up.
Withdraw(j) ==
    /\ completed' = completed \ {j}
    /\ UNCHANGED <<table, written>>

Next == \E j \in Jobs :
    \/ \E n \in Executions : Write(j, n)
    \/ Report(j)
    \/ Withdraw(j)

Spec == Init /\ [][Next]_vars
=============================================================================
