---------------------------- MODULE JobLifecycle ----------------------------
(***************************************************************************)
(* The background jobs of a study: the generation of its tasks, the        *)
(* simulation of respondents and the export.  A request creates a job and  *)
(* dispatches it, to a thread of the web process or to Celery; an          *)
(* execution reads and writes the status of the job in transactions of its *)
(* own, generates, and replaces the rows of the task table; users cancel,  *)
(* the broker redelivers, processes and connections are lost.              *)
(*                                                                         *)
(* Progress, messages, timestamps and the contents of tasks are left out.  *)
(***************************************************************************)
EXTENDS Integers, FiniteSets

CONSTANTS
    Jobs,           \* the jobs, and the generations requested without a job
    Keys,           \* <<respondent_id, task_index>> of the task rows
    FirstKey,       \* the first task of the first respondent
    None,           \* no row
    Designs,        \* the sets of keys that a generation can produce
    KindChoices,    \* the possible assignments of kinds to the jobs
    MaxDeliveries,  \* bound: executions of a job
    MaxFaults       \* bound: crashes, lost connections, database errors

Kinds == {"generate", "hybrid", "simulate", "export", "direct"}

\* Every design has a task for the first respondent: the generators number
\* respondents from 1 and tasks from 0.
ASSUME DesignsAssumption ==
    /\ Designs \subseteq SUBSET Keys
    /\ \A d \in Designs : FirstKey \in d
    /\ KindChoices \subseteq [Jobs -> Kinds]
ASSUME BoundsAssumption == MaxDeliveries \in Nat \ {0} /\ MaxFaults \in Nat
ASSUME NoneAssumption == None \notin Jobs \X (1 .. MaxDeliveries)

VARIABLES
    celery,      \* settings.USE_CELERY
    kind,        \* kind of each job
    design,      \* keys that the generation of each job produces
    status,      \* status column of the job, "none" without a row
    request,     \* the request that creates the job
    message,     \* its message at the broker
    deliveries,  \* number of executions begun
    run,         \* the executions
    cancel,      \* the request that cancels the job
    rows,        \* task table: key -> the execution that wrote the row
    written,     \* history: jobs whose tasks have been committed
    lost,        \* history: jobs of which an execution ended without a word
    faults       \* number of faults so far

fixed == <<celery, kind, design>>
vars == <<fixed, status, request, message, deliveries, run, cancel, rows,
          written, lost, faults>>

Runs == Jobs \X (1 .. MaxDeliveries)
Statuses == {"none", "pending", "started", "processing", "completed", "failed",
             "cancelled"}
Terminal == {"completed", "failed", "cancelled"}

\* Where an execution is.  "begin" and "claim": start_job reads, commits
\* STARTED; "open" and "mark": the job is read, PROCESSING committed; "work";
\* "save", "delete", "insert", "commit": save_tasks and its commit; "finish"
\* and "complete": the job is read, its end committed; "notify"; "fail" and
\* "failed": the handler of the exception reads, commits FAILED; "ending".
Places == {"idle", "begin", "claim", "open", "mark", "work", "save", "delete",
           "insert", "commit", "finish", "complete", "notify", "fail",
           "failed", "ending", "ended"}

Generates(j) == kind[j] \in {"generate", "hybrid", "direct"}
UsesBroker(j) == celery \/ kind[j] = "export"
Live(r) == run[r].pc \notin {"idle", "ended"}
Current(r) == r[2] = deliveries[r[1]]

NewRun == [pc |-> "idle", seen |-> "none", left |-> 0, asked |-> FALSE,
           ok |-> TRUE, target |-> {}, del |-> {}]

\* The mutation of a loop that runs once too often.
OnePhaseMore(j) == IF kind[j] = "hybrid" THEN 3 ELSE 2

\* A hybrid study is generated phase by phase.
Phases(j) == IF kind[j] = "hybrid" THEN 2 ELSE 1

Init ==
    /\ celery \in BOOLEAN
    /\ kind \in KindChoices
    /\ design \in [Jobs -> Designs]
    /\ status = [j \in Jobs |-> "none"]
    /\ request = [j \in Jobs |-> "new"]
    /\ message = [j \in Jobs |-> "none"]
    /\ deliveries = [j \in Jobs |-> 0]
    /\ run = [r \in Runs |-> NewRun]
    /\ cancel = [j \in Jobs |-> "idle"]
    /\ rows = [k \in Keys |-> None]
    /\ written = {}
    /\ lost = {}
    /\ faults = 0

-----------------------------------------------------------------------------
(* Helpers *)

\* The ORM sends an UPDATE only for a value that differs from the one it read.
Assigned(j, seen, s) == IF seen = s THEN status ELSE [status EXCEPT ![j] = s]

Goto(r, place) == run' = [run EXCEPT ![r].pc = place]

\* Leaving a transaction by an exception rolls it back.
Raised(r) == [run[r] EXCEPT !.pc = "fail", !.target = {}, !.del = {}]
Raise(r) == run' = [run EXCEPT ![r] = Raised(r)]

\* A missing row: an UPDATE of it matches nothing, which the ORM reports.
Exists(j) == status[j] # "none"

Fault ==
    /\ faults < MaxFaults
    /\ faults' = faults + 1

table == <<rows, written>>

-----------------------------------------------------------------------------
(* Requests *)

\* create_job commits the row before the request stores the id of the job in
\* the study and dispatches it.
CreateJob(j) ==
    /\ kind[j] # "direct"
    /\ request[j] = "new"
    /\ request' = [request EXCEPT ![j] = "created"]
    /\ status' = [status EXCEPT ![j] = "pending"]
    /\ UNCHANGED <<fixed, message, deliveries, run, cancel, table, lost, faults>>

\* delay() publishes the message; without Celery a thread is started, which
\* calls start_job.
Dispatch(j) ==
    /\ request[j] = "created"
    /\ request' = [request EXCEPT ![j] = "sent"]
    /\ IF UsesBroker(j)
         THEN message' = [message EXCEPT ![j] = "queued"] /\ UNCHANGED <<run, deliveries>>
         ELSE /\ Goto(<<j, 1>>, "begin")
              /\ deliveries' = [deliveries EXCEPT ![j] = 1]
              /\ UNCHANGED message
    /\ UNCHANGED <<fixed, status, cancel, table, lost, faults>>

\* The process dies or the broker refuses: nothing looks at the pending row
\* again.
DispatchFails(j) ==
    /\ request[j] = "created"
    /\ Fault
    /\ request' = [request EXCEPT ![j] = "gone"]
    /\ lost' = lost \cup {j}
    /\ UNCHANGED <<fixed, status, message, deliveries, run, cancel, table>>

\* A small study is generated in the request itself, and so is the
\* regeneration of an existing study.
GenerateDirectly(j) ==
    /\ kind[j] = "direct"
    /\ request[j] = "new"
    /\ request' = [request EXCEPT ![j] = "sent"]
    /\ deliveries' = [deliveries EXCEPT ![j] = 1]
    /\ run' = [run EXCEPT ![<<j, 1>>].pc = "work", ![<<j, 1>>].left = 1]
    /\ UNCHANGED <<fixed, status, message, cancel, table, lost, faults>>

-----------------------------------------------------------------------------
(* Beginning of an execution *)

\* The mutation of a Celery that acknowledges what it receives.
AckedEarly == "acked"

\* task_acks_late: a message is acknowledged when its task has returned.
OnDelivery == "held"

Deliver(j) ==
    /\ message[j] = "queued"
    /\ deliveries[j] < MaxDeliveries
    /\ message' = [message EXCEPT ![j] = OnDelivery]
    /\ deliveries' = [deliveries EXCEPT ![j] = @ + 1]
    /\ Goto(<<j, deliveries[j] + 1>>, "open")
    /\ UNCHANGED <<fixed, status, request, cancel, table, lost, faults>>

\* The thread of a generation marks the job failed when start_job raises; that
\* of a simulation logs the error.
NotStarted(r) == Goto(r, IF Generates(r[1]) THEN "fail" ELSE "ending")

\* start_job starts only a pending job.
StartRead(r) ==
    /\ run[r].pc = "begin"
    /\ IF status[r[1]] = "pending" THEN Goto(r, "claim") ELSE NotStarted(r)
    /\ UNCHANGED <<fixed, status, request, message, deliveries, cancel, table, lost, faults>>

StartCommit(r) ==
    /\ run[r].pc = "claim"
    /\ IF Exists(r[1])
         THEN status' = [status EXCEPT ![r[1]] = "started"] /\ Goto(r, "open")
         ELSE NotStarted(r) /\ UNCHANGED status
    /\ UNCHANGED <<fixed, request, message, deliveries, cancel, table, lost, faults>>

\* The status that is read is not looked at.
OpenRead(r) ==
    /\ run[r].pc = "open"
    /\ ~run[r].asked
    /\ IF Exists(r[1])
         THEN run' = [run EXCEPT ![r].pc = "mark", ![r].seen = status[r[1]]]
         ELSE Goto(r, "ending")
    /\ UNCHANGED <<fixed, status, request, message, deliveries, cancel, table, lost, faults>>

\* Nothing handles an error of the first transaction of a simulation or an
\* export run by Celery (try ... finally): the task ends, acknowledged.
BareFirst(r) == kind[r[1]] = "export" \/ (kind[r[1]] = "simulate" /\ celery)
MarkRaises(r) == IF BareFirst(r) THEN Goto(r, "ending") ELSE Raise(r)

MarkCommit(r) ==
    /\ run[r].pc = "mark"
    /\ IF Exists(r[1])
         THEN /\ status' = Assigned(r[1], run[r].seen, "processing")
              /\ run' = [run EXCEPT ![r].pc = "work", ![r].left = Phases(r[1])]
         ELSE MarkRaises(r) /\ UNCHANGED status
    /\ UNCHANGED <<fixed, request, message, deliveries, cancel, table, lost, faults>>

-----------------------------------------------------------------------------
(* Work *)

\* Only the thread of a hybrid generation looks, before each phase, whether
\* the job has been cancelled.
ChecksCancel(j) == kind[j] = "hybrid" /\ ~celery
CancelSeen(r) == ChecksCancel(r[1]) /\ status[r[1]] \in {"cancelled", "none"}

AfterWork(j) == IF Generates(j) THEN "save" ELSE "finish"

Work(r) ==
    /\ run[r].pc = "work"
    /\ ~run[r].asked
    /\ ~CancelSeen(r)
    /\ run' = [run EXCEPT ![r].left = @ - 1,
                          ![r].pc = IF run[r].left = 1 THEN AfterWork(r[1]) ELSE @]
    /\ UNCHANGED <<fixed, status, request, message, deliveries, cancel, table, lost, faults>>

\* The check raises RuntimeError("Job was cancelled"), handled as any failure.
StopWhenCancelled(r) ==
    /\ run[r].pc = "work"
    /\ ~run[r].asked
    /\ CancelSeen(r)
    /\ Raise(r)
    /\ UNCHANGED <<fixed, status, request, message, deliveries, cancel, table, lost, faults>>

\* No design is found, or the user has lost access to the study; a simulation
\* that fails returns success = False instead of raising.
WorkFails(r) ==
    /\ run[r].pc = "work"
    /\ ~run[r].asked
    /\ IF kind[r[1]] = "simulate"
         THEN run' = [run EXCEPT ![r].pc = "finish", ![r].ok = FALSE]
         ELSE Raise(r)
    /\ UNCHANGED <<fixed, status, request, message, deliveries, cancel, table, lost, faults>>

\* A cancelled asyncio task ends before its first step or at its next await,
\* by CancelledError, which no handler catches.
CancelledEnd(r) ==
    /\ run[r].pc \in {"open", "work"}
    /\ run[r].asked
    /\ Goto(r, "ending")
    /\ lost' = lost \cup {r[1]}
    /\ UNCHANGED <<fixed, status, request, message, deliveries, cancel, table, faults>>

-----------------------------------------------------------------------------
(* save_tasks: DELETE, INSERT, COMMIT in one transaction *)

Present(k) == rows[k] # None
Version(k) == <<k, rows[k]>>

\* The DELETE sees the rows committed when it begins; it waits for those that
\* another transaction has deleted, and skips them if it commits.
SaveSnapshot(r) ==
    /\ run[r].pc = "save"
    /\ run' = [run EXCEPT ![r].pc = "delete",
                          ![r].target = {Version(k) : k \in {l \in Keys : Present(l)}}]
    /\ UNCHANGED <<fixed, status, request, message, deliveries, cancel, table, lost, faults>>

Deletable(r) == {k \in Keys : Present(k) /\ Version(k) \in run[r].target}
LockedByOther(r, keys) == \E s \in Runs \ {r} : run[s].del \cap keys # {}

SaveDelete(r) ==
    /\ run[r].pc = "delete"
    /\ ~LockedByOther(r, Deletable(r))
    /\ run' = [run EXCEPT ![r].pc = "insert", ![r].del = Deletable(r), ![r].target = {}]
    /\ UNCHANGED <<fixed, status, request, message, deliveries, cancel, table, lost, faults>>

\* The unique constraint: an INSERT waits for the transactions that have
\* deleted or inserted one of its keys, and fails on a committed row.
InsertWaits(r) ==
    \/ LockedByOther(r, design[r[1]])
    \/ \E s \in Runs \ {r} : run[s].pc = "commit" /\ design[s[1]] \cap design[r[1]] # {}
\* The mutation of a table without uq_study_task_assignment.
NoUniqueKey(r) == FALSE
InsertConflicts(r) == \E k \in design[r[1]] : Present(k) /\ k \notin run[r].del

SaveInsert(r) ==
    /\ run[r].pc = "insert"
    /\ ~InsertWaits(r)
    /\ IF InsertConflicts(r) THEN Raise(r) ELSE Goto(r, "commit")
    /\ UNCHANGED <<fixed, status, request, message, deliveries, cancel, table, lost, faults>>

\* The mutation of a save without its DELETE.
ReplacedOnlyOwn(r) ==
    [k \in Keys |-> IF k \in design[r[1]] THEN r ELSE rows[k]]

\* The rows after the commit of an execution.
Replaced(r) ==
    [k \in Keys |-> IF k \in design[r[1]] THEN r
                    ELSE IF k \in run[r].del THEN None ELSE rows[k]]

SaveCommit(r) ==
    /\ run[r].pc = "commit"
    /\ rows' = Replaced(r)
    /\ written' = written \cup {r[1]}
    /\ run' = [run EXCEPT ![r].pc = IF kind[r[1]] = "direct" THEN "ending" ELSE "finish",
                          ![r].del = {}]
    /\ UNCHANGED <<fixed, status, request, message, deliveries, cancel, lost, faults>>

-----------------------------------------------------------------------------
(* End of an execution *)

FinishRead(r) ==
    /\ run[r].pc = "finish"
    /\ IF Exists(r[1])
         THEN run' = [run EXCEPT ![r].pc = "complete", ![r].seen = status[r[1]]]
         ELSE Goto(r, "notify")
    /\ UNCHANGED <<fixed, status, request, message, deliveries, cancel, table, lost, faults>>

Outcome(r) == IF run[r].ok THEN "completed" ELSE "failed"

FinishCommit(r) ==
    /\ run[r].pc = "complete"
    /\ IF Exists(r[1])
         THEN status' = Assigned(r[1], run[r].seen, Outcome(r)) /\ Goto(r, "notify")
         ELSE Raise(r) /\ UNCHANGED status
    /\ UNCHANGED <<fixed, request, message, deliveries, cancel, table, lost, faults>>

\* The mutation of notifications and mails that let their errors through.
NotifyRaises(r) ==
    /\ run[r].pc = "notify"
    /\ Raise(r)
    /\ UNCHANGED <<fixed, status, request, message, deliveries, cancel, table, lost, faults>>

\* Subscribers are told and mail is sent; neither raises.
Notify(r) ==
    /\ run[r].pc = "notify"
    /\ Goto(r, "ending")
    /\ UNCHANGED <<fixed, status, request, message, deliveries, cancel, table, lost, faults>>

FailRead(r) ==
    /\ run[r].pc = "fail"
    /\ IF Exists(r[1])
         THEN run' = [run EXCEPT ![r].pc = "failed", ![r].seen = status[r[1]]]
         ELSE Goto(r, "ending")
    /\ UNCHANGED <<fixed, status, request, message, deliveries, cancel, table, lost, faults>>

\* A row that is gone makes the handler itself raise: nothing is left to mark.
FailCommit(r) ==
    /\ run[r].pc = "failed"
    /\ status' = IF Exists(r[1]) THEN Assigned(r[1], run[r].seen, "failed") ELSE status
    /\ Goto(r, "ending")
    /\ UNCHANGED <<fixed, request, message, deliveries, cancel, table, lost, faults>>

\* The acknowledgement of the execution that holds the message.
Acknowledged(r) ==
    IF Current(r) /\ message[r[1]] = "held" THEN [message EXCEPT ![r[1]] = "acked"]
                                            ELSE message

Stopped(r) == [run EXCEPT ![r] = [NewRun EXCEPT !.pc = "ended"]]

RunEnds(r) ==
    /\ run[r].pc = "ending"
    /\ run' = Stopped(r)
    /\ message' = Acknowledged(r)
    /\ UNCHANGED <<fixed, status, request, deliveries, cancel, table, lost, faults>>

-----------------------------------------------------------------------------
(* Cancellation, clean-up *)

\* cancel_job reads the job without a lock and refuses a job that has ended.
\* It cancels the asyncio task if this process runs it.
CancelRead(j) ==
    /\ cancel[j] = "idle"
    /\ status[j] \in {"pending", "started", "processing"}
    /\ cancel' = [cancel EXCEPT ![j] = "decided"]
    /\ \/ UNCHANGED run
       \/ /\ ~UsesBroker(j)
          /\ Live(<<j, 1>>)
          /\ run[<<j, 1>>].pc \notin {"begin", "claim"}
          /\ run' = [run EXCEPT ![<<j, 1>>].asked = TRUE]
    /\ UNCHANGED <<fixed, status, request, message, deliveries, table, lost, faults>>

CancelCommit(j) ==
    /\ cancel[j] = "decided"
    /\ cancel' = [cancel EXCEPT ![j] = "done"]
    /\ status' = IF Exists(j) THEN [status EXCEPT ![j] = "cancelled"] ELSE status
    /\ UNCHANGED <<fixed, request, message, deliveries, run, table, lost, faults>>

\* The hourly clean-up deletes jobs that ended and were created a day ago;
\* no execution of Celery lasts that long.
Cleanup(j) ==
    /\ status[j] \in Terminal
    /\ UsesBroker(j) => \A n \in 1 .. MaxDeliveries : ~Live(<<j, n>>)
    /\ message[j] \in {"none", "acked"}
    /\ status' = [status EXCEPT ![j] = "none"]
    /\ UNCHANGED <<fixed, request, message, deliveries, run, cancel, table, lost, faults>>

-----------------------------------------------------------------------------
(* Failures *)

\* A statement or a commit fails.  The handler's own error, that of start_job
\* in the thread of a simulation, which logs it, and that of a bare first
\* transaction leave the status as it is.
Unhandled(r) ==
    \/ run[r].pc = "failed"
    \/ run[r].pc \in {"begin", "claim"} /\ ~Generates(r[1])
    \/ run[r].pc \in {"open", "mark"} /\ BareFirst(r)

DatabaseError(r) ==
    /\ run[r].pc \in {"begin", "claim", "open", "mark", "delete", "insert", "commit",
                      "finish", "complete", "notify", "failed"}
    /\ Fault
    /\ IF Unhandled(r) THEN Goto(r, "ending") /\ lost' = lost \cup {r[1]}
                       ELSE Raise(r) /\ UNCHANGED lost
    /\ UNCHANGED <<fixed, status, request, message, deliveries, cancel, table>>

\* The web process dies, or the child of a Celery worker does or is killed at
\* the hard time limit, which acknowledges the message.
RunDies(r) ==
    /\ Live(r)
    /\ Fault
    /\ run' = Stopped(r)
    /\ message' = Acknowledged(r)
    /\ lost' = lost \cup {r[1]}
    /\ UNCHANGED <<fixed, status, request, deliveries, cancel, table>>

\* A Celery worker or its connection is lost: the broker redelivers what was
\* not acknowledged.  Without its connection a worker goes on with its task.
WorkerLost(r) ==
    /\ UsesBroker(r[1])
    /\ Live(r) /\ Current(r)
    /\ Fault
    /\ message' = IF message[r[1]] = "held" THEN [message EXCEPT ![r[1]] = "queued"]
                                            ELSE message
    /\ \/ run' = Stopped(r)
       \/ UNCHANGED run
    /\ UNCHANGED <<fixed, status, request, deliveries, cancel, table, lost>>

CancelFails(j) ==
    /\ cancel[j] = "decided"
    /\ Fault
    /\ cancel' = [cancel EXCEPT ![j] = "done"]
    /\ UNCHANGED <<fixed, status, request, message, deliveries, run, table, lost>>

-----------------------------------------------------------------------------
(* Specification *)

SaveStep(r) ==
    SaveSnapshot(r) \/ SaveDelete(r) \/ SaveInsert(r) \/ SaveCommit(r)

RunStep(r) ==
    \/ StartRead(r) \/ StartCommit(r) \/ OpenRead(r) \/ MarkCommit(r)
    \/ Work(r) \/ StopWhenCancelled(r) \/ WorkFails(r) \/ CancelledEnd(r)
    \/ SaveStep(r)
    \/ FinishRead(r) \/ FinishCommit(r) \/ Notify(r)
    \/ FailRead(r) \/ FailCommit(r) \/ RunEnds(r)

RequestStep(j) == CreateJob(j) \/ Dispatch(j) \/ GenerateDirectly(j)

Next ==
    \/ \E j \in Jobs :
        \/ RequestStep(j) \/ DispatchFails(j) \/ Deliver(j)
        \/ CancelRead(j) \/ CancelCommit(j) \/ CancelFails(j) \/ Cleanup(j)
    \/ \E r \in Runs :
        RunStep(r) \/ DatabaseError(r) \/ RunDies(r) \/ WorkerLost(r)

\* A request that was accepted is processed, the broker delivers, and an
\* execution goes on unless a failure ends it.
Fairness ==
    /\ \A j \in Jobs : WF_vars(Dispatch(j)) /\ WF_vars(Deliver(j)) /\ WF_vars(CancelCommit(j))
    /\ \A r \in Runs : WF_vars(RunStep(r))

Spec == Init /\ [][Next]_vars /\ Fairness

-----------------------------------------------------------------------------
(* Properties *)

RunType == [pc : Places, seen : Statuses, left : 0 .. 2, asked : BOOLEAN, ok : BOOLEAN,
            target : SUBSET (Keys \X Runs), del : SUBSET Keys]

\* Every variable has its type.
TypeOK ==
    /\ celery \in BOOLEAN
    /\ kind \in [Jobs -> Kinds]
    /\ design \in [Jobs -> Designs]
    /\ status \in [Jobs -> Statuses]
    /\ request \in [Jobs -> {"new", "created", "sent", "gone"}]
    /\ message \in [Jobs -> {"none", "queued", "held", "acked"}]
    /\ deliveries \in [Jobs -> 0 .. MaxDeliveries]
    /\ run \in [Runs -> RunType]
    /\ cancel \in [Jobs -> {"idle", "decided", "done"}]
    /\ rows \in [Keys -> Runs \cup {None}]
    /\ written \subseteq Jobs
    /\ lost \subseteq Jobs
    /\ faults \in 0 .. MaxFaults

\* The rows that a whole generation leaves in an empty table.
Whole(r) == [k \in Keys |-> IF k \in design[r[1]] THEN r ELSE None]
Empty == [k \in Keys |-> None]

\* The task table never mixes two generations, nor holds a part of one,
\* however saves, redeliveries and regenerations of the study overlap:
\* save_tasks deletes and inserts in one transaction, and a DELETE that missed
\* rows makes the INSERT meet the unique constraint.
TasksOfOneGeneration == rows = Empty \/ \E r \in Runs : rows = Whole(r)

\* A generation reported completed has committed its tasks ("Generation
\* callers must fail loudly rather than report success with no persisted
\* tasks", task_service.py).
CompletedMeansSaved ==
    \A j \in Jobs : Generates(j) /\ status[j] = "completed" => j \in written

\* Without a failure, and unless a cancellation was decided before, a job
\* that is completed stays so until the clean-up: a second execution comes
\* from a failure only.
CompletionIsFinal == [][
    \A j \in Jobs :
        status[j] = "completed" /\ faults = 0 /\ cancel[j] # "decided"
            => status'[j] \in {"completed", "none"}]_vars

\* What cancelling a job says: "Job cancelled successfully".  Nothing in an
\* execution looks at the status before it writes the next one.
CancelledStaysCancelled == [][
    \A j \in Jobs : status[j] = "cancelled" => status'[j] \in {"cancelled", "none"}]_vars

\* A job that was dispatched ends, through redelivery if its worker is lost,
\* unless an execution was ended without a word: by a crash, a hard time
\* limit, an error of the database in the handler, or CancelledError.
JobsEnd == \A j \in Jobs :
    <>[](request[j] = "sent" /\ kind[j] # "direct"
            => status[j] \in Terminal \cup {"none"} \/ j \in lost)

\* The task table and the reports of completion are the register of
\* TaskRegister.
Generators == {j \in Jobs : Generates(j)}
Register == INSTANCE TaskRegister WITH
    Executions <- 1 .. MaxDeliveries,
    table <- IF \E r \in Runs : rows = Whole(r)
               THEN CHOOSE r \in Runs : rows = Whole(r) ELSE None,
    completed <- {j \in Generators : status[j] = "completed"}
ImplementsRegister == Register!Spec
=============================================================================
