---------------------------- MODULE ResponseSession ----------------------------
(***************************************************************************)
(* The life of the responses of one study (app/services/response.py):      *)
(* start_study, create_response, submit_task, submit_tasks_bulk,           *)
(* submit_classification, abandon_study, the sweep of inactive sessions,   *)
(* and _check_and_complete_studies, which most of them run.                *)
(*                                                                         *)
(* A request is served by a worker with its own SQLAlchemy session.  Its   *)
(* statements interleave with those of the other workers under READ        *)
(* COMMITTED.  Three facts about the ORM matter and are modelled:          *)
(*   - autoflush=False: a changed object is not seen by the queries of its *)
(*     own transaction before a flush or the commit;                       *)
(*   - an UPDATE writes the attributes whose value differs from the one    *)
(*     loaded, whatever the row holds by then;                             *)
(*   - a row that is already loaded comes back from a query as the same    *)
(*     object, with the changes made to it.                                *)
(* completed_tasks_count and current_task_index always move together and   *)
(* are the one field count.  Respondent numbers, and the removal of        *)
(* responses, are the subject of RespondentSlots.                          *)
(***************************************************************************)
EXTENDS Integers, FiniteSets, Sequences

CONSTANTS NumSessions,    \* sessions that may be started; 1..NumSessions in primary key order
          NumTasks,       \* total_tasks_assigned of every response
          Workers,        \* threads that serve requests
          MaxPayload,     \* bound on the tasks of one bulk submission
          Targets,        \* possible values of number_of_respondents, 0 = none
          Pools,          \* possible sizes of the generated respondent pool, 0 = none
          PostQuestion,   \* possible answers to: is there an optional classification question?
          Phase,          \* Phase[i]: the phase_type of the i-th task of a respondent
          OwnerStatuses,  \* statuses the owner may set
          Crashes         \* may a worker die in the middle of a request?

Sessions == 1..NumSessions
Tasks == 1..NumTasks
Phases == {Phase[i] : i \in Tasks}
StudyStatuses == {"draft", "active", "paused", "completed"}

ASSUME SessionAssumption ==
    /\ NumSessions \in Nat /\ NumTasks \in Nat \ {0} /\ MaxPayload \in Nat
    /\ Targets \subseteq Nat /\ Pools \subseteq Nat /\ PostQuestion \subseteq BOOLEAN
    /\ DOMAIN Phase = Tasks /\ "hybrid" \notin Phases
    /\ OwnerStatuses \subseteq StudyStatuses
    /\ Crashes \in BOOLEAN

VARIABLES
    study,    \* studies.status
    row,      \* row[s]: the committed row of session s
    stored,   \* stored[s][<<i, p>>]: number of completed_tasks rows of task i with task_type p
    answers,  \* answers[s]: number of classification_answers rows of the optional question
    loc,      \* loc[w]: what worker w is doing
    target, pool, post   \* settings of the study; they do not change

settings == <<target, pool, post>>
tables == <<study, row, stored, answers>>
vars == <<tables, loc, settings>>

\* A hybrid study has tasks of two phases; "hybrid" is the task_type of a row
\* that belongs to none.
Hybrid == Cardinality(Phases) > 1
Types == Phases \cup {"hybrid"}
Keys == Tasks \X Types

NoRow == [status |-> "none", done |-> FALSE, gone |-> FALSE, count |-> 0]
Row == [status: {"none", "in_progress", "completed", "abandoned"},
        done: BOOLEAN,       \* is_completed
        gone: BOOLEAN,       \* is_abandoned
        count: Nat]

\* "screen" is a submit_classification with enforce_quota.
\* "check" is what is left of a request when only the completion check remains.
Ops == {"none", "start", "task", "bulk", "classify", "screen", "abandon", "sweep", "check"}
Idle == [pc |-> "idle", op |-> "none", s |-> 0, seen |-> NoRow, todo |-> <<>>,
         insert |-> {}, answer |-> FALSE, mark |-> "none", batch |-> {}, locks |-> {}]
Local == [pc: {"idle", "insert", "open", "build", "commit", "abandon", "answers", "flush",
               "check", "load", "mark", "set_status"},
          op: Ops,
          s: Sessions \cup {0},
          seen: Row,                   \* the response object as it was loaded
          todo: Seq(Tasks),            \* tasks of the payload
          insert: SUBSET Keys,         \* completed_tasks rows to insert
          answer: BOOLEAN,             \* a classification_answers row to insert
          mark: {"none", "completed", "abandoned"},  \* unpublished change of the status
          batch: SUBSET Sessions,      \* other responses to mark as abandoned
          locks: SUBSET Sessions]      \* row locks of the transaction

TypeOK ==
    /\ study \in StudyStatuses
    /\ row \in [Sessions -> Row]
    /\ ~Hybrid => \A s \in Sessions : row[s].count <= NumTasks
    /\ stored \in [Sessions -> [Keys -> Nat]]
    /\ answers \in [Sessions -> Nat]
    /\ loc \in [Workers -> Local]
    /\ target \in Targets /\ pool \in Pools /\ post \in PostQuestion

Init ==
    /\ study = "active"
    /\ row = [s \in Sessions |-> NoRow]
    /\ stored = [s \in Sessions |-> [k \in Keys |-> 0]]
    /\ answers = [s \in Sessions |-> 0]
    /\ loc = [w \in Workers |-> Idle]
    /\ target \in Targets /\ pool \in Pools /\ post \in PostQuestion

-----------------------------------------------------------------------------
Exists(s) == row[s].status # "none"
FreeFor(s, w) == \A v \in Workers \ {w} : s \notin loc[v].locks
At(w, pc) == loc[w].pc = pc

Go(w, local) == loc' = [loc EXCEPT ![w] = local]
Finish(w) == loc' = [loc EXCEPT ![w] = Idle]

\* After its commit w has only the completion check left to do.
OnlyCheck(w) == loc' = [loc EXCEPT ![w] = [Idle EXCEPT !.pc = "check", !.op = "check"]]

\* What the UPDATE of a response object writes into its row r: the attributes
\* that differ from the loaded ones.
WithMark(r, seen, mark) ==
    CASE mark = "completed" -> [r EXCEPT !.status = "completed", !.done = TRUE,
                                         !.gone = IF seen.gone THEN FALSE ELSE @]
      [] mark = "abandoned" -> [r EXCEPT !.status = "abandoned", !.gone = TRUE]
      [] OTHER              -> r

\* The commit of w: its own response, its inserts, and its batch.
Publish(w) ==
    LET l == loc[w]
        own == WithMark(row[l.s], l.seen, l.mark)
    IN  /\ row' = [s \in Sessions |->
                     IF s = l.s
                     THEN IF l.insert = {} THEN own
                          ELSE [own EXCEPT !.count = l.seen.count + Cardinality(l.insert)]
                     ELSE IF s \in l.batch THEN WithMark(row[s], row[s], "abandoned")
                     ELSE row[s]]
        /\ stored' = [s \in Sessions |-> [k \in Keys |->
                        IF s = l.s /\ k \in l.insert THEN stored[s][k] + 1 ELSE stored[s][k]]]
        /\ answers' = [s \in Sessions |->
                        IF s = l.s /\ l.answer THEN answers[s] + 1 ELSE answers[s]]

-----------------------------------------------------------------------------
(* start_study and create_response                                         *)

\* The status of the study is read first.
StartRead(w, s) ==
    /\ At(w, "idle") /\ ~Exists(s)
    /\ \A v \in Workers : loc[v].op = "start" => loc[v].s # s
    /\ study = "active"
    /\ Go(w, [Idle EXCEPT !.pc = "insert", !.op = "start", !.s = s])
    /\ UNCHANGED <<tables, settings>>

\* The row is committed.  start_study goes on to the completion check,
\* create_response does not.
StartInsert(w) ==
    /\ At(w, "insert")
    /\ row' = [row EXCEPT ![loc[w].s].status = "in_progress"]
    /\ OnlyCheck(w) \/ Finish(w)
    /\ UNCHANGED <<study, stored, answers, settings>>

-----------------------------------------------------------------------------
(* submit_task and submit_tasks_bulk                                       *)

\* The mutation of a submission that does not lock the response.
SubmitUnlocked(w, s) == TRUE

LocksResponse(w, s) == FreeFor(s, w)

Submittable(s) == row[s].status = "in_progress" /\ ~row[s].done /\ ~row[s].gone

Payloads(op) == IF op = "task" THEN {<<t>> : t \in Tasks}
                ELSE UNION {[1..n -> Tasks] : n \in 1..MaxPayload}

\* _get_response_by_session_for_update, and the guards on the response.  A wait
\* longer than 5 s is answered 409: the request did nothing.
SubmitLock(w, s, op) ==
    /\ At(w, "idle")
    /\ LocksResponse(w, s)
    /\ Submittable(s)
    /\ \E T \in Payloads(op) :
        Go(w, [Idle EXCEPT !.pc = "open", !.op = op, !.s = s, !.seen = row[s], !.todo = T,
                           !.locks = {s}])
    /\ UNCHANGED <<tables, settings>>

\* The study is completed: 400.
SubmitRefused(w) ==
    /\ At(w, "open")
    /\ study = "completed"
    /\ Finish(w)
    /\ UNCHANGED <<tables, settings>>

SubmitOpen(w) ==
    /\ At(w, "open")
    /\ study # "completed"
    /\ Go(w, [loc[w] EXCEPT !.pc = "build"])
    /\ UNCHANGED <<tables, settings>>

\* task_type of a row stored at current_task_index n.  The phase of a hybrid
\* study is looked up at that index, and there is none past the last task.
TypeAt(n) == IF ~Hybrid THEN Phase[1]
             ELSE IF n < NumTasks THEN Phase[n + 1] ELSE "hybrid"

\* task_id of task i: its position within its phase, so that a hybrid study has
\* the same task_id in both phases.
TaskId(i) == Cardinality({j \in 1..i : Phase[j] = Phase[i]})

\* The mutation of a submission without the idempotency guard.
NeverRepeated(s, k, rows) == FALSE

\* _completed_task_exists, existing_task_keys and seen_in_payload.
Repeated(s, k, rows) ==
    /\ k[2] # "hybrid"
    /\ \E j \in Tasks : /\ TaskId(j) = TaskId(k[1])
                        /\ stored[s][<<j, k[2]>>] > 0 \/ <<j, k[2]>> \in rows

\* The next task of the payload adds a row, unless it is repeated; after the last
\* task assigned the rest of the payload is left.
SubmitNext(w) ==
    LET l == loc[w]
        n == l.seen.count + Cardinality(l.insert)
        k == <<Head(l.todo), TypeAt(n)>>
    IN  /\ At(w, "build") /\ l.todo # <<>>
        /\ IF Repeated(l.s, k, l.insert) \/ k \in l.insert
           THEN Go(w, [l EXCEPT !.todo = Tail(@)])
           ELSE Go(w, [l EXCEPT !.todo = IF n + 1 >= NumTasks THEN <<>> ELSE Tail(@),
                                !.insert = @ \cup {k}])
        /\ UNCHANGED <<tables, settings>>

Unanswered(s) == post /\ answers[s] = 0

TasksComplete(l) == l.insert # {} /\ l.seen.count + Cardinality(l.insert) >= NumTasks

\* The mutation of a last task that does not wait for the post-task question.
IgnoresQuestion(l) == TasksComplete(l)

CompletesResponse(l) == TasksComplete(l) /\ ~Unanswered(l.s)

\* A repeated single task: commit, and the answer of the first time.
SubmitRepeated(w) ==
    /\ At(w, "build") /\ loc[w].todo = <<>>
    /\ loc[w].op = "task" /\ loc[w].insert = {}
    /\ Finish(w)
    /\ UNCHANGED <<tables, settings>>

\* The rows are built; the last task completes the response unless the optional
\* question is still open.  submit_task checks the study before its commit,
\* submit_tasks_bulk after it.
SubmitBuild(w) ==
    LET l == loc[w]
        complete == CompletesResponse(l)
    IN  /\ At(w, "build") /\ l.todo = <<>>
        /\ l.op = "task" => l.insert # {}
        /\ Go(w, [l EXCEPT !.pc = IF complete /\ l.op = "task" THEN "check" ELSE "commit",
                           !.mark = IF complete THEN "completed" ELSE "none"])
        /\ UNCHANGED <<tables, settings>>

\* The commit that ends a request, or precedes the check of a bulk submission.
Commit(w) ==
    LET l == loc[w]
    IN  /\ At(w, "commit")
        /\ Publish(w)
        /\ IF l.op = "bulk" /\ l.mark = "completed" THEN OnlyCheck(w) ELSE Finish(w)
        /\ UNCHANGED <<study, settings>>

-----------------------------------------------------------------------------
(* submit_classification                                                   *)

\* enforce_quota locks the response; otherwise it is only read.
ClassifyRead(w, s) ==
    /\ At(w, "idle") /\ Exists(s)
    /\ LET start == [Idle EXCEPT !.pc = "answers", !.s = s, !.seen = row[s]]
       IN  \/ Go(w, [start EXCEPT !.op = "classify"])
           \/ /\ FreeFor(s, w)
              /\ Go(w, [start EXCEPT !.op = "screen", !.locks = {s}])
    /\ UNCHANGED <<tables, settings>>

\* The answers may be to other questions only.  A stored answer to the optional
\* question is updated, a duplicate is deleted (not modelled: the count stays).
ClassifyAnswers(w) ==
    /\ At(w, "answers")
    /\ \E given \in BOOLEAN :
        Go(w, [loc[w] EXCEPT !.pc = "flush", !.answer = given /\ answers[loc[w].s] = 0])
    /\ UNCHANGED <<tables, settings>>

\* The flush writes last_activity, and so waits for the row's lock.  With
\* finalize_response, a response whose tasks are all in and whose questions are
\* answered is completed, and flushed again.
ClassifyFlush(w) ==
    LET l == loc[w]
        ready == /\ l.seen.count >= NumTasks
                 /\ ~l.seen.done
                 /\ l.answer \/ ~Unanswered(l.s)
    IN  /\ At(w, "flush")
        /\ FreeFor(l.s, w)
        /\ \E finalize \in BOOLEAN :
            Go(w, [l EXCEPT !.pc = IF finalize /\ ready THEN "check" ELSE "commit",
                            !.mark = IF finalize /\ ready THEN "completed" ELSE "none",
                            !.locks = {l.s}])
        /\ UNCHANGED <<tables, settings>>

-----------------------------------------------------------------------------
(* abandon_study, and the sweep of sessions idle for 60 minutes            *)

AbandonRead(w, s) ==
    /\ At(w, "idle") /\ Exists(s)
    /\ ~row[s].done
    /\ Go(w, [Idle EXCEPT !.pc = "abandon", !.op = "abandon", !.s = s, !.seen = row[s]])
    /\ UNCHANGED <<tables, settings>>

\* The mutation of an UPDATE that writes every assigned attribute.
WritesAll(r, seen) == [r EXCEPT !.status = "abandoned", !.gone = TRUE, !.done = FALSE]

\* is_completed = False was loaded as False, so it is not written.
AbandonUpdate(r, seen) ==
    [r EXCEPT !.status = IF seen.status # "abandoned" THEN "abandoned" ELSE @,
              !.gone = IF ~seen.gone THEN TRUE ELSE @]

\* The flush of the commit waits for the row's lock; the check follows.
AbandonWrite(w) ==
    LET l == loc[w]
    IN  /\ At(w, "abandon")
        /\ FreeFor(l.s, w)
        /\ row' = [row EXCEPT ![l.s] = AbandonUpdate(@, l.seen)]
        /\ OnlyCheck(w)
        /\ UNCHANGED <<study, stored, answers, settings>>

\* The mutation of a sweep that leaves responses alone whose tasks are all in.
OpenUnfinished == {s \in Sessions : row[s].status = "in_progress" /\ row[s].count < NumTasks}

Open == {s \in Sessions : row[s].status = "in_progress" /\ ~row[s].done}

\* S: those whose last_activity is older than the cutoff.
Sweep(w, S) ==
    /\ At(w, "idle")
    /\ S \subseteq Open
    /\ IF S = {} THEN OnlyCheck(w)
                 ELSE Go(w, [Idle EXCEPT !.pc = "mark", !.op = "sweep", !.batch = S])
    /\ UNCHANGED <<tables, settings>>

-----------------------------------------------------------------------------
(* _check_and_complete_studies                                             *)

Started == {s \in Sessions : Exists(s)}

\* A classification has flushed its completion, so its own queries see it; the
\* dirty object of submit_task is not flushed.
Flushed(w) == IF loc[w].op \in {"classify", "screen"} /\ loc[w].mark = "completed"
              THEN {loc[w].s} ELSE {}
Completed(w) == {s \in Sessions : row[s].done} \cup Flushed(w)
Abandoned(w) == {s \in Sessions : row[s].gone}

\* The mutation that compares all responses with the target.
DueByTotal(w) == target > 0 /\ Cardinality(Started) >= target

\* should_complete
Due(w) ==
    LET total == Cardinality(Started)
        completed == Cardinality(Completed(w))
    IN  \/ target > 0 /\ completed >= target
        \/ pool > 0 /\ total >= pool
        \/ /\ target = 0
           /\ total > 0
           /\ completed + Cardinality(Abandoned(w)) >= total

\* What follows the check: submit_task and submit_classification still commit.
CheckNotDue(w) ==
    /\ At(w, "check")
    /\ study = "completed" \/ ~Due(w)
    /\ IF loc[w].op \in {"task", "classify", "screen"}
       THEN Go(w, [loc[w] EXCEPT !.pc = "commit"])
       ELSE Finish(w)
    /\ UNCHANGED <<tables, settings>>

CheckDue(w) ==
    /\ At(w, "check")
    /\ study # "completed" /\ Due(w)
    /\ Go(w, [loc[w] EXCEPT !.pc = "load"])
    /\ UNCHANGED <<tables, settings>>

\* The responses in progress are loaded to be marked.  submit_task finds its own
\* response among them, whose row is not updated yet: its object is marked too.
LoadOpen(w) ==
    LET l == loc[w]
        found == Open \ Flushed(w)
        self == found \cap (IF l.op = "task" THEN {l.s} ELSE {})
    IN  /\ At(w, "load")
        /\ Go(w, [l EXCEPT !.pc = IF found = {} THEN "set_status" ELSE "mark",
                           !.batch = found \ self,
                           !.mark = IF self # {} THEN "abandoned" ELSE @])
        /\ UNCHANGED <<tables, settings>>

-----------------------------------------------------------------------------
(* The unit of work updates the rows in primary key order.                 *)

ToLock(w) == loc[w].batch \ loc[w].locks
NextToLock(w, s) == s \in ToLock(w) /\ \A r \in ToLock(w) : s <= r

MarkRow(w, s) ==
    /\ At(w, "mark")
    /\ NextToLock(w, s)
    /\ FreeFor(s, w)
    /\ Go(w, [loc[w] EXCEPT !.locks = @ \cup {s}])
    /\ UNCHANGED <<tables, settings>>

\* The commit publishes the marks, and the request's own work with them.  After
\* the marks of a sweep comes the check, after those of a check the status.
MarkCommit(w) ==
    LET l == loc[w]
    IN  /\ At(w, "mark")
        /\ ToLock(w) = {}
        /\ Publish(w)
        /\ IF l.op = "sweep"
           THEN OnlyCheck(w)
           ELSE Go(w, [Idle EXCEPT !.pc = "set_status", !.op = "check"])
        /\ UNCHANGED <<study, settings>>

\* change_status_fast(..., 'completed'), whose commit also publishes what is
\* only flushed, and the end of the request.
SetStatus(w) ==
    /\ At(w, "set_status")
    /\ Publish(w)
    /\ study' = "completed"
    /\ Finish(w)
    /\ UNCHANGED settings

-----------------------------------------------------------------------------
(* Failures, and the owner of the study                                    *)

\* w waits for a row that v has locked.
Waits(w, v) ==
    /\ v # w
    /\ \/ At(w, "mark") /\ \E s \in loc[v].locks : NextToLock(w, s)
       \/ loc[w].pc \in {"flush", "abandon"} /\ loc[w].s \in loc[v].locks

InCycle(w) == \E C \in SUBSET Workers :
                 w \in C /\ \A c \in C : \E v \in C : Waits(c, v)

\* PostgreSQL cancels a transaction that waits in a cycle, and one that waits
\* for 5 s if it has locked its response with the lock_timeout: the request
\* fails with a rollback.
WaitFails(w) ==
    /\ \/ InCycle(w)
       \/ loc[w].op \in {"task", "screen"} /\ \E v \in Workers : Waits(w, v)
    /\ Finish(w)
    /\ UNCHANGED <<tables, settings>>

\* The process or its connection dies.
Crash(w) ==
    /\ Crashes
    /\ ~At(w, "idle")
    /\ Finish(w)
    /\ UNCHANGED <<tables, settings>>

\* change_status
OwnerSetsStatus(new) ==
    /\ new # study
    /\ study' = new
    /\ UNCHANGED <<row, stored, answers, loc, settings>>

-----------------------------------------------------------------------------
\* The steps of a request that has been accepted.
Proceed(w) ==
    \/ StartInsert(w)
    \/ SubmitRefused(w) \/ SubmitOpen(w) \/ SubmitNext(w)
    \/ SubmitRepeated(w) \/ SubmitBuild(w) \/ Commit(w)
    \/ ClassifyAnswers(w) \/ ClassifyFlush(w)
    \/ AbandonWrite(w)
    \/ CheckNotDue(w) \/ CheckDue(w) \/ LoadOpen(w)
    \/ (\E s \in Sessions : MarkRow(w, s)) \/ MarkCommit(w) \/ SetStatus(w)
    \/ WaitFails(w)

\* A request of a client.
Request(w) == \E s \in Sessions :
    \/ StartRead(w, s)
    \/ SubmitLock(w, s, "task")
    \/ SubmitLock(w, s, "bulk")
    \/ ClassifyRead(w, s)
    \/ AbandonRead(w, s)

Next ==
    \/ \E w \in Workers : \/ Request(w) \/ Proceed(w) \/ Crash(w)
                          \/ \E S \in SUBSET Open : Sweep(w, S)
    \/ \E new \in OwnerStatuses : OwnerSetsStatus(new)

\* A request that was accepted is served.  start_abandonment_checker loops for
\* ever, so that a sweep that finds every open session idle is taken again and
\* again; it does so only if clients stop, which SessionsEnd assumes.
Fairness ==
    /\ \A w \in Workers : WF_vars(Proceed(w))
    /\ SF_vars(\E w \in Workers : Sweep(w, Open))

Spec == Init /\ [][Next]_vars /\ Fairness

-----------------------------------------------------------------------------
StoredKeys(s) == {k \in Keys : stored[s][k] > 0}
StoredTasks(s) == {i \in Tasks : \E p \in Types : stored[s][<<i, p>>] > 0}

(* completed_tasks_count is the number of different tasks stored, whatever *)
(* mixture of single, bulk, repeated and aborted submissions wrote them:   *)
(* a task is stored once (_get_response_by_session_for_update: the row     *)
(* lock is the only thing that stops duplicate task rows), and no UPDATE   *)
(* of another request rolls the counter back.                              *)
ProgressMatchesRows ==
    \A s \in Sessions :
        /\ row[s].count = Cardinality(StoredTasks(s))
        /\ \A k \in StoredKeys(s) : stored[s][k] = 1
        /\ \A j, k \in StoredKeys(s) : j[1] = k[1] => j = k

(* A completed response has all its task rows and, if the study has an     *)
(* optional question, an answer to it.                                     *)
CompletedHasEverything ==
    \A s \in Sessions : row[s].done => StoredTasks(s) = Tasks /\ ~Unanswered(s)

(* What is closed stays as it is: task rows are added only to a response   *)
(* that is in progress when they are committed, and is_completed is never  *)
(* taken back, although abandon_study, the sweep and the completion check  *)
(* all assign False to it, on objects loaded before the row was completed. *)
ClosedStaysClosed ==
    [][\A s \in Sessions :
        /\ stored'[s] # stored[s] => row[s].status = "in_progress" /\ ~row[s].gone
        /\ row[s].done => row'[s].done]_vars

(* A study with a target is completed only when enough responses are       *)
(* complete or its pool is used up (docstring of                           *)
(* _check_and_complete_studies, and tests/test_study_completion_logic.py,  *)
(* test_study_does_not_complete_when_only_total_reaches_target).  The      *)
(* comment at the call in start_study states the opposite: "This ensures   *)
(* immediate completion when total_responses equals expected_respondents". *)
(* The check does not do that, and so neither does this property: the      *)
(* mutation DueByTotal, by which a study is completed as soon as as many   *)
(* responses are started as its target asks for, violates it.              *)
CompletedOnlyWhenDue ==
    [][target > 0 /\ study # "completed" /\ study' = "completed" =>
        \/ Cardinality({s \in Sessions : row'[s].done}) >= target
        \/ pool > 0 /\ Cardinality({s \in Sessions : row'[s].status # "none"}) >= pool]_vars

ClientsStop == <>[][\A w \in Workers : ~Request(w)]_vars

(* Once the clients have stopped, no session stays in progress: one that   *)
(* was left by its client, by a failed request, by a question nobody       *)
(* answered or by the completion of its study is closed by the sweep if by *)
(* nothing else, and no deadlock with another request undoes that forever. *)
SessionsEnd == ClientsStop => \A s \in Sessions : <>[](row[s].status # "in_progress")

-----------------------------------------------------------------------------
(* What the code's own text promises, and the code does not keep.          *)

Quiet == \A w \in Workers : At(w, "idle")

(* submit_task: "Mark complete if all tasks are done and no post-task      *)
(* classification remains."                                                *)
AllDoneIsMarked ==
    Quiet => \A s \in Sessions :
                row[s].count >= NumTasks /\ ~Unanswered(s) => row[s].done
=============================================================================
