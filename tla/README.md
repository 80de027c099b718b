# TLA+ models of the study service

The program is a FastAPI service for online studies: an owner designs a study, a
generator computes the tasks of each respondent, respondents (people, or simulated
panelists) work through their tasks, and the results are analysed. Many requests run at
once, in threads of several web workers and in Celery workers, over one PostgreSQL
database and one Redis. What can go wrong there, and is hard to test, is what these
modules model: the order of statements of concurrent transactions, the row locks they
take, the crashes, redeliveries and retries between them, what the ORM writes when, and
the messages and caches through which users learn of it.

## The system

| Component | Where | State | Operations |
|---|---|---|---|
| Respondent numbers | `services/response.py` | `study_responses.respondent_id` (unique per study), `freed_respondent_ids` | start with retry, three ways to remove a response |
| Response session | `services/response.py`, `services/background_tasks.py` | one `study_responses` row per session, `completed_tasks`, `classification_answers`, `studies.status` | start, submit one task or many, classify, abandon, sweep, completion check |
| Screening quotas | `services/screening_quota.py` | `screening_option_quotas` rows, `quota_reserved` | Continue (reserve or reject), save, absorb, sync of edited limits |
| Study life cycle and editing | `services/study.py` | `studies`, its categories and elements, layers and images | create, edit, launch, pause, constraints, copy, regenerate tasks, delete |
| Background jobs | `services/background_task_service.py`, `tasks/celery_jobs.py` | `jobs` rows, asyncio tasks, the Celery queue | create, dispatch, start, process, complete, fail, cancel, clean up |
| Task storage | `services/task_service.py` | `study_task_assignments` | replace all, read by respondent and index |
| Progress streams | `websocket/`, `core/redis.py`, `api/v1/websocket.py` | subscribers per job, Redis channels | check, subscribe, deliver, end |
| Notifications | `services/job_notification_service.py` | notification rows and a cached list | upsert, backfill, list, dismiss |
| Membership | `services/project_member_service.py`, `services/study_member_service.py`, `services/project_service.py`, `services/user.py` | members of projects and of studies, roles, invitations | invite, change role, remove, create and assign studies, register |
| Design ranking | `services/design_optimizer.py` | none | search for the best designs |
| Simulated respondents | `services/synthetic_simulation_service.py`, `synthetic/` | none of its own | choose answers, rate tasks, store through the response session |
| Task design | `services/task_generation_core.py` and others | none | numerical search for design matrices |
| Analysis, reports, assistant | `services/analysis.py`, `services/reportgen/`, `services/assistant_*.py` | caches, conversations | read-only |

How they interact. `start_study` takes a number (respondent numbers), inserts the
session, and runs the completion check. `submit_task`, `submit_tasks_bulk` and
`submit_classification` change the session and run the check when it completes;
`submit_classification` with `enforce_quota` calls the quotas first, and a full option
removes the response and frees its number. `abandon_study` and a sweep every 15 minutes
close sessions, and run the check. The check counts responses, closes those in progress,
and sets the status of the study, which the owner sets too. Simulated respondents are
stored through the same operations; before a simulation the quotas absorb responses
stored earlier. An edit of a study replaces its design, syncs its limits, and may launch
it; a generation reads the design, works for minutes, and replaces the rows of tasks,
within the request or as a job. A job writes its status, publishes it on Redis for the
streams of the browser, and updates a notification row, which a backfill repairs.
Who may do all that is decided by the roles that projects copy into their studies.

What makes each of them correct: numbers are unique, without gaps, and match the tasks
counted for them; a task is stored once and the progress counter agrees with what is
stored; a completed response has everything, stays completed, and is not modified; the
study closes when, and only when, its rule says so; every session is closed in the end; a
seat is never sold twice, and belongs to a marked respondent whose answer is kept; a
replaced design is that of one edit; the tasks of a study are those of one generation;
a job ends, once, and its users see how; members of a project are members of its
studies, and what they are shown is what they may do; the designs ranked first are the
best; nobody waits for ever.

## Modules

| Module | Models | Kind |
|---|---|---|
| `RespondentSlots` | numbers: starts and removals as transactions of several statements | specification and properties |
| `RespondentSlotsProofs` | theorems about it | proofs |
| `ResponseSession` | the life of sessions and the completion of their study | specification and properties |
| `ResponseSessionProofs` | theorems about it | proofs |
| `MCResponseSession` | task sequences and symmetry for TLC | model |
| `ScreeningQuota` | seats of limited options | specification and properties |
| `ScreeningQuotaProofs` | theorems about it | proofs |
| `MCScreeningQuota` | questions, limits and symmetry for TLC | model |
| `TaskRegister` | what the task table promises to generations | abstract specification |
| `JobLifecycle` | jobs, their executions, the save of tasks; implements `TaskRegister` | specification and properties |
| `MCJobLifecycle` | kinds of jobs and designs for TLC | model |
| `JobLifecycleProofs` | theorems about it | proofs |
| `JobUpdates` | streams, messages, notifications and their cache | specification and properties |
| `JobUpdatesProofs` | theorems about it | proofs |
| `Membership` | members of projects and studies, and their roles | specification and properties |
| `MembershipProofs` | theorems about it | proofs |
| `StudyEditing` | edits, launches, deletion, regeneration and copy of a study | specification and properties |
| `StudyEditingProofs` | theorems about it | proofs |
| `MCStudyEditing` | symmetry for TLC | model |
| `RankDesigns` | the search of `rank_designs` | specification and properties |
| `MCRankDesigns` | small studies for TLC | model |
| `RankDesignsProofs` | theorems about it | proofs |

The specifications of database requests have the same shape. A request is one database
transaction under READ COMMITTED. A statement that reads or locks is one action; what a
transaction wrote is part of the request's local record (`loc[w]`, `req[w]`, `run[r]`, or
the functions indexed by the request) until the action that commits publishes it. A
statement that needs a row another transaction has locked is not enabled. A crash forgets
the local record, which is a rollback. Requests are served by workers and follow one
another, except in `RespondentSlots`, where each start and each removal is one constant,
and in `JobLifecycle`, where each execution of a job is one.

**RespondentSlots.** `ClaimFreed`, `NothingFreed`, `NextNumber`, `InsertCommit`,
`InsertRetry` and `InsertGiveUp` are the loop of `_create_response_with_respondent_retry`:
the `DELETE ... FOR UPDATE SKIP LOCKED`, the `MAX + 1`, the insert that meets the unique
constraint. A removal has a code path (`by_session`, `by_id`, `reject`): they differ in
whether the row is locked when it is read and in whether a `DELETE` that matches nothing
is rolled back, and these differences are `LocksFirst` and `ChecksRowcount`.

**ResponseSession.** `row[s]` is the committed row, with `done`, `gone` and `status` kept
apart because the code writes them apart; `count` is `completed_tasks_count` and
`current_task_index`, which move together. Three facts about SQLAlchemy decide what
happens and are modelled: `autoflush=False` (`Flushed`: which completions the check's own
queries see), an UPDATE writes only attributes that differ from the loaded value
(`WithMark`, `AbandonUpdate`), and a query returns an already loaded object with its
changes (`LoadOpen`, where a request finds its own response). Row updates of a flush
wait in primary key order (`MarkRow`). A submission goes through its payload task by task
(`SubmitNext`), and what the worker knows of the response is what it loaded under the lock
(`SubmitLock`). `WaitFails` is the 5 s `lock_timeout` and the
database's choice of a deadlock victim.

**ScreeningQuota.** `acc` is `accepted_count`. `counted` is a history variable: whom it
counts. `LockRow` takes the option rows one by one, in the order of the query.
An absorption goes through its responses in one transaction (`AbsorbNext`,
`AbsorbDecide`) and keeps all locks until `AbsorbCommit`. A sync updates caps, counts the
holders of new limits, marks them, and commits with the edit of the study.

**JobLifecycle.** A job is created by a request (`CreateJob`), dispatched to a thread of
the web process or to the broker (`Dispatch`), and executed as often as it is delivered
(`Deliver`: with `acks_late` a message that is not acknowledged comes again). An execution
`run[r]` reads and writes the row of the job in transactions of its own (`StartRead` to
`FailCommit`), each writing without a look at what has become of the status; `Work` is a
phase of the generation. `SaveSnapshot`, `SaveDelete`, `SaveInsert`, `SaveCommit` are
`save_tasks`: under READ COMMITTED the `DELETE` sees what was committed when it began,
waits for rows that others have deleted, and the `INSERT` waits for, or fails on, the
unique key of rows it has not seen. `GenerateDirectly` is the generation within a request,
which writes the same table. An error outside the `try` of a task whose handler marks the job
FAILED (the first transaction of an export or of a simulation on Celery, and the start of a
simulation in a thread) leaves the job as it is, with its message acknowledged (`Unhandled`).

A fault is an error of the database, a dead process, a lost worker (which may go on
working while its message is delivered again), or a cancellation request that fails.
`kind` tells a generation, a hybrid one in two phases, a simulation and an export apart.

**JobUpdates** takes the execution of a job as others see it: commits, publications and
upserts of the notification. `Connect`, `Recheck`, `Subscribe`, `Receive` are the stream of
`websocket.py` with its second check of the job; a message reaches only the streams that
are subscribed. `Upserted` is `upsert_user_job_notification` with what the writer had read:
an insert that finds a row by now is refused, and an UPDATE sends only what differs.
`LookRows` and `LookFills` cache a list that may be stale when it is cached; `FillJobs`,
`FillRows`, `FillWrite` are the backfill. Its batch also takes in the jobs of other users on
studies that the reader can see: their rows are looked up under the reader's id and
inserted under the owner's, so that a batch with one whose owner has a row is refused as
a whole (`FillRefused`). Seen from the owner, the backfills of others are `GuestInserts`.

**Membership.** `project` and `members` are the two tables; each request of the two
services begins with what it reads and ends with commits of what it computed, in between
`InviteFlush`, `CreateSync`, `AssignSync` copy members from one table into the other.
`MoveStudy` is `update_study` with a `project_id`, which puts a study into the project and
copies nobody. A member of `People` is an address as an invitation spells it. One with
capitals never has an account (`account[p] = "never"`), since registration stores the
address in small letters and invitations are compared with it exactly; it may be the
second spelling of a person who has one.
`CanEdit` and `ShownRole` translate `_get_effective_edit_permission` and the roles that the
lists and the preview show. `raced` and `own` are history: pairs of study and person that
two requests touched at once or a failed one touched, and pairs managed in the study itself
or there before the move.

**StudyEditing.** A request loads the study, `FOR UPDATE` if it is the creator's or a
regeneration and without a lock if it is a member's; the second query of
`_load_owned_study` has no `with_for_update`. A row of the design (a category with its
elements, or a layer with its images) has a version, the edit that wrote it. `DeleteRows`,
`InsertRows`, `CheckReference` and `CommitDesign` replace the design: the insert takes
`FOR KEY SHARE` on the study by its foreign key, and waits for unique keys that others are
deleting or inserting. The elements of categories are deleted by a statement of their own
(`DeleteElements`) that sees more than the one that deleted the categories; `bare` is the
set of categories it has robbed. An edit may be empty (`Designs`): `"study_layers": []` deletes
all layers, and `"elements": []` without categories all elements and no category
(`ClearsElements`). It inserts nothing, so that it takes no lock on the study at all unless it
also sets the status (`AfterFlush`), and a member's commits beside the creator's requests and
a regeneration. A regeneration reads layers and images by two queries (`ReadImages`).
`Write` is the UPDATE of columns, which sends what differs
from the loaded value. `LaunchAfterUpdate` is the second transaction of an update and
launch. `CopyParents` and `CopyChildren` are the two queries of a copy. `Rollback` is any
error, a crash, or the choice as victim of a deadlock.

**RankDesigns.** A call of the nested search function is one step (`Opened`, `Completed`,
`Pruned`, `TimesOut`), and so is one turn of its loop (`Tries`, `Exhausted`). `path` and
`tried` are the stack of open calls. `Optimistic` is the suffix bound, `Push` the heap of
limited size with its tie-break, `OtherOptions` the combinations of categories of
a study without layers. `TargetCount` is the size of such a design: `MaxSelections` or all
categories, and more if more elements are forced.

## Runs

| Run | Shows |
|---|---|
| `slots` | `UniqueNumbers`, `NoNumberLost`, `TasksOfOwnNumber`; a 503 only when another start got in between or the number claimed is occupied (`BusyIsExplained`); a removal that lost its race does not free a number in use (`ReleaseOnlyVacated`); every request ends (`EveryRequestEnds`) |
| `freed_numbers` | violation: a number can be freed and held at once |
| `session` | `ProgressMatchesRows` (and each task stored once), `CompletedHasEverything`, and over steps `ClosedStaysClosed` (no task in a closed session, no completion withdrawn) and `CompletedOnlyWhenDue` |
| `session_liveness` | `SessionsEnd`: no session stays in progress once clients stop |
| `session_last_task` | violation: a completed submission is stored as abandoned |
| `quota` | `SeatsAreHeld`, `NeverOverfull`, `SeatKeepsAnswer`, `ContinuesDoNotDeadlock` |
| `jobs` | `TasksOfOneGeneration`, `CompletionIsFinal`, `JobsEnd`, and the refinement of `TaskRegister` (`ImplementsRegister`) |
| `jobs_cancel` | violation: a cancelled job is processed and completed |
| `updates` | `SubscribedStreamsClose`, `DismissalIsPermanent`, `ListCatchesUp` |
| `membership` | `StudiesFollowProject`, `InvitationsAreLinked`, `RolesAgree`, `RemovalNeverGrants` |
| `editing` | `ReplacementsAreWhole`, `TakesWholeDesigns`, `OnlyMembersActOnStaleRows`, `DeadlocksNeedAMember` |
| `rank_designs` | `DesignsAreValid`, `RankingIsExact` |

Every passing run but `session_liveness` also checks the `TypeOK` of its module.

**Bounds.** `slots`: three starts compete for two numbers freed by two removals, with one
retry, so that a start can lose its race, retry and give up; three numbers suffice for
three starts. `session`: two workers are enough for each race between two requests on one
session or on the study; two tasks give a first, a last and a repeated one, and a bulk
payload of two can repeat itself; the target of 1 is reached by either session, and the
pool of 2 by both. `session_liveness` has one task, no target and no pool, which makes
"all completed or abandoned" the rule, and an owner who reopens the study at any time.
`quota`: a real and a synthetic respondent, two options of one question, so that an answer
can be replaced, and an option of a second one, so that there are two rows to lock; a limit
of 1 that is contended, and a cap that can be raised to 3 and lowered. `jobs`: a
job of each kind (hybrid generation, simulation, export) beside a generation within a
request, each with up to two executions, and one fault; two keys, of which
one design lacks the second, so that a save can miss a row without meeting its key. `updates`: one stream, one
progress before the end, one user. `membership`: one address besides the owner's, which has
an account, gets one or never has one, one study, two requests at once and four in all: an
invitation, a study, a change and a removal fit in. `editing`: two requests at once, four in all, two keys (an edit that keeps one
and drops one), two constraints, none of which the study is created with (`Created`: requests
add and drop them); seven versions of rows never run out, because versions that nobody
refers to are used again; every subset of the keys, the empty one too, is a design to
replace with. `rank_designs`: three categories of two, two and one elements
with coefficients of both signs and ties, limits of 1 and 3; and seven categories of one
element, so that one of them is behind the six that the other search looks at
(`3 * MaxSelections`), with an element of it required or not, and a limit above the
number of designs.
`SYMMETRY` exchanges workers (in `editing` also keys and constraints), in runs without
liveness only. `CHECK_DEADLOCK FALSE` stands where the system comes to rest: all jobs
ended, requests used up, the study deleted, the search done.

**Fairness.** `RespondentSlots`: a request that has been accepted keeps running (weak
fairness of each request's own steps; none for crashes, timeouts and deadlock victims of
others). `ResponseSession`: the same for accepted requests, none for clients; and strong
fairness of a sweep that finds all open sessions idle. The sweep runs in an endless loop
with `asyncio.sleep` (`background_tasks.py`), an exception of one round is caught, and
once clients have stopped (the premise of `SessionsEnd`) every open session is idle for an
hour. It needs `RUN_API_BACKGROUND_SERVICES`, which starts it. `JobLifecycle`: a request that
was accepted dispatches its job, the broker delivers, a decided cancellation commits, and an
execution goes on unless a fault ends it; none for creations, cancellations, faults and
the clean-up. `JobUpdates`: the server goes on with what it has begun, keys of Redis
expire, and the page of the user stays open, which lists notifications again and again;
none for the client's leaving or dismissing, nor for failures. The others state no fairness.

**Disagreements.** Violation runs check one statement each that the code's own text makes and the code
does not keep; `PROJECT.json` quotes the text under `findings`. All are also races or
orders that no test of the repository exercises.

Four more findings belong to passing runs, where the property states what the code does and
the text it disagrees with is quoted:

- A comment of `start_study` (`response.py:780-781`) says the check completes the study
  "when total_responses equals expected_respondents". The check counts completed responses,
  as its own docstring and a test say, and `CompletedOnlyWhenDue` with them. Its mutant is
  the rule of the comment.
- The backfill of notifications never gets through while its batch holds a job of another
  user whose owner has a row (`job_notification_service.py:556-607`). `ListCatchesUp` has the
  premise that this is in the end not so.
- Registration is to "link any pending project or study invitations" (`user.py:316`), and
  misses those written with capitals. `InvitationsAreLinked` says of these that they
  are never linked.
- `rank_designs` is to use "at most MAX_NON_LAYER_SELECTIONS categories"
  (`design_optimizer.py:461`), and uses exactly as many, or more if more are forced.
  `DesignsAreValid` and `RankingIsExact` are stated with the code's size.

The models have more such behaviours that
no text of the repository excludes, and no run states: the response that reaches the target
does not itself complete the study (`submit_task` checks the study before it flushes, the
same cause as in `session_last_task`); in a hybrid study the guard against repeated tasks looks
up the phase at `current_task_index`, which has moved on when a task is retried, so that the last
task of a phase can be stored again under the type of the next one; an absorption deadlocks with a Continue; the number
freed and held at once makes every later start fail until its holder is deleted; an
abandonment can rewrite the status, though not the flag, of a completed response; the
simulation in the web process announces its end before it commits it; a stream that
subscribes after the end was published stays open; a copy of layers loses images that were
replaced between its queries; a member who empties the design during a regeneration
leaves tasks saved of a design that is gone, which `TakesWholeDesigns` excepts by name; a study
that `update_study` moves into a project has none of its members, which
`StudiesFollowProject` excepts; two members' edits leave a design of which rows are of both;
the search for designs without layers looks only at the first twelve free categories
(`candidate_free`), so that a required element of a later one is not found, and a long list
lacks designs that would belong on it. `RankingIsExact` is therefore stated of the designs
the search looks at (`Searched`); without that it is false for the studies of seven categories.

## Proofs

**RespondentSlotsProofs** proves, for any sets of starts and removals, any code paths, any
number of retries and any bound on numbers (`SlotsAssumption`), that `Spec` implies
`[]TypeOK`, `[]UniqueNumbers`, `[]NoNumberLost` and `[]TasksOfOwnNumber`, and the two action
properties `BusyIsExplained` (theorem `BusyExplained`) and `ReleaseOnlyVacated`
(`ReleasedAreVacated`; a removal by id is excepted, since it checks no rowcount).

The argument is one inductive invariant, `Inv`. Uniqueness is immediate: an insert
commits only without a conflict. That no number is lost is not inductive by itself and
needs two facts about requests in flight. `CandidateInv`: a start that is about to insert
`n` knows that all numbers below `n` are in circulation, held or freed, and since numbers in
circulation stay there, this is still so when it commits, however long ago `MAX` was
read. `RemovalInv`: a removal that still finds its row either has inserted its number
into `freed_respondent_ids` or met it there, so that the number goes from held to freed
in one commit; and the session it removes has ended its start and will never get a row
again. `PayloadInv` ties the payload to the candidate for `TasksOfOwnNumber`. Each conjunct
has a lemma with one step per action; the theorems put them together with PTL.

The action properties need two more facts. `ClaimInv`: a start that has deleted a freed row
is the only one that did, and the row is committed until it commits; and if nobody has
overtaken a start, the number it took from `MAX + 1` is still unused. So an insert that
fails with neither an overtaking start nor an occupied number cannot be (`BusyStep`). `LockInv`:
two removals never hold the same response row, and a row that a removal has deleted is there
until it commits, so what the commit frees is the number of the row it removes
(`ReleaseStep`).

**ResponseSessionProofs** proves, for any sessions, tasks, workers, targets and pools
(`SessionAssumption`):

- `TypeCorrect` and `ClosedStays` (`ClosedStaysClosed`);
- for studies of one phase, `ProgressMatches` (`[]ProgressMatchesRows`) and `CompletedHas`
  (`[]CompletedHasEverything`). The assumption `~Hybrid` is needed: see the remark on
  hybrid studies above;
- `CompletedWhenDue` (`CompletedOnlyWhenDue`), if the owner does not set the status
  `completed` himself.

`Inv` joins the rows with what each request knows. `RowsInv`: the counter is the number of
keys stored, each once. `OwnOf`: a submission holds the lock of its response, which is open
and just as it was loaded; this is why it may add to the counter it has read. `KeysOf`: the
rows it is going to insert are not stored. `MarkOf`: who marks a response completed knows
that its tasks are in and its question is answered; tasks and answers only grow, so this is
still so at the commit (`CommitDone`). `DueOf`: the reason to complete the study holds from
the check until the status is set, since a completed response stays completed and a started one
stays started (`DueKept`). `FrameBy`, `OthersKeep` and `StepOf` say once what one worker's step
cannot change for the others; `QuietStep` and `CommitStep` are the steps that leave the
tables alone and those that publish.

**JobLifecycleProofs** proves, for any jobs of any kinds, any designs with a task for the
first respondent, any number of deliveries and faults (`DesignsAssumption`,
`BoundsAssumption`, `NoneAssumption`):

- `TypeCorrect`, from `TypeInv`;
- `TableIsWhole` (`[]TasksOfOneGeneration`), from `SaveInv`: the rows a `DELETE` has seen are
  those of one whole generation, or none. A save that has passed its `INSERT` found the
  first key free, which every generation holds; so its `DELETE` took that row, hence all
  rows of that generation, and nobody else can have committed since. `CalmStep` is the
  case of all actions that do not touch the table;
- `CompletedIsSaved` (`[]CompletedMeansSaved`), from `DoneInv`: whoever is at the places after
  the save has committed it;
- `RegisterImplemented` (`ImplementsRegister`): each step is a write, a report, a withdrawal
  or a stutter of `TaskRegister` under the mapping that reads the table as the execution
  whose rows it holds;
- `CompletedIsFinal` (`CompletionIsFinal`), from `OnceInv` (without a fault a job has one
  execution) and `OverInv` (that execution has nothing left to write).

**ScreeningQuotaProofs** proves, for any respondents, options, limits, answers and workers
(`QuotaAssumption`):

- `TypeCorrect`, `SeatsHeld` (`[]SeatsAreHeld`), `NotOverfull` (`NeverOverfull`),
  `AnswersKept` (`SeatKeepsAnswer`) and `NoDeadlockOfContinues` (`[]ContinuesDoNotDeadlock`).

`Inv` says what each kind of request may rely on while others run. `LockInv`: no two
transactions hold a row, and a locked option has a limit. `RespondentOf`: a Continue that
asks for seats holds its response, which is neither removed nor reserved, and has locked
only options below those it still asks for. `AbsorbOf`: the responses it has locked are
unreserved, its seats are on rows it holds, and fit their limits. `SyncOf`: seats of an
edit are on options that had no row, of responses it marks. `SaveOf`: the answers to be
saved are to other questions than the seats the respondent had when the request began.
`FrameBy` is what a step of one worker leaves alone, so that the parts of all others are kept
by one argument (`OthersKeep`), and each action has a lemma for its own part (`OwnPart`).
Seats are counted once since a respondent with a seat is reserved, and who takes one is not.
A circle of Continues would have one that waits for the highest option any of them asks
for, held by one that asks for a higher one (`MaxExists`).

**StudyEditingProofs** proves, for any workers, keys, constraints, sets of them
to begin with and bounds (`BoundAssumption`, `CreatedAssumption`), all five properties of the run `editing`: `TypeCorrect`,
`WholeDesigns` (`TakesWholeDesigns`, over steps), `WholeReplacements` (`ReplacementsAreWhole`),
`OnlyMembersLoseUpdates` (`OnlyMembersActOnStaleRows`) and `DeadlocksHaveAMember`
(`[]DeadlocksNeedAMember`).

`LockInv` says that the locks on the row of the study do not conflict, `LockOf` who holds
which lock at which place. `UnlockedCommit`: beside a holder of `FOR UPDATE` only an edit
commits that is a member's and empties the design, so what the holder has read stays true,
or loses rows (`HoldOf`, `LastQuery`, `OnlyEmptied`). A member's edit and a copy do without
the lock. `TargetOf`: of the rows a DELETE has seen those that are still there are deleted
by it, or lose their elements, since each commit brings new rows (`FreshFacts`) or none.
`CopyOf`: what a copy has read of the categories is all there is, or none of it has
elements any more, or there are elements of a later edit, which the copy stumbles over.
That an edit which empties the design keeps this needs `Ordered`: of a DELETE and a copy, one
has seen what is left of the rows of the other. In a circle without members that have
touched rows, the creator's requests hold `FOR UPDATE` and wait for nothing, and the others
wait for one lock whose holder waits for nothing either.

**JobUpdatesProofs** proves, for any `Sockets` and any `MaxProgress` (`MaxProgressAssumption`),
`TypeCorrect`, `EndHeard` (`[]EndIsHeard`) and `DismissalStays` (`DismissalIsPermanent`).
`EndIsHeard` is the safety under `SubscribedStreamsClose`: once the end of a job is published,
each stream that was subscribed before is closed, or has the end in its channel. `HeardBy`
makes it inductive (a subscribed stream is never unsubscribed before it closes), and
`AppendKeepsEnd` and `TailKeepsEnd` say that later messages and the delivery of earlier ones
keep the end in the channel. That the stream then closes is liveness, which TLC checks.

**MembershipProofs** proves, for any people, studies, workers and number of requests
(`OwnerAssumption`, `StudiesAssumption`, `BoundAssumption`), all five properties of the run
`membership`: `TypeCorrect`, `StudiesFollow` (`[]StudiesFollowProject`), `InvitationsLinked`
(`[]InvitationsAreLinked`), `RolesAlwaysAgree` (`[]RolesAgree`) and `RemovalDoesNotGrant`
(`RemovalNeverGrants`).

A request changes only pairs of study and person that it touches, and a pair that two
requests touch at once is in `raced` when the first of them ends. So on a pair that has
not raced, what a request has read is still true as long as nobody else touches the pair
(`Sole`): `ReadsOf` says what that is for each kind of request (an invitation: the person
is not in the project, and all studies of the project will have them; a removal: the
studies of the project are those it has read; a creation: no copy is there yet).
`PairInv` says what holds of the pairs themselves; those of a study that is moved are in `own`
or `raced`. `Waits` says, apart from this, that rows of addresses without an account to come
are not linked, nor about to be. `Frame` shows once that a step keeps
all this for the other requests and for the pairs it leaves alone; `BeginFrame`, `ReadsOn` and
`EndStep` reduce each action to its own pairs. Not all of it is needed for
`RolesAlwaysAgree`, which follows from the types: the two computations agree on every state.

**RankDesignsProofs** proves, for any studies that satisfy `IsStudy` and any
`MaxSelections` (`RankAssumption`), all three properties of the run `rank_designs`:
`TypeCorrect`, `DesignsValid` (`[]DesignsAreValid`, with the code's size of a design) and
`RankingExact` (`[]RankingIsExact`).

For `DesignsValid`, `GoodPaths` says that
every prefix of the path is an admissible beginning: picks in order, of categories not
forced, without conflicts; `StackInv` ties the stack of tried options to it, so that the
return from a call leaves a good path. A complete good path is a valid design, for
layers (`LayersAreValid`) and for others (`OthersAreValid`).

`RankingExact` needs that nothing is lost on the way, `Coverage`: each valid design within
reach (`Targets`) is settled, that is in the heap or beaten by a full heap of designs at
least as good, or it is still ahead: some open loop, or the call just entered, follows
picks that belong to it and has not yet tried the pick that comes next. Each action keeps
this for its own reason.

- `Tries` moves a design from the loop to the call it enters; an option that is passed over
  conflicts with a pick, and no valid design takes it. That there is a next pick among the
  options is `NextExists` and `NextIsOption`: the next layer, or the category that ranks first
  among those of the design not yet picked (`FirstExists`).
- `Completed` pushes the only design that its path leads to (`CompleteIs`), and `PushSettles`
  says that a push settles it and leaves settled what was: the heap only gets better. This
  holds of a design that was thrown out earlier as well, which is why `_push_design` may
  ignore it when it comes up again.
- `Pruned` gives up all designs ahead of the call. `BoundHolds` says that `Optimistic` is at
  least the score of each of them: the rest of such a design is at most one element of
  every later layer, each no better than `Best`. So all of them are beaten (`PrunedIsBeaten`).
- `Exhausted` leaves a loop with no pick to try, so nothing was ahead of it.

At the end no loop is open (`DoneInv`), so all designs within reach are settled, which is
`RankingIsExact`: either all of them are in the heap, or the heap is full.

Scores are folds over finite sets and the worst design is a `CHOOSE`, so their properties are
inductions. The induction theorems of the library that take a predicate cannot be used,
but `FS_StrictSubsetOrderingWellFounded` and `WFMin` are about sets: `FiniteInduction` derives
from them an induction in which a set of subsets takes the place of the predicate. From
it follow `FirstExists` (a finite set has a first element in an order), `ScoreIsTotal` with
`TotalRemoves` (a score is the score of the rest plus the element's), `BestSum`, `MaxGainIs` and
`WorstIs`, with `EarlierIsOrder` for designs of the same score.

Only model-checked: all liveness (`EveryRequestEnds`, `SessionsEnd`, `JobsEnd`,
`SubscribedStreamsClose`, `ListCatchesUp`), which TLAPS does not reach. Every invariant and
every action property of a passing run is a theorem.

## Not modelled

Contents of task rows, timings, ratings, analytics and the counters on the study row (no
decision reads them); validation of requests; caches other than that of the notifications.
`ResponseSession` and `ScreeningQuota` leave respondent numbers and removal to
`RespondentSlots`; the effect of a removed session on the counts of the completion check
is therefore not checked, nor is a start beyond the generated pool. Two edits at once of
the limits of a study are not modelled in `ScreeningQuota`, which `StudyEditing` shows to be
possible for members only. `StudyEditing` leaves out creation, reads, edits of elements
without their categories (but for those that clear them), the list of constraints that
`update_study` replaces as a whole, and two functions that nothing calls. `JobUpdates` leaves out the
server-sent events, which poll the row of the job, the notifier of a deployment without
Redis, and the read flag. `Membership` leaves out moves from one project to
another and the deletion of projects and studies. The
numerical task design is a randomised search whose result is judged statistically, and
analysis, reports and the assistant are pure computation, layout, or calls of a language
model; they are by far the largest part of the code, and have no interleavings to check.
See the notes in `PROJECT.json`.

## Plan

Done: the modules above. Left, in order of importance:

1. The encoding of uploaded videos (`video_encode_service`, `tasks/video_encode`, the video
   endpoints of `uploads`): an upload registered again while its encoding runs, a redelivered
   encoding, the failure to enqueue, and the swap of the URL in elements and task rows
   beside an edit of the study or a save of its tasks that has read the old one.
2. The assignment of synthetic panelists within option limits, checked against a maximal
   assignment over small instances.
3. The server-sent events of a job beside its WebSocket stream.
