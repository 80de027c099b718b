----------------------------- MODULE JobUpdates -----------------------------
(***************************************************************************)
(* How the users learn what becomes of one background job: its execution   *)
(* commits a status and publishes it, WebSocket streams check the job and  *)
(* subscribe to its channel, and a persisted notification is written by    *)
(* the publisher, backfilled by readers, listed through a cache and        *)
(* dismissed by the user.                                                  *)
(*                                                                         *)
(* The user is the owner of the job.  Other users of the study backfill    *)
(* their lists too, and the owner's backfill takes in jobs of others: it   *)
(* looks for the rows of its user and inserts under the owner of each job. *)
(*                                                                         *)
(* Redis is configured.  The execution is that of JobLifecycle with only   *)
(* the steps that others can see; the read flag of a notification is left  *)
(* out.                                                                    *)
(***************************************************************************)
EXTENDS Integers, Sequences, SequencesExt

CONSTANTS
    Sockets,     \* the WebSocket streams on the job
    MaxProgress  \* bound: progress updates before the end of the job

ASSUME MaxProgressAssumption == MaxProgress \in Nat

VARIABLES
    notifyFirst,  \* the execution publishes its end before it commits it
    job,          \* status of the job
    pub,          \* the execution: place, update in hand, what it has read
    told,         \* how its end was announced: no, published, lost, never
    socket,       \* the streams: place, messages in their channel
    subscribedBefore, \* history: streams subscribed before the end was announced
    note,         \* the notification row
    fill,         \* the thread that backfills notifications
    gate,         \* the backfill has run recently
    cache,        \* the cached list
    look          \* the request that lists the notifications

jobVars == <<notifyFirst, job, pub, told>>
streamVars == <<socket, subscribedBefore>>
noteVars == <<note, fill, gate, cache, look>>
vars == <<jobVars, streamVars, noteVars>>

Ended == {"completed", "failed", "cancelled"}
Statuses == {"processing"} \cup Ended
\* What is published: a progress, or the end of the job.
Final == {"completed", "failed"}
Updates == {"progress"} \cup Final
\* What a notification shows, "none" if there is no row or it is not listed.
Shown == Statuses \cup {"none"}
NotCached == "nothing"

NoFill == [place |-> "idle", job |-> "processing", row |-> "none", batch |-> "own"]

Init ==
    /\ notifyFirst \in BOOLEAN
    /\ job = "processing"
    /\ pub = [place |-> "work", update |-> "progress", left |-> MaxProgress,
              job |-> "processing", row |-> "none"]
    /\ told = "no"
    /\ socket = [s \in Sockets |-> [place |-> "new", inbox |-> <<>>]]
    /\ subscribedBefore = {}
    \* The row that create_job tries to write may be missing.
    /\ note \in [status : {"none", "processing"}, dismissed : {FALSE}]
    /\ fill = NoFill
    /\ gate = FALSE
    /\ cache = NotCached
    /\ look = [place |-> "idle", list |-> "none"]

-----------------------------------------------------------------------------
(* The execution *)

IsFinal == pub.update \in Final

\* The simulation in the web process notifies before it commits its end; all
\* other executions commit first.
PublishesFirst(u) == u \in Final /\ notifyFirst

\* The mutation of a counter that is compared too late.
OneProgressMore == pub.left >= 0
ProgressLeft == pub.left > 0

\* A progress callback, or the end of the work.
NextUpdate ==
    /\ pub.place = "work"
    /\ \E u \in Updates :
        /\ u = "progress" => ProgressLeft
        /\ pub' = [pub EXCEPT !.update = u,
                              !.left = IF u = "progress" THEN @ - 1 ELSE @,
                              !.place = IF PublishesFirst(u) THEN "publish" ELSE "commit"]
    /\ UNCHANGED <<notifyFirst, job, told, streamVars, noteVars>>

\* The row is written without a look at its status.
CommitUpdate ==
    /\ pub.place = "commit"
    /\ job' = IF IsFinal THEN pub.update ELSE job
    /\ pub' = [pub EXCEPT !.place = IF PublishesFirst(pub.update) THEN "done" ELSE "publish"]
    /\ UNCHANGED <<notifyFirst, told, streamVars, noteVars>>

\* A message reaches the streams that are subscribed at that moment, or, if
\* Redis fails, nobody.
Delivered(s) == socket[s].place = "subscribed"

Publish ==
    /\ pub.place = "publish"
    /\ \/ /\ socket' = [s \in Sockets |->
                IF Delivered(s) THEN [socket[s] EXCEPT !.inbox = Append(@, pub.update)]
                                ELSE socket[s]]
          /\ told' = IF IsFinal THEN "published" ELSE told
       \/ /\ UNCHANGED socket
          /\ told' = IF IsFinal THEN "lost" ELSE told
    /\ pub' = [pub EXCEPT !.place = "user"]
    /\ UNCHANGED <<notifyFirst, job, subscribedBefore, noteVars>>

AfterUpdate ==
    IF ~IsFinal THEN "work" ELSE IF PublishesFirst(pub.update) THEN "commit" ELSE "done"

\* _publish_user_update reads the job, and skips a dismissed notification.
PublishUser ==
    /\ pub.place = "user"
    /\ pub' = IF note.dismissed THEN [pub EXCEPT !.place = AfterUpdate]
            ELSE [pub EXCEPT !.place = "upsert", !.job = job]
    /\ UNCHANGED <<notifyFirst, job, told, streamVars, noteVars>>

ReadRow ==
    /\ pub.place = "upsert"
    /\ pub' = [pub EXCEPT !.row = note.status, !.place = "write"]
    /\ UNCHANGED <<notifyFirst, job, told, streamVars, noteVars>>

-----------------------------------------------------------------------------
(* upsert_user_job_notification *)

\* The mutation of an upsert that shows the end of a job again.
UpsertedAgain(seen, status) ==
    IF seen = "none" /\ note.status # "none" THEN note
    ELSE [note EXCEPT !.status = IF status = seen THEN @ ELSE status,
                      !.dismissed = IF status \in Ended /\ seen \notin Ended THEN FALSE ELSE @]

\* The row after an upsert that has seen a status of the notification and one
\* of the job.  A missing row is inserted, which the unique constraint refuses
\* if there is one by now; an UPDATE sends the status if it differs from the
\* one that was seen.
Refused(seen) == seen = "none" /\ note.status # "none"
Upserted(seen, status) ==
    IF Refused(seen) THEN note
    ELSE [note EXCEPT !.status = IF status = seen THEN @ ELSE status]

WriteRow ==
    /\ pub.place = "write"
    /\ note' = Upserted(pub.row, pub.job)
    /\ cache' = IF Refused(pub.row) THEN cache ELSE NotCached
    /\ pub' = [pub EXCEPT !.place = AfterUpdate, !.row = "none", !.job = "processing"]
    /\ UNCHANGED <<notifyFirst, job, told, streamVars, fill, gate, look>>

\* The process of the execution dies: the job is never ended or announced.
ExecutionDies ==
    /\ pub.place # "done"
    /\ pub' = [pub EXCEPT !.place = "done"]
    /\ told' = IF told = "no" THEN "never" ELSE told
    /\ UNCHANGED <<notifyFirst, job, streamVars, noteVars>>

\* cancel_job commits CANCELLED and tells nobody.  It may stop the work.
CancelJob ==
    /\ job = "processing"
    /\ job' = "cancelled"
    /\ \/ UNCHANGED <<pub, told>>
       \/ /\ pub.place = "work"
          /\ pub' = [pub EXCEPT !.place = "done"]
          /\ told' = "never"
    /\ UNCHANGED <<notifyFirst, streamVars, noteVars>>

-----------------------------------------------------------------------------
(* Streams *)

Closed(s) == socket[s].place = "closed"
Close(s) == socket' = [socket EXCEPT ![s].place = "closed", ![s].inbox = <<>>]

\* The stream reads the job when it connects, and a second time before it
\* subscribes: it answers with the end of the job if there is one, a
\* cancellation being sent as a failure.
Connect(s) ==
    /\ socket[s].place = "new"
    /\ IF job \in Ended
         THEN Close(s)
         ELSE socket' = [socket EXCEPT ![s].place = "checked"]
    /\ UNCHANGED <<jobVars, subscribedBefore, noteVars>>

Recheck(s) ==
    /\ socket[s].place = "checked"
    /\ IF job \in Ended
         THEN Close(s)
         ELSE socket' = [socket EXCEPT ![s].place = "accepted"]
    /\ UNCHANGED <<jobVars, subscribedBefore, noteVars>>

Subscribe(s) ==
    /\ socket[s].place = "accepted"
    /\ socket' = [socket EXCEPT ![s].place = "subscribed"]
    /\ subscribedBefore' = IF told = "no" THEN subscribedBefore \cup {s} ELSE subscribedBefore
    /\ UNCHANGED <<jobVars, noteVars>>

\* The mutation of a loop that waits for completed only.
EndsOnSuccess(u) == u = "completed"
EndsStream(u) == u \in Final

Receive(s) ==
    /\ socket[s].place = "subscribed"
    /\ socket[s].inbox # <<>>
    /\ IF EndsStream(Head(socket[s].inbox))
         THEN Close(s)
         ELSE socket' = [socket EXCEPT ![s].inbox = Tail(@)]
    /\ UNCHANGED <<jobVars, subscribedBefore, noteVars>>

\* The client leaves, the subscription fails, or an update arrives when the
\* stream has been open for too long.
StreamBreaks(s) ==
    /\ socket[s].place = "subscribed"
    /\ Close(s)
    /\ UNCHANGED <<jobVars, subscribedBefore, noteVars>>

-----------------------------------------------------------------------------
(* Notifications *)

\* Dismissal keeps the row; without one there is nothing to dismiss.
Dismiss ==
    /\ note.status # "none" /\ ~note.dismissed
    /\ note' = [note EXCEPT !.dismissed = TRUE]
    /\ cache' = NotCached
    /\ UNCHANGED <<jobVars, streamVars, fill, gate, look>>

\* A list that is not cached is read from the rows, and starts a backfill
\* unless one was started recently.
Listed == IF note.dismissed THEN "none" ELSE note.status

LookRows ==
    /\ look.place = "idle"
    /\ cache = NotCached
    /\ look' = [place |-> "read", list |-> Listed]
    /\ IF gate \/ fill.place # "idle"
         THEN UNCHANGED <<gate, fill>>
         ELSE gate' = TRUE /\ fill' = [fill EXCEPT !.place = "jobs"]
    /\ UNCHANGED <<jobVars, streamVars, note, cache>>

\* What was read is cached, even if a writer has invalidated the cache since.
LookFills ==
    /\ look.place = "read"
    /\ cache' = look.list
    /\ look' = [place |-> "idle", list |-> "none"]
    /\ UNCHANGED <<jobVars, streamVars, note, fill, gate>>

CacheExpires ==
    /\ cache # NotCached
    /\ cache' = NotCached
    /\ UNCHANGED <<jobVars, streamVars, note, fill, gate, look>>

GateExpires ==
    /\ gate
    /\ gate' = FALSE
    /\ UNCHANGED <<jobVars, streamVars, note, fill, cache, look>>

\* The backfill reads what is dismissed and the fifty newest jobs of the user
\* and of the studies the user owns or is a member of, then the rows of the
\* user, and writes the batch in one transaction.  The dismissed are skipped.
\* For a job of another user it finds no row and inserts one, under the owner:
\* where the owner has one by then, the unique constraint refuses it and the
\* batch is rolled back.
Reads(batch) ==
    fill' = IF batch = "own" THEN [fill EXCEPT !.place = "rows", !.job = job]
                             ELSE [fill EXCEPT !.place = "write", !.batch = batch]

FillJobs ==
    /\ fill.place = "jobs"
    /\ \/ Reads(IF note.dismissed THEN "skipped" ELSE "own")
       \/ Reads("foreign")
    /\ UNCHANGED <<jobVars, streamVars, note, gate, cache, look>>

FillRows ==
    /\ fill.place = "rows"
    /\ fill' = IF note.dismissed
                 THEN [NoFill EXCEPT !.place = "write", !.batch = "skipped"]
                 ELSE [fill EXCEPT !.place = "write", !.row = note.status]
    /\ UNCHANGED <<jobVars, streamVars, note, gate, cache, look>>

\* The mutation of a backfill that only adds missing rows.
FilledIfMissing == IF fill.row = "none" THEN Upserted(fill.row, fill.job) ELSE note
FillResult == Upserted(fill.row, fill.job)

FillRefused == fill.batch = "foreign" \/ (fill.batch = "own" /\ Refused(fill.row))

FillWrite ==
    /\ fill.place = "write"
    /\ IF FillRefused
         THEN UNCHANGED <<note, cache>>
         ELSE /\ note' = IF fill.batch = "own" THEN FillResult ELSE note
              /\ cache' = NotCached
    /\ fill' = NoFill
    /\ UNCHANGED <<jobVars, streamVars, gate, look>>

\* The backfill of another user of the study takes this job in: it inserts
\* the owner's row if there is none, with the status that it has read, and
\* leaves the owner's cache.  (That it reads a cancellation which the end of
\* the job then overwrites is left out.)
GuestInserts ==
    /\ note.status = "none"
    /\ \E seen \in {"processing", job} : note' = Upserted("none", seen)
    /\ UNCHANGED <<jobVars, streamVars, fill, gate, cache, look>>

-----------------------------------------------------------------------------
(* Specification *)

ExecutionStep == NextUpdate \/ CommitUpdate \/ Publish \/ PublishUser \/ ReadRow \/ WriteRow
SocketStep(s) == Connect(s) \/ Recheck(s) \/ Subscribe(s) \/ Receive(s)
LookStep == LookRows \/ LookFills
FillStep == FillJobs \/ FillRows \/ FillWrite

Next ==
    \/ ExecutionStep \/ ExecutionDies \/ CancelJob
    \/ \E s \in Sockets : SocketStep(s) \/ StreamBreaks(s)
    \/ Dismiss
    \/ LookStep \/ FillStep \/ CacheExpires \/ GateExpires
    \/ GuestInserts

\* The server goes on with what it has begun; keys expire; the user keeps
\* the page open, which lists the notifications again and again.
Fairness ==
    /\ WF_vars(ExecutionStep)
    /\ \A s \in Sockets : WF_vars(SocketStep(s))
    /\ WF_vars(LookStep) /\ WF_vars(FillStep)
    /\ WF_vars(CacheExpires) /\ WF_vars(GateExpires)

Spec == Init /\ [][Next]_vars /\ Fairness

-----------------------------------------------------------------------------
(* Properties *)

\* Every variable has its type.
TypeOK ==
    /\ notifyFirst \in BOOLEAN
    /\ job \in Statuses
    /\ pub \in [place : {"work", "commit", "publish", "user", "upsert", "write", "done"},
                update : Updates, left : 0 .. MaxProgress, job : Statuses, row : Shown]
    /\ told \in {"no", "published", "lost", "never"}
    /\ \A s \in Sockets :
        /\ socket[s].place \in {"new", "checked", "accepted", "subscribed", "closed"}
        /\ ToSet(socket[s].inbox) \subseteq Updates
    /\ subscribedBefore \subseteq Sockets
    /\ note \in [status : Shown, dismissed : BOOLEAN]
    /\ fill \in [place : {"idle", "jobs", "rows", "write"}, job : Statuses, row : Shown,
                 batch : {"own", "skipped", "foreign"}]
    /\ gate \in BOOLEAN
    /\ cache \in Shown \cup {NotCached}
    /\ look \in [place : {"idle", "read"}, list : Shown]

\* A stream that was subscribed before the end of the job was announced
\* closes, unless the announcement is lost with Redis or with the execution.
\* Between the second check and the subscription an announcement passes
\* unheard: then only the client can close the stream.
SubscribedStreamsClose ==
    \A s \in Sockets : s \in subscribedBefore ~> Closed(s) \/ told \in {"lost", "never"}

\* A dismissed notification stays dismissed ("Permanently dismiss a job
\* notification"), whatever upserts and backfills have read before.
DismissalIsPermanent == [][note.dismissed => note'.dismissed]_vars

\* The list shows in the end what became of the job, also when it was
\* cancelled or its last update was not delivered, and shows a dismissed
\* notification no more: the backfill repairs what publishers lose.  It does
\* only if from some time on no batch holds a job of another user whose owner
\* has a row: with one in it no batch is written, however often it is tried,
\* and the list stays as it is.
Served == IF cache = NotCached THEN Listed ELSE cache
ListCatchesUp ==
    <>[](fill.batch # "foreign")
        => <>[](Served = IF note.dismissed THEN "none" ELSE job)
=============================================================================
