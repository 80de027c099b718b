---------------------------- MODULE StudyEditing ----------------------------
(***************************************************************************)
(* Requests that edit one study at once: replacements of its design (the   *)
(* categories with their elements, or the layers with their images, each   *)
(* modelled as one row), launches and other changes of status, the design  *)
(* constraints, deletion, regeneration of tasks, and copies.               *)
(*                                                                         *)
(* PostgreSQL under READ COMMITTED.  Requests of the creator load the      *)
(* study FOR UPDATE, and those of a member without a lock.  A row of the   *)
(* design refers to the study, so that its INSERT takes FOR KEY SHARE on   *)
(* it.  What a request has written stays in req[w] until its commit, and   *)
(* an error, a crash or the choice as a deadlock victim forgets it.        *)
(*                                                                         *)
(* Whether a member may edit is the matter of Membership, the rows of      *)
(* tasks that of JobLifecycle.  Categories are given with an element each, *)
(* and elements without categories only to clear them.                     *)
(***************************************************************************)
EXTENDS Integers, FiniteSets

CONSTANTS
    Workers,      \* the requests that run at once
    Keys,         \* category_id, or layer_id
    Constraints,  \* ids of design constraints
    Created,      \* sets of them that a study may be created with
    MaxRequests,  \* bound: requests
    MaxVersion    \* bound: versions of the design that exist at once

ASSUME BoundAssumption == MaxRequests \in Nat /\ MaxVersion \in Nat \ {0}
ASSUME CreatedAssumption == Created \subseteq SUBSET Constraints

VARIABLES
    layered,  \* is study_type "layer"?
    study,    \* the row of the study
    rows,     \* the rows of the design: key -> version, 0 if there is none
    bare,     \* the rows, categories, that have lost their elements
    req,      \* what each worker is doing
    requests  \* number of requests so far

design == <<rows, bare>>
vars == <<layered, study, design, req, requests>>

Statuses == {"draft", "active", "paused"}
Versions == 1 .. MaxVersion
Rows == Keys \X Versions

\* The rows that a statement sees when it begins.
Committed == {<<k, rows[k]>> : k \in {l \in Keys : rows[l] # 0}}
Whole == Committed \ bare

-----------------------------------------------------------------------------
(* Requests *)

NoStatus == "as it is"
Ask(kinds, designs, tos, cons) ==
    [kind : kinds, creator : BOOLEAN, keys : designs, to : tos, con : cons]

\* The empty one clears: "study_layers": [] the layers, and "elements": []
\* without categories the elements.
Designs == SUBSET Keys
Each == {{c} : c \in Constraints}

\* update_study, alone or as the first part of an update and launch;
\* change_status; a launch without other fields.
Asks ==
    Ask({"replace"}, Designs, {NoStatus, "active"}, {{}})
    \cup Ask({"replace and launch"}, Designs, {NoStatus}, {{}})
    \cup Ask({"status"}, {{}}, {"active", "paused"}, {{}})
    \cup Ask({"upsert", "drop"}, {{}}, {NoStatus}, Each)
    \cup Ask({"launch", "delete", "regenerate", "copy"}, {{}}, {NoStatus}, {{}})

Replaces(a) == a.kind \in {"replace", "replace and launch"}

\* Strength of a lock on the row of the study; two locks of different
\* requests conflict when their sum exceeds that of one FOR UPDATE.
None == 0
KeyShare == 1
NoKeyUpdate == 2
ForUpdate == 3
Conflict(m, n) == m + n > ForUpdate

NoStudy == [status |-> "draft", launched |-> FALSE, gone |-> TRUE, cons |-> {}]
NoRequest == [pc |-> "idle", ask |-> [kind |-> "none"], seen |-> NoStudy, lock |-> None,
              target |-> {}, del |-> {}, bared |-> {}, used |-> {}, kids |-> {}]

Init ==
    /\ layered \in BOOLEAN
    /\ study \in [status : Statuses, launched : BOOLEAN, gone : {FALSE}, cons : Created]
    /\ study.launched <=> study.status # "draft"
    /\ rows \in {[k \in Keys |-> 0], [k \in Keys |-> 1]}
    /\ bare = {}
    /\ req = [w \in Workers |-> NoRequest]
    /\ requests = 0

End(w) == req' = [req EXCEPT ![w] = NoRequest]
Goto(w, pc) == req' = [req EXCEPT ![w].pc = pc]

-----------------------------------------------------------------------------
(* Waiting *)

\* The mutation of a DELETE that follows the rows of later commits.
Overtakes(w) == Committed

\* Does the edit delete elements only, and keep their categories?
ClearsElements(w) == ~layered /\ Replaces(req[w].ask) /\ req[w].ask.keys = {}

\* A DELETE skips rows that have meanwhile been deleted by a commit.
Deletable(w) == req[w].target \cap (IF ClearsElements(w) THEN Whole ELSE Committed)

\* Rows inserted and not yet committed.
Inserts(w) == IF req[w].pc \in {"reference", "elements", "commit"} THEN req[w].ask.keys ELSE {}
KeysOf(versions) == {v[1] : v \in versions}

\* The rows, or their elements, that the next statement of w deletes.
DeletesNow(w) ==
    CASE req[w].pc = "deleting" -> Deletable(w)
      [] req[w].pc = "elements" -> Whole \ req[w].del
      [] req[w].pc = "remove" -> Committed
      [] OTHER -> {}

\* The lock on the study that the next statement of w takes.  Whoever holds
\* a stronger one already does not wait.
Wants(w) ==
    CASE req[w].pc \in {"flush", "write"} -> NoKeyUpdate
      [] req[w].pc = "reference" -> KeyShare
      [] req[w].pc = "remove" -> ForUpdate
      [] OTHER -> None

Waits(w, v) ==
    /\ v # w
    /\ \/ Wants(w) # None /\ Conflict(Wants(w), req[v].lock)
       \/ DeletesNow(w) \cap (req[v].del \cup req[v].bared) # {}
       \/ /\ req[w].pc = "insert"
          /\ req[w].ask.keys \cap (Inserts(v) \cup KeysOf(req[v].del)) # {}

At(w, pc) == req[w].pc = pc /\ \A v \in Workers : ~Waits(w, v)
Locked(w, lock) == IF lock > req[w].lock THEN lock ELSE req[w].lock

-----------------------------------------------------------------------------
(* Loading *)

\* The mutation of a query without with_for_update.
NeverLocks(a) == FALSE

\* The second query, which finds the study for a member, has no
\* with_for_update, except in regenerate_tasks.
LoadsForUpdate(a) ==
    \/ a.kind = "regenerate"
    \/ a.creator /\ a.kind # "copy"

\* 404 and 400: such requests change nothing.  The mutation of a deletion
\* that does not look at the status.
RefusedWhenGone(a) == study.gone
Refused(a) ==
    \/ study.gone
    \/ a.kind = "delete" /\ study.status = "active"
    \/ a.kind = "drop" /\ ~ a.con \subseteq study.cons

FirstStep(a) ==
    CASE Replaces(a) \/ a.kind = "delete" -> "delete"
      [] a.kind = "regenerate" -> "read"
      [] a.kind = "copy" -> "parents"
      [] OTHER -> "write"

\* The other requests do not come back to the loaded columns.
UsesRow(a) == FirstStep(a) = "write" \/ a.to # NoStatus

Load(w, a) ==
    /\ ~Refused(a)
    /\ LoadsForUpdate(a) => \A v \in Workers \ {w} : ~Conflict(ForUpdate, req[v].lock)
    /\ req' = [req EXCEPT ![w] =
                 [NoRequest EXCEPT !.pc = FirstStep(a), !.ask = a,
                                   !.seen = IF UsesRow(a) THEN study ELSE NoStudy,
                                   !.lock = IF LoadsForUpdate(a) THEN ForUpdate ELSE None]]
    /\ UNCHANGED <<layered, study, design>>

Begin(w) ==
    /\ req[w].pc = "idle"
    /\ requests < MaxRequests
    /\ requests' = requests + 1
    /\ \E a \in Asks : Load(w, a)

-----------------------------------------------------------------------------
(* Columns of the study *)

\* An UPDATE sends only what differs from the loaded value.
Assigned(seen, new, current) == IF new # seen THEN new ELSE current

\* launched_at is set by the first launch.
WithStatus(s, seen, to) ==
    IF to = NoStatus THEN s
    ELSE [s EXCEPT !.status = Assigned(seen.status, to, @),
                   !.launched = Assigned(seen.launched, seen.launched \/ to = "active", @)]

\* The list of constraints is one column, built from the loaded one.
WithConstraints(s, seen, cons) == [s EXCEPT !.cons = Assigned(seen.cons, cons, @)]

Upserted(s, seen, con) == WithConstraints(s, seen, seen.cons \cup con)
Dropped(s, seen, con) == WithConstraints(s, seen, seen.cons \ con)

Written(w) ==
    LET a == req[w].ask
        seen == req[w].seen
    IN CASE a.kind = "status" -> WithStatus(study, seen, a.to)
         [] a.kind = "launch" -> [study EXCEPT !.status = "active", !.launched = TRUE]
         [] a.kind = "upsert" -> Upserted(study, seen, a.con)
         [] a.kind = "drop" -> Dropped(study, seen, a.con)

\* The UPDATE and the commit.  Of a deleted study there is no row to update.
Write(w) ==
    /\ At(w, "write")
    /\ study' = IF study.gone THEN study ELSE Written(w)
    /\ End(w)
    /\ UNCHANGED <<layered, design, requests>>

-----------------------------------------------------------------------------
(* Replacing the design *)

DeleteSnapshot(w) ==
    /\ At(w, "delete")
    /\ req' = [req EXCEPT ![w].pc = "deleting", ![w].target = Committed]
    /\ UNCHANGED <<layered, study, design, requests>>

\* The first flush after the DELETE sends the new status.
FlushesStatus(w) == WithStatus(req[w].seen, req[w].seen, req[w].ask.to) # req[w].seen

\* Without rows to insert, nothing else asks for a lock on the study.
AfterFlush(w) == IF req[w].ask.keys = {} THEN "commit" ELSE "insert"

AfterDelete(w) ==
    IF req[w].ask.kind = "delete" THEN "remove"
    ELSE IF FlushesStatus(w) THEN "flush" ELSE AfterFlush(w)

DeleteRows(w) ==
    /\ At(w, "deleting")
    /\ req' = [req EXCEPT ![w].pc = AfterDelete(w),
                          ![w].del = IF ClearsElements(w) THEN {} ELSE Deletable(w),
                          ![w].bared = IF ClearsElements(w) THEN Deletable(w) ELSE {}]
    /\ UNCHANGED <<layered, study, design, requests>>

FlushStatus(w) ==
    /\ At(w, "flush")
    /\ IF study.gone
         THEN End(w)
         ELSE req' = [req EXCEPT ![w].pc = AfterFlush(w), ![w].lock = Locked(w, NoKeyUpdate)]
    /\ UNCHANGED <<layered, study, design, requests>>

\* uq_study_categories_category_id, or the one of layers.
Duplicate(w) == \E v \in Committed \ req[w].del : v[1] \in req[w].ask.keys

InsertRows(w) ==
    /\ At(w, "insert")
    /\ IF Duplicate(w) THEN End(w) ELSE Goto(w, "reference")
    /\ UNCHANGED <<layered, study, design, requests>>

\* The foreign key to the study.
CheckReference(w) ==
    /\ At(w, "reference")
    /\ IF study.gone
         THEN End(w)
         ELSE req' = [req EXCEPT ![w].pc = IF layered THEN "commit" ELSE "elements",
                                 ![w].lock = Locked(w, KeyShare)]
    /\ UNCHANGED <<layered, study, design, requests>>

\* The DELETE of the elements of the study comes after the categories, and
\* takes those of an edit that was committed meanwhile.
DeleteElements(w) ==
    /\ At(w, "elements")
    /\ req' = [req EXCEPT ![w].pc = "commit", ![w].bared = DeletesNow(w)]
    /\ UNCHANGED <<layered, study, design, requests>>

Remembered(w) == req[w].target \cup req[w].bared \cup req[w].used \cup req[w].kids
InUse == {rows[k] : k \in Keys}
         \cup {v[2] : v \in bare \cup UNION {Remembered(w) : w \in Workers}}
Fresh(g) == g \notin InUse /\ \A h \in Versions : h < g => h \in InUse

\* The rows of the design when w commits as version g.
Replaced(w, g) ==
    [k \in Keys |-> IF k \in req[w].ask.keys THEN g
                    ELSE IF <<k, rows[k]>> \in req[w].del THEN 0 ELSE rows[k]]

StillUsed(versions) ==
    versions \cap ({<<k, rows'[k]>> : k \in Keys} \cup UNION {req[v].used : v \in Workers})

\* Update and launch continues with change_status_fast, in a transaction of
\* its own.
CommitDesign(w) ==
    /\ At(w, "commit")
    /\ \E g \in Versions : Fresh(g) /\ rows' = Replaced(w, g)
    /\ bare' = StillUsed(bare \cup req[w].bared)
    /\ study' = WithStatus(study, req[w].seen, req[w].ask.to)
    /\ IF req[w].ask.kind = "replace"
         THEN End(w)
         ELSE req' = [req EXCEPT ![w] = [NoRequest EXCEPT !.pc = "again", !.ask = req[w].ask]]
    /\ UNCHANGED <<layered, requests>>

LaunchAfterUpdate(w) ==
    /\ req[w].pc = "again"
    /\ \E a \in Ask({"status"}, {{}}, {"active"}, {{}}) :
          a.creator = req[w].ask.creator /\ Load(w, a)
    /\ UNCHANGED requests

-----------------------------------------------------------------------------
(* Deletion, regeneration, copy *)

\* The DELETE of the study takes along, by cascade, rows that the request
\* has not seen.
RemoveStudy(w) ==
    /\ At(w, "remove")
    /\ study' = [NoStudy EXCEPT !.gone = TRUE]
    /\ rows' = [k \in Keys |-> 0]
    /\ bare' = StillUsed(bare)
    /\ End(w)
    /\ UNCHANGED <<layered, requests>>

ReadDesign(w) ==
    /\ At(w, "read")
    /\ IF Whole = {}
         THEN End(w)
         ELSE req' = [req EXCEPT ![w].pc = IF layered THEN "images" ELSE "save",
                                 ![w].used = Whole]
    /\ UNCHANGED <<layered, study, design, requests>>

\* Layers without images are left out, also if that is all of them.
ReadImages(w) ==
    /\ At(w, "images")
    /\ req' = [req EXCEPT ![w].pc = "save", ![w].used = @ \cap Whole]
    /\ UNCHANGED <<layered, study, design, requests>>

\* save_tasks and the commit.
SaveTasks(w) ==
    /\ At(w, "save")
    /\ End(w)
    /\ UNCHANGED <<layered, study, design, requests>>

\* A copy reads categories and elements, or layers and images, by two queries.
CopyParents(w) ==
    /\ At(w, "parents")
    /\ req' = [req EXCEPT ![w].pc = "children", ![w].used = Committed]
    /\ UNCHANGED <<layered, study, design, requests>>

\* The mutation of a copy that skips elements without their category.
NoOrphan(w) == FALSE

\* Elements are those of the study, and category_map has no entry for a
\* category that was not read.  Images are those of the layers read.
OrphanElement(w) == ~layered /\ ~ Whole \subseteq req[w].used

CopyChildren(w) ==
    /\ At(w, "children")
    /\ IF OrphanElement(w)
         THEN End(w)
         ELSE req' = [req EXCEPT ![w].pc = "copied", ![w].kids = Whole \cap req[w].used]
    /\ UNCHANGED <<layered, study, design, requests>>

\* The new study is inserted, with its children.
CommitCopy(w) ==
    /\ At(w, "copied")
    /\ End(w)
    /\ UNCHANGED <<layered, study, design, requests>>

\* An error, a crash, or the choice as victim of a deadlock.
Rollback(w) ==
    /\ req[w].pc # "idle"
    /\ End(w)
    /\ UNCHANGED <<layered, study, design, requests>>

Next == \E w \in Workers :
    \/ Begin(w) \/ Write(w)
    \/ DeleteSnapshot(w) \/ DeleteRows(w) \/ FlushStatus(w) \/ InsertRows(w)
    \/ CheckReference(w) \/ DeleteElements(w) \/ CommitDesign(w) \/ LaunchAfterUpdate(w)
    \/ RemoveStudy(w) \/ ReadDesign(w) \/ ReadImages(w) \/ SaveTasks(w)
    \/ CopyParents(w) \/ CopyChildren(w) \/ CommitCopy(w) \/ Rollback(w)

Spec == Init /\ [][Next]_vars

-----------------------------------------------------------------------------
(* Properties *)

Places == {"idle", "write", "delete", "deleting", "flush", "insert", "reference", "elements", "commit",
           "again", "remove", "read", "images", "save", "parents", "children", "copied"}

\* The types of the variables: a row of the design is one of few versions, a
\* request deletes only rows it has seen, and only those who load the study
\* FOR UPDATE hold that lock.
TypeOK ==
    /\ layered \in BOOLEAN
    /\ study \in [status : Statuses, launched : BOOLEAN, gone : BOOLEAN, cons : SUBSET Constraints]
    /\ rows \in [Keys -> Versions \cup {0}]
    /\ requests \in 0 .. MaxRequests
    /\ \A w \in Workers :
          /\ req[w].pc \in Places
          /\ req[w].lock \in None .. ForUpdate
          /\ req[w].del \subseteq req[w].target
          /\ req[w].target \cup req[w].used \subseteq Rows
          /\ req[w].bared \cup req[w].kids \subseteq Rows
    /\ bare \subseteq Rows

\* A commit by which a member empties the design, without a lock on the study.
EmptiedByMember(w) == CommitDesign(w) /\ ~req[w].ask.creator /\ req[w].ask.keys = {}

\* What is taken over of a design is the whole of one committed state of it.
\* Tasks are regenerated from the design as it is, and until they are saved,
\* after the minutes a generation takes, no commit changes it but that of a
\* member who empties it: then the tasks saved are those of a design that is
\* gone.  A copy of categories and elements does not mix the elements of one
\* edit with the categories of another, but may lack elements that a member's
\* edit or the deletion of the study took, and all if the study has none left.
TakesWholeDesigns ==
    [][\A w \in Workers :
          /\ req'[w].pc = "save" =>
                IF req[w].pc # "save" THEN req'[w].used = Whole
                ELSE Whole' = Whole \/ \E v \in Workers : EmptiedByMember(v)
          /\ CopyChildren(w) /\ req'[w].pc = "copied" /\ ~layered /\ ~study.gone =>
                Whole = {} \/ req[w].used \ req'[w].kids \subseteq bare]_vars

\* The rows that the commit of w leaves, or leaves their elements.
Left(w) ==
    IF ClearsElements(w) THEN Whole \cap Whole'
    ELSE Committed \cap {<<k, rows'[k]>> : k \in Keys}

\* "Clear and re-add": a replacement by the creator leaves no row of another
\* edit, however many run at once.  One by a member may leave rows, but only
\* of an edit that was committed while it ran.  So do edits that only clear.
ReplacementsAreWhole ==
    [][\A w \in Workers :
          CommitDesign(w) => \A v \in Left(w) : ~req[w].ask.creator /\ v \notin req[w].target]_vars

\* Only a member can lose the update of another.  A creator's deletion finds
\* the study inactive when it commits ("non-active only"), and a design
\* constraint goes or comes back only by a request to that end, or by one of
\* a member who has not seen the change of another.
OnlyMembersActOnStaleRows ==
    [][\A w \in Workers :
          /\ RemoveStudy(w) /\ study.status = "active" => ~req[w].ask.creator
          /\ Write(w) /\ study'.cons # study.cons =>
                \/ \A c \in Constraints \ req[w].ask.con : c \in study'.cons <=> c \in study.cons
                \/ ~req[w].ask.creator /\ req[w].seen.cons # study.cons]_vars

\* The requests of C wait for one another.
Deadlocked(C) == C # {} /\ \A w \in C : \E v \in C : Waits(w, v)

\* Requests of the creator never deadlock among themselves, nor with a
\* regeneration: a member takes part who has deleted or inserted rows of the
\* design without the lock on the study.
DeadlocksNeedAMember ==
    \A C \in SUBSET Workers :
        Deadlocked(C) => \E w \in C :
            ~req[w].ask.creator /\ (req[w].del \cup req[w].bared # {} \/ Inserts(w) # {})
=============================================================================
