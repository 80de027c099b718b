----------------------------- MODULE Membership -----------------------------
(***************************************************************************)
(* Who belongs to a project and to its studies.  Each project member is    *)
(* copied into the members of every study of the project: by the           *)
(* invitation, for the studies that exist, and by the creation or the      *)
(* assignment of a study, for the members that exist.  A change of role    *)
(* and a removal go over the copies, members of a study are also managed   *)
(* by themselves, and rows of people without an account wait for them to   *)
(* register.  Every request reads first and writes in a later commit.      *)
(*                                                                         *)
(* A row is that of an address, as the invitation spells it.  An account   *)
(* has its address in small letters, and rows are matched with accounts by *)
(* the exact address: a person invited under several spellings has several *)
(* rows, of which at most one can be that of the account.                  *)
(*                                                                         *)
(* One project, which studies do not leave.  Its owner, or the creator of  *)
(* a study, may do all that others may, so permissions restrict only the   *)
(* assignment.  Moves from one project to another and the deletion of the  *)
(* project and of studies are left out, and so are mails.                  *)
(***************************************************************************)
EXTENDS Integers, FiniteSets

CONSTANTS
    Owner,       \* the creator of the project
    People,      \* the e-mail addresses of all others
    Studies,
    Workers,     \* the requests that run at once
    MaxRequests  \* bound: requests

Everyone == People \cup {Owner}

ASSUME OwnerAssumption == Owner \notin People
ASSUME StudiesAssumption == Studies # {}
ASSUME BoundAssumption == MaxRequests \in Nat

VARIABLES
    creator,   \* creator of each study
    study,     \* "none", "alone" or in the "project"
    account,   \* people: "none", "linked", or account without linked rows;
               \* "never" for a spelling with capitals, which no account has
    project,   \* project_members: invited_email -> row
    members,   \* study_members: study, invited_email -> row
    req,       \* what each worker is doing
    requests,  \* number of requests so far
    raced,     \* history: pairs touched by requests at once, or by a failed one
    own        \* history: pairs that the study manages, or that it had before
               \* update_study put it into the project

rows == <<project, members>>
vars == <<creator, study, account, rows, req, requests, raced, own>>

ProjectRoles == {"editor", "viewer"}
StudyRoles == ProjectRoles \cup {"admin"}

\* "linked" tells whether user_id is set; "by" is the request that inserted
\* the row, and stands for its id.
NoRow == [role |-> "none", linked |-> FALSE, by |-> 0]
Row(role, linked, by) == [role |-> role, linked |-> linked, by |-> by]
Present(row) == row.role # "none"

\* A row of a study that is to be added.
Added(s, p, role, linked) == [s |-> s, p |-> p, role |-> role, linked |-> linked]
Additions == [s : Studies, p : Everyone, role : StudyRoles, linked : BOOLEAN]

NoRequest == [op |-> "idle", place |-> "begin", touches |-> {}, number |-> 0,
              role |-> "none", linked |-> FALSE, seen |-> 0, studies |-> {},
              add |-> {}, demote |-> {}]

Init ==
    /\ creator \in [Studies -> Everyone]
    /\ study \in [Studies -> {"none", "alone"}]
    /\ account \in [People -> {"never", "none", "linked"}]
    /\ \A s \in Studies : creator[s] \in People => account[creator[s]] = "linked"
    /\ project = [p \in People |-> NoRow]
    /\ members = [s \in Studies |-> [p \in Everyone |-> NoRow]]
    /\ req = [w \in Workers |-> NoRequest]
    /\ requests = 0
    /\ raced = {}
    /\ own = {}

-----------------------------------------------------------------------------
(* Requests *)

HasAccount(p) == p \in People => account[p] \in {"created", "linked"}
ProjectStudies == {s \in Studies : study[s] = "project"}

At(w, op, place) == req[w].op = op /\ req[w].place = place

\* A request begins with what it has read; it touches pairs of study and
\* person.
Begin(w, op, touches, read) ==
    /\ req[w].op = "idle"
    /\ requests < MaxRequests
    /\ requests' = requests + 1
    /\ req' = [req EXCEPT ![w] = [read EXCEPT !.op = op, !.touches = touches,
                                             !.number = requests + 1]]
    /\ UNCHANGED <<creator, study, account, rows, raced, own>>

\* The pairs that other requests touch as well.
Shared(w) == req[w].touches \cap UNION {req[v].touches : v \in Workers \ {w}}
Ends(w) ==
    /\ req' = [req EXCEPT ![w] = NoRequest]
    /\ raced' = raced \cup Shared(w)
    /\ UNCHANGED <<creator, requests>>

\* A constraint, a lost row or the database refuses the transaction.
Fails(w) ==
    /\ req' = [req EXCEPT ![w] = NoRequest]
    /\ raced' = raced \cup req[w].touches
    /\ UNCHANGED <<creator, study, account, rows, requests, own>>

The(w) == (CHOOSE t \in req[w].touches : TRUE)
Person(w) == The(w)[2]
StudyOf(w) == The(w)[1]

\* uq_study_member: the insertion of a row that is there fails.
Clashes(add) ==
    \/ \E t \in add : Present(members[t.s][t.p])
    \/ \E t, u \in add : t # u /\ t.s = u.s /\ t.p = u.p

\* The members of a table with additions.
WithAdded(add, number, table) ==
    [s \in Studies |-> [p \in Everyone |->
        IF \E t \in add : t.s = s /\ t.p = p
        THEN LET t == CHOOSE t \in add : t.s = s /\ t.p = p
             IN  Row(t.role, t.linked, number)
        ELSE table[s][p]]]

-----------------------------------------------------------------------------
(* Members of the project *)

Pairs(p) == Studies \X {p}

\* invite_member looks for the member and for the account.
Invite(w, p, role) ==
    /\ ~Present(project[p])
    /\ Begin(w, "invite", Pairs(p),
             [NoRequest EXCEPT !.role = role, !.linked = HasAccount(p)])

\* The mutation of an invitation that reaches no study.
SyncsNone(role, linked, p) == {}

\* _sync_member_to_all_studies: existing rows are kept.
SyncMember(role, linked, p) ==
    {Added(s, p, role, linked) : s \in {t \in ProjectStudies : ~Present(members[t][p])}}

\* The flush inserts the row, and waits for another invitation that has.
InviteFlush(w) ==
    /\ At(w, "invite", "begin")
    /\ LET p == Person(w) IN
        IF Present(project[p])
        THEN Fails(w)
        ELSE /\ \A v \in Workers : At(v, "invite", "commit") => Person(v) # p
             /\ req' = [req EXCEPT ![w].place = "commit",
                                   ![w].add = SyncMember(req[w].role, req[w].linked, p)]
             /\ UNCHANGED <<creator, study, account, rows, requests, raced, own>>

InviteCommit(w) ==
    /\ At(w, "invite", "commit")
    /\ IF Clashes(req[w].add)
       THEN Fails(w)
       ELSE /\ project' = [project EXCEPT ![Person(w)] =
                               Row(req[w].role, req[w].linked, req[w].number)]
            /\ members' = WithAdded(req[w].add, req[w].number, members)
            /\ Ends(w)
            /\ UNCHANGED <<study, account, own>>

\* update_member_role reads the member and the studies of the project.
ChangeRole(w, p, role) ==
    /\ Present(project[p])
    /\ project[p].role # role
    /\ Begin(w, "role", Pairs(p),
             [NoRequest EXCEPT !.role = role, !.seen = project[p].by,
                               !.studies = ProjectStudies])

\* The mutation of a change of role that adds missing rows.
WithRoleAnyway(w, s, p) ==
    IF p = Person(w) /\ s \in req[w].studies
    THEN [members[s][p] EXCEPT !.role = req[w].role]
    ELSE members[s][p]

WithRole(w, s, p) ==
    IF p = Person(w) /\ s \in req[w].studies /\ Present(members[s][p])
    THEN [members[s][p] EXCEPT !.role = req[w].role]
    ELSE members[s][p]

\* The UPDATE of a row that is gone matches nothing, which the ORM reports.
ChangeRoleCommit(w) ==
    /\ At(w, "role", "begin")
    /\ IF project[Person(w)].by # req[w].seen
       THEN Fails(w)
       ELSE /\ project' = [project EXCEPT ![Person(w)].role = req[w].role]
            /\ members' = [s \in Studies |-> [p \in Everyone |-> WithRole(w, s, p)]]
            /\ Ends(w)
            /\ UNCHANGED <<study, account, own>>

\* remove_member reads the member, the studies of the project and those that
\* the member has created, which it can tell of a linked row only.
Remove(w, p) ==
    /\ Present(project[p])
    /\ Begin(w, "remove", Pairs(p),
             [NoRequest EXCEPT !.seen = project[p].by, !.studies = ProjectStudies,
                 !.demote = {s \in ProjectStudies : project[p].linked /\ creator[s] = p}])

\* The mutation of a removal that leaves creators their role.
KeepsCreators(w, s, p) ==
    IF p = Person(w) /\ s \in req[w].studies \ req[w].demote THEN NoRow ELSE members[s][p]

\* Creators stay as viewers of their studies, the rows of others are deleted.
AfterRemoval(w, s, p) ==
    IF p # Person(w) \/ s \notin req[w].studies THEN members[s][p]
    ELSE IF s \notin req[w].demote THEN NoRow
    ELSE IF Present(members[s][p]) THEN [members[s][p] EXCEPT !.role = "viewer"]
    ELSE NoRow

\* The DELETE of a member that is gone is not an error.
RemoveCommit(w) ==
    /\ At(w, "remove", "begin")
    /\ members' = [s \in Studies |-> [p \in Everyone |-> AfterRemoval(w, s, p)]]
    /\ project' = IF project[Person(w)].by = req[w].seen
                  THEN [project EXCEPT ![Person(w)] = NoRow] ELSE project
    /\ own' = own \ (req[w].studies \X {Person(w)})
    /\ Ends(w)
    /\ UNCHANGED <<study, account>>

-----------------------------------------------------------------------------
(* Studies of the project *)

\* create_study, create_study_minimal and copy_study commit the study with its
\* project before they add the members in a second transaction.
CreateStudy(w, s) ==
    /\ req[w].op = "idle"
    /\ requests < MaxRequests
    /\ study[s] = "none"
    /\ HasAccount(creator[s])
    /\ study' = [study EXCEPT ![s] = "project"]
    /\ requests' = requests + 1
    /\ req' = [req EXCEPT ![w] = [NoRequest EXCEPT !.op = "create", !.number = requests + 1,
                                                   !.touches = {s} \X Everyone]]
    /\ UNCHANGED <<creator, account, rows, raced, own>>

\* The members of the project that the study does not have yet, by e-mail.
MissingMembers(s) ==
    {Added(s, p, project[p].role, project[p].linked) :
        p \in {q \in People : Present(project[q]) /\ ~Present(members[s][q])}}

\* The owner of the project becomes an admin, unless some row has the user_id.
OwnerRow(s) == IF Present(members[s][Owner]) THEN {} ELSE {Added(s, Owner, "admin", TRUE)}

\* sync_new_study_to_project_members keeps the rows that are there.
SyncStudy(s) == OwnerRow(s) \cup MissingMembers(s)

CreateSync(w) ==
    /\ At(w, "create", "begin")
    /\ req' = [req EXCEPT ![w].place = "commit", ![w].add = SyncStudy(StudyOf(w))]
    /\ UNCHANGED <<creator, study, account, rows, requests, raced, own>>

CreateCommit(w) ==
    /\ At(w, "create", "commit")
    /\ IF Clashes(req[w].add)
       THEN Fails(w)
       ELSE /\ members' = WithAdded(req[w].add, req[w].number, members)
            /\ Ends(w)
            /\ UNCHANGED <<study, account, project, own>>

\* assign_study_to_project: who assigns may edit both.
StudyEditor(s, u) ==
    creator[s] = u \/ (members[s][u].linked /\ members[s][u].role \in {"admin", "editor"})
ProjectEditor(u) == u \in People => project[u].linked /\ project[u].role = "editor"

Assign(w, s) ==
    /\ study[s] = "alone"
    /\ \E u \in Everyone : HasAccount(u) /\ StudyEditor(s, u) /\ ProjectEditor(u)
    /\ Begin(w, "assign", {s} \X Everyone, NoRequest)

\* A creator who is not in the project, as far as user_id tells, becomes a
\* viewer: the row found by user_id is changed, or a row is added.
Outsider(s) == creator[s] # Owner /\ ~project[creator[s]].linked
CreatorRow(s) == members[s][creator[s]]
CreatorAdded(s) ==
    IF Outsider(s) /\ ~CreatorRow(s).linked THEN {Added(s, creator[s], "viewer", TRUE)} ELSE {}

\* The flush of project_id locks the study for the rest of the transaction.
AssignSync(w) ==
    /\ At(w, "assign", "begin")
    /\ LET s == StudyOf(w) IN
        /\ \A v \in Workers : At(v, "assign", "commit") => StudyOf(v) # s
        /\ req' = [req EXCEPT ![w].place = "commit",
                ![w].add = SyncStudy(s) \cup CreatorAdded(s),
                ![w].demote = IF Outsider(s) /\ CreatorRow(s).linked THEN {s} ELSE {},
                ![w].seen = CreatorRow(s).by]
    /\ UNCHANGED <<creator, study, account, rows, requests, raced, own>>

Demoted(w) ==
    [s \in Studies |-> IF s \in req[w].demote
                       THEN [members[s] EXCEPT ![creator[s]].role = "viewer"] ELSE members[s]]

AssignCommit(w) ==
    /\ At(w, "assign", "commit")
    /\ LET s == StudyOf(w) IN
        IF Clashes(req[w].add) \/ (req[w].demote # {} /\ CreatorRow(s).by # req[w].seen)
        THEN Fails(w)
        ELSE /\ study' = [study EXCEPT ![s] = "project"]
             /\ members' = WithAdded(req[w].add, req[w].number, Demoted(w))
             /\ Ends(w)
             /\ UNCHANGED <<account, project, own>>

\* update_study sets the project_id that it is given, and copies nobody: who
\* is in the project then is no member of the study for that.  Its UPDATE
\* waits for the lock of an assignment.
Moved(s) == [study EXCEPT ![s] = "project"]
Uncopied(s) == {s} \X ({p \in People : Present(project[p])} \cup {Owner})

MoveStudy(w, s) ==
    /\ req[w].op = "idle"
    /\ requests < MaxRequests
    /\ study[s] = "alone"
    /\ \A v \in Workers : At(v, "assign", "commit") => StudyOf(v) # s
    /\ study' = Moved(s)
    /\ requests' = requests + 1
    /\ own' = own \cup Uncopied(s)
    /\ raced' = raced \cup (({s} \X Everyone) \cap UNION {req[v].touches : v \in Workers})
    /\ UNCHANGED <<creator, account, rows, req>>

-----------------------------------------------------------------------------
(* Members of one study *)

InviteToStudy(w, s, p, role) ==
    /\ study[s] # "none"
    /\ ~Present(members[s][p])
    /\ Begin(w, "study invite", {<<s, p>>},
             [NoRequest EXCEPT !.role = role, !.linked = HasAccount(p),
                               !.add = {Added(s, p, role, HasAccount(p))}])

InviteToStudyCommit(w) ==
    /\ At(w, "study invite", "begin")
    /\ IF Clashes(req[w].add)
       THEN Fails(w)
       ELSE /\ members' = WithAdded(req[w].add, req[w].number, members)
            /\ own' = own \cup req[w].touches
            /\ Ends(w)
            /\ UNCHANGED <<study, account, project>>

\* update_member_role and remove_member of one study read the row by its id.
ChangeStudyRole(w, s, p, role) ==
    /\ Present(members[s][p])
    /\ members[s][p].role # role
    /\ Begin(w, "study role", {<<s, p>>},
             [NoRequest EXCEPT !.role = role, !.seen = members[s][p].by])

ChangeStudyRoleCommit(w) ==
    /\ At(w, "study role", "begin")
    /\ LET s == StudyOf(w)  p == Person(w) IN
        IF members[s][p].by # req[w].seen
        THEN Fails(w)
        ELSE /\ members' = [members EXCEPT ![s][p].role = req[w].role]
             /\ own' = own \cup req[w].touches
             /\ Ends(w)
             /\ UNCHANGED <<study, account, project>>

RemoveFromStudy(w, s, p) ==
    /\ Present(members[s][p])
    /\ Begin(w, "study remove", {<<s, p>>}, [NoRequest EXCEPT !.seen = members[s][p].by])

RemoveFromStudyCommit(w) ==
    /\ At(w, "study remove", "begin")
    /\ LET s == StudyOf(w)  p == Person(w) IN
        members' = IF members[s][p].by = req[w].seen
                   THEN [members EXCEPT ![s][p] = NoRow] ELSE members
    /\ own' = own \cup req[w].touches
    /\ Ends(w)
    /\ UNCHANGED <<study, account, project>>

-----------------------------------------------------------------------------
(* Registration *)

\* create_user commits the account, then links the rows that wait for it.
Register(w, p) ==
    /\ req[w].op = "idle"
    /\ requests < MaxRequests
    /\ account[p] = "none"
    /\ account' = [account EXCEPT ![p] = "created"]
    /\ requests' = requests + 1
    /\ req' = [req EXCEPT ![w] = [NoRequest EXCEPT !.op = "register", !.touches = Pairs(p),
                                                   !.number = requests + 1]]
    /\ UNCHANGED <<creator, study, rows, raced, own>>

\* The UPDATE of project_members, and then that of study_members.
LinkProject(w) ==
    /\ At(w, "register", "begin")
    /\ req' = [req EXCEPT ![w].place = "commit", ![w].seen = project[Person(w)].by]
    /\ UNCHANGED <<creator, study, account, rows, requests, raced, own>>

\* The mutation of a registration that links the project only.
LinksNone(row) == row
Linked(row) == IF Present(row) THEN [row EXCEPT !.linked = TRUE] ELSE row

LinkCommit(w) ==
    /\ At(w, "register", "commit")
    /\ LET p == Person(w) IN
        /\ project' = [project EXCEPT ![p] =
                IF @.by = req[w].seen /\ Present(@) THEN [@ EXCEPT !.linked = TRUE] ELSE @]
        /\ members' = [s \in Studies |-> [members[s] EXCEPT ![p] = Linked(@)]]
        /\ account' = [account EXCEPT ![p] = "linked"]
    /\ Ends(w)
    /\ UNCHANGED <<study, own>>

-----------------------------------------------------------------------------
(* Specification *)

\* The process dies or the database refuses: what was committed stays.
Abort(w) ==
    /\ req[w].op # "idle"
    /\ Fails(w)

RequestBegins(w) ==
    \/ \E p \in People :
        \/ \E role \in ProjectRoles : Invite(w, p, role) \/ ChangeRole(w, p, role)
        \/ Remove(w, p)
        \/ Register(w, p)
    \/ \E s \in Studies :
        \/ CreateStudy(w, s) \/ Assign(w, s) \/ MoveStudy(w, s)
        \/ \E p \in Everyone :
            \/ \E role \in StudyRoles : InviteToStudy(w, s, p, role)
                                        \/ ChangeStudyRole(w, s, p, role)
            \/ RemoveFromStudy(w, s, p)

RequestGoesOn(w) ==
    \/ InviteFlush(w) \/ InviteCommit(w) \/ ChangeRoleCommit(w) \/ RemoveCommit(w)
    \/ CreateSync(w) \/ CreateCommit(w) \/ AssignSync(w) \/ AssignCommit(w)
    \/ InviteToStudyCommit(w) \/ ChangeStudyRoleCommit(w) \/ RemoveFromStudyCommit(w)
    \/ LinkProject(w) \/ LinkCommit(w)
    \/ Abort(w)

Next == \E w \in Workers : RequestBegins(w) \/ RequestGoesOn(w)

Spec == Init /\ [][Next]_vars

-----------------------------------------------------------------------------
(* Who may edit *)

StudyRole(s, u) == IF members[s][u].linked THEN members[s][u].role ELSE "none"
InProject(u) == u # Owner /\ project[u].linked

\* The mutation of a check that lets creators edit whatever becomes of them.
CreatorAlwaysEdits(s, u) ==
    \/ creator[s] = u
    \/ u = Owner /\ study[s] = "project"
    \/ StudyRole(s, u) \in {"admin", "editor"}

\* _get_effective_edit_permission, with which updates are checked.
CanEdit(s, u) ==
    IF study[s] = "project" /\ u = Owner THEN TRUE
    ELSE IF study[s] = "project" /\ InProject(u) THEN project[u].role = "editor"
    ELSE IF study[s] = "alone" /\ creator[s] = u THEN TRUE
    ELSE StudyRole(s, u) \in {"admin", "editor"}

\* _user_role_for_study and the preview, which tell the user what to offer.
ShownRole(s, u) ==
    IF study[s] = "project" /\ u = Owner THEN "admin"
    ELSE IF study[s] = "project" /\ InProject(u)
         THEN IF project[u].role = "editor" THEN "editor" ELSE "viewer"
    ELSE IF creator[s] = u /\ study[s] # "project" THEN "admin"
    ELSE IF StudyRole(s, u) = "none" THEN "viewer" ELSE StudyRole(s, u)

-----------------------------------------------------------------------------
(* Properties *)

\* Every variable has its type.
TypeOK ==
    /\ creator \in [Studies -> Everyone]
    /\ study \in [Studies -> {"none", "alone", "project"}]
    /\ account \in [People -> {"never", "none", "created", "linked"}]
    /\ \A p \in People :
        project[p] = NoRow \/ project[p] \in [role : ProjectRoles, linked : BOOLEAN, by : 1 .. requests]
    /\ \A s \in Studies, p \in Everyone :
        members[s][p] = NoRow
        \/ members[s][p] \in [role : StudyRoles, linked : BOOLEAN, by : 1 .. requests]
    /\ \A w \in Workers :
        /\ req[w].add \subseteq Additions
        /\ req[w].studies \cup req[w].demote \subseteq ProjectStudies \cup {s \in Studies : study[s] = "alone"}
        /\ req[w].number \in 0 .. requests
    /\ requests \in 0 .. MaxRequests
    /\ raced \cup own \subseteq Studies \X Everyone

\* No request is working on the pair, none ever was together with another one,
\* and none has failed on it.
Quiet(s, p) == <<s, p>> \notin raced /\ \A w \in Workers : <<s, p>> \notin req[w].touches

\* Studies follow their project, whichever came first.  A member of the project
\* is a member of each of its studies, and has there the role of the project,
\* unless the study manages the member itself or was put into the project by
\* update_study, which copies nobody; a creator keeps the role of the row found
\* there.  Who has been removed from the project is in none of them any
\* more, except as a viewer of an own one.  The owner is an admin of each.
StudiesFollowProject ==
    /\ \A s \in ProjectStudies, p \in People :
        Quiet(s, p) /\ <<s, p>> \notin own
            => IF Present(project[p])
                 THEN /\ Present(members[s][p])
                      /\ p # creator[s] => members[s][p].role = project[p].role
                 ELSE Present(members[s][p])
                        => p = creator[s] /\ members[s][p].role = "viewer"
    /\ \A s \in ProjectStudies :
        Quiet(s, Owner) /\ <<s, Owner>> \notin own => members[s][Owner].role = "admin"

\* Once a person has an account, no invitation waits for it that was written as
\* its address, in small letters; one written with capitals waits for ever, also
\* if the account was there before (_link_pending_invitations: "Link any pending
\* project or study invitations to the new user ID").
InvitationsAreLinked ==
    \A s \in Studies, p \in People :
        /\ account[p] = "linked" /\ Quiet(s, p)
            => (Present(project[p]) => project[p].linked)
               /\ (Present(members[s][p]) => members[s][p].linked)
        /\ account[p] = "never" => ~project[p].linked /\ ~members[s][p].linked

\* Whom the lists and the preview offer to edit a study, updates accept, and
\* nobody else, in every state that requests and failures can leave behind.
RolesAgree ==
    \A s \in Studies, u \in Everyone : study[s] # "none" =>
        (CanEdit(s, u) <=> ShownRole(s, u) \in {"admin", "editor"})

\* The removal of a member lets nobody edit who could not edit before: not even
\* a viewer of the project with another role in a study.
RemovalNeverGrants == [][
    \A p \in People : Present(project[p]) /\ ~Present(project'[p]) =>
        \A s \in Studies : CanEdit(s, p)' => CanEdit(s, p) \/ <<s, p>> \in raced']_vars
=============================================================================
