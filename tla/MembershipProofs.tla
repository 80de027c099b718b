--------------------------- MODULE MembershipProofs ---------------------------
(***************************************************************************)
(* Theorems about Membership, for any people, studies, workers and bound   *)
(* on requests.  A request changes only pairs of study and person that it  *)
(* touches, and a pair that two requests touch at once has raced when the  *)
(* first of them ends.  So on a pair that has not raced, what a request    *)
(* has read is still true as long as it is the sole one to touch the pair: *)
(* Reads says what that is, and PairInv what holds of the pairs.           *)
(***************************************************************************)
EXTENDS Membership, TLAPS

Ops == {"idle", "invite", "role", "remove", "register", "create", "assign",
        "study invite", "study role", "study remove"}
OnPerson == {"invite", "role", "remove", "register"}
OnStudy == {"create", "assign"}
OnPair == {"study invite", "study role", "study remove"}

Request ==
    [op : Ops, place : {"begin", "commit"}, touches : SUBSET (Studies \X Everyone),
     number : Nat, role : StudyRoles \cup {"none"}, linked : BOOLEAN, seen : Nat,
     studies : SUBSET Studies, add : SUBSET Additions, demote : SUBSET Studies]

AnyRow == [role : StudyRoles \cup {"none"}, linked : BOOLEAN, by : Nat]
Valid(row, roles) == row = NoRow \/ row \in [role : roles, linked : BOOLEAN, by : 1 .. requests]

TypeInv ==
    /\ creator \in [Studies -> Everyone]
    /\ study \in [Studies -> {"none", "alone", "project"}]
    /\ account \in [People -> {"never", "none", "created", "linked"}]
    /\ project \in [People -> AnyRow]
    /\ \A p \in People : Valid(project[p], ProjectRoles)
    /\ members \in [Studies -> [Everyone -> AnyRow]]
    /\ \A s \in Studies, p \in Everyone :
          /\ Valid(members[s][p], StudyRoles)
          /\ Present(members[s][p]) => study[s] # "none"
    /\ req \in [Workers -> Request]
    /\ requests \in 0 .. MaxRequests
    /\ raced \subseteq Studies \X Everyone
    /\ own \subseteq Studies \X Everyone

Exist(S) == \A s \in S : study[s] # "none"

ShapeOf(w) ==
    /\ req[w].op = "idle" => req[w] = NoRequest
    /\ req[w].op \in OnPerson => \E p \in People : req[w].touches = Pairs(p)
    /\ req[w].op \in OnStudy =>
          \E s \in Studies : req[w].touches = {s} \X Everyone /\ study[s] # "none"
    /\ req[w].op \in OnPair =>
          \E s \in Studies, p \in Everyone : req[w].touches = {<<s, p>>} /\ study[s] # "none"
    /\ \A t \in req[w].add : <<t.s, t.p>> \in req[w].touches /\ study[t.s] # "none"
    /\ req[w].op \in {"invite", "role"} => req[w].role \in ProjectRoles
    /\ req[w].op = "study role" => req[w].role \in StudyRoles
    /\ req[w].op # "idle" => req[w].number \in 1 .. requests
    /\ Exist(req[w].studies) /\ Exist(req[w].demote)
    /\ \A s \in req[w].demote : <<s, creator[s]>> \in req[w].touches
    /\ req[w].op \in {"role", "study role"} => req[w].seen # 0
    /\ req[w].op = "assign" /\ req[w].demote # {} => req[w].seen # 0

Sole(w, s, p) ==
    /\ <<s, p>> \in req[w].touches /\ <<s, p>> \notin raced
    /\ \A v \in Workers \ {w} : <<s, p>> \notin req[v].touches

Adds(w, s, p) == \E t \in req[w].add : t.s = s /\ t.p = p
Mine(s, p) == <<s, p>> \in own

\* What the requests with which a pair can follow its project have read.
InviteReads(w, s, p) == req[w].op = "invite" =>
    /\ ~Present(project[p])
    /\ account[p] = "linked" => req[w].linked
    /\ \A t \in req[w].add : t.s = s => t.role = req[w].role /\ study[s] = "project"
    /\ req[w].place = "commit" /\ study[s] = "project" =>
          Present(members[s][p]) \/ Adds(w, s, p)

ChangeReads(w, s, p) == req[w].op \in {"role", "remove"} =>
    /\ Present(project[p]) /\ project[p].by = req[w].seen
    /\ study[s] = "project" <=> s \in req[w].studies
    /\ s \in req[w].demote => creator[s] = p

Copied(t, p) ==
    \/ p = Owner /\ t.role = "admin"
    \/ p \in People /\ Present(project[p]) /\ t.role = project[p].role

StudyReads(w, s, p) == req[w].op \in OnStudy =>
    /\ req[w].op = "create" => study[s] = "project"
    /\ ~Mine(s, p) => ~Present(members[s][p])
    /\ \A t \in req[w].add : t.s = s /\ t.p = p =>
          Copied(t, p) \/ (p = creator[s] /\ p # Owner /\ t.role = "viewer")
    /\ req[w].place = "commit" /\ ~Mine(s, p) =>
          Adds(w, s, p) \/ (p \in People /\ ~Present(project[p]))

LinkReads(w, s, p) == p \in People =>
    /\ \A t \in req[w].add : t.s = s /\ t.p = p /\ account[p] = "linked" => t.linked
    /\ req[w].op = "register" /\ req[w].place = "commit" /\ Present(project[p]) =>
          project[p].by = req[w].seen

ReadsOf(w, s, p) ==
    /\ InviteReads(w, s, p) /\ ChangeReads(w, s, p)
    /\ StudyReads(w, s, p) /\ LinkReads(w, s, p)
Reads(w) == \A s \in Studies, p \in Everyone : Sole(w, s, p) => ReadsOf(w, s, p)

Follows(s, p) ==
    IF study[s] # "project" THEN ~Present(members[s][p])
    ELSE IF p = Owner THEN members[s][p].role = "admin"
    ELSE IF Present(project[p])
    THEN Present(members[s][p]) /\ (p # creator[s] => members[s][p].role = project[p].role)
    ELSE Present(members[s][p]) => p = creator[s] /\ members[s][p].role = "viewer"

LinkedPair(s, p) == p \in People /\ account[p] = "linked" =>
    /\ Present(project[p]) => project[p].linked
    /\ Present(members[s][p]) => members[s][p].linked

Creates(w, s, p) == req[w].op = "create" /\ <<s, p>> \in req[w].touches

PairInv(s, p) == <<s, p>> \notin raced =>
    /\ LinkedPair(s, p)
    /\ ~Mine(s, p) /\ (\A w \in Workers : ~Creates(w, s, p)) => Follows(s, p)

Inv ==
    /\ TypeInv
    /\ \A w \in Workers : ShapeOf(w) /\ Reads(w)
    /\ \A s \in Studies, p \in Everyone : PairInv(s, p)

-----------------------------------------------------------------------------
(* Which pairs a request is about *)

LEMMA PersonIs ==
    ASSUME NEW w, NEW p \in People, req[w].touches = Pairs(p)
    PROVE  Person(w) = p
<1>1. \E t : t \in req[w].touches
  <2>1. PICK s \in Studies : TRUE
    BY StudiesAssumption
  <2>2. <<s, p>> \in req[w].touches
    BY <2>1 DEF Pairs
  <2> QED
    BY <2>2
<1>2. The(w) \in req[w].touches
  BY <1>1 DEF The
<1> QED
  BY <1>2 DEF Person, Pairs

LEMMA StudyIs ==
    ASSUME NEW w, NEW s \in Studies, req[w].touches = {s} \X Everyone
    PROVE  StudyOf(w) = s
<1>1. <<s, Owner>> \in req[w].touches
  BY DEF Everyone
<1>2. The(w) \in req[w].touches
  BY <1>1 DEF The
<1> QED
  BY <1>2 DEF StudyOf

LEMMA PairIs ==
    ASSUME NEW w, NEW s, NEW p, req[w].touches = {<<s, p>>}
    PROVE  StudyOf(w) = s /\ Person(w) = p
<1>1. The(w) = <<s, p>>
  BY DEF The
<1> QED
  BY <1>1 DEF StudyOf, Person

\* The study and the person of a request.
LEMMA Subject ==
    ASSUME Inv, NEW w \in Workers
    PROVE  /\ req[w] \in Request /\ ShapeOf(w) /\ Reads(w)
           /\ req[w].op \in OnPerson => /\ Person(w) \in People
                                        /\ req[w].touches = Pairs(Person(w))
           /\ req[w].op \in OnStudy => /\ StudyOf(w) \in Studies
                                       /\ req[w].touches = {StudyOf(w)} \X Everyone
                                       /\ study[StudyOf(w)] # "none"
           /\ req[w].op \in OnPair => /\ StudyOf(w) \in Studies /\ Person(w) \in Everyone
                                      /\ req[w].touches = {<<StudyOf(w), Person(w)>>}
                                      /\ study[StudyOf(w)] # "none"
<1>1. req[w] \in Request /\ ShapeOf(w) /\ Reads(w)
  BY DEF Inv, TypeInv
<1>2. req[w].op \in OnPerson => Person(w) \in People /\ req[w].touches = Pairs(Person(w))
  BY <1>1, PersonIs DEF ShapeOf
<1>3. req[w].op \in OnStudy => /\ StudyOf(w) \in Studies
                               /\ req[w].touches = {StudyOf(w)} \X Everyone
                               /\ study[StudyOf(w)] # "none"
  BY <1>1, StudyIs DEF ShapeOf
<1>4. req[w].op \in OnPair => /\ StudyOf(w) \in Studies /\ Person(w) \in Everyone
                              /\ req[w].touches = {<<StudyOf(w), Person(w)>>}
                              /\ study[StudyOf(w)] # "none"
  <2> SUFFICES ASSUME req[w].op \in OnPair
               PROVE  /\ StudyOf(w) \in Studies /\ Person(w) \in Everyone
                      /\ req[w].touches = {<<StudyOf(w), Person(w)>>}
                      /\ study[StudyOf(w)] # "none"
    OBVIOUS
  <2>1. PICK s \in Studies, p \in Everyone : req[w].touches = {<<s, p>>} /\ study[s] # "none"
    BY <1>1 DEF ShapeOf
  <2>2. StudyOf(w) = s /\ Person(w) = p
    BY <2>1, PairIs
  <2> QED
    BY <2>1, <2>2
<1> QED
  BY <1>1, <1>2, <1>3, <1>4

-----------------------------------------------------------------------------
(* Frames *)

LEMMA NoRequestType == NoRequest \in Request
  BY DEF NoRequest, Request, Ops

\* What a step does not change about a pair.
Same(s, p) ==
    /\ study'[s] = study[s] /\ members'[s][p] = members[s][p]
    /\ Mine(s, p)' <=> Mine(s, p)
    /\ p \in People => project'[p] = project[p] /\ account'[p] = account[p]

\* Either the request goes on, or begins, or ends and tells who touches the
\* same pairs.
Passes(w) ==
    \/ req'[w].touches = req[w].touches /\ req'[w].op = req[w].op
    \/ req[w].touches = {}
    \/ req'[w].touches = {} /\ Shared(w) \subseteq raced'

LEMMA Frame ==
    ASSUME Inv, NEW w \in Workers, NEW r \in Request, req' = [req EXCEPT ![w] = r],
           TypeInv', ShapeOf(w)', creator' = creator,
           \A s \in Studies : study[s] # "none" => study'[s] # "none",
           requests \in Nat, requests' \in Nat, requests <= requests',
           raced \subseteq raced', Passes(w),
           \A s \in Studies, p \in Everyone :
              <<s, p>> \notin req[w].touches \cup r.touches => Same(s, p),
           \A s \in Studies, p \in Everyone : Sole(w, s, p)' => ReadsOf(w, s, p)',
           \A s \in Studies, p \in Everyone :
              <<s, p>> \in req[w].touches \cup r.touches => PairInv(s, p)'
    PROVE  Inv'
<1>1. req'[w] = r /\ \A v \in Workers \ {w} : req'[v] = req[v]
  BY DEF Inv, TypeInv
<1>2. ASSUME NEW v \in Workers \ {w} PROVE ShapeOf(v)'
  <2>1. req'[v] = req[v] /\ ShapeOf(v) /\ req[v] \in Request
    BY <1>1, Subject
  <2>2. \A s \in Studies : study[s] # "none" => study'[s] # "none"
    OBVIOUS
  <2>3. Exist(req[v].studies)' /\ Exist(req[v].demote)'
    BY <2>1, <2>2 DEF ShapeOf, Exist, Request
  <2>4. req[v].op # "idle" => req[v].number \in 1 .. requests'
    <3>1. req[v].op # "idle" => req[v].number \in 1 .. requests
      BY <2>1 DEF ShapeOf
    <3> QED
      BY ONLY <3>1, requests \in Nat, requests' \in Nat, requests <= requests'
  <2>5. req[v].op \in OnStudy =>
            \E s \in Studies : req[v].touches = {s} \X Everyone /\ study'[s] # "none"
    BY <2>1, <2>2 DEF ShapeOf
  <2>6. req[v].op \in OnPair =>
            \E s \in Studies, p \in Everyone : req[v].touches = {<<s, p>>} /\ study'[s] # "none"
    BY <2>1, <2>2, Zenon DEF ShapeOf
  <2>7. /\ req[v].op = "idle" => req[v] = NoRequest
        /\ req[v].op \in OnPerson => \E p \in People : req[v].touches = Pairs(p)
        /\ req[v].op \in {"invite", "role"} => req[v].role \in ProjectRoles
        /\ req[v].op = "study role" => req[v].role \in StudyRoles
    BY <2>1 DEF ShapeOf
  <2>8. \A t \in req[v].add : <<t.s, t.p>> \in req[v].touches /\ study'[t.s] # "none"
    BY <2>1, <2>2 DEF ShapeOf, Request, Additions
  <2>9. /\ \A s \in req[v].demote : <<s, creator'[s]>> \in req[v].touches
        /\ req[v].op \in {"role", "study role"} => req[v].seen # 0
        /\ req[v].op = "assign" /\ req[v].demote # {} => req[v].seen # 0
    BY <2>1 DEF ShapeOf
  <2> QED
    BY ONLY <2>1, <2>3, <2>4, <2>5, <2>6, <2>7, <2>8, <2>9, Zenon DEF ShapeOf
<1>3. ASSUME NEW v \in Workers \ {w}, NEW s \in Studies, NEW p \in Everyone, Sole(v, s, p)'
      PROVE  ReadsOf(v, s, p)'
  <2>1. req'[v] = req[v]
    BY <1>1
  <2>2. <<s, p>> \in req[v].touches /\ <<s, p>> \notin raced' /\ <<s, p>> \notin r.touches
    BY <1>1, <1>3, <2>1 DEF Sole
  <2>3. <<s, p>> \notin req[w].touches
    BY <1>1, <2>2 DEF Passes, Shared
  <2>4. \A u \in Workers \ {v} : <<s, p>> \notin req[u].touches
    BY <1>1, <1>3, <2>3 DEF Sole
  <2>5. ReadsOf(v, s, p)
    BY <2>2, <2>4, Subject DEF Sole, Reads
  <2>6. Same(s, p)
    BY <2>2, <2>3
  <2>7. req[v].op \in OnPerson => p \in People
    BY <2>2, Subject DEF Pairs
  <2>8. InviteReads(v, s, p)' /\ ChangeReads(v, s, p)'
    BY <2>1, <2>5, <2>6, <2>7 DEF ReadsOf, InviteReads, ChangeReads, Same, OnPerson, Adds
  <2>9. StudyReads(v, s, p)'
    BY <2>1, <2>5, <2>6 DEF ReadsOf, StudyReads, Same, Adds, Copied
  <2>10. LinkReads(v, s, p)'
    BY <2>1, <2>5, <2>6 DEF ReadsOf, LinkReads, Same
  <2> QED
    BY <2>8, <2>9, <2>10 DEF ReadsOf
<1>4. ASSUME NEW s \in Studies, NEW p \in Everyone, <<s, p>> \notin req[w].touches \cup r.touches
      PROVE  PairInv(s, p)'
  <2>1. Same(s, p) /\ PairInv(s, p)
    BY <1>4 DEF Inv
  <2>2. ASSUME NEW v \in Workers PROVE Creates(v, s, p)' <=> Creates(v, s, p)
    BY <1>1, <1>4 DEF Creates
  <2>3. LinkedPair(s, p) => LinkedPair(s, p)'
    BY <2>1 DEF LinkedPair, Same
  <2>4. Follows(s, p) => Follows(s, p)'
    BY <2>1 DEF Follows, Same, Everyone
  <2> QED
    BY <2>1, <2>2, <2>3, <2>4 DEF PairInv, Same
<1> QED
  BY <1>2, <1>3, <1>4 DEF Inv, Reads

\* The rows stay valid while requests are counted.
LEMMA ValidGrows ==
    ASSUME requests \in Nat, requests' \in Nat, requests <= requests', NEW row, NEW roles,
           Valid(row, roles)
    PROVE  row = NoRow \/ row \in [role : roles, linked : BOOLEAN, by : 1 .. requests']
<1>1. CASE row = NoRow
  BY <1>1
<1>2. CASE row \in [role : roles, linked : BOOLEAN, by : 1 .. requests]
  <2>1. 1 .. requests \subseteq 1 .. requests'
    OBVIOUS
  <2> QED
    BY <1>2, <2>1
<1> QED
  BY <1>1, <1>2 DEF Valid

LEMMA TypesGrow ==
    ASSUME Inv, requests' \in 0 .. MaxRequests, requests <= requests',
           creator' = creator, project' = project, members' = members, own' = own, raced' = raced,
           study' \in [Studies -> {"none", "alone", "project"}],
           \A s \in Studies : study[s] # "none" => study'[s] # "none",
           account' \in [People -> {"never", "none", "created", "linked"}],
           req' \in [Workers -> Request]
    PROVE  TypeInv'
<1>1. requests \in Nat /\ requests' \in Nat
  BY BoundAssumption DEF Inv, TypeInv
<1>2. \A p \in People : Valid(project[p], ProjectRoles)'
  BY <1>1, ValidGrows DEF Inv, TypeInv, Valid
<1>3. \A s \in Studies, p \in Everyone :
          /\ Valid(members[s][p], StudyRoles)'
          /\ Present(members[s][p])' => study'[s] # "none"
  BY <1>1, ValidGrows DEF Inv, TypeInv, Valid
<1> QED
  BY <1>1, <1>2, <1>3 DEF Inv, TypeInv

\* Rows have been inserted by a request.
LEMMA RowsAreNumbered ==
    ASSUME Inv
    PROVE  /\ \A p \in People : Present(project[p]) <=> project[p].by # 0
           /\ \A s \in Studies, p \in Everyone : Present(members[s][p]) <=> members[s][p].by # 0
           /\ \A s \in Studies, p \in Everyone : members[s][p].linked => Present(members[s][p])
<1>1. requests \in Nat
  BY BoundAssumption DEF Inv, TypeInv
<1>2. \A row, roles : Valid(row, roles) /\ "none" \notin roles =>
          (Present(row) <=> row.by # 0) /\ (row.linked => Present(row))
  BY <1>1 DEF Valid, Present, NoRow
<1>3. "none" \notin ProjectRoles /\ "none" \notin StudyRoles
  BY DEF ProjectRoles, StudyRoles
<1> QED
  BY <1>2, <1>3 DEF Inv, TypeInv

LEMMA IdleIs ==
    ASSUME Inv, NEW w \in Workers, req[w].op = "idle"
    PROVE  req[w] = NoRequest
<1>1. ShapeOf(w)
  BY DEF Inv
<1> QED
  BY <1>1 DEF ShapeOf

\* What the worker knows once it has begun.
Begun(w, op, touches, read) ==
    /\ req'[w] \in Request /\ req' = [req EXCEPT ![w] = req'[w]]
    /\ req'[w].op = op /\ req'[w].touches = touches /\ req'[w].number = requests'
    /\ req'[w].place = read.place /\ req'[w].role = read.role
    /\ req'[w].linked = read.linked /\ req'[w].seen = read.seen
    /\ req'[w].studies = read.studies /\ req'[w].add = read.add
    /\ req'[w].demote = read.demote
    /\ req[w].touches = {}
    /\ requests \in Nat /\ requests' = requests + 1
    /\ requests' \in 1 .. MaxRequests /\ requests' \in 1 .. requests'

LEMMA Began ==
    ASSUME Inv, NEW w \in Workers, NEW op \in Ops, NEW touches \in SUBSET (Studies \X Everyone),
           NEW read \in Request, Begin(w, op, touches, read)
    PROVE  Begun(w, op, touches, read)
<1> DEFINE r == [read EXCEPT !.op = op, !.touches = touches, !.number = requests + 1]
<1>1. /\ requests \in Nat /\ requests' = requests + 1 /\ requests' \in 1 .. MaxRequests
      /\ requests' \in 1 .. requests'
  BY BoundAssumption DEF Begin, Inv, TypeInv
<1>2. r \in Request
  <2>1. [read EXCEPT !.op = op] \in Request
    BY DEF Request
  <2>2. [[read EXCEPT !.op = op] EXCEPT !.touches = touches] \in Request
    BY <2>1 DEF Request
  <2>3. requests + 1 \in Nat
    BY <1>1
  <2> QED
    BY <2>2, <2>3 DEF Request
<1>3. req' = [req EXCEPT ![w] = r] /\ req'[w] = r
  BY DEF Begin, Inv, TypeInv
<1>4. req[w].touches = {}
  BY IdleIs DEF Begin, NoRequest
<1>5. /\ r.op = op /\ r.touches = touches /\ r.number = requests + 1
      /\ r.place = read.place /\ r.role = read.role
      /\ r.linked = read.linked /\ r.seen = read.seen
      /\ r.studies = read.studies /\ r.add = read.add /\ r.demote = read.demote
  BY DEF Request
<1> HIDE DEF r
<1> QED
  BY <1>1, <1>2, <1>3, <1>4, <1>5 DEF Begun

LEMMA BeginFrame ==
    ASSUME Inv, NEW w \in Workers, NEW op \in Ops \ {"create"},
           NEW touches \in SUBSET (Studies \X Everyone),
           NEW read \in Request, Begin(w, op, touches, read), ShapeOf(w)',
           \A s \in Studies, p \in Everyone : Sole(w, s, p)' => ReadsOf(w, s, p)'
    PROVE  Inv'
<1> DEFINE r == req'[w]
<1>0. op \in Ops /\ MaxRequests \in Nat
  BY BoundAssumption
<1>1. /\ r \in Request /\ req' = [req EXCEPT ![w] = r] /\ r.op = op /\ req[w].touches = {}
      /\ requests \in Nat /\ requests' \in Nat /\ requests <= requests'
      /\ requests' \in 0 .. MaxRequests
  <2>1. /\ r \in Request /\ req' = [req EXCEPT ![w] = r] /\ r.op = op /\ req[w].touches = {}
        /\ requests \in Nat /\ requests' = requests + 1 /\ requests' \in 1 .. MaxRequests
    BY <1>0, Began DEF Begun
  <2> QED
    BY <1>0, <2>1
<1>2. UNCHANGED <<creator, study, account, project, members, raced, own>>
  BY DEF Begin, rows
<1>3. TypeInv'
  <2>1. req' \in [Workers -> Request]
    BY <1>1 DEF Inv, TypeInv
  <2> QED
    BY <1>1, <1>2, <2>1, TypesGrow DEF Inv, TypeInv
<1>4. \A s \in Studies, p \in Everyone : Same(s, p)
  BY <1>2 DEF Same, Mine
<1>5. ASSUME NEW s \in Studies, NEW p \in Everyone PROVE PairInv(s, p)'
  <2>1. \A v \in Workers : Creates(v, s, p) => Creates(v, s, p)'
    BY <1>1 DEF Creates, Inv, TypeInv
  <2>2. PairInv(s, p)
    BY DEF Inv
  <2> QED
    BY <1>2, <2>1, <2>2 DEF PairInv, LinkedPair, Follows, Mine
<1>6. Passes(w)
  BY <1>1 DEF Passes
<1> HIDE DEF r
<1> QED
  BY <1>1, <1>2, <1>3, <1>4, <1>5, <1>6, Frame

LEMMA MiddleFrame ==
    ASSUME Inv, NEW w \in Workers, NEW r \in Request, req' = [req EXCEPT ![w] = r],
           r.touches = req[w].touches, r.op = req[w].op,
           UNCHANGED <<creator, study, account, rows, requests, raced, own>>,
           ShapeOf(w)',
           \A s \in Studies, p \in Everyone : Sole(w, s, p) => ReadsOf(w, s, p)'
    PROVE  Inv'
<1>1. UNCHANGED <<creator, study, account, project, members, requests, raced, own>>
  BY DEF rows
<1>2. req'[w] = r /\ \A v \in Workers \ {w} : req'[v] = req[v]
  BY DEF Inv, TypeInv
<1>3. TypeInv'
  BY <1>1 DEF Inv, TypeInv, Valid
<1>4. \A s \in Studies, p \in Everyone : Same(s, p)
  BY <1>1 DEF Same, Mine
<1>5. ASSUME NEW s \in Studies, NEW p \in Everyone PROVE PairInv(s, p)'
  <2>1. \A v \in Workers : Creates(v, s, p) => Creates(v, s, p)'
    BY <1>2 DEF Creates
  <2>2. PairInv(s, p)
    BY DEF Inv
  <2> QED
    BY <1>1, <2>1, <2>2 DEF PairInv, LinkedPair, Follows, Mine
<1>6. Passes(w)
  BY <1>2 DEF Passes
<1>7. \A s \in Studies, p \in Everyone : Sole(w, s, p)' => Sole(w, s, p)
  BY <1>1, <1>2 DEF Sole
<1>8. requests \in Nat
  BY BoundAssumption DEF Inv, TypeInv
<1>9. \A s \in Studies, p \in Everyone : Sole(w, s, p)' => ReadsOf(w, s, p)'
  BY <1>7
<1>10. requests' \in Nat /\ requests <= requests' /\ raced \subseteq raced'
       /\ \A s \in Studies : study[s] # "none" => study'[s] # "none"
  BY <1>1, <1>8
<1> QED
  BY <1>1, <1>3, <1>4, <1>5, <1>6, <1>8, <1>9, <1>10, Frame

\* What an ending request leaves of a pair that has not raced, nobody else
\* touches.
LEMMA EndFrame ==
    ASSUME Inv, NEW w \in Workers, req' = [req EXCEPT ![w] = NoRequest],
           TypeInv', creator' = creator, requests' = requests,
           raced \cup Shared(w) \subseteq raced',
           \A s \in Studies : study[s] # "none" => study'[s] # "none",
           \A s \in Studies, p \in Everyone : <<s, p>> \notin req[w].touches => Same(s, p),
           \A s \in Studies, p \in Everyone :
              Sole(w, s, p) /\ <<s, p>> \notin raced' => PairInv(s, p)'
    PROVE  Inv'
<1>1. req'[w] = NoRequest
  BY DEF Inv, TypeInv
<1>2. ShapeOf(w)'
  <2>1. /\ NoRequest.op = "idle" /\ NoRequest.add = {} /\ NoRequest.studies = {}
        /\ NoRequest.demote = {}
    BY DEF NoRequest
  <2> QED
    BY <1>1, <2>1 DEF ShapeOf, Exist, OnPerson, OnStudy, OnPair
<1>3. NoRequest \in Request /\ NoRequest.touches = {}
  BY NoRequestType DEF NoRequest
<1>4. requests \in Nat
  BY BoundAssumption DEF Inv, TypeInv
<1>5. Passes(w)
  BY <1>1, <1>3 DEF Passes
<1>6. \A s \in Studies, p \in Everyone : ~Sole(w, s, p)'
  BY <1>1, <1>3 DEF Sole
<1>7. ASSUME NEW s \in Studies, NEW p \in Everyone, <<s, p>> \in req[w].touches
      PROVE  PairInv(s, p)'
  <2>1. CASE <<s, p>> \in raced'
    BY <2>1 DEF PairInv
  <2>2. CASE <<s, p>> \notin raced'
    <3>1. <<s, p>> \notin raced /\ <<s, p>> \notin Shared(w)
      BY <2>2
    <3>2. Sole(w, s, p)
      BY <1>7, <3>1 DEF Sole, Shared
    <3> QED
      BY <2>2, <3>2
  <2> QED
    BY <2>1, <2>2
<1>8. \A s \in Studies, p \in Everyone :
          <<s, p>> \in req[w].touches \cup NoRequest.touches => PairInv(s, p)'
  BY <1>3, <1>7
<1>9. \A s \in Studies, p \in Everyone :
          <<s, p>> \notin req[w].touches \cup NoRequest.touches => Same(s, p)
  BY <1>3
<1>10. requests' \in Nat /\ requests <= requests' /\ raced \subseteq raced'
  BY <1>4
<1>11. \A s \in Studies, p \in Everyone : Sole(w, s, p)' => ReadsOf(w, s, p)'
  BY <1>6
<1> QED
  BY <1>2, <1>3, <1>4, <1>5, <1>8, <1>9, <1>10, <1>11, Frame

LEMMA FailsStep ==
    ASSUME Inv, NEW w \in Workers, Fails(w)
    PROVE  Inv'
<1>1. /\ req' = [req EXCEPT ![w] = NoRequest] /\ raced' = raced \cup req[w].touches
      /\ UNCHANGED <<creator, study, account, project, members, requests, own>>
  BY DEF Fails, rows
<1>2. TypeInv'
  <2>1. req[w].touches \subseteq Studies \X Everyone
    BY Subject DEF Request
  <2> QED
    BY <1>1, <2>1, NoRequestType DEF Inv, TypeInv, Valid
<1>3. \A s \in Studies, p \in Everyone : Same(s, p)
  BY <1>1 DEF Same, Mine
<1>4. raced \cup Shared(w) \subseteq raced'
  BY <1>1 DEF Shared
<1>5. \A s \in Studies, p \in Everyone : ~(Sole(w, s, p) /\ <<s, p>> \notin raced')
  BY <1>1 DEF Sole
<1> QED
  BY <1>1, <1>2, <1>3, <1>4, <1>5, EndFrame

-----------------------------------------------------------------------------
(* Requests begin *)

\* All pairs of a person, and no others.
LEMMA PairsType ==
    ASSUME NEW p \in People
    PROVE  /\ Pairs(p) \in SUBSET (Studies \X Everyone) /\ p \in Everyone
           /\ \A s, q : <<s, q>> \in Pairs(p) => q = p
  BY DEF Pairs, Everyone

LEMMA OpsHave ==
    /\ \A op \in OnPerson : op \in Ops \ {"create"} /\ op \in Ops
    /\ \A op \in OnPair : op \in Ops \ {"create"} /\ op \in Ops
    /\ "assign" \in Ops \ {"create"} /\ "assign" \in Ops
    /\ "invite" \in OnPerson /\ "role" \in OnPerson /\ "remove" \in OnPerson
    /\ "register" \in OnPerson /\ "study invite" \in OnPair /\ "study role" \in OnPair
    /\ "study remove" \in OnPair
  BY DEF Ops, OnPerson, OnPair

LEMMA NoRequestFields ==
    /\ NoRequest.op = "idle" /\ NoRequest.place = "begin" /\ NoRequest.touches = {}
    /\ NoRequest.number = 0 /\ NoRequest.role = "none" /\ NoRequest.linked = FALSE
    /\ NoRequest.seen = 0 /\ NoRequest.studies = {} /\ NoRequest.add = {}
    /\ NoRequest.demote = {}
  BY DEF NoRequest

LEMMA InviteStep ==
    ASSUME Inv, NEW w \in Workers, NEW p \in People, NEW role \in ProjectRoles, Invite(w, p, role)
    PROVE  Inv'
<1> DEFINE read == [NoRequest EXCEPT !.role = role, !.linked = HasAccount(p)]
<1>1. read \in Request
  <2>1. role \in StudyRoles /\ HasAccount(p) \in BOOLEAN
    BY DEF StudyRoles, HasAccount
  <2>2. [NoRequest EXCEPT !.role = role] \in Request
    BY <2>1, NoRequestType DEF Request
  <2> QED
    BY <2>1, <2>2 DEF Request
<1>2. /\ read.place = "begin" /\ read.role = role /\ read.linked = HasAccount(p)
      /\ read.studies = {} /\ read.add = {} /\ read.demote = {}
  BY NoRequestFields DEF NoRequest
<1> HIDE DEF read
<1>3. Begin(w, "invite", Pairs(p), read)
  BY DEF Invite, read
<1>4. /\ req'[w].op = "invite" /\ req'[w].touches = Pairs(p) /\ req'[w].number = requests'
      /\ req'[w].place = "begin" /\ req'[w].role = role /\ req'[w].linked = HasAccount(p)
      /\ req'[w].studies = {} /\ req'[w].add = {} /\ req'[w].demote = {}
      /\ requests' \in 1 .. requests'
  <2>1. Begun(w, "invite", Pairs(p), read)
    BY <1>1, <1>3, PairsType, OpsHave, Began, Zenon
  <2> QED
    BY <1>2, <2>1 DEF Begun
<1>5. account' = account /\ project' = project /\ ~Present(project[p])
  BY DEF Invite, Begin, rows
<1>6. ShapeOf(w)'
  BY <1>4 DEF ShapeOf, Exist, OnPerson, OnStudy, OnPair
<1>7. ASSUME NEW s \in Studies, NEW q \in Everyone, Sole(w, s, q)' PROVE ReadsOf(w, s, q)'
  <2>1. q = p
    BY <1>4, <1>7, PairsType DEF Sole
  <2>2. InviteReads(w, s, q)'
    BY <1>4, <1>5, <2>1 DEF InviteReads, HasAccount
  <2> QED
    BY <1>4, <2>2 DEF ReadsOf, ChangeReads, StudyReads, LinkReads, OnStudy
<1> QED
  BY <1>1, <1>3, <1>6, <1>7, PairsType, BeginFrame, OpsHave, Zenon

LEMMA ChangeRoleStep ==
    ASSUME Inv, NEW w \in Workers, NEW p \in People, NEW role \in ProjectRoles,
           ChangeRole(w, p, role)
    PROVE  Inv'
<1> DEFINE read == [NoRequest EXCEPT !.role = role, !.seen = project[p].by,
                                     !.studies = ProjectStudies]
<1>1. read \in Request
  <2>1. role \in StudyRoles /\ project[p].by \in Nat /\ ProjectStudies \in SUBSET Studies
    BY DEF StudyRoles, ProjectStudies, Inv, TypeInv, AnyRow
  <2>2. [NoRequest EXCEPT !.role = role] \in Request
    BY <2>1, NoRequestType DEF Request
  <2>3. [[NoRequest EXCEPT !.role = role] EXCEPT !.seen = project[p].by] \in Request
    BY <2>1, <2>2 DEF Request
  <2> QED
    BY <2>1, <2>3 DEF Request
<1>2. /\ read.place = "begin" /\ read.role = role /\ read.seen = project[p].by
      /\ read.studies = ProjectStudies /\ read.add = {} /\ read.demote = {}
  BY NoRequestFields DEF NoRequest
<1> HIDE DEF read
<1>3. Begin(w, "role", Pairs(p), read)
  BY DEF ChangeRole, read
<1>4. /\ req'[w].op = "role" /\ req'[w].touches = Pairs(p) /\ req'[w].number = requests'
      /\ req'[w].place = "begin" /\ req'[w].role = role /\ req'[w].seen = project[p].by
      /\ req'[w].studies = ProjectStudies /\ req'[w].add = {} /\ req'[w].demote = {}
      /\ requests' \in 1 .. requests'
  <2>1. Begun(w, "role", Pairs(p), read)
    BY <1>1, <1>3, PairsType, OpsHave, Began, Zenon
  <2> QED
    BY <1>2, <2>1 DEF Begun
<1>5. study' = study /\ project' = project /\ Present(project[p])
  BY DEF ChangeRole, Begin, rows
<1>6. ShapeOf(w)'
  <2>1. project[p].by # 0
    BY <1>5, RowsAreNumbered
  <2> QED
    BY <1>4, <1>5, <2>1 DEF ShapeOf, Exist, OnPerson, OnStudy, OnPair, ProjectStudies
<1>7. ASSUME NEW s \in Studies, NEW q \in Everyone, Sole(w, s, q)' PROVE ReadsOf(w, s, q)'
  <2>1. q = p
    BY <1>4, <1>7, PairsType DEF Sole
  <2>2. ChangeReads(w, s, q)'
    BY <1>4, <1>5, <2>1 DEF ChangeReads, ProjectStudies
  <2> QED
    BY <1>4, <2>2 DEF ReadsOf, InviteReads, StudyReads, LinkReads, OnStudy
<1> QED
  BY <1>1, <1>3, <1>6, <1>7, PairsType, BeginFrame, OpsHave, Zenon

LEMMA RemoveStep ==
    ASSUME Inv, NEW w \in Workers, NEW p \in People, Remove(w, p)
    PROVE  Inv'
<1> DEFINE demote == {s \in ProjectStudies : project[p].linked /\ creator[s] = p}
           read == [NoRequest EXCEPT !.seen = project[p].by, !.studies = ProjectStudies,
                                     !.demote = demote]
<1>0. demote \subseteq ProjectStudies /\ \A s \in demote : creator[s] = p
  OBVIOUS
<1>1. read \in Request
  <2>1. project[p].by \in Nat /\ ProjectStudies \in SUBSET Studies /\ demote \in SUBSET Studies
    BY DEF ProjectStudies, Inv, TypeInv, AnyRow
  <2>2. [NoRequest EXCEPT !.seen = project[p].by] \in Request
    BY <2>1, NoRequestType DEF Request
  <2>3. [[NoRequest EXCEPT !.seen = project[p].by] EXCEPT !.studies = ProjectStudies] \in Request
    BY <2>1, <2>2 DEF Request
  <2> QED
    BY <2>1, <2>3 DEF Request
<1>2. /\ read.place = "begin" /\ read.seen = project[p].by
      /\ read.studies = ProjectStudies /\ read.add = {} /\ read.demote = demote
  BY NoRequestFields DEF NoRequest
<1>3. Begin(w, "remove", Pairs(p), read)
  BY DEF Remove
<1> HIDE DEF read, demote
<1>4. /\ req'[w].op = "remove" /\ req'[w].touches = Pairs(p) /\ req'[w].number = requests'
      /\ req'[w].place = "begin" /\ req'[w].seen = project[p].by
      /\ req'[w].studies = ProjectStudies /\ req'[w].add = {} /\ req'[w].demote = demote
      /\ requests' \in 1 .. requests'
  <2>1. Begun(w, "remove", Pairs(p), read)
    BY <1>1, <1>3, PairsType, OpsHave, Began, Zenon
  <2> QED
    BY <1>2, <2>1 DEF Begun
<1>5. study' = study /\ project' = project /\ creator' = creator /\ Present(project[p])
  BY DEF Remove, Begin, rows
<1>6. ShapeOf(w)'
  <2>1. \A s \in demote : <<s, creator'[s]>> \in Pairs(p)
    BY <1>0, <1>5 DEF Pairs, ProjectStudies
  <2> QED
    BY <1>0, <1>4, <1>5, <2>1 DEF ShapeOf, Exist, OnPerson, OnStudy, OnPair, ProjectStudies
<1>7. ASSUME NEW s \in Studies, NEW q \in Everyone, Sole(w, s, q)' PROVE ReadsOf(w, s, q)'
  <2>1. q = p
    BY <1>4, <1>7, PairsType DEF Sole
  <2>2. ChangeReads(w, s, q)'
    BY <1>0, <1>4, <1>5, <2>1 DEF ChangeReads, ProjectStudies
  <2> QED
    BY <1>4, <2>2 DEF ReadsOf, InviteReads, StudyReads, LinkReads, OnStudy
<1> QED
  BY <1>1, <1>3, <1>6, <1>7, PairsType, BeginFrame, OpsHave, Zenon

LEMMA AssignStep ==
    ASSUME Inv, NEW w \in Workers, NEW s \in Studies, Assign(w, s)
    PROVE  Inv'
<1> DEFINE touches == {s} \X Everyone
<1>1. Begin(w, "assign", touches, NoRequest) /\ study[s] = "alone"
  BY DEF Assign
<1>2. touches \in SUBSET (Studies \X Everyone) /\ \A r, q : <<r, q>> \in touches => r = s
  OBVIOUS
<1> HIDE DEF touches
<1>3. /\ req'[w].op = "assign" /\ req'[w].touches = touches /\ req'[w].number = requests'
      /\ req'[w].place = "begin" /\ req'[w].studies = {} /\ req'[w].add = {}
      /\ req'[w].demote = {} /\ req[w].touches = {} /\ requests' \in 1 .. MaxRequests
      /\ req' = [req EXCEPT ![w] = req'[w]]
      /\ requests' \in 1 .. requests'
  <2>1. Begun(w, "assign", touches, NoRequest)
    BY <1>1, <1>2, OpsHave, NoRequestType, Began, Zenon
  <2> QED
    BY <2>1, NoRequestFields DEF Begun
<1>4. study' = study /\ members' = members /\ own' = own /\ raced' = raced
  BY <1>1 DEF Begin, rows
<1>5. ShapeOf(w)'
  <2>1. requests' \in 1 .. requests'
    BY <1>3
  <2>2. touches = {s} \X Everyone /\ study'[s] # "none"
    BY <1>1, <1>4 DEF touches
  <2> QED
    BY <1>3, <2>1, <2>2 DEF ShapeOf, Exist, OnPerson, OnStudy, OnPair
<1>6. ASSUME NEW r \in Studies, NEW q \in Everyone, Sole(w, r, q)' PROVE ReadsOf(w, r, q)'
  <2>1. r = s /\ <<r, q>> \notin raced
    BY <1>2, <1>3, <1>4, <1>6 DEF Sole
  <2>2. \A v \in Workers : ~Creates(v, r, q)
    <3>1. \A v \in Workers \ {w} : req'[v] = req[v]
      BY <1>3 DEF Inv, TypeInv
    <3> QED
      BY <1>3, <1>6, <3>1 DEF Sole, Creates
  <2>3. ~Mine(r, q) => ~Present(members[r][q])
    BY <1>1, <2>1, <2>2 DEF Inv, PairInv, Follows
  <2>4. StudyReads(w, r, q)'
    BY <1>3, <1>4, <2>3 DEF StudyReads, Mine
  <2> QED
    BY <1>3, <2>4 DEF ReadsOf, InviteReads, ChangeReads, LinkReads
<1> QED
  BY <1>1, <1>2, <1>5, <1>6, NoRequestType, BeginFrame, OpsHave, Zenon

\* Requests about one pair.
LEMMA OnePair ==
    ASSUME Inv, NEW w \in Workers, NEW op \in OnPair, NEW s \in Studies, NEW p \in Everyone,
           NEW read \in Request, Begin(w, op, {<<s, p>>}, read), study[s] # "none",
           op = "study role" => read.role \in StudyRoles /\ read.seen # 0,
           read.place = "begin",
           read.studies = {}, read.demote = {},
           \A t \in read.add : t.s = s /\ t.p = p /\ (HasAccount(p) => t.linked)
    PROVE  Inv'
<1>1. {<<s, p>>} \in SUBSET (Studies \X Everyone) /\ op \in Ops \ {"create"} /\ op \in Ops
  <2>1. op \in Ops \ {"create"} /\ op \in Ops
    BY OpsHave, Zenon
  <2>2. <<s, p>> \in Studies \X Everyone
    OBVIOUS
  <2> QED
    BY <2>1, <2>2, Zenon
<1>2. /\ req'[w].op = op /\ req'[w].touches = {<<s, p>>} /\ req'[w].number = requests'
      /\ req'[w].place = "begin" /\ req'[w].role = read.role /\ req'[w].seen = read.seen
      /\ req'[w].studies = {} /\ req'[w].add = read.add /\ req'[w].demote = {}
      /\ requests' \in 1 .. requests'
  <2>1. Begun(w, op, {<<s, p>>}, read)
    BY <1>1, Began, Zenon
  <2> QED
    BY <2>1 DEF Begun
<1>3. study' = study /\ account' = account
  BY DEF Begin
<1>4. ShapeOf(w)'
  BY <1>2, <1>3 DEF ShapeOf, Exist, OnPerson, OnStudy, OnPair
<1>5. ASSUME NEW r \in Studies, NEW q \in Everyone, Sole(w, r, q)' PROVE ReadsOf(w, r, q)'
  <2>1. q = p
    BY <1>2, <1>5 DEF Sole
  <2>2. LinkReads(w, r, q)'
    BY <1>2, <1>3, <2>1 DEF LinkReads, HasAccount
  <2> QED
    BY <1>2, <2>2 DEF ReadsOf, InviteReads, ChangeReads, StudyReads, OnStudy, OnPair
<1> QED
  BY <1>1, <1>4, <1>5, BeginFrame, Zenon

LEMMA InviteToStudyStep ==
    ASSUME Inv, NEW w \in Workers, NEW s \in Studies, NEW p \in Everyone,
           NEW role \in StudyRoles, InviteToStudy(w, s, p, role)
    PROVE  Inv'
<1> DEFINE t == Added(s, p, role, HasAccount(p))
           read == [NoRequest EXCEPT !.role = role, !.linked = HasAccount(p), !.add = {t}]
<1>1. t \in Additions /\ t.s = s /\ t.p = p /\ (HasAccount(p) => t.linked)
  BY DEF Added, Additions, HasAccount
<1>2. Begin(w, "study invite", {<<s, p>>}, read) /\ study[s] # "none"
  BY DEF InviteToStudy
<1> HIDE DEF t
<1>3. read \in Request
  <2>1. HasAccount(p) \in BOOLEAN
    BY DEF HasAccount
  <2>2. [NoRequest EXCEPT !.role = role] \in Request
    BY NoRequestType DEF Request
  <2>3. [[NoRequest EXCEPT !.role = role] EXCEPT !.linked = HasAccount(p)] \in Request
    BY <2>1, <2>2 DEF Request
  <2> QED
    BY <1>1, <2>3 DEF Request
<1>4. read.place = "begin" /\ read.studies = {} /\ read.demote = {} /\ read.add = {t}
  BY NoRequestFields DEF NoRequest
<1> HIDE DEF read
<1>5. "study invite" \in OnPair
  BY OpsHave
<1>6. "study invite" # "study role"
  OBVIOUS
<1>7. \A u \in read.add : u.s = s /\ u.p = p /\ (HasAccount(p) => u.linked)
  BY <1>1, <1>4
<1> QED
  BY <1>2, <1>3, <1>4, <1>5, <1>6, <1>7, OnePair, Zenon

LEMMA ChangeStudyRoleStep ==
    ASSUME Inv, NEW w \in Workers, NEW s \in Studies, NEW p \in Everyone,
           NEW role \in StudyRoles, ChangeStudyRole(w, s, p, role) \/ RemoveFromStudy(w, s, p)
    PROVE  Inv'
<1>1. study[s] # "none"
  <2>1. Present(members[s][p])
    BY DEF ChangeStudyRole, RemoveFromStudy
  <2> QED
    BY <2>1 DEF Inv, TypeInv
<1>2. members[s][p].by \in Nat /\ members[s][p].by # 0
  <2>1. Present(members[s][p])
    BY DEF ChangeStudyRole, RemoveFromStudy
  <2> QED
    BY <2>1, RowsAreNumbered DEF Inv, TypeInv, AnyRow
<1>3. CASE ChangeStudyRole(w, s, p, role)
  <2> DEFINE read == [NoRequest EXCEPT !.role = role, !.seen = members[s][p].by]
  <2>1. read \in Request
    <3>1. [NoRequest EXCEPT !.role = role] \in Request
      BY NoRequestType DEF Request
    <3> QED
      BY <1>2, <3>1 DEF Request
  <2>2. /\ read.place = "begin" /\ read.studies = {} /\ read.demote = {} /\ read.add = {}
        /\ read.role = role /\ read.seen # 0
    BY <1>2, NoRequestFields DEF NoRequest
  <2>3. Begin(w, "study role", {<<s, p>>}, read)
    BY <1>3 DEF ChangeStudyRole
  <2> HIDE DEF read
  <2> QED
    BY <1>1, <2>1, <2>2, <2>3, OnePair, OpsHave, Zenon
<1>4. CASE RemoveFromStudy(w, s, p)
  <2> DEFINE read == [NoRequest EXCEPT !.seen = members[s][p].by]
  <2>1. read \in Request
    BY <1>2, NoRequestType DEF Request
  <2>2. read.place = "begin" /\ read.studies = {} /\ read.demote = {} /\ read.add = {}
    BY NoRequestFields DEF NoRequest
  <2>3. Begin(w, "study remove", {<<s, p>>}, read)
    BY <1>4 DEF RemoveFromStudy
  <2> HIDE DEF read
  <2> QED
    BY <1>1, <2>1, <2>2, <2>3, OnePair, OpsHave, Zenon
<1> QED
  BY <1>3, <1>4

\* A request that has not read anything.
Fresh(op, touches, number) ==
    [NoRequest EXCEPT !.op = op, !.touches = touches, !.number = number]

IsFresh(r, op, touches, number) ==
    /\ r \in Request /\ r.op = op /\ r.touches = touches /\ r.number = number
    /\ r.place = "begin" /\ r.studies = {} /\ r.add = {} /\ r.demote = {}

LEMMA FreshIs ==
    ASSUME NEW op \in Ops, NEW touches \in SUBSET (Studies \X Everyone), NEW number \in Nat
    PROVE  IsFresh(Fresh(op, touches, number), op, touches, number)
<1>1. [NoRequest EXCEPT !.op = op] \in Request
  BY NoRequestType DEF Request
<1>2. [[NoRequest EXCEPT !.op = op] EXCEPT !.touches = touches] \in Request
  BY <1>1 DEF Request
<1>3. Fresh(op, touches, number) \in Request
  BY <1>2 DEF Request, Fresh
<1> QED
  BY <1>3, NoRequestFields DEF Fresh, NoRequest, IsFresh

LEMMA CreateStudyStep ==
    ASSUME Inv, NEW w \in Workers, NEW s \in Studies, CreateStudy(w, s)
    PROVE  Inv'
<1> DEFINE touches == {s} \X Everyone
           r == Fresh("create", touches, requests + 1)
<1>1. /\ requests \in Nat /\ requests' = requests + 1 /\ requests' \in 0 .. MaxRequests
      /\ requests' \in 1 .. requests' /\ requests' \in Nat /\ requests <= requests'
  BY BoundAssumption DEF CreateStudy, Inv, TypeInv
<1>2. /\ study[s] = "none" /\ study' = [study EXCEPT ![s] = "project"]
      /\ req[w].touches = {} /\ req' = [req EXCEPT ![w] = r]
      /\ UNCHANGED <<creator, account, project, members, raced, own>>
  <2>1. req[w] = NoRequest
    BY IdleIs DEF CreateStudy
  <2> QED
    BY <2>1, NoRequestFields DEF CreateStudy, rows, Fresh
<1>3. touches \in SUBSET (Studies \X Everyone) /\ \A t, q : <<t, q>> \in touches => t = s
  OBVIOUS
<1>4. /\ r \in Request /\ r.op = "create" /\ r.touches = touches /\ r.number = requests'
      /\ r.place = "begin" /\ r.studies = {} /\ r.add = {} /\ r.demote = {}
  <2>1. "create" \in Ops
    BY DEF Ops
  <2>2. requests + 1 \in Nat
    BY <1>1
  <2>3. IsFresh(r, "create", touches, requests + 1)
    BY <1>3, <2>1, <2>2, FreshIs, Zenon
  <2> QED
    BY <1>1, <2>3 DEF IsFresh
<1> HIDE DEF r
<1>5. req'[w] = r /\ req' \in [Workers -> Request] /\ \A v \in Workers \ {w} : req'[v] = req[v]
  BY <1>2, <1>4 DEF Inv, TypeInv
<1>6. /\ study' \in [Studies -> {"none", "alone", "project"}] /\ study'[s] = "project"
      /\ \A t \in Studies : t # s => study'[t] = study[t]
      /\ \A t \in Studies : study[t] # "none" => study'[t] # "none"
  BY <1>2 DEF Inv, TypeInv
<1>7. TypeInv'
  BY <1>1, <1>2, <1>5, <1>6, TypesGrow DEF Inv, TypeInv
<1>8. ShapeOf(w)'
  BY <1>1, <1>4, <1>5, <1>6 DEF ShapeOf, Exist, OnPerson, OnStudy, OnPair
<1> HIDE DEF touches
<1>9. Passes(w)
  BY <1>2 DEF Passes
<1>10. ASSUME NEW t \in Studies, NEW q \in Everyone, <<t, q>> \notin req[w].touches \cup r.touches
       PROVE  Same(t, q)
  <2>1. t # s
    BY <1>4, <1>10 DEF touches
  <2> QED
    BY <1>2, <1>6, <2>1 DEF Same, Mine
<1>11. ASSUME NEW t \in Studies, NEW q \in Everyone, Sole(w, t, q)' PROVE ReadsOf(w, t, q)'
  <2>1. t = s
    BY <1>3, <1>4, <1>5, <1>11 DEF Sole
  <2>2. ~Present(members'[t][q])
    BY <1>2, <2>1 DEF Inv, TypeInv
  <2>3. StudyReads(w, t, q)'
    BY <1>4, <1>5, <1>6, <2>1, <2>2 DEF StudyReads
  <2> QED
    BY <1>4, <1>5, <2>3 DEF ReadsOf, InviteReads, ChangeReads, LinkReads
<1>12. ASSUME NEW t \in Studies, NEW q \in Everyone, <<t, q>> \in req[w].touches \cup r.touches
       PROVE  PairInv(t, q)'
  <2>1. Creates(w, t, q)'
    BY <1>2, <1>4, <1>5, <1>12 DEF Creates
  <2>2. PairInv(t, q)
    BY DEF Inv
  <2> QED
    BY <1>2, <2>1, <2>2 DEF PairInv, LinkedPair
<1> QED
  BY <1>1, <1>2, <1>4, <1>6, <1>7, <1>8, <1>9, <1>10, <1>11, <1>12, Frame

\* update_study puts a study into the project: the pairs it does not copy are
\* those of the study, those that requests are after have raced.
LEMMA MoveStudyStep ==
    ASSUME Inv, NEW w \in Workers, NEW s \in Studies, MoveStudy(w, s)
    PROVE  Inv'
<1>1. /\ requests \in Nat /\ requests' = requests + 1 /\ requests' \in 0 .. MaxRequests
      /\ requests' \in Nat /\ requests <= requests'
  BY BoundAssumption DEF MoveStudy, Inv, TypeInv
<1>2. /\ UNCHANGED <<creator, account, project, members, req>>
      /\ own' = own \cup Uncopied(s) /\ study[s] = "alone"
      /\ raced' = raced \cup (({s} \X Everyone) \cap UNION {req[v].touches : v \in Workers})
  BY DEF MoveStudy, rows
<1>3. /\ study' \in [Studies -> {"none", "alone", "project"}] /\ study'[s] = "project"
      /\ \A t \in Studies : t # s => study'[t] = study[t]
      /\ \A t \in Studies : study[t] # "none" => study'[t] # "none"
  BY DEF MoveStudy, Moved, Inv, TypeInv
<1>4. TypeInv'
  <2>1. \A p \in People : Valid(project[p], ProjectRoles)'
    BY <1>1, <1>2, ValidGrows DEF Inv, TypeInv, Valid
  <2>2. \A t \in Studies, p \in Everyone :
            /\ Valid(members[t][p], StudyRoles)'
            /\ Present(members[t][p])' => study'[t] # "none"
    BY <1>1, <1>2, <1>3, ValidGrows DEF Inv, TypeInv, Valid
  <2>3. raced' \subseteq Studies \X Everyone /\ own' \subseteq Studies \X Everyone
    BY <1>2 DEF Uncopied, Everyone, Inv, TypeInv
  <2> QED
    BY <1>1, <1>2, <1>3, <2>1, <2>2, <2>3 DEF Inv, TypeInv
<1>5. ASSUME NEW v \in Workers PROVE ShapeOf(v)'
  <2>1. req'[v] = req[v] /\ ShapeOf(v) /\ req[v] \in Request
    BY <1>2, Subject
  <2>2. req[v].op # "idle" => req[v].number \in 1 .. requests'
    <3>1. req[v].op # "idle" => req[v].number \in 1 .. requests
      BY <2>1 DEF ShapeOf
    <3> QED
      BY ONLY <1>1, <3>1
  <2>3. Exist(req[v].studies)' /\ Exist(req[v].demote)'
    BY <1>3, <2>1 DEF ShapeOf, Exist, Request
  <2>4. req[v].op \in OnStudy =>
            \E t \in Studies : req[v].touches = {t} \X Everyone /\ study'[t] # "none"
    BY <1>3, <2>1, Zenon DEF ShapeOf
  <2>5. req[v].op \in OnPair =>
            \E t \in Studies, p \in Everyone : req[v].touches = {<<t, p>>} /\ study'[t] # "none"
    BY <1>3, <2>1, Zenon DEF ShapeOf
  <2>6. \A t \in req[v].add : <<t.s, t.p>> \in req[v].touches /\ study'[t.s] # "none"
    BY <1>3, <2>1 DEF ShapeOf, Request, Additions
  <2>7. /\ req[v].op = "idle" => req[v] = NoRequest
        /\ req[v].op \in OnPerson => \E p \in People : req[v].touches = Pairs(p)
        /\ req[v].op \in {"invite", "role"} => req[v].role \in ProjectRoles
        /\ req[v].op = "study role" => req[v].role \in StudyRoles
        /\ req[v].op \in {"role", "study role"} => req[v].seen # 0
        /\ req[v].op = "assign" /\ req[v].demote # {} => req[v].seen # 0
        /\ \A t \in req[v].demote : <<t, creator'[t]>> \in req[v].touches
    BY <1>2, <2>1 DEF ShapeOf
  <2> QED
    BY ONLY <2>1, <2>2, <2>3, <2>4, <2>5, <2>6, <2>7, Zenon DEF ShapeOf
<1>6. ASSUME NEW v \in Workers, NEW t \in Studies, NEW p \in Everyone, Sole(v, t, p)'
      PROVE  ReadsOf(v, t, p)'
  <2>1. t # s
    BY <1>2, <1>6 DEF Sole
  <2>2. Same(t, p)
    BY <1>2, <1>3, <2>1 DEF Same, Mine, Uncopied
  <2>3. Sole(v, t, p)
    BY <1>2, <1>6 DEF Sole
  <2>4. ReadsOf(v, t, p)
    BY <2>3, Subject DEF Reads
  <2>5. req[v].op \in OnPerson => p \in People
    BY <2>3, Subject DEF Sole, Pairs
  <2>6. InviteReads(v, t, p)' /\ ChangeReads(v, t, p)'
    BY <1>2, <2>2, <2>4, <2>5 DEF ReadsOf, InviteReads, ChangeReads, Same, OnPerson, Adds
  <2>7. StudyReads(v, t, p)' /\ LinkReads(v, t, p)'
    BY <1>2, <2>2, <2>4 DEF ReadsOf, StudyReads, LinkReads, Same, Adds, Copied
  <2> QED
    BY <2>6, <2>7 DEF ReadsOf
<1>7. ASSUME NEW t \in Studies, NEW p \in Everyone PROVE PairInv(t, p)'
  <2>1. PairInv(t, p)
    BY DEF Inv
  <2>2. LinkedPair(t, p)' <=> LinkedPair(t, p)
    BY <1>2 DEF LinkedPair
  <2>3. \A v \in Workers : Creates(v, t, p)' <=> Creates(v, t, p)
    BY <1>2 DEF Creates
  <2>4. CASE t # s
    <3>1. Same(t, p)
      BY <1>2, <1>3, <2>4 DEF Same, Mine, Uncopied
    <3>2. Follows(t, p) => Follows(t, p)'
      BY <1>2, <3>1 DEF Follows, Same, Everyone
    <3> QED
      BY <1>2, <2>1, <2>2, <2>3, <3>1, <3>2 DEF PairInv, Same
  <2>5. CASE t = s
    <3>1. ~Mine(t, p)' => p # Owner /\ p \in People /\ ~Present(project[p]) /\ ~Mine(t, p)
      BY <1>2, <2>5 DEF Mine, Uncopied, Everyone
    <3>2. Follows(t, p) /\ ~Mine(t, p)' => Follows(t, p)'
      BY <1>2, <1>3, <2>5, <3>1 DEF Follows
    <3> QED
      BY <1>2, <2>1, <2>2, <2>3, <3>1, <3>2 DEF PairInv
  <2> QED
    BY <2>4, <2>5
<1> QED
  BY <1>4, <1>5, <1>6, <1>7 DEF Inv, Reads

LEMMA RegisterStep ==
    ASSUME Inv, NEW w \in Workers, NEW p \in People, Register(w, p)
    PROVE  Inv'
<1> DEFINE r == Fresh("register", Pairs(p), requests + 1)
<1>1. /\ requests \in Nat /\ requests' = requests + 1 /\ requests' \in 0 .. MaxRequests
      /\ requests' \in 1 .. requests' /\ requests' \in Nat /\ requests <= requests'
  BY BoundAssumption DEF Register, Inv, TypeInv
<1>2. /\ account' = [account EXCEPT ![p] = "created"]
      /\ req[w].touches = {} /\ req' = [req EXCEPT ![w] = r]
      /\ UNCHANGED <<creator, study, project, members, raced, own>>
  <2>1. req[w] = NoRequest
    BY IdleIs DEF Register
  <2> QED
    BY <2>1, NoRequestFields DEF Register, rows, Fresh
<1>3. /\ r \in Request /\ r.op = "register" /\ r.touches = Pairs(p) /\ r.number = requests'
      /\ r.place = "begin" /\ r.studies = {} /\ r.add = {} /\ r.demote = {}
  <2>1. "register" \in Ops
    BY DEF Ops
  <2>2. requests + 1 \in Nat
    BY <1>1
  <2>3. IsFresh(r, "register", Pairs(p), requests + 1)
    BY <2>1, <2>2, PairsType, FreshIs, Zenon
  <2> QED
    BY <1>1, <2>3 DEF IsFresh
<1> HIDE DEF r
<1>4. req'[w] = r /\ req' \in [Workers -> Request] /\ \A v \in Workers \ {w} : req'[v] = req[v]
  BY <1>2, <1>3 DEF Inv, TypeInv
<1>5. /\ account' \in [People -> {"never", "none", "created", "linked"}] /\ account'[p] = "created"
      /\ \A q \in People : q # p => account'[q] = account[q]
  BY <1>2 DEF Inv, TypeInv
<1>6. TypeInv'
  BY <1>1, <1>2, <1>4, <1>5, TypesGrow DEF Inv, TypeInv
<1>7. ShapeOf(w)'
  BY <1>1, <1>3, <1>4 DEF ShapeOf, Exist, OnPerson, OnStudy, OnPair
<1>8. Passes(w)
  BY <1>2 DEF Passes
<1>9. ASSUME NEW t \in Studies, NEW q \in Everyone, <<t, q>> \notin req[w].touches \cup r.touches
      PROVE  Same(t, q)
  <2>1. q # p
    BY <1>3, <1>9 DEF Pairs
  <2> QED
    BY <1>2, <1>5, <2>1 DEF Same, Mine
<1>10. ASSUME NEW t \in Studies, NEW q \in Everyone, Sole(w, t, q)' PROVE ReadsOf(w, t, q)'
  BY <1>3, <1>4 DEF ReadsOf, InviteReads, ChangeReads, StudyReads, LinkReads, OnStudy
<1>11. ASSUME NEW t \in Studies, NEW q \in Everyone, <<t, q>> \in req[w].touches \cup r.touches
       PROVE  PairInv(t, q)'
  <2>1. q = p
    BY <1>2, <1>3, <1>11, PairsType
  <2>2. LinkedPair(t, q)'
    BY <1>5, <2>1 DEF LinkedPair
  <2>3. \A v \in Workers : Creates(v, t, q) => Creates(v, t, q)'
    BY <1>2, <1>4 DEF Creates
  <2>4. PairInv(t, q)
    BY DEF Inv
  <2> QED
    BY <1>2, <2>2, <2>3, <2>4 DEF PairInv, Follows, Mine
<1> QED
  BY <1>1, <1>2, <1>3, <1>6, <1>7, <1>8, <1>9, <1>10, <1>11, Frame

-----------------------------------------------------------------------------
(* Requests go on *)

\* A request that reads on keeps what it is about.
LEMMA ReadsOn ==
    ASSUME Inv, NEW w \in Workers, NEW r \in Request, req' = [req EXCEPT ![w] = r],
           req[w].op # "idle", r.op = req[w].op, r.touches = req[w].touches,
           r.number = req[w].number, r.role = req[w].role, r.studies = req[w].studies,
           \A t \in r.add : <<t.s, t.p>> \in r.touches /\ study[t.s] # "none",
           Exist(r.demote), \A s \in r.demote : <<s, creator[s]>> \in r.touches,
           r.op \in {"role", "study role"} => r.seen # 0,
           r.op = "assign" /\ r.demote # {} => r.seen # 0,
           UNCHANGED <<creator, study, account, rows, requests, raced, own>>,
           \A s \in Studies, p \in Everyone : Sole(w, s, p) => ReadsOf(w, s, p)'
    PROVE  Inv'
<1>1. req'[w] = r /\ study' = study /\ requests' = requests /\ creator' = creator
  BY DEF Inv, TypeInv
<1>2. ShapeOf(w)
  BY DEF Inv
<1>3. /\ r.op \in OnPerson => \E p \in People : r.touches = Pairs(p)
      /\ r.op \in OnStudy =>
            \E s \in Studies : r.touches = {s} \X Everyone /\ study[s] # "none"
      /\ r.op \in OnPair =>
            \E s \in Studies, p \in Everyone : r.touches = {<<s, p>>} /\ study[s] # "none"
  BY <1>2, Zenon DEF ShapeOf
<1>4. /\ r.op # "idle" /\ r.number \in 1 .. requests /\ Exist(r.studies)
      /\ r.op \in {"invite", "role"} => r.role \in ProjectRoles
      /\ r.op = "study role" => r.role \in StudyRoles
  BY <1>2 DEF ShapeOf
<1>5. ShapeOf(w)'
  BY <1>1, <1>3, <1>4, Zenon DEF ShapeOf, Exist
<1> QED
  BY <1>5, MiddleFrame

LEMMA AddedIs ==
    \A s, p, role, linked :
        /\ Added(s, p, role, linked).s = s /\ Added(s, p, role, linked).p = p
        /\ Added(s, p, role, linked).role = role /\ Added(s, p, role, linked).linked = linked
  BY DEF Added

LEMMA AddedType ==
    \A s \in Studies, p \in Everyone, role \in StudyRoles, linked \in BOOLEAN :
        Added(s, p, role, linked) \in Additions
  BY DEF Added, Additions

LEMMA InviteFlushStep ==
    ASSUME Inv, NEW w \in Workers, InviteFlush(w)
    PROVE  Inv'
<1> DEFINE p == Person(w)
           add == SyncMember(req[w].role, req[w].linked, p)
           r == [req[w] EXCEPT !.place = "commit", !.add = add]
<1>1. CASE Present(project[p])
  BY <1>1, FailsStep DEF InviteFlush
<1>2. CASE ~Present(project[p])
  <2>1. /\ req[w].op = "invite" /\ req[w] \in Request /\ ShapeOf(w) /\ Reads(w)
        /\ p \in People /\ req[w].touches = Pairs(p)
    BY Subject DEF InviteFlush, At, OnPerson
  <2>2. req' = [req EXCEPT ![w] = r]
    BY <1>2 DEF InviteFlush, Inv, TypeInv
  <2>3. UNCHANGED <<creator, study, account, rows, requests, raced, own>>
    BY <1>2 DEF InviteFlush
  <2>4. req[w].role \in ProjectRoles /\ req[w].linked \in BOOLEAN
    BY <2>1 DEF ShapeOf, Request
  <2>5. /\ add \in SUBSET Additions
        /\ \A t \in add : /\ t.p = p /\ t.role = req[w].role /\ t.linked = req[w].linked
                          /\ <<t.s, t.p>> \in Pairs(p) /\ study[t.s] = "project"
        /\ \A s \in Studies : study[s] = "project" =>
              Present(members[s][p]) \/ \E t \in add : t.s = s /\ t.p = p
    <3> DEFINE open == {s \in ProjectStudies : ~Present(members[s][p])}
    <3>1. add = {Added(s, p, req[w].role, req[w].linked) : s \in open}
      BY DEF SyncMember
    <3>2. /\ open \subseteq Studies /\ \A s \in open : study[s] = "project"
          /\ \A s \in Studies : study[s] = "project" => Present(members[s][p]) \/ s \in open
      BY DEF ProjectStudies
    <3>3. p \in Everyone /\ req[w].role \in StudyRoles /\ req[w].linked \in BOOLEAN
      BY <2>1, <2>4 DEF Everyone, StudyRoles
    <3> HIDE DEF open, add
    <3>4. \A t \in add : \E s \in open : t = Added(s, p, req[w].role, req[w].linked)
      BY <3>1, Zenon
    <3>5. \A s \in open : Added(s, p, req[w].role, req[w].linked) \in add
      BY <3>1, Zenon
    <3>6. add \in SUBSET Additions
      <4>1. \A s \in open : Added(s, p, req[w].role, req[w].linked) \in Additions
        BY <3>2, <3>3, AddedType
      <4> QED
        BY <3>4, <4>1
    <3>7. \A t \in add : /\ t.p = p /\ t.role = req[w].role /\ t.linked = req[w].linked
                          /\ t.s \in open
      BY <3>4, AddedIs
    <3>8. \A s \in open : \E t \in add : t.s = s /\ t.p = p
      BY <3>5, AddedIs
    <3> QED
      BY <3>2, <3>6, <3>7, <3>8 DEF Pairs
  <2> HIDE DEF add
  <2>6. /\ r \in Request /\ r.op = req[w].op /\ r.touches = req[w].touches
        /\ r.number = req[w].number /\ r.role = req[w].role /\ r.studies = req[w].studies
        /\ r.add = add /\ r.demote = req[w].demote /\ r.linked = req[w].linked
        /\ r.place = "commit"
    BY <2>1, <2>5 DEF Request
  <2> HIDE DEF r
  <2>7. req'[w] = r /\ study' = study /\ project' = project /\ account' = account
        /\ members' = members
    BY <2>2, <2>3 DEF Inv, TypeInv, rows
  <2>8. ASSUME NEW s \in Studies, NEW q \in Everyone, Sole(w, s, q) PROVE ReadsOf(w, s, q)'
    <3>1. ReadsOf(w, s, q)
      BY <2>1, <2>8 DEF Reads
    <3>2. q = p
      BY <2>1, <2>8, PairsType DEF Sole
    <3>3. account[p] = "linked" => req[w].linked
      BY <2>1, <3>1, <3>2 DEF ReadsOf, InviteReads
    <3>4. InviteReads(w, s, q)'
      BY <1>2, <2>5, <2>6, <2>7, <3>2, <3>3 DEF InviteReads, Adds
    <3>5. LinkReads(w, s, q)'
      BY <2>1, <2>5, <2>6, <2>7, <3>2, <3>3 DEF LinkReads
    <3> QED
      BY <2>1, <2>6, <2>7, <3>4, <3>5 DEF ReadsOf, ChangeReads, StudyReads, OnStudy
  <2>9. \A t \in r.add : <<t.s, t.p>> \in r.touches /\ study[t.s] # "none"
    BY <2>1, <2>5, <2>6
  <2>10. Exist(r.demote) /\ \A s \in r.demote : <<s, creator[s]>> \in r.touches
    BY <2>1, <2>6 DEF ShapeOf
  <2>11. req[w].op # "idle" /\ r.op \notin {"role", "study role", "assign"}
    BY <2>1, <2>6
  <2> QED
    BY <2>2, <2>3, <2>6, <2>8, <2>9, <2>10, <2>11, ReadsOn
<1> QED
  BY <1>1, <1>2

\* The additions of a study: who is in the project, or the creator as viewer.
LEMMA SyncStudyIs ==
    ASSUME Inv, NEW s \in Studies
    PROVE  /\ SyncStudy(s) \in SUBSET Additions
           /\ \A t \in SyncStudy(s) : /\ t.s = s /\ t.p \in Everyone /\ Copied(t, t.p)
                                      /\ t.p \in People => t.linked = project[t.p].linked
           /\ \A p \in Everyone : ~Present(members[s][p]) =>
                 \/ \E t \in SyncStudy(s) : t.s = s /\ t.p = p
                 \/ p \in People /\ ~Present(project[p])
<1>1. \A p \in People : Present(project[p]) =>
          project[p].role \in StudyRoles /\ project[p].linked \in BOOLEAN
  BY DEF Inv, TypeInv, Valid, Present, NoRow, StudyRoles, AnyRow
<1>2. /\ OwnerRow(s) \in SUBSET Additions
      /\ \A t \in OwnerRow(s) : t.s = s /\ t.p = Owner /\ t.role = "admin"
      /\ ~Present(members[s][Owner]) => \E t \in OwnerRow(s) : t.s = s /\ t.p = Owner
  <2> DEFINE t == Added(s, Owner, "admin", TRUE)
  <2>1. t \in Additions
    BY AddedType DEF Everyone, StudyRoles
  <2>2. t.s = s /\ t.p = Owner /\ t.role = "admin"
    BY DEF Added
  <2>3. OwnerRow(s) = IF Present(members[s][Owner]) THEN {} ELSE {t}
    BY DEF OwnerRow
  <2> HIDE DEF t
  <2> QED
    BY <2>1, <2>2, <2>3
<1>3. /\ MissingMembers(s) \in SUBSET Additions
      /\ \A t \in MissingMembers(s) :
            /\ t.s = s /\ t.p \in People /\ Present(project[t.p])
            /\ t.role = project[t.p].role /\ t.linked = project[t.p].linked
      /\ \A p \in People : Present(project[p]) /\ ~Present(members[s][p]) =>
            \E t \in MissingMembers(s) : t.s = s /\ t.p = p
  <2> DEFINE open == {p \in People : Present(project[p]) /\ ~Present(members[s][p])}
             New(p) == Added(s, p, project[p].role, project[p].linked)
  <2>1. MissingMembers(s) = {New(p) : p \in open}
    BY DEF MissingMembers
  <2>2. \A p \in open : p \in People /\ Present(project[p])
    OBVIOUS
  <2>3. \A p \in People : Present(project[p]) /\ ~Present(members[s][p]) => p \in open
    OBVIOUS
  <2>4. \A p \in People : /\ New(p).s = s /\ New(p).p = p /\ New(p).role = project[p].role
                           /\ New(p).linked = project[p].linked
    BY AddedIs
  <2>5. \A p \in open : New(p) \in Additions
    BY <1>1, <2>2, AddedType DEF Everyone
  <2> HIDE DEF open, New
  <2>6. \A t \in MissingMembers(s) : \E p \in open : t = New(p)
    BY <2>1, Zenon
  <2>7. \A p \in open : New(p) \in MissingMembers(s)
    BY <2>1, Zenon
  <2> QED
    BY <2>2, <2>3, <2>4, <2>5, <2>6, <2>7
<1>4. SyncStudy(s) = OwnerRow(s) \cup MissingMembers(s)
  BY DEF SyncStudy
<1>5. \A t \in SyncStudy(s) : /\ t.s = s /\ t.p \in Everyone /\ Copied(t, t.p)
                              /\ t.p \in People => t.linked = project[t.p].linked
  BY <1>2, <1>3, <1>4, OwnerAssumption DEF Copied, Everyone
<1>6. \A p \in Everyone : ~Present(members[s][p]) =>
          \/ \E t \in SyncStudy(s) : t.s = s /\ t.p = p
          \/ p \in People /\ ~Present(project[p])
  BY <1>2, <1>3, <1>4 DEF Everyone
<1> QED
  BY <1>2, <1>3, <1>4, <1>5, <1>6

LEMMA CreatorAddedIs ==
    ASSUME Inv, NEW s \in Studies
    PROVE  /\ CreatorAdded(s) \in SUBSET Additions
           /\ \A t \in CreatorAdded(s) :
                 t.s = s /\ t.p = creator[s] /\ t.p # Owner /\ t.role = "viewer" /\ t.linked
<1> DEFINE t == Added(s, creator[s], "viewer", TRUE)
<1>1. t \in Additions
  BY AddedType DEF Inv, TypeInv, StudyRoles, ProjectRoles
<1>2. t.s = s /\ t.p = creator[s] /\ t.role = "viewer" /\ t.linked
  BY DEF Added
<1>3. CreatorAdded(s) = {} \/ (CreatorAdded(s) = {t} /\ creator[s] # Owner)
  BY DEF CreatorAdded, Outsider
<1> HIDE DEF t
<1> QED
  BY <1>1, <1>2, <1>3

\* What the copies of a study of the project are, before they are committed.
LEMMA SyncReads ==
    ASSUME Inv, NEW w \in Workers, NEW s \in Studies, req[w].op \in OnStudy,
           req[w].touches = {s} \X Everyone, NEW r \in Request, req'[w] = r,
           r.op = req[w].op, r.place = "commit",
           UNCHANGED <<creator, study, account, rows, requests, raced, own>>,
           r.add = SyncStudy(s) \/ r.add = SyncStudy(s) \cup CreatorAdded(s)
    PROVE  /\ \A t \in r.add : <<t.s, t.p>> \in req[w].touches
           /\ \A t \in Studies, q \in Everyone : Sole(w, t, q) => ReadsOf(w, t, q)'
<1>1. /\ r.add \in SUBSET Additions
      /\ \A t \in r.add : /\ t.s = s /\ t.p \in Everyone
                          /\ Copied(t, t.p) \/ (t.p = creator[s] /\ t.p # Owner /\ t.role = "viewer")
                          /\ t.p \in People /\ ~t.linked =>
                                Present(project[t.p]) /\ t.linked = project[t.p].linked
      /\ \A p \in Everyone : ~Present(members[s][p]) =>
             \/ \E t \in r.add : t.s = s /\ t.p = p
             \/ p \in People /\ ~Present(project[p])
  <2>1. creator[s] \in Everyone
    BY DEF Inv, TypeInv
  <2>2. \A t : t.p \in People /\ Copied(t, t.p) => Present(project[t.p])
    BY OwnerAssumption DEF Copied
  <2> QED
    BY <2>1, <2>2, SyncStudyIs, CreatorAddedIs
<1>2. \A t \in r.add : <<t.s, t.p>> \in req[w].touches
  BY <1>1
<1>3. UNCHANGED <<creator, study, account, project, members, raced, own>>
  BY DEF rows
<1>4. ASSUME NEW t \in Studies, NEW q \in Everyone, Sole(w, t, q) PROVE ReadsOf(w, t, q)'
  <2>1. t = s /\ <<t, q>> \notin raced
    BY <1>4 DEF Sole
  <2>2. ReadsOf(w, t, q)
    BY <1>4, Subject DEF Reads
  <2>3. /\ ~Mine(s, q) => ~Present(members[s][q])
        /\ req[w].op = "create" => study[s] = "project"
    BY <2>1, <2>2 DEF ReadsOf, StudyReads
  <2>4. StudyReads(w, t, q)'
    BY <1>1, <1>3, <2>1, <2>3 DEF StudyReads, Adds, Mine, Copied
  <2>5. LinkedPair(s, q)
    BY <2>1 DEF Inv, PairInv
  <2>6. LinkReads(w, t, q)'
    <3>1. \A u \in r.add : u.s = t /\ u.p = q /\ q \in People /\ account[q] = "linked" => u.linked
      BY <1>1, <2>1, <2>5 DEF LinkedPair, Copied
    <3> QED
      BY <1>3, <3>1 DEF LinkReads, OnStudy
  <2> QED
    BY <2>4, <2>6 DEF ReadsOf, InviteReads, ChangeReads, OnStudy
<1> QED
  BY <1>2, <1>4

LEMMA CreateSyncStep ==
    ASSUME Inv, NEW w \in Workers, CreateSync(w)
    PROVE  Inv'
<1> DEFINE s == StudyOf(w)
           add == SyncStudy(s)
           r == [req[w] EXCEPT !.place = "commit", !.add = add]
<1>1. /\ req[w].op = "create" /\ req[w] \in Request /\ ShapeOf(w)
      /\ s \in Studies /\ req[w].touches = {s} \X Everyone /\ study[s] # "none"
  BY Subject DEF CreateSync, At, OnStudy
<1>2. req' = [req EXCEPT ![w] = r]
  BY DEF CreateSync, Inv, TypeInv
<1>3. UNCHANGED <<creator, study, account, rows, requests, raced, own>>
  BY DEF CreateSync
<1>4. add \in SUBSET Additions /\ \A t \in add : t.s = s
  BY <1>1, SyncStudyIs
<1>5. r.add = SyncStudy(s)
  BY <1>1 DEF Request
<1> HIDE DEF add
<1>6. /\ r \in Request /\ r.op = req[w].op /\ r.touches = req[w].touches
      /\ r.number = req[w].number /\ r.role = req[w].role /\ r.studies = req[w].studies
      /\ r.add = add /\ r.demote = req[w].demote /\ r.place = "commit"
  BY <1>1, <1>4 DEF Request
<1> HIDE DEF r, s
<1>7. req'[w] = r
  BY <1>2 DEF Inv, TypeInv
<1>8. /\ \A t \in r.add : <<t.s, t.p>> \in req[w].touches
      /\ \A t \in Studies, q \in Everyone : Sole(w, t, q) => ReadsOf(w, t, q)'
  BY <1>1, <1>3, <1>5, <1>6, <1>7, SyncReads DEF OnStudy
<1>9. \A t \in r.add : <<t.s, t.p>> \in r.touches /\ study[t.s] # "none"
  BY <1>1, <1>4, <1>6, <1>8
<1>10. /\ Exist(r.demote) /\ \A t \in r.demote : <<t, creator[t]>> \in r.touches
       /\ req[w].op # "idle" /\ r.op \notin {"role", "study role", "assign"}
  BY <1>1, <1>6 DEF ShapeOf
<1> QED
  BY <1>2, <1>3, <1>6, <1>8, <1>9, <1>10, ReadsOn

LEMMA AssignSyncStep ==
    ASSUME Inv, NEW w \in Workers, AssignSync(w)
    PROVE  Inv'
<1> DEFINE s == StudyOf(w)
           add == SyncStudy(s) \cup CreatorAdded(s)
           demote == IF Outsider(s) /\ CreatorRow(s).linked THEN {s} ELSE {}
           seen == CreatorRow(s).by
           r == [req[w] EXCEPT !.place = "commit", !.add = add, !.demote = demote, !.seen = seen]
<1>1. /\ req[w].op = "assign" /\ req[w] \in Request /\ ShapeOf(w)
      /\ s \in Studies /\ req[w].touches = {s} \X Everyone /\ study[s] # "none"
  BY Subject DEF AssignSync, At, OnStudy
<1>2. req' = [req EXCEPT ![w] = r]
  BY DEF AssignSync, Inv, TypeInv
<1>3. UNCHANGED <<creator, study, account, rows, requests, raced, own>>
  BY DEF AssignSync
<1>4. add \in SUBSET Additions /\ \A t \in add : t.s = s
  BY <1>1, SyncStudyIs, CreatorAddedIs
<1>5. /\ demote \in SUBSET Studies /\ Exist(demote) /\ seen \in Nat
      /\ \A t \in demote : <<t, creator[t]>> \in {s} \X Everyone
      /\ demote # {} => seen # 0
  <2>1. creator[s] \in Everyone
    BY <1>1 DEF Inv, TypeInv
  <2>2. CreatorRow(s).by \in Nat /\ (CreatorRow(s).linked => CreatorRow(s).by # 0)
    BY <1>1, <2>1, RowsAreNumbered DEF CreatorRow, Inv, TypeInv, AnyRow
  <2> QED
    BY <1>1, <2>1, <2>2 DEF Exist
<1>6. r.add = SyncStudy(s) \cup CreatorAdded(s)
  BY <1>1 DEF Request
<1> HIDE DEF add, demote, seen
<1>7. /\ r \in Request /\ r.op = req[w].op /\ r.touches = req[w].touches
      /\ r.number = req[w].number /\ r.role = req[w].role /\ r.studies = req[w].studies
      /\ r.add = add /\ r.demote = demote /\ r.place = "commit" /\ r.seen = seen
  BY <1>1, <1>4, <1>5 DEF Request
<1> HIDE DEF r, s
<1>8. req'[w] = r
  BY <1>2 DEF Inv, TypeInv
<1>9. /\ \A t \in r.add : <<t.s, t.p>> \in req[w].touches
      /\ \A t \in Studies, q \in Everyone : Sole(w, t, q) => ReadsOf(w, t, q)'
  BY <1>1, <1>3, <1>6, <1>7, <1>8, SyncReads DEF OnStudy
<1>10. \A t \in r.add : <<t.s, t.p>> \in r.touches /\ study[t.s] # "none"
  BY <1>1, <1>4, <1>7, <1>9
<1>11. /\ Exist(r.demote) /\ \A t \in r.demote : <<t, creator[t]>> \in r.touches
       /\ req[w].op # "idle" /\ r.op \notin {"role", "study role"}
       /\ r.demote # {} => r.seen # 0
  BY <1>1, <1>5, <1>7
<1> QED
  BY <1>2, <1>3, <1>7, <1>9, <1>10, <1>11, ReadsOn

LEMMA LinkProjectStep ==
    ASSUME Inv, NEW w \in Workers, LinkProject(w)
    PROVE  Inv'
<1> DEFINE p == Person(w)
           seen == project[p].by
           r == [req[w] EXCEPT !.place = "commit", !.seen = seen]
<1>1. /\ req[w].op = "register" /\ req[w] \in Request /\ ShapeOf(w) /\ Reads(w)
      /\ p \in People /\ req[w].touches = Pairs(p)
  BY Subject DEF LinkProject, At, OnPerson
<1>2. req' = [req EXCEPT ![w] = r]
  BY DEF LinkProject, Inv, TypeInv
<1>3. UNCHANGED <<creator, study, account, rows, requests, raced, own>>
  BY DEF LinkProject
<1>4. seen \in Nat
  BY <1>1 DEF Inv, TypeInv, AnyRow
<1>5. /\ r \in Request /\ r.op = req[w].op /\ r.touches = req[w].touches
      /\ r.number = req[w].number /\ r.role = req[w].role /\ r.studies = req[w].studies
      /\ r.add = req[w].add /\ r.demote = req[w].demote /\ r.seen = project[p].by
  BY <1>1, <1>4 DEF Request
<1> HIDE DEF r
<1>6. req'[w] = r /\ project' = project /\ account' = account
  BY <1>2, <1>3 DEF Inv, TypeInv, rows
<1>7. ASSUME NEW s \in Studies, NEW q \in Everyone, Sole(w, s, q) PROVE ReadsOf(w, s, q)'
  <2>1. ReadsOf(w, s, q)
    BY <1>1, <1>7 DEF Reads
  <2>2. q = p
    BY <1>1, <1>7, PairsType DEF Sole
  <2>3. LinkReads(w, s, q)'
    BY <1>5, <1>6, <2>1, <2>2 DEF ReadsOf, LinkReads
  <2> QED
    BY <1>1, <1>5, <1>6, <2>3 DEF ReadsOf, InviteReads, ChangeReads, StudyReads, OnStudy
<1>8. /\ \A t \in r.add : <<t.s, t.p>> \in r.touches /\ study[t.s] # "none"
      /\ Exist(r.demote) /\ \A s \in r.demote : <<s, creator[s]>> \in r.touches
      /\ req[w].op # "idle" /\ r.op \notin {"role", "study role", "assign"}
  BY <1>1, <1>5 DEF ShapeOf
<1> QED
  BY <1>2, <1>3, <1>5, <1>7, <1>8, ReadsOn

-----------------------------------------------------------------------------
(* Requests end *)

Sound(row, roles) == row \in AnyRow /\ Valid(row, roles)

LEMMA NoRowIs ==
    /\ ~Present(NoRow) /\ NoRow.by = 0 /\ ~NoRow.linked
    /\ \A roles : Sound(NoRow, roles)
  BY DEF Present, NoRow, Sound, AnyRow, Valid

LEMMA RowIs ==
    ASSUME NEW roles \in SUBSET StudyRoles, NEW role \in roles, NEW linked \in BOOLEAN,
           requests \in Nat, NEW by \in 1 .. requests
    PROVE  /\ Sound(Row(role, linked, by), roles) /\ Present(Row(role, linked, by))
           /\ Row(role, linked, by).role = role /\ Row(role, linked, by).linked = linked
  BY DEF Row, Sound, AnyRow, Valid, Present, StudyRoles, ProjectRoles

\* A row that is there gets another role, or its user_id.
LEMMA RoleIs ==
    ASSUME NEW roles \in SUBSET StudyRoles, NEW role \in roles, NEW row, Sound(row, roles),
           Present(row)
    PROVE  /\ Sound([row EXCEPT !.role = role], roles) /\ Present([row EXCEPT !.role = role])
           /\ [row EXCEPT !.role = role].role = role
           /\ [row EXCEPT !.role = role].linked = row.linked
  BY DEF Sound, AnyRow, Valid, Present, StudyRoles, ProjectRoles, NoRow

LEMMA LinkedIs ==
    ASSUME NEW roles \in SUBSET StudyRoles, NEW row, Sound(row, roles), Present(row)
    PROVE  /\ Sound([row EXCEPT !.linked = TRUE], roles) /\ Present([row EXCEPT !.linked = TRUE])
           /\ [row EXCEPT !.linked = TRUE].role = row.role
           /\ [row EXCEPT !.linked = TRUE].linked
<1>1. row \in [role : roles, linked : BOOLEAN, by : 1 .. requests] /\ row \in AnyRow
  BY DEF Sound, Valid, Present, NoRow
<1> DEFINE row2 == [row EXCEPT !.linked = TRUE]
<1>2. row2 \in [role : roles, linked : BOOLEAN, by : 1 .. requests] /\ row2 \in AnyRow
  BY <1>1 DEF AnyRow
<1>3. row2.role = row.role /\ row2.linked /\ row.role # "none"
  BY <1>1 DEF AnyRow, Present
<1> QED
  BY <1>2, <1>3 DEF Sound, Valid, Present

LEMMA RowsAreSound ==
    ASSUME Inv
    PROVE  /\ requests \in Nat
           /\ \A p \in People : Sound(project[p], ProjectRoles)
           /\ \A s \in Studies, p \in Everyone :
                 /\ Sound(members[s][p], StudyRoles)
                 /\ Present(members[s][p]) => study[s] # "none"
  BY BoundAssumption DEF Inv, TypeInv, Sound

\* The types, where an ending request leaves sound rows.
LEMMA EndTypes ==
    ASSUME Inv, NEW w \in Workers, req' = [req EXCEPT ![w] = NoRequest],
           creator' = creator, requests' = requests,
           raced' = raced \cup Shared(w), own' \subseteq Studies \X Everyone,
           study' \in [Studies -> {"none", "alone", "project"}],
           account' \in [People -> {"never", "none", "created", "linked"}],
           DOMAIN project' = People, project' = [p \in People |-> project'[p]],
           members' = [s \in Studies |-> [p \in Everyone |-> members'[s][p]]],
           \A p \in People : Sound(project'[p], ProjectRoles),
           \A s \in Studies, p \in Everyone :
              Sound(members'[s][p], StudyRoles) /\ (Present(members'[s][p]) => study'[s] # "none")
    PROVE  TypeInv'
<1>1. req' \in [Workers -> Request]
  BY NoRequestType DEF Inv, TypeInv
<1>2. raced' \subseteq Studies \X Everyone
  <2>1. req[w].touches \subseteq Studies \X Everyone
    BY DEF Inv, TypeInv, Request
  <2> QED
    BY <2>1 DEF Shared, Inv, TypeInv
<1>3. project' \in [People -> AnyRow]
  BY DEF Sound
<1>4. members' \in [Studies -> [Everyone -> AnyRow]]
  <2>1. \A s \in Studies, p \in Everyone : members'[s][p] \in AnyRow
    BY DEF Sound
  <2> DEFINE M(s) == [p \in Everyone |-> members'[s][p]]
  <2>2. \A s \in Studies : M(s) \in [Everyone -> AnyRow]
    BY <2>1
  <2>3. members' = [s \in Studies |-> M(s)]
    OBVIOUS
  <2> HIDE DEF M
  <2> QED
    BY <2>2, <2>3
<1>5. /\ \A p \in People : Valid(project'[p], ProjectRoles)
      /\ \A s \in Studies, p \in Everyone : Valid(members'[s][p], StudyRoles)
  BY DEF Sound
<1>6. /\ \A p \in People : Valid(project[p], ProjectRoles)'
      /\ \A s \in Studies, p \in Everyone : Valid(members[s][p], StudyRoles)'
  BY <1>5 DEF Valid
<1> QED
  BY <1>1, <1>2, <1>3, <1>4, <1>6 DEF Inv, TypeInv

SoundTable(table) == \A s \in Studies, p \in Everyone : Sound(table[s][p], StudyRoles)

\* A table with additions has those, and its rows at all other pairs.
HasAdded(new, add, table) ==
    /\ new = [s \in Studies |-> [p \in Everyone |-> new[s][p]]]
    /\ \A s \in Studies, p \in Everyone :
          /\ Sound(new[s][p], StudyRoles)
          /\ (\E t \in add : t.s = s /\ t.p = p) =>
                /\ Present(new[s][p])
                /\ \E t \in add : /\ t.s = s /\ t.p = p /\ new[s][p].role = t.role
                                  /\ new[s][p].linked = t.linked
          /\ (~\E t \in add : t.s = s /\ t.p = p) => new[s][p] = table[s][p]

LEMMA WithAddedIs ==
    ASSUME Inv, NEW add \in SUBSET Additions, NEW number \in 1 .. requests, NEW table,
           SoundTable(table)
    PROVE  HasAdded(WithAdded(add, number, table), add, table)
<1> DEFINE new == WithAdded(add, number, table)
           The1(s, p) == CHOOSE t \in add : t.s = s /\ t.p = p
           Cell(s, p) == IF \E t \in add : t.s = s /\ t.p = p
                         THEN Row(The1(s, p).role, The1(s, p).linked, number)
                         ELSE table[s][p]
<1>1. new = [s \in Studies |-> [p \in Everyone |-> Cell(s, p)]]
  BY DEF WithAdded
<1>2. ASSUME NEW s \in Studies, NEW p \in Everyone, NEW u \in add, u.s = s, u.p = p
      PROVE  /\ Sound(Cell(s, p), StudyRoles) /\ Present(Cell(s, p))
             /\ \E t \in add : /\ t.s = s /\ t.p = p /\ Cell(s, p).role = t.role
                               /\ Cell(s, p).linked = t.linked
  <2> DEFINE t == The1(s, p)
  <2>1. t \in add /\ t.s = s /\ t.p = p
    BY <1>2
  <2>2. Cell(s, p) = Row(t.role, t.linked, number)
    BY <1>2
  <2> HIDE DEF t, Cell
  <2>3. t.role \in StudyRoles /\ t.linked \in BOOLEAN
    BY <2>1 DEF Additions
  <2>4. /\ Sound(Row(t.role, t.linked, number), StudyRoles)
        /\ Present(Row(t.role, t.linked, number))
        /\ Row(t.role, t.linked, number).role = t.role
        /\ Row(t.role, t.linked, number).linked = t.linked
    BY <2>3, RowIs, RowsAreSound
  <2> QED
    BY <2>1, <2>2, <2>4
<1>3. ASSUME NEW s \in Studies, NEW p \in Everyone, ~\E t \in add : t.s = s /\ t.p = p
      PROVE  Cell(s, p) = table[s][p]
  BY <1>3
<1> HIDE DEF Cell, new
<1>4. \A s \in Studies, p \in Everyone : new[s][p] = Cell(s, p)
  BY <1>1
<1>5. new = [s \in Studies |-> [p \in Everyone |-> new[s][p]]]
  BY <1>1, <1>4, Zenon
<1>6. ASSUME NEW s \in Studies, NEW p \in Everyone
      PROVE  /\ Sound(new[s][p], StudyRoles)
             /\ (\E t \in add : t.s = s /\ t.p = p) =>
                   /\ Present(new[s][p])
                   /\ \E t \in add : /\ t.s = s /\ t.p = p
                                     /\ new[s][p].role = t.role
                                     /\ new[s][p].linked = t.linked
             /\ (~\E t \in add : t.s = s /\ t.p = p) => new[s][p] = table[s][p]
  BY <1>2, <1>3, <1>4 DEF SoundTable
<1> QED
  BY <1>5, <1>6 DEF new, HasAdded

\* What an ending request can rely on, about a pair of its own.
LEMMA EndsOn ==
    ASSUME Inv, NEW w \in Workers, NEW s \in Studies, NEW p \in Everyone,
           Sole(w, s, p), req' = [req EXCEPT ![w] = NoRequest]
    PROVE  /\ ReadsOf(w, s, p) /\ LinkedPair(s, p) /\ ~Creates(w, s, p)'
           /\ ~Mine(s, p) /\ req[w].op # "create" => Follows(s, p)
<1>1. ReadsOf(w, s, p) /\ PairInv(s, p) /\ <<s, p>> \notin raced
  BY DEF Inv, Reads, Sole
<1>2. \A v \in Workers \ {w} : ~Creates(v, s, p)
  BY DEF Sole, Creates
<1>3. req[w].op # "create" => ~Creates(w, s, p)
  BY DEF Creates
<1>4. ~Creates(w, s, p)'
  BY NoRequestFields DEF Creates, Inv, TypeInv
<1> QED
  BY <1>1, <1>2, <1>3, <1>4 DEF PairInv

\* A request ends well if it leaves sound rows, changes pairs of its own only,
\* and has its pairs linked and following their project.
LEMMA EndStep ==
    ASSUME Inv, NEW w \in Workers, Ends(w),
           own' \subseteq Studies \X Everyone,
           study' \in [Studies -> {"none", "alone", "project"}],
           \A s \in Studies : study[s] # "none" => study'[s] # "none",
           account' \in [People -> {"never", "none", "created", "linked"}],
           project' = [p \in People |-> project'[p]],
           members' = [s \in Studies |-> [p \in Everyone |-> members'[s][p]]],
           \A p \in People : Sound(project'[p], ProjectRoles),
           \A s \in Studies, p \in Everyone :
              Sound(members'[s][p], StudyRoles) /\ (Present(members'[s][p]) => study'[s] # "none"),
           \A s \in Studies, p \in Everyone : <<s, p>> \notin req[w].touches => Same(s, p),
           \A s \in Studies, p \in Everyone : Sole(w, s, p) =>
              LinkedPair(s, p)' /\ (~Mine(s, p)' => Follows(s, p)')
    PROVE  Inv'
<1>1. /\ req' = [req EXCEPT ![w] = NoRequest] /\ raced' = raced \cup Shared(w)
      /\ creator' = creator /\ requests' = requests
  BY DEF Ends
<1>2. TypeInv'
  <2>1. DOMAIN project' = People
    BY Zenon
  <2> QED
    BY <1>1, <2>1, EndTypes
<1>3. ASSUME NEW s \in Studies, NEW p \in Everyone, Sole(w, s, p) /\ <<s, p>> \notin raced'
      PROVE  PairInv(s, p)'
  BY <1>3 DEF PairInv
<1>4. raced \cup Shared(w) \subseteq raced'
  BY <1>1
<1> QED
  BY <1>1, <1>2, <1>3, <1>4, EndFrame

LEMMA InviteCommitStep ==
    ASSUME Inv, NEW w \in Workers, InviteCommit(w)
    PROVE  Inv'
<1> DEFINE p == Person(w)
           add == req[w].add
           row == Row(req[w].role, req[w].linked, req[w].number)
<1>1. CASE Clashes(add)
  BY <1>1, FailsStep DEF InviteCommit
<1>2. CASE ~Clashes(add)
  <2>1. /\ req[w].op = "invite" /\ req[w].place = "commit" /\ req[w] \in Request /\ ShapeOf(w)
        /\ p \in People /\ req[w].touches = Pairs(p)
    BY Subject DEF InviteCommit, At, OnPerson
  <2>2. /\ project' = [project EXCEPT ![p] = row]
        /\ members' = WithAdded(add, req[w].number, members)
        /\ Ends(w) /\ UNCHANGED <<study, account, own>>
    BY <1>2 DEF InviteCommit
  <2>3. Sound(row, ProjectRoles) /\ Present(row) /\ row.role = req[w].role
        /\ row.linked = req[w].linked
    <3>1. /\ req[w].role \in ProjectRoles /\ req[w].linked \in BOOLEAN
          /\ req[w].number \in 1 .. requests
      BY <2>1 DEF ShapeOf, Request
    <3>2. ProjectRoles \in SUBSET StudyRoles /\ requests \in Nat
      BY RowsAreSound DEF StudyRoles
    <3>3. /\ Sound(Row(req[w].role, req[w].linked, req[w].number), ProjectRoles)
          /\ Present(Row(req[w].role, req[w].linked, req[w].number))
      BY <3>1, <3>2, RowIs
    <3>4. row.role = req[w].role /\ row.linked = req[w].linked
      BY DEF Row
    <3> QED
      BY <3>3, <3>4
  <2> HIDE DEF row
  <2>4. /\ project' = [q \in People |-> project'[q]] /\ project'[p] = row
        /\ \A q \in People : q # p => project'[q] = project[q]
    BY <2>1, <2>2 DEF Inv, TypeInv
  <2>5. /\ add \in SUBSET Additions /\ req[w].number \in 1 .. requests
        /\ \A t \in add : t.p = p /\ study[t.s] # "none"
    BY <2>1 DEF ShapeOf, Request, Pairs
  <2> HIDE DEF add
  <2>6. /\ members' = [s \in Studies |-> [q \in Everyone |-> members'[s][q]]]
        /\ \A s \in Studies, q \in Everyone :
              /\ Sound(members'[s][q], StudyRoles)
              /\ (\E t \in add : t.s = s /\ t.p = q) =>
                    /\ Present(members'[s][q])
                    /\ \E t \in add : /\ t.s = s /\ t.p = q /\ members'[s][q].role = t.role
                                      /\ members'[s][q].linked = t.linked
              /\ (~\E t \in add : t.s = s /\ t.p = q) => members'[s][q] = members[s][q]
    <3>1. SoundTable(members)
      BY RowsAreSound DEF SoundTable
    <3>2. HasAdded(members', add, members)
      BY <2>2, <2>5, <3>1, WithAddedIs DEF add
    <3> QED
      BY <3>2 DEF HasAdded
  <2>7. \A s \in Studies, q \in Everyone : Present(members'[s][q]) => study'[s] # "none"
    BY <2>2, <2>5, <2>6, RowsAreSound
  <2>8. ASSUME NEW s \in Studies, NEW q \in Everyone, <<s, q>> \notin req[w].touches
        PROVE  Same(s, q)
    <3>1. q # p
      BY <2>1, <2>8 DEF Pairs
    <3> QED
      BY <2>2, <2>4, <2>5, <2>6, <3>1 DEF Same, Mine
  <2>9. ASSUME NEW s \in Studies, NEW q \in Everyone, Sole(w, s, q)
        PROVE  LinkedPair(s, q)' /\ (~Mine(s, q)' => Follows(s, q)')
    <3>1. q = p
      BY <2>1, <2>9, PairsType DEF Sole
    <3>2. /\ ReadsOf(w, s, q) /\ LinkedPair(s, q)
          /\ ~Mine(s, q) => Follows(s, q)
      BY <2>1, <2>2, <2>9, EndsOn DEF Ends
    <3>3. LinkedPair(s, q)'
      BY <2>1, <2>2, <2>3, <2>4, <2>6, <3>1, <3>2 DEF ReadsOf, InviteReads, LinkReads, LinkedPair, add
    <3>4. Mine(s, q)' <=> Mine(s, q)
      BY <2>2 DEF Mine
    <3>5. creator' = creator /\ q # Owner
      BY <2>1, <2>2, <3>1, OwnerAssumption DEF Ends
    <3>6. Follows(s, q) => Follows(s, q)'
      BY <2>1, <2>2, <2>3, <2>4, <2>6, <3>1, <3>2, <3>5
         DEF ReadsOf, InviteReads, Follows, Adds, add
    <3> QED
      BY <3>2, <3>3, <3>4, <3>6
  <2>10. \A q \in People : Sound(project'[q], ProjectRoles)
    BY <2>3, <2>4, RowsAreSound
  <2>11. /\ own' \subseteq Studies \X Everyone
         /\ study' \in [Studies -> {"none", "alone", "project"}]
         /\ \A s \in Studies : study[s] # "none" => study'[s] # "none"
         /\ account' \in [People -> {"never", "none", "created", "linked"}]
    BY <2>2 DEF Inv, TypeInv
  <2> QED
    BY <2>2, <2>4, <2>6, <2>7, <2>8, <2>9, <2>10, <2>11, EndStep
<1> QED
  BY <1>1, <1>2

LEMMA ChangeRoleCommitStep ==
    ASSUME Inv, NEW w \in Workers, ChangeRoleCommit(w)
    PROVE  Inv'
<1> DEFINE p == Person(w)
           role == req[w].role
           row == [project[p] EXCEPT !.role = role]
<1>1. CASE project[p].by # req[w].seen
  BY <1>1, FailsStep DEF ChangeRoleCommit
<1>2. CASE project[p].by = req[w].seen
  <2>1. /\ req[w].op = "role" /\ req[w] \in Request /\ ShapeOf(w)
        /\ p \in People /\ req[w].touches = Pairs(p)
    BY Subject DEF ChangeRoleCommit, At, OnPerson
  <2>2. /\ project' = [project EXCEPT ![p] = row]
        /\ members' = [s \in Studies |-> [q \in Everyone |-> WithRole(w, s, q)]]
        /\ Ends(w) /\ UNCHANGED <<study, account, own>>
    BY <1>2, <2>1 DEF ChangeRoleCommit, Inv, TypeInv
  <2>3. role \in ProjectRoles /\ role \in StudyRoles /\ Present(project[p])
    BY <1>2, <2>1, RowsAreNumbered DEF ShapeOf, StudyRoles
  <2>4. Sound(row, ProjectRoles) /\ Present(row) /\ row.role = role
        /\ row.linked = project[p].linked
    <3>1. ProjectRoles \in SUBSET StudyRoles /\ Sound(project[p], ProjectRoles)
      BY <2>1, RowsAreSound DEF StudyRoles
    <3> QED
      BY <2>3, <3>1, RoleIs
  <2>5. /\ project' = [q \in People |-> project'[q]] /\ project'[p] = row
        /\ \A q \in People : q # p => project'[q] = project[q]
    BY <2>1, <2>2 DEF Inv, TypeInv
  <2>6. /\ members' = [s \in Studies |-> [q \in Everyone |-> members'[s][q]]]
        /\ \A s \in Studies, q \in Everyone : members'[s][q] = WithRole(w, s, q)
    BY <2>2
  <2>7. ASSUME NEW s \in Studies, NEW q \in Everyone
        PROVE  /\ Sound(WithRole(w, s, q), StudyRoles)
               /\ Present(WithRole(w, s, q)) <=> Present(members[s][q])
               /\ WithRole(w, s, q).linked = members[s][q].linked
               /\ q # p => WithRole(w, s, q) = members[s][q]
               /\ q = p /\ s \in req[w].studies /\ Present(members[s][q]) =>
                     WithRole(w, s, q).role = role
    <3>1. CASE q = p /\ s \in req[w].studies /\ Present(members[s][q])
      <4>1. WithRole(w, s, q) = [members[s][q] EXCEPT !.role = role]
        BY <3>1 DEF WithRole
      <4>2. StudyRoles \in SUBSET StudyRoles /\ Sound(members[s][q], StudyRoles)
        BY RowsAreSound
      <4> QED
        BY <2>3, <3>1, <4>1, <4>2, RoleIs
    <3>2. CASE ~(q = p /\ s \in req[w].studies /\ Present(members[s][q]))
      BY <3>2, RowsAreSound DEF WithRole
    <3> QED
      BY <3>1, <3>2
  <2> HIDE DEF row, role
  <2>8. ASSUME NEW s \in Studies, NEW q \in Everyone, <<s, q>> \notin req[w].touches
        PROVE  Same(s, q)
    <3>1. q # p
      BY <2>1, <2>8 DEF Pairs
    <3> QED
      BY <2>2, <2>5, <2>6, <2>7, <3>1 DEF Same, Mine
  <2>9. ASSUME NEW s \in Studies, NEW q \in Everyone, Sole(w, s, q)
        PROVE  LinkedPair(s, q)' /\ (~Mine(s, q)' => Follows(s, q)')
    <3>1. q = p
      BY <2>1, <2>9, PairsType DEF Sole
    <3>2. /\ ReadsOf(w, s, q) /\ LinkedPair(s, q)
          /\ ~Mine(s, q) => Follows(s, q)
      BY <2>1, <2>2, <2>9, EndsOn DEF Ends
    <3>3. LinkedPair(s, q)'
      BY <2>1, <2>2, <2>3, <2>4, <2>5, <2>6, <2>7, <3>1, <3>2 DEF LinkedPair
    <3>4. Mine(s, q)' <=> Mine(s, q)
      BY <2>2 DEF Mine
    <3>5. creator' = creator /\ q # Owner
      BY <2>1, <2>2, <3>1, OwnerAssumption DEF Ends
    <3>6. Follows(s, q) => Follows(s, q)'
      BY <2>1, <2>2, <2>3, <2>4, <2>5, <2>6, <2>7, <3>1, <3>2, <3>5
         DEF ReadsOf, ChangeReads, Follows
    <3> QED
      BY <3>2, <3>3, <3>4, <3>6
  <2>10. \A q \in People : Sound(project'[q], ProjectRoles)
    BY <2>4, <2>5, RowsAreSound
  <2>11. /\ own' \subseteq Studies \X Everyone
         /\ study' \in [Studies -> {"none", "alone", "project"}]
         /\ \A s \in Studies : study[s] # "none" => study'[s] # "none"
         /\ account' \in [People -> {"never", "none", "created", "linked"}]
    BY <2>2 DEF Inv, TypeInv
  <2>12. \A s \in Studies, q \in Everyone :
            Sound(members'[s][q], StudyRoles) /\ (Present(members'[s][q]) => study'[s] # "none")
    BY <2>2, <2>6, <2>7, RowsAreSound
  <2> QED
    BY <2>2, <2>5, <2>6, <2>8, <2>9, <2>10, <2>11, <2>12, EndStep
<1> QED
  BY <1>1, <1>2

LEMMA RemoveCommitStep ==
    ASSUME Inv, NEW w \in Workers, RemoveCommit(w)
    PROVE  Inv'
<1> DEFINE p == Person(w)
<1>1. /\ req[w].op = "remove" /\ req[w] \in Request /\ ShapeOf(w)
      /\ p \in People /\ p \in Everyone /\ req[w].touches = Pairs(p)
  BY Subject, PairsType DEF RemoveCommit, At, OnPerson
<1>2. /\ project' = IF project[p].by = req[w].seen THEN [project EXCEPT ![p] = NoRow] ELSE project
      /\ members' = [s \in Studies |-> [q \in Everyone |-> AfterRemoval(w, s, q)]]
      /\ own' = own \ (req[w].studies \X {p})
      /\ Ends(w) /\ UNCHANGED <<study, account>>
  BY DEF RemoveCommit
<1>3. /\ project' = [q \in People |-> project'[q]]
      /\ project[p].by = req[w].seen => project'[p] = NoRow
      /\ \A q \in People : project'[q] = project[q] \/ project'[q] = NoRow
      /\ \A q \in People : q # p => project'[q] = project[q]
  BY <1>1, <1>2 DEF Inv, TypeInv
<1>4. /\ members' = [s \in Studies |-> [q \in Everyone |-> members'[s][q]]]
      /\ \A s \in Studies, q \in Everyone : members'[s][q] = AfterRemoval(w, s, q)
  BY <1>2
<1>5. ASSUME NEW s \in Studies, NEW q \in Everyone
      PROVE  /\ Sound(AfterRemoval(w, s, q), StudyRoles)
             /\ Present(AfterRemoval(w, s, q)) =>
                   /\ Present(members[s][q])
                   /\ AfterRemoval(w, s, q).linked = members[s][q].linked
             /\ q # p \/ s \notin req[w].studies => AfterRemoval(w, s, q) = members[s][q]
             /\ q = p /\ s \in req[w].studies /\ Present(AfterRemoval(w, s, q)) =>
                   s \in req[w].demote /\ AfterRemoval(w, s, q).role = "viewer"
  <2>1. CASE q = p /\ s \in req[w].studies /\ s \in req[w].demote /\ Present(members[s][q])
    <3>1. AfterRemoval(w, s, q) = [members[s][q] EXCEPT !.role = "viewer"]
      BY <2>1 DEF AfterRemoval
    <3>2. /\ StudyRoles \in SUBSET StudyRoles /\ Sound(members[s][q], StudyRoles)
          /\ "viewer" \in StudyRoles
      BY RowsAreSound DEF StudyRoles, ProjectRoles
    <3> QED
      BY <2>1, <3>1, <3>2, RoleIs
  <2>2. CASE q # p \/ s \notin req[w].studies
    BY <2>2, RowsAreSound DEF AfterRemoval
  <2>3. CASE q = p /\ s \in req[w].studies /\ ~(s \in req[w].demote /\ Present(members[s][q]))
    <3>1. AfterRemoval(w, s, q) = NoRow
      BY <2>3 DEF AfterRemoval
    <3> QED
      BY <2>3, <3>1, NoRowIs
  <2> QED
    BY <2>1, <2>2, <2>3
<1>6. ASSUME NEW s \in Studies, NEW q \in Everyone, <<s, q>> \notin req[w].touches
      PROVE  Same(s, q)
  <2>1. q # p
    BY <1>1, <1>6 DEF Pairs
  <2>2. Mine(s, q)' <=> Mine(s, q)
    BY <1>2, <2>1 DEF Mine
  <2> QED
    BY <1>2, <1>3, <1>4, <1>5, <2>1, <2>2 DEF Same
<1>7. ASSUME NEW s \in Studies, NEW q \in Everyone, Sole(w, s, q)
      PROVE  LinkedPair(s, q)' /\ (~Mine(s, q)' => Follows(s, q)')
  <2>1. q = p
    BY <1>1, <1>7, PairsType DEF Sole
  <2>2. /\ ReadsOf(w, s, q) /\ LinkedPair(s, q)
        /\ ~Mine(s, q) => Follows(s, q)
    BY <1>1, <1>2, <1>7, EndsOn DEF Ends
  <2>3. /\ project[p].by = req[w].seen
        /\ study[s] = "project" <=> s \in req[w].studies
        /\ s \in req[w].demote => creator[s] = p
    BY <1>1, <2>1, <2>2 DEF ReadsOf, ChangeReads
  <2>4. LinkedPair(s, q)'
    BY <1>2, <1>3, <1>4, <1>5, <2>1, <2>2, <2>3, NoRowIs DEF LinkedPair
  <2>5. s \notin req[w].studies => (Mine(s, q)' <=> Mine(s, q))
    BY <1>2 DEF Mine
  <2>6. creator' = creator /\ q # Owner
    BY <1>1, <1>2, <2>1, OwnerAssumption DEF Ends
  <2>7. CASE s \in req[w].studies
    BY <1>2, <1>3, <1>4, <1>5, <2>1, <2>3, <2>4, <2>6, <2>7, NoRowIs DEF Follows
  <2>8. CASE s \notin req[w].studies
    BY <1>2, <1>4, <1>5, <2>1, <2>2, <2>3, <2>4, <2>5, <2>8 DEF Follows
  <2> QED
    BY <2>7, <2>8
<1>8. \A q \in People : Sound(project'[q], ProjectRoles)
  BY <1>3, RowsAreSound, NoRowIs
<1>9. /\ own' \subseteq Studies \X Everyone
      /\ study' \in [Studies -> {"none", "alone", "project"}]
      /\ \A s \in Studies : study[s] # "none" => study'[s] # "none"
      /\ account' \in [People -> {"never", "none", "created", "linked"}]
  BY <1>2 DEF Inv, TypeInv
<1>10. \A s \in Studies, q \in Everyone :
          Sound(members'[s][q], StudyRoles) /\ (Present(members'[s][q]) => study'[s] # "none")
  BY <1>2, <1>4, <1>5, RowsAreSound
<1> QED
  BY <1>2, <1>3, <1>4, <1>6, <1>7, <1>8, <1>9, <1>10, EndStep

OtherRolesIn(s, table) ==
    \A t \in Studies, q \in Everyone :
        /\ Present(table[t][q]) <=> Present(members[t][q])
        /\ table[t][q].linked = members[t][q].linked
        /\ t # s => table[t][q] = members[t][q]

\* The copies of a study are committed, over a table that has other roles at most.
LEMMA CopiesCommit ==
    ASSUME Inv, NEW w \in Workers, NEW s \in Studies, req[w].op \in OnStudy,
           req[w].place = "commit", req[w].touches = {s} \X Everyone, Ends(w),
           study' = [study EXCEPT ![s] = "project"] \/ (study' = study /\ req[w].op = "create"),
           UNCHANGED <<account, project, own>>, NEW table, SoundTable(table),
           OtherRolesIn(s, table),
           members' = WithAdded(req[w].add, req[w].number, table)
    PROVE  Inv'
<1> DEFINE add == req[w].add
<1>1. req[w] \in Request /\ ShapeOf(w) /\ study[s] # "none"
  <2>1. req[w] \in Request /\ ShapeOf(w)
    BY Subject
  <2>2. \E t \in Studies : req[w].touches = {t} \X Everyone /\ study[t] # "none"
    BY <2>1 DEF ShapeOf
  <2>3. <<s, Owner>> \in req[w].touches
    BY DEF Everyone
  <2> QED
    BY <2>1, <2>2, <2>3
<1>2. /\ add \in SUBSET Additions /\ req[w].number \in 1 .. requests
      /\ \A t \in add : t.s = s
  BY <1>1 DEF ShapeOf, Request, OnStudy
<1> HIDE DEF add
<1>3. /\ members' = [t \in Studies |-> [q \in Everyone |-> members'[t][q]]]
      /\ \A t \in Studies, q \in Everyone :
            /\ Sound(members'[t][q], StudyRoles)
            /\ (\E u \in add : u.s = t /\ u.p = q) =>
                  /\ Present(members'[t][q])
                  /\ \E u \in add : /\ u.s = t /\ u.p = q /\ members'[t][q].role = u.role
                                    /\ members'[t][q].linked = u.linked
            /\ (~\E u \in add : u.s = t /\ u.p = q) => members'[t][q] = table[t][q]
  <2>1. members' = WithAdded(add, req[w].number, table)
    BY DEF add
  <2>2. HasAdded(members', add, table)
    BY <1>2, <2>1, WithAddedIs
  <2> QED
    BY <2>2 DEF HasAdded
<1>4. /\ study' \in [Studies -> {"none", "alone", "project"}]
      /\ \A t \in Studies : t # s => study'[t] = study[t]
      /\ study'[s] # "none" /\ \A t \in Studies : study[t] # "none" => study'[t] # "none"
      /\ study[s] = "project" \/ req[w].op # "create" => study'[s] = "project"
  BY <1>1 DEF Inv, TypeInv
<1>5. ASSUME NEW t \in Studies, NEW q \in Everyone, <<t, q>> \notin req[w].touches
      PROVE  Same(t, q)
  <2>1. t # s
    BY <1>5
  <2> QED
    BY <1>2, <1>3, <1>4, <2>1 DEF Same, Mine, OtherRolesIn
<1>6. ASSUME NEW t \in Studies, NEW q \in Everyone, Sole(w, t, q)
      PROVE  LinkedPair(t, q)' /\ (~Mine(t, q)' => Follows(t, q)')
  <2>1. t = s
    BY <1>6 DEF Sole
  <2>2. ReadsOf(w, t, q) /\ LinkedPair(t, q)
    BY <1>6, EndsOn DEF Ends
  <2>3. LinkedPair(t, q)'
    <3>1. \A u \in add : u.s = t /\ u.p = q /\ q \in People /\ account[q] = "linked" => u.linked
      BY <2>2 DEF ReadsOf, LinkReads, add
    <3> QED
      BY <1>3, <2>2, <3>1 DEF LinkedPair, OtherRolesIn
  <2>4. Mine(t, q)' <=> Mine(t, q)
    BY DEF Mine
  <2>5. ASSUME ~Mine(t, q) PROVE Follows(t, q)'
    <3>1. /\ req[w].op = "create" => study[s] = "project"
          /\ ~Present(members[t][q])
          /\ \A u \in add : u.s = t /\ u.p = q =>
                Copied(u, q) \/ (q = creator[s] /\ q # Owner /\ u.role = "viewer")
          /\ (\E u \in add : u.s = t /\ u.p = q) \/ (q \in People /\ ~Present(project[q]))
      BY <2>1, <2>2, <2>5 DEF ReadsOf, StudyReads, Adds, add
    <3>2. study'[t] = "project" /\ creator' = creator /\ project' = project
      BY <1>4, <2>1, <3>1 DEF Ends
    <3>3. CASE \E u \in add : u.s = t /\ u.p = q
      BY <1>3, <2>1, <3>1, <3>2, <3>3, OwnerAssumption DEF Follows, Copied
    <3>4. CASE ~\E u \in add : u.s = t /\ u.p = q
      <4>1. ~Present(members'[t][q]) /\ q # Owner /\ ~Present(project[q])
        BY <1>3, <3>1, <3>4, OwnerAssumption DEF OtherRolesIn
      <4> QED
        BY <3>2, <4>1 DEF Follows
    <3> QED
      BY <3>3, <3>4
  <2> QED
    BY <2>3, <2>4, <2>5
<1>7. /\ project' = [q \in People |-> project'[q]]
      /\ \A q \in People : Sound(project'[q], ProjectRoles)
      /\ own' \subseteq Studies \X Everyone
      /\ account' \in [People -> {"never", "none", "created", "linked"}]
  BY RowsAreSound DEF Inv, TypeInv
<1>8. \A t \in Studies, q \in Everyone :
         Sound(members'[t][q], StudyRoles) /\ (Present(members'[t][q]) => study'[t] # "none")
  BY <1>2, <1>3, <1>4, RowsAreSound DEF SoundTable, OtherRolesIn
<1> QED
  BY <1>3, <1>4, <1>5, <1>6, <1>7, <1>8, EndStep

LEMMA CreateCommitStep ==
    ASSUME Inv, NEW w \in Workers, CreateCommit(w)
    PROVE  Inv'
<1>1. CASE Clashes(req[w].add)
  BY <1>1, FailsStep DEF CreateCommit
<1>2. CASE ~Clashes(req[w].add)
  <2>1. /\ req[w].op = "create" /\ req[w].op \in OnStudy /\ req[w].place = "commit"
        /\ StudyOf(w) \in Studies /\ req[w].touches = {StudyOf(w)} \X Everyone
    BY Subject DEF CreateCommit, At, OnStudy
  <2>2. /\ members' = WithAdded(req[w].add, req[w].number, members)
        /\ Ends(w) /\ UNCHANGED <<study, account, project, own>>
    BY <1>2 DEF CreateCommit
  <2>3. SoundTable(members)
    BY RowsAreSound DEF SoundTable
  <2>4. OtherRolesIn(StudyOf(w), members)
    BY DEF OtherRolesIn
  <2> QED
    BY <2>1, <2>2, <2>3, <2>4, CopiesCommit
<1> QED
  BY <1>1, <1>2

\* The table of members, with the role of a demoted creator.
LEMMA DemotedIs ==
    ASSUME Inv, NEW w \in Workers, AssignCommit(w),
           ~(req[w].demote # {} /\ CreatorRow(StudyOf(w)).by # req[w].seen)
    PROVE  SoundTable(Demoted(w)) /\ OtherRolesIn(StudyOf(w), Demoted(w))
<1> DEFINE s == StudyOf(w)
           table == Demoted(w)
<1>1. /\ req[w].op = "assign" /\ s \in Studies /\ req[w].touches = {s} \X Everyone
      /\ ShapeOf(w) /\ req[w] \in Request
  BY Subject DEF AssignCommit, At, OnStudy
<1>2. req[w].demote \subseteq {s} /\ creator[s] \in Everyone
  BY <1>1 DEF ShapeOf, Inv, TypeInv
<1>3. req[w].demote # {} => Present(members[s][creator[s]])
  BY <1>1, <1>2, RowsAreNumbered DEF ShapeOf, CreatorRow
<1>4. ASSUME NEW t \in Studies, NEW q \in Everyone
      PROVE  /\ Sound(table[t][q], StudyRoles)
             /\ Present(table[t][q]) <=> Present(members[t][q])
             /\ table[t][q].linked = members[t][q].linked
             /\ t # s => table[t][q] = members[t][q]
  <2>1. CASE t \in req[w].demote /\ q = creator[s]
    <3>1. t = s /\ Present(members[t][q])
      BY <1>2, <1>3, <2>1
    <3>2. table[t][q] = [members[t][q] EXCEPT !.role = "viewer"]
      BY <2>1, <3>1 DEF Demoted, Inv, TypeInv
    <3>3. /\ StudyRoles \in SUBSET StudyRoles /\ Sound(members[t][q], StudyRoles)
          /\ "viewer" \in StudyRoles
      BY RowsAreSound DEF StudyRoles, ProjectRoles
    <3> QED
      BY <3>1, <3>2, <3>3, RoleIs
  <2>2. CASE ~(t \in req[w].demote /\ q = creator[s])
    <3>1. table[t][q] = members[t][q]
      BY <1>2, <2>2 DEF Demoted, Inv, TypeInv
    <3> QED
      BY <3>1, RowsAreSound
  <2> QED
    BY <2>1, <2>2
<1> QED
  BY <1>4 DEF SoundTable, OtherRolesIn

LEMMA AssignCommitStep ==
    ASSUME Inv, NEW w \in Workers, AssignCommit(w)
    PROVE  Inv'
<1> DEFINE s == StudyOf(w)
           table == Demoted(w)
<1>1. /\ req[w].op = "assign" /\ req[w].op \in OnStudy /\ req[w].place = "commit"
      /\ s \in Studies /\ req[w].touches = {s} \X Everyone /\ ShapeOf(w) /\ req[w] \in Request
  BY Subject DEF AssignCommit, At, OnStudy
<1>2. CASE Clashes(req[w].add) \/ (req[w].demote # {} /\ CreatorRow(s).by # req[w].seen)
  BY <1>2, FailsStep DEF AssignCommit
<1>3. CASE ~(Clashes(req[w].add) \/ (req[w].demote # {} /\ CreatorRow(s).by # req[w].seen))
  <2>1. /\ study' = [study EXCEPT ![s] = "project"]
        /\ members' = WithAdded(req[w].add, req[w].number, table)
        /\ Ends(w) /\ UNCHANGED <<account, project, own>>
    BY <1>3 DEF AssignCommit
  <2>2. SoundTable(table) /\ OtherRolesIn(s, table)
    BY <1>3, DemotedIs
  <2> HIDE DEF table, s
  <2> QED
    BY <1>1, <2>1, <2>2, CopiesCommit, Zenon
<1> QED
  BY <1>2, <1>3

\* Requests about one pair, which the study manages from then on.
LEMMA OwnCommit ==
    ASSUME Inv, NEW w \in Workers, req[w].op \in OnPair, Ends(w),
           own' = own \cup req[w].touches, UNCHANGED <<study, account, project>>,
           members' = [t \in Studies |-> [q \in Everyone |-> members'[t][q]]],
           \A t \in Studies, q \in Everyone :
              /\ Sound(members'[t][q], StudyRoles)
              /\ Present(members'[t][q]) => study[t] # "none"
              /\ <<t, q>> \notin req[w].touches => members'[t][q] = members[t][q]
              /\ Sole(w, t, q) => LinkedPair(t, q)'
    PROVE  Inv'
<1>1. req[w].touches \subseteq Studies \X Everyone
  BY DEF Inv, TypeInv, Request
<1>2. ASSUME NEW t \in Studies, NEW q \in Everyone, <<t, q>> \notin req[w].touches
      PROVE  Same(t, q)
  BY <1>2 DEF Same, Mine
<1>3. \A t \in Studies, q \in Everyone : Sole(w, t, q) =>
          LinkedPair(t, q)' /\ (~Mine(t, q)' => Follows(t, q)')
  BY DEF Sole, Mine
<1>4. /\ own' \subseteq Studies \X Everyone
      /\ study' \in [Studies -> {"none", "alone", "project"}]
      /\ \A s \in Studies : study[s] # "none" => study'[s] # "none"
      /\ account' \in [People -> {"never", "none", "created", "linked"}]
      /\ project' = [q \in People |-> project'[q]]
  BY <1>1 DEF Inv, TypeInv
<1>5. \A q \in People : Sound(project'[q], ProjectRoles)
  BY RowsAreSound
<1>6. \A t \in Studies, q \in Everyone :
          Sound(members'[t][q], StudyRoles) /\ (Present(members'[t][q]) => study'[t] # "none")
  OBVIOUS
<1> QED
  BY <1>2, <1>3, <1>4, <1>5, <1>6, EndStep

LEMMA InviteToStudyCommitStep ==
    ASSUME Inv, NEW w \in Workers, InviteToStudyCommit(w)
    PROVE  Inv'
<1> DEFINE add == req[w].add
<1>1. CASE Clashes(add)
  BY <1>1, FailsStep DEF InviteToStudyCommit
<1>2. CASE ~Clashes(add)
  <2>1. /\ req[w].op = "study invite" /\ req[w].op \in OnPair /\ ShapeOf(w)
        /\ req[w] \in Request
    BY Subject DEF InviteToStudyCommit, At, OnPair
  <2>2. /\ members' = WithAdded(add, req[w].number, members)
        /\ own' = own \cup req[w].touches
        /\ Ends(w) /\ UNCHANGED <<study, account, project>>
    BY <1>2 DEF InviteToStudyCommit
  <2>3. /\ add \in SUBSET Additions /\ req[w].number \in 1 .. requests
        /\ \A t \in add : <<t.s, t.p>> \in req[w].touches /\ study[t.s] # "none"
    BY <2>1 DEF ShapeOf, Request
  <2> HIDE DEF add
  <2>4. HasAdded(members', add, members)
    <3>1. SoundTable(members)
      BY RowsAreSound DEF SoundTable
    <3> QED
      BY <2>2, <2>3, <3>1, WithAddedIs DEF add
  <2>5. ASSUME NEW t \in Studies, NEW q \in Everyone, Sole(w, t, q) PROVE LinkedPair(t, q)'
    <3>1. ReadsOf(w, t, q) /\ LinkedPair(t, q)
      BY <2>2, <2>5, EndsOn DEF Ends
    <3>2. \A u \in add : u.s = t /\ u.p = q /\ q \in People /\ account[q] = "linked" => u.linked
      BY <3>1 DEF ReadsOf, LinkReads, add
    <3> QED
      BY <2>2, <2>4, <3>1, <3>2 DEF LinkedPair, HasAdded
  <2>6. ASSUME NEW t \in Studies, NEW q \in Everyone
        PROVE  /\ Sound(members'[t][q], StudyRoles)
               /\ Present(members'[t][q]) => study[t] # "none"
               /\ <<t, q>> \notin req[w].touches => members'[t][q] = members[t][q]
    BY <2>3, <2>4, RowsAreSound DEF HasAdded
  <2>7. members' = [t \in Studies |-> [q \in Everyone |-> members'[t][q]]]
    BY <2>4 DEF HasAdded
  <2> QED
    BY <2>1, <2>2, <2>5, <2>6, <2>7, OwnCommit
<1> QED
  BY <1>1, <1>2

LEMMA ChangeStudyRoleCommitStep ==
    ASSUME Inv, NEW w \in Workers, ChangeStudyRoleCommit(w) \/ RemoveFromStudyCommit(w)
    PROVE  Inv'
<1> DEFINE s == StudyOf(w)
           p == Person(w)
<1>1. /\ req[w].op \in {"study role", "study remove"} /\ req[w].op \in OnPair /\ ShapeOf(w)
      /\ s \in Studies /\ p \in Everyone /\ req[w].touches = {<<s, p>>} /\ study[s] # "none"
  BY Subject DEF ChangeStudyRoleCommit, RemoveFromStudyCommit, At, OnPair
<1>2. ASSUME NEW row, members' = [members EXCEPT ![s][p] = row], Sound(row, StudyRoles),
             Present(row) => Present(members[s][p]) /\ row.linked = members[s][p].linked,
             own' = own \cup req[w].touches, Ends(w), UNCHANGED <<study, account, project>>
      PROVE  Inv'
  <2>1. /\ members' = [t \in Studies |-> [q \in Everyone |-> members'[t][q]]]
        /\ members'[s][p] = row
        /\ \A t \in Studies, q \in Everyone :
              t # s \/ q # p => members'[t][q] = members[t][q]
    BY <1>1, <1>2 DEF Inv, TypeInv
  <2>2. ASSUME NEW t \in Studies, NEW q \in Everyone, Sole(w, t, q) PROVE LinkedPair(t, q)'
    <3>1. LinkedPair(t, q)
      BY <1>2, <2>2, EndsOn DEF Ends
    <3> QED
      BY <1>2, <2>1, <3>1 DEF LinkedPair
  <2>3. ASSUME NEW t \in Studies, NEW q \in Everyone
        PROVE  /\ Sound(members'[t][q], StudyRoles)
               /\ Present(members'[t][q]) => study[t] # "none"
               /\ <<t, q>> \notin req[w].touches => members'[t][q] = members[t][q]
    BY <1>1, <1>2, <2>1, RowsAreSound
  <2> QED
    BY <1>1, <1>2, <2>1, <2>2, <2>3, OwnCommit
<1>3. CASE ChangeStudyRoleCommit(w)
  <2>1. CASE members[s][p].by # req[w].seen
    BY <1>3, <2>1, FailsStep DEF ChangeStudyRoleCommit
  <2>2. CASE members[s][p].by = req[w].seen
    <3> DEFINE row == [members[s][p] EXCEPT !.role = req[w].role]
    <3>1. /\ members' = [members EXCEPT ![s][p] = row]
          /\ own' = own \cup req[w].touches /\ Ends(w) /\ UNCHANGED <<study, account, project>>
      BY <1>1, <1>3, <2>2 DEF ChangeStudyRoleCommit, Inv, TypeInv
    <3>2. req[w].op = "study role"
      BY <1>3 DEF ChangeStudyRoleCommit, At
    <3>3. req[w].role \in StudyRoles /\ Present(members[s][p])
      BY <1>1, <2>2, <3>2, RowsAreNumbered DEF ShapeOf
    <3>4. Sound(row, StudyRoles) /\ row.linked = members[s][p].linked
      <4>1. StudyRoles \in SUBSET StudyRoles /\ Sound(members[s][p], StudyRoles)
        BY <1>1, RowsAreSound
      <4> QED
        BY <3>3, <4>1, RoleIs
    <3> HIDE DEF row, s, p
    <3> QED
      BY <1>2, <3>1, <3>3, <3>4
  <2> QED
    BY <2>1, <2>2
<1>4. CASE RemoveFromStudyCommit(w)
  <2> DEFINE row == IF members[s][p].by = req[w].seen THEN NoRow ELSE members[s][p]
  <2>1. members' = [members EXCEPT ![s][p] = row]
    BY <1>1, <1>4 DEF RemoveFromStudyCommit, Inv, TypeInv
  <2>2. own' = own \cup req[w].touches /\ Ends(w) /\ UNCHANGED <<study, account, project>>
    BY <1>4 DEF RemoveFromStudyCommit
  <2>3. /\ Sound(row, StudyRoles)
        /\ Present(row) => Present(members[s][p]) /\ row.linked = members[s][p].linked
    BY <1>1, RowsAreSound, NoRowIs
  <2> HIDE DEF row, s, p
  <2> QED
    BY <1>2, <2>1, <2>2, <2>3
<1> QED
  BY <1>3, <1>4

LEMMA LinkCommitStep ==
    ASSUME Inv, NEW w \in Workers, LinkCommit(w)
    PROVE  Inv'
<1> DEFINE p == Person(w)
           row == IF project[p].by = req[w].seen /\ Present(project[p])
                  THEN [project[p] EXCEPT !.linked = TRUE] ELSE project[p]
<1>1. /\ req[w].op = "register" /\ req[w].place = "commit" /\ req[w] \in Request /\ ShapeOf(w)
      /\ p \in People /\ p \in Everyone /\ req[w].touches = Pairs(p)
  BY Subject, PairsType DEF LinkCommit, At, OnPerson
<1>2. /\ project' = [project EXCEPT ![p] = row]
      /\ members' = [s \in Studies |-> [members[s] EXCEPT ![p] = Linked(members[s][p])]]
      /\ account' = [account EXCEPT ![p] = "linked"]
      /\ Ends(w) /\ UNCHANGED <<study, own>>
  BY <1>1 DEF LinkCommit, Inv, TypeInv
<1>3. /\ Sound(row, ProjectRoles)
      /\ Present(row) <=> Present(project[p])
      /\ row.role = project[p].role
      /\ project[p].by = req[w].seen /\ Present(project[p]) => row.linked
  <2>1. ProjectRoles \in SUBSET StudyRoles /\ Sound(project[p], ProjectRoles)
    BY <1>1, RowsAreSound DEF StudyRoles
  <2>2. CASE project[p].by = req[w].seen /\ Present(project[p])
    BY <2>1, <2>2, LinkedIs
  <2>3. CASE ~(project[p].by = req[w].seen /\ Present(project[p]))
    BY <2>1, <2>3
  <2> QED
    BY <2>2, <2>3
<1> HIDE DEF row
<1>4. /\ project' = [q \in People |-> project'[q]] /\ project'[p] = row
      /\ \A q \in People : q # p => project'[q] = project[q] /\ account'[q] = account[q]
      /\ account' \in [People -> {"never", "none", "created", "linked"}]
  BY <1>1, <1>2 DEF Inv, TypeInv
<1>5. ASSUME NEW s \in Studies
      PROVE  /\ Sound(Linked(members[s][p]), StudyRoles)
             /\ Present(Linked(members[s][p])) <=> Present(members[s][p])
             /\ Linked(members[s][p]).role = members[s][p].role
             /\ Present(members[s][p]) => Linked(members[s][p]).linked
  <2>1. StudyRoles \in SUBSET StudyRoles /\ Sound(members[s][p], StudyRoles)
    BY <1>1, RowsAreSound
  <2>2. CASE Present(members[s][p])
    BY <2>1, <2>2, LinkedIs DEF Linked
  <2>3. CASE ~Present(members[s][p])
    BY <2>1, <2>3 DEF Linked
  <2> QED
    BY <2>2, <2>3
<1>6. /\ members' = [s \in Studies |-> [q \in Everyone |-> members'[s][q]]]
      /\ \A s \in Studies : members'[s][p] = Linked(members[s][p])
      /\ \A s \in Studies, q \in Everyone : q # p => members'[s][q] = members[s][q]
  BY <1>1, <1>2 DEF Inv, TypeInv
<1>7. ASSUME NEW s \in Studies, NEW q \in Everyone, <<s, q>> \notin req[w].touches
      PROVE  Same(s, q)
  <2>1. q # p
    BY <1>1, <1>7 DEF Pairs
  <2> QED
    BY <1>2, <1>4, <1>6, <2>1 DEF Same, Mine
<1>8. ASSUME NEW s \in Studies, NEW q \in Everyone, Sole(w, s, q)
      PROVE  LinkedPair(s, q)' /\ (~Mine(s, q)' => Follows(s, q)')
  <2>1. q = p
    BY <1>1, <1>8, PairsType DEF Sole
  <2>2. /\ ReadsOf(w, s, q) /\ LinkedPair(s, q)
        /\ ~Mine(s, q) => Follows(s, q)
    BY <1>1, <1>2, <1>8, EndsOn DEF Ends
  <2>3. Present(project[p]) => project[p].by = req[w].seen
    BY <1>1, <2>1, <2>2 DEF ReadsOf, LinkReads
  <2>4. LinkedPair(s, q)'
    BY <1>3, <1>4, <1>5, <1>6, <2>1, <2>3 DEF LinkedPair
  <2>5. (Mine(s, q)' <=> Mine(s, q)) /\ creator' = creator /\ study' = study
    BY <1>2 DEF Mine, Ends
  <2>6. Follows(s, q) => Follows(s, q)'
    BY <1>3, <1>4, <1>5, <1>6, <2>1, <2>5 DEF Follows
  <2> QED
    BY <2>2, <2>4, <2>5, <2>6
<1>9. \A q \in People : Sound(project'[q], ProjectRoles)
  BY <1>3, <1>4, RowsAreSound
<1>10. \A s \in Studies, q \in Everyone :
          Sound(members'[s][q], StudyRoles) /\ (Present(members'[s][q]) => study'[s] # "none")
  BY <1>2, <1>5, <1>6, RowsAreSound
<1>11. /\ own' \subseteq Studies \X Everyone
       /\ study' \in [Studies -> {"none", "alone", "project"}]
       /\ \A s \in Studies : study[s] # "none" => study'[s] # "none"
  BY <1>2 DEF Inv, TypeInv
<1> QED
  BY <1>2, <1>4, <1>6, <1>7, <1>8, <1>9, <1>10, <1>11, EndStep

-----------------------------------------------------------------------------
(* The invariant *)

LEMMA InitInv == Init => Inv
<1> SUFFICES ASSUME Init PROVE Inv
  OBVIOUS
<1>1. /\ \A w \in Workers : req[w] = NoRequest
      /\ \A p \in People : project[p] = NoRow
      /\ \A s \in Studies, p \in Everyone : members[s][p] = NoRow
      /\ \A s \in Studies : study[s] # "project"
      /\ requests = 0 /\ raced = {} /\ own = {}
  BY DEF Init
<1>2. TypeInv
  <2>1. NoRow \in AnyRow
    BY NoRowIs DEF Sound
  <2>2. project \in [People -> AnyRow] /\ members \in [Studies -> [Everyone -> AnyRow]]
    BY <2>1 DEF Init
  <2>3. requests \in 0 .. MaxRequests
    BY <1>1, BoundAssumption
  <2>4. /\ \A p \in People : Valid(project[p], ProjectRoles)
        /\ \A s \in Studies, p \in Everyone :
              Valid(members[s][p], StudyRoles) /\ ~Present(members[s][p])
    BY <1>1, NoRowIs DEF Valid
  <2>5. /\ creator \in [Studies -> Everyone] /\ req \in [Workers -> Request]
        /\ study \in [Studies -> {"none", "alone", "project"}]
        /\ account \in [People -> {"never", "none", "created", "linked"}]
    BY NoRequestType DEF Init
  <2> QED
    BY <1>1, <2>2, <2>3, <2>4, <2>5 DEF TypeInv
<1>3. ASSUME NEW w \in Workers PROVE ShapeOf(w) /\ Reads(w)
  BY <1>1, NoRequestFields DEF ShapeOf, Exist, Reads, Sole, OnPerson, OnStudy, OnPair
<1>4. ASSUME NEW s \in Studies, NEW p \in Everyone PROVE PairInv(s, p)
  BY <1>1, NoRowIs DEF PairInv, LinkedPair, Follows, Everyone
<1> QED
  BY <1>2, <1>3, <1>4 DEF Inv

LEMMA StepInv == Inv /\ [Next]_vars => Inv'
<1> SUFFICES ASSUME Inv, [Next]_vars PROVE Inv'
  OBVIOUS
<1>1. CASE UNCHANGED vars
  <2>1. UNCHANGED <<creator, study, account, project, members, req, requests, raced, own>>
    BY <1>1 DEF vars, rows
  <2>2. TypeInv'
    BY <2>1 DEF Inv, TypeInv, Valid
  <2>3. ASSUME NEW w \in Workers PROVE ShapeOf(w)'
    <3>1. ShapeOf(w)
      BY DEF Inv
    <3> QED
      BY <2>1, <3>1, Zenon DEF ShapeOf, Exist
  <2>4. ASSUME NEW w \in Workers, NEW s \in Studies, NEW p \in Everyone, Sole(w, s, p)'
        PROVE  ReadsOf(w, s, p)'
    <3>1. ReadsOf(w, s, p)
      BY <2>1, <2>4 DEF Inv, Reads, Sole
    <3> QED
      BY <2>1, <3>1 DEF ReadsOf, InviteReads, ChangeReads, StudyReads, LinkReads, Adds, Mine, Copied
  <2>5. ASSUME NEW s \in Studies, NEW p \in Everyone PROVE PairInv(s, p)'
    <3>1. PairInv(s, p)
      BY DEF Inv
    <3> QED
      BY <2>1, <3>1 DEF PairInv, LinkedPair, Follows, Creates, Mine
  <2> QED
    BY <2>2, <2>3, <2>4, <2>5 DEF Inv, Reads
<1>2. ASSUME NEW w \in Workers, RequestBegins(w) PROVE Inv'
  <2>1. CASE \E p \in People : \E role \in ProjectRoles : Invite(w, p, role) \/ ChangeRole(w, p, role)
    BY <2>1, InviteStep, ChangeRoleStep
  <2>2. CASE \E p \in People : Remove(w, p) \/ Register(w, p)
    BY <2>2, RemoveStep, RegisterStep
  <2>3. CASE \E s \in Studies : CreateStudy(w, s) \/ Assign(w, s) \/ MoveStudy(w, s)
    BY <2>3, CreateStudyStep, AssignStep, MoveStudyStep
  <2>4. CASE \E s \in Studies, p \in Everyone, role \in StudyRoles :
                InviteToStudy(w, s, p, role) \/ ChangeStudyRole(w, s, p, role)
                \/ RemoveFromStudy(w, s, p)
    BY <2>4, InviteToStudyStep, ChangeStudyRoleStep
  <2>5. StudyRoles # {}
    BY DEF StudyRoles
  <2> QED
    BY <1>2, <2>1, <2>2, <2>3, <2>4, <2>5 DEF RequestBegins
<1>3. ASSUME NEW w \in Workers, RequestGoesOn(w) PROVE Inv'
  <2>1. CASE InviteFlush(w)
    BY <2>1, InviteFlushStep
  <2>2. CASE InviteCommit(w)
    BY <2>2, InviteCommitStep
  <2>3. CASE ChangeRoleCommit(w)
    BY <2>3, ChangeRoleCommitStep
  <2>4. CASE RemoveCommit(w)
    BY <2>4, RemoveCommitStep
  <2>5. CASE CreateSync(w)
    BY <2>5, CreateSyncStep
  <2>6. CASE CreateCommit(w)
    BY <2>6, CreateCommitStep
  <2>7. CASE AssignSync(w)
    BY <2>7, AssignSyncStep
  <2>8. CASE AssignCommit(w)
    BY <2>8, AssignCommitStep
  <2>9. CASE InviteToStudyCommit(w)
    BY <2>9, InviteToStudyCommitStep
  <2>10. CASE ChangeStudyRoleCommit(w) \/ RemoveFromStudyCommit(w)
    BY <2>10, ChangeStudyRoleCommitStep
  <2>11. CASE LinkProject(w)
    BY <2>11, LinkProjectStep
  <2>12. CASE LinkCommit(w)
    BY <2>12, LinkCommitStep
  <2>13. CASE Abort(w)
    BY <2>13, FailsStep DEF Abort
  <2> QED
    BY <1>3, <2>1, <2>2, <2>3, <2>4, <2>5, <2>6, <2>7, <2>8, <2>9, <2>10, <2>11, <2>12, <2>13
       DEF RequestGoesOn
<1> QED
  BY <1>1, <1>2, <1>3 DEF Next

LEMMA Invariance == Spec => []Inv
  BY InitInv, StepInv, PTL DEF Spec

-----------------------------------------------------------------------------
(* Spellings that no account has *)

\* What a request knows of a person without an account for ever.
WaitsIn(r, p) ==
    /\ r.op = "invite" /\ r.touches = Pairs(p) => ~r.linked
    /\ r.op = "register" => r.touches # Pairs(p)
    /\ \A t \in r.add : t.p = p => ~t.linked

Never(p) == p \in People /\ account[p] = "never"

Waits ==
    /\ \A s \in Studies : ~Never(creator[s])
    /\ \A p \in People : Never(p) =>
          /\ ~project[p].linked
          /\ \A s \in Studies : ~members[s][p].linked
          /\ \A w \in Workers : WaitsIn(req[w], p)

\* A step that keeps the accounts, where the request of one worker changes.
LEMMA WaitsFrame ==
    ASSUME Inv, Waits, NEW w \in Workers, \A v \in Workers \ {w} : req'[v] = req[v],
           creator' = creator, \A p \in People : Never(p)' => Never(p),
           \A p \in People : Never(p) =>
              /\ ~project'[p].linked
              /\ \A s \in Studies : ~members'[s][p].linked
              /\ WaitsIn(req'[w], p)
    PROVE  Waits'
<1>1. \A s \in Studies : ~Never(creator[s])'
  BY DEF Waits, Never
<1>2. ASSUME NEW p \in People, Never(p)'
      PROVE  /\ ~project'[p].linked
             /\ \A s \in Studies : ~members'[s][p].linked
             /\ \A v \in Workers : WaitsIn(req'[v], p)
  BY <1>2 DEF Waits
<1> QED
  BY <1>1, <1>2, Zenon DEF Waits

LEMMA FreshWaits == \A p : WaitsIn(NoRequest, p)
  BY NoRequestFields DEF WaitsIn, NoRequest

LEMMA OnePersonHas ==
    ASSUME NEW p \in People, NEW q \in People, Pairs(p) = Pairs(q)
    PROVE  p = q
<1>1. PICK s \in Studies : TRUE
  BY StudiesAssumption
<1>2. <<s, p>> \in Pairs(q)
  BY <1>1 DEF Pairs
<1> QED
  BY <1>2 DEF Pairs

LEMMA WaitsBegins ==
    ASSUME Inv, Waits, NEW w \in Workers, RequestBegins(w)
    PROVE  Waits'
<1>1. /\ UNCHANGED <<creator, project, members>>
      /\ \A v \in Workers \ {w} : req'[v] = req[v]
  <2>1. UNCHANGED <<creator, project, members>> /\ \E r : req' = [req EXCEPT ![w] = r]
    <3>1. ASSUME NEW op, NEW touches, NEW read, Begin(w, op, touches, read)
          PROVE  UNCHANGED <<creator, project, members>> /\ \E r : req' = [req EXCEPT ![w] = r]
      BY <3>1 DEF Begin, rows
    <3>2. ASSUME NEW s \in Studies, CreateStudy(w, s)
          PROVE  UNCHANGED <<creator, project, members>> /\ \E r : req' = [req EXCEPT ![w] = r]
      BY <3>2 DEF CreateStudy, rows
    <3>3. ASSUME NEW s \in Studies, MoveStudy(w, s)
          PROVE  UNCHANGED <<creator, project, members>> /\ \E r : req' = [req EXCEPT ![w] = r]
      <4>1. UNCHANGED <<creator, project, members, req>> /\ req = [req EXCEPT ![w] = req[w]]
        BY <3>3 DEF MoveStudy, rows, Inv, TypeInv
      <4> QED
        BY <4>1
    <3>4. ASSUME NEW p \in People, Register(w, p)
          PROVE  UNCHANGED <<creator, project, members>> /\ \E r : req' = [req EXCEPT ![w] = r]
      BY <3>4 DEF Register, rows
    <3> QED
      BY <3>1, <3>2, <3>3, <3>4 DEF RequestBegins, Invite, ChangeRole, Remove, Assign,
         InviteToStudy, ChangeStudyRole, RemoveFromStudy
  <2> QED
    BY <2>1 DEF Inv, TypeInv
<1>2. ASSUME NEW p \in People, Never(p)' PROVE Never(p)
  BY <1>2 DEF Never, RequestBegins, Begin, Invite, ChangeRole, Remove, Register, CreateStudy,
     Assign, MoveStudy, InviteToStudy, ChangeStudyRole, RemoveFromStudy, Inv, TypeInv
<1>3. ASSUME NEW p \in People, Never(p) PROVE WaitsIn(req'[w], p)
  <2>0. ~HasAccount(p) /\ req[w] \in Request /\ req \in [Workers -> Request]
    BY <1>3 DEF Never, HasAccount, Inv, TypeInv
  <2>1. ASSUME NEW q \in People, NEW role \in ProjectRoles, Invite(w, q, role)
        PROVE  WaitsIn(req'[w], p)
    <3>1. /\ req'[w].op = "invite" /\ req'[w].touches = Pairs(q)
          /\ req'[w].linked = HasAccount(q) /\ req'[w].add = {}
      BY <2>0, <2>1 DEF Invite, Begin, NoRequest
    <3> QED
      BY <2>0, <3>1, OnePersonHas DEF WaitsIn
  <2>2. ASSUME NEW q \in People, NEW role \in ProjectRoles, ChangeRole(w, q, role)
        PROVE  WaitsIn(req'[w], p)
    BY <2>0, <2>2 DEF ChangeRole, Begin, NoRequest, WaitsIn
  <2>3. ASSUME NEW q \in People, Remove(w, q) PROVE WaitsIn(req'[w], p)
    BY <2>0, <2>3 DEF Remove, Begin, NoRequest, WaitsIn
  <2>4. ASSUME NEW q \in People, Register(w, q) PROVE WaitsIn(req'[w], p)
    <3>1. req'[w].op = "register" /\ req'[w].touches = Pairs(q) /\ req'[w].add = {}
      BY <2>0, <2>4 DEF Register, NoRequest
    <3>2. p # q
      BY <1>3, <2>4 DEF Never, Register
    <3> QED
      BY <3>1, <3>2, OnePersonHas DEF WaitsIn
  <2>5. ASSUME NEW s \in Studies, CreateStudy(w, s) PROVE WaitsIn(req'[w], p)
    BY <2>0, <2>5 DEF CreateStudy, NoRequest, WaitsIn
  <2>6. ASSUME NEW s \in Studies, Assign(w, s) PROVE WaitsIn(req'[w], p)
    BY <2>0, <2>6 DEF Assign, Begin, NoRequest, WaitsIn
  <2>7. ASSUME NEW s \in Studies, MoveStudy(w, s) PROVE WaitsIn(req'[w], p)
    BY <1>3, <2>7 DEF MoveStudy, Waits
  <2>8. ASSUME NEW s \in Studies, NEW q \in Everyone, NEW role \in StudyRoles,
               InviteToStudy(w, s, q, role)
        PROVE  WaitsIn(req'[w], p)
    <3>1. req'[w].op = "study invite" /\ req'[w].add = {Added(s, q, role, HasAccount(q))}
      BY <2>0, <2>8 DEF InviteToStudy, Begin, NoRequest
    <3> DEFINE u == Added(s, q, role, HasAccount(q))
    <3>2. u.p = q /\ u.linked = HasAccount(q)
      BY DEF Added
    <3>3. u.p = p => ~u.linked
      BY <2>0, <3>2
    <3>4. req'[w].add = {u}
      BY <3>1
    <3> HIDE DEF u
    <3>5. \A t \in req'[w].add : t.p = p => ~t.linked
      BY <3>3, <3>4
    <3> QED
      BY <3>1, <3>5 DEF WaitsIn
  <2>9. ASSUME NEW s \in Studies, NEW q \in Everyone, NEW role \in StudyRoles,
               ChangeStudyRole(w, s, q, role) \/ RemoveFromStudy(w, s, q)
        PROVE  WaitsIn(req'[w], p)
    BY <2>0, <2>9 DEF ChangeStudyRole, RemoveFromStudy, Begin, NoRequest, WaitsIn
  <2>10. StudyRoles # {}
    BY DEF StudyRoles
  <2> QED
    BY <2>1, <2>2, <2>3, <2>4, <2>5, <2>6, <2>7, <2>8, <2>9, <2>10 DEF RequestBegins
<1> QED
  BY <1>1, <1>2, <1>3, WaitsFrame DEF Waits

\* Rows that are added are linked as the additions are.
LEMMA AddedWaits ==
    ASSUME Inv, NEW w \in Workers, req[w].op # "idle", NEW table, SoundTable(table),
           NEW p \in Everyone, \A s \in Studies : ~table[s][p].linked,
           \A t \in req[w].add : t.p = p => ~t.linked
    PROVE  \A s \in Studies : ~WithAdded(req[w].add, req[w].number, table)[s][p].linked
<1>1. req[w].add \in SUBSET Additions /\ req[w].number \in 1 .. requests
  BY Subject DEF ShapeOf, Request
<1>2. HasAdded(WithAdded(req[w].add, req[w].number, table), req[w].add, table)
  BY <1>1, WithAddedIs
<1> QED
  BY <1>2 DEF HasAdded

\* What is copied into the studies is linked no more than it was.
LEMMA SyncWaits ==
    ASSUME Inv, Waits, NEW p \in People, Never(p), NEW s \in Studies
    PROVE  /\ \A t \in SyncStudy(s) : t.p = p => ~t.linked
           /\ \A t \in CreatorAdded(s) : t.p = p => ~t.linked
<1>1. ~project[p].linked /\ p # creator[s]
  BY DEF Waits
<1> QED
  BY <1>1, SyncStudyIs, CreatorAddedIs

LEMMA WaitsGoesOn ==
    ASSUME Inv, Waits, NEW w \in Workers, RequestGoesOn(w)
    PROVE  Waits'
<1>1. /\ creator' = creator /\ req[w] \in Request /\ ShapeOf(w)
      /\ \E r : req' = [req EXCEPT ![w] = r]
  <2>1. req[w] \in Request /\ ShapeOf(w) /\ req \in [Workers -> Request]
    BY Subject DEF Inv, TypeInv
  <2>2. ASSUME Ends(w) \/ Fails(w)
        PROVE  creator' = creator /\ \E r : req' = [req EXCEPT ![w] = r]
    BY <2>2 DEF Ends, Fails
  <2>3. ASSUME InviteFlush(w), ~Fails(w)
        PROVE  creator' = creator /\ \E r : req' = [req EXCEPT ![w] = r]
    <3>1. /\ creator' = creator
          /\ req' = [req EXCEPT ![w] = [req[w] EXCEPT !.place = "commit",
                        !.add = SyncMember(req[w].role, req[w].linked, Person(w))]]
      BY <2>1, <2>3 DEF InviteFlush
    <3> QED
      BY <3>1
  <2>4. ASSUME CreateSync(w)
        PROVE  creator' = creator /\ \E r : req' = [req EXCEPT ![w] = r]
    <3>1. /\ creator' = creator
          /\ req' = [req EXCEPT ![w] = [req[w] EXCEPT !.place = "commit",
                                                      !.add = SyncStudy(StudyOf(w))]]
      BY <2>1, <2>4 DEF CreateSync
    <3> QED
      BY <3>1
  <2>5. ASSUME AssignSync(w)
        PROVE  creator' = creator /\ \E r : req' = [req EXCEPT ![w] = r]
    <3>1. /\ creator' = creator /\ \A v \in Workers \ {w} : req'[v] = req[v]
          /\ req' \in [Workers -> {req'[v] : v \in Workers}]
      BY <2>1, <2>5 DEF AssignSync
    <3>2. req' = [req EXCEPT ![w] = req'[w]]
      BY <2>1, <3>1
    <3> QED
      BY <3>1, <3>2
  <2>6. ASSUME LinkProject(w)
        PROVE  creator' = creator /\ \E r : req' = [req EXCEPT ![w] = r]
    <3>1. /\ creator' = creator
          /\ req' = [req EXCEPT ![w] = [req[w] EXCEPT !.place = "commit",
                                                      !.seen = project[Person(w)].by]]
      BY <2>1, <2>6 DEF LinkProject
    <3> QED
      BY <3>1
  <2> QED
    BY <2>1, <2>2, <2>3, <2>4, <2>5, <2>6 DEF RequestGoesOn, InviteCommit, ChangeRoleCommit,
       RemoveCommit, CreateCommit, AssignCommit, InviteToStudyCommit, ChangeStudyRoleCommit,
       RemoveFromStudyCommit, LinkCommit, Abort
<1>2. \A v \in Workers \ {w} : req'[v] = req[v]
  BY <1>1 DEF Inv, TypeInv
<1>3. ASSUME NEW p \in People, Never(p)' PROVE Never(p)
  BY <1>3 DEF Never, RequestGoesOn, InviteFlush, InviteCommit, ChangeRoleCommit,
     RemoveCommit, CreateSync, CreateCommit, AssignSync, AssignCommit, InviteToStudyCommit,
     ChangeStudyRoleCommit, RemoveFromStudyCommit, LinkProject, LinkCommit, Abort, Ends, Fails,
     Inv, TypeInv
<1>4. ASSUME NEW p \in People, Never(p)
      PROVE  ~project'[p].linked /\ (\A s \in Studies : ~members'[s][p].linked)
             /\ WaitsIn(req'[w], p)
  <2>0. /\ ~project[p].linked /\ (\A s \in Studies : ~members[s][p].linked)
        /\ WaitsIn(req[w], p) /\ WaitsIn(NoRequest, p) /\ p \in Everyone
        /\ req \in [Workers -> Request] /\ project \in [People -> AnyRow]
        /\ members \in [Studies -> [Everyone -> AnyRow]] /\ ~NoRow.linked
    BY <1>4, FreshWaits DEF Waits, Everyone, Inv, TypeInv, NoRow
  <2> DEFINE Goal == /\ ~project'[p].linked /\ (\A s \in Studies : ~members'[s][p].linked)
                     /\ WaitsIn(req'[w], p)
  <2>1. ASSUME Fails(w) PROVE Goal
    BY <2>0, <2>1 DEF Fails, rows
  <2>2. ASSUME Ends(w) PROVE WaitsIn(req'[w], p)
    BY <2>0, <2>2 DEF Ends
  <2>3. SoundTable(members)
    BY RowsAreSound DEF SoundTable
  <2>4. CASE InviteFlush(w)
    <3>1. CASE Present(project[Person(w)])
      BY <2>1, <2>4, <3>1 DEF InviteFlush
    <3>2. CASE ~Present(project[Person(w)])
      <4> DEFINE add == SyncMember(req[w].role, req[w].linked, Person(w))
      <4>1. /\ req[w].op = "invite" /\ req[w].touches = Pairs(Person(w)) /\ Person(w) \in People
            /\ project' = project /\ members' = members
            /\ req' = [req EXCEPT ![w] = [req[w] EXCEPT !.place = "commit", !.add = add]]
        BY <2>0, <2>4, <3>2, Subject DEF InviteFlush, At, OnPerson, rows
      <4>2. \A t \in add : t.p = Person(w) /\ t.linked = req[w].linked
        BY AddedIs DEF SyncMember
      <4> HIDE DEF add
      <4>3. /\ req'[w].op = req[w].op /\ req'[w].touches = req[w].touches
            /\ req'[w].linked = req[w].linked /\ req'[w].add = add
        BY <1>1, <2>0, <4>1 DEF Request
      <4>4. \A t \in add : t.p = p => ~t.linked
        BY <2>0, <4>1, <4>2 DEF WaitsIn
      <4> QED
        BY <2>0, <4>1, <4>3, <4>4 DEF WaitsIn
    <3> QED
      BY <3>1, <3>2
  <2>5. CASE InviteCommit(w)
    <3>1. CASE Clashes(req[w].add)
      BY <2>1, <2>5, <3>1 DEF InviteCommit
    <3>2. CASE ~Clashes(req[w].add)
      <4>1. /\ req[w].op = "invite" /\ req[w].touches = Pairs(Person(w)) /\ Person(w) \in People
            /\ project' = [project EXCEPT ![Person(w)] =
                               Row(req[w].role, req[w].linked, req[w].number)]
            /\ members' = WithAdded(req[w].add, req[w].number, members)
        BY <2>0, <2>5, <3>2, Subject DEF InviteCommit, At, OnPerson
      <4>2. ~project'[p].linked
        BY <2>0, <4>1 DEF WaitsIn, Row
      <4>3. \A s \in Studies : ~members'[s][p].linked
        BY <2>0, <2>3, <4>1, AddedWaits DEF WaitsIn
      <4> QED
        BY <2>2, <2>5, <3>2, <4>2, <4>3 DEF InviteCommit
    <3> QED
      BY <3>1, <3>2
  <2>6. CASE ChangeRoleCommit(w)
    <3>1. CASE project[Person(w)].by # req[w].seen
      BY <2>1, <2>6, <3>1 DEF ChangeRoleCommit
    <3>2. CASE project[Person(w)].by = req[w].seen
      <4>1. \A s \in Studies : members'[s][p] = WithRole(w, s, p)
        BY <2>0, <2>6, <3>2 DEF ChangeRoleCommit
      <4>2. \A s \in Studies : WithRole(w, s, p).linked = members[s][p].linked
        BY <2>0 DEF WithRole, AnyRow
      <4>3. ~project'[p].linked
        BY <2>0, <2>6, <3>2 DEF ChangeRoleCommit, AnyRow
      <4> QED
        BY <2>0, <2>2, <2>6, <3>2, <4>1, <4>2, <4>3 DEF ChangeRoleCommit
    <3> QED
      BY <3>1, <3>2
  <2>7. CASE RemoveCommit(w)
    <3>1. \A s \in Studies : members'[s][p] = AfterRemoval(w, s, p)
      BY <2>0, <2>7 DEF RemoveCommit
    <3>2. \A s \in Studies : ~AfterRemoval(w, s, p).linked
      BY <2>0 DEF AfterRemoval, AnyRow
    <3>3. ~project'[p].linked
      BY <2>0, <2>7 DEF RemoveCommit
    <3> QED
      BY <2>2, <2>7, <3>1, <3>2, <3>3 DEF RemoveCommit
  <2>8. CASE CreateSync(w) \/ AssignSync(w)
    <3>1. /\ req[w].op \in OnStudy /\ StudyOf(w) \in Studies
          /\ project' = project /\ members' = members
      BY <2>8, Subject DEF CreateSync, AssignSync, At, OnStudy, rows
    <3>2. /\ req'[w].op = req[w].op
          /\ req'[w].add \subseteq SyncStudy(StudyOf(w)) \cup CreatorAdded(StudyOf(w))
      BY <2>0, <2>8 DEF CreateSync, AssignSync, Request
    <3>3. \A t \in req'[w].add : t.p = p => ~t.linked
      BY <1>4, <3>1, <3>2, SyncWaits
    <3> QED
      BY <2>0, <3>1, <3>2, <3>3 DEF WaitsIn, OnStudy
  <2>9. CASE CreateCommit(w)
    <3>1. CASE Clashes(req[w].add)
      BY <2>1, <2>9, <3>1 DEF CreateCommit
    <3>2. CASE ~Clashes(req[w].add)
      <4>1. \A s \in Studies : ~members'[s][p].linked
        BY <2>0, <2>3, <2>9, <3>2, AddedWaits DEF CreateCommit, At, WaitsIn
      <4> QED
        BY <2>0, <2>2, <2>9, <3>2, <4>1 DEF CreateCommit
    <3> QED
      BY <3>1, <3>2
  <2>10. CASE AssignCommit(w)
    <3>1. CASE Clashes(req[w].add) \/ (req[w].demote # {} /\ CreatorRow(StudyOf(w)).by # req[w].seen)
      BY <2>1, <2>10, <3>1 DEF AssignCommit
    <3>2. CASE ~(Clashes(req[w].add) \/ (req[w].demote # {} /\ CreatorRow(StudyOf(w)).by # req[w].seen))
      <4>1. /\ req[w].op = "assign" /\ req[w].op \in OnStudy
            /\ members' = WithAdded(req[w].add, req[w].number, Demoted(w))
            /\ StudyOf(w) \in Studies /\ req[w].touches = {StudyOf(w)} \X Everyone
        BY <2>10, <3>2, Subject DEF AssignCommit, At, OnStudy
      <4>2. \A s \in Studies : ~Demoted(w)[s][p].linked
        BY <2>0 DEF Demoted, AnyRow
      <4>3. SoundTable(Demoted(w))
        BY <2>10, <3>2, DemotedIs
      <4>4. \A s \in Studies : ~members'[s][p].linked
        BY <2>0, <4>1, <4>2, <4>3, AddedWaits DEF WaitsIn
      <4> QED
        BY <2>0, <2>2, <2>10, <3>2, <4>4 DEF AssignCommit
    <3> QED
      BY <3>1, <3>2
  <2>11. CASE InviteToStudyCommit(w)
    <3>1. CASE Clashes(req[w].add)
      BY <2>1, <2>11, <3>1 DEF InviteToStudyCommit
    <3>2. CASE ~Clashes(req[w].add)
      <4>1. \A s \in Studies : ~members'[s][p].linked
        BY <2>0, <2>3, <2>11, <3>2, AddedWaits DEF InviteToStudyCommit, At, WaitsIn
      <4> QED
        BY <2>0, <2>2, <2>11, <3>2, <4>1 DEF InviteToStudyCommit
    <3> QED
      BY <3>1, <3>2
  <2>12. CASE ChangeStudyRoleCommit(w)
    <3>1. CASE members[StudyOf(w)][Person(w)].by # req[w].seen
      BY <2>1, <2>12, <3>1 DEF ChangeStudyRoleCommit
    <3>2. CASE members[StudyOf(w)][Person(w)].by = req[w].seen
      <4>0. /\ StudyOf(w) \in Studies /\ Person(w) \in Everyone
            /\ members' = [members EXCEPT ![StudyOf(w)][Person(w)] =
                    [members[StudyOf(w)][Person(w)] EXCEPT !.role = req[w].role]]
        BY <2>12, <3>2, Subject DEF ChangeStudyRoleCommit, At, OnPair
      <4>1. \A s \in Studies : members'[s][p].linked = members[s][p].linked
        BY <2>0, <4>0 DEF AnyRow
      <4> QED
        BY <2>0, <2>2, <2>12, <3>2, <4>1 DEF ChangeStudyRoleCommit
    <3> QED
      BY <3>1, <3>2
  <2>13. CASE RemoveFromStudyCommit(w)
    <3>1. \A s \in Studies : ~members'[s][p].linked
      BY <2>0, <2>13 DEF RemoveFromStudyCommit
    <3> QED
      BY <2>0, <2>2, <2>13, <3>1 DEF RemoveFromStudyCommit
  <2>14. CASE LinkProject(w)
    <3>1. /\ req'[w].op = req[w].op /\ req'[w].touches = req[w].touches
          /\ req'[w].linked = req[w].linked /\ req'[w].add = req[w].add
          /\ project' = project /\ members' = members
      BY <2>0, <2>14 DEF LinkProject, Request, rows
    <3> QED
      BY <2>0, <3>1 DEF WaitsIn
  <2>15. CASE LinkCommit(w)
    <3>1. Person(w) \in People /\ Person(w) # p
      BY <2>0, <2>15, Subject DEF LinkCommit, At, OnPerson, WaitsIn
    <3>2. \A s \in Studies : members'[s][p] = members[s][p]
      BY <2>0, <2>15, <3>1 DEF LinkCommit
    <3>3. project'[p] = project[p]
      BY <2>0, <2>15, <3>1 DEF LinkCommit
    <3> QED
      BY <2>0, <2>2, <2>15, <3>2, <3>3 DEF LinkCommit
  <2>16. CASE Abort(w)
    BY <2>1, <2>16 DEF Abort
  <2> QED
    BY <2>4, <2>5, <2>6, <2>7, <2>8, <2>9, <2>10, <2>11, <2>12, <2>13, <2>14, <2>15, <2>16
       DEF RequestGoesOn
<1> QED
  BY <1>1, <1>2, <1>3, <1>4, WaitsFrame

-----------------------------------------------------------------------------
(* Theorems *)

\* Every variable has its type, the additions a request carries to its commit
\* and the studies it has read among them.
THEOREM TypeCorrect == Spec => []TypeOK
<1>1. Inv => TypeOK
  <2> SUFFICES ASSUME Inv PROVE TypeOK
    OBVIOUS
  <2>1. ASSUME NEW w \in Workers
        PROVE  /\ req[w].add \subseteq Additions
               /\ req[w].studies \cup req[w].demote
                     \subseteq ProjectStudies \cup {s \in Studies : study[s] = "alone"}
               /\ req[w].number \in 0 .. requests
    <3>1. req[w] \in Request /\ ShapeOf(w)
      BY Subject
    <3>2. req[w].studies \subseteq Studies /\ req[w].demote \subseteq Studies
      BY <3>1 DEF Request
    <3>3. \A s \in req[w].studies \cup req[w].demote : study[s] \in {"alone", "project"}
      BY <3>1, <3>2 DEF ShapeOf, Exist, Inv, TypeInv
    <3>4. requests \in Nat
      BY RowsAreSound
    <3>5. req[w].number \in 0 .. requests
      <4>1. CASE req[w].op = "idle"
        BY <3>1, <3>4, <4>1, NoRequestFields DEF ShapeOf
      <4>2. CASE req[w].op # "idle"
        <5>1. req[w].number \in 1 .. requests
          BY <3>1, <4>2 DEF ShapeOf
        <5> QED
          BY ONLY <3>4, <5>1
      <4> QED
        BY <4>1, <4>2
    <3> QED
      BY <3>1, <3>2, <3>3, <3>5 DEF Request, ProjectStudies
  <2> QED
    BY <2>1 DEF TypeOK, Inv, TypeInv, Valid
<1> QED
  BY <1>1, Invariance, PTL

\* Whichever came first, a study follows the members of its project, once the
\* requests that were after the pair have ended without a race.  This is not
\* so of the pairs that a study brings along when update_study moves it.
THEOREM StudiesFollow == Spec => []StudiesFollowProject
<1>1. Inv => StudiesFollowProject
  <2> SUFFICES ASSUME Inv PROVE StudiesFollowProject
    OBVIOUS
  <2>1. ASSUME NEW s \in Studies, NEW p \in Everyone, Quiet(s, p), <<s, p>> \notin own
        PROVE  Follows(s, p)
    <3>1. PairInv(s, p) /\ \A w \in Workers : ~Creates(w, s, p)
      BY <2>1 DEF Inv, Quiet, Creates
    <3> QED
      BY <2>1, <3>1 DEF PairInv, Quiet, Mine
  <2> QED
    BY <2>1, OwnerAssumption DEF StudiesFollowProject, Follows, ProjectStudies, Everyone
<1> QED
  BY <1>1, Invariance, PTL

LEMMA WaitsInvariance == Spec => []Waits
<1>1. Init => Waits
  BY NoRequestFields DEF Init, Waits, Never, WaitsIn, NoRow, Everyone, NoRequest
<1>2. Inv /\ Waits /\ [Next]_vars => Waits'
  <2>1. ASSUME UNCHANGED vars, Waits PROVE Waits'
    BY <2>1, Zenon DEF vars, rows, Waits, Never, WaitsIn
  <2> QED
    BY <2>1, WaitsBegins, WaitsGoesOn DEF Next
<1> QED
  BY <1>1, <1>2, Invariance, PTL DEF Spec

\* Whoever has registered finds linked to the account every invitation, to the
\* project and to its studies alike, that was written as its address; one that
\* was written with capitals is linked to nobody, ever.
THEOREM InvitationsLinked == Spec => []InvitationsAreLinked
<1>1. Inv /\ Waits => InvitationsAreLinked
  <2> SUFFICES ASSUME Inv, Waits, NEW s \in Studies, NEW p \in People
               PROVE  /\ account[p] = "linked" /\ Quiet(s, p)
                          => (Present(project[p]) => project[p].linked)
                             /\ (Present(members[s][p]) => members[s][p].linked)
                      /\ account[p] = "never" => ~project[p].linked /\ ~members[s][p].linked
    BY DEF InvitationsAreLinked
  <2>1. account[p] = "linked" /\ Quiet(s, p)
            => (Present(project[p]) => project[p].linked)
               /\ (Present(members[s][p]) => members[s][p].linked)
    BY DEF Inv, PairInv, LinkedPair, Quiet, Everyone
  <2>2. account[p] = "never" => ~project[p].linked /\ ~members[s][p].linked
    BY DEF Waits, Never
  <2> QED
    BY <2>1, <2>2
<1> QED
  BY <1>1, Invariance, WaitsInvariance, PTL

\* What the lists and the preview offer is what updates accept.
THEOREM RolesAlwaysAgree == Spec => []RolesAgree
<1>1. Inv => RolesAgree
  <2> SUFFICES ASSUME Inv, NEW s \in Studies, NEW u \in Everyone, study[s] # "none"
               PROVE  CanEdit(s, u) <=> ShownRole(s, u) \in {"admin", "editor"}
    BY DEF RolesAgree
  <2>1. study[s] = "project" \/ study[s] = "alone"
    BY DEF Inv, TypeInv
  <2> QED
    BY <2>1 DEF CanEdit, ShownRole
<1> QED
  BY <1>1, Invariance, PTL

RemovalGrantsNothing ==
    \A p \in People : Present(project[p]) /\ ~Present(project'[p]) =>
        \A s \in Studies : CanEdit(s, p)' => CanEdit(s, p) \/ <<s, p>> \in raced'

LEMMA RemovalStep == Inv /\ [Next]_vars => RemovalGrantsNothing
<1> SUFFICES ASSUME Inv, [Next]_vars, NEW p \in People,
                    Present(project[p]), ~Present(project'[p]),
                    NEW s \in Studies, CanEdit(s, p)', <<s, p>> \notin raced'
             PROVE  CanEdit(s, p)
  BY DEF RemovalGrantsNothing
<1>1. project' # project
  OBVIOUS
<1>2. PICK w \in Workers : InviteCommit(w) \/ ChangeRoleCommit(w) \/ RemoveCommit(w) \/ LinkCommit(w)
  <2>1. PICK w \in Workers : RequestBegins(w) \/ RequestGoesOn(w)
    BY <1>1 DEF Next, vars, rows
  <2>2. ~RequestBegins(w)
    BY <1>1 DEF RequestBegins, Begin, rows, Invite, ChangeRole, Remove, Register, CreateStudy,
       Assign, MoveStudy, InviteToStudy, ChangeStudyRole, RemoveFromStudy
  <2>3. ~InviteFlush(w) /\ ~CreateSync(w) /\ ~AssignSync(w) /\ ~LinkProject(w) /\ ~Abort(w)
    BY <1>1 DEF InviteFlush, CreateSync, AssignSync, LinkProject, Abort, Fails, rows
  <2>4. ~CreateCommit(w) /\ ~AssignCommit(w) /\ ~InviteToStudyCommit(w)
        /\ ~ChangeStudyRoleCommit(w) /\ ~RemoveFromStudyCommit(w)
    BY <1>1 DEF CreateCommit, AssignCommit, InviteToStudyCommit, ChangeStudyRoleCommit,
       RemoveFromStudyCommit, Fails, rows
  <2> QED
    BY <2>1, <2>2, <2>3, <2>4 DEF RequestGoesOn
<1>3. CASE RemoveCommit(w)
  <2>1. /\ req[w].op = "remove" /\ req[w] \in Request /\ Reads(w)
        /\ Person(w) \in People /\ req[w].touches = Pairs(Person(w))
    BY <1>3, Subject DEF RemoveCommit, At, OnPerson
  <2>2. p = Person(w) /\ p \in Everyone /\ p # Owner
    <3>1. \A q \in People : q # Person(w) => project'[q] = project[q]
      BY <1>3 DEF RemoveCommit, Inv, TypeInv
    <3> QED
      BY <3>1, OwnerAssumption DEF Everyone
  <2>3. Sole(w, s, p)
    <3>1. <<s, p>> \in req[w].touches
      BY <2>1, <2>2 DEF Pairs
    <3>2. raced' = raced \cup Shared(w)
      BY <1>3 DEF RemoveCommit, Ends
    <3> QED
      BY <3>1, <3>2 DEF Sole, Shared
  <2>4. study[s] = "project" <=> s \in req[w].studies
    BY <2>1, <2>2, <2>3 DEF Reads, ReadsOf, ChangeReads
  <2>5. /\ creator' = creator /\ study' = study
        /\ members'[s][p] = AfterRemoval(w, s, p)
    BY <1>3, <2>2 DEF RemoveCommit, Ends
  <2>6. ~project'[p].linked
    BY <1>3, <2>1, <2>2 DEF RemoveCommit, Inv, TypeInv, NoRow
  <2>7. CASE study[s] = "project"
    <3>1. AfterRemoval(w, s, p) = NoRow \/ AfterRemoval(w, s, p).role = "viewer"
      BY <2>2, <2>4, <2>7 DEF AfterRemoval, Inv, TypeInv, AnyRow
    <3>2. ~CanEdit(s, p)'
      BY <2>2, <2>5, <2>6, <2>7, <3>1 DEF CanEdit, StudyRole, InProject, NoRow
    <3> QED
      BY <3>2
  <2>8. CASE study[s] # "project"
    BY <2>2, <2>4, <2>5, <2>8 DEF CanEdit, StudyRole, AfterRemoval
  <2> QED
    BY <2>7, <2>8
<1>4. CASE InviteCommit(w)
  <2>1. Person(w) \in People /\ ShapeOf(w) /\ req[w].op = "invite"
    BY <1>4, Subject DEF InviteCommit, At, OnPerson
  <2>2. \A role, linked, by : role \in ProjectRoles => Present(Row(role, linked, by))
    BY DEF Row, Present, ProjectRoles
  <2>3. project' = [project EXCEPT ![Person(w)] =
                        Row(req[w].role, req[w].linked, req[w].number)]
    BY <1>1, <1>4 DEF InviteCommit, Fails, rows
  <2>4. req[w].role \in ProjectRoles
    BY <2>1 DEF ShapeOf
  <2>5. project \in [People -> AnyRow]
    BY DEF Inv, TypeInv
  <2>6. p = Person(w)
    BY <2>3, <2>5
  <2> QED
    BY <2>2, <2>3, <2>4, <2>5, <2>6
<1>5. CASE ChangeRoleCommit(w)
  <2>1. Person(w) \in People /\ ShapeOf(w) /\ req[w].op = "role"
    BY <1>5, Subject DEF ChangeRoleCommit, At, OnPerson
  <2>2. req[w].role \in ProjectRoles
    BY <2>1 DEF ShapeOf
  <2> QED
    BY <1>1, <1>5, <2>1, <2>2 DEF ChangeRoleCommit, Fails, rows, Present, ProjectRoles,
       Inv, TypeInv, AnyRow
<1>6. CASE LinkCommit(w)
  <2>1. Person(w) \in People
    BY <1>6, Subject DEF LinkCommit, At, OnPerson
  <2> QED
    BY <1>6, <2>1 DEF LinkCommit, Present, Inv, TypeInv, AnyRow
<1> QED
  BY <1>2, <1>3, <1>4, <1>5, <1>6

\* The removal of a member lets nobody edit who could not edit before, unless it
\* has raced with another request on the same study and person.
THEOREM RemovalDoesNotGrant == Spec => RemovalNeverGrants
<1>1. Inv /\ [Next]_vars => [RemovalGrantsNothing]_vars
  BY RemovalStep
<1> QED
  BY <1>1, Invariance, PTL DEF Spec, RemovalNeverGrants, RemovalGrantsNothing
=============================================================================
