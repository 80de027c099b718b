-------------------------- MODULE StudyEditingProofs --------------------------
(***************************************************************************)
(* Theorems about StudyEditing, for any workers, keys, constraints and     *)
(* bounds.  Who holds FOR UPDATE is alone with the study: until it ends,   *)
(* nobody else commits anything but an edit that only clears, which takes  *)
(* rows away and adds none.  Who does not hold it is protected only by the *)
(* rows it has deleted, or, as a copy, by the rows of every later edit     *)
(* being new ones.                                                         *)
(***************************************************************************)
EXTENDS StudyEditing, TLAPS

Study == [status : Statuses, launched : BOOLEAN, gone : BOOLEAN, cons : SUBSET Constraints]
NoAsk == [kind |-> "none"]
Request ==
    [pc : Places, ask : Asks \cup {NoAsk}, seen : Study, lock : None .. ForUpdate,
     target : SUBSET Rows, del : SUBSET Rows, bared : SUBSET Rows,
     used : SUBSET Rows, kids : SUBSET Rows]

TypeInv ==
    /\ layered \in BOOLEAN
    /\ study \in Study
    /\ rows \in [Keys -> Versions \cup {0}]
    /\ bare \subseteq Rows
    /\ req \in [Workers -> Request]
    /\ requests \in 0 .. MaxRequests

LockInv == \A v, w \in Workers : v # w => ~Conflict(req[v].lock, req[w].lock)

\* The places of a replacement whose DELETE has begun, or is over.
Deleted == {"flush", "insert", "reference", "elements", "commit"}
Deleting == {"deleting"} \cup Deleted

KindAt(pc, kind) ==
    /\ pc = "write" => kind \in {"status", "launch", "upsert", "drop"}
    /\ pc \in {"delete", "deleting"} => kind \in {"replace", "replace and launch", "delete"}
    /\ pc \in Deleted => kind \in {"replace", "replace and launch"}
    /\ pc = "again" => kind = "replace and launch"
    /\ pc = "remove" => kind = "delete"
    /\ pc \in {"read", "images", "save"} => kind = "regenerate"
    /\ pc \in {"parents", "children", "copied"} => kind = "copy"

PlaceOf(w) ==
    /\ req[w].pc = "idle" => req[w] = NoRequest
    /\ req[w].pc # "idle" => req[w].ask \in Asks
    /\ KindAt(req[w].pc, req[w].ask.kind)
    /\ req[w].del \subseteq req[w].target
    /\ req[w].del # {} => req[w].pc \in Deleted \cup {"remove"}
    /\ req[w].bared # {} =>
          req[w].pc = "commit" \/ (req[w].pc = "flush" /\ req[w].ask.keys = {})
    /\ req[w].pc \in {"insert", "reference", "elements"} => req[w].ask.keys # {}

\* Unless it is between its two transactions.
LockOf(w) == req[w].pc \notin {"idle", "again"} =>
    IF LoadsForUpdate(req[w].ask) THEN req[w].lock = ForUpdate
    ELSE /\ req[w].lock < ForUpdate
         /\ req[w].pc = "elements" => req[w].lock # None
         /\ req[w].pc = "commit" /\ req[w].lock = None =>
               req[w].ask.keys = {} /\ ~FlushesStatus(w)
         /\ req[w].lock # None => req[w].pc \in Deleted \ {"flush"}

\* Who is alone with the study still has read it as it is, and has seen all
\* the rows there are.
HoldOf(w) == req[w].lock = ForUpdate =>
    /\ req[w].pc = "write" => req[w].seen = study
    /\ req[w].ask.kind = "delete" => study.status # "active"
    /\ req[w].pc = "images" => Whole \subseteq req[w].used
    /\ req[w].pc \in Deleting => Committed \subseteq req[w].target

\* What a DELETE has seen and is still there, it has deleted.
TargetOf(w) == req[w].pc \in Deleted =>
    IF ClearsElements(w)
    THEN /\ req[w].target \cap Whole \subseteq req[w].bared
         /\ req[w].bared \subseteq req[w].target
         /\ req[w].del = {}
    ELSE req[w].target \cap Committed \subseteq req[w].del

\* Since a copy has read the categories, only elements were deleted, or the
\* latest edit left new rows with their elements, or those of the copy have
\* lost theirs.
CopyOf(w) == req[w].pc = "children" /\ ~layered =>
    \/ study.gone
    \/ req[w].used = Committed
    \/ ~(Whole \subseteq req[w].used)
    \/ req[w].used \cap Whole = {}

\* Of a DELETE and a copy, one has seen what is left of the rows of the other.
Ordered(w, u) == req[u].pc = "children" =>
    \/ req[w].target \cap Committed \subseteq req[u].used
    \/ req[u].used \cap Committed \subseteq req[w].target

RequestInv(w) == PlaceOf(w) /\ LockOf(w) /\ HoldOf(w) /\ TargetOf(w) /\ CopyOf(w)

Inv ==
    /\ TypeInv
    /\ LockInv
    /\ \A w \in Workers : RequestInv(w)
    /\ \A w, u \in Workers : Ordered(w, u)

-----------------------------------------------------------------------------
(* Types *)

Kinds == {"replace", "replace and launch", "status", "upsert", "drop",
          "launch", "delete", "regenerate", "copy"}

AskOk(a) ==
    /\ a.kind \in Kinds
    /\ a.creator \in BOOLEAN
    /\ a.keys \subseteq Keys
    /\ a.to \in Statuses \cup {NoStatus}
    /\ a.con \subseteq Constraints

LEMMA AskType == \A a \in Asks : AskOk(a)
<1> USE DEF Ask, AskOk, Kinds, Statuses
<1>1. \A a \in Ask({"replace"}, Designs, {NoStatus, "active"}, {{}}) : AskOk(a)
  BY DEF Designs
<1>2. \A a \in Ask({"replace and launch"}, Designs, {NoStatus}, {{}}) : AskOk(a)
  BY DEF Designs
<1>3. \A a \in Ask({"status"}, {{}}, {"active", "paused"}, {{}}) : AskOk(a)
  BY DEF Replaces
<1>4. \A a \in Ask({"upsert", "drop"}, {{}}, {NoStatus}, Each) : AskOk(a)
  BY DEF Replaces, Each
<1>5. \A a \in Ask({"launch", "delete", "regenerate", "copy"}, {{}}, {NoStatus}, {{}}) : AskOk(a)
  BY DEF Replaces
<1> QED
  BY ONLY <1>1, <1>2, <1>3, <1>4, <1>5 DEF Asks

LEMMA NoRequestType == NoRequest \in Request /\ NoStudy \in Study
  BY DEF NoRequest, NoStudy, Request, Study, NoAsk, Places, Statuses, None, ForUpdate

LEMMA CommittedType == TypeInv => Committed \subseteq Rows /\ Whole \subseteq Committed
  BY DEF TypeInv, Committed, Whole, Rows

LEMMA IdleInv ==
    ASSUME NEW w \in Workers, req'[w] = NoRequest
    PROVE  RequestInv(w)'
  BY DEF RequestInv, PlaceOf, KindAt, LockOf, HoldOf, TargetOf, CopyOf, NoRequest, Deleted,
         Deleting, None, ForUpdate

LEMMA InitInv == Init => Inv
<1> SUFFICES ASSUME Init PROVE Inv
  OBVIOUS
<1>1. \A w \in Workers : req[w] = NoRequest
  BY DEF Init
<1>2. study \in Study
  <2>1. PICK s \in [status : Statuses, launched : BOOLEAN, gone : {FALSE}, cons : Created] : study = s
    BY DEF Init
  <2> QED
    BY <2>1, CreatedAssumption DEF Study
<1>3. TypeInv
  <2>1. rows \in [Keys -> Versions \cup {0}]
    <3>1. 1 \in Versions
      BY BoundAssumption DEF Versions
    <3> QED
      BY <3>1 DEF Init
  <2> QED
    BY <1>2, <2>1, NoRequestType, BoundAssumption DEF Init, TypeInv
<1>4. LockInv
  BY <1>1 DEF LockInv, Conflict, NoRequest, None, ForUpdate
<1>5. ASSUME NEW w \in Workers PROVE RequestInv(w)
  <2>1. req[w] = NoRequest
    BY <1>1
  <2> QED
    BY <2>1 DEF RequestInv, PlaceOf, KindAt, LockOf, HoldOf, TargetOf, CopyOf, NoRequest, Deleted,
           Deleting, None, ForUpdate
<1>6. ASSUME NEW w \in Workers, NEW u \in Workers PROVE Ordered(w, u)
  BY <1>1 DEF Ordered, NoRequest
<1> QED
  BY <1>3, <1>4, <1>5, <1>6 DEF Inv

-----------------------------------------------------------------------------
(* Frames *)

\* A step that changes nothing but one request.
LEMMA LocalStep ==
    ASSUME Inv, NEW w \in Workers, NEW v \in Request, req' = [req EXCEPT ![w] = v],
           UNCHANGED <<layered, study, design>>, requests' \in 0 .. MaxRequests,
           \A u \in Workers \ {w} : ~Conflict(v.lock, req[u].lock),
           v.target \in {req[w].target, Committed, {}},
           v.pc = "children" => v.used = Committed,
           RequestInv(w)'
    PROVE  Inv'
<1>1. UNCHANGED <<layered, study, rows, bare>>
  BY DEF design
<1>2. Committed' = Committed /\ Whole' = Whole
  BY <1>1 DEF Committed, Whole
<1>3. req'[w] = v /\ \A u \in Workers \ {w} : req'[u] = req[u]
  BY DEF Inv, TypeInv
<1>4. TypeInv'
  BY <1>1 DEF Inv, TypeInv
<1>5. LockInv'
  <2>1. \A m, n \in None .. ForUpdate : Conflict(m, n) <=> Conflict(n, m)
    BY DEF Conflict, None, ForUpdate
  <2>2. \A u \in Workers : req[u].lock \in None .. ForUpdate
    BY DEF Inv, TypeInv, Request
  <2>3. v.lock \in None .. ForUpdate
    BY DEF Request
  <2> QED
    BY <1>3, <2>1, <2>2, <2>3 DEF Inv, LockInv
<1>6. ASSUME NEW u \in Workers \ {w} PROVE RequestInv(u)'
  <2>1. RequestInv(u) /\ req'[u] = req[u]
    BY <1>3 DEF Inv
  <2> QED
    BY <1>1, <1>2, <2>1 DEF RequestInv, PlaceOf, LockOf, HoldOf, TargetOf, CopyOf,
                            FlushesStatus, ClearsElements
<1>7. ASSUME NEW x \in Workers, NEW u \in Workers PROVE Ordered(x, u)'
  <2>1. Ordered(x, u) /\ Committed' = Committed
    BY <1>2 DEF Inv
  <2>2. CASE u = w
    BY <1>2, <1>3, <2>2 DEF Ordered
  <2>3. CASE u # w
    <3>1. req'[u] = req[u] /\ req'[x].target \in {req[x].target, Committed, {}}
      BY <1>3, <2>3
    <3> QED
      BY <2>1, <3>1 DEF Ordered
  <2> QED
    BY <2>2, <2>3
<1> QED
  BY <1>4, <1>5, <1>6, <1>7 DEF Inv

\* A commit: while another is alone with the study, it only takes rows away.
LEMMA CommitStep ==
    ASSUME Inv, NEW w \in Workers, NEW v \in Request, req' = [req EXCEPT ![w] = v],
           TypeInv', layered' = layered, v.lock = None, v.target = {}, v.pc # "children",
           \A u \in Workers \ {w} :
              \/ req[u].lock # ForUpdate
              \/ study' = study /\ Committed' \subseteq Committed /\ Whole' \subseteq Whole,
           RequestInv(w)',
           study.gone => study'.gone,
           \A u \in Workers \ {w} :
              /\ req[u].target \cap Committed' \subseteq Committed
              /\ req[u].target \cap Whole' \subseteq Whole
              /\ req[u].used \cap Committed' \subseteq Committed
              /\ CopyOf(u)'
    PROVE  Inv'
<1>1. req'[w] = v /\ \A u \in Workers \ {w} : req'[u] = req[u]
  BY DEF Inv, TypeInv
<1>2. LockInv'
  <2>1. \A u \in Workers : req[u].lock \in None .. ForUpdate
    BY DEF Inv, TypeInv, Request
  <2>2. \A m \in None .. ForUpdate : ~Conflict(None, m) /\ ~Conflict(m, None)
    BY DEF Conflict, None, ForUpdate
  <2> QED
    BY <1>1, <2>1, <2>2 DEF Inv, LockInv
<1>3. ASSUME NEW u \in Workers \ {w} PROVE RequestInv(u)'
  <2>1. RequestInv(u) /\ req'[u] = req[u]
    BY <1>1 DEF Inv
  <2>2. PlaceOf(u)' /\ LockOf(u)'
    BY <2>1 DEF RequestInv, PlaceOf, LockOf, FlushesStatus
  <2>3. HoldOf(u)'
    BY <2>1 DEF RequestInv, HoldOf
  <2>4. TargetOf(u)'
    BY <2>1 DEF RequestInv, TargetOf, ClearsElements
  <2> QED
    BY <2>2, <2>3, <2>4 DEF RequestInv
<1>4. ASSUME NEW x \in Workers, NEW u \in Workers PROVE Ordered(x, u)'
  <2>1. CASE u = w
    BY <1>1, <2>1 DEF Ordered
  <2>2. CASE x = w
    BY <1>1, <2>2 DEF Ordered
  <2>3. CASE u # w /\ x # w
    <3>1. Ordered(x, u) /\ req'[u] = req[u] /\ req'[x] = req[x]
      BY <1>1, <2>3 DEF Inv
    <3>2. /\ req[x].target \cap Committed' \subseteq Committed
          /\ req[u].used \cap Committed' \subseteq Committed
      BY <2>3
    <3> QED
      BY <3>1, <3>2 DEF Ordered
  <2> QED
    BY <2>1, <2>2, <2>3
<1> QED
  BY <1>2, <1>3, <1>4 DEF Inv

LEMMA Ended ==
    ASSUME Inv, NEW w \in Workers, End(w), UNCHANGED <<layered, study, design>>,
           requests' \in 0 .. MaxRequests
    PROVE  Inv'
<1>1. req' = [req EXCEPT ![w] = NoRequest] /\ req'[w] = NoRequest
  BY DEF End, Inv, TypeInv
<1>2. ASSUME NEW u \in Workers PROVE ~Conflict(NoRequest.lock, req[u].lock)
  <2>1. req[u].lock \in None .. ForUpdate
    BY DEF Inv, TypeInv, Request
  <2> QED
    BY <2>1 DEF NoRequest, Conflict, None, ForUpdate
<1>3. NoRequest.target = {} /\ NoRequest.pc # "children"
  BY DEF NoRequest
<1> QED
  BY <1>1, <1>2, <1>3, IdleInv, NoRequestType, LocalStep

\* A statement of w is granted its lock on the study.
LEMMA Granted ==
    ASSUME NEW w \in Workers, NEW pc, At(w, pc), Wants(w) # None, NEW u \in Workers, u # w
    PROVE  ~Conflict(Wants(w), req[u].lock)
  BY DEF At, Waits

-----------------------------------------------------------------------------
(* Loading *)

LEMMA LoadStep ==
    ASSUME Inv, NEW w \in Workers, req[w].pc \in {"idle", "again"}, NEW a \in Asks, Load(w, a),
           requests' \in 0 .. MaxRequests
    PROVE  Inv'
<1> DEFINE v == [NoRequest EXCEPT !.pc = FirstStep(a), !.ask = a,
                                  !.seen = IF UsesRow(a) THEN study ELSE NoStudy,
                                  !.lock = IF LoadsForUpdate(a) THEN ForUpdate ELSE None]
<1>1. AskOk(a)
  BY AskType
<1>2. /\ FirstStep(a) \in {"delete", "read", "parents", "write"}
      /\ KindAt(FirstStep(a), a.kind)
  BY <1>1 DEF AskOk, Kinds, KindAt, FirstStep, Replaces, Deleted
<1>3. /\ v.pc = FirstStep(a) /\ v.ask = a
      /\ v.seen = IF UsesRow(a) THEN study ELSE NoStudy
      /\ v.lock = IF LoadsForUpdate(a) THEN ForUpdate ELSE None
      /\ v.target = {} /\ v.del = {} /\ v.bared = {} /\ v.used = {} /\ v.kids = {}
  BY DEF NoRequest
<1>4. v \in Request
  <2>1. study \in Study /\ NoStudy \in Study
    BY NoRequestType DEF Inv, TypeInv
  <2>2. NoRequest \in Request
    BY NoRequestType
  <2>3. v.pc \in Places /\ v.lock \in None .. ForUpdate /\ v.seen \in Study
    BY <1>2, <1>3, <2>1 DEF Places, None, ForUpdate
  <2>4. v = [[[[NoRequest EXCEPT !.pc = v.pc] EXCEPT !.ask = v.ask]
                EXCEPT !.seen = v.seen] EXCEPT !.lock = v.lock]
    BY <1>3
  <2> HIDE DEF v
  <2>5. [NoRequest EXCEPT !.pc = v.pc] \in Request
    BY <2>2, <2>3 DEF Request
  <2>6. [[NoRequest EXCEPT !.pc = v.pc] EXCEPT !.ask = v.ask] \in Request
    BY <1>3, <2>5 DEF Request
  <2> QED
    BY <2>3, <2>4, <2>6 DEF Request
<1>5. req' = [req EXCEPT ![w] = v] /\ UNCHANGED <<layered, study, design>>
  BY DEF Load
<1>6. ASSUME NEW u \in Workers \ {w} PROVE ~Conflict(v.lock, req[u].lock)
  <2>1. req[u].lock \in None .. ForUpdate
    BY DEF Inv, TypeInv, Request
  <2> QED
    BY <1>3, <2>1 DEF Load, Conflict, None, ForUpdate
<1>7. req'[w] = v
  BY <1>5 DEF Inv, TypeInv
<1>8. RequestInv(w)'
  <2>1. PlaceOf(w)'
    BY <1>2, <1>3, <1>7 DEF PlaceOf
  <2>2. LockOf(w)'
    BY <1>2, <1>3, <1>7 DEF LockOf, LoadsForUpdate, None, ForUpdate, Deleted
  <2>3. HoldOf(w)'
    <3>1. study' = study
      BY <1>5
    <3>2. a.kind = "delete" => study.status # "active"
      BY DEF Load, Refused
    <3>3. FirstStep(a) = "write" => v.seen = study
      BY <1>3 DEF UsesRow
    <3> QED
      BY <1>2, <1>3, <1>7, <3>1, <3>2, <3>3 DEF HoldOf, Deleting, Deleted
  <2>4. TargetOf(w)' /\ CopyOf(w)'
    BY <1>2, <1>3, <1>7 DEF TargetOf, CopyOf, Deleted
  <2> QED
    BY <2>1, <2>2, <2>3, <2>4 DEF RequestInv
<1> QED
  BY <1>2, <1>3, <1>4, <1>5, <1>6, <1>8, LocalStep

LEMMA BeginStep ==
    ASSUME Inv, NEW w \in Workers, Begin(w)
    PROVE  Inv'
<1>1. requests' \in 0 .. MaxRequests
  BY BoundAssumption DEF Begin, Inv, TypeInv
<1> QED
  BY <1>1, LoadStep DEF Begin

LEMMA LaunchAfterUpdateStep ==
    ASSUME Inv, NEW w \in Workers, LaunchAfterUpdate(w)
    PROVE  Inv'
<1>1. \A a \in Ask({"status"}, {{}}, {"active"}, {{}}) : a \in Asks
  BY DEF Asks, Ask
<1>2. requests' \in 0 .. MaxRequests
  BY DEF LaunchAfterUpdate, Inv, TypeInv
<1> QED
  BY <1>1, <1>2, LoadStep DEF LaunchAfterUpdate

-----------------------------------------------------------------------------
(* Replacing the design *)

\* What a step at a place knows of its request.
LEMMA AtFacts ==
    ASSUME Inv, NEW w \in Workers, NEW pc, req[w].pc = pc
    PROVE  /\ req[w] \in Request
           /\ RequestInv(w)
           /\ pc # "idle" => req[w].ask \in Asks
           /\ \A u \in Workers \ {w} : ~Conflict(req[w].lock, req[u].lock)
  BY DEF Inv, TypeInv, RequestInv, PlaceOf, LockInv

LEMMA DeleteSnapshotStep ==
    ASSUME Inv, NEW w \in Workers, DeleteSnapshot(w)
    PROVE  Inv'
<1> DEFINE v == [req[w] EXCEPT !.pc = "deleting", !.target = Committed]
<1>1. req[w].pc = "delete" /\ req' = [req EXCEPT ![w] = v]
  BY DEF DeleteSnapshot, At
<1>2. req[w] \in Request /\ RequestInv(w)
  BY <1>1, AtFacts
<1>3. /\ v \in Request /\ v.pc = "deleting" /\ v.target = Committed
      /\ v.ask = req[w].ask /\ v.lock = req[w].lock /\ v.del = req[w].del
      /\ v.bared = req[w].bared
  BY <1>2, CommittedType DEF Request, Places, Inv
<1>4. req'[w] = v
  BY <1>1 DEF Inv, TypeInv
<1>5. Committed' = Committed /\ study' = study
  BY DEF DeleteSnapshot, design, Committed
<1> HIDE DEF v
<1>6. PlaceOf(w)' /\ LockOf(w)'
  BY <1>1, <1>2, <1>3, <1>4 DEF RequestInv, PlaceOf, LockOf, KindAt, Deleted
<1>7. HoldOf(w)' /\ TargetOf(w)' /\ CopyOf(w)'
  BY <1>1, <1>2, <1>3, <1>4, <1>5 DEF RequestInv, HoldOf, TargetOf, CopyOf, Deleted
<1> QED
  BY <1>1, <1>2, <1>3, <1>6, <1>7, AtFacts, LocalStep DEF DeleteSnapshot, RequestInv, Inv, TypeInv

LEMMA DeleteRowsStep ==
    ASSUME Inv, NEW w \in Workers, DeleteRows(w)
    PROVE  Inv'
<1> DEFINE del == IF ClearsElements(w) THEN {} ELSE Deletable(w)
           bared == IF ClearsElements(w) THEN Deletable(w) ELSE {}
           v == [req[w] EXCEPT !.pc = AfterDelete(w), !.del = del, !.bared = bared]
<1>1. req[w].pc = "deleting" /\ req' = [req EXCEPT ![w] = v]
  BY DEF DeleteRows, At
<1>2. req[w] \in Request /\ RequestInv(w)
  BY <1>1, AtFacts
<1>3. /\ AfterDelete(w) \in {"remove", "flush", "commit", "insert"}
      /\ KindAt(AfterDelete(w), req[w].ask.kind)
      /\ AfterDelete(w) = "insert" => req[w].ask.keys # {}
      /\ AfterDelete(w) = "commit" => req[w].ask.keys = {} /\ ~FlushesStatus(w)
      /\ ClearsElements(w) =>
            AfterDelete(w) \in {"flush", "commit"} /\ req[w].ask.keys = {}
  BY <1>1, <1>2 DEF AfterDelete, AfterFlush, RequestInv, PlaceOf, KindAt, Deleted,
                    ClearsElements, Replaces
<1>4. del \in SUBSET Rows /\ bared \in SUBSET Rows /\ del \subseteq req[w].target
  BY CommittedType DEF Inv, Deletable
<1>5. IF ClearsElements(w)
      THEN req[w].target \cap Whole \subseteq bared /\ bared \subseteq req[w].target /\ del = {}
      ELSE req[w].target \cap Committed \subseteq del /\ bared = {}
  BY DEF Deletable
<1> HIDE DEF del, bared
<1>6. /\ v \in Request /\ v.pc = AfterDelete(w) /\ v.target = req[w].target
      /\ v.ask = req[w].ask /\ v.lock = req[w].lock /\ v.del = del
      /\ v.bared = bared /\ v.seen = req[w].seen
  BY <1>2, <1>3, <1>4 DEF Request, Places
<1>7. req'[w] = v
  BY <1>1 DEF Inv, TypeInv
<1>8. /\ Committed' = Committed /\ Whole' = Whole /\ study' = study /\ layered' = layered
      /\ UNCHANGED <<layered, study, design>> /\ requests' \in 0 .. MaxRequests
  BY DEF DeleteRows, design, Committed, Whole, Inv, TypeInv
<1> HIDE DEF v
<1>9. ClearsElements(w)' <=> ClearsElements(w)
  BY <1>6, <1>7, <1>8 DEF ClearsElements
<1>10. PlaceOf(w)'
  BY <1>1, <1>2, <1>3, <1>4, <1>5, <1>6, <1>7 DEF RequestInv, PlaceOf, Deleted
<1>11. LockOf(w)'
  <2>1. FlushesStatus(w)' <=> FlushesStatus(w)
    BY <1>6, <1>7 DEF FlushesStatus
  <2>2. LoadsForUpdate(req[w].ask) => req[w].lock = ForUpdate
    BY <1>1, <1>2 DEF RequestInv, LockOf
  <2>3. ~LoadsForUpdate(req[w].ask) => req[w].lock < ForUpdate /\ req[w].lock = None
    BY <1>1, <1>2 DEF RequestInv, LockOf, Deleted
  <2> QED
    BY <1>3, <1>6, <1>7, <2>1, <2>2, <2>3 DEF LockOf
<1>12. HoldOf(w)' /\ TargetOf(w)' /\ CopyOf(w)'
  BY <1>1, <1>2, <1>3, <1>5, <1>6, <1>7, <1>8, <1>9
     DEF RequestInv, HoldOf, TargetOf, CopyOf, Deleted, Deleting
<1>13. RequestInv(w)'
  BY <1>10, <1>11, <1>12 DEF RequestInv
<1>14. \A u \in Workers \ {w} : ~Conflict(v.lock, req[u].lock)
  BY <1>1, <1>6, AtFacts
<1> QED
  BY <1>1, <1>3, <1>6, <1>8, <1>13, <1>14, LocalStep

LEMMA FlushStatusStep ==
    ASSUME Inv, NEW w \in Workers, FlushStatus(w)
    PROVE  Inv'
<1>1. CASE study.gone
  BY <1>1, Ended DEF FlushStatus, Inv, TypeInv
<1>2. CASE ~study.gone
  <2> DEFINE v == [req[w] EXCEPT !.pc = AfterFlush(w), !.lock = Locked(w, NoKeyUpdate)]
  <2>1. req[w].pc = "flush" /\ req' = [req EXCEPT ![w] = v]
    BY <1>2 DEF FlushStatus, At
  <2>2. req[w] \in Request /\ RequestInv(w)
    BY <2>1, AtFacts
  <2>3. Locked(w, NoKeyUpdate) \in None .. ForUpdate
    BY <2>2 DEF Locked, Request, NoKeyUpdate, None, ForUpdate
  <2>4. /\ AfterFlush(w) \in {"commit", "insert"}
        /\ AfterFlush(w) = "insert" <=> req[w].ask.keys # {}
    BY DEF AfterFlush
  <2>5. /\ v \in Request /\ v.pc = AfterFlush(w) /\ v.target = req[w].target
        /\ v.ask = req[w].ask /\ v.lock = Locked(w, NoKeyUpdate) /\ v.del = req[w].del
        /\ v.bared = req[w].bared
    BY <2>2, <2>3, <2>4 DEF Request, Places
  <2>6. req'[w] = v
    BY <2>1 DEF Inv, TypeInv
  <2>7. Committed' = Committed /\ Whole' = Whole /\ study' = study /\ layered' = layered
    BY DEF FlushStatus, design, Committed, Whole
  <2> HIDE DEF v
  <2>8. PlaceOf(w)' /\ LockOf(w)'
    <3>1. PlaceOf(w)'
      BY <2>1, <2>2, <2>4, <2>5, <2>6 DEF RequestInv, PlaceOf, KindAt, Deleted
    <3>2. /\ req[w].lock = ForUpdate => v.lock = ForUpdate
          /\ req[w].lock < ForUpdate => v.lock < ForUpdate /\ v.lock # None
      BY <2>2, <2>5 DEF Locked, Request, NoKeyUpdate, None, ForUpdate
    <3>3. LockOf(w)'
      BY <2>1, <2>2, <2>4, <2>5, <2>6, <3>2 DEF RequestInv, LockOf, Deleted
    <3> QED
      BY <3>1, <3>3
  <2>9. v.lock = ForUpdate => req[w].lock = ForUpdate
    BY <2>2, <2>5 DEF Locked, NoKeyUpdate, ForUpdate
  <2>10. HoldOf(w)' /\ TargetOf(w)' /\ CopyOf(w)'
    BY <2>1, <2>2, <2>4, <2>5, <2>6, <2>7, <2>9
       DEF RequestInv, HoldOf, TargetOf, CopyOf, Deleted, Deleting, ClearsElements
  <2>11. ASSUME NEW u \in Workers \ {w} PROVE ~Conflict(v.lock, req[u].lock)
    <3>1. Wants(w) = NoKeyUpdate
      BY <2>1 DEF Wants
    <3>2. ~Conflict(NoKeyUpdate, req[u].lock)
      BY <3>1, Granted DEF FlushStatus, NoKeyUpdate, None
    <3> QED
      BY <2>1, <2>5, <3>2, AtFacts DEF Locked
  <2> QED
    BY <2>1, <2>4, <2>5, <2>8, <2>10, <2>11, LocalStep DEF FlushStatus, RequestInv, Inv, TypeInv
<1> QED
  BY <1>1, <1>2 DEF Inv, TypeInv, Study

LEMMA InsertRowsStep ==
    ASSUME Inv, NEW w \in Workers, InsertRows(w)
    PROVE  Inv'
<1>1. CASE Duplicate(w)
  BY <1>1, Ended DEF InsertRows, Inv, TypeInv
<1>2. CASE ~Duplicate(w)
  <2> DEFINE v == [req[w] EXCEPT !.pc = "reference"]
  <2>1. req[w].pc = "insert" /\ req' = [req EXCEPT ![w] = v]
    BY <1>2 DEF InsertRows, At, Goto
  <2>2. req[w] \in Request /\ RequestInv(w)
    BY <2>1, AtFacts
  <2>3. /\ v \in Request /\ v.pc = "reference" /\ v.target = req[w].target
        /\ v.ask = req[w].ask /\ v.lock = req[w].lock /\ v.del = req[w].del
        /\ v.bared = req[w].bared
    BY <2>2 DEF Request, Places
  <2>4. req'[w] = v
    BY <2>1 DEF Inv, TypeInv
  <2>5. Committed' = Committed /\ Whole' = Whole /\ study' = study /\ layered' = layered
    BY DEF InsertRows, design, Committed, Whole
  <2> HIDE DEF v
  <2>6. PlaceOf(w)' /\ LockOf(w)'
    BY <2>1, <2>2, <2>3, <2>4 DEF RequestInv, PlaceOf, KindAt, LockOf, Deleted
  <2>7. HoldOf(w)' /\ TargetOf(w)' /\ CopyOf(w)'
    BY <2>1, <2>2, <2>3, <2>4, <2>5 DEF RequestInv, HoldOf, TargetOf, CopyOf, Deleted, Deleting,
                                      ClearsElements
  <2> QED
    BY <2>1, <2>2, <2>3, <2>6, <2>7, AtFacts, LocalStep DEF InsertRows, RequestInv, Inv, TypeInv
<1> QED
  BY <1>1, <1>2

LEMMA CheckReferenceStep ==
    ASSUME Inv, NEW w \in Workers, CheckReference(w)
    PROVE  Inv'
<1>1. CASE study.gone
  BY <1>1, Ended DEF CheckReference, Inv, TypeInv
<1>2. CASE ~study.gone
  <2> DEFINE pc == IF layered THEN "commit" ELSE "elements"
             v == [req[w] EXCEPT !.pc = pc, !.lock = Locked(w, KeyShare)]
  <2>1. req[w].pc = "reference" /\ req' = [req EXCEPT ![w] = v] /\ pc \in {"commit", "elements"}
    BY <1>2 DEF CheckReference, At
  <2>2. req[w] \in Request /\ RequestInv(w)
    BY <2>1, AtFacts
  <2> HIDE DEF pc
  <2>3. Locked(w, KeyShare) \in None .. ForUpdate
    BY <2>2 DEF Locked, Request, KeyShare, None, ForUpdate
  <2>4. /\ v \in Request /\ v.pc = pc /\ v.target = req[w].target
        /\ v.ask = req[w].ask /\ v.lock = Locked(w, KeyShare) /\ v.del = req[w].del
        /\ v.bared = req[w].bared
    BY <2>1, <2>2, <2>3 DEF Request, Places
  <2>5. req'[w] = v
    BY <2>1 DEF Inv, TypeInv
  <2>6. Committed' = Committed /\ Whole' = Whole /\ study' = study /\ layered' = layered
    BY DEF CheckReference, design, Committed, Whole
  <2>7. /\ v.lock = ForUpdate <=> req[w].lock = ForUpdate
        /\ v.lock # None
    BY <2>2, <2>4 DEF Locked, KeyShare, None, ForUpdate, Request
  <2> HIDE DEF v
  <2>8. PlaceOf(w)' /\ LockOf(w)'
    <3>1. PlaceOf(w)'
      BY <2>1, <2>2, <2>4, <2>5 DEF RequestInv, PlaceOf, KindAt, Deleted
    <3>2. req[w].lock < ForUpdate => v.lock < ForUpdate
      BY <2>2, <2>4, <2>7 DEF Request, None, ForUpdate
    <3>3. LockOf(w)'
      BY <2>1, <2>2, <2>4, <2>5, <2>7, <3>2 DEF RequestInv, LockOf, Deleted
    <3> QED
      BY <3>1, <3>3
  <2>9. HoldOf(w)' /\ TargetOf(w)' /\ CopyOf(w)'
    BY <2>1, <2>2, <2>4, <2>5, <2>6, <2>7
       DEF RequestInv, HoldOf, TargetOf, CopyOf, Deleted, Deleting, ClearsElements
  <2>10. ASSUME NEW u \in Workers \ {w} PROVE ~Conflict(v.lock, req[u].lock)
    <3>1. Wants(w) = KeyShare
      BY <2>1 DEF Wants
    <3>2. ~Conflict(KeyShare, req[u].lock)
      BY <3>1, Granted DEF CheckReference, KeyShare, None
    <3> QED
      BY <2>1, <2>4, <3>2, AtFacts DEF Locked
  <2> QED
    BY <2>1, <2>4, <2>8, <2>9, <2>10, LocalStep DEF CheckReference, RequestInv, Inv, TypeInv
<1> QED
  BY <1>1, <1>2 DEF Inv, TypeInv, Study

LEMMA DeleteElementsStep ==
    ASSUME Inv, NEW w \in Workers, DeleteElements(w)
    PROVE  Inv'
<1> DEFINE v == [req[w] EXCEPT !.pc = "commit", !.bared = DeletesNow(w)]
<1>1. req[w].pc = "elements" /\ req' = [req EXCEPT ![w] = v]
  BY DEF DeleteElements, At
<1>2. req[w] \in Request /\ RequestInv(w)
  BY <1>1, AtFacts
<1>3. DeletesNow(w) \subseteq Rows
  BY <1>1, CommittedType DEF DeletesNow, Inv
<1>4. /\ v \in Request /\ v.pc = "commit" /\ v.target = req[w].target
      /\ v.ask = req[w].ask /\ v.lock = req[w].lock /\ v.del = req[w].del
  BY <1>2, <1>3 DEF Request, Places
<1>5. req'[w] = v
  BY <1>1 DEF Inv, TypeInv
<1>6. Committed' = Committed /\ Whole' = Whole /\ study' = study /\ layered' = layered
  BY DEF DeleteElements, design, Committed, Whole
<1>7. req[w].ask.keys # {}
  BY <1>1, <1>2 DEF RequestInv, PlaceOf
<1> HIDE DEF v
<1>8. PlaceOf(w)' /\ LockOf(w)'
  BY <1>1, <1>2, <1>4, <1>5 DEF RequestInv, PlaceOf, KindAt, LockOf, Deleted
<1>9. HoldOf(w)' /\ TargetOf(w)' /\ CopyOf(w)'
  BY <1>1, <1>2, <1>4, <1>5, <1>6, <1>7
     DEF RequestInv, HoldOf, TargetOf, CopyOf, Deleted, Deleting, ClearsElements
<1> QED
  BY <1>1, <1>2, <1>4, <1>8, <1>9, AtFacts, LocalStep DEF DeleteElements, RequestInv, Inv, TypeInv

\* A version that is in use nowhere.
LEMMA FreshFacts ==
    ASSUME NEW g \in Versions, Fresh(g)
    PROVE  /\ \A k \in Keys : rows[k] # g /\ <<k, g>> \notin bare
           /\ \A u \in Workers, k \in Keys :
                 /\ <<k, g>> \notin req[u].target /\ <<k, g>> \notin req[u].used
                 /\ <<k, g>> \notin req[u].bared
<1>1. \A k \in Keys : rows[k] # g
  BY DEF Fresh, InUse
<1>2. \A p \in bare \cup UNION {Remembered(u) : u \in Workers} : p[2] # g
  BY DEF Fresh, InUse
<1>3. \A k : <<k, g>> \notin bare \cup UNION {Remembered(u) : u \in Workers}
  BY <1>2
<1> QED
  BY <1>1, <1>3 DEF Remembered

\* The rows after the commit of a replacement: those of the request are new
\* and have their elements, the others were there, and what a copy knows of
\* the rows it has read stays true.
LEMMA ReplacedFacts ==
    ASSUME Inv, NEW w \in Workers, req[w].pc = "commit", NEW g \in Versions, Fresh(g),
           rows' = Replaced(w, g), bare' = StillUsed(bare \cup req[w].bared)
    PROVE  /\ req[w].ask.keys = {} => Committed' \subseteq Committed /\ Whole' \subseteq Whole
           /\ \A u \in Workers : /\ req[u].target \cap Committed' \subseteq Committed
                                 /\ req[u].target \cap Whole' \subseteq Whole
                                 /\ req[u].used \cap Committed' \subseteq Committed
           /\ req[w].ask.keys # {} => \A u \in Workers : ~(Whole' \subseteq req[u].used)
<1>1. \A k \in Keys : rows'[k] = rows[k] \/ rows'[k] = 0 \/ (k \in req[w].ask.keys /\ rows'[k] = g)
  BY DEF Replaced
<1>2. \A p \in Committed' : p \in Committed \/ \E k \in Keys \cap req[w].ask.keys : p = <<k, g>>
  BY <1>1 DEF Committed
<1>3. Whole' \subseteq Committed' /\ Whole' \cap bare = {}
  BY DEF Whole, Committed, StillUsed
<1>4. Whole' \cap Committed \subseteq Whole
  BY <1>3 DEF Whole
<1>5. req[w].ask.keys = {} => Committed' \subseteq Committed /\ Whole' \subseteq Whole
  BY <1>2, <1>3, <1>4
<1>6. ASSUME NEW u \in Workers
      PROVE  /\ req[u].target \cap Committed' \subseteq Committed
             /\ req[u].target \cap Whole' \subseteq Whole
             /\ req[u].used \cap Committed' \subseteq Committed
  BY <1>2, <1>3, <1>4, FreshFacts
<1>7. ASSUME NEW u \in Workers, req[w].ask.keys # {} PROVE ~(Whole' \subseteq req[u].used)
  <2>1. PICK k \in req[w].ask.keys : k \in Keys
    BY <1>7, AtFacts, AskType DEF AskOk
  <2>2. rows'[k] = g /\ g # 0
    BY <2>1 DEF Versions, Replaced
  <2>3. <<k, g>> \in Committed'
    BY <2>1, <2>2 DEF Committed
  <2>4. <<k, g>> \notin bare'
    BY <2>1, FreshFacts DEF StillUsed
  <2>5. <<k, g>> \in Whole'
    BY <2>3, <2>4 DEF Whole
  <2> QED
    BY <2>1, <2>5, FreshFacts
<1> QED
  BY <1>5, <1>6, <1>7

\* The commit of an edit that clears the elements of what its DELETE has
\* seen: a copy that had not seen all of these loses all of its own.
LEMMA ClearedCopies ==
    ASSUME Inv, NEW w \in Workers, req[w].pc = "commit", req[w].ask.keys = {}, ~layered,
           NEW g \in Versions, rows' = Replaced(w, g), bare' = StillUsed(bare \cup req[w].bared),
           layered' = layered, study.gone => study'.gone,
           NEW u \in Workers, req'[u] = req[u]
    PROVE  CopyOf(u)'
<1> SUFFICES ASSUME req[u].pc = "children" PROVE CopyOf(u)'
  BY DEF CopyOf
<1>1. RequestInv(w) /\ CopyOf(u) /\ Ordered(w, u)
  BY DEF Inv, RequestInv
<1>2. ClearsElements(w)
  BY <1>1 DEF ClearsElements, Replaces, RequestInv, PlaceOf, KindAt, Deleted
<1>3. /\ req[w].del = {}
      /\ req[w].target \cap Whole \subseteq req[w].bared /\ req[w].bared \subseteq req[w].target
  BY <1>1, <1>2 DEF RequestInv, TargetOf, Deleted
<1>4. rows' = rows
  BY <1>3 DEF Replaced, Inv, TypeInv
<1>5. Committed' = Committed
  BY <1>4 DEF Committed
<1>6. Whole' = Whole \ req[w].bared
  BY <1>4, <1>5 DEF Whole, StillUsed, Committed
<1>7. CASE ~(Whole \subseteq req[u].used)
  <2>1. CASE req[w].target \cap Committed \subseteq req[u].used
    <3>1. PICK p \in Whole : p \notin req[u].used
      BY <1>7
    <3> QED
      BY <1>3, <1>6, <2>1, <3>1, CommittedType DEF CopyOf, Inv
  <2>2. CASE req[u].used \cap Committed \subseteq req[w].target
    <3>1. req[u].used \cap Whole' = {}
      BY <1>3, <1>6, <2>2, CommittedType DEF Inv
    <3> QED
      BY <3>1 DEF CopyOf
  <2> QED
    BY <1>1, <2>1, <2>2 DEF Ordered
<1> QED
  BY <1>1, <1>5, <1>6, <1>7 DEF CopyOf

\* A request that commits without a lock on the study only clears, and
\* changes nothing in its row.
LEMMA UnlockedCommit ==
    ASSUME Inv, NEW w \in Workers, CommitDesign(w), req[w].lock = None
    PROVE  ~req[w].ask.creator /\ req[w].ask.keys = {} /\ study' = study
<1>1. req[w].pc = "commit" /\ RequestInv(w) /\ req[w] \in Request /\ req[w].ask \in Asks
  BY AtFacts DEF CommitDesign, At
<1>2. ~req[w].ask.creator /\ req[w].ask.keys = {} /\ ~FlushesStatus(w)
  <2>1. ~LoadsForUpdate(req[w].ask) /\ req[w].ask.keys = {} /\ ~FlushesStatus(w)
    BY <1>1 DEF RequestInv, LockOf, None, ForUpdate
  <2>2. req[w].ask.kind # "copy" /\ req[w].ask.creator \in BOOLEAN
    BY <1>1, AskType DEF RequestInv, PlaceOf, KindAt, Deleted, AskOk
  <2> QED
    BY <2>1, <2>2 DEF LoadsForUpdate
<1>3. study \in Study /\ req[w].seen \in Study
  BY <1>1 DEF Inv, TypeInv, Request
<1>4. WithStatus(study, req[w].seen, req[w].ask.to) = study
  <2>1. CASE req[w].ask.to = NoStatus
    BY <2>1 DEF WithStatus
  <2>2. CASE req[w].ask.to # NoStatus
    <3> DEFINE seen == req[w].seen
               to == req[w].ask.to
    <3>1. /\ Assigned(seen.status, to, seen.status) = seen.status
          /\ Assigned(seen.launched, seen.launched \/ to = "active", seen.launched) = seen.launched
      BY <1>2, <1>3, <2>2 DEF FlushesStatus, WithStatus, Study
    <3>2. to = seen.status /\ (seen.launched \/ to = "active") = seen.launched
      BY <3>1 DEF Assigned
    <3>3. /\ Assigned(seen.status, to, study.status) = study.status
          /\ Assigned(seen.launched, seen.launched \/ to = "active", study.launched) = study.launched
      BY <3>2 DEF Assigned
    <3> QED
      BY <1>3, <2>2, <3>3 DEF WithStatus, Study
  <2> QED
    BY <2>1, <2>2
<1> QED
  BY <1>2, <1>4 DEF CommitDesign

\* Nobody else is alone with the study when one is locked for a commit.
LEMMA CommitAlone ==
    ASSUME Inv, NEW w \in Workers,
           (req[w].pc = "commit" /\ req[w].lock # None) \/ At(w, "write") \/ At(w, "remove"),
           NEW u \in Workers \ {w}
    PROVE  req[u].lock # ForUpdate
<1>1. req[u].lock \in None .. ForUpdate
  BY DEF Inv, TypeInv, Request
<1>2. CASE req[w].pc = "commit" /\ req[w].lock # None
  <2>1. req[w].lock # None /\ req[w].lock \in None .. ForUpdate
    BY <1>2, AtFacts DEF Request
  <2> QED
    BY <1>1, <1>2, <2>1, AtFacts DEF Conflict, None, ForUpdate
<1>3. CASE At(w, "write")
  <2>1. Wants(w) = NoKeyUpdate
    BY <1>3 DEF At, Wants
  <2>2. ~Conflict(NoKeyUpdate, req[u].lock)
    BY <1>3, <2>1, Granted DEF NoKeyUpdate, None
  <2> QED
    BY <1>1, <2>2 DEF Conflict, NoKeyUpdate, ForUpdate, None
<1>4. CASE At(w, "remove")
  <2>1. Wants(w) = ForUpdate
    BY <1>4 DEF At, Wants
  <2>2. ~Conflict(ForUpdate, req[u].lock)
    BY <1>4, <2>1, Granted DEF ForUpdate, None
  <2> QED
    BY <1>1, <2>2 DEF Conflict, ForUpdate, None
<1> QED
  BY <1>2, <1>3, <1>4

LEMMA WithStatusType ==
    ASSUME NEW s \in Study, NEW seen \in Study, NEW to \in Statuses \cup {NoStatus}
    PROVE  /\ WithStatus(s, seen, to) \in Study
           /\ WithStatus(s, seen, to).gone = s.gone
           /\ WithStatus(s, seen, to).cons = s.cons
<1>1. CASE to = NoStatus
  BY <1>1 DEF WithStatus
<1>2. CASE to # NoStatus
  <2>1. to \in Statuses
    BY <1>2
  <2>2. /\ Assigned(seen.status, to, s.status) \in Statuses
        /\ Assigned(seen.launched, seen.launched \/ to = "active", s.launched) \in BOOLEAN
    BY <2>1 DEF Assigned, Study
  <2> QED
    BY <1>2, <2>2 DEF WithStatus, Study
<1> QED
  BY <1>1, <1>2

LEMMA CommitDesignStep ==
    ASSUME Inv, NEW w \in Workers, CommitDesign(w)
    PROVE  Inv'
<1>1. PICK g \in Versions : Fresh(g) /\ rows' = Replaced(w, g)
  BY DEF CommitDesign
<1>2. /\ req[w].pc = "commit" /\ bare' = StillUsed(bare \cup req[w].bared)
      /\ req[w] \in Request /\ RequestInv(w) /\ req[w].ask \in Asks
  BY AtFacts DEF CommitDesign, At
<1>3. study' \in Study /\ study'.gone = study.gone
  <2>1. req[w].ask.to \in Statuses \cup {NoStatus}
    BY <1>2, AskType DEF AskOk
  <2> QED
    BY <1>2, <2>1, WithStatusType DEF CommitDesign, Inv, TypeInv, Request
<1>4. rows' \in [Keys -> Versions \cup {0}]
  BY <1>1 DEF Replaced, Inv, TypeInv
<1>5. bare' \subseteq Rows
  BY <1>2 DEF StillUsed, Inv, TypeInv, Request
<1>6. PICK v \in Request :
          /\ req' = [req EXCEPT ![w] = v] /\ v.lock = None
          /\ v = NoRequest \/ (v = [NoRequest EXCEPT !.pc = "again", !.ask = req[w].ask]
                               /\ req[w].ask.kind # "replace")
  <2> DEFINE r == [NoRequest EXCEPT !.pc = "again", !.ask = req[w].ask]
  <2>1. r \in Request /\ r.lock = None /\ NoRequest.lock = None
    <3>1. [NoRequest EXCEPT !.pc = "again"] \in Request
      BY NoRequestType DEF Request, Places
    <3> QED
      BY <1>2, <3>1 DEF Request, NoRequest
  <2> QED
    BY <2>1, NoRequestType DEF CommitDesign, End
<1>7. TypeInv'
  BY <1>3, <1>4, <1>5, <1>6 DEF CommitDesign, Inv, TypeInv
<1>8. req'[w] = v
  BY <1>6 DEF Inv, TypeInv
<1>9. RequestInv(w)'
  <2>1. CASE v = NoRequest
    BY <1>8, <2>1, IdleInv
  <2>2. CASE v = [NoRequest EXCEPT !.pc = "again", !.ask = req[w].ask] /\ req[w].ask.kind # "replace"
    <3>1. /\ v.pc = "again" /\ v.ask = req[w].ask /\ v.lock = None /\ v.del = {}
          /\ v.target = {} /\ v.bared = {}
      BY <2>2 DEF NoRequest
    <3>2. req[w].ask.kind = "replace and launch"
      BY <1>2, <2>2 DEF RequestInv, PlaceOf, KindAt, Deleted
    <3>3. PlaceOf(w)'
      BY <1>2, <1>8, <3>1, <3>2 DEF PlaceOf, KindAt, Deleted
    <3>4. LockOf(w)' /\ HoldOf(w)'
      BY <1>8, <3>1 DEF LockOf, HoldOf, None, ForUpdate
    <3>5. TargetOf(w)' /\ CopyOf(w)'
      BY <1>8, <3>1 DEF TargetOf, CopyOf, Deleted, ClearsElements
    <3> QED
      BY <3>3, <3>4, <3>5 DEF RequestInv
  <2> QED
    BY <1>6, <2>1, <2>2
<1>10. /\ req[w].ask.keys = {} => Committed' \subseteq Committed /\ Whole' \subseteq Whole
       /\ \A u \in Workers : /\ req[u].target \cap Committed' \subseteq Committed
                             /\ req[u].target \cap Whole' \subseteq Whole
                             /\ req[u].used \cap Committed' \subseteq Committed
       /\ req[w].ask.keys # {} => \A u \in Workers : ~(Whole' \subseteq req[u].used)
  BY <1>1, <1>2, ReplacedFacts
<1>11. layered' = layered
  BY DEF CommitDesign
<1>12. \A u \in Workers \ {w} :
          \/ req[u].lock # ForUpdate
          \/ study' = study /\ Committed' \subseteq Committed /\ Whole' \subseteq Whole
  BY <1>2, <1>10, UnlockedCommit, CommitAlone
<1>13. ASSUME NEW u \in Workers \ {w} PROVE CopyOf(u)'
  <2>1. req'[u] = req[u]
    BY <1>6 DEF Inv, TypeInv
  <2>2. CASE req[w].ask.keys # {} \/ layered
    BY <1>10, <1>11, <2>1, <2>2 DEF CopyOf
  <2>3. CASE req[w].ask.keys = {} /\ ~layered
    BY <1>1, <1>2, <1>3, <1>11, <2>1, <2>3, ClearedCopies
  <2> QED
    BY <2>2, <2>3
<1>14. v.target = {} /\ v.pc # "children"
  <2>1. CASE v = NoRequest
    BY <2>1 DEF NoRequest
  <2>2. CASE v = [NoRequest EXCEPT !.pc = "again", !.ask = req[w].ask]
    BY <2>2 DEF NoRequest
  <2> QED
    BY <1>6, <2>1, <2>2
<1> QED
  BY <1>3, <1>6, <1>7, <1>9, <1>10, <1>11, <1>12, <1>13, <1>14, CommitStep

-----------------------------------------------------------------------------
(* Columns of the study, deletion *)

LEMMA WrittenType ==
    ASSUME Inv, NEW w \in Workers, At(w, "write")
    PROVE  Written(w) \in Study /\ Written(w).gone = study.gone
<1>1. /\ req[w].ask.kind \in {"status", "launch", "upsert", "drop"}
      /\ req[w].seen \in Study /\ study \in Study /\ AskOk(req[w].ask)
  BY AtFacts, AskType DEF At, RequestInv, PlaceOf, KindAt, Request, Inv, TypeInv
<1>2. CASE req[w].ask.kind = "status"
  BY <1>1, <1>2, WithStatusType DEF Written, AskOk
<1>3. CASE req[w].ask.kind = "launch"
  BY <1>1, <1>3 DEF Written, Study, Statuses
<1>4. ASSUME NEW cons \in SUBSET Constraints
      PROVE  /\ WithConstraints(study, req[w].seen, cons) \in Study
             /\ WithConstraints(study, req[w].seen, cons).gone = study.gone
  BY <1>1 DEF WithConstraints, Assigned, Study
<1>5. CASE req[w].ask.kind = "upsert"
  <2>1. req[w].seen.cons \cup req[w].ask.con \in SUBSET Constraints
    BY <1>1 DEF AskOk, Study
  <2> QED
    BY <1>4, <1>5, <2>1 DEF Written, Upserted
<1>6. CASE req[w].ask.kind = "drop"
  <2>1. req[w].seen.cons \ req[w].ask.con \in SUBSET Constraints
    BY <1>1 DEF AskOk, Study
  <2> QED
    BY <1>4, <1>6, <2>1 DEF Written, Dropped
<1> QED
  BY <1>1, <1>2, <1>3, <1>5, <1>6

LEMMA WriteStep ==
    ASSUME Inv, NEW w \in Workers, Write(w)
    PROVE  Inv'
<1>1. At(w, "write") /\ req' = [req EXCEPT ![w] = NoRequest] /\ req'[w] = NoRequest
  BY DEF Write, End, Inv, TypeInv
<1>2. study' \in Study /\ study'.gone = study.gone
  BY <1>1, WrittenType DEF Write, Inv, TypeInv
<1>3. Committed' = Committed /\ Whole' = Whole /\ bare' = bare /\ rows' = rows
      /\ layered' = layered /\ requests' = requests
  BY DEF Write, design, Committed, Whole
<1>4. TypeInv'
  BY <1>1, <1>2, <1>3, NoRequestType DEF Inv, TypeInv
<1>5. NoRequest.lock = None /\ NoRequest.target = {} /\ NoRequest.pc # "children"
  BY DEF NoRequest
<1>6. ASSUME NEW u \in Workers \ {w} PROVE CopyOf(u)'
  <2>1. CopyOf(u) /\ req'[u] = req[u]
    BY <1>1 DEF Inv, TypeInv, RequestInv
  <2> QED
    BY <1>2, <1>3, <2>1 DEF CopyOf
<1>7. \A u \in Workers \ {w} :
         /\ req[u].target \cap Committed' \subseteq Committed
         /\ req[u].target \cap Whole' \subseteq Whole
         /\ req[u].used \cap Committed' \subseteq Committed
         /\ req[u].lock # ForUpdate
  BY <1>1, <1>3, CommitAlone
<1> QED
  BY <1>1, <1>2, <1>3, <1>4, <1>5, <1>6, <1>7, IdleInv, NoRequestType, CommitStep

LEMMA RemoveStudyStep ==
    ASSUME Inv, NEW w \in Workers, RemoveStudy(w)
    PROVE  Inv'
<1>1. At(w, "remove") /\ req' = [req EXCEPT ![w] = NoRequest] /\ req'[w] = NoRequest
  BY DEF RemoveStudy, End, Inv, TypeInv
<1>2. study' \in Study /\ study'.gone
  BY NoRequestType DEF RemoveStudy, Study, NoStudy
<1>3. rows' \in [Keys -> Versions \cup {0}] /\ \A k \in Keys : rows'[k] = 0
  BY DEF RemoveStudy
<1>4. Committed' = {} /\ Whole' = {}
  BY <1>3 DEF Committed, Whole
<1>5. bare' \subseteq Rows
  BY DEF RemoveStudy, StillUsed, Inv, TypeInv
<1>6. layered' = layered /\ requests' = requests
  BY DEF RemoveStudy
<1>7. TypeInv'
  BY <1>1, <1>2, <1>3, <1>5, <1>6, NoRequestType DEF Inv, TypeInv
<1>8. NoRequest.lock = None /\ NoRequest.target = {} /\ NoRequest.pc # "children"
  BY DEF NoRequest
<1>9. \A u \in Workers \ {w} : CopyOf(u)' /\ req[u].lock # ForUpdate
  BY <1>1, <1>2, CommitAlone DEF CopyOf
<1> QED
  BY <1>1, <1>2, <1>4, <1>6, <1>7, <1>8, <1>9, IdleInv, NoRequestType, CommitStep

-----------------------------------------------------------------------------
(* Regeneration, copy *)

LEMMA ReadDesignStep ==
    ASSUME Inv, NEW w \in Workers, ReadDesign(w)
    PROVE  Inv'
<1>1. CASE Whole = {}
  BY <1>1, Ended DEF ReadDesign, Inv, TypeInv
<1>2. CASE Whole # {}
  <2> DEFINE pc == IF layered THEN "images" ELSE "save"
             v == [req[w] EXCEPT !.pc = pc, !.used = Whole]
  <2>1. req[w].pc = "read" /\ req' = [req EXCEPT ![w] = v] /\ pc \in {"images", "save"}
    BY <1>2 DEF ReadDesign, At
  <2>2. req[w] \in Request /\ RequestInv(w)
    BY <2>1, AtFacts
  <2> HIDE DEF pc
  <2>3. /\ v \in Request /\ v.pc = pc /\ v.used = Whole
        /\ v.ask = req[w].ask /\ v.lock = req[w].lock /\ v.del = req[w].del
        /\ v.bared = req[w].bared /\ v.target = req[w].target
    BY <2>1, <2>2, CommittedType DEF Request, Places, Inv
  <2>4. req'[w] = v
    BY <2>1 DEF Inv, TypeInv
  <2>5. Whole' = Whole /\ study' = study
    BY DEF ReadDesign, design, Whole, Committed
  <2> HIDE DEF v
  <2>6. PlaceOf(w)' /\ LockOf(w)'
    BY <2>1, <2>2, <2>3, <2>4 DEF RequestInv, PlaceOf, KindAt, LockOf, Deleted
  <2>7. HoldOf(w)' /\ TargetOf(w)' /\ CopyOf(w)'
    BY <2>1, <2>2, <2>3, <2>4, <2>5
       DEF RequestInv, PlaceOf, KindAt, HoldOf, TargetOf, CopyOf, Deleted, Deleting
  <2> QED
    BY <2>1, <2>2, <2>3, <2>6, <2>7, AtFacts, LocalStep DEF ReadDesign, RequestInv, Inv, TypeInv
<1> QED
  BY <1>1, <1>2

LEMMA ReadImagesStep ==
    ASSUME Inv, NEW w \in Workers, ReadImages(w)
    PROVE  Inv'
<1> DEFINE v == [req[w] EXCEPT !.pc = "save", !.used = @ \cap Whole]
<1>1. req[w].pc = "images" /\ req' = [req EXCEPT ![w] = v]
  BY DEF ReadImages, At
<1>2. req[w] \in Request /\ RequestInv(w)
  BY <1>1, AtFacts
<1>3. /\ v \in Request /\ v.pc = "save"
      /\ v.ask = req[w].ask /\ v.lock = req[w].lock /\ v.del = req[w].del
      /\ v.bared = req[w].bared /\ v.target = req[w].target
  BY <1>2 DEF Request, Places
<1>4. req'[w] = v
  BY <1>1 DEF Inv, TypeInv
<1>5. study' = study
  BY DEF ReadImages
<1> HIDE DEF v
<1>6. PlaceOf(w)' /\ LockOf(w)'
  BY <1>1, <1>2, <1>3, <1>4 DEF RequestInv, PlaceOf, KindAt, LockOf, Deleted
<1>7. HoldOf(w)' /\ TargetOf(w)' /\ CopyOf(w)'
  BY <1>1, <1>2, <1>3, <1>4, <1>5
     DEF RequestInv, PlaceOf, KindAt, HoldOf, TargetOf, CopyOf, Deleted, Deleting
<1> QED
  BY <1>1, <1>2, <1>3, <1>6, <1>7, AtFacts, LocalStep DEF ReadImages, RequestInv, Inv, TypeInv

LEMMA CopyParentsStep ==
    ASSUME Inv, NEW w \in Workers, CopyParents(w)
    PROVE  Inv'
<1> DEFINE v == [req[w] EXCEPT !.pc = "children", !.used = Committed]
<1>1. req[w].pc = "parents" /\ req' = [req EXCEPT ![w] = v]
  BY DEF CopyParents, At
<1>2. req[w] \in Request /\ RequestInv(w)
  BY <1>1, AtFacts
<1>3. /\ v \in Request /\ v.pc = "children" /\ v.used = Committed
      /\ v.ask = req[w].ask /\ v.lock = req[w].lock /\ v.del = req[w].del
      /\ v.bared = req[w].bared /\ v.target = req[w].target
  BY <1>2, CommittedType DEF Request, Places, Inv
<1>4. req'[w] = v
  BY <1>1 DEF Inv, TypeInv
<1>5. Committed' = Committed /\ study' = study
  BY DEF CopyParents, design, Committed
<1> HIDE DEF v
<1>6. PlaceOf(w)' /\ LockOf(w)'
  BY <1>1, <1>2, <1>3, <1>4 DEF RequestInv, PlaceOf, KindAt, LockOf, Deleted
<1>7. HoldOf(w)' /\ TargetOf(w)' /\ CopyOf(w)'
  BY <1>1, <1>2, <1>3, <1>4, <1>5
     DEF RequestInv, PlaceOf, KindAt, HoldOf, TargetOf, CopyOf, Deleted, Deleting
<1> QED
  BY <1>1, <1>2, <1>3, <1>6, <1>7, AtFacts, LocalStep DEF CopyParents, RequestInv, Inv, TypeInv

LEMMA CopyChildrenStep ==
    ASSUME Inv, NEW w \in Workers, CopyChildren(w)
    PROVE  Inv'
<1>1. CASE OrphanElement(w)
  BY <1>1, Ended DEF CopyChildren, Inv, TypeInv
<1>2. CASE ~OrphanElement(w)
  <2> DEFINE v == [req[w] EXCEPT !.pc = "copied", !.kids = Whole \cap req[w].used]
  <2>1. req[w].pc = "children" /\ req' = [req EXCEPT ![w] = v]
    BY <1>2 DEF CopyChildren, At
  <2>2. req[w] \in Request /\ RequestInv(w)
    BY <2>1, AtFacts
  <2>3. /\ v \in Request /\ v.pc = "copied" /\ v.kids = Whole \cap req[w].used
        /\ v.ask = req[w].ask /\ v.lock = req[w].lock /\ v.del = req[w].del
        /\ v.bared = req[w].bared /\ v.target = req[w].target /\ v.used = req[w].used
    BY <2>2 DEF Request, Places
  <2>4. req'[w] = v
    BY <2>1 DEF Inv, TypeInv
  <2>5. study' = study
    BY DEF CopyChildren
  <2> HIDE DEF v
  <2>6. PlaceOf(w)' /\ LockOf(w)'
    BY <2>1, <2>2, <2>3, <2>4 DEF RequestInv, PlaceOf, KindAt, LockOf, Deleted
  <2>7. HoldOf(w)' /\ TargetOf(w)' /\ CopyOf(w)'
    BY <2>1, <2>2, <2>3, <2>4, <2>5
       DEF RequestInv, PlaceOf, KindAt, HoldOf, TargetOf, CopyOf, Deleted, Deleting
  <2> QED
    BY <2>1, <2>2, <2>3, <2>6, <2>7, AtFacts, LocalStep DEF CopyChildren, RequestInv, Inv, TypeInv
<1> QED
  BY <1>1, <1>2

LEMMA EndingStep ==
    ASSUME Inv, NEW w \in Workers, SaveTasks(w) \/ CommitCopy(w) \/ Rollback(w)
    PROVE  Inv'
  BY Ended DEF SaveTasks, CommitCopy, Rollback, Inv, TypeInv

-----------------------------------------------------------------------------
(* Every step *)

LEMMA StepInv ==
    ASSUME Inv, [Next]_vars
    PROVE  Inv'
<1>1. CASE Next
  <2>1. PICK w \in Workers :
            \/ Begin(w) \/ Write(w)
            \/ DeleteSnapshot(w) \/ DeleteRows(w) \/ FlushStatus(w) \/ InsertRows(w)
            \/ CheckReference(w) \/ DeleteElements(w) \/ CommitDesign(w) \/ LaunchAfterUpdate(w)
            \/ RemoveStudy(w) \/ ReadDesign(w) \/ ReadImages(w) \/ SaveTasks(w)
            \/ CopyParents(w) \/ CopyChildren(w) \/ CommitCopy(w) \/ Rollback(w)
    BY <1>1 DEF Next
  <2> QED
    BY <2>1, BeginStep, WriteStep, DeleteSnapshotStep, DeleteRowsStep, FlushStatusStep,
       InsertRowsStep, CheckReferenceStep, DeleteElementsStep, CommitDesignStep,
       LaunchAfterUpdateStep, RemoveStudyStep, ReadDesignStep, ReadImagesStep, CopyParentsStep,
       CopyChildrenStep, EndingStep
<1>2. CASE UNCHANGED vars
  <2>1. UNCHANGED <<layered, study, rows, bare, req, requests>>
    BY <1>2 DEF vars, design
  <2>2. Committed' = Committed /\ Whole' = Whole
    BY <2>1 DEF Committed, Whole
  <2>3. ASSUME NEW w \in Workers PROVE RequestInv(w)'
    <3>1. RequestInv(w)
      BY DEF Inv
    <3> QED
      BY <2>1, <2>2, <3>1 DEF RequestInv, PlaceOf, LockOf, HoldOf, TargetOf, CopyOf,
                              FlushesStatus, ClearsElements
  <2>4. \A w, u \in Workers : Ordered(w, u)'
    BY <2>1, <2>2 DEF Inv, Ordered
  <2> QED
    BY <2>1, <2>3, <2>4 DEF Inv, TypeInv, LockInv
<1> QED
  BY <1>1, <1>2

LEMMA Invariance == Spec => []Inv
  BY InitInv, StepInv, PTL DEF Spec

-----------------------------------------------------------------------------
(* Theorems *)

\* The variables of StudyEditing have their types, for any constants.
THEOREM TypeCorrect == Spec => []TypeOK
<1>1. Inv => TypeOK
  BY DEF Inv, TypeInv, RequestInv, PlaceOf, TypeOK, Request, Study
<1> QED
  BY <1>1, Invariance, PTL

\* A regeneration comes to its tasks only from its last query.
LEMMA LastQuery ==
    ASSUME Inv, NEW w \in Workers, Next, req[w].pc # "save", req'[w].pc = "save"
    PROVE  (ReadDesign(w) /\ Whole # {}) \/ ReadImages(w)
<1>1. PICK x \in Workers :
          \/ Begin(x) \/ Write(x)
          \/ DeleteSnapshot(x) \/ DeleteRows(x) \/ FlushStatus(x) \/ InsertRows(x)
          \/ CheckReference(x) \/ DeleteElements(x) \/ CommitDesign(x) \/ LaunchAfterUpdate(x)
          \/ RemoveStudy(x) \/ ReadDesign(x) \/ ReadImages(x) \/ SaveTasks(x)
          \/ CopyParents(x) \/ CopyChildren(x) \/ CommitCopy(x) \/ Rollback(x)
  BY DEF Next
<1>2. req \in [Workers -> Request] /\ NoRequest.pc = "idle" /\ req[x] \in Request
  BY DEF Inv, TypeInv, NoRequest
<1>3. ASSUME End(x) PROVE FALSE
  BY <1>2, <1>3 DEF End
<1>4. ASSUME NEW a, Load(x, a) PROVE FALSE
  <2>1. FirstStep(a) # "save"
    BY DEF FirstStep
  <2> QED
    BY <1>2, <1>4, <2>1 DEF Load, NoRequest
<1>5. ASSUME NEW pc, req' = [req EXCEPT ![x].pc = pc], pc # "save" PROVE FALSE
  BY <1>2, <1>5 DEF Request
<1>6. AfterDelete(x) # "save" /\ AfterFlush(x) # "save"
  BY DEF AfterDelete, AfterFlush
<1>7. CASE Begin(x) \/ LaunchAfterUpdate(x)
  BY <1>4, <1>7 DEF Begin, LaunchAfterUpdate
<1>8. CASE \/ Write(x) \/ RemoveStudy(x) \/ SaveTasks(x) \/ CommitCopy(x) \/ Rollback(x)
  BY <1>3, <1>8 DEF Write, RemoveStudy, SaveTasks, CommitCopy, Rollback
<1>9. CASE DeleteSnapshot(x) \/ DeleteRows(x) \/ DeleteElements(x)
  BY <1>2, <1>6, <1>9 DEF DeleteSnapshot, DeleteRows, DeleteElements, Request
<1>10. CASE FlushStatus(x) \/ InsertRows(x) \/ CheckReference(x)
  BY <1>2, <1>3, <1>5, <1>6, <1>10 DEF FlushStatus, InsertRows, Goto, CheckReference, Request
<1>11. CASE CommitDesign(x)
  BY <1>2, <1>3, <1>11 DEF CommitDesign, NoRequest
<1>12. CASE CopyParents(x) \/ CopyChildren(x)
  BY <1>2, <1>3, <1>12 DEF CopyParents, CopyChildren, Request
<1>13. CASE ReadDesign(x) \/ ReadImages(x)
  <2>1. x = w
    BY <1>2, <1>3, <1>13 DEF ReadDesign, ReadImages, Request
  <2> QED
    BY <1>3, <1>13, <2>1 DEF ReadDesign
<1> QED
  BY <1>1, <1>7, <1>8, <1>9, <1>10, <1>11, <1>12, <1>13

\* Beside a regeneration that is alone with the study, only a member who
\* empties the design can change it.
LEMMA OnlyEmptied ==
    ASSUME Inv, NEW w \in Workers, Next, req[w].pc = "save", req'[w].pc = "save", Whole' # Whole
    PROVE  \E v \in Workers : EmptiedByMember(v)
<1>1. req[w].lock = ForUpdate
  BY AtFacts DEF RequestInv, PlaceOf, KindAt, LockOf, LoadsForUpdate
<1>2. PICK v \in Workers : CommitDesign(v) \/ RemoveStudy(v)
  BY DEF Next, Begin, Write, Load, DeleteSnapshot, DeleteRows, FlushStatus, InsertRows,
         CheckReference, DeleteElements, LaunchAfterUpdate, ReadDesign, ReadImages, SaveTasks,
         CopyParents, CopyChildren, CommitCopy, Rollback, design, Whole, Committed
<1>3. req[v].pc \in {"commit", "remove"} /\ v # w
  BY <1>2 DEF CommitDesign, RemoveStudy, At
<1>4. CASE RemoveStudy(v)
  BY <1>1, <1>3, <1>4, CommitAlone DEF RemoveStudy
<1>5. CASE CommitDesign(v)
  <2>1. req[v].lock = None
    BY <1>1, <1>3, <1>5, CommitAlone DEF CommitDesign, At
  <2> QED
    BY <1>5, <2>1, UnlockedCommit DEF EmptiedByMember
<1> QED
  BY <1>2, <1>4, <1>5

\* What a regeneration reads last is the design as it is.
LEMMA ReadsWhole ==
    ASSUME Inv, NEW w \in Workers, (ReadDesign(w) /\ Whole # {}) \/ ReadImages(w)
    PROVE  req'[w].used = Whole
<1>1. req[w] \in Request /\ req \in [Workers -> Request]
  BY DEF Inv, TypeInv
<1>2. CASE ReadDesign(w) /\ Whole # {}
  BY <1>1, <1>2 DEF ReadDesign, Request
<1>3. CASE ReadImages(w)
  <2>1. req[w].pc = "images" /\ req'[w].used = req[w].used \cap Whole
    BY <1>1, <1>3 DEF ReadImages, At, Request
  <2>2. req[w].lock = ForUpdate /\ RequestInv(w)
    BY <2>1, AtFacts DEF RequestInv, PlaceOf, KindAt, LockOf, LoadsForUpdate
  <2>3. Whole \subseteq req[w].used
    BY <2>1, <2>2 DEF RequestInv, HoldOf
  <2> QED
    BY <2>1, <2>3
<1> QED
  BY <1>2, <1>3

\* A copy of elements that goes through lacks only what has been taken from
\* the categories it has read, unless nothing is left.
LEMMA CopiesWhole ==
    ASSUME Inv, NEW w \in Workers, CopyChildren(w), req'[w].pc = "copied", ~layered, ~study.gone
    PROVE  Whole = {} \/ req[w].used \ req'[w].kids \subseteq bare
<1>1. req[w] \in Request /\ req \in [Workers -> Request] /\ req[w].pc = "children"
  BY DEF Inv, TypeInv, CopyChildren, At
<1>2. ~OrphanElement(w)
  BY <1>1 DEF CopyChildren, End, NoRequest
<1>3. req'[w].kids = Whole \cap req[w].used
  BY <1>1, <1>2 DEF CopyChildren, Request
<1>4. req[w].used = Committed \/ req[w].used \cap Whole = {}
  BY <1>1, <1>2, AtFacts DEF RequestInv, CopyOf, OrphanElement
<1> QED
  BY <1>2, <1>3, <1>4 DEF OrphanElement, Whole

\* Tasks are those of the design as it is when they are generated, and until
\* they are saved only a member who empties it can change it.  A copy that
\* goes through mixes no two edits of the categories.
THEOREM WholeDesigns == Spec => TakesWholeDesigns
<1>1. ASSUME Inv, Next, NEW w \in Workers
      PROVE  /\ req'[w].pc = "save" =>
                   IF req[w].pc # "save" THEN req'[w].used = Whole
                   ELSE Whole' = Whole \/ \E v \in Workers : EmptiedByMember(v)
             /\ CopyChildren(w) /\ req'[w].pc = "copied" /\ ~layered /\ ~study.gone =>
                   Whole = {} \/ req[w].used \ req'[w].kids \subseteq bare
  BY <1>1, LastQuery, ReadsWhole, OnlyEmptied, CopiesWhole
<1>2. Inv /\ [Next]_vars => [\A w \in Workers :
          /\ req'[w].pc = "save" =>
                IF req[w].pc # "save" THEN req'[w].used = Whole
                ELSE Whole' = Whole \/ \E v \in Workers : EmptiedByMember(v)
          /\ CopyChildren(w) /\ req'[w].pc = "copied" /\ ~layered /\ ~study.gone =>
                Whole = {} \/ req[w].used \ req'[w].kids \subseteq bare]_vars
  BY <1>1
<1> QED
  BY <1>2, Invariance, PTL DEF Spec, TakesWholeDesigns

\* A row that a commit leaves, or leaves its elements, is not one that its
\* DELETE has seen; and the creator's DELETE has seen all there are.
LEMMA LeftRows ==
    ASSUME Inv, NEW w \in Workers, CommitDesign(w), NEW p \in Left(w)
    PROVE  ~req[w].ask.creator /\ p \notin req[w].target
<1>1. PICK g \in Versions : Fresh(g) /\ rows' = Replaced(w, g)
  BY DEF CommitDesign
<1>2. req[w].pc = "commit" /\ RequestInv(w) /\ bare' = StillUsed(bare \cup req[w].bared)
  BY AtFacts DEF CommitDesign, At
<1>3. p \in Committed
  BY CommittedType DEF Left, Inv
<1>4. p \notin req[w].target
  <2>1. CASE ClearsElements(w)
    <3>1. p \in Whole /\ p \notin bare' /\ p \in Committed'
      BY <2>1 DEF Left, Whole
    <3>2. p \notin req[w].bared
      BY <1>2, <3>1 DEF StillUsed, Committed
    <3> QED
      BY <1>2, <2>1, <3>1, <3>2 DEF RequestInv, TargetOf, Deleted
  <2>2. CASE ~ClearsElements(w)
    <3>1. PICK k \in Keys : p = <<k, rows'[k]>> /\ rows'[k] = rows[k] /\ rows[k] # 0
      BY <2>2 DEF Left, Committed
    <3>2. p \notin req[w].del
      BY <1>1, <3>1, FreshFacts DEF Replaced
    <3> QED
      BY <1>2, <1>3, <2>2, <3>2 DEF RequestInv, TargetOf, Deleted
  <2> QED
    BY <2>1, <2>2
<1>5. ASSUME req[w].ask.creator PROVE FALSE
  <2>1. req[w].lock = ForUpdate
    BY <1>2, <1>5 DEF RequestInv, PlaceOf, KindAt, LockOf, LoadsForUpdate, Deleted
  <2>2. Committed \subseteq req[w].target
    BY <1>2, <2>1 DEF RequestInv, HoldOf, Deleting, Deleted
  <2> QED
    BY <1>3, <1>4, <2>2
<1> QED
  BY <1>4, <1>5

\* "Clear and re-add": whatever runs at once, a replacement leaves no row but
\* those that others have committed since a member's DELETE began.
THEOREM WholeReplacements == Spec => ReplacementsAreWhole
<1>1. ASSUME Inv PROVE [\A w \in Workers :
          CommitDesign(w) => \A v \in Left(w) : ~req[w].ask.creator /\ v \notin req[w].target]_vars
  BY <1>1, LeftRows
<1> QED
  BY <1>1, Invariance, PTL DEF ReplacementsAreWhole

\* A constraint that nobody asked about changes only by a member's write of
\* a list that had changed since it was loaded.
LEMMA WrittenConstraints ==
    ASSUME Inv, NEW w \in Workers, Write(w), study'.cons # study.cons
    PROVE  \/ \A c \in Constraints \ req[w].ask.con : c \in study'.cons <=> c \in study.cons
           \/ ~req[w].ask.creator /\ req[w].seen.cons # study.cons
<1>1. /\ req[w].pc = "write" /\ RequestInv(w) /\ AskOk(req[w].ask)
      /\ req[w].seen \in Study /\ study \in Study
  BY AtFacts, AskType DEF Write, At, Inv, TypeInv, Request
<1>2. ~study.gone /\ study' = Written(w)
  BY DEF Write
<1>3. req[w].ask.creator => req[w].seen = study
  BY <1>1 DEF RequestInv, PlaceOf, KindAt, LockOf, HoldOf, LoadsForUpdate
<1>4. CASE req[w].ask.kind \in {"status", "launch"}
  <2>1. Written(w).cons = study.cons
    BY <1>1, <1>4, WithStatusType DEF Written, AskOk, Study
  <2> QED
    BY <1>2, <2>1
<1>5. CASE req[w].ask.kind = "upsert"
  <2>1. study'.cons = Assigned(req[w].seen.cons, req[w].seen.cons \cup req[w].ask.con, study.cons)
    BY <1>1, <1>2, <1>5 DEF Written, Upserted, WithConstraints, Study
  <2> QED
    BY <1>3, <2>1, <1>1 DEF Assigned, AskOk
<1>6. CASE req[w].ask.kind = "drop"
  <2>1. study'.cons = Assigned(req[w].seen.cons, req[w].seen.cons \ req[w].ask.con, study.cons)
    BY <1>1, <1>2, <1>6 DEF Written, Dropped, WithConstraints, Study
  <2> QED
    BY <1>3, <2>1, <1>1 DEF Assigned, AskOk
<1> QED
  BY <1>1, <1>4, <1>5, <1>6 DEF RequestInv, PlaceOf, KindAt

\* Only a member deletes a study that has been launched meanwhile, or takes
\* back the constraints of another.
THEOREM OnlyMembersLoseUpdates == Spec => OnlyMembersActOnStaleRows
<1>1. ASSUME Inv, NEW w \in Workers, RemoveStudy(w), study.status = "active"
      PROVE  ~req[w].ask.creator
  <2>1. req[w].pc = "remove" /\ RequestInv(w)
    BY <1>1, AtFacts DEF RemoveStudy, At
  <2> QED
    BY <1>1, <2>1 DEF RequestInv, PlaceOf, KindAt, LockOf, HoldOf, LoadsForUpdate
<1>2. ASSUME Inv PROVE [\A w \in Workers :
          /\ RemoveStudy(w) /\ study.status = "active" => ~req[w].ask.creator
          /\ Write(w) /\ study'.cons # study.cons =>
                \/ \A c \in Constraints \ req[w].ask.con : c \in study'.cons <=> c \in study.cons
                \/ ~req[w].ask.creator /\ req[w].seen.cons # study.cons]_vars
  BY <1>1, <1>2, WrittenConstraints
<1> QED
  BY <1>2, Invariance, PTL DEF OnlyMembersActOnStaleRows

\* In any circle of waiting requests there is a member who has deleted or
\* inserted rows: who waits for nobody but others than these, waits for one
\* lock on the study, whose holder waits for nothing.
THEOREM DeadlocksHaveAMember == Spec => []DeadlocksNeedAMember
<1>1. ASSUME Inv, NEW C \in SUBSET Workers, Deadlocked(C),
             ~ \E w \in C :
                 ~req[w].ask.creator /\ (req[w].del \cup req[w].bared # {} \/ Inserts(w) # {})
      PROVE  FALSE
  <2> DEFINE Harmless(w) == req[w].del = {} /\ req[w].bared = {} /\ Inserts(w) = {}
  <2>1. \A w \in C : w \in Workers /\ \E v \in C : Waits(w, v)
    BY <1>1 DEF Deadlocked
  <2>2. \A w \in C : req[w] \in Request /\ RequestInv(w)
    BY <1>1, <2>1, AtFacts
  <2>3. ASSUME NEW w \in C, Wants(w) # None \/ DeletesNow(w) # {} \/ req[w].pc = "insert"
        PROVE  req[w].pc \in {"write", "deleting", "remove"} \cup (Deleted \ {"commit"})
    BY <2>3 DEF Wants, DeletesNow, Deleted
  <2>4. ASSUME NEW w \in C
        PROVE  /\ req[w].pc \in {"write", "deleting", "remove"} \cup (Deleted \ {"commit"})
               /\ req[w].ask.kind \notin {"regenerate", "copy"}
               /\ req[w].ask.creator => req[w].lock = ForUpdate
    <3>1. Wants(w) # None \/ DeletesNow(w) # {} \/ req[w].pc = "insert"
      BY <2>1 DEF Waits
    <3>2. req[w].pc \in {"write", "deleting", "remove"} \cup (Deleted \ {"commit"})
      BY <2>3, <3>1
    <3> QED
      BY <2>2, <3>2 DEF RequestInv, PlaceOf, KindAt, LockOf, LoadsForUpdate, Deleted
  <2>5. ASSUME NEW w \in C, ~req[w].ask.creator PROVE Harmless(w)
    BY <1>1, <2>5
  <2>6. ASSUME NEW w \in C, NEW v \in C, Waits(w, v) PROVE ~req[v].ask.creator
    <3> SUFFICES ASSUME req[v].ask.creator PROVE FALSE
      BY AskType, <2>2, <2>4 DEF RequestInv, PlaceOf, AskOk
    <3>1. req[v].lock = ForUpdate
      BY <2>4
    <3>2. PICK u \in C : Waits(v, u)
      BY <2>1
    <3>3. u # v /\ u \in Workers /\ v \in Workers
      BY <2>1, <3>2 DEF Waits
    <3>4. req[u].lock = None
      BY <1>1, <2>2, <3>1, <3>3 DEF Inv, LockInv, Conflict, ForUpdate, None, Request
    <3>5. ~req[u].ask.creator /\ Harmless(u)
      BY <2>4, <2>5, <3>4 DEF None, ForUpdate
    <3>6. ~Conflict(Wants(v), req[u].lock)
      BY <3>4 DEF Wants, Conflict, KeyShare, NoKeyUpdate, ForUpdate, None
    <3> QED
      BY <3>2, <3>5, <3>6 DEF Waits, KeysOf
  <2>7. ASSUME NEW w \in C, NEW v \in C, Waits(w, v) PROVE FALSE
    <3>1. ~req[v].ask.creator /\ Harmless(v)
      BY <2>5, <2>6, <2>7
    <3>2. Conflict(Wants(w), req[v].lock)
      BY <2>7, <3>1 DEF Waits, KeysOf
    <3>3. req[v].lock # None
      BY <3>2 DEF Wants, Conflict, KeyShare, NoKeyUpdate, ForUpdate, None
    <3>4. req[v].pc = "insert"
      <4>1. req[v].pc \in {"insert", "reference", "elements"}
        BY <2>2, <2>4, <3>1, <3>3 DEF RequestInv, LockOf, LoadsForUpdate, Deleted
      <4>2. req[v].ask.keys # {}
        BY <2>2, <4>1 DEF RequestInv, PlaceOf
      <4> QED
        BY <3>1, <4>1, <4>2 DEF Inserts
    <3>5. PICK u \in C : Waits(v, u)
      BY <2>1
    <3>6. ~req[u].ask.creator /\ Harmless(u)
      BY <2>5, <2>6, <3>5
    <3> QED
      BY <3>4, <3>5, <3>6 DEF Waits, KeysOf, Wants, DeletesNow
  <2> QED
    BY <1>1, <2>1, <2>7 DEF Deadlocked
<1>2. Inv => DeadlocksNeedAMember
  BY <1>1 DEF DeadlocksNeedAMember
<1> QED
  BY <1>2, Invariance, PTL
=============================================================================
