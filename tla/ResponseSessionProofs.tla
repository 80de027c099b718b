------------------------ MODULE ResponseSessionProofs ------------------------
(***************************************************************************)
(* Theorems about ResponseSession, for any sessions, tasks, workers and    *)
(* settings of the study.  Who adds tasks holds the lock of the response   *)
(* and has loaded it as it is; who marks one completed knows that its      *)
(* tasks and its question are done.  RequestInv says this of one worker,   *)
(* and FrameBy what a step of another one cannot change about it.          *)
(***************************************************************************)
EXTENDS ResponseSession, FiniteSetTheorems, TLAPS

Submits(w) == loc[w].op \in {"task", "bulk"}
Classifies(w) == loc[w].op \in {"classify", "screen"}

TypeInv ==
    /\ study \in StudyStatuses
    /\ row \in [Sessions -> Row]
    /\ stored \in [Sessions -> [Keys -> Nat]]
    /\ answers \in [Sessions -> Nat]
    /\ loc \in [Workers -> Local]
    /\ target \in Targets /\ pool \in Pools /\ post \in PostQuestion

AfterWork == {"check", "load", "mark", "set_status", "commit"}
Places == {<<"none", "idle">>, <<"start", "insert">>, <<"abandon", "abandon">>, <<"sweep", "mark">>}
          \cup ({"task"} \X ({"open", "build"} \cup AfterWork))
          \cup ({"bulk"} \X {"open", "build", "commit"})
          \cup ({"classify", "screen"} \X ({"answers", "flush"} \cup AfterWork))
          \cup ({"check"} \X {"check", "load", "mark", "set_status"})

PlaceOf(w) ==
    /\ <<loc[w].op, loc[w].pc>> \in Places
    /\ loc[w].op = "none" => loc[w] = Idle
    /\ loc[w].insert # {} => Submits(w)
    /\ loc[w].mark # "none" => Submits(w) \/ Classifies(w)
    /\ loc[w].pc \in {"open", "build", "answers", "flush"} => loc[w].mark = "none"
    /\ loc[w].batch # {} => loc[w].pc = "mark"

OwnOf(w) ==
    /\ loc[w].op \in {"start", "abandon"} \/ Submits(w) \/ Classifies(w) => loc[w].s \in Sessions
    /\ loc[w].op = "start" => ~Exists(loc[w].s)
    /\ loc[w].op = "abandon" \/ Classifies(w) => Exists(loc[w].s)
    /\ \A s \in loc[w].batch : Exists(s)
    /\ Submits(w) => /\ loc[w].s \in loc[w].locks
                     /\ loc[w].seen = row[loc[w].s]
                     /\ Submittable(loc[w].s)
    /\ Classifies(w) => /\ loc[w].seen.count <= row[loc[w].s].count
                        /\ loc[w].mark # "none" => loc[w].s \in loc[w].locks

KeysOf(w) == ~Hybrid /\ Submits(w) =>
    \A k \in loc[w].insert : stored[loc[w].s][k] = 0 /\ k[2] = Phase[1]

MarkOf(w) == loc[w].mark = "completed" =>
    /\ Submits(w) => TasksComplete(loc[w])
    /\ Classifies(w) => loc[w].seen.count >= NumTasks
    /\ loc[w].answer \/ ~Unanswered(loc[w].s)

DueFor(done) == target > 0 =>
    \/ Cardinality(done) >= target
    \/ pool > 0 /\ Cardinality(Started) >= pool

DueOf(w) == (loc[w].pc \in {"load", "set_status"} \/ (loc[w].pc = "mark" /\ loc[w].op # "sweep")) =>
    DueFor(Completed(w))

RequestInv(w) == PlaceOf(w) /\ OwnOf(w) /\ KeysOf(w) /\ MarkOf(w) /\ DueOf(w)

LockInv ==
    /\ \A v, w \in Workers : v # w => loc[v].locks \cap loc[w].locks = {}
    /\ \A w \in Workers : \A s \in loc[w].locks : Exists(s)

StartInv == \A v, w \in Workers :
    loc[v].op = "start" /\ loc[w].op = "start" /\ loc[v].s = loc[w].s => v = w

RowsInv == ~Hybrid => \A s \in Sessions :
    /\ row[s].count = Cardinality(StoredKeys(s))
    /\ \A k \in StoredKeys(s) : stored[s][k] = 1 /\ k[2] = Phase[1]

DoneInv == \A s \in Sessions : row[s].done => row[s].count >= NumTasks /\ ~Unanswered(s)

Inv == /\ TypeInv /\ LockInv /\ StartInv /\ RowsInv /\ DoneInv
       /\ \A w \in Workers : RequestInv(w)

-----------------------------------------------------------------------------
(* Finite sets and types *)

LEMMA FiniteSessions == \A S \in SUBSET Sessions : IsFiniteSet(S) /\ Cardinality(S) \in Nat
<1>1. IsFiniteSet(Sessions)
  BY FS_Interval, SessionAssumption, 1 \in Int DEF Sessions
<1> QED
  BY <1>1, FS_Subset, FS_CardinalityType

LEMMA FiniteTasks == IsFiniteSet(Tasks) /\ Cardinality(Tasks) = NumTasks
BY FS_Interval, SessionAssumption, 1 \in Int DEF Tasks

LEMMA FiniteKeys == \A K \in SUBSET Keys : IsFiniteSet(K) /\ Cardinality(K) \in Nat
<1>1. IsFiniteSet(Phases)
  <2>1. [i \in Tasks |-> Phase[i]] \in Surjection(Tasks, Phases)
    BY DEF Surjection, Phases
  <2> QED
    BY <2>1, FiniteTasks, FS_Surjection
<1>2. IsFiniteSet(Types)
  BY <1>1, FS_AddElement DEF Types
<1>3. IsFiniteSet(Keys)
  BY <1>2, FiniteTasks, FS_Product DEF Keys
<1> QED
  BY <1>3, FS_Subset, FS_CardinalityType

LEMMA IdleType == Idle \in Local
BY DEF Idle, Local, NoRow, Row, Ops

LEMMA TypeAtType == \A n \in Nat : TypeAt(n) \in Types
<1>1. \A i \in Tasks : Phase[i] \in Types
  BY DEF Types, Phases
<1>2. ASSUME NEW n \in Nat, n < NumTasks PROVE n + 1 \in Tasks
  BY <1>2, SessionAssumption DEF Tasks
<1>3. 1 \in Tasks /\ "hybrid" \in Types
  BY SessionAssumption DEF Tasks, Types
<1> QED
  BY <1>1, <1>2, <1>3 DEF TypeAt

(* What a mark changes about a row.                                        *)
LEMMA Marked ==
    ASSUME NEW r \in Row, NEW seen \in Row, NEW mark \in {"none", "completed", "abandoned"}
    PROVE  /\ WithMark(r, seen, mark).count = r.count
           /\ r.done => WithMark(r, seen, mark).done
           /\ mark = "completed" => WithMark(r, seen, mark).done
           /\ WithMark(r, seen, mark).done => r.done \/ mark = "completed"
           /\ r.status # "none" => WithMark(r, seen, mark).status # "none"
           /\ mark = "none" => WithMark(r, seen, mark) = r
           /\ WithMark(r, seen, mark) \in Row
<1>1. CASE mark = "completed"
  BY <1>1 DEF WithMark, Row
<1>2. CASE mark = "abandoned"
  BY <1>2 DEF WithMark, Row
<1>3. CASE mark = "none"
  BY <1>3 DEF WithMark, Row
<1> QED
  BY <1>1, <1>2, <1>3

(* A commit writes rows of their type.                                     *)
LEMMA PublishType ==
    ASSUME TypeInv, NEW w \in Workers, Publish(w)
    PROVE  /\ row' \in [Sessions -> Row]
           /\ stored' \in [Sessions -> [Keys -> Nat]]
           /\ answers' \in [Sessions -> Nat]
<1> USE DEF TypeInv
<1> DEFINE l == loc[w]
<1>1. /\ l \in Local /\ l.seen \in Row /\ l.mark \in {"none", "completed", "abandoned"}
      /\ l.seen.count \in Nat /\ Cardinality(l.insert) \in Nat
  BY FiniteKeys DEF Local, Row
<1>2. \A r \in Row : WithMark(r, l.seen, l.mark) \in Row /\ WithMark(r, r, "abandoned") \in Row
  BY <1>1, Marked
<1>3. \A r \in Row : [r EXCEPT !.count = l.seen.count + Cardinality(l.insert)] \in Row
  BY <1>1 DEF Row
<1> QED
  BY <1>2, <1>3 DEF Publish

-----------------------------------------------------------------------------
(* What a step of one worker leaves alone.                                 *)

FrameBy(v) ==
    /\ \A w \in Workers : w # v => loc'[w] = loc[w]
    /\ UNCHANGED settings
    /\ \A s \in Sessions :
        /\ ~Exists(s) => row'[s] = row[s] \/ (loc[v].op = "start" /\ loc[v].s = s)
        /\ Exists(s) => Exists(s)'
        /\ row[s].done => row'[s].done
        /\ row[s].count <= row'[s].count
        /\ answers[s] <= answers'[s]
        /\ ~FreeFor(s, v) => row'[s] = row[s] /\ stored'[s] = stored[s]

LEMMA DueKept ==
    ASSUME TypeInv, TypeInv', UNCHANGED settings, NEW D \in SUBSET Sessions,
           NEW E \in SUBSET Sessions, D \subseteq E, DueFor(D),
           \A s \in Sessions : Exists(s) => Exists(s)'
    PROVE  target' > 0 => \/ Cardinality(E) >= target'
                          \/ pool' > 0 /\ Cardinality(Started') >= pool'
<1>1. Started \subseteq Started' /\ Started' \subseteq Sessions
  BY DEF Started
<1>2. Cardinality(D) <= Cardinality(E) /\ Cardinality(Started) <= Cardinality(Started')
  BY <1>1, FiniteSessions, FS_Subset
<1>3. Cardinality(D) \in Nat /\ Cardinality(E) \in Nat
      /\ Cardinality(Started) \in Nat /\ Cardinality(Started') \in Nat
  BY <1>1, FiniteSessions
<1>4. target \in Nat /\ pool \in Nat /\ target' = target /\ pool' = pool
  BY SessionAssumption DEF TypeInv, settings
<1> QED
  BY <1>2, <1>3, <1>4 DEF DueFor

LEMMA CompletedType ==
    ASSUME TypeInv, NEW w \in Workers, OwnOf(w)
    PROVE  Completed(w) \subseteq Sessions
BY DEF Completed, Flushed, OwnOf, Classifies

LEMMA OthersKeep ==
    ASSUME Inv, TypeInv', NEW v \in Workers, FrameBy(v), NEW w \in Workers, w # v
    PROVE  RequestInv(w)'
<1> USE DEF Inv
<1>1. loc'[w] = loc[w] /\ RequestInv(w) /\ loc[w] \in Local
  BY DEF FrameBy, TypeInv
<1>2. \A s \in loc[w].locks : s \in Sessions /\ row'[s] = row[s] /\ stored'[s] = stored[s]
  BY <1>1 DEF FrameBy, FreeFor, Local
<1>3. PlaceOf(w)'
  BY <1>1 DEF RequestInv, PlaceOf, Submits, Classifies
<1>4. OwnOf(w)'
  <2>1. loc[w].op = "start" => ~Exists(loc[w].s)'
    BY <1>1 DEF RequestInv, OwnOf, FrameBy, StartInv, Exists
  <2>2. loc[w].op = "abandon" \/ Classifies(w) => Exists(loc[w].s)'
    BY <1>1 DEF RequestInv, OwnOf, FrameBy
  <2>3. Submits(w) => loc[w].seen = row'[loc[w].s] /\ Submittable(loc[w].s)'
    BY <1>1, <1>2 DEF RequestInv, OwnOf, Submittable
  <2>4. Classifies(w) => loc[w].seen.count <= row'[loc[w].s].count
    <3>1. ASSUME NEW s \in Sessions, loc[w].seen.count <= row[s].count
          PROVE  loc[w].seen.count <= row'[s].count
      <4>1. row[s].count <= row'[s].count
        BY DEF FrameBy
      <4>2. row[s].count \in Nat /\ row'[s].count \in Nat /\ loc[w].seen.count \in Nat
        BY <1>1 DEF TypeInv, Row, Local
      <4> QED
        BY <3>1, <4>1, <4>2
    <3> QED
      BY <1>1, <3>1 DEF RequestInv, OwnOf
  <2> QED
    <3>1. \A s \in loc[w].batch : Exists(s)'
      BY <1>1 DEF RequestInv, OwnOf, FrameBy, Local
    <3> QED
      BY <1>1, <2>1, <2>2, <2>3, <2>4, <3>1 DEF RequestInv, OwnOf, Submits, Classifies
<1>5. KeysOf(w)'
  BY <1>1, <1>2 DEF RequestInv, KeysOf, OwnOf, Submits
<1>6. MarkOf(w)'
  <2> SUFFICES ASSUME loc[w].mark = "completed" PROVE MarkOf(w)'
    BY <1>1 DEF MarkOf
  <2>1. loc[w].s \in Sessions
    BY <1>1 DEF RequestInv, PlaceOf, OwnOf
  <2>2. ~Unanswered(loc[w].s) => ~Unanswered(loc[w].s)'
    <3>1. answers[loc[w].s] <= answers'[loc[w].s] /\ post' = post
      BY <2>1 DEF FrameBy, settings
    <3>2. answers[loc[w].s] \in Nat /\ answers'[loc[w].s] \in Nat
      BY <2>1 DEF TypeInv
    <3> QED
      BY <1>1, <3>1, <3>2 DEF Unanswered
  <2> QED
    BY <1>1, <2>2 DEF RequestInv, MarkOf, Submits, Classifies
<1>7. DueOf(w)'
  <2>1. Completed(w) \subseteq Completed(w)' /\ Completed(w) \subseteq Sessions
        /\ Completed(w)' \subseteq Sessions
    BY <1>1, <1>4, CompletedType DEF RequestInv, FrameBy, Completed, Flushed, OwnOf, Classifies
  <2>2. DueFor(Completed(w)) => DueFor(Completed(w))'
    BY <2>1, DueKept DEF FrameBy, DueFor
  <2> QED
    BY <1>1, <2>2 DEF RequestInv, DueOf
<1> QED
  BY <1>3, <1>4, <1>5, <1>6, <1>7 DEF RequestInv

(* A step of v that takes only free locks, of responses that exist, keeps  *)
(* the order of locks and starts.                                          *)
OwnPart(v) ==
    /\ RequestInv(v)'
    /\ \A s \in loc'[v].locks : s \in loc[v].locks \/ (FreeFor(s, v) /\ Exists(s)')
    /\ loc'[v].op = "start" => \/ loc[v].op = "start" /\ loc'[v].s = loc[v].s
                               \/ \A w \in Workers : loc[w].op = "start" => loc[w].s # loc'[v].s

LEMMA StepOf ==
    ASSUME Inv, NEW v \in Workers, FrameBy(v), OwnPart(v), TypeInv', RowsInv', DoneInv'
    PROVE  Inv'
<1> USE DEF Inv
<1>1. LockInv'
  <2>1. ASSUME NEW w \in Workers, w # v PROVE loc'[w].locks \cap loc'[v].locks = {}
    BY <2>1 DEF FrameBy, OwnPart, LockInv, FreeFor
  <2>2. ASSUME NEW u \in Workers, NEW w \in Workers, u # w
        PROVE  loc'[u].locks \cap loc'[w].locks = {}
    BY <2>1, <2>2 DEF FrameBy, LockInv
  <2>3. ASSUME NEW w \in Workers, NEW s \in loc'[w].locks PROVE Exists(s)'
    <3>1. s \in Sessions
      BY DEF TypeInv, Local
    <3>2. Exists(s) => Exists(s)'
      BY <3>1 DEF FrameBy
    <3> QED
      BY <2>3, <3>2 DEF FrameBy, OwnPart, LockInv
  <2> QED
    BY <2>2, <2>3 DEF LockInv
<1>2. StartInv'
  BY DEF StartInv, FrameBy, OwnPart
<1>3. \A w \in Workers : RequestInv(w)'
  BY OthersKeep DEF OwnPart
<1> QED
  BY <1>1, <1>2, <1>3

(* A step that publishes nothing.                                          *)
LEMMA QuietStep ==
    ASSUME Inv, NEW v \in Workers, UNCHANGED <<tables, settings>>,
           NEW l \in Local, loc' = [loc EXCEPT ![v] = l], OwnPart(v)
    PROVE  Inv'
<1> USE DEF Inv
<1>1. TypeInv' /\ RowsInv' /\ DoneInv'
  BY DEF TypeInv, RowsInv, DoneInv, StoredKeys, Unanswered, ProgressMatchesRows, tables, settings
<1>2. FrameBy(v)
  BY DEF FrameBy, TypeInv, Exists, tables, Row
<1> QED
  BY <1>1, <1>2, StepOf

-----------------------------------------------------------------------------
(* Requests begin and end.                                                 *)

LEMMA IdleOwn ==
    ASSUME NEW w \in Workers, loc'[w] = Idle
    PROVE  OwnPart(w)
BY DEF OwnPart, RequestInv, PlaceOf, Places, OwnOf, KeysOf, MarkOf, DueOf, Submits, Classifies, Idle

CheckOnly == [Idle EXCEPT !.pc = "check", !.op = "check"]

LEMMA CheckOwn ==
    ASSUME NEW w \in Workers, loc'[w] = CheckOnly
    PROVE  OwnPart(w)
<1>1. /\ loc'[w].op = "check" /\ loc'[w].pc = "check" /\ loc'[w].insert = {}
      /\ loc'[w].mark = "none" /\ loc'[w].batch = {} /\ loc'[w].locks = {}
  BY DEF CheckOnly, Idle
<1> QED
  BY <1>1 DEF OwnPart, RequestInv, PlaceOf, Places, AfterWork, OwnOf, KeysOf, MarkOf, DueOf,
              Submits, Classifies

LEMMA CheckType == CheckOnly \in Local
BY IdleType DEF CheckOnly, Local, Ops

LEMMA EndStep ==
    ASSUME Inv, NEW w \in Workers, UNCHANGED <<tables, settings>>, Finish(w) \/ OnlyCheck(w)
    PROVE  Inv'
<1> USE IdleType, CheckType
<1>1. CASE Finish(w)
  <2>1. loc' = [loc EXCEPT ![w] = Idle] /\ loc'[w] = Idle
    BY <1>1 DEF Finish, Inv, TypeInv
  <2> QED
    BY <2>1, IdleOwn, QuietStep
<1>2. CASE OnlyCheck(w)
  <2>1. loc' = [loc EXCEPT ![w] = CheckOnly] /\ loc'[w] = CheckOnly
    BY <1>2 DEF OnlyCheck, CheckOnly, Inv, TypeInv
  <2> QED
    BY <2>1, CheckOwn, QuietStep
<1> QED
  BY <1>1, <1>2

LEMMA StartReadStep ==
    ASSUME Inv, NEW w \in Workers, NEW s \in Sessions, StartRead(w, s)
    PROVE  Inv'
<1> DEFINE l == [Idle EXCEPT !.pc = "insert", !.op = "start", !.s = s]
<1>1. l \in Local /\ loc' = [loc EXCEPT ![w] = l] /\ loc'[w] = l /\ UNCHANGED <<tables, settings>>
  BY IdleType DEF StartRead, Go, Local, Ops, Inv, TypeInv
<1>2. /\ l.op = "start" /\ l.pc = "insert" /\ l.s = s /\ l.insert = {} /\ l.mark = "none"
      /\ l.batch = {} /\ l.locks = {}
  BY DEF Idle
<1> HIDE DEF l
<1>3. ~Exists(s)' /\ \A v \in Workers : loc[v].op = "start" => loc[v].s # s
  BY <1>1 DEF StartRead, Exists, tables
<1>4. OwnPart(w)
  BY <1>1, <1>2, <1>3 DEF OwnPart, RequestInv, PlaceOf, Places, OwnOf, KeysOf, MarkOf, DueOf,
                          Submits, Classifies
<1> QED
  BY <1>1, <1>4, QuietStep

LEMMA SubmitLockStep ==
    ASSUME Inv, NEW w \in Workers, NEW s \in Sessions, NEW op \in {"task", "bulk"},
           SubmitLock(w, s, op)
    PROVE  Inv'
<1>1. PICK T \in Payloads(op) :
        loc' = [loc EXCEPT ![w] = [Idle EXCEPT !.pc = "open", !.op = op, !.s = s, !.seen = row[s],
                                               !.todo = T, !.locks = {s}]]
  BY DEF SubmitLock, Go
<1> DEFINE l == [Idle EXCEPT !.pc = "open", !.op = op, !.s = s, !.seen = row[s],
                             !.todo = T, !.locks = {s}]
<1>2. T \in Seq(Tasks)
  <2>1. \A t \in Tasks : <<t>> \in Seq(Tasks)
    OBVIOUS
  <2>2. \A n \in 1..MaxPayload : \A f \in [1..n -> Tasks] : f \in Seq(Tasks)
    BY SessionAssumption
  <2> QED
    BY <2>1, <2>2 DEF Payloads
<1>3. row[s] \in Row
  BY DEF Inv, TypeInv
<1>4. l \in Local /\ loc' = [loc EXCEPT ![w] = l] /\ loc'[w] = l /\ UNCHANGED <<tables, settings>>
  BY <1>1, <1>2, <1>3, IdleType DEF SubmitLock, Local, Ops, Inv, TypeInv
<1>5. /\ l.op = op /\ l.pc = "open" /\ l.s = s /\ l.insert = {} /\ l.mark = "none"
      /\ l.batch = {} /\ l.locks = {s} /\ l.seen = row[s]
  BY DEF Idle
<1> HIDE DEF l
<1>6. Submittable(s)' /\ FreeFor(s, w) /\ Exists(s)' /\ row'[s] = row[s]
  BY <1>4 DEF SubmitLock, LocksResponse, Submittable, Exists, tables
<1>7. OwnPart(w)
  BY <1>4, <1>5, <1>6 DEF OwnPart, RequestInv, PlaceOf, Places, OwnOf, KeysOf, MarkOf, DueOf,
                          Submits, Classifies
<1> QED
  BY <1>4, <1>7, QuietStep

LEMMA ClassifyReadStep ==
    ASSUME Inv, NEW w \in Workers, NEW s \in Sessions, ClassifyRead(w, s)
    PROVE  Inv'
<1> DEFINE start == [Idle EXCEPT !.pc = "answers", !.s = s, !.seen = row[s]]
<1>1. row[s] \in Row
  BY DEF Inv, TypeInv
<1> DEFINE p == [start EXCEPT !.op = "classify"]
<1> DEFINE q == [start EXCEPT !.op = "screen", !.locks = {s}]
<1>2. p \in Local /\ q \in Local
  BY <1>1, IdleType DEF Local, Ops
<1>3. /\ p.op = "classify" /\ p.pc = "answers" /\ p.s = s /\ p.seen = row[s] /\ p.insert = {}
      /\ p.mark = "none" /\ p.batch = {} /\ p.locks = {}
      /\ q.op = "screen" /\ q.pc = "answers" /\ q.s = s /\ q.seen = row[s] /\ q.insert = {}
      /\ q.mark = "none" /\ q.batch = {} /\ q.locks = {s}
  BY DEF Idle
<1>4. \/ loc' = [loc EXCEPT ![w] = p]
      \/ loc' = [loc EXCEPT ![w] = q] /\ FreeFor(s, w)
  BY DEF ClassifyRead, Go
<1> HIDE DEF p, q
<1>5. UNCHANGED <<tables, settings>> /\ Exists(s)' /\ row'[s] = row[s]
  BY DEF ClassifyRead, Exists, tables
<1>6. row[s].count \in Nat
  BY <1>1 DEF Row
<1>7. loc'[w] = p \/ (loc'[w] = q /\ FreeFor(s, w))
  BY <1>4 DEF Inv, TypeInv
<1>8. OwnPart(w)
  BY <1>3, <1>5, <1>6, <1>7 DEF OwnPart, RequestInv, PlaceOf, Places, OwnOf, KeysOf, MarkOf, DueOf,
                                Submits, Classifies
<1> QED
  BY <1>2, <1>4, <1>5, <1>8, QuietStep

LEMMA AbandonReadStep ==
    ASSUME Inv, NEW w \in Workers, NEW s \in Sessions, AbandonRead(w, s)
    PROVE  Inv'
<1> DEFINE l == [Idle EXCEPT !.pc = "abandon", !.op = "abandon", !.s = s, !.seen = row[s]]
<1>1. row[s] \in Row
  BY DEF Inv, TypeInv
<1>2. l \in Local /\ loc' = [loc EXCEPT ![w] = l] /\ loc'[w] = l /\ UNCHANGED <<tables, settings>>
  BY <1>1, IdleType DEF AbandonRead, Go, Local, Ops, Inv, TypeInv
<1>3. /\ l.op = "abandon" /\ l.pc = "abandon" /\ l.s = s /\ l.insert = {} /\ l.mark = "none"
      /\ l.batch = {} /\ l.locks = {}
  BY DEF Idle
<1> HIDE DEF l
<1>4. Exists(s)'
  BY <1>2 DEF AbandonRead, Exists, tables
<1>5. OwnPart(w)
  BY <1>2, <1>3, <1>4 DEF OwnPart, RequestInv, PlaceOf, Places, OwnOf, KeysOf, MarkOf, DueOf,
                          Submits, Classifies
<1> QED
  BY <1>2, <1>5, QuietStep

LEMMA SweepStep ==
    ASSUME Inv, NEW w \in Workers, NEW S \in SUBSET Open, Sweep(w, S)
    PROVE  Inv'
<1>1. CASE S = {}
  BY <1>1, EndStep DEF Sweep
<1>2. CASE S # {}
  <2> DEFINE l == [Idle EXCEPT !.pc = "mark", !.op = "sweep", !.batch = S]
  <2>1. S \subseteq Sessions
    BY DEF Open
  <2>2. l \in Local /\ loc' = [loc EXCEPT ![w] = l] /\ loc'[w] = l /\ UNCHANGED <<tables, settings>>
    BY <1>2, <2>1, IdleType DEF Sweep, Go, Local, Ops, Inv, TypeInv
  <2>3. /\ l.op = "sweep" /\ l.pc = "mark" /\ l.insert = {} /\ l.mark = "none" /\ l.locks = {}
        /\ l.batch = S
    BY DEF Idle
  <2>5. \A s \in S : Exists(s)'
    BY <2>2 DEF Open, Exists, tables
  <2> HIDE DEF l
  <2>4. OwnPart(w)
    BY <2>2, <2>3, <2>5 DEF OwnPart, RequestInv, PlaceOf, Places, OwnOf, KeysOf, MarkOf, DueOf,
                      Submits, Classifies
  <2> QED
    BY <2>2, <2>4, QuietStep
<1> QED
  BY <1>1, <1>2

-----------------------------------------------------------------------------
(* Requests go on.                                                         *)

\* Worker w goes on with l, which is the same request.
Continues(w, l) ==
    /\ UNCHANGED <<tables, settings>>
    /\ l \in Local /\ loc' = [loc EXCEPT ![w] = l] /\ loc'[w] = l
    /\ l.op = loc[w].op /\ l.s = loc[w].s /\ l.seen = loc[w].seen

LEMMA ContinueStep ==
    ASSUME Inv, NEW w \in Workers, NEW l, Continues(w, l),
           PlaceOf(w)', KeysOf(w)', MarkOf(w)', DueOf(w)',
           Submits(w) => loc[w].locks \subseteq l.locks,
           \A s \in l.batch : Exists(s),
           \A s \in l.locks : s \in loc[w].locks \/ (FreeFor(s, w) /\ Exists(s)),
           Classifies(w) /\ l.mark # "none" => l.s \in l.locks
    PROVE  Inv'
<1>1. OwnOf(w)'
  BY DEF Continues, Inv, RequestInv, OwnOf, Submits, Classifies, Submittable, Exists, tables
<1>2. OwnPart(w)
  BY <1>1 DEF Continues, OwnPart, RequestInv, Exists, tables
<1> QED
  BY <1>2, QuietStep DEF Continues

\* Nothing the request knows has changed.
LEMMA SameKnowledge ==
    ASSUME Inv, NEW w \in Workers, NEW l, Continues(w, l), l.insert = loc[w].insert,
           l.mark = loc[w].mark, l.answer = loc[w].answer
    PROVE  /\ KeysOf(w)' /\ MarkOf(w)'
           /\ DueFor(Completed(w)) => DueFor(Completed(w))'
<1>1. KeysOf(w)' /\ MarkOf(w)'
  BY DEF Continues, Inv, RequestInv, KeysOf, MarkOf, Submits, Classifies, TasksComplete, Unanswered,
         tables, settings
<1>2. Completed(w)' = Completed(w) /\ Started' = Started
  BY DEF Continues, Completed, Flushed, Started, Exists, tables
<1> QED
  BY <1>1, <1>2 DEF DueFor, Continues, settings

LEMMA SubmitOpenStep ==
    ASSUME Inv, NEW w \in Workers, SubmitOpen(w)
    PROVE  Inv'
<1> DEFINE k == loc[w]
<1> DEFINE l == [k EXCEPT !.pc = "build"]
<1>1. k \in Local /\ RequestInv(w) /\ k.pc = "open"
  BY DEF SubmitOpen, At, Inv, TypeInv
<1>2. /\ l \in Local /\ l.pc = "build" /\ l.op = k.op /\ l.s = k.s /\ l.seen = k.seen
      /\ l.insert = k.insert /\ l.mark = k.mark /\ l.answer = k.answer /\ l.batch = k.batch
      /\ l.locks = k.locks
  BY <1>1 DEF Local
<1>3. Continues(w, l)
  BY <1>2 DEF Continues, SubmitOpen, Go, Inv, TypeInv
<1> HIDE DEF l
<1>4. PlaceOf(w)' /\ DueOf(w)'
  BY <1>1, <1>2, <1>3 DEF Continues, RequestInv, PlaceOf, Places, AfterWork, DueOf, Submits, Classifies
<1> QED
  BY <1>1, <1>2, <1>3, <1>4, SameKnowledge, ContinueStep DEF RequestInv, PlaceOf, OwnOf

LEMMA SubmitNextStep ==
    ASSUME Inv, NEW w \in Workers, SubmitNext(w)
    PROVE  Inv'
<1> DEFINE k == loc[w]
<1> DEFINE n == k.seen.count + Cardinality(k.insert)
<1> DEFINE key == <<Head(k.todo), TypeAt(n)>>
<1>1. k \in Local /\ RequestInv(w) /\ k.pc = "build" /\ k.todo # <<>>
  BY DEF SubmitNext, At, Inv, TypeInv
<1>2. n \in Nat /\ Head(k.todo) \in Tasks /\ Tail(k.todo) \in Seq(Tasks) /\ <<>> \in Seq(Tasks)
  BY <1>1, FiniteKeys DEF Local, Row
<1>3. key \in Keys
  BY <1>2, TypeAtType DEF Keys
<1>4. Submits(w) /\ k.mark = "none" /\ k.batch = {}
  BY <1>1 DEF RequestInv, PlaceOf, Places, AfterWork, Submits, Classifies, Idle
<1> DEFINE p == [k EXCEPT !.todo = Tail(@)]
<1> DEFINE q == [k EXCEPT !.todo = IF n + 1 >= NumTasks THEN <<>> ELSE Tail(@),
                          !.insert = @ \cup {key}]
<1>5. Go(w, p) \/ (Go(w, q) /\ ~Repeated(k.s, key, k.insert))
  BY DEF SubmitNext
<1> HIDE DEF n, key
<1>6. p \in Local /\ q \in Local
  BY <1>1, <1>2, <1>3 DEF Local
<1>7. /\ p.pc = k.pc /\ p.op = k.op /\ p.s = k.s /\ p.seen = k.seen /\ p.insert = k.insert
      /\ p.mark = k.mark /\ p.batch = k.batch /\ p.locks = k.locks
      /\ q.pc = k.pc /\ q.op = k.op /\ q.s = k.s /\ q.seen = k.seen
      /\ q.insert = k.insert \cup {key}
      /\ q.mark = k.mark /\ q.batch = k.batch /\ q.locks = k.locks
  BY <1>1 DEF Local
<1>8. UNCHANGED <<tables, settings>>
  BY DEF SubmitNext
<1>9. ASSUME ~Repeated(k.s, key, k.insert), ~Hybrid
      PROVE  stored[k.s][key] = 0 /\ key[2] = Phase[1]
  <2>1. PICK t \in Tasks : key = <<t, Phase[1]>>
    BY <1>2, <1>9 DEF key, TypeAt
  <2>2. Phase[1] # "hybrid"
    BY SessionAssumption DEF Phases, Tasks
  <2>3. ~(stored[k.s][<<t, Phase[1]>>] > 0)
    BY <1>9, <2>1, <2>2 DEF Repeated
  <2>4. stored[k.s][key] \in Nat
    BY <1>1, <1>3, <1>4 DEF Inv, TypeInv, RequestInv, OwnOf
  <2>5. stored[k.s][key] = 0
    BY <2>1, <2>3, <2>4
  <2> QED
    BY <2>1, <2>5
<1> HIDE DEF p, q, k
<1>10. ASSUME NEW l \in {p, q}, Go(w, l), l = q => ~Repeated(k.s, key, k.insert) \/ l = p
       PROVE  Inv'
  <2>1. Continues(w, l)
    BY <1>6, <1>7, <1>8, <1>10 DEF Continues, Go, Inv, TypeInv, k
  <2>2. PlaceOf(w)' /\ DueOf(w)' /\ MarkOf(w)'
    BY <1>1, <1>4, <1>7, <1>10, <2>1
       DEF Continues, RequestInv, PlaceOf, Places, DueOf, MarkOf, Submits, Classifies, k
  <2>3. KeysOf(w)'
    BY <1>1, <1>4, <1>7, <1>8, <1>9, <1>10, <2>1
       DEF Continues, RequestInv, KeysOf, Submits, tables, k
  <2> QED
    BY <1>1, <1>4, <1>7, <1>10, <2>1, <2>2, <2>3, ContinueStep DEF k, Submits, Classifies
<1> QED
  BY <1>5, <1>10

LEMMA SubmitBuildStep ==
    ASSUME Inv, NEW w \in Workers, SubmitBuild(w)
    PROVE  Inv'
<1> DEFINE k == loc[w]
<1> DEFINE complete == CompletesResponse(k)
<1> DEFINE l == [k EXCEPT !.pc = IF complete /\ k.op = "task" THEN "check" ELSE "commit",
                          !.mark = IF complete THEN "completed" ELSE "none"]
<1>1. k \in Local /\ RequestInv(w) /\ k.pc = "build" /\ Go(w, l) /\ UNCHANGED <<tables, settings>>
  BY DEF SubmitBuild, At, Inv, TypeInv
<1>2. /\ l.op = k.op /\ l.s = k.s /\ l.seen = k.seen /\ l.insert = k.insert /\ l.batch = k.batch
      /\ l.locks = k.locks /\ l.answer = k.answer
      /\ l.pc = "commit" \/ (l.pc = "check" /\ l.op = "task")
      /\ l.mark = "none" \/ (l.mark = "completed" /\ CompletesResponse(k))
  BY <1>1 DEF Local
<1>3. l \in Local
  BY <1>1 DEF Local
<1> HIDE DEF l
<1>4. Continues(w, l)
  BY <1>1, <1>2, <1>3 DEF Continues, Go, Inv, TypeInv
<1>5. Submits(w) /\ k.batch = {}
  BY <1>1 DEF RequestInv, PlaceOf, Places, AfterWork, Submits, Classifies, Idle
<1>6. PlaceOf(w)' /\ DueOf(w)'
  BY <1>1, <1>2, <1>4, <1>5 DEF Continues, RequestInv, PlaceOf, Places, AfterWork, DueOf, Submits, Classifies
<1>7. KeysOf(w)'
  BY <1>1, <1>2, <1>4, <1>5 DEF Continues, RequestInv, KeysOf, Submits, tables
<1>8. MarkOf(w)'
  BY <1>1, <1>2, <1>4, <1>5 DEF Continues, RequestInv, MarkOf, CompletesResponse, TasksComplete,
                                Submits, Classifies, Unanswered, tables, settings
<1> QED
  BY <1>1, <1>2, <1>4, <1>5, <1>6, <1>7, <1>8, ContinueStep DEF Submits, Classifies

LEMMA ClassifyAnswersStep ==
    ASSUME Inv, NEW w \in Workers, ClassifyAnswers(w)
    PROVE  Inv'
<1> DEFINE k == loc[w]
<1>1. k \in Local /\ RequestInv(w) /\ k.pc = "answers" /\ UNCHANGED <<tables, settings>>
  BY DEF ClassifyAnswers, At, Inv, TypeInv
<1>2. PICK given \in BOOLEAN :
        Go(w, [k EXCEPT !.pc = "flush", !.answer = given /\ answers[k.s] = 0])
  BY DEF ClassifyAnswers
<1> DEFINE l == [k EXCEPT !.pc = "flush", !.answer = given /\ answers[k.s] = 0]
<1>3. /\ l.op = k.op /\ l.s = k.s /\ l.seen = k.seen /\ l.insert = k.insert /\ l.batch = k.batch
      /\ l.locks = k.locks /\ l.mark = k.mark /\ l.pc = "flush" /\ l \in Local
  BY <1>1 DEF Local
<1> HIDE DEF l
<1>4. Continues(w, l)
  BY <1>1, <1>2, <1>3 DEF Continues, Go, Inv, TypeInv, l
<1>5. Classifies(w) /\ k.batch = {} /\ k.mark = "none"
  BY <1>1 DEF RequestInv, PlaceOf, Places, AfterWork, Submits, Classifies, Idle
<1>6. PlaceOf(w)' /\ DueOf(w)' /\ KeysOf(w)' /\ MarkOf(w)'
  BY <1>1, <1>3, <1>4, <1>5 DEF Continues, RequestInv, PlaceOf, Places, DueOf, KeysOf, MarkOf,
                                Submits, Classifies
<1> QED
  BY <1>1, <1>3, <1>4, <1>5, <1>6, ContinueStep

LEMMA ClassifyFlushStep ==
    ASSUME Inv, NEW w \in Workers, ClassifyFlush(w)
    PROVE  Inv'
<1> DEFINE k == loc[w]
<1> DEFINE ready == k.seen.count >= NumTasks /\ ~k.seen.done /\ (k.answer \/ ~Unanswered(k.s))
<1>1. k \in Local /\ RequestInv(w) /\ k.pc = "flush" /\ UNCHANGED <<tables, settings>> /\ FreeFor(k.s, w)
  BY DEF ClassifyFlush, At, Inv, TypeInv
<1>2. PICK finalize \in BOOLEAN :
        Go(w, [k EXCEPT !.pc = IF finalize /\ ready THEN "check" ELSE "commit",
                        !.mark = IF finalize /\ ready THEN "completed" ELSE "none",
                        !.locks = {k.s}])
  BY DEF ClassifyFlush
<1> DEFINE l == [k EXCEPT !.pc = IF finalize /\ ready THEN "check" ELSE "commit",
                          !.mark = IF finalize /\ ready THEN "completed" ELSE "none",
                          !.locks = {k.s}]
<1>3. Classifies(w) /\ k.batch = {} /\ k.s \in Sessions /\ Exists(k.s)
  BY <1>1 DEF RequestInv, PlaceOf, Places, AfterWork, OwnOf, Submits, Classifies, Idle
<1>4. /\ l.op = k.op /\ l.s = k.s /\ l.seen = k.seen /\ l.insert = k.insert /\ l.batch = k.batch
      /\ l.locks = {k.s} /\ l.answer = k.answer /\ l.pc \in {"check", "commit"}
      /\ l.mark = "none" \/ (l.mark = "completed" /\ ready)
  BY <1>1 DEF Local
<1>5. l \in Local
  BY <1>1, <1>3 DEF Local
<1> HIDE DEF l
<1>6. Continues(w, l)
  BY <1>1, <1>2, <1>4, <1>5 DEF Continues, Go, Inv, TypeInv, l
<1>7. PlaceOf(w)' /\ DueOf(w)' /\ KeysOf(w)'
  BY <1>1, <1>3, <1>4, <1>6 DEF Continues, RequestInv, PlaceOf, Places, AfterWork, DueOf, KeysOf,
                                Submits, Classifies
<1>8. MarkOf(w)'
  BY <1>1, <1>3, <1>4, <1>6 DEF Continues, MarkOf, Submits, Classifies, Unanswered, tables, settings
<1> QED
  BY <1>1, <1>3, <1>4, <1>6, <1>7, <1>8, ContinueStep DEF Submits, Classifies

LEMMA CheckStep ==
    ASSUME Inv, NEW w \in Workers, CheckNotDue(w) \/ CheckDue(w)
    PROVE  Inv'
<1> DEFINE k == loc[w]
<1>1. k \in Local /\ RequestInv(w) /\ k.pc = "check" /\ UNCHANGED <<tables, settings>>
  BY DEF CheckNotDue, CheckDue, At, Inv, TypeInv
<1>2. k.batch = {}
  BY <1>1 DEF RequestInv, PlaceOf
<1>3. CheckDue(w) => DueFor(Completed(w))
  BY SessionAssumption DEF CheckDue, Due, DueFor, Inv, TypeInv
<1>4. ASSUME NEW pc \in {"commit", "load"}, Go(w, [k EXCEPT !.pc = pc]),
             k.op \in {"task", "classify", "screen"} \/ (pc = "load" /\ k.op = "check"),
             pc = "load" => DueFor(Completed(w))
      PROVE  Inv'
  <2> DEFINE l == [k EXCEPT !.pc = pc]
  <2>1. /\ l.op = k.op /\ l.s = k.s /\ l.seen = k.seen /\ l.insert = k.insert /\ l.batch = k.batch
        /\ l.locks = k.locks /\ l.answer = k.answer /\ l.pc = pc /\ l.mark = k.mark
    BY <1>1 DEF Local
  <2>2. l \in Local
    BY <1>1 DEF Local
  <2>3. loc' = [loc EXCEPT ![w] = l] /\ loc'[w] = l
    BY <1>4 DEF Go, Inv, TypeInv
  <2> HIDE DEF l
  <2>4. Continues(w, l)
    BY <1>1, <2>1, <2>2, <2>3 DEF Continues
  <2>5. PlaceOf(w)'
    BY <1>1, <1>4, <2>1, <2>4 DEF Continues, RequestInv, PlaceOf, Places, AfterWork, Submits, Classifies
  <2>6. DueOf(w)' /\ KeysOf(w)' /\ MarkOf(w)'
    BY <1>4, <2>1, <2>4, SameKnowledge DEF Continues, DueOf
  <2> QED
    BY <1>1, <1>2, <2>1, <2>4, <2>5, <2>6, ContinueStep DEF RequestInv, OwnOf
<1>5. k.op \in {"task", "classify", "screen", "check"}
  BY <1>1 DEF RequestInv, PlaceOf, Places, AfterWork
<1>6. CASE CheckNotDue(w)
  BY <1>1, <1>4, <1>6, EndStep DEF CheckNotDue
<1>7. CASE CheckDue(w)
  BY <1>3, <1>4, <1>5, <1>7 DEF CheckDue
<1> QED
  BY <1>6, <1>7

LEMMA LoadOpenStep ==
    ASSUME Inv, NEW w \in Workers, LoadOpen(w)
    PROVE  Inv'
<1> DEFINE k == loc[w]
<1> DEFINE found == Open \ Flushed(w)
<1> DEFINE self == found \cap (IF k.op = "task" THEN {k.s} ELSE {})
<1> DEFINE l == [k EXCEPT !.pc = IF found = {} THEN "set_status" ELSE "mark",
                          !.batch = found \ self,
                          !.mark = IF self # {} THEN "abandoned" ELSE @]
<1>1. k \in Local /\ RequestInv(w) /\ k.pc = "load" /\ UNCHANGED <<tables, settings>> /\ Go(w, l)
  BY DEF LoadOpen, At, Inv, TypeInv
<1>2. found \subseteq Sessions /\ \A s \in found : Exists(s)
  BY DEF Open, Exists
<1>3. /\ l.op = k.op /\ l.s = k.s /\ l.seen = k.seen /\ l.insert = k.insert
      /\ l.locks = k.locks /\ l.answer = k.answer /\ l.batch \subseteq found
      /\ l.pc = "mark" \/ (l.pc = "set_status" /\ l.batch = {})
      /\ l.mark = k.mark \/ (l.mark = "abandoned" /\ k.op = "task")
  BY <1>1 DEF Local
<1>4. l \in Local
  BY <1>1, <1>2 DEF Local
<1> HIDE DEF l, found
<1>5. Continues(w, l)
  BY <1>1, <1>3, <1>4 DEF Continues, Go, Inv, TypeInv
<1>6. k.op \in {"task", "classify", "screen", "check"} /\ DueFor(Completed(w))
  BY <1>1 DEF RequestInv, PlaceOf, Places, AfterWork, DueOf
<1>7. PlaceOf(w)'
  BY <1>1, <1>3, <1>5, <1>6 DEF Continues, RequestInv, PlaceOf, Places, AfterWork, Submits, Classifies
<1>8. KeysOf(w)' /\ MarkOf(w)'
  BY <1>1, <1>3, <1>5, <1>6 DEF Continues, RequestInv, KeysOf, MarkOf, Submits, Classifies,
        TasksComplete, Unanswered, tables, settings
<1>9. DueOf(w)'
  <2>1. Completed(w)' = Completed(w) /\ Started' = Started
    BY <1>3, <1>5 DEF Continues, Completed, Flushed, Started, Exists, tables
  <2> QED
    BY <1>5, <1>6, <2>1 DEF DueOf, DueFor, Continues, settings
<1> QED
  BY <1>1, <1>2, <1>3, <1>5, <1>6, <1>7, <1>8, <1>9, ContinueStep DEF RequestInv, OwnOf, Classifies

LEMMA MarkRowStep ==
    ASSUME Inv, NEW w \in Workers, NEW s \in Sessions, MarkRow(w, s)
    PROVE  Inv'
<1> DEFINE k == loc[w]
<1> DEFINE l == [k EXCEPT !.locks = @ \cup {s}]
<1>1. /\ k \in Local /\ RequestInv(w) /\ k.pc = "mark" /\ s \in k.batch /\ FreeFor(s, w)
      /\ UNCHANGED <<tables, settings>> /\ Go(w, l)
  BY DEF MarkRow, NextToLock, ToLock, At, Inv, TypeInv
<1>2. /\ l.op = k.op /\ l.s = k.s /\ l.seen = k.seen /\ l.insert = k.insert /\ l.batch = k.batch
      /\ l.locks = k.locks \cup {s} /\ l.answer = k.answer /\ l.mark = k.mark /\ l.pc = k.pc
  BY <1>1 DEF Local
<1>3. l \in Local
  BY <1>1 DEF Local
<1> HIDE DEF l
<1>4. Continues(w, l)
  BY <1>1, <1>2, <1>3 DEF Continues, Go, Inv, TypeInv
<1>5. PlaceOf(w)'
  BY <1>1, <1>2, <1>4 DEF Continues, RequestInv, PlaceOf, Places, Submits, Classifies
<1>6. DueOf(w)' /\ KeysOf(w)' /\ MarkOf(w)'
  BY <1>1, <1>2, <1>4, SameKnowledge DEF Continues, DueOf, RequestInv
<1> QED
  BY <1>1, <1>2, <1>4, <1>5, <1>6, ContinueStep DEF RequestInv, OwnOf

-----------------------------------------------------------------------------
(* Commits *)

LEMMA StartInsertStep ==
    ASSUME Inv, NEW w \in Workers, StartInsert(w)
    PROVE  Inv'
<1> DEFINE s == loc[w].s
<1> USE DEF Inv
<1>1. /\ loc[w] \in Local /\ RequestInv(w) /\ loc[w].op = "start" /\ s \in Sessions /\ ~Exists(s)
      /\ UNCHANGED <<study, stored, answers, settings>>
      /\ row' = [row EXCEPT ![s].status = "in_progress"]
  <2>1. loc[w].pc = "insert" /\ RequestInv(w) /\ loc[w] \in Local
    BY DEF StartInsert, At, TypeInv
  <2>2. loc[w].op = "start"
    BY <2>1 DEF RequestInv, PlaceOf, Places, AfterWork
  <2> QED
    BY <2>1, <2>2 DEF StartInsert, RequestInv, OwnOf
<1>2. /\ row' \in [Sessions -> Row]
      /\ \A r \in Sessions : /\ row'[r].done = row[r].done /\ row'[r].count = row[r].count
                             /\ row'[r].gone = row[r].gone
                             /\ r # s => row'[r] = row[r]
      /\ row'[s].status = "in_progress"
  BY <1>1 DEF TypeInv, Row
<1>3. CASE Finish(w) \/ OnlyCheck(w)
  <2>1. PICK l \in {Idle, CheckOnly} : loc' = [loc EXCEPT ![w] = l] /\ loc'[w] = l
    BY <1>3 DEF Finish, OnlyCheck, CheckOnly, TypeInv
  <2>2. TypeInv'
    BY <1>1, <1>2, <2>1, IdleType, CheckType DEF TypeInv, settings
  <2>3. RowsInv' /\ DoneInv'
    BY <1>1, <1>2 DEF RowsInv, DoneInv, StoredKeys, Unanswered, settings
  <2>4. OwnPart(w)
    BY <2>1, IdleOwn, CheckOwn
  <2>5. FrameBy(w)
    <3>1. \A r \in Sessions : ~FreeFor(r, w) => r # s
      BY <1>1 DEF FreeFor, LockInv
    <3> QED
      BY <1>1, <1>2, <2>1, <3>1 DEF FrameBy, Exists, TypeInv, Row
  <2> QED
    BY <2>2, <2>3, <2>4, <2>5, StepOf
<1> QED
  BY <1>3 DEF StartInsert

LEMMA AbandonWriteStep ==
    ASSUME Inv, NEW w \in Workers, AbandonWrite(w)
    PROVE  Inv'
<1> DEFINE s == loc[w].s
<1> USE DEF Inv
<1>1. /\ loc[w] \in Local /\ s \in Sessions /\ Exists(s) /\ FreeFor(s, w)
      /\ UNCHANGED <<study, stored, answers, settings>>
      /\ row' = [row EXCEPT ![s] = AbandonUpdate(@, loc[w].seen)]
  <2>1. loc[w].pc = "abandon" /\ RequestInv(w) /\ loc[w] \in Local
    BY DEF AbandonWrite, At, TypeInv
  <2>2. loc[w].op = "abandon"
    BY <2>1 DEF RequestInv, PlaceOf, Places, AfterWork
  <2> QED
    BY <2>1, <2>2 DEF AbandonWrite, RequestInv, OwnOf
<1>2. /\ row' \in [Sessions -> Row]
      /\ \A r \in Sessions : /\ row'[r].done = row[r].done /\ row'[r].count = row[r].count
                             /\ r # s => row'[r] = row[r]
      /\ row'[s].status # "none"
  BY <1>1 DEF TypeInv, Row, AbandonUpdate, Exists
<1>3. loc' = [loc EXCEPT ![w] = CheckOnly] /\ loc'[w] = CheckOnly
  BY DEF AbandonWrite, OnlyCheck, CheckOnly, TypeInv
<1>4. TypeInv'
  BY <1>1, <1>2, <1>3, CheckType DEF TypeInv, settings
<1>5. RowsInv' /\ DoneInv'
  BY <1>1, <1>2 DEF RowsInv, DoneInv, StoredKeys, Unanswered, settings
<1>6. FrameBy(w)
  BY <1>1, <1>2, <1>3 DEF FrameBy, Exists, TypeInv, Row
<1> QED
  BY <1>3, <1>4, <1>5, <1>6, CheckOwn, StepOf

\* Worker w commits what it has done, which it has locked.
Commits(w) ==
    /\ Publish(w) /\ UNCHANGED settings /\ study' \in StudyStatuses
    /\ loc[w].pc \in {"commit", "mark", "set_status"}
    /\ loc[w].batch \subseteq loc[w].locks

(* What a commit of w does to the rows.                                    *)
LEMMA CommitRows ==
    ASSUME Inv, NEW w \in Workers, Commits(w), NEW s \in Sessions
    PROVE  /\ s = loc[w].s /\ loc[w].insert # {} =>
                /\ row[s].count = loc[w].seen.count
                /\ row'[s].count = row[s].count + Cardinality(loc[w].insert)
           /\ s # loc[w].s \/ loc[w].insert = {} => row'[s].count = row[s].count
           /\ row[s].done => row'[s].done
           /\ s = loc[w].s /\ loc[w].mark = "completed" => row'[s].done
           /\ row'[s].done => row[s].done \/ (s = loc[w].s /\ loc[w].mark = "completed")
           /\ Exists(s) => Exists(s)'
           /\ s \notin loc[w].locks => row'[s] = row[s] /\ stored'[s] = stored[s]
           /\ answers'[s] = answers[s] \/ answers'[s] = answers[s] + 1
           /\ s = loc[w].s /\ loc[w].answer => answers'[s] = answers[s] + 1
<1> DEFINE l == loc[w]
<1> USE DEF Inv
<1>1. l \in Local /\ RequestInv(w) /\ row[s] \in Row /\ answers[s] \in Nat /\ stored[s] \in [Keys -> Nat]
  BY DEF TypeInv
<1>2. s = l.s /\ l.mark # "none" => s \in l.locks
  BY <1>1 DEF RequestInv, PlaceOf, OwnOf
<1>3. s = l.s /\ l.insert # {} => s \in l.locks /\ l.seen = row[s]
  BY <1>1 DEF RequestInv, PlaceOf, OwnOf
<1>4. l.seen \in Row /\ l.mark \in {"none", "completed", "abandoned"}
  BY <1>1 DEF Local
<1> DEFINE own == WithMark(row[s], l.seen, l.mark)
<1>5. CASE s = l.s /\ l.insert # {}
  <2>1. row'[s] = [own EXCEPT !.count = l.seen.count + Cardinality(l.insert)]
    BY <1>5 DEF Commits, Publish
  <2>2. own \in Row
    BY <1>1, <1>4, Marked
  <2>3. /\ row'[s].count = l.seen.count + Cardinality(l.insert) /\ row'[s].done = own.done
        /\ row'[s].status = own.status
    BY <2>1, <2>2 DEF Row
  <2>4. answers'[s] = IF l.answer THEN answers[s] + 1 ELSE answers[s]
    BY <1>5 DEF Commits, Publish
  <2> HIDE DEF l
  <2> QED
    BY <1>1, <1>3, <1>4, <1>5, <2>3, <2>4, Marked DEF Exists, l
<1>6. CASE s = l.s /\ l.insert = {}
  <2>1. row'[s] = own /\ answers'[s] = IF l.answer THEN answers[s] + 1 ELSE answers[s]
    BY <1>6 DEF Commits, Publish
  <2>2. stored'[s] = stored[s]
    BY <1>1, <1>6 DEF Commits, Publish
  <2>3. s \notin l.locks => l.mark = "none"
    BY <1>2, <1>6
  <2>4. l.mark \in {"none", "completed", "abandoned"}
    BY <1>1 DEF Local
  <2> HIDE DEF l
  <2> QED
    BY <1>1, <1>4, <1>6, <2>1, <2>2, <2>3, <2>4, Marked DEF Exists, l
<1>7. CASE s # l.s
  <2>1. row'[s] = (IF s \in l.batch THEN WithMark(row[s], row[s], "abandoned") ELSE row[s])
        /\ answers'[s] = answers[s]
    BY <1>7 DEF Commits, Publish
  <2>2. stored'[s] = stored[s]
    BY <1>1, <1>7 DEF Commits, Publish
  <2>3. s \notin l.locks => s \notin l.batch
    BY DEF Commits
  <2> HIDE DEF l
  <2> QED
    BY <1>1, <1>7, <2>1, <2>2, <2>3, Marked DEF Exists, l
<1> QED
  BY <1>5, <1>6, <1>7

LEMMA CommitKeys ==
    ASSUME Inv, NEW w \in Workers, Commits(w), ~Hybrid
    PROVE  RowsInv'
<1> DEFINE l == loc[w]
<1> USE DEF Inv
<1>1. l \in Local /\ RequestInv(w) /\ ~Hybrid
  BY DEF TypeInv
<1>2. SUFFICES ASSUME NEW s \in Sessions
               PROVE  /\ row'[s].count = Cardinality(StoredKeys(s)')
                      /\ \A k \in StoredKeys(s)' : stored'[s][k] = 1 /\ k[2] = Phase[1]
  BY DEF RowsInv
<1>3. /\ row[s].count = Cardinality(StoredKeys(s))
      /\ \A k \in StoredKeys(s) : stored[s][k] = 1 /\ k[2] = Phase[1]
  BY <1>1 DEF RowsInv
<1>4. stored[s] \in [Keys -> Nat]
  BY DEF TypeInv
<1>5. CASE s = l.s /\ l.insert # {}
  <2>1. \A k \in l.insert : k \in Keys /\ stored[s][k] = 0 /\ k[2] = Phase[1]
    BY <1>1, <1>5 DEF RequestInv, PlaceOf, KeysOf, Local
  <2>2. \A k \in Keys : stored'[s][k] = IF k \in l.insert THEN stored[s][k] + 1 ELSE stored[s][k]
    BY <1>5 DEF Commits, Publish
  <2> HIDE DEF l
  <2>3. StoredKeys(s)' = StoredKeys(s) \cup l.insert /\ StoredKeys(s) \cap l.insert = {}
    BY <1>4, <2>1, <2>2 DEF StoredKeys
  <2>4. /\ IsFiniteSet(StoredKeys(s)) /\ IsFiniteSet(l.insert)
        /\ Cardinality(StoredKeys(s)) \in Nat /\ Cardinality(l.insert) \in Nat
    BY <2>1, FiniteKeys DEF StoredKeys
  <2>5. Cardinality(StoredKeys(s)') = Cardinality(StoredKeys(s)) + Cardinality(l.insert)
    <3>1. Cardinality(StoredKeys(s) \cup l.insert)
            = Cardinality(StoredKeys(s)) + Cardinality(l.insert) - Cardinality(StoredKeys(s) \cap l.insert)
      BY <2>4, FS_Union
    <3>2. Cardinality(StoredKeys(s) \cap l.insert) = 0
      BY <2>3, FS_EmptySet
    <3> QED
      BY <2>3, <2>4, <3>1, <3>2
  <2>6. row'[s].count = row[s].count + Cardinality(l.insert)
    BY <1>5, CommitRows DEF l
  <2>7. \A k \in StoredKeys(s)' : stored'[s][k] = 1 /\ k[2] = Phase[1]
    BY <1>3, <1>4, <2>1, <2>2, <2>3 DEF StoredKeys
  <2> QED
    BY <1>3, <2>5, <2>6, <2>7
<1>6. CASE ~(s = l.s /\ l.insert # {})
  <2>1. stored'[s] = stored[s]
    BY <1>4, <1>6 DEF Commits, Publish
  <2>2. row'[s].count = row[s].count
    BY <1>6, CommitRows
  <2> QED
    BY <1>3, <2>1, <2>2 DEF StoredKeys
<1> QED
  BY <1>5, <1>6

LEMMA CommitDone ==
    ASSUME Inv, NEW w \in Workers, Commits(w), TypeInv'
    PROVE  DoneInv'
<1> DEFINE l == loc[w]
<1> USE DEF Inv
<1>1. l \in Local /\ RequestInv(w) /\ post' = post
  BY DEF TypeInv, Commits, settings
<1> SUFFICES ASSUME NEW s \in Sessions, row'[s].done
             PROVE  row'[s].count >= NumTasks /\ ~Unanswered(s)'
  BY DEF DoneInv
<1>2. row[s].count \in Nat /\ answers[s] \in Nat /\ NumTasks \in Nat
  BY SessionAssumption DEF TypeInv, Row
<1>3. Cardinality(l.insert) \in Nat /\ l.seen.count \in Nat
  BY <1>1, FiniteKeys DEF Local, Row
<1>4. row[s].count <= row'[s].count
  BY <1>2, <1>3, CommitRows
<1>5. ~Unanswered(s) => ~Unanswered(s)'
  BY <1>1, <1>2, CommitRows DEF Unanswered
<1>6. row'[s].count \in Nat
  BY DEF TypeInv, Row
<1>7. CASE row[s].done
  <2>1. row[s].count >= NumTasks /\ ~Unanswered(s)
    BY <1>7 DEF DoneInv
  <2> QED
    BY <1>2, <1>4, <1>5, <1>6, <2>1
<1>8. CASE s = l.s /\ l.mark = "completed"
  <2>1. Submits(w) \/ Classifies(w)
    BY <1>1, <1>8 DEF RequestInv, PlaceOf
  <2>2. ~Unanswered(s)'
    <3>1. CASE l.answer
      BY <1>2, <1>8, <3>1, CommitRows DEF Unanswered
    <3>2. CASE ~Unanswered(s)
      BY <1>5, <3>2
    <3> QED
      BY <1>1, <1>8, <3>1, <3>2 DEF RequestInv, MarkOf
  <2>3. CASE Submits(w)
    <3>1. TasksComplete(l)
      BY <1>1, <1>8, <2>3 DEF RequestInv, MarkOf
    <3>2. row'[s].count = l.seen.count + Cardinality(l.insert)
      BY <1>8, <3>1, CommitRows DEF TasksComplete
    <3> QED
      BY <2>2, <3>1, <3>2 DEF TasksComplete
  <2>4. CASE Classifies(w)
    <3>1. l.seen.count >= NumTasks /\ l.seen.count <= row[s].count
      BY <1>1, <1>8, <2>4 DEF RequestInv, MarkOf, OwnOf
    <3> QED
      BY <1>2, <1>3, <1>4, <1>6, <2>2, <3>1
  <2> QED
    BY <2>1, <2>3, <2>4
<1> QED
  BY <1>7, <1>8, CommitRows

LEMMA CommitStep ==
    ASSUME Inv, NEW w \in Workers, Commits(w), NEW l \in Local, loc' = [loc EXCEPT ![w] = l],
           l.locks = {}, l.op # "start", RequestInv(w)'
    PROVE  Inv'
<1> USE DEF Inv
<1>1. TypeInv'
  BY PublishType DEF TypeInv, Commits, settings
<1>2. RowsInv' /\ DoneInv'
  <2>1. Hybrid' = Hybrid
    BY DEF Hybrid
  <2> QED
    BY <1>1, <2>1, CommitKeys, CommitDone DEF RowsInv
<1>3. FrameBy(w)
  <2>1. loc[w] \in Local /\ RequestInv(w) /\ \A v \in Workers : v # w => loc'[v] = loc[v]
    BY DEF TypeInv
  <2>2. \A s \in loc[w].locks : FreeFor(s, w) /\ Exists(s)
    BY DEF LockInv, FreeFor
  <2>3. Cardinality(loc[w].insert) \in Nat
    BY <2>1, FiniteKeys DEF Local
  <2>4. \A s \in Sessions : row[s].count \in Nat /\ answers[s] \in Nat
    BY DEF TypeInv, Row
  <2>5. ASSUME NEW s \in Sessions
        PROVE  /\ ~Exists(s) => row'[s] = row[s]
               /\ Exists(s) => Exists(s)'
               /\ row[s].done => row'[s].done
               /\ row[s].count <= row'[s].count
               /\ answers[s] <= answers'[s]
               /\ ~FreeFor(s, w) => row'[s] = row[s] /\ stored'[s] = stored[s]
    BY <2>2, <2>3, <2>4, CommitRows
  <2> QED
    BY <2>1, <2>5 DEF FrameBy, Commits
<1>4. OwnPart(w)
  BY DEF OwnPart, TypeInv
<1> QED
  BY <1>1, <1>2, <1>3, <1>4, StepOf

(* The last commit of a request, or the one before the completion check.   *)
LEMMA LastCommit ==
    ASSUME Inv, NEW w \in Workers, Commits(w), Finish(w) \/ OnlyCheck(w)
    PROVE  Inv'
<1>1. PICK l \in {Idle, CheckOnly} : loc' = [loc EXCEPT ![w] = l] /\ loc'[w] = l
  BY DEF Finish, OnlyCheck, CheckOnly, Inv, TypeInv
<1>2. RequestInv(w)' /\ l \in Local
  BY <1>1, IdleOwn, CheckOwn, IdleType, CheckType DEF OwnPart
<1>3. l.locks = {} /\ l.op # "start"
  <2>1. Idle.locks = {} /\ Idle.op = "none" /\ CheckOnly.locks = {} /\ CheckOnly.op = "check"
    BY DEF Idle, CheckOnly
  <2> QED
    BY <2>1
<1> QED
  BY <1>1, <1>2, <1>3, CommitStep

LEMMA CommitOfRequest ==
    ASSUME Inv, NEW w \in Workers, Commit(w) \/ SetStatus(w)
    PROVE  Inv'
<1>1. loc[w].pc \in {"commit", "set_status"} /\ RequestInv(w)
  BY DEF Commit, SetStatus, At, Inv
<1>2. loc[w].batch = {}
  BY <1>1 DEF RequestInv, PlaceOf
<1>3. study' \in StudyStatuses
  BY DEF Commit, SetStatus, StudyStatuses, Inv, TypeInv
<1>4. Commits(w)
  BY <1>1, <1>2, <1>3 DEF Commits, Commit, SetStatus
<1> QED
  BY <1>4, LastCommit DEF Commit, SetStatus

LEMMA MarkCommitStep ==
    ASSUME Inv, NEW w \in Workers, MarkCommit(w)
    PROVE  Inv'
<1>1. Commits(w) /\ loc[w].pc = "mark" /\ RequestInv(w)
  BY DEF MarkCommit, ToLock, Commits, At, Inv, TypeInv
<1>2. CASE loc[w].op = "sweep"
  BY <1>1, <1>2, LastCommit DEF MarkCommit
<1>3. CASE loc[w].op # "sweep"
  <2> DEFINE l == [Idle EXCEPT !.pc = "set_status", !.op = "check"]
  <2>1. loc' = [loc EXCEPT ![w] = l] /\ loc'[w] = l /\ l \in Local
    BY <1>3, IdleType DEF MarkCommit, Go, Local, Ops, Inv, TypeInv
  <2>2. /\ l.op = "check" /\ l.pc = "set_status" /\ l.insert = {} /\ l.mark = "none"
        /\ l.batch = {} /\ l.locks = {}
    BY DEF Idle
  <2> HIDE DEF l
  <2>3. DueFor(Completed(w)) /\ OwnOf(w)
    BY <1>1, <1>3 DEF RequestInv, DueOf
  <2>4. TypeInv'
    BY <1>1, <2>1, PublishType DEF TypeInv, Commits, settings, Inv
  <2>5. Completed(w)' = {s \in Sessions : row'[s].done}
    BY <2>1, <2>2 DEF Completed, Flushed
  <2>6. Completed(w) \subseteq Completed(w)' /\ Completed(w) \subseteq Sessions
    BY <1>1, <2>3, <2>5, CommitRows, CompletedType DEF Completed, Flushed, Inv
  <2>7. DueFor(Completed(w))'
    BY <1>1, <2>3, <2>4, <2>5, <2>6, CommitRows, DueKept DEF DueFor, Commits, Inv
  <2>8. RequestInv(w)'
    BY <2>1, <2>2, <2>7 DEF RequestInv, PlaceOf, Places, AfterWork, OwnOf, KeysOf, MarkOf, DueOf,
                            Submits, Classifies
  <2> QED
    BY <1>1, <2>1, <2>2, <2>8, CommitStep
<1> QED
  BY <1>2, <1>3

-----------------------------------------------------------------------------
(* The invariant *)

(* Before the first request nothing is stored.                             *)
LEMMA InitHolds == Init => Inv
<1> SUFFICES ASSUME Init PROVE Inv
  OBVIOUS
<1>1. TypeInv
  BY IdleType DEF Init, TypeInv, NoRow, Row, StudyStatuses
<1>2. \A w \in Workers : loc[w] = Idle
  BY DEF Init
<1>3. LockInv /\ StartInv
  BY <1>2 DEF LockInv, StartInv, Idle
<1>4. RowsInv
  <2>1. \A s \in Sessions : StoredKeys(s) = {} /\ row[s].count = 0
    BY DEF Init, StoredKeys, NoRow
  <2> QED
    BY <2>1, FS_EmptySet DEF RowsInv
<1>5. DoneInv
  BY DEF Init, DoneInv, NoRow
<1>6. ASSUME NEW w \in Workers PROVE RequestInv(w)
  <2>1. loc[w] = Idle
    BY <1>2
  <2> QED
    BY <2>1 DEF RequestInv, PlaceOf, Places, OwnOf, KeysOf, MarkOf, DueOf, Submits, Classifies, Idle
<1> QED
  BY <1>1, <1>3, <1>4, <1>5, <1>6 DEF Inv

(* The owner changes the status of the study only.                         *)
LEMMA OwnerStep ==
    ASSUME Inv, NEW new \in OwnerStatuses, OwnerSetsStatus(new)
    PROVE  Inv'
<1>1. study' \in StudyStatuses /\ UNCHANGED <<row, stored, answers, loc, settings>>
  BY SessionAssumption DEF OwnerSetsStatus
<1>2. TypeInv' /\ LockInv' /\ StartInv' /\ RowsInv' /\ DoneInv'
  BY <1>1 DEF Inv, TypeInv, LockInv, StartInv, RowsInv, DoneInv, StoredKeys, Unanswered, Exists, settings
<1>3. ASSUME NEW w \in Workers PROVE RequestInv(w)'
  <2>1. RequestInv(w)
    BY DEF Inv
  <2>2. Completed(w)' = Completed(w) /\ Started' = Started
    BY <1>1 DEF Completed, Flushed, Started, Exists
  <2> QED
    BY <1>1, <2>1, <2>2 DEF RequestInv, PlaceOf, OwnOf, KeysOf, MarkOf, DueOf, DueFor, Submits, Classifies,
         Submittable, Exists, TasksComplete, Unanswered, settings
<1> QED
  BY <1>2, <1>3 DEF Inv

LEMMA StutterStep == Inv /\ UNCHANGED vars => Inv'
<1> SUFFICES ASSUME Inv, UNCHANGED vars PROVE Inv'
  OBVIOUS
<1>1. UNCHANGED <<study, row, stored, answers, loc, settings>>
  BY DEF vars, tables
<1>2. TypeInv' /\ LockInv' /\ StartInv' /\ RowsInv' /\ DoneInv'
  BY <1>1 DEF Inv, TypeInv, LockInv, StartInv, RowsInv, DoneInv, StoredKeys, Unanswered, Exists, settings
<1>3. ASSUME NEW w \in Workers PROVE RequestInv(w)'
  <2>1. RequestInv(w)
    BY DEF Inv
  <2>2. Completed(w)' = Completed(w) /\ Started' = Started
    BY <1>1 DEF Completed, Flushed, Started, Exists
  <2> QED
    BY <1>1, <2>1, <2>2 DEF RequestInv, PlaceOf, OwnOf, KeysOf, MarkOf, DueOf, DueFor, Submits, Classifies,
         Submittable, Exists, TasksComplete, Unanswered, settings
<1> QED
  BY <1>2, <1>3 DEF Inv

LEMMA WorkerStep ==
    ASSUME Inv, NEW w \in Workers,
           Request(w) \/ Proceed(w) \/ Crash(w) \/ \E S \in SUBSET Open : Sweep(w, S)
    PROVE  Inv'
<1>1. CASE Request(w)
  BY <1>1, StartReadStep, SubmitLockStep, ClassifyReadStep, AbandonReadStep DEF Request
<1>2. CASE \E S \in SUBSET Open : Sweep(w, S)
  BY <1>2, SweepStep
<1>3. CASE Crash(w) \/ WaitFails(w) \/ SubmitRefused(w) \/ SubmitRepeated(w)
  BY <1>3, EndStep DEF Crash, WaitFails, SubmitRefused, SubmitRepeated
<1>4. CASE SubmitOpen(w) \/ SubmitNext(w) \/ SubmitBuild(w)
  BY <1>4, SubmitOpenStep, SubmitNextStep, SubmitBuildStep
<1>5. CASE ClassifyAnswers(w) \/ ClassifyFlush(w)
  BY <1>5, ClassifyAnswersStep, ClassifyFlushStep
<1>6. CASE CheckNotDue(w) \/ CheckDue(w) \/ LoadOpen(w)
  BY <1>6, CheckStep, LoadOpenStep
<1>7. CASE (\E s \in Sessions : MarkRow(w, s)) \/ MarkCommit(w)
  BY <1>7, MarkRowStep, MarkCommitStep
<1>8. CASE StartInsert(w) \/ AbandonWrite(w) \/ Commit(w) \/ SetStatus(w)
  BY <1>8, StartInsertStep, AbandonWriteStep, CommitOfRequest
<1> QED
  BY <1>1, <1>2, <1>3, <1>4, <1>5, <1>6, <1>7, <1>8 DEF Proceed

(* Inv holds in every state of every run.                                  *)
LEMMA Invariance == Spec => []Inv
<1>1. Inv /\ [Next]_vars => Inv'
  <2> SUFFICES ASSUME Inv, [Next]_vars PROVE Inv'
    OBVIOUS
  <2>1. CASE UNCHANGED vars
    BY <2>1, StutterStep
  <2>2. CASE Next
    BY <2>2, WorkerStep, OwnerStep DEF Next
  <2> QED
    BY <2>1, <2>2
<1> QED
  BY <1>1, InitHolds, PTL DEF Spec

-----------------------------------------------------------------------------
(* What it implies *)

LEMMA OneTypeOfKeys ==
    ASSUME Inv, ~Hybrid, NEW s \in Sessions
    PROVE  /\ StoredTasks(s) \subseteq Tasks
           /\ StoredKeys(s) = StoredTasks(s) \X {Phase[1]}
           /\ row[s].count = Cardinality(StoredTasks(s))
<1>1. Phase[1] \in Types
  BY SessionAssumption DEF Types, Phases, Tasks
<1>2. StoredTasks(s) \subseteq Tasks
  BY DEF StoredTasks
<1>3. \A k \in StoredKeys(s) : k[2] = Phase[1]
  BY DEF Inv, RowsInv
<1>4. StoredKeys(s) = StoredTasks(s) \X {Phase[1]}
  <2>1. ASSUME NEW k \in StoredKeys(s) PROVE k \in StoredTasks(s) \X {Phase[1]}
    <3>1. PICK i \in Tasks, p \in Types : k = <<i, p>>
      BY DEF StoredKeys, Keys
    <3>2. stored[s][<<i, p>>] > 0
      BY <3>1 DEF StoredKeys
    <3> QED
      BY <1>3, <3>1, <3>2 DEF StoredTasks
  <2>2. ASSUME NEW k \in StoredTasks(s) \X {Phase[1]} PROVE k \in StoredKeys(s)
    <3>1. PICK i \in StoredTasks(s) : k = <<i, Phase[1]>>
      OBVIOUS
    <3>2. PICK p \in Types : i \in Tasks /\ stored[s][<<i, p>>] > 0
      BY DEF StoredTasks
    <3>3. <<i, p>> \in StoredKeys(s)
      BY <3>2 DEF StoredKeys, Keys
    <3>4. p = Phase[1]
      BY <1>3, <3>3
    <3> QED
      BY <3>1, <3>3, <3>4
  <2> QED
    BY <2>1, <2>2
<1>5. IsFiniteSet(StoredTasks(s)) /\ Cardinality(StoredTasks(s)) \in Nat
  BY <1>2, FiniteTasks, FS_Subset, FS_CardinalityType
<1>6. Cardinality(StoredKeys(s)) = Cardinality(StoredTasks(s)) * Cardinality({Phase[1]})
  BY <1>4, <1>5, FS_Product, FS_Singleton
<1>7. Cardinality({Phase[1]}) = 1
  BY FS_Singleton
<1>8. row[s].count = Cardinality(StoredKeys(s))
  BY DEF Inv, RowsInv
<1> QED
  BY <1>2, <1>4, <1>5, <1>6, <1>7, <1>8

(* Every variable keeps its type, and completed_tasks_count of a study of  *)
(* one phase never exceeds total_tasks_assigned, although submissions add  *)
(* to a counter they have read.                                            *)
THEOREM TypeCorrect == Spec => []TypeOK
<1>1. ASSUME Inv, ~Hybrid, NEW s \in Sessions PROVE row[s].count <= NumTasks
  BY <1>1, OneTypeOfKeys, FiniteTasks, FS_Subset
<1>2. Inv => TypeOK
  BY <1>1 DEF Inv, TypeInv, TypeOK
<1> QED
  BY <1>2, Invariance, PTL

(* In a study of one phase a task is stored once, and                      *)
(* completed_tasks_count counts the tasks stored: the lock taken by        *)
(* _get_response_by_session_for_update is enough for any number of         *)
(* workers, retries and crashes.                                           *)
THEOREM ProgressMatches ==
    ASSUME ~Hybrid
    PROVE  Spec => []ProgressMatchesRows
<1>1. ASSUME Inv PROVE ProgressMatchesRows
  <2> SUFFICES ASSUME NEW s \in Sessions
               PROVE  /\ row[s].count = Cardinality(StoredTasks(s))
                      /\ \A k \in StoredKeys(s) : stored[s][k] = 1
                      /\ \A j, k \in StoredKeys(s) : j[1] = k[1] => j = k
    BY DEF ProgressMatchesRows
  <2>1. \A k \in StoredKeys(s) : stored[s][k] = 1
    BY <1>1 DEF Inv, RowsInv
  <2>2. \A j, k \in StoredTasks(s) \X {Phase[1]} : j[1] = k[1] => j = k
    OBVIOUS
  <2> QED
    BY <1>1, <2>1, <2>2, OneTypeOfKeys
<1> QED
  BY <1>1, Invariance, PTL

(* In a study of one phase a completed response has all its task rows, and *)
(* an answer to the optional question of the study.                        *)
THEOREM CompletedHas ==
    ASSUME ~Hybrid
    PROVE  Spec => []CompletedHasEverything
<1>1. ASSUME Inv PROVE CompletedHasEverything
  <2> SUFFICES ASSUME NEW s \in Sessions, row[s].done
               PROVE  StoredTasks(s) = Tasks /\ ~Unanswered(s)
    BY DEF CompletedHasEverything
  <2>1. row[s].count >= NumTasks /\ ~Unanswered(s)
    BY <1>1 DEF Inv, DoneInv
  <2>2. StoredTasks(s) \subseteq Tasks /\ row[s].count = Cardinality(StoredTasks(s))
    BY <1>1, OneTypeOfKeys
  <2>3. Cardinality(StoredTasks(s)) <= Cardinality(Tasks) /\ Cardinality(StoredTasks(s)) \in Nat
    BY <2>2, FiniteTasks, FS_Subset, FS_CardinalityType
  <2>4. Cardinality(StoredTasks(s)) = Cardinality(Tasks)
    BY <2>1, <2>2, <2>3, FiniteTasks, SessionAssumption
  <2> QED
    BY <2>1, <2>2, <2>4, FiniteTasks, FS_Subset
<1> QED
  BY <1>1, Invariance, PTL

-----------------------------------------------------------------------------
(* What a step may do *)

(* A step either publishes what a worker has done, or leaves the tables as *)
(* they are, but for its own columns of one response or of the study.      *)
LEMMA StepKinds ==
    ASSUME Inv, [Next]_vars
    PROVE  \/ \E w \in Workers : Commits(w) /\ (Commit(w) \/ MarkCommit(w) \/ SetStatus(w))
           \/ \E w \in Workers : (StartInsert(w) \/ AbandonWrite(w)) /\ loc[w].s \in Sessions
           \/ UNCHANGED <<row, stored>> /\ (study' = study \/ study' \in OwnerStatuses)
<1>1. ASSUME NEW w \in Workers, Commit(w) \/ MarkCommit(w) \/ SetStatus(w)
      PROVE  Commits(w)
  <2>1. loc[w].pc \in {"commit", "mark", "set_status"} /\ RequestInv(w)
    BY <1>1 DEF Commit, MarkCommit, SetStatus, At, Inv
  <2>2. loc[w].batch \subseteq loc[w].locks
    BY <1>1, <2>1 DEF RequestInv, PlaceOf, MarkCommit, ToLock, Commit, SetStatus, At
  <2>3. study' \in StudyStatuses
    BY <1>1 DEF Commit, MarkCommit, SetStatus, StudyStatuses, Inv, TypeInv
  <2> QED
    BY <1>1, <2>1, <2>2, <2>3 DEF Commits, Commit, MarkCommit, SetStatus
<1>2. ASSUME NEW w \in Workers, StartInsert(w) \/ AbandonWrite(w)
      PROVE  loc[w].s \in Sessions
  <2>1. loc[w].pc \in {"insert", "abandon"} /\ RequestInv(w)
    BY <1>2 DEF StartInsert, AbandonWrite, At, Inv
  <2>2. loc[w].op \in {"start", "abandon"}
    BY <2>1 DEF RequestInv, PlaceOf, Places, AfterWork
  <2> QED
    BY <2>1, <2>2 DEF RequestInv, OwnOf
<1>3. CASE UNCHANGED vars
  BY <1>3 DEF vars, tables
<1>4. CASE \E new \in OwnerStatuses : OwnerSetsStatus(new)
  BY <1>4 DEF OwnerSetsStatus
<1>5. CASE \E w \in Workers : Request(w) \/ \E S \in SUBSET Open : Sweep(w, S)
  BY <1>5 DEF Request, StartRead, SubmitLock, ClassifyRead, AbandonRead, Sweep, tables
<1>6. CASE \E w \in Workers : Proceed(w) \/ Crash(w)
  BY <1>1, <1>2, <1>6 DEF Proceed, Crash, WaitFails, SubmitRefused, SubmitRepeated, SubmitOpen, SubmitNext,
       SubmitBuild, ClassifyAnswers, ClassifyFlush, CheckNotDue, CheckDue, LoadOpen, MarkRow, tables
<1> QED
  BY <1>3, <1>4, <1>5, <1>6 DEF Next

(* A response that is not in progress when a submission commits gets no    *)
(* task, and no request takes is_completed back, in whatever order the     *)
(* workers read, lock and commit.                                          *)
THEOREM ClosedStays == Spec => ClosedStaysClosed
<1> DEFINE Closed(s) == /\ stored'[s] # stored[s] => row[s].status = "in_progress" /\ ~row[s].gone
                        /\ row[s].done => row'[s].done
<1>1. ASSUME Inv, [Next]_vars, NEW s \in Sessions PROVE Closed(s)
  <2>1. ASSUME NEW w \in Workers, Commits(w) PROVE Closed(s)
    <3>1. row[s].done => row'[s].done
      BY <1>1, <2>1, CommitRows
    <3>2. CASE s = loc[w].s /\ loc[w].insert # {}
      BY <1>1, <3>1, <3>2 DEF Inv, RequestInv, PlaceOf, OwnOf, Submittable
    <3>3. CASE ~(s = loc[w].s /\ loc[w].insert # {})
      <4>1. stored[s] \in [Keys -> Nat]
        BY <1>1 DEF Inv, TypeInv
      <4>2. stored'[s] = stored[s]
        BY <2>1, <3>3, <4>1 DEF Commits, Publish
      <4> QED
        BY <3>1, <4>2
    <3> QED
      BY <3>2, <3>3
  <2>2. ASSUME NEW w \in Workers, StartInsert(w) \/ AbandonWrite(w), loc[w].s \in Sessions
        PROVE  Closed(s)
    <3>1. row \in [Sessions -> Row] /\ stored' = stored
      BY <1>1, <2>2 DEF StartInsert, AbandonWrite, Inv, TypeInv
    <3>2. row'[s].done = row[s].done
      <4>1. CASE StartInsert(w)
        BY <2>2, <3>1, <4>1 DEF StartInsert, Row
      <4>2. CASE AbandonWrite(w)
        BY <2>2, <3>1, <4>2 DEF AbandonWrite, AbandonUpdate, Row
      <4> QED
        BY <2>2, <4>1, <4>2
    <3> QED
      BY <3>1, <3>2
  <2>3. CASE UNCHANGED <<row, stored>>
    BY <2>3
  <2> QED
    BY <1>1, <2>1, <2>2, <2>3, StepKinds
<1>2. Inv /\ [Next]_vars => [\A s \in Sessions : Closed(s)]_vars
  BY <1>1
<1> QED
  BY <1>2, Invariance, PTL DEF Spec, ClosedStaysClosed

(* Unless its owner completes it, a study with a target is completed only  *)
(* when that many responses are complete or the pool is used up, although  *)
(* the check counts before the marks are committed and the status is set   *)
(* in a later transaction.  That as many are started, as a comment of      *)
(* start_study has it, is no reason.                                       *)
THEOREM CompletedWhenDue ==
    ASSUME "completed" \notin OwnerStatuses
    PROVE  Spec => CompletedOnlyWhenDue
<1> DEFINE Done == {s \in Sessions : row[s].done}
<1> DEFINE IsDue == target > 0 /\ study # "completed" /\ study' = "completed" =>
        \/ Cardinality(Done') >= target
        \/ pool > 0 /\ Cardinality(Started') >= pool
<1>1. ASSUME Inv, [Next]_vars, Inv' PROVE IsDue
  <2>1. ASSUME NEW w \in Workers, SetStatus(w), Commits(w) PROVE IsDue
    <3>1. RequestInv(w) /\ loc[w].pc = "set_status"
      BY <1>1, <2>1 DEF SetStatus, At, Inv
    <3>2. DueFor(Completed(w)) /\ OwnOf(w)
      BY <3>1 DEF RequestInv, DueOf
    <3>3. Completed(w) \subseteq Done' /\ Completed(w) \subseteq Sessions /\ Done' \subseteq Sessions
      BY <1>1, <2>1, <3>2, CommitRows, CompletedType DEF Completed, Flushed, Inv
    <3>4. \A s \in Sessions : Exists(s) => Exists(s)'
      BY <1>1, <2>1, CommitRows
    <3>5. UNCHANGED settings /\ TypeInv /\ TypeInv'
      BY <1>1, <2>1 DEF Commits, Inv
    <3> HIDE DEF Done
    <3>6. target' > 0 => \/ Cardinality(Done') >= target'
                         \/ pool' > 0 /\ Cardinality(Started') >= pool'
      BY <3>2, <3>3, <3>4, <3>5, DueKept
    <3> QED
      BY <3>5, <3>6 DEF settings
  <2>2. ASSUME NEW w \in Workers, Commit(w) \/ MarkCommit(w) \/ StartInsert(w) \/ AbandonWrite(w)
        PROVE  IsDue
    BY <2>2 DEF Commit, MarkCommit, StartInsert, AbandonWrite
  <2>3. CASE study' = study \/ study' \in OwnerStatuses
    BY <2>3
  <2> QED
    BY <1>1, <2>1, <2>2, <2>3, StepKinds
<1>2. Inv /\ Inv' /\ [Next]_vars =>
        [target > 0 /\ study # "completed" /\ study' = "completed" =>
            \/ Cardinality({s \in Sessions : row'[s].done}) >= target
            \/ pool > 0 /\ Cardinality({s \in Sessions : row'[s].status # "none"}) >= pool]_vars
  BY <1>1 DEF Started, Exists
<1> QED
  BY <1>2, Invariance, PTL DEF Spec, CompletedOnlyWhenDue
=============================================================================
