------------------------- MODULE ScreeningQuotaProofs -------------------------
(***************************************************************************)
(* Theorems about ScreeningQuota, for any respondents, options, limits and *)
(* workers.  A row is changed only by who holds its lock, and a response   *)
(* that waits for a seat is locked and not reserved: that is what the      *)
(* parts of Inv say, one for each kind of request.                         *)
(***************************************************************************)
EXTENDS ScreeningQuota, FiniteSetTheorems, WellFoundedInduction, TLAPS

Held(w, r) == <<"response", r>> \in loc[w].locks
HeldRow(w, o) == <<"option", o>> \in loc[w].locks
Intact(r) == resp[r].live /\ ~resp[r].reserved

Phases == {<<"none", "idle">>, <<"continue", "rows">>, <<"continue", "save">>, <<"save", "save">>,
           <<"absorb", "responses">>, <<"absorb", "rows">>, <<"absorb", "next">>,
           <<"sync", "limits">>, <<"sync", "marks">>}

TypeInv ==
    /\ max \in NewLimits
    /\ acc \in [Options -> Nat]
    /\ counted \in [Options -> SUBSET Respondents]
    /\ resp \in [Respondents -> Response]
    /\ loc \in [Workers -> Local]

PhaseOf(w) ==
    /\ <<loc[w].op, loc[w].pc>> \in Phases
    /\ loc[w].op = "none" => loc[w] = Idle

LockInv ==
    /\ \A v, w \in Workers : v # w => loc[v].locks \cap loc[w].locks = {}
    /\ \A w \in Workers : \A o \in Options : HeldRow(w, o) => max[o] > 0

RowInv == \A o \in Options : max[o] = 0 => acc[o] = 0 /\ counted[o] = {}

RespondentOf(w) ==
    /\ loc[w].op \in {"continue", "save"} =>
          /\ \E r \in Respondents : loc[w].queue = {r}
          /\ loc[w].take = {}
    /\ loc[w].op = "save" => loc[w].locks = {}
    /\ loc[w].op = "continue" => \A r \in loc[w].queue : Held(w, r)
    /\ loc[w].op = "continue" /\ loc[w].pc = "rows" =>
          /\ \A r \in loc[w].queue : Intact(r)
          /\ \A o \in loc[w].todo, p \in Options : HeldRow(w, p) => p < o

AbsorbOf(w) == loc[w].op = "absorb" =>
    /\ \A r \in Respondents : Held(w, r) => Intact(r)
    /\ loc[w].pc \in {"rows", "next"} => \A r \in loc[w].queue : Held(w, r)
    /\ \A r \in loc[w].marked : Held(w, r)
    /\ \A r \in Respondents, o \in Options :
          <<r, o>> \in loc[w].take => r \in loc[w].marked /\ HeldRow(w, o)
    /\ \A o \in Options : Takers(w, o) # {} => Accepted(w, o) <= max[o]

SyncOf(w) == loc[w].op = "sync" =>
    /\ \A o \in loc[w].chosen : max[o] = 0 /\ loc[w].new[o] > 0
    /\ \A r \in Respondents, o \in Options : <<r, o>> \in loc[w].take =>
          /\ max[o] = 0 /\ loc[w].new[o] > 0
          /\ resp[r].live => r \in loc[w].marked \cup loc[w].queue
    /\ \A r \in loc[w].marked : Held(w, r)
    /\ IF loc[w].pc = "limits" THEN loc[w].queue = {} ELSE loc[w].todo = {}
    /\ \A o \in loc[w].todo : max[o] > 0
    /\ \A o \in Limited : loc[w].new[o] \notin {0, max[o]} => HeldRow(w, o) \/ o \in loc[w].todo

SaveOf(w) == loc[w].pc = "save" =>
    \A o \in loc[w].seen, p \in loc[w].chosen : Question[p] # Question[o]

RequestInv(w) == PhaseOf(w) /\ RespondentOf(w) /\ AbsorbOf(w) /\ SyncOf(w) /\ SaveOf(w)

OneSync == \A v, w \in Workers : loc[v].op = "sync" /\ loc[w].op = "sync" => v = w

Inv == /\ TypeInv /\ LockInv /\ RowInv /\ OneSync /\ SeatsAreHeld
       /\ \A w \in Workers : RequestInv(w)

-----------------------------------------------------------------------------
(* Types *)

LEMMA IdleType == Idle \in Local
<1>1. [o \in Options |-> 0] \in NewLimits
  BY DEF NewLimits
<1> QED
  BY <1>1 DEF Idle, Local

LEMMA FiniteRespondents == IsFiniteSet(Respondents) /\ Cardinality(Respondents) = NumRespondents
BY FS_Interval, QuotaAssumption, 1 \in Int DEF Respondents

LEMMA TakersType ==
    ASSUME NEW w \in Workers, NEW o \in Options
    PROVE  /\ Takers(w, o) \subseteq Respondents
           /\ IsFiniteSet(Takers(w, o)) /\ Cardinality(Takers(w, o)) \in Nat
<1>1. Takers(w, o) \subseteq Respondents
  BY DEF Takers
<1> QED
  BY <1>1, FiniteRespondents, FS_Subset, FS_CardinalityType

LEMMA MarkType ==
    ASSUME TypeInv, NEW R
    PROVE  MarkReserved(R) \in [Respondents -> Response]
<1>1. \A r \in Respondents : [resp[r] EXCEPT !.reserved = TRUE] \in Response
  BY DEF TypeInv, Response
<1> QED
  BY <1>1 DEF MarkReserved, TypeInv

LEMMA AnswerType == \A C \in Answers : C \subseteq Options
BY QuotaAssumption

LEMMA TypeStep == Inv /\ [Next]_vars => TypeInv'
<1> SUFFICES ASSUME Inv, [Next]_vars PROVE TypeInv'
  OBVIOUS
<1> USE IdleType DEF Inv, TypeInv, Go, Finish, tables
<1>1. ASSUME NEW w \in Workers, NEW r \in Respondents, NEW C \in Answers, ContinueLock(w, r, C)
      PROVE  TypeInv'
  <2> DEFINE start == [Idle EXCEPT !.op = "continue", !.queue = {r}, !.seen = Seats(r),
                                   !.locks = {<<"response", r>>}]
  <2>1. start \in Local /\ start.pc = "idle"
    <3>1. {<<"response", r>>} \subseteq Rows /\ Seats(r) \subseteq Options
      BY DEF Rows, Seats
    <3> QED BY <3>1 DEF Local, Idle
  <2>2. C \subseteq Options /\ Unfrozen(C) \subseteq Options /\ C \cap Limited \subseteq Options
    BY AnswerType DEF Unfrozen
  <2>3. /\ [start EXCEPT !.pc = "save", !.chosen = Unfrozen(C)] \in Local
        /\ [start EXCEPT !.pc = "save", !.chosen = C] \in Local
        /\ [start EXCEPT !.pc = "rows", !.chosen = C, !.todo = C \cap Limited] \in Local
    <3> HIDE DEF start
    <3> QED BY <2>1, <2>2 DEF Local
  <2> HIDE DEF start
  <2>4. \E l \in Local : loc' = [loc EXCEPT ![w] = l]
    BY <1>1, <2>3 DEF ContinueLock, start
  <2> QED
    BY <1>1, <2>4 DEF ContinueLock
<1>2. ASSUME NEW w \in Workers, NEW r \in Respondents, NEW C \in Answers, SaveRead(w, r, C)
      PROVE  TypeInv'
  <2>1. C \subseteq Options /\ Unfrozen(C) \subseteq Options /\ Seats(r) \subseteq Options
    BY AnswerType DEF Unfrozen, Seats
  <2> QED
    <3>1. [Idle EXCEPT !.pc = "save", !.op = "save", !.queue = {r}, !.seen = Seats(r),
                       !.chosen = IF resp[r].reserved THEN Unfrozen(C) ELSE C] \in Local
      BY <2>1 DEF Local
    <3> QED BY <1>2, <3>1 DEF SaveRead
<1>3. ASSUME NEW w \in Workers, AbsorbStart(w)
      PROVE  TypeInv'
  BY <1>3 DEF AbsorbStart, Local, Idle
<1>4. ASSUME NEW w \in Workers, NEW new \in NewLimits, SyncStart(w, new)
      PROVE  TypeInv'
  BY <1>4 DEF SyncStart, Local, Idle, Limited
<1>5. ASSUME NEW w \in Workers, NEW r \in Respondents, SaveCommit(w, r)
      PROVE  TypeInv'
  <2>1. Merge(resp[r].saved, loc[w].chosen) \subseteq Options
    BY DEF Merge, Response, Local
  <2> QED
    BY <1>5, <2>1 DEF SaveCommit, Response
<1>6. ASSUME NEW w \in Workers, NEW r \in Respondents, ContinueReserve(w, r)
      PROVE  TypeInv'
  <2>1. Merge(resp[r].saved, loc[w].chosen) \subseteq Options
    BY DEF Merge, Response, Local
  <2> QED
    <3>1. [resp[r] EXCEPT !.reserved = TRUE, !.saved = Merge(@, loc[w].chosen)] \in Response
      BY <2>1 DEF Response
    <3>2. resp' \in [Respondents -> Response]
      BY <1>6, <3>1 DEF ContinueReserve
    <3> QED BY <1>6, <3>2 DEF ContinueReserve
<1>7. ASSUME NEW w \in Workers, NEW r \in Respondents, ContinueReject(w, r)
      PROVE  TypeInv'
  BY <1>7 DEF ContinueReject, Response
<1>8. ASSUME NEW w \in Workers, NEW r \in Respondents, AbsorbLockResponse(w, r)
      PROVE  TypeInv'
  <2>1. loc[w] \in Local
    OBVIOUS
  <2>2. loc[w].locks \cup {<<"response", r>>} \subseteq Rows
    BY <2>1 DEF Local, Rows
  <2>3. loc[w].queue \ {r} \subseteq Respondents
    BY <2>1 DEF Local, Rows
  <2> QED
    BY <1>8, <2>1, <2>2, <2>3 DEF AbsorbLockResponse, Local
<1>9. ASSUME NEW w \in Workers, NEW r \in Respondents, AbsorbNext(w, r)
      PROVE  TypeInv'
  <2>1. loc[w] \in Local
    OBVIOUS
  <2>2. loc[w].queue \ {r} \subseteq Respondents
    BY <2>1 DEF Local, Rows, Response
  <2>3. resp[r].saved \subseteq Options /\ resp[r].saved \cap Limited \subseteq Options
    BY <2>1 DEF Local, Rows, Response
  <2> QED
    BY <1>9, <2>1, <2>2, <2>3 DEF AbsorbNext, Local
<1>10. ASSUME NEW w \in Workers, NEW r \in Respondents, AbsorbDecide(w, r)
       PROVE  TypeInv'
  <2>1. {r} \X RowsOf(w) \subseteq Respondents \X Options
    BY DEF RowsOf, Local
  <2>2. loc[w] \in Local /\ loc[w].queue \ {r} \subseteq Respondents
    BY DEF Local
  <2>3. /\ (IF Full(w) THEN loc[w].take ELSE loc[w].take \cup ({r} \X RowsOf(w))) \subseteq Respondents \X Options
        /\ (IF Full(w) THEN loc[w].marked ELSE loc[w].marked \cup {r}) \subseteq Respondents
    BY <2>1, <2>2 DEF Local
  <2> QED
    BY <1>10, <2>2, <2>3 DEF AbsorbDecide, Local
<1>11. ASSUME NEW w \in Workers, NEW r \in Respondents, SyncMark(w, r)
       PROVE  TypeInv'
  <2>1. loc[w] \in Local
    OBVIOUS
  <2>2. loc[w].queue \ {r} \subseteq Respondents
    BY <2>1 DEF Local, Rows, MarksHolder
  <2>3. loc[w].marked \cup MarksHolder(r) \subseteq Respondents
    BY <2>1 DEF Local, Rows, MarksHolder
  <2>4. loc[w].locks \cup {<<"response", x>> : x \in MarksHolder(r)} \subseteq Rows
    BY <2>1 DEF Local, Rows, MarksHolder
  <2> QED
    BY <1>11, <2>1, <2>2, <2>3, <2>4 DEF SyncMark, Local
<1>12. ASSUME NEW w \in Workers, NEW o \in Options, LockRow(w, o)
       PROVE  TypeInv'
  <2>1. loc[w] \in Local
    OBVIOUS
  <2>2. loc[w].todo \ {o} \subseteq Options
    BY <2>1 DEF Local, Rows
  <2>3. loc[w].locks \cup {<<"option", p>> : p \in {o} \cap Limited} \subseteq Rows
    BY <2>1 DEF Local, Rows
  <2> QED
    BY <1>12, <2>1, <2>2, <2>3 DEF LockRow, Local
<1>13. ASSUME NEW w \in Workers, NEW o \in Options, SyncLimit(w, o)
       PROVE  TypeInv'
  <2>1. loc[w] \in Local
    OBVIOUS
  <2>2. loc[w].todo \ {o} \subseteq Options
    BY <2>1 DEF Local, Rows
  <2>3. loc[w].locks \cup {<<"option", o>>} \subseteq Rows
    BY <2>1 DEF Local, Rows
  <2> QED
    BY <1>13, <2>1, <2>2, <2>3 DEF SyncLimit, Local
<1>14. ASSUME NEW w \in Workers, NEW o \in Options, SyncCount(w, o)
       PROVE  TypeInv'
  <2>1. Holders(o) \subseteq Respondents /\ Holders(o) \X {o} \subseteq Respondents \X Options
    BY DEF Holders
  <2>2. loc[w] \in Local /\ loc[w].chosen \ {o} \subseteq Options
    BY DEF Local
  <2>3. loc[w].take \cup (Holders(o) \X {o}) \subseteq Respondents \X Options
    BY <2>1, <2>2 DEF Local
  <2> QED
    BY <1>14, <2>1, <2>2, <2>3 DEF SyncCount, Local
<1>15. ASSUME NEW w \in Workers, AbsorbCommit(w)
       PROVE  TypeInv'
  <2>1. \A o \in Options : Accepted(w, o) \in Nat /\ counted[o] \cup Takers(w, o) \subseteq Respondents
    BY TakersType DEF Accepted
  <2> QED
    BY <1>15, <2>1, MarkType DEF AbsorbCommit
<1>16. ASSUME NEW w \in Workers, SyncCommit(w)
       PROVE  TypeInv'
  <2>1. \A o \in Options : Accepted(w, o) \in Nat /\ counted[o] \cup Takers(w, o) \subseteq Respondents
    BY TakersType DEF Accepted
  <2>2. loc[w].new \in NewLimits
    BY DEF Local
  <2> QED
    BY <1>16, <2>1, <2>2, MarkType DEF SyncCommit
<1>17. ASSUME NEW w \in Workers, Fail(w)
       PROVE  TypeInv'
  BY <1>17 DEF Fail
<1>18. ASSUME NEW r \in Leaving, Abandon(r)
       PROVE  TypeInv'
  <2>1. r \in Respondents
    BY QuotaAssumption
  <2>2. [resp[r] EXCEPT !.gone = TRUE] \in Response
    BY <2>1 DEF Response
  <2>3. resp' \in [Respondents -> Response]
    BY <1>18, <2>1, <2>2 DEF Abandon
  <2> QED
    BY <1>18, <2>3 DEF Abandon
<1>19. ASSUME UNCHANGED vars
       PROVE  TypeInv'
  BY <1>19 DEF vars
<1> QED
  BY <1>1, <1>2, <1>3, <1>4, <1>5, <1>6, <1>7, <1>8, <1>9, <1>10, <1>11, <1>12, <1>13, <1>14,
     <1>15, <1>16, <1>17, <1>18, <1>19 DEF Next, Goes, Ends

-----------------------------------------------------------------------------
(* What a step of one worker leaves alone.                                 *)

FrameBy(v) ==
    /\ \A w \in Workers : w # v => loc'[w] = loc[w]
    /\ \A x \in loc'[v].locks : x \in loc[v].locks \/ Free(v, x)
    /\ \A r \in Respondents : LockedByOther(v, <<"response", r>>) =>
          resp'[r].live = resp[r].live /\ resp'[r].reserved = resp[r].reserved
    /\ \A r \in Respondents : resp'[r].live => resp[r].live
    /\ \A o \in Options : LockedByOther(v, <<"option", o>>) =>
          acc'[o] = acc[o] /\ max'[o] = max[o]
    /\ loc[v].op # "sync" => max' = max

LEMMA GoesFrame ==
    ASSUME Inv, NEW v \in Workers, Goes(v)
    PROVE  FrameBy(v) /\ UNCHANGED tables
<1> USE DEF Inv, TypeInv, Go, Finish, tables, FrameBy
<1>1. ASSUME UNCHANGED tables,
             \A w \in Workers : w # v => loc'[w] = loc[w],
             \A x \in loc'[v].locks : x \in loc[v].locks \/ Free(v, x)
      PROVE  FrameBy(v) /\ UNCHANGED tables
  BY <1>1
<1>2. loc[v] \in Local /\ Idle.locks = {} /\ Idle \in Local
  BY IdleType DEF Idle
<1>3. ASSUME NEW r \in Respondents, NEW C \in Answers, ContinueLock(v, r, C)
      PROVE  FrameBy(v)
  <2>1. loc'[v].locks = {<<"response", r>>} /\ Free(v, <<"response", r>>)
    BY <1>3 DEF ContinueLock, Idle
  <2> QED
    BY <1>1, <1>3, <2>1 DEF ContinueLock
<1>4. ASSUME NEW r \in Respondents, NEW C \in Answers, SaveRead(v, r, C)
      PROVE  FrameBy(v)
  BY <1>1, <1>2, <1>4 DEF SaveRead, Idle
<1>5. CASE AbsorbStart(v)
  BY <1>1, <1>2, <1>5 DEF AbsorbStart, Idle
<1>6. ASSUME NEW new \in NewLimits, SyncStart(v, new)
      PROVE  FrameBy(v)
  BY <1>1, <1>2, <1>6 DEF SyncStart, Idle
<1>7. ASSUME NEW r \in Respondents, AbsorbLockResponse(v, r)
      PROVE  FrameBy(v)
  BY <1>1, <1>2, <1>7 DEF AbsorbLockResponse, Local
<1>8. ASSUME NEW r \in Respondents, AbsorbNext(v, r)
      PROVE  FrameBy(v)
  BY <1>1, <1>2, <1>8 DEF AbsorbNext, Local
<1>9. ASSUME NEW r \in Respondents, AbsorbDecide(v, r)
      PROVE  FrameBy(v)
  BY <1>1, <1>2, <1>9 DEF AbsorbDecide, Local
<1>10. ASSUME NEW r \in Respondents, SyncMark(v, r)
       PROVE  FrameBy(v)
  BY <1>1, <1>2, <1>10 DEF SyncMark, MarksHolder, Local
<1>11. ASSUME NEW o \in Options, LockRow(v, o)
       PROVE  FrameBy(v)
  BY <1>1, <1>2, <1>11 DEF LockRow, Local
<1>12. ASSUME NEW o \in Options, SyncLimit(v, o)
       PROVE  FrameBy(v)
  BY <1>1, <1>2, <1>12 DEF SyncLimit, Local
<1>13. ASSUME NEW o \in Options, SyncCount(v, o)
       PROVE  FrameBy(v)
  BY <1>1, <1>2, <1>13 DEF SyncCount, Local
<1>14. UNCHANGED tables
  BY DEF Goes, ContinueLock, SaveRead, AbsorbStart, SyncStart, AbsorbLockResponse, AbsorbNext,
         AbsorbDecide, SyncMark, LockRow, SyncLimit, SyncCount
<1> QED
  BY <1>3, <1>4, <1>5, <1>6, <1>7, <1>8, <1>9, <1>10, <1>11, <1>12, <1>13, <1>14 DEF Goes

LEMMA EndsFrame ==
    ASSUME Inv, NEW v \in Workers, Ends(v)
    PROVE  FrameBy(v) /\ loc'[v] = Idle
<1> USE DEF Inv, TypeInv, Finish, tables
<1>1. ASSUME Finish(v)
      PROVE  /\ loc'[v] = Idle /\ \A w \in Workers : w # v => loc'[w] = loc[w]
             /\ \A x \in loc'[v].locks : x \in loc[v].locks \/ Free(v, x)
  BY <1>1 DEF Idle
<1>2. \A x : x \in loc[v].locks => ~LockedByOther(v, x)
  BY DEF LockInv, LockedByOther
<1>3. ASSUME NEW r \in Respondents, SaveCommit(v, r)
      PROVE  FrameBy(v)
  BY <1>1, <1>3 DEF SaveCommit, FrameBy, Response
<1>4. ASSUME NEW r \in Respondents, ContinueReserve(v, r) \/ ContinueReject(v, r)
      PROVE  FrameBy(v)
  <2>1. Held(v, r) /\ r \in loc[v].queue
    BY <1>4 DEF ContinueReserve, ContinueReject, Selected, RequestInv, RespondentOf
  <2>2. ~LockedByOther(v, <<"response", r>>)
    BY <1>2, <2>1 DEF Held
  <2>3. \A o \in RowsOf(v) : ~LockedByOther(v, <<"option", o>>)
    BY <1>2 DEF RowsOf
  <2> QED
    BY <1>1, <1>4, <2>2, <2>3 DEF ContinueReserve, ContinueReject, FrameBy, Response
<1>5. CASE AbsorbCommit(v)
  <2>1. loc[v].op = "absorb"
    BY <1>5 DEF AbsorbCommit, At, RequestInv, PhaseOf, Phases
  <2>2. /\ \A r \in loc[v].marked : ~LockedByOther(v, <<"response", r>>)
        /\ \A o \in Options : Takers(v, o) # {} => ~LockedByOther(v, <<"option", o>>)
    BY <1>2, <2>1 DEF RequestInv, AbsorbOf, Held, HeldRow, Takers
  <2>3. \A o \in Options : Takers(v, o) = {} => Accepted(v, o) = acc[o]
    BY FS_EmptySet DEF Accepted
  <2> QED
    BY <1>1, <1>5, <2>1, <2>2, <2>3 DEF AbsorbCommit, FrameBy, MarkReserved, Response
<1>6. CASE SyncCommit(v)
  <2>1. loc[v].op = "sync"
    BY <1>6 DEF SyncCommit, SyncHandled, At, RequestInv, PhaseOf, Phases
  <2>2. \A r \in loc[v].marked : ~LockedByOther(v, <<"response", r>>)
    BY <1>2, <2>1 DEF RequestInv, SyncOf, Held
  <2>3. ASSUME NEW o \in Options, LockedByOther(v, <<"option", o>>)
        PROVE  acc'[o] = acc[o] /\ max'[o] = max[o]
    <3>1. max[o] > 0 /\ o \in Limited
      BY <2>3 DEF LockInv, LockedByOther, HeldRow, Limited
    <3>2. Takers(v, o) = {}
      BY <2>1, <3>1 DEF RequestInv, SyncOf, Takers
    <3>3. loc[v].new[o] # 0
      BY <1>6, <2>3, <3>1 DEF SyncCommit, Dropped, Free
    <3>4. loc[v].todo = {}
      BY <1>6, <2>1 DEF SyncCommit, SyncHandled, At, RequestInv, SyncOf
    <3>5. loc[v].new[o] = max[o]
      BY <1>2, <2>1, <2>3, <3>1, <3>3, <3>4 DEF RequestInv, SyncOf, HeldRow
    <3>6. Accepted(v, o) = acc[o]
      BY <3>2, FS_EmptySet DEF Accepted
    <3> QED
      BY <1>6, <3>3, <3>5, <3>6 DEF SyncCommit
  <2> QED
    BY <1>1, <1>6, <2>1, <2>2, <2>3 DEF SyncCommit, FrameBy, MarkReserved, Response
<1>7. CASE Fail(v)
  BY <1>1, <1>7 DEF Fail, FrameBy
<1>8. Finish(v)
  BY DEF Ends, SaveCommit, ContinueReserve, ContinueReject, AbsorbCommit, SyncCommit, Fail
<1> QED
  BY <1>1, <1>3, <1>4, <1>5, <1>6, <1>7, <1>8 DEF Ends

-----------------------------------------------------------------------------
(* Requests of others keep their parts of the invariant.                   *)

LEMMA OthersKeep ==
    ASSUME Inv, NEW v \in Workers, FrameBy(v), NEW w \in Workers, w # v, TypeInv',
           loc[v].op = "sync" => loc[w].op # "sync"
    PROVE  RequestInv(w)'
<1> USE DEF Inv
<1>1. loc'[w] = loc[w] /\ RequestInv(w)
  BY DEF FrameBy
<1>2. \A r \in Respondents : Held(w, r) => (Intact(r)' <=> Intact(r))
  BY DEF FrameBy, Held, Intact, LockedByOther
<1>3. \A o \in Options : HeldRow(w, o) => acc'[o] = acc[o] /\ max'[o] = max[o]
  BY DEF FrameBy, HeldRow, LockedByOther
<1>4. \A o \in Options : Takers(w, o)' = Takers(w, o)
  BY <1>1 DEF Takers
<1>5. loc[w] \in Local
  BY DEF TypeInv
<1>6. PhaseOf(w)' /\ SaveOf(w)'
  BY <1>1 DEF RequestInv, PhaseOf, SaveOf
<1>7. RespondentOf(w)'
  BY <1>1, <1>2, <1>5 DEF RequestInv, RespondentOf, Held, HeldRow, Local
<1>8. AbsorbOf(w)'
  <2> SUFFICES ASSUME loc[w].op = "absorb" PROVE AbsorbOf(w)'
    BY <1>1 DEF AbsorbOf
  <2>1. \A o \in Options : Takers(w, o) # {} => HeldRow(w, o)
    BY DEF RequestInv, AbsorbOf, Takers
  <2>2. \A o \in Options : Takers(w, o)' # {} => Accepted(w, o)' <= max'[o]
    BY <1>3, <1>4, <2>1 DEF RequestInv, AbsorbOf, Accepted
  <2> QED
    BY <1>1, <1>2, <2>2 DEF RequestInv, AbsorbOf, Held, HeldRow
<1>9. SyncOf(w)'
  <2> SUFFICES ASSUME loc[w].op = "sync" PROVE SyncOf(w)'
    BY <1>1 DEF SyncOf
  <2>1. max' = max /\ \A r \in Respondents : resp'[r].live => resp[r].live
    BY DEF FrameBy
  <2> QED
    BY <1>1, <2>1 DEF RequestInv, SyncOf, Held, HeldRow, Limited
<1> QED
  BY <1>6, <1>7, <1>8, <1>9 DEF RequestInv

LEMMA LockStep ==
    ASSUME Inv, NEW v \in Workers, FrameBy(v), TypeInv',
           \A o \in Options : HeldRow(v, o)' => max'[o] > 0
    PROVE  LockInv'
<1> USE DEF Inv
<1>1. ASSUME NEW w \in Workers, w # v PROVE loc'[w].locks \cap loc'[v].locks = {}
  BY <1>1 DEF FrameBy, LockInv, Free, LockedByOther
<1>2. ASSUME NEW w \in Workers, NEW u \in Workers, w # u
      PROVE  loc'[w].locks \cap loc'[u].locks = {}
  BY <1>1, <1>2 DEF FrameBy, LockInv
<1>3. ASSUME NEW w \in Workers, NEW o \in Options, HeldRow(w, o)', w # v
      PROVE  max'[o] > 0
  BY <1>3 DEF FrameBy, LockInv, HeldRow, LockedByOther
<1> QED
  BY <1>2, <1>3 DEF LockInv

-----------------------------------------------------------------------------
(* The request that goes on keeps its own part.                            *)

OwnPart(w) ==
    /\ RequestInv(w)'
    /\ \A o \in Options : HeldRow(w, o)' => max'[o] > 0
    /\ loc'[w].op = "sync" => loc[w].op = "sync" \/ \A v \in Workers : loc[v].op # "sync"

LEMMA MaxType == TypeInv => \A o \in Options : max[o] \in Nat
BY QuotaAssumption DEF TypeInv, NewLimits

(* A respondent who has a seat, and is not removed, is reserved; and the   *)
(* answers that a reserved respondent saves are to other questions.        *)
LEMMA FrozenAnswers ==
    ASSUME Inv, NEW r \in Respondents, resp[r].live, NEW C
    PROVE  /\ ~resp[r].reserved => Seats(r) = {}
           /\ \A o \in Seats(r), p \in Unfrozen(C) : Question[p] # Question[o]
<1>1. ASSUME NEW o \in Seats(r) PROVE o \in Limited /\ resp[r].reserved
  <2>1. o \in Options /\ r \in counted[o]
    BY DEF Seats
  <2>2. max[o] # 0 /\ resp[r].reserved
    BY <2>1 DEF Inv, RowInv, SeatsAreHeld
  <2> QED
    BY <2>1, <2>2, MaxType DEF Inv, Limited
<1> QED
  BY <1>1 DEF Unfrozen

LEMMA ContinueOwn ==
    ASSUME Inv, NEW w \in Workers, NEW r \in Respondents, NEW C \in Answers, ContinueLock(w, r, C)
    PROVE  OwnPart(w)
<1> USE DEF Inv
<1> DEFINE start == [Idle EXCEPT !.op = "continue", !.queue = {r}, !.seen = Seats(r),
                                 !.locks = {<<"response", r>>}]
<1>1. /\ start.op = "continue" /\ start.queue = {r} /\ start.seen = Seats(r) /\ start.take = {}
      /\ start.locks = {<<"response", r>>}
      /\ DOMAIN start = DOMAIN Idle
  BY DEF Idle
<1>2. resp[r].live /\ UNCHANGED tables
  BY DEF ContinueLock
<1> DEFINE l == loc'[w]
<1>3. /\ l.op = "continue" /\ l.queue = {r} /\ l.seen = Seats(r) /\ l.take = {}
      /\ l.locks = {<<"response", r>>}
      /\ \/ l.pc = "save" /\ l.chosen = Unfrozen(C)
         \/ l.pc = "save" /\ ~resp[r].reserved
         \/ l.pc = "rows" /\ ~resp[r].reserved
  <2>1. \/ l = [start EXCEPT !.pc = "save", !.chosen = Unfrozen(C)]
        \/ l = [start EXCEPT !.pc = "save", !.chosen = C] /\ ~resp[r].reserved
        \/ l = [start EXCEPT !.pc = "rows", !.chosen = C, !.todo = C \cap Limited] /\ ~resp[r].reserved
    BY DEF ContinueLock, Go, TypeInv, AlreadyReserved
  <2> HIDE DEF start, l
  <2> QED
    BY <1>1, <2>1 DEF Idle
<1> HIDE DEF l, start
<1>4. /\ resp'[r] = resp[r]
      /\ \A o \in Options : ~HeldRow(w, o)'
      /\ Held(w, r)'
  BY <1>2, <1>3 DEF HeldRow, Held, tables, l
<1>5. RespondentOf(w)'
  BY <1>2, <1>3, <1>4 DEF RespondentOf, Intact, l
<1>6. SaveOf(w)'
  BY <1>2, <1>3, FrozenAnswers DEF SaveOf, l
<1>7. PhaseOf(w)' /\ AbsorbOf(w)' /\ SyncOf(w)'
  BY <1>3 DEF PhaseOf, Phases, AbsorbOf, SyncOf, l
<1> QED
  BY <1>3, <1>4, <1>5, <1>6, <1>7 DEF OwnPart, RequestInv, l

LEMMA SaveOwn ==
    ASSUME Inv, NEW w \in Workers, NEW r \in Respondents, NEW C \in Answers, SaveRead(w, r, C)
    PROVE  OwnPart(w)
<1> USE DEF Inv
<1> DEFINE l == loc'[w]
<1>1. /\ l.op = "save" /\ l.pc = "save" /\ l.queue = {r} /\ l.seen = Seats(r) /\ l.take = {}
      /\ l.locks = {} /\ l.chosen = IF resp[r].reserved THEN Unfrozen(C) ELSE C
  BY DEF SaveRead, Go, TypeInv, Idle
<1>2. resp[r].live
  BY DEF SaveRead
<1> HIDE DEF l
<1>3. SaveOf(w)'
  BY <1>1, <1>2, FrozenAnswers DEF SaveOf, l
<1>4. PhaseOf(w)' /\ RespondentOf(w)' /\ AbsorbOf(w)' /\ SyncOf(w)'
  BY <1>1 DEF PhaseOf, Phases, RespondentOf, AbsorbOf, SyncOf, l
<1> QED
  BY <1>1, <1>3, <1>4 DEF OwnPart, RequestInv, HeldRow, l

LEMMA AbsorbStartOwn ==
    ASSUME Inv, NEW w \in Workers, AbsorbStart(w)
    PROVE  OwnPart(w)
<1> USE DEF Inv
<1> DEFINE l == loc'[w]
<1>1. /\ l.op = "absorb" /\ l.pc = "responses" /\ l.take = {} /\ l.locks = {} /\ l.marked = {}
  BY DEF AbsorbStart, Go, TypeInv, Idle
<1> HIDE DEF l
<1>2. AbsorbOf(w)'
  BY <1>1 DEF AbsorbOf, Held, HeldRow, Takers, l
<1>3. PhaseOf(w)' /\ RespondentOf(w)' /\ SyncOf(w)' /\ SaveOf(w)'
  BY <1>1 DEF PhaseOf, Phases, RespondentOf, SyncOf, SaveOf, l
<1> QED
  BY <1>1, <1>2, <1>3 DEF OwnPart, RequestInv, HeldRow, l

LEMMA SyncStartOwn ==
    ASSUME Inv, NEW w \in Workers, NEW new \in NewLimits, SyncStart(w, new)
    PROVE  OwnPart(w)
<1> USE DEF Inv
<1> DEFINE l == loc'[w]
<1>1. /\ l.op = "sync" /\ l.pc = "limits" /\ l.take = {} /\ l.locks = {} /\ l.marked = {}
      /\ l.queue = {} /\ l.new = new
      /\ l.todo = {o \in Limited : new[o] \notin {0, max[o]}}
      /\ l.chosen = {o \in Options \ Limited : new[o] > 0}
  BY DEF SyncStart, Go, TypeInv, Idle
<1>2. UNCHANGED tables /\ \A v \in Workers : loc[v].op # "sync"
  BY DEF SyncStart
<1>3. \A o \in Options : max[o] \in Nat
  BY MaxType
<1> HIDE DEF l
<1>4. SyncOf(w)'
  BY <1>1, <1>2, <1>3 DEF SyncOf, Held, HeldRow, Limited, tables, l
<1>5. PhaseOf(w)' /\ RespondentOf(w)' /\ AbsorbOf(w)' /\ SaveOf(w)'
  BY <1>1 DEF PhaseOf, Phases, RespondentOf, AbsorbOf, SaveOf, l
<1> QED
  BY <1>1, <1>2, <1>4, <1>5 DEF OwnPart, RequestInv, HeldRow, l

LEMMA LockRowOwn ==
    ASSUME Inv, NEW w \in Workers, NEW o \in Options, LockRow(w, o)
    PROVE  OwnPart(w)
<1> USE DEF Inv
<1> DEFINE k == loc[w]
<1> DEFINE l == loc'[w]
<1>1. /\ l = [k EXCEPT !.todo = @ \ {o}, !.locks = @ \cup {<<"option", p>> : p \in {o} \cap Limited}]
      /\ k \in Local /\ RequestInv(w) /\ k.pc = "rows" /\ First(o, k.todo) /\ UNCHANGED tables
  BY DEF LockRow, TypeInv, At, NextRow
<1> HIDE DEF k, l
<1>2. /\ l.pc = k.pc /\ l.op = k.op /\ l.queue = k.queue /\ l.take = k.take /\ l.marked = k.marked
      /\ l.todo = k.todo \ {o}
      /\ l.locks = k.locks \cup {<<"option", p>> : p \in {o} \cap Limited}
  BY <1>1 DEF Local
<1>3. /\ \A r \in Respondents : Held(w, r)' <=> Held(w, r)
      /\ \A p \in Options : HeldRow(w, p)' <=> HeldRow(w, p) \/ (p = o /\ o \in Limited)
  BY <1>2 DEF Held, HeldRow, k, l
<1>4. \A r \in Respondents : Intact(r)' <=> Intact(r)
  BY <1>1 DEF Intact, tables
<1>5. \A p \in l.todo : p \in k.todo /\ o < p
  BY <1>1, <1>2, QuotaAssumption DEF First, Local, Options
<1>6. PhaseOf(w)' /\ SaveOf(w)' /\ SyncOf(w)'
  BY <1>1, <1>2 DEF RequestInv, PhaseOf, Phases, SaveOf, SyncOf, k, l
<1>7. RespondentOf(w)'
  <2>1. k.queue \subseteq Respondents /\ k.op # "save" /\ RespondentOf(w)
    BY <1>1 DEF Local, RequestInv, PhaseOf, Phases, k
  <2>2. ASSUME k.op = "continue", NEW p \in l.todo, NEW q \in Options, HeldRow(w, q)'
        PROVE  q < p
    BY <1>1, <1>3, <1>5, <2>1, <2>2 DEF RespondentOf, First, k
  <2>3. k.op = "continue" => \A r \in l.queue : Held(w, r)' /\ Intact(r)'
    BY <1>1, <1>2, <1>3, <1>4, <2>1 DEF RespondentOf, k
  <2> QED
    BY <1>1, <1>2, <2>1, <2>2, <2>3 DEF RespondentOf, k, l
<1>8. AbsorbOf(w)'
  <2>1. k.queue \subseteq Respondents /\ k.marked \subseteq Respondents
    BY <1>1 DEF Local
  <2>2. \A p \in Options : Takers(w, p)' = Takers(w, p) /\ Accepted(w, p)' = Accepted(w, p)
    BY <1>1, <1>2 DEF Takers, Accepted, tables, k, l
  <2> QED
    BY <1>1, <1>2, <1>3, <1>4, <2>1, <2>2 DEF RequestInv, AbsorbOf, tables, k, l
<1>9. \A p \in Options : HeldRow(w, p)' => max'[p] > 0
  BY <1>1, <1>3 DEF LockInv, Limited, tables
<1>10. l.op # "sync"
  BY <1>1, <1>2 DEF RequestInv, PhaseOf, Phases, k
<1> QED
  BY <1>6, <1>7, <1>8, <1>9, <1>10 DEF OwnPart, RequestInv, l

(* The steps of an absorption.                                             *)
LEMMA AbsorbGoesOn ==
    ASSUME Inv, NEW w \in Workers, UNCHANGED tables, loc[w].op = "absorb",
           loc'[w].op = "absorb", loc'[w].pc \in {"responses", "rows", "next"}, AbsorbOf(w)',
           \A o \in Options : HeldRow(w, o)' => HeldRow(w, o)
    PROVE  OwnPart(w)
<1>1. PhaseOf(w)' /\ RespondentOf(w)' /\ SyncOf(w)' /\ SaveOf(w)'
  BY DEF PhaseOf, Phases, RespondentOf, SyncOf, SaveOf
<1>2. \A o \in Options : HeldRow(w, o)' => max'[o] > 0
  BY DEF Inv, LockInv, tables
<1> QED
  BY <1>1, <1>2 DEF OwnPart, RequestInv

LEMMA AbsorbLockOwn ==
    ASSUME Inv, NEW w \in Workers, NEW r \in Respondents, AbsorbLockResponse(w, r)
    PROVE  OwnPart(w)
<1> USE DEF Inv
<1> DEFINE k == loc[w]
<1> DEFINE l == loc'[w]
<1>1. /\ l = IF Absorbable(r) THEN [k EXCEPT !.locks = @ \cup {<<"response", r>>}]
             ELSE [k EXCEPT !.queue = @ \ {r}]
      /\ k \in Local /\ RequestInv(w) /\ k.pc = "responses" /\ UNCHANGED tables
  BY DEF AbsorbLockResponse, TypeInv, At
<1> HIDE DEF k, l
<1>2. /\ l.pc = k.pc /\ l.op = k.op /\ l.take = k.take /\ l.marked = k.marked
      /\ l.locks = k.locks \/ (Absorbable(r) /\ l.locks = k.locks \cup {<<"response", r>>})
  BY <1>1 DEF Local
<1>3. k.op = "absorb"
  BY <1>1 DEF RequestInv, PhaseOf, Phases, k
<1>4. /\ \A q \in Respondents : Held(w, q)' => Held(w, q) \/ Intact(q)
      /\ \A q \in Respondents : Held(w, q) => Held(w, q)'
      /\ \A p \in Options : HeldRow(w, p)' <=> HeldRow(w, p)
  BY <1>2 DEF Held, HeldRow, Absorbable, Intact, k, l
<1>5. \A q \in Respondents : Intact(q)' <=> Intact(q)
  BY <1>1 DEF Intact, tables
<1>6. \A p \in Options : Takers(w, p)' = Takers(w, p) /\ Accepted(w, p)' = Accepted(w, p)
  BY <1>1, <1>2 DEF Takers, Accepted, tables, k, l
<1>7. k.marked \subseteq Respondents
  BY <1>1 DEF Local
<1>8. AbsorbOf(w)'
  BY <1>1, <1>2, <1>3, <1>4, <1>5, <1>6, <1>7 DEF RequestInv, AbsorbOf, tables, k, l
<1> QED
  BY <1>1, <1>2, <1>3, <1>4, <1>8, AbsorbGoesOn DEF k, l

LEMMA AbsorbNextOwn ==
    ASSUME Inv, NEW w \in Workers, NEW r \in Respondents, AbsorbNext(w, r)
    PROVE  OwnPart(w)
<1> USE DEF Inv
<1> DEFINE k == loc[w]
<1> DEFINE l == loc'[w]
<1>1. /\ \/ l = [k EXCEPT !.pc = "next", !.queue = @ \ {r}]
         \/ l = [k EXCEPT !.pc = "rows", !.chosen = resp[r].saved, !.todo = resp[r].saved \cap Limited]
      /\ \/ k.pc = "responses" /\ ToLock(w) = {}
         \/ k.pc = "next"
      /\ k \in Local /\ RequestInv(w) /\ UNCHANGED tables
  BY DEF AbsorbNext, TypeInv, At
<1>2. \A q \in k.queue : k.pc = "responses" => Held(w, q)
  BY <1>1 DEF ToLock, Held
<1> HIDE DEF k, l
<1>3. /\ l.pc \in {"rows", "next"} /\ l.op = k.op /\ l.take = k.take /\ l.marked = k.marked
      /\ l.locks = k.locks /\ l.queue \subseteq k.queue
  BY <1>1 DEF Local
<1>4. k.op = "absorb"
  BY <1>1 DEF RequestInv, PhaseOf, Phases, k
<1>5. /\ \A q \in Respondents : Held(w, q)' <=> Held(w, q)
      /\ \A p \in Options : HeldRow(w, p)' <=> HeldRow(w, p)
  BY <1>3 DEF Held, HeldRow, k, l
<1>6. \A q \in Respondents : Intact(q)' <=> Intact(q)
  BY <1>1 DEF Intact, tables
<1>7. \A p \in Options : Takers(w, p)' = Takers(w, p) /\ Accepted(w, p)' = Accepted(w, p)
  BY <1>1, <1>3 DEF Takers, Accepted, tables, k, l
<1>8. k.marked \subseteq Respondents /\ k.queue \subseteq Respondents
  BY <1>1 DEF Local
<1>9. \A q \in l.queue : Held(w, q)'
  BY <1>1, <1>2, <1>3, <1>4, <1>5, <1>8 DEF RequestInv, AbsorbOf, k
<1>10. AbsorbOf(w)'
  BY <1>1, <1>3, <1>4, <1>5, <1>6, <1>7, <1>8, <1>9 DEF RequestInv, AbsorbOf, tables, k, l
<1> QED
  BY <1>1, <1>3, <1>4, <1>5, <1>10, AbsorbGoesOn DEF k, l

LEMMA AbsorbDecideOwn ==
    ASSUME Inv, NEW w \in Workers, NEW r \in Respondents, AbsorbDecide(w, r)
    PROVE  OwnPart(w)
<1> USE DEF Inv
<1> DEFINE k == loc[w]
<1> DEFINE l == loc'[w]
<1>1. /\ l = [k EXCEPT !.pc = "next", !.queue = @ \ {r}, !.chosen = {},
                       !.take = IF Full(w) THEN @ ELSE @ \cup ({r} \X RowsOf(w)),
                       !.marked = IF Full(w) THEN @ ELSE @ \cup {r}]
      /\ k.op = "absorb" /\ k.pc = "rows" /\ r \in k.queue
      /\ k \in Local /\ RequestInv(w) /\ UNCHANGED tables
  BY DEF AbsorbDecide, TypeInv, At, Selected, First
<1>2. RowsOf(w) \subseteq Options /\ \A o \in RowsOf(w) : HeldRow(w, o)
  BY DEF RowsOf, HeldRow, TypeInv, Local
<1> HIDE DEF k, l
<1>3. /\ l.pc = "next" /\ l.op = "absorb" /\ l.locks = k.locks /\ l.queue = k.queue \ {r}
      /\ \/ l.take = k.take /\ l.marked = k.marked
         \/ ~Full(w) /\ l.take = k.take \cup ({r} \X RowsOf(w)) /\ l.marked = k.marked \cup {r}
  BY <1>1 DEF Local
<1>4. /\ \A q \in Respondents : Held(w, q)' <=> Held(w, q)
      /\ \A p \in Options : HeldRow(w, p)' <=> HeldRow(w, p)
  BY <1>3 DEF Held, HeldRow, k, l
<1>5. \A q \in Respondents : Intact(q)' <=> Intact(q)
  BY <1>1 DEF Intact, tables
<1>6. k.marked \subseteq Respondents /\ k.queue \subseteq Respondents
  BY <1>1 DEF Local
<1>7. Held(w, r) /\ \A q \in l.queue : Held(w, q)'
  BY <1>1, <1>3, <1>4, <1>6 DEF RequestInv, AbsorbOf, k
<1>8. /\ \A q \in l.marked : Held(w, q)'
      /\ \A q \in Respondents, p \in Options :
            <<q, p>> \in l.take => q \in l.marked /\ HeldRow(w, p)'
  BY <1>1, <1>2, <1>3, <1>4, <1>6, <1>7 DEF RequestInv, AbsorbOf, k
<1>9. ASSUME NEW p \in Options, Takers(w, p)' # {}
      PROVE  Accepted(w, p)' <= max'[p]
  <2>1. acc'[p] = acc[p] /\ max'[p] = max[p] /\ acc[p] \in Nat /\ max[p] \in Nat
    BY <1>1, MaxType DEF tables, TypeInv
  <2>2. CASE Takers(w, p)' = Takers(w, p)
    BY <1>1, <1>9, <2>1, <2>2 DEF RequestInv, AbsorbOf, Accepted, k
  <2>3. CASE Takers(w, p)' # Takers(w, p)
    <3>1. ~Full(w) /\ p \in RowsOf(w) /\ Takers(w, p)' = Takers(w, p) \cup {r}
      BY <1>3, <2>3 DEF Takers, k, l
    <3> DEFINE n == Cardinality(Takers(w, p))
    <3>2. n \in Nat /\ Cardinality(Takers(w, p)') \in {n, n + 1}
      BY <3>1, TakersType, FS_AddElement
    <3>3. ~(acc[p] + n >= max[p])
      BY <3>1 DEF Full, Accepted
    <3>4. Accepted(w, p)' = acc[p] + Cardinality(Takers(w, p)')
      BY <2>1 DEF Accepted
    <3> HIDE DEF n
    <3> QED
      BY <2>1, <3>2, <3>3, <3>4
  <2> QED
    BY <2>2, <2>3
<1>10. AbsorbOf(w)'
  BY <1>1, <1>3, <1>4, <1>5, <1>7, <1>8, <1>9 DEF RequestInv, AbsorbOf, k, l
<1> QED
  BY <1>1, <1>3, <1>4, <1>10, AbsorbGoesOn DEF k, l

(* The steps of an edit of the limits.                                     *)
LEMMA SyncGoesOn ==
    ASSUME Inv, NEW w \in Workers, UNCHANGED tables, loc[w].op = "sync",
           loc'[w].op = "sync", loc'[w].pc \in {"limits", "marks"}, SyncOf(w)',
           \A o \in Options : HeldRow(w, o)' => HeldRow(w, o) \/ max[o] > 0
    PROVE  OwnPart(w)
<1>1. PhaseOf(w)' /\ RespondentOf(w)' /\ AbsorbOf(w)' /\ SaveOf(w)'
  BY DEF PhaseOf, Phases, RespondentOf, AbsorbOf, SaveOf
<1>2. \A o \in Options : HeldRow(w, o)' => max'[o] > 0
  BY DEF Inv, LockInv, tables
<1> QED
  BY <1>1, <1>2 DEF OwnPart, RequestInv

LEMMA SyncLimitOwn ==
    ASSUME Inv, NEW w \in Workers, NEW o \in Options, SyncLimit(w, o)
    PROVE  OwnPart(w)
<1> USE DEF Inv
<1> DEFINE k == loc[w]
<1> DEFINE l == loc'[w]
<1>1. /\ l = [k EXCEPT !.todo = @ \ {o}, !.locks = @ \cup {<<"option", o>>}]
      /\ k \in Local /\ RequestInv(w) /\ k.pc = "limits" /\ o \in k.todo /\ UNCHANGED tables
  BY DEF SyncLimit, TypeInv, At
<1> HIDE DEF k, l
<1>2. /\ l.pc = k.pc /\ l.op = k.op /\ l.queue = k.queue /\ l.take = k.take /\ l.marked = k.marked
      /\ l.todo = k.todo \ {o} /\ l.chosen = k.chosen /\ l.new = k.new
      /\ l.locks = k.locks \cup {<<"option", o>>}
  BY <1>1 DEF Local
<1>3. /\ \A r \in Respondents : Held(w, r)' <=> Held(w, r)
      /\ \A p \in Options : HeldRow(w, p)' <=> HeldRow(w, p) \/ p = o
  BY <1>2 DEF Held, HeldRow, k, l
<1>4. k.op = "sync" /\ SyncOf(w)
  BY <1>1 DEF RequestInv, PhaseOf, Phases, k
<1>5. k.marked \subseteq Respondents /\ Limited \subseteq Options /\ Limited' = Limited
  BY <1>1 DEF Local, Limited, tables
<1>6. SyncOf(w)'
  BY <1>1, <1>2, <1>3, <1>4, <1>5 DEF SyncOf, tables, k, l
<1>7. max[o] > 0
  BY <1>1, <1>4 DEF SyncOf, k
<1> QED
  BY <1>1, <1>2, <1>3, <1>4, <1>6, <1>7, SyncGoesOn DEF k, l

LEMMA SyncCountOwn ==
    ASSUME Inv, NEW w \in Workers, NEW o \in Options, SyncCount(w, o)
    PROVE  OwnPart(w)
<1> USE DEF Inv
<1> DEFINE k == loc[w]
<1> DEFINE l == loc'[w]
<1>1. /\ l = [k EXCEPT !.pc = "marks", !.chosen = @ \ {o}, !.queue = Holders(o),
                       !.take = @ \cup (Holders(o) \X {o})]
      /\ \/ k.pc = "limits" /\ k.todo = {}
         \/ k.pc = "marks" /\ k.queue = {}
      /\ o \in k.chosen /\ k \in Local /\ RequestInv(w) /\ UNCHANGED tables
  BY DEF SyncCount, SyncHandled, TypeInv, At
<1> HIDE DEF k, l
<1>2. /\ l.pc = "marks" /\ l.op = k.op /\ l.queue = Holders(o) /\ l.marked = k.marked
      /\ l.todo = k.todo /\ l.chosen = k.chosen \ {o} /\ l.new = k.new /\ l.locks = k.locks
      /\ l.take = k.take \cup (Holders(o) \X {o})
  BY <1>1 DEF Local
<1>3. /\ \A r \in Respondents : Held(w, r)' <=> Held(w, r)
      /\ \A p \in Options : HeldRow(w, p)' <=> HeldRow(w, p)
  BY <1>2 DEF Held, HeldRow, k, l
<1>4. k.op = "sync" /\ SyncOf(w)
  BY <1>1 DEF RequestInv, PhaseOf, Phases, k
<1>5. /\ k.marked \subseteq Respondents /\ Limited \subseteq Options /\ Limited' = Limited
      /\ max' = max /\ resp' = resp
  BY <1>1 DEF Local, Limited, tables
<1>6. k.todo = {} /\ k.queue = {}
  BY <1>1, <1>4 DEF SyncOf, k
<1>7. ASSUME NEW r \in Respondents, NEW p \in Options, <<r, p>> \in l.take
      PROVE  /\ max'[p] = 0 /\ l.new[p] > 0
             /\ resp'[r].live => r \in l.marked \cup l.queue
  <2>1. CASE <<r, p>> \in k.take
    BY <1>2, <1>4, <1>5, <1>6, <2>1 DEF SyncOf, k
  <2>2. CASE r \in Holders(o) /\ p = o
    BY <1>1, <1>2, <1>4, <1>5, <2>2 DEF SyncOf, k
  <2> QED
    BY <1>2, <1>7, <2>1, <2>2
<1>8. SyncOf(w)'
  BY <1>2, <1>3, <1>4, <1>5, <1>6, <1>7 DEF SyncOf, k, l
<1> QED
  BY <1>1, <1>2, <1>3, <1>4, <1>8, SyncGoesOn DEF k, l

LEMMA SyncMarkOwn ==
    ASSUME Inv, NEW w \in Workers, NEW r \in Respondents, SyncMark(w, r)
    PROVE  OwnPart(w)
<1> USE DEF Inv
<1> DEFINE k == loc[w]
<1> DEFINE l == loc'[w]
<1>1. /\ l = [k EXCEPT !.queue = @ \ {r}, !.marked = @ \cup MarksHolder(r),
                       !.locks = @ \cup {<<"response", x>> : x \in MarksHolder(r)}]
      /\ k \in Local /\ RequestInv(w) /\ k.pc = "marks" /\ r \in k.queue /\ UNCHANGED tables
  BY DEF SyncMark, TypeInv, At, First
<1> HIDE DEF k, l
<1>2. /\ l.pc = k.pc /\ l.op = k.op /\ l.queue = k.queue \ {r} /\ l.take = k.take
      /\ l.marked = k.marked \cup MarksHolder(r)
      /\ l.todo = k.todo /\ l.chosen = k.chosen /\ l.new = k.new
      /\ l.locks = k.locks \cup {<<"response", x>> : x \in MarksHolder(r)}
  BY <1>1 DEF Local
<1>3. /\ \A q \in Respondents : Held(w, q)' <=> Held(w, q) \/ q \in MarksHolder(r)
      /\ \A p \in Options : HeldRow(w, p)' <=> HeldRow(w, p)
  BY <1>2 DEF Held, HeldRow, k, l
<1>4. k.op = "sync" /\ SyncOf(w)
  BY <1>1 DEF RequestInv, PhaseOf, Phases, k
<1>5. /\ k.marked \subseteq Respondents /\ Limited \subseteq Options /\ Limited' = Limited
      /\ max' = max /\ resp' = resp /\ MarksHolder(r) \subseteq Respondents
  BY <1>1 DEF Local, Limited, tables, MarksHolder
<1>6. \A q \in Respondents : resp[q].live /\ q \in k.marked \cup k.queue => q \in l.marked \cup l.queue
  BY <1>2 DEF MarksHolder
<1>7. SyncOf(w)'
  BY <1>1, <1>2, <1>3, <1>4, <1>5, <1>6 DEF SyncOf, k, l
<1> QED
  BY <1>1, <1>2, <1>3, <1>4, <1>7, SyncGoesOn DEF k, l

LEMMA GoesOwn ==
    ASSUME Inv, NEW w \in Workers, Goes(w)
    PROVE  OwnPart(w)
BY ContinueOwn, SaveOwn, AbsorbStartOwn, SyncStartOwn, LockRowOwn, AbsorbLockOwn, AbsorbNextOwn,
   AbsorbDecideOwn, SyncLimitOwn, SyncCountOwn, SyncMarkOwn DEF Goes

LEMMA IdleOwn ==
    ASSUME NEW w \in Workers, loc'[w] = Idle
    PROVE  OwnPart(w)
BY DEF OwnPart, RequestInv, PhaseOf, Phases, RespondentOf, AbsorbOf, SyncOf, SaveOf, HeldRow, Idle

(* With its own part and the tables in order, a step of v keeps Inv.       *)
LEMMA StepOf ==
    ASSUME Inv, NEW v \in Workers, FrameBy(v), OwnPart(v), TypeInv', RowInv', SeatsAreHeld'
    PROVE  Inv'
<1>1. LockInv'
  BY LockStep DEF OwnPart
<1>2. ASSUME NEW w \in Workers PROVE RequestInv(w)'
  BY OthersKeep DEF OwnPart, Inv, OneSync
<1>3. OneSync'
  BY DEF Inv, OneSync, OwnPart, FrameBy
<1> QED
  BY <1>1, <1>2, <1>3 DEF Inv

-----------------------------------------------------------------------------
(* What a commit writes.                                                   *)

LEMMA ContinueCommits ==
    ASSUME Inv, NEW w \in Workers, NEW r \in Respondents, ContinueReserve(w, r)
    PROVE  RowInv' /\ SeatsAreHeld'
<1> USE DEF Inv, TypeInv
<1>1. Intact(r) /\ max' = max
  BY DEF ContinueReserve, Selected, At, RequestInv, RespondentOf
<1>2. \A o \in RowsOf(w) : o \in Options /\ max[o] > 0
  BY DEF RowsOf, LockInv, HeldRow, Local
<1>3. \A o \in Options : r \notin counted[o]
  BY <1>1 DEF Intact, SeatsAreHeld
<1>4. RowInv'
  BY <1>1, <1>2, MaxType DEF ContinueReserve, RowInv
<1>5. ASSUME NEW o \in Options PROVE acc'[o] = Cardinality(counted'[o])
  <2>1. IsFiniteSet(counted[o]) /\ acc[o] = Cardinality(counted[o])
    BY FiniteRespondents, FS_Subset DEF SeatsAreHeld
  <2>2. Cardinality(counted[o] \cup {r}) = acc[o] + 1
    BY <1>3, <2>1, FS_AddElement
  <2> QED
    BY <2>1, <2>2 DEF ContinueReserve
<1>6. ASSUME NEW o \in Options, NEW q \in counted'[o], resp'[q].live PROVE resp'[q].reserved
  <2>1. q \in Respondents /\ (q # r => q \in counted[o])
    BY <1>6 DEF ContinueReserve
  <2> QED
    BY <1>6, <2>1 DEF ContinueReserve, SeatsAreHeld, Response
<1> QED
  BY <1>4, <1>5, <1>6 DEF SeatsAreHeld

(* The seats that a commit takes go to respondents who had none.           *)
LEMMA SeatsAdded ==
    ASSUME TypeInv, NEW w \in Workers, NEW o \in Options, acc[o] = Cardinality(counted[o]),
           counted[o] \cap Takers(w, o) = {}
    PROVE  Accepted(w, o) = Cardinality(counted[o] \cup Takers(w, o))
<1>1. IsFiniteSet(counted[o]) /\ Cardinality(counted[o]) \in Nat
  BY FiniteRespondents, FS_Subset, FS_CardinalityType DEF TypeInv
<1>2. Cardinality(counted[o] \cup Takers(w, o))
        = Cardinality(counted[o]) + Cardinality(Takers(w, o)) - Cardinality({})
  BY <1>1, TakersType, FS_Union
<1> QED
  BY <1>1, <1>2, TakersType, FS_EmptySet DEF Accepted

LEMMA AbsorbCommits ==
    ASSUME Inv, NEW w \in Workers, AbsorbCommit(w)
    PROVE  RowInv' /\ SeatsAreHeld'
<1> USE DEF Inv
<1>1. loc[w].op = "absorb" /\ AbsorbOf(w) /\ max' = max
  BY DEF AbsorbCommit, At, RequestInv, PhaseOf, Phases
<1>2. \A r \in Respondents, o \in Options :
        r \in Takers(w, o) => Intact(r) /\ r \in loc[w].marked /\ max[o] > 0
  BY <1>1 DEF AbsorbOf, Takers, LockInv
<1>3. RowInv'
  <2> SUFFICES ASSUME NEW o \in Options, max[o] = 0
               PROVE  acc'[o] = 0 /\ counted'[o] = {}
    BY <1>1 DEF RowInv
  <2>1. Takers(w, o) = {}
    BY <1>2, TakersType
  <2>2. Accepted(w, o) = 0
    BY <2>1, FS_EmptySet DEF Accepted, RowInv
  <2> QED
    BY <2>1, <2>2 DEF AbsorbCommit, RowInv
<1>4. ASSUME NEW o \in Options PROVE acc'[o] = Cardinality(counted'[o])
  <2>1. counted[o] \cap Takers(w, o) = {}
    BY <1>2, TakersType DEF Intact, SeatsAreHeld
  <2> QED
    BY <2>1, SeatsAdded DEF SeatsAreHeld, AbsorbCommit
<1>5. ASSUME NEW o \in Options, NEW r \in counted'[o], resp'[r].live PROVE resp'[r].reserved
  <2>1. r \in Respondents /\ (r \in counted[o] \/ r \in loc[w].marked)
    BY <1>2, TakersType DEF AbsorbCommit, TypeInv
  <2> QED
    BY <1>5, <2>1 DEF AbsorbCommit, SeatsAreHeld, MarkReserved, TypeInv, Response
<1> QED
  BY <1>3, <1>4, <1>5 DEF SeatsAreHeld

LEMMA SyncCommits ==
    ASSUME Inv, NEW w \in Workers, SyncCommit(w)
    PROVE  RowInv' /\ SeatsAreHeld'
<1> USE DEF Inv
<1>1. loc[w].op = "sync" /\ SyncOf(w) /\ max' = loc[w].new
  BY DEF SyncCommit, SyncHandled, At, RequestInv, PhaseOf, Phases
<1>2. loc[w].queue = {}
  BY <1>1 DEF SyncCommit, SyncHandled, At, SyncOf
<1>3. \A r \in Respondents, o \in Options : r \in Takers(w, o) =>
        max[o] = 0 /\ (resp[r].live => r \in loc[w].marked)
  BY <1>1, <1>2 DEF SyncOf, Takers
<1>4. RowInv'
  BY <1>1 DEF SyncCommit, RowInv
<1>5. ASSUME NEW o \in Options PROVE acc'[o] = Cardinality(counted'[o])
  <2>1. counted[o] \cap Takers(w, o) = {}
    BY <1>3, TakersType DEF RowInv
  <2>2. Accepted(w, o) = Cardinality(counted[o] \cup Takers(w, o))
    BY <2>1, SeatsAdded DEF SeatsAreHeld
  <2> QED
    BY <2>2, FS_EmptySet DEF SyncCommit
<1>6. ASSUME NEW o \in Options, NEW r \in counted'[o], resp'[r].live PROVE resp'[r].reserved
  <2>1. r \in Respondents /\ (r \in counted[o] \/ r \in Takers(w, o))
    BY TakersType DEF SyncCommit, TypeInv
  <2>2. resp[r].live
    BY <1>6, <2>1 DEF SyncCommit, MarkReserved, TypeInv, Response
  <2>3. resp[r].reserved \/ r \in loc[w].marked
    BY <1>3, <2>1, <2>2 DEF SeatsAreHeld
  <2> QED
    BY <2>1, <2>3 DEF SyncCommit, MarkReserved, TypeInv, Response
<1> QED
  BY <1>4, <1>5, <1>6 DEF SeatsAreHeld

LEMMA Commits ==
    ASSUME Inv, NEW w \in Workers, Ends(w)
    PROVE  RowInv' /\ SeatsAreHeld'
<1> USE DEF Inv, TypeInv
<1>1. ASSUME max' = max, acc' = acc, counted' = counted,
             \A r \in Respondents : resp'[r].live =>
                 resp[r].live /\ resp'[r].reserved = resp[r].reserved
      PROVE  RowInv' /\ SeatsAreHeld'
  BY <1>1 DEF RowInv, SeatsAreHeld
<1>2. ASSUME NEW r \in Respondents, SaveCommit(w, r) \/ ContinueReject(w, r)
      PROVE  RowInv' /\ SeatsAreHeld'
  BY <1>1, <1>2 DEF SaveCommit, ContinueReject, Response
<1>3. CASE Fail(w)
  BY <1>1, <1>3 DEF Fail, tables
<1> QED
  BY <1>2, <1>3, ContinueCommits, AbsorbCommits, SyncCommits DEF Ends

-----------------------------------------------------------------------------
LEMMA Initially == Init => Inv
<1> SUFFICES ASSUME Init PROVE Inv
  OBVIOUS
<1>1. TypeInv
  BY IdleType DEF Init, TypeInv, Response
<1>2. \A w \in Workers : loc[w] = Idle
  BY DEF Init
<1>3. \A w \in Workers : RequestInv(w)
  BY <1>2 DEF RequestInv, PhaseOf, Phases, RespondentOf, AbsorbOf, SyncOf, SaveOf, Idle
<1>4. LockInv /\ OneSync
  BY <1>2 DEF LockInv, OneSync, HeldRow, Idle
<1>5. RowInv /\ SeatsAreHeld
  BY FS_EmptySet DEF Init, RowInv, SeatsAreHeld
<1> QED
  BY <1>1, <1>3, <1>4, <1>5 DEF Inv

LEMMA Step == Inv /\ [Next]_vars => Inv'
<1> SUFFICES ASSUME Inv, [Next]_vars PROVE Inv'
  OBVIOUS
<1>1. TypeInv'
  BY TypeStep
<1>2. ASSUME NEW w \in Workers, Goes(w) PROVE Inv'
  <2>1. FrameBy(w) /\ UNCHANGED tables /\ OwnPart(w)
    BY <1>2, GoesFrame, GoesOwn
  <2>2. RowInv' /\ SeatsAreHeld'
    BY <2>1 DEF Inv, RowInv, SeatsAreHeld, tables
  <2> QED
    BY <1>1, <2>1, <2>2, StepOf
<1>3. ASSUME NEW w \in Workers, Ends(w) PROVE Inv'
  BY <1>1, <1>3, EndsFrame, IdleOwn, Commits, StepOf
<1>4. ASSUME UNCHANGED <<max, acc, counted, loc>>,
             \A r \in Respondents : resp'[r].live = resp[r].live /\ resp'[r].reserved = resp[r].reserved
      PROVE  Inv'
  <2>1. LockInv' /\ OneSync'
    BY <1>4 DEF Inv, LockInv, OneSync, HeldRow
  <2>2. RowInv' /\ SeatsAreHeld'
    BY <1>4 DEF Inv, TypeInv, RowInv, SeatsAreHeld
  <2>3. ASSUME NEW w \in Workers PROVE RequestInv(w)'
    <3>1. RequestInv(w) /\ loc[w] \in Local
      BY DEF Inv, TypeInv
    <3>2. /\ \A o \in Options : Takers(w, o)' = Takers(w, o) /\ Accepted(w, o)' = Accepted(w, o)
          /\ \A r \in Respondents : (Held(w, r)' <=> Held(w, r)) /\ (Intact(r)' <=> Intact(r))
          /\ \A o \in Options : HeldRow(w, o)' <=> HeldRow(w, o)
          /\ Limited' = Limited
      BY <1>4 DEF Takers, Accepted, Held, HeldRow, Intact, Limited
    <3>3. PhaseOf(w)' /\ SaveOf(w)'
      BY <1>4, <3>1 DEF RequestInv, PhaseOf, SaveOf
    <3>4. RespondentOf(w)'
      BY <1>4, <3>1, <3>2 DEF RequestInv, RespondentOf, Local
    <3>5. AbsorbOf(w)'
      BY <1>4, <3>1, <3>2 DEF RequestInv, AbsorbOf, Local
    <3>6. SyncOf(w)'
      <4>1. SyncOf(w) /\ loc[w].marked \subseteq Respondents /\ Limited \subseteq Options
        BY <3>1 DEF RequestInv, Local, Limited
      <4>2. max' = max /\ loc'[w] = loc[w]
        BY <1>4
      <4> QED
        BY <1>4, <3>2, <4>1, <4>2 DEF SyncOf
    <3> QED
      BY <3>3, <3>4, <3>5, <3>6 DEF RequestInv
  <2> QED
    BY <1>1, <2>1, <2>2, <2>3 DEF Inv
<1>5. ASSUME NEW r \in Leaving, Abandon(r) PROVE Inv'
  BY <1>4, <1>5, QuotaAssumption DEF Abandon, Inv, TypeInv, Response
<1>6. CASE UNCHANGED vars
  BY <1>4, <1>6 DEF vars
<1> QED
  BY <1>2, <1>3, <1>5, <1>6 DEF Next

THEOREM Invariance == Spec => []Inv
BY Initially, Step, PTL DEF Spec

(* Every row, counter and request keeps its type; in particular            *)
(* accepted_count never exceeds the number of respondents.                 *)
THEOREM TypeCorrect == Spec => []TypeOK
<1>1. Inv => TypeOK
  <2> SUFFICES ASSUME Inv PROVE TypeOK
    OBVIOUS
  <2>1. ASSUME NEW o \in Options PROVE acc[o] \in 0..NumRespondents
    <3>1. acc[o] = Cardinality(counted[o]) /\ counted[o] \subseteq Respondents
      BY DEF Inv, TypeInv, SeatsAreHeld
    <3>2. acc[o] \in Nat /\ acc[o] <= NumRespondents
      BY <3>1, FiniteRespondents, FS_Subset DEF Inv, TypeInv
    <3> QED
      BY <3>2, QuotaAssumption
  <2> QED
    BY <2>1 DEF Inv, TypeInv, TypeOK
<1> QED
  BY <1>1, Invariance, PTL

(* accepted_count is the number of respondents accepted for the option,    *)
(* and each of them is marked quota_reserved, whatever Continues, saves,   *)
(* absorptions, edits and crashes there were.                              *)
THEOREM SeatsHeld == Spec => []SeatsAreHeld
BY Invariance, PTL DEF Inv

(* No request takes a seat beyond the limit of its option.                 *)
THEOREM NotOverfull == Spec => NeverOverfull
<1> DEFINE Within == \A o \in Limited : acc'[o] > acc[o] => acc'[o] <= max[o]
<1>1. Inv /\ [Next]_vars => Within
  <2> SUFFICES ASSUME Inv, [Next]_vars, NEW o \in Limited, acc'[o] > acc[o]
               PROVE  acc'[o] <= max[o]
    OBVIOUS
  <2> USE DEF Inv, TypeInv
  <2>1. o \in Options /\ max[o] > 0 /\ acc[o] \in Nat /\ max[o] \in Nat
    BY MaxType DEF Limited
  <2>2. ~(acc'[o] = acc[o] \/ acc'[o] = 0)
    BY <2>1
  <2>3. \A w \in Workers : Takers(w, o) = {} => Accepted(w, o) = acc[o]
    BY <2>1, FS_EmptySet DEF Accepted
  <2>4. ASSUME NEW w \in Workers, NEW r \in Respondents, ContinueReserve(w, r)
        PROVE  acc'[o] <= max[o]
    <3>1. Takers(w, o) = {}
      BY <2>4 DEF ContinueReserve, Selected, RequestInv, RespondentOf, Takers
    <3>2. o \in RowsOf(w) /\ acc'[o] = acc[o] + 1
      BY <2>1, <2>2, <2>4 DEF ContinueReserve
    <3>3. ~(Accepted(w, o) >= max[o])
      BY <2>4, <3>2 DEF ContinueReserve, Full
    <3> QED
      BY <2>1, <2>3, <3>1, <3>2, <3>3
  <2>5. ASSUME NEW w \in Workers, AbsorbCommit(w)
        PROVE  acc'[o] <= max[o]
    <3>1. loc[w].op = "absorb"
      BY <2>5 DEF AbsorbCommit, At, RequestInv, PhaseOf, Phases
    <3>2. acc'[o] = Accepted(w, o)
      BY <2>1, <2>5 DEF AbsorbCommit
    <3> QED
      BY <2>1, <2>2, <2>3, <3>1, <3>2 DEF RequestInv, AbsorbOf
  <2>6. ASSUME NEW w \in Workers, SyncCommit(w)
        PROVE  FALSE
    <3>1. loc[w].op = "sync"
      BY <2>6 DEF SyncCommit, SyncHandled, At, RequestInv, PhaseOf, Phases
    <3>2. Takers(w, o) = {}
      BY <2>1, <3>1 DEF RequestInv, SyncOf, Takers
    <3> QED
      BY <2>1, <2>2, <2>3, <2>6, <3>2 DEF SyncCommit
  <2>7. \/ \E w \in Workers, r \in Respondents : ContinueReserve(w, r)
        \/ \E w \in Workers : AbsorbCommit(w) \/ SyncCommit(w)
    <3>1. acc' # acc
      BY <2>2
    <3>2. ASSUME NEW w \in Workers, Goes(w) PROVE FALSE
      BY <3>1, <3>2, GoesFrame DEF tables
    <3> QED
      BY <3>1, <3>2 DEF Next, Ends, SaveCommit, ContinueReject, Fail, Abandon, tables, vars
  <2> QED
    BY <2>4, <2>5, <2>6, <2>7
<1>2. [Next]_vars /\ Inv => [Within]_vars
  BY <1>1
<1> QED
  BY <1>2, Invariance, PTL DEF Spec, NeverOverfull

(* The answer for which a respondent was accepted is replaced only by a    *)
(* request that began before the respondent was accepted.                  *)
THEOREM AnswersKept == Spec => SeatKeepsAnswer
<1> DEFINE Kept == \A o \in Limited : \A r \in counted[o] :
        o \in resp[r].saved /\ o \notin resp'[r].saved =>
            \E w \in Workers : r \in loc[w].queue /\ o \notin loc[w].seen /\ loc'[w] = Idle
<1>1. Inv /\ [Next]_vars => Kept
  <2> SUFFICES ASSUME Inv, [Next]_vars, NEW o \in Limited, NEW r \in counted[o],
                      o \in resp[r].saved, o \notin resp'[r].saved
               PROVE  \E w \in Workers : r \in loc[w].queue /\ o \notin loc[w].seen /\ loc'[w] = Idle
    OBVIOUS
  <2> USE DEF Inv, TypeInv
  <2>1. o \in Options /\ r \in Respondents
    BY DEF Limited
  <2>2. ASSUME NEW w \in Workers, SaveCommit(w, r)
        PROVE  r \in loc[w].queue /\ o \notin loc[w].seen /\ loc'[w] = Idle
    <3>1. o \notin Merge(resp[r].saved, loc[w].chosen)
      BY <2>1, <2>2 DEF SaveCommit, Response
    <3>2. \E p \in loc[w].chosen : Question[p] = Question[o]
      BY <3>1 DEF Merge
    <3>3. SaveOf(w) /\ loc[w].pc = "save"
      BY <2>2 DEF RequestInv, SaveCommit, At
    <3> QED
      BY <2>2, <3>2, <3>3 DEF SaveOf, SaveCommit, Finish
  <2>3. ASSUME NEW w \in Workers, NEW q \in Respondents, SaveCommit(w, q) \/ ContinueReject(w, q),
               q # r
        PROVE  FALSE
    BY <2>1, <2>3 DEF SaveCommit, ContinueReject
  <2>4. ASSUME NEW w \in Workers, NEW q \in Respondents, ContinueReserve(w, q)
        PROVE  FALSE
    <3>1. Intact(q)
      BY <2>4 DEF ContinueReserve, Selected, At, RequestInv, RespondentOf
    <3>2. q # r
      BY <2>1, <3>1 DEF Intact, SeatsAreHeld
    <3> QED
      BY <2>1, <2>4, <3>2 DEF ContinueReserve
  <2>5. \A R : MarkReserved(R)[r].saved = resp[r].saved
    BY <2>1 DEF MarkReserved, Response
  <2>6. ASSUME NEW w \in Workers, \/ AbsorbCommit(w) \/ SyncCommit(w) \/ Fail(w)
                                  \/ ContinueReject(w, r)
        PROVE  FALSE
    BY <2>1, <2>5, <2>6 DEF AbsorbCommit, SyncCommit, Fail, ContinueReject, tables, Response
  <2>7. ASSUME NEW w \in Workers, Goes(w) PROVE FALSE
    BY <2>7, GoesFrame DEF tables
  <2>8. ASSUME NEW q \in Leaving, Abandon(q) PROVE FALSE
    BY <2>1, <2>8, QuotaAssumption DEF Abandon, Response
  <2>9. resp' # resp
    OBVIOUS
  <2> QED
    BY <2>2, <2>3, <2>4, <2>6, <2>7, <2>8, <2>9 DEF Next, Ends, vars
<1>2. [Next]_vars /\ Inv => [Kept]_vars
  BY <1>1
<1> QED
  BY <1>2, Invariance, PTL DEF Spec, SeatKeepsAnswer

-----------------------------------------------------------------------------
LEMMA MaxExists ==
    ASSUME NEW S, S \subseteq Options, S # {}
    PROVE  \E x \in S : \A y \in S : y <= x
<1> DEFINE Up(x) == {y \in S : x <= y}
<1> DEFINE T == {Up(x) : x \in S}
<1>1. IsFiniteSet(S)
  <2>1. IsFiniteSet(Options)
    BY FS_Interval, QuotaAssumption, 1 \in Int DEF Options
  <2> QED
    BY <2>1, FS_Subset
<1>2. T \subseteq FiniteSubsetsOf(S)
  <2>1. ASSUME NEW x \in S PROVE Up(x) \subseteq S /\ IsFiniteSet(Up(x))
    BY <1>1, FS_Subset
  <2> QED
    BY <2>1 DEF FiniteSubsetsOf
<1>3. \A U, V \in T : V \subseteq U /\ V # U => <<V, U>> \in StrictSubsetOrdering(S)
  BY DEF StrictSubsetOrdering
<1>4. \E U \in T : \A V \in T : ~(<<V, U>> \in StrictSubsetOrdering(S))
  <2>1. T # {}
    OBVIOUS
  <2> HIDE DEF T
  <2>2. IsWellFoundedOn(StrictSubsetOrdering(S), FiniteSubsetsOf(S))
    BY <1>1, FS_StrictSubsetOrderingWellFounded
  <2> QED
    BY <1>2, <2>1, <2>2, WFMin, Zenon
<1>5. PICK x \in S : \A V \in T : ~(V \subseteq Up(x) /\ V # Up(x))
  BY <1>3, <1>4
<1>6. ASSUME NEW y \in S, ~(y <= x) PROVE FALSE
  <2>1. x \in Int /\ y \in Int /\ S \subseteq Int
    BY QuotaAssumption DEF Options
  <2>2. ASSUME NEW z \in Up(y) PROVE z \in Up(x)
    BY <1>6, <2>1, <2>2
  <2>3. x \in Up(x) /\ x \notin Up(y)
    BY <1>6, <2>1
  <2>4. Up(y) \in T
    OBVIOUS
  <2> QED
    BY <1>5, <2>2, <2>3, <2>4
<1> QED
  BY <1>6

(* Continues and saves alone never wait for one another in a circle:       *)
(* every lock beyond the own response is on an option, and the options are *)
(* locked in one order.                                                    *)
THEOREM NoDeadlockOfContinues == Spec => []ContinuesDoNotDeadlock
<1>1. Inv => ContinuesDoNotDeadlock
  <2> SUFFICES ASSUME Inv, NEW C \in SUBSET Workers, Deadlocked(C),
                      \A w \in C : loc[w].op \notin {"absorb", "sync"}
               PROVE  FALSE
    BY DEF ContinuesDoNotDeadlock
  <2> USE DEF Inv, TypeInv
  <2> DEFINE D == {w \in C : loc[w].op = "continue" /\ At(w, "rows")}
  <2> DEFINE S == {o \in Options : \E w \in D : NextRow(w, o)}
  <2>1. ASSUME NEW w \in C, NEW v \in C, Waits(v, w) PROVE w \in D
    <3>1. loc[w].op = "continue"
      BY <2>1 DEF Waits, RequestInv, PhaseOf, Phases, RespondentOf, Idle
    <3>2. PICK u \in C : Waits(w, u)
      BY DEF Deadlocked
    <3>3. CASE At(w, "save")
      <4>1. Wanted(w) = {"response"} \X loc[w].queue
        BY <3>3 DEF Wanted, At, SyncHandled
      <4>2. Wanted(w) \subseteq loc[w].locks
        BY <3>1, <4>1 DEF RequestInv, RespondentOf, Held, Local
      <4> QED
        BY <3>2, <4>2 DEF Waits, LockInv
    <3> QED
      BY <3>1, <3>3 DEF RequestInv, PhaseOf, Phases, At
  <2>2. D # {}
    BY <2>1 DEF Deadlocked
  <2>3. ASSUME NEW w \in D
        PROVE  \E u \in D, o \in Options : NextRow(w, o) /\ HeldRow(u, o)
    <3>1. PICK u \in C : Waits(w, u)
      BY DEF Deadlocked
    <3>2. Wanted(w) = {"option"} \X {o \in Options : NextRow(w, o)}
      BY DEF Wanted, At, SyncHandled
    <3>3. u \in D
      BY <2>1, <3>1
    <3>4. PICK x \in {"option"} \X {o \in Options : NextRow(w, o)} : x \in loc[u].locks
      BY <3>1, <3>2 DEF Waits
    <3>5. PICK o \in Options : NextRow(w, o) /\ x = <<"option", o>>
      BY <3>4
    <3> QED
      BY <3>3, <3>4, <3>5 DEF HeldRow
  <2>4. S # {} /\ S \subseteq Options
    BY <2>2, <2>3
  <2>5. PICK o \in S : \A p \in S : p <= o
    BY <2>4, MaxExists
  <2>6. PICK w \in D : NextRow(w, o)
    OBVIOUS
  <2>7. PICK u \in D, q \in Options : NextRow(w, q) /\ HeldRow(u, q)
    BY <2>3
  <2>8. q = o
    BY <2>6, <2>7, QuotaAssumption DEF NextRow, First, Options
  <2>9. PICK p \in Options : NextRow(u, p)
    BY <2>3
  <2>10. o < p
    BY <2>7, <2>8, <2>9 DEF RequestInv, RespondentOf, NextRow, First, At
  <2>11. p <= o
    BY <2>5, <2>9
  <2> QED
    BY <2>10, <2>11, QuotaAssumption DEF Options
<1> QED
  BY <1>1, Invariance, PTL
=============================================================================
