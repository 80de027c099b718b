---------------------------- MODULE ScreeningQuota ----------------------------
(***************************************************************************)
(* The seats of limited screening options (app/services/screening_quota.py *)
(* and submit_classification in app/services/response.py).  One row of     *)
(* screening_option_quotas counts the respondents accepted for an option.  *)
(*   "continue"  submit_classification with enforce_quota: locks the       *)
(*               response, then the rows of the selected options, and      *)
(*               takes a seat on each or removes the response              *)
(*   "save"      submit_classification without it                          *)
(*   "absorb"    remaining_screening_seats, before a simulation: counts    *)
(*               synthetic responses that have no seat yet                 *)
(*   "sync"      sync_screening_quotas, when the owner edits the questions *)
(* Each is a transaction of one worker under READ COMMITTED, and each of   *)
(* its locking statements is a step.  The respondent number that a removal *)
(* puts back is RespondentSlots' subject.                                  *)
(***************************************************************************)
EXTENDS Integers, FiniteSets

CONSTANTS NumRespondents,  \* 1..NumRespondents, in the order of the response ids
          Synthetic,       \* those whose session id is synthetic_...
          NumOptions,      \* 1..NumOptions, in (question_id, option_id) order
          Question,        \* the question of an option
          Limits,          \* Limits[o]: the values of max_respondents the owner may set for o
          Answers,         \* the sets of options that respondents select
          Workers,
          Operations,      \* the operations in use
          Leaving          \* bound: the respondents that may be abandoned

Respondents == 1..NumRespondents
Options == 1..NumOptions

ASSUME QuotaAssumption ==
    /\ NumRespondents \in Nat /\ NumOptions \in Nat
    /\ Synthetic \subseteq Respondents
    /\ DOMAIN Question = Options
    /\ Limits \in [Options -> SUBSET (Nat \ {0})]
    /\ \A C \in Answers : \A o, p \in C : o \in Options /\ (Question[o] = Question[p] => o = p)
    /\ Operations \subseteq {"continue", "save", "absorb", "sync"}
    /\ Leaving \subseteq Respondents

VARIABLES
    max,      \* max[o]: max_respondents of the row of option o, 0 = no row
    acc,      \* acc[o]: its accepted_count
    counted,  \* history: the respondents that accepted_count stands for
    resp,     \* resp[r]: the committed response row
    loc       \* loc[w]: what worker w is doing

vars == <<max, acc, counted, resp, loc>>
tables == <<max, acc, counted, resp>>

Response == [live: BOOLEAN, gone: BOOLEAN, reserved: BOOLEAN, saved: SUBSET Options]
NewLimits == {new \in [Options -> {0} \cup UNION {Limits[o] : o \in Options}] :
                  \A o \in Options : new[o] \in Limits[o] \cup {0}}
Rows == ({"response"} \X Respondents) \cup ({"option"} \X Options)
Idle == [pc |-> "idle", op |-> "none", queue |-> {}, chosen |-> {}, todo |-> {},
         locks |-> {}, take |-> {}, marked |-> {}, seen |-> {}, new |-> [o \in Options |-> 0]]
Local == [pc: {"idle", "rows", "save", "responses", "next", "limits", "marks"},
          op: {"none", "continue", "save", "absorb", "sync"},
          queue: SUBSET Respondents,   \* responses still to be handled
          chosen: SUBSET Options,      \* selected options
          todo: SUBSET Options,        \* rows still to be locked
          locks: SUBSET Rows,
          take: SUBSET (Respondents \X Options),  \* seats taken, uncommitted
          marked: SUBSET Respondents,  \* to be marked quota_reserved by the commit
          seen: SUBSET Options,        \* history: seats of the respondent when the request began
          new: NewLimits]              \* limits saved on the options by a sync

TypeOK ==
    /\ max \in NewLimits
    /\ acc \in [Options -> 0..NumRespondents]
    /\ counted \in [Options -> SUBSET Respondents]
    /\ resp \in [Respondents -> Response]
    /\ loc \in [Workers -> Local]

\* The responses have started, and the study may have limits already.
Init ==
    /\ max \in NewLimits
    /\ acc = [o \in Options |-> 0]
    /\ counted = [o \in Options |-> {}]
    /\ resp = [r \in Respondents |-> [live |-> TRUE, gone |-> FALSE, reserved |-> FALSE,
                                      saved |-> {}]]
    /\ loc = [w \in Workers |-> Idle]

-----------------------------------------------------------------------------
At(w, pc) == loc[w].pc = pc
Go(w, local) == loc' = [loc EXCEPT ![w] = local]
Finish(w) == loc' = [loc EXCEPT ![w] = Idle]

LockedByOther(w, x) == \E v \in Workers \ {w} : x \in loc[v].locks

Free(w, x) == ~LockedByOther(w, x)

Limited == {o \in Options : max[o] > 0}

\* The mutation of a Continue that does not look at quota_reserved.
NeverReserved(r) == FALSE
AlreadyReserved(r) == resp[r].reserved

Seats(r) == {o \in Options : r \in counted[o]}

\* The mutation of a Continue that saves every answer again.
FreezesNothing(C) == C

\* quota_question_ids: a reserved response keeps its answers to limited questions.
Unfrozen(C) == {o \in C : \A p \in Limited : Question[p] # Question[o]}

\* Saved answers are replaced question by question.
Merge(old, new) == {o \in old : \A p \in new : Question[p] # Question[o]} \cup new

First(x, S) == x \in S /\ \A y \in S : x <= y

\* The mutation that locks the rows in the order in which the answers came.
AnswerOrder(w, o) == IF loc[w].queue = {1} THEN First(o, loc[w].todo)
                     ELSE o \in loc[w].todo /\ \A p \in loc[w].todo : p <= o

\* ORDER BY question_id, option_id
NextRow(w, o) == First(o, loc[w].todo)

-----------------------------------------------------------------------------
(* submit_classification                                                   *)

\* With enforce_quota the response is locked.  A response that is reserved, or
\* a study without limits, goes straight to saving.
ContinueLock(w, r, C) ==
    /\ At(w, "idle")
    /\ resp[r].live
    /\ Free(w, <<"response", r>>)
    /\ LET start == [Idle EXCEPT !.op = "continue", !.queue = {r}, !.seen = Seats(r),
                                 !.locks = {<<"response", r>>}]
       IN  \/ /\ AlreadyReserved(r)
              /\ Go(w, [start EXCEPT !.pc = "save", !.chosen = Unfrozen(C)])
           \/ /\ ~AlreadyReserved(r) /\ Limited = {}
              /\ Go(w, [start EXCEPT !.pc = "save", !.chosen = C])
           \/ /\ ~AlreadyReserved(r) /\ Limited # {}
              /\ Go(w, [start EXCEPT !.pc = "rows", !.chosen = C, !.todo = C \cap Limited])
    /\ UNCHANGED tables

\* Without enforce_quota it is only read.  (Without answers nothing is saved.)
SaveRead(w, r, C) ==
    /\ At(w, "idle")
    /\ C # {}
    /\ resp[r].live
    /\ Go(w, [Idle EXCEPT !.pc = "save", !.op = "save", !.queue = {r}, !.seen = Seats(r),
                          !.chosen = IF resp[r].reserved THEN Unfrozen(C) ELSE C])
    /\ UNCHANGED tables

\* The flush of last_activity needs the row; if the row is gone it fails (500).
SaveCommit(w, r) ==
    /\ At(w, "save") /\ r \in loc[w].queue
    /\ Free(w, <<"response", r>>)
    /\ resp' = [resp EXCEPT ![r].saved = IF resp[r].live THEN Merge(@, loc[w].chosen) ELSE @]
    /\ Finish(w)
    /\ UNCHANGED <<max, acc, counted>>

-----------------------------------------------------------------------------
(* reserve_screening_quotas                                                *)

\* SELECT ... ORDER BY ... FOR UPDATE; a row that was deleted while it waited
\* is not returned.
LockRow(w, o) ==
    /\ At(w, "rows") /\ NextRow(w, o)
    /\ Free(w, <<"option", o>>)
    /\ loc' = [loc EXCEPT ![w].todo = @ \ {o},
                          ![w].locks = @ \cup {<<"option", p>> : p \in {o} \cap Limited}]
    /\ UNCHANGED tables

Selected(w, op) == At(w, "rows") /\ loc[w].todo = {} /\ loc[w].op = op
RowsOf(w) == {o \in loc[w].chosen : <<"option", o>> \in loc[w].locks}

\* accepted_count with the seats that w has taken itself.
Takers(w, o) == {r \in Respondents : <<r, o>> \in loc[w].take}
Accepted(w, o) == acc[o] + Cardinality(Takers(w, o))

\* The mutation accepted_count > max_respondents.
FullOneLater(w) == \E o \in RowsOf(w) : Accepted(w, o) > max[o]

Full(w) == \E o \in RowsOf(w) : Accepted(w, o) >= max[o]

MarkReserved(R) == [r \in Respondents |->
                      IF r \in R THEN [resp[r] EXCEPT !.reserved = TRUE] ELSE resp[r]]

\* A seat on each row, the mark, and the answers.
ContinueReserve(w, r) ==
    /\ Selected(w, "continue") /\ r \in loc[w].queue
    /\ ~Full(w)
    /\ acc' = [o \in Options |-> IF o \in RowsOf(w) THEN acc[o] + 1 ELSE acc[o]]
    /\ counted' = [o \in Options |-> IF o \in RowsOf(w) THEN counted[o] \cup {r} ELSE counted[o]]
    /\ resp' = [resp EXCEPT ![r].reserved = TRUE, ![r].saved = Merge(@, loc[w].chosen)]
    /\ Finish(w)
    /\ UNCHANGED max

\* A full option: the response is removed.
ContinueReject(w, r) ==
    /\ Selected(w, "continue") /\ r \in loc[w].queue
    /\ Full(w)
    /\ resp' = [resp EXCEPT ![r].live = FALSE]
    /\ Finish(w)
    /\ UNCHANGED <<max, acc, counted>>

-----------------------------------------------------------------------------
(* absorb_unreserved_synthetic_holders                                     *)

Absorbable(r) == r \in Synthetic /\ resp[r].live /\ ~resp[r].reserved /\ ~resp[r].gone

AbsorbStart(w) ==
    /\ At(w, "idle")
    /\ Limited # {}
    /\ Go(w, [Idle EXCEPT !.pc = "responses", !.op = "absorb",
                          !.queue = {r \in Respondents : Absorbable(r)}])
    /\ UNCHANGED tables

ToLock(w) == {r \in loc[w].queue : <<"response", r>> \notin loc[w].locks}

\* SELECT ... ORDER BY id FOR UPDATE; the condition is evaluated again when the
\* lock is granted.
AbsorbLockResponse(w, r) ==
    /\ At(w, "responses") /\ First(r, ToLock(w))
    /\ Free(w, <<"response", r>>)
    /\ loc' = IF Absorbable(r) THEN [loc EXCEPT ![w].locks = @ \cup {<<"response", r>>}]
                               ELSE [loc EXCEPT ![w].queue = @ \ {r}]
    /\ UNCHANGED tables

\* The next response: nothing to do without answers, or when the limits are gone.
AbsorbNext(w, r) ==
    /\ \/ At(w, "responses") /\ ToLock(w) = {}
       \/ At(w, "next")
    /\ First(r, loc[w].queue)
    /\ loc' = IF resp[r].saved = {} \/ Limited = {}
              THEN [loc EXCEPT ![w].pc = "next", ![w].queue = @ \ {r}]
              ELSE [loc EXCEPT ![w].pc = "rows", ![w].chosen = resp[r].saved,
                               ![w].todo = resp[r].saved \cap Limited]
    /\ UNCHANGED tables

\* Seats are taken in memory, on the rows that stay locked until the commit.  A
\* response that meets a full option stays saved and takes none.
AbsorbDecide(w, r) ==
    /\ Selected(w, "absorb") /\ First(r, loc[w].queue)
    /\ loc' = [loc EXCEPT ![w].pc = "next", ![w].queue = @ \ {r}, ![w].chosen = {},
                          ![w].take = IF Full(w) THEN @ ELSE @ \cup ({r} \X RowsOf(w)),
                          ![w].marked = IF Full(w) THEN @ ELSE @ \cup {r}]
    /\ UNCHANGED tables

AbsorbCommit(w) ==
    /\ At(w, "responses") \/ At(w, "next")
    /\ loc[w].queue = {}
    /\ acc' = [o \in Options |-> Accepted(w, o)]
    /\ counted' = [o \in Options |-> counted[o] \cup Takers(w, o)]
    /\ resp' = MarkReserved(loc[w].marked)
    /\ Finish(w)
    /\ UNCHANGED max

-----------------------------------------------------------------------------
(* sync_screening_quotas, called by update_study with the study row        *)
(* locked: one edit by the owner follows the other.  (The row is not       *)
(* locked for a member of the study; two edits at once are not modelled.)  *)

\* Rows whose cap changes are updated in no particular order.
SyncStart(w, new) ==
    /\ At(w, "idle")
    /\ \A v \in Workers : loc[v].op # "sync"
    /\ Go(w, [Idle EXCEPT !.pc = "limits", !.op = "sync", !.new = new,
                          !.todo = {o \in Limited : new[o] \notin {0, max[o]}},
                          !.chosen = {o \in Options \ Limited : new[o] > 0}])
    /\ UNCHANGED tables

SyncLimit(w, o) ==
    /\ At(w, "limits") /\ o \in loc[w].todo
    /\ Free(w, <<"option", o>>)
    /\ loc' = [loc EXCEPT ![w].todo = @ \ {o}, ![w].locks = @ \cup {<<"option", o>>}]
    /\ UNCHANGED tables

SyncHandled(w) ==
    \/ At(w, "limits") /\ loc[w].todo = {}
    \/ At(w, "marks") /\ loc[w].queue = {}

\* _holder_response_ids
Holders(o) == {r \in Respondents : resp[r].live /\ ~resp[r].gone /\ o \in resp[r].saved}

\* A new limit starts at the number of its holders.
SyncCount(w, o) ==
    /\ SyncHandled(w) /\ o \in loc[w].chosen
    /\ loc' = [loc EXCEPT ![w].pc = "marks", ![w].chosen = @ \ {o}, ![w].queue = Holders(o),
                          ![w].take = @ \cup (Holders(o) \X {o})]
    /\ UNCHANGED tables

\* The mutation of a new limit that leaves its holders unmarked.
MarksNobody(r) == {}

\* The UPDATE does not find a response that was removed while it waited.
MarksHolder(r) == {x \in {r} : resp[x].live}

SyncMark(w, r) ==
    /\ At(w, "marks") /\ First(r, loc[w].queue)
    /\ Free(w, <<"response", r>>)
    /\ loc' = [loc EXCEPT ![w].queue = @ \ {r},
                          ![w].marked = @ \cup MarksHolder(r),
                          ![w].locks = @ \cup {<<"response", x>> : x \in MarksHolder(r)}]
    /\ UNCHANGED tables

Dropped(w) == {o \in Limited : loc[w].new[o] = 0}

\* The commit deletes the rows without a limit and inserts the new ones; the
\* others keep their accepted_count.
SyncCommit(w) ==
    LET new == loc[w].new
    IN  /\ SyncHandled(w)
        /\ loc[w].chosen = {}
        /\ \A o \in Dropped(w) : Free(w, <<"option", o>>)
        /\ max' = new
        /\ acc' = [o \in Options |-> IF new[o] = 0 THEN 0 ELSE Accepted(w, o)]
        /\ counted' = [o \in Options |-> IF new[o] = 0 THEN {}
                                         ELSE counted[o] \cup Takers(w, o)]
        /\ resp' = MarkReserved(loc[w].marked)
        /\ Finish(w)

-----------------------------------------------------------------------------
\* abandon_study, or the sweep.
Abandon(r) ==
    /\ resp[r].live /\ ~resp[r].gone
    /\ \A w \in Workers : <<"response", r>> \notin loc[w].locks
    /\ resp' = [resp EXCEPT ![r].gone = TRUE]
    /\ UNCHANGED <<max, acc, counted, loc>>

\* A crash, an expired lock_timeout, or the victim of a deadlock: rollback.
Fail(w) ==
    /\ ~At(w, "idle")
    /\ Finish(w)
    /\ UNCHANGED tables

\* A request begins or goes on; what it writes is committed at its end only.
Goes(w) ==
    \/ \E r \in Respondents, C \in Answers :
        \/ "continue" \in Operations /\ ContinueLock(w, r, C)
        \/ "save" \in Operations /\ SaveRead(w, r, C)
    \/ "absorb" \in Operations /\ AbsorbStart(w)
    \/ "sync" \in Operations /\ \E new \in NewLimits : SyncStart(w, new)
    \/ \E r \in Respondents :
        AbsorbLockResponse(w, r) \/ AbsorbNext(w, r) \/ AbsorbDecide(w, r) \/ SyncMark(w, r)
    \/ \E o \in Options : LockRow(w, o) \/ SyncLimit(w, o) \/ SyncCount(w, o)

Ends(w) ==
    \/ \E r \in Respondents : SaveCommit(w, r) \/ ContinueReserve(w, r) \/ ContinueReject(w, r)
    \/ AbsorbCommit(w) \/ SyncCommit(w) \/ Fail(w)

Next ==
    \/ \E w \in Workers : Goes(w) \/ Ends(w)
    \/ \E r \in Leaving : Abandon(r)

Spec == Init /\ [][Next]_vars

-----------------------------------------------------------------------------
\* The row whose lock w's next statement asks for.
Wanted(w) ==
    CASE At(w, "rows")      -> {"option"} \X {o \in Options : NextRow(w, o)}
      [] At(w, "save")      -> {"response"} \X loc[w].queue
      [] At(w, "responses") -> {"response"} \X {r \in Respondents : First(r, ToLock(w))}
      [] At(w, "marks") /\ loc[w].queue # {} ->
            {"response"} \X {r \in Respondents : First(r, loc[w].queue)}
      [] At(w, "limits") /\ loc[w].todo # {} -> {"option"} \X loc[w].todo
      [] SyncHandled(w) /\ loc[w].chosen = {} -> {"option"} \X Dropped(w)
      [] OTHER -> {}

Waits(w, v) == v # w /\ Wanted(w) \cap loc[v].locks # {}

\* The workers of C wait for one another.
Deadlocked(C) == C # {} /\ \A w \in C : \E v \in C : Waits(w, v)

(* accepted_count is the number of respondents that were accepted, each of *)
(* them once: a Continue, an absorption and the start value of a new limit *)
(* never count the same response twice, and changing a cap loses nobody.   *)
(* Each of them is marked quota_reserved, so that "a later Continue does   *)
(* not count them a second time".                                          *)
SeatsAreHeld ==
    \A o \in Options :
        /\ acc[o] = Cardinality(counted[o])
        /\ \A r \in counted[o] : resp[r].live => resp[r].reserved

(* Nobody is accepted beyond the limit: a seat on an option that had a row *)
(* is taken only while accepted_count is below max_respondents, whatever   *)
(* other Continues, absorptions and edits of the limit run at the time.    *)
NeverOverfull ==
    [][\A o \in Limited : acc'[o] > acc[o] => acc'[o] <= max[o]]_vars

(* The answer a seat was taken for stays: no request that began after the  *)
(* seat was taken, whether it is a Continue or a mere save, replaces it by *)
(* another answer to the question (only a request that was accepted before *)
(* can still do that).                                                     *)
SeatKeepsAnswer ==
    [][\A o \in Limited : \A r \in counted[o] :
        o \in resp[r].saved /\ o \notin resp'[r].saved =>
            \E w \in Workers : r \in loc[w].queue /\ o \notin loc[w].seen /\ loc'[w] = Idle]_vars

(* Two respondents who continue cannot deadlock on different questions:    *)
(* whenever transactions wait for one another, one of them is an           *)
(* absorption or an edit of the limits.                                    *)
ContinuesDoNotDeadlock ==
    \A C \in SUBSET Workers :
        Deadlocked(C) => \E w \in C : loc[w].op \in {"absorb", "sync"}
=============================================================================
