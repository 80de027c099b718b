--------------------------- MODULE RespondentSlots ---------------------------
(***************************************************************************)
(* How the responses of one study get their respondent number              *)
(* (app/services/response.py).  A start takes the smallest number of the   *)
(* table freed_respondent_ids, or MAX(respondent_id) + 1, and inserts its  *)
(* row; the unique constraint on (study_id, respondent_id) makes it retry. *)
(* Removing a response puts its number back.  Three code paths remove one: *)
(*   "by_session"  delete_response_by_study_and_session                    *)
(*   "by_id"       delete_response                                         *)
(*   "reject"      submit_classification, when a screening quota is full   *)
(*                                                                         *)
(* Every request is one database transaction under READ COMMITTED.  Each   *)
(* of its statements is a step; what it wrote is published by its commit,  *)
(* and a statement that meets another transaction's uncommitted row waits. *)
(***************************************************************************)
EXTENDS Naturals

CONSTANTS Starts,      \* start requests; each names the session it creates
          Deletes,     \* requests that remove a response
          Paths,       \* the removal paths in use
          MaxRetries,  \* max_retries, 3 in the code
          MaxNumber    \* bound on respondent numbers; with one per start it never binds

ASSUME SlotsAssumption ==
    /\ MaxRetries \in Nat
    /\ MaxNumber \in Nat
    /\ Paths \subseteq {"by_session", "by_id", "reject"}
    /\ "none" \notin Starts

VARIABLES
    resp,       \* resp[s]: respondent_id of the committed row of session s, 0 = no row
    assigned,   \* assigned[s]: the number whose tasks total_tasks_assigned counts
    freed,      \* committed rows of freed_respondent_ids
    pc,         \* where a start request is
    attempt,    \* its retry counter
    cand,       \* the respondent_id it is about to insert
    claimed,    \* its transaction deleted the freed row of cand, uncommitted
    payload,    \* the number payload_builder was called with
    overtaken,  \* history: another start committed while this one was running
    dpc,        \* where a removal request is
    path,       \* its code path
    target,     \* the session it removes
    num,        \* the respondent_id it read for that session
    pending     \* its transaction inserted the freed row of num, uncommitted

dbVars == <<resp, assigned, freed>>
startVars == <<pc, attempt, cand, claimed, payload, overtaken>>
deleteVars == <<dpc, path, target, num, pending>>
vars == <<dbVars, startVars, deleteVars>>

Numbers == 1..MaxNumber
StartEnded == {"done", "busy", "aborted"}     \* "busy" is the 503 answer
DeleteEnded == {"done", "not_found", "aborted"}

Used == {resp[s] : s \in Starts} \ {0}

TypeOK ==
    /\ resp \in [Starts -> 0..MaxNumber]
    /\ assigned \in [Starts -> 0..MaxNumber]
    /\ freed \subseteq Numbers
    /\ pc \in [Starts -> {"claim", "max", "insert"} \cup StartEnded]
    /\ attempt \in [Starts -> 0..MaxRetries]
    /\ cand \in [Starts -> 0..MaxNumber]
    /\ claimed \in [Starts -> BOOLEAN]
    /\ payload \in [Starts -> 0..MaxNumber]
    /\ overtaken \in [Starts -> BOOLEAN]
    /\ dpc \in [Deletes -> {"read", "release", "delete", "commit"} \cup DeleteEnded]
    /\ path \in [Deletes -> Paths \cup {"none"}]
    /\ target \in [Deletes -> Starts \cup {"none"}]
    /\ num \in [Deletes -> 0..MaxNumber]
    /\ pending \in [Deletes -> BOOLEAN]

Init ==
    /\ resp = [s \in Starts |-> 0]
    /\ assigned = [s \in Starts |-> 0]
    /\ freed = {}
    /\ pc = [s \in Starts |-> "claim"]
    /\ attempt = [s \in Starts |-> 0]
    /\ cand = [s \in Starts |-> 0]
    /\ claimed = [s \in Starts |-> FALSE]
    /\ payload = [s \in Starts |-> 0]
    /\ overtaken = [s \in Starts |-> FALSE]
    /\ dpc = [d \in Deletes |-> "read"]
    /\ path = [d \in Deletes |-> "none"]
    /\ target = [d \in Deletes |-> "none"]
    /\ num = [d \in Deletes |-> 0]
    /\ pending = [d \in Deletes |-> FALSE]

-----------------------------------------------------------------------------
(* Row locks, read off the open transactions.                              *)

\* Freed rows that an open start has deleted: SKIP LOCKED passes over them,
\* and INSERT ... ON CONFLICT waits for them.
ClaimedRows == {cand[s] : s \in {t \in Starts : claimed[t]}}

\* Freed rows that an open removal has inserted.
PendingRows == {num[d] : d \in {e \in Deletes : pending[e]}}

\* Paths that lock the response row when they read it: the quota rejection, by
\* SELECT ... FOR UPDATE.  The others lock it by their DELETE.
LocksFirst(d) == path[d] = "reject"

\* d's transaction holds the lock of its response row.
HoldsRow(d) ==
    \/ dpc[d] = "commit"
    \/ LocksFirst(d) /\ dpc[d] \in {"release", "delete"}

RowLocked(s) == \E d \in Deletes : HoldsRow(d) /\ target[d] = s

\* d waits for e: for the freed row that e is inserting, or for the response row.
Waits(d, e) ==
    /\ d # e
    /\ \/ dpc[d] = "release" /\ pending[e] /\ num[e] = num[d]
       \/ dpc[d] = "delete" /\ HoldsRow(e) /\ target[e] = target[d]

Deadlocked(d, e) == Waits(d, e) /\ Waits(e, d)

-----------------------------------------------------------------------------
(* _create_response_with_respondent_retry                                  *)

SmallestFreed(n) ==
    /\ n \in freed \ ClaimedRows
    /\ \A m \in freed \ ClaimedRows : n <= m

\* The mutation of a payload built once, before the retry loop.
PayloadOnce(s, n) == IF attempt[s] = 0 THEN n ELSE payload[s]

\* payload_builder(respondent_id): total_tasks_assigned is looked up for n.
PayloadFor(s, n) == n

\* _claim_freed_respondent_id found a number: DELETE ... RETURNING.
ClaimFreed(s) ==
    /\ pc[s] = "claim"
    /\ \E n \in Numbers :
        /\ SmallestFreed(n)
        /\ cand' = [cand EXCEPT ![s] = n]
        /\ payload' = [payload EXCEPT ![s] = PayloadFor(s, n)]
    /\ claimed' = [claimed EXCEPT ![s] = TRUE]
    /\ pc' = [pc EXCEPT ![s] = "insert"]
    /\ UNCHANGED <<dbVars, attempt, overtaken, deleteVars>>

\* _claim_freed_respondent_id returned None.
NothingFreed(s) ==
    /\ pc[s] = "claim"
    /\ freed \subseteq ClaimedRows
    /\ pc' = [pc EXCEPT ![s] = "max"]
    /\ UNCHANGED <<dbVars, attempt, cand, claimed, payload, overtaken, deleteVars>>

\* The mutation max_id or 1.
MaxWithoutIncrement(n) ==
    /\ IF Used = {} THEN n = 1 ELSE n \in Used
    /\ \A m \in Used : m <= n

\* _get_next_respondent_id: (max_id or 0) + 1.
IsNextNumber(n) ==
    /\ n = 1 \/ n - 1 \in Used
    /\ \A m \in Used : m < n

NextNumber(s) ==
    /\ pc[s] = "max"
    /\ \E n \in Numbers :
        /\ IsNextNumber(n)
        /\ cand' = [cand EXCEPT ![s] = n]
        /\ payload' = [payload EXCEPT ![s] = PayloadFor(s, n)]
    /\ pc' = [pc EXCEPT ![s] = "insert"]
    /\ UNCHANGED <<dbVars, attempt, claimed, overtaken, deleteVars>>

\* The INSERT waits for a transaction that is deleting a row with its number.
InsertReady(s) ==
    /\ pc[s] = "insert"
    /\ \A d \in Deletes : ~(dpc[d] = "commit" /\ resp[target[d]] = cand[s])

\* The mutation of a schema without uq_study_responses_study_respondent.
NeverConflicts(s) == FALSE

\* The unique constraint refuses the row.
Conflicts(s) == cand[s] \in Used

Running(s) == pc[s] \in {"max", "insert"} \/ (pc[s] = "claim" /\ attempt[s] > 0)

\* db.add, db.commit: the new row and the deletion of the freed row together.
InsertCommit(s) ==
    /\ InsertReady(s)
    /\ ~Conflicts(s)
    /\ resp' = [resp EXCEPT ![s] = cand[s]]
    /\ assigned' = [assigned EXCEPT ![s] = payload[s]]
    /\ freed' = IF claimed[s] THEN freed \ {cand[s]} ELSE freed
    /\ claimed' = [claimed EXCEPT ![s] = FALSE]
    /\ pc' = [pc EXCEPT ![s] = "done"]
    /\ overtaken' = [t \in Starts |-> overtaken[t] \/ (t # s /\ Running(t))]
    /\ UNCHANGED <<attempt, cand, payload, deleteVars>>

\* The mutation attempt <= max_retries.
RetriesOneMore(s) == attempt[s] <= MaxRetries

RetriesLeft(s) == attempt[s] < MaxRetries

\* The mutation of a retry loop without its counter.
InsertRetryUncounted(s) ==
    /\ InsertReady(s)
    /\ Conflicts(s)
    /\ claimed' = [claimed EXCEPT ![s] = FALSE]
    /\ pc' = [pc EXCEPT ![s] = "claim"]
    /\ UNCHANGED <<dbVars, attempt, cand, payload, overtaken, deleteVars>>

\* IntegrityError: rollback, which restores the freed row, and another attempt.
InsertRetry(s) ==
    /\ InsertReady(s)
    /\ Conflicts(s)
    /\ RetriesLeft(s)
    /\ attempt' = [attempt EXCEPT ![s] = @ + 1]
    /\ claimed' = [claimed EXCEPT ![s] = FALSE]
    /\ pc' = [pc EXCEPT ![s] = "claim"]
    /\ UNCHANGED <<dbVars, cand, payload, overtaken, deleteVars>>

\* The last attempt: 503 "High traffic while assigning respondent id."
InsertGiveUp(s) ==
    /\ InsertReady(s)
    /\ Conflicts(s)
    /\ ~RetriesLeft(s)
    /\ claimed' = [claimed EXCEPT ![s] = FALSE]
    /\ pc' = [pc EXCEPT ![s] = "busy"]
    /\ UNCHANGED <<dbVars, attempt, cand, payload, overtaken, deleteVars>>

\* The process or its connection dies before the commit.
StartAbort(s) ==
    /\ pc[s] \notin StartEnded
    /\ claimed' = [claimed EXCEPT ![s] = FALSE]
    /\ pc' = [pc EXCEPT ![s] = "aborted"]
    /\ UNCHANGED <<dbVars, attempt, cand, payload, overtaken, deleteVars>>

-----------------------------------------------------------------------------
(* The removal of a response.                                              *)

\* The request reads the row; the quota rejection locks it (and waits for the
\* lock), the other two paths do not.
DeleteRead(d) ==
    /\ dpc[d] = "read"
    /\ \E s \in Starts, p \in Paths :
        /\ resp[s] # 0
        /\ p = "reject" => ~RowLocked(s)
        /\ path' = [path EXCEPT ![d] = p]
        /\ target' = [target EXCEPT ![d] = s]
        /\ num' = [num EXCEPT ![d] = resp[s]]
    /\ dpc' = [dpc EXCEPT ![d] = "release"]
    /\ UNCHANGED <<dbVars, startVars, pending>>

\* The session has no row: 404.
DeleteNotFound(d) ==
    /\ dpc[d] = "read"
    /\ \E s \in Starts : resp[s] = 0
    /\ dpc' = [dpc EXCEPT ![d] = "not_found"]
    /\ UNCHANGED <<dbVars, startVars, path, target, num, pending>>

\* The mutation of a removal that forgets its number.
ReleasesNothing(d) == FALSE

\* INSERT ... ON CONFLICT DO NOTHING writes a row only if none is there.
Releases(d) == num[d] \notin freed

\* _release_respondent_slot
DeleteRelease(d) ==
    /\ dpc[d] = "release"
    /\ num[d] \notin ClaimedRows \cup PendingRows
    /\ pending' = [pending EXCEPT ![d] = Releases(d)]
    /\ dpc' = [dpc EXCEPT ![d] = "delete"]
    /\ UNCHANGED <<dbVars, startVars, path, target, num>>

\* The DELETE waits for the row's lock.
DeleteReady(d) ==
    /\ dpc[d] = "delete"
    /\ \A e \in Deletes \ {d} : HoldsRow(e) => target[e] # target[d]

\* The DELETE matches the row and locks it.
DeleteRow(d) ==
    /\ DeleteReady(d)
    /\ resp[target[d]] # 0
    /\ dpc' = [dpc EXCEPT ![d] = "commit"]
    /\ UNCHANGED <<dbVars, startVars, path, target, num, pending>>

\* The mutation of a by_session path without its rowcount check.
NoRowcountCheck(d) == FALSE

\* Only delete_response_by_study_and_session looks at the rowcount.
ChecksRowcount(d) == path[d] # "by_id"

\* The row is gone, and the rowcount check rolls the release back.
DeleteMissedRollback(d) ==
    /\ DeleteReady(d)
    /\ resp[target[d]] = 0
    /\ ChecksRowcount(d)
    /\ pending' = [pending EXCEPT ![d] = FALSE]
    /\ dpc' = [dpc EXCEPT ![d] = "not_found"]
    /\ UNCHANGED <<dbVars, startVars, path, target, num>>

\* The row is gone; the unit of work only warns, and db.commit publishes the
\* freed number all the same.
DeleteMissedCommit(d) ==
    /\ DeleteReady(d)
    /\ resp[target[d]] = 0
    /\ ~ChecksRowcount(d)
    /\ freed' = IF pending[d] THEN freed \cup {num[d]} ELSE freed
    /\ pending' = [pending EXCEPT ![d] = FALSE]
    /\ dpc' = [dpc EXCEPT ![d] = "done"]
    /\ UNCHANGED <<resp, assigned, startVars, path, target, num>>

DeleteCommit(d) ==
    /\ dpc[d] = "commit"
    /\ resp' = [resp EXCEPT ![target[d]] = 0]
    /\ assigned' = [assigned EXCEPT ![target[d]] = 0]
    /\ freed' = IF pending[d] THEN freed \cup {num[d]} ELSE freed
    /\ pending' = [pending EXCEPT ![d] = FALSE]
    /\ dpc' = [dpc EXCEPT ![d] = "done"]
    /\ UNCHANGED <<startVars, path, target, num>>

\* Crash, or the 5 s lock_timeout of _get_response_by_session_for_update.
DeleteAbort(d) ==
    /\ dpc[d] \notin DeleteEnded
    /\ pending' = [pending EXCEPT ![d] = FALSE]
    /\ dpc' = [dpc EXCEPT ![d] = "aborted"]
    /\ UNCHANGED <<dbVars, startVars, path, target, num>>

\* PostgreSQL cancels a transaction that waits in a cycle.
DeadlockVictim(d) ==
    /\ \E e \in Deletes : Deadlocked(d, e)
    /\ pending' = [pending EXCEPT ![d] = FALSE]
    /\ dpc' = [dpc EXCEPT ![d] = "aborted"]
    /\ UNCHANGED <<dbVars, startVars, path, target, num>>

-----------------------------------------------------------------------------
StartStep(s) ==
    \/ ClaimFreed(s)
    \/ NothingFreed(s)
    \/ NextNumber(s)
    \/ InsertCommit(s)
    \/ InsertRetry(s)
    \/ InsertGiveUp(s)

DeleteStep(d) ==
    \/ DeleteRead(d)
    \/ DeleteNotFound(d)
    \/ DeleteRelease(d)
    \/ DeleteRow(d)
    \/ DeleteMissedRollback(d)
    \/ DeleteMissedCommit(d)
    \/ DeleteCommit(d)
    \/ DeadlockVictim(d)

\* All requests have ended.  Any other state without a step is a deadlock.
Ended ==
    /\ \A s \in Starts : pc[s] \in StartEnded
    /\ \A d \in Deletes : dpc[d] \in DeleteEnded

Idle == Ended /\ UNCHANGED vars

Next ==
    \/ \E s \in Starts : StartStep(s) \/ StartAbort(s)
    \/ \E d \in Deletes : DeleteStep(d) \/ DeleteAbort(d)
    \/ Idle

\* A request's thread keeps running: it is not starved for ever by the others.
\* Nothing forces a crash or a timeout.
Fairness ==
    /\ \A s \in Starts : WF_vars(StartStep(s))
    /\ \A d \in Deletes : WF_vars(DeleteStep(d))

Spec == Init /\ [][Next]_vars /\ Fairness

-----------------------------------------------------------------------------
(* Two responses of a study never have the same respondent number, however *)
(* starts, removals and crashes interleave.                                *)
UniqueNumbers ==
    \A s, t \in Starts : s # t /\ resp[s] # 0 => resp[s] # resp[t]

(* No number is ever lost: up to the largest number given out, each one is *)
(* held by a response or waits in freed_respondent_ids.  A crash, a        *)
(* rollback or a lost race between two removals must not leave a gap, or   *)
(* the tasks generated for that respondent are never shown to anybody.     *)
NoNumberLost ==
    \A n \in Used \cup freed : \A k \in 1..n : k \in Used \cup freed

(* A response is given the tasks of its own number, also when the number   *)
(* it first tried was taken and it retried with another one.               *)
TasksOfOwnNumber ==
    \A s \in Starts : resp[s] # 0 => assigned[s] = resp[s]

(* A start answers 503 only because another start committed while it was   *)
(* running, or because the number it keeps claiming is still occupied.     *)
BusyIsExplained ==
    [][\A s \in Starts :
        pc[s] # "busy" /\ pc'[s] = "busy"
            => overtaken[s] \/ (claimed[s] /\ cand[s] \in freed)]_vars

(* A removal by session, or by a full quota, never puts back a number that *)
(* a response holds once it has committed: the rowcount check undoes the   *)
(* release of a removal that lost the race for the row.                    *)
ReleaseOnlyVacated ==
    [][\A d \in Deletes :
        path[d] # "by_id" /\ dpc[d] \notin DeleteEnded /\ dpc'[d] \in DeleteEnded
            => (freed' \ freed) \cap Used' = {}]_vars

(* Every request ends: the retries are bounded even when the number it     *)
(* claims stays occupied, and no wait but the rejection's deadlock, which  *)
(* the database breaks, is circular.                                       *)
EveryRequestEnds == <>Ended

(* models/response_model.py, FreedRespondentId: "Respondent numbers        *)
(* returned after a response row is deleted."  A number that waits to be   *)
(* reused is held by no response.                                          *)
FreedNumbersAreVacant == freed \cap Used = {}
=============================================================================
