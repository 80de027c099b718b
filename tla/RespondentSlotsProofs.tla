------------------------ MODULE RespondentSlotsProofs ------------------------
(***************************************************************************)
(* Proofs about RespondentSlots for any number of starts and removals.     *)
(* The inductive invariant adds to the properties what makes them hold:    *)
(* the candidate of a start continues the numbers in circulation           *)
(* (CandidateInv), the payload belongs to the candidate (PayloadInv), and  *)
(* a removal that still finds its row has its number inserted into         *)
(* freed_respondent_ids, or there already (RemovalInv).                    *)
(* The action properties need to know also who holds a freed row           *)
(* (ClaimInv) and a response row (LockInv).                                *)
(***************************************************************************)
EXTENDS RespondentSlots, TLAPS

Held == Used \cup freed

(* A start that is about to insert claims a committed freed row, or a      *)
(* number all of whose predecessors are in circulation.                    *)
CandidateInv ==
    \A s \in Starts :
        /\ pc[s] = "insert" => cand[s] # 0 /\ \A k \in 1..(cand[s] - 1) : k \in Held
        /\ resp[s] # 0 => pc[s] = "done"

PayloadInv == \A s \in Starts : pc[s] = "insert" => payload[s] = cand[s]

(* A removal has chosen a session whose start is over, so that no start    *)
(* gives that session a row again.                                         *)
RemovalInv ==
    \A d \in Deletes : dpc[d] \in {"release", "delete", "commit"} =>
        /\ target[d] \in Starts
        /\ num[d] # 0 /\ num[d] \in Held
        /\ pc[target[d]] = "done"
        /\ resp[target[d]] # 0 => resp[target[d]] = num[d]
        /\ dpc[d] # "release" /\ resp[target[d]] # 0 => pending[d] \/ num[d] \in freed

Inv ==
    /\ TypeOK
    /\ UniqueNumbers
    /\ NoNumberLost
    /\ TasksOfOwnNumber
    /\ CandidateInv
    /\ PayloadInv
    /\ RemovalInv

-----------------------------------------------------------------------------
LEMMA InitInv == Init => Inv
<1> SUFFICES ASSUME Init PROVE Inv
  OBVIOUS
<1> USE SlotsAssumption DEF SlotsAssumption, Init
<1>1. TypeOK
  BY DEF TypeOK, StartEnded, DeleteEnded, Numbers
<1>2. Used \cup freed = {}
  BY DEF Used
<1>3. NoNumberLost
  BY <1>2 DEF NoNumberLost
<1>4. UniqueNumbers /\ TasksOfOwnNumber /\ CandidateInv /\ PayloadInv /\ RemovalInv
  BY DEF UniqueNumbers, TasksOfOwnNumber, CandidateInv, PayloadInv, RemovalInv
<1> QED
  BY <1>1, <1>3, <1>4 DEF Inv

(* Each step keeps the types.                                              *)
LEMMA TypeStep == TypeOK /\ RemovalInv /\ [Next]_vars => TypeOK'
<1> SUFFICES ASSUME TypeOK, RemovalInv, [Next]_vars PROVE TypeOK'
  OBVIOUS
<1> USE SlotsAssumption DEF SlotsAssumption, TypeOK, StartEnded, DeleteEnded, Numbers
<1>1. ASSUME NEW s \in Starts, ClaimFreed(s) PROVE TypeOK'
  BY <1>1 DEF ClaimFreed, PayloadFor, SmallestFreed, dbVars, deleteVars
<1>2. ASSUME NEW s \in Starts, NothingFreed(s) PROVE TypeOK'
  BY <1>2 DEF NothingFreed, dbVars, deleteVars
<1>3. ASSUME NEW s \in Starts, NextNumber(s) PROVE TypeOK'
  BY <1>3 DEF NextNumber, PayloadFor, dbVars, deleteVars
<1>4. ASSUME NEW s \in Starts, InsertCommit(s) PROVE TypeOK'
  BY <1>4 DEF InsertCommit, InsertReady, deleteVars
<1>5. ASSUME NEW s \in Starts, InsertRetry(s) PROVE TypeOK'
  BY <1>5 DEF InsertRetry, RetriesLeft, dbVars, deleteVars
<1>6. ASSUME NEW s \in Starts, InsertGiveUp(s) PROVE TypeOK'
  BY <1>6 DEF InsertGiveUp, dbVars, deleteVars
<1>7. ASSUME NEW s \in Starts, StartAbort(s) PROVE TypeOK'
  BY <1>7 DEF StartAbort, dbVars, deleteVars
<1>8. ASSUME NEW d \in Deletes, DeleteRead(d) PROVE TypeOK'
  BY <1>8 DEF DeleteRead, dbVars, startVars
<1>9. ASSUME NEW d \in Deletes, DeleteNotFound(d) PROVE TypeOK'
  BY <1>9 DEF DeleteNotFound, dbVars, startVars
<1>10. ASSUME NEW d \in Deletes, DeleteRelease(d) PROVE TypeOK'
  BY <1>10 DEF DeleteRelease, Releases, dbVars, startVars
<1>11. ASSUME NEW d \in Deletes, DeleteRow(d) PROVE TypeOK'
  BY <1>11 DEF DeleteRow, dbVars, startVars
<1>12. ASSUME NEW d \in Deletes, DeleteMissedRollback(d) PROVE TypeOK'
  BY <1>12 DEF DeleteMissedRollback, dbVars, startVars
<1>13. ASSUME NEW d \in Deletes, DeleteMissedCommit(d) PROVE TypeOK'
  <2>1. num[d] \in Numbers
    BY <1>13 DEF DeleteMissedCommit, DeleteReady, RemovalInv
  <2> QED
    BY <1>13, <2>1 DEF DeleteMissedCommit, startVars
<1>14. ASSUME NEW d \in Deletes, DeleteCommit(d) PROVE TypeOK'
  <2>1. num[d] \in Numbers /\ target[d] \in Starts
    BY <1>14 DEF DeleteCommit, RemovalInv
  <2>2. freed' \subseteq Numbers
    BY <1>14, <2>1 DEF DeleteCommit
  <2>3. resp' \in [Starts -> 0..MaxNumber] /\ assigned' \in [Starts -> 0..MaxNumber]
    BY <1>14, <2>1 DEF DeleteCommit
  <2> QED
    BY <1>14, <2>2, <2>3 DEF DeleteCommit, startVars
<1>15. ASSUME NEW d \in Deletes, DeleteAbort(d) PROVE TypeOK'
  BY <1>15 DEF DeleteAbort, dbVars, startVars
<1>16. ASSUME NEW d \in Deletes, DeadlockVictim(d) PROVE TypeOK'
  BY <1>16 DEF DeadlockVictim, dbVars, startVars
<1>17. CASE UNCHANGED vars
  BY <1>17 DEF vars, dbVars, startVars, deleteVars
<1> QED
  BY <1>1, <1>2, <1>3, <1>4, <1>5, <1>6, <1>7, <1>8, <1>9, <1>10, <1>11, <1>12,
     <1>13, <1>14, <1>15, <1>16, <1>17 DEF Next, StartStep, DeleteStep, Idle

-----------------------------------------------------------------------------
(* Numbers never leave circulation: a freed number is taken by a row, and  *)
(* a row that is removed leaves its number behind.                         *)
LEMMA HeldGrows ==
    ASSUME Inv, TypeOK', [Next]_vars
    PROVE  Used \cup freed \subseteq Used' \cup freed'
<1> USE DEF Inv, TypeOK
<1>1. ASSUME NEW s \in Starts, InsertCommit(s) PROVE Used \cup freed \subseteq Used' \cup freed'
  <2>1. resp[s] = 0
    BY <1>1 DEF InsertCommit, InsertReady, CandidateInv
  <2>2. resp'[s] = cand[s] /\ \A t \in Starts : t # s => resp'[t] = resp[t]
    BY <1>1 DEF InsertCommit
  <2>3. cand[s] \in Used'
    BY <2>2, <1>1 DEF Used, InsertCommit, InsertReady, CandidateInv
  <2>4. Used \subseteq Used'
    BY <2>1, <2>2 DEF Used
  <2>5. freed \subseteq freed' \cup {cand[s]}
    BY <1>1 DEF InsertCommit
  <2> QED
    BY <2>3, <2>4, <2>5
<1>2. ASSUME NEW d \in Deletes, DeleteCommit(d) PROVE Used \cup freed \subseteq Used' \cup freed'
  <2>1. /\ target[d] \in Starts
        /\ resp'[target[d]] = 0
        /\ \A t \in Starts : t # target[d] => resp'[t] = resp[t]
        /\ freed \subseteq freed'
    BY <1>2 DEF DeleteCommit, RemovalInv
  <2>2. resp[target[d]] # 0 => resp[target[d]] \in freed'
    BY <1>2 DEF DeleteCommit, RemovalInv
  <2>3. Used \subseteq Used' \cup {resp[target[d]]}
    BY <2>1 DEF Used
  <2> QED
    BY <2>1, <2>2, <2>3 DEF Used
<1>3. ASSUME NEW d \in Deletes, DeleteMissedCommit(d) PROVE Used \cup freed \subseteq Used' \cup freed'
  BY <1>3 DEF DeleteMissedCommit, Used
<1>4. CASE UNCHANGED dbVars
  BY <1>4 DEF dbVars, Used
<1> QED
  BY <1>1, <1>2, <1>3, <1>4 DEF Next, StartStep, DeleteStep, Idle, vars, ClaimFreed,
     NothingFreed, NextNumber, InsertRetry, InsertGiveUp, StartAbort, DeleteRead,
     DeleteNotFound, DeleteRelease, DeleteRow, DeleteMissedRollback, DeleteAbort,
     DeadlockVictim

LEMMA UniqueStep == Inv /\ [Next]_vars => UniqueNumbers'
<1> SUFFICES ASSUME Inv, [Next]_vars PROVE UniqueNumbers'
  OBVIOUS
<1> USE DEF Inv, TypeOK, UniqueNumbers
<1>1. ASSUME NEW s \in Starts, InsertCommit(s) PROVE UniqueNumbers'
  <2>1. \A t \in Starts : resp[t] # cand[s]
    BY <1>1 DEF InsertCommit, InsertReady, Conflicts, Used, CandidateInv
  <2> QED
    BY <1>1, <2>1 DEF InsertCommit
<1>2. ASSUME NEW d \in Deletes, DeleteCommit(d) PROVE UniqueNumbers'
  BY <1>2 DEF DeleteCommit
<1>3. CASE UNCHANGED resp
  BY <1>3
<1> QED
  BY <1>1, <1>2, <1>3 DEF Next, StartStep, DeleteStep, Idle, vars, dbVars, ClaimFreed,
     NothingFreed, NextNumber, InsertRetry, InsertGiveUp, StartAbort, DeleteRead,
     DeleteNotFound, DeleteRelease, DeleteRow, DeleteMissedRollback, DeleteMissedCommit,
     DeleteAbort, DeadlockVictim

(* Nothing but the insert of a start brings a number into circulation.     *)
LEMMA HeldGrowsByInsert ==
    ASSUME Inv, [Next]_vars
    PROVE  \/ Used' \cup freed' \subseteq Used \cup freed
           \/ \E s \in Starts :
                /\ pc[s] = "insert"
                /\ Used' \cup freed' \subseteq Used \cup freed \cup {cand[s]}
<1> USE DEF Inv, TypeOK
<1>1. ASSUME NEW s \in Starts, InsertCommit(s)
      PROVE  pc[s] = "insert" /\ Used' \cup freed' \subseteq Used \cup freed \cup {cand[s]}
  BY <1>1 DEF InsertCommit, InsertReady, Used
<1>2. ASSUME NEW d \in Deletes, DeleteCommit(d)
      PROVE  Used' \cup freed' \subseteq Used \cup freed
  <2>1. num[d] \in Used \cup freed
    BY <1>2 DEF DeleteCommit, RemovalInv, Held
  <2> QED
    BY <1>2, <2>1 DEF DeleteCommit, Used
<1>3. ASSUME NEW d \in Deletes, DeleteMissedCommit(d)
      PROVE  Used' \cup freed' \subseteq Used \cup freed
  <2>1. num[d] \in Used \cup freed
    BY <1>3 DEF DeleteMissedCommit, DeleteReady, RemovalInv, Held
  <2> QED
    BY <1>3, <2>1 DEF DeleteMissedCommit, Used
<1>4. CASE UNCHANGED dbVars
  BY <1>4 DEF dbVars, Used
<1> QED
  BY <1>1, <1>2, <1>3, <1>4 DEF Next, StartStep, DeleteStep, Idle, vars, ClaimFreed,
     NothingFreed, NextNumber, InsertRetry, InsertGiveUp, StartAbort, DeleteRead,
     DeleteNotFound, DeleteRelease, DeleteRow, DeleteMissedRollback, DeleteAbort,
     DeadlockVictim

LEMMA NoNumberLostStep == Inv /\ TypeOK' /\ [Next]_vars => NoNumberLost'
<1> SUFFICES ASSUME Inv, TypeOK', [Next]_vars,
                    NEW n \in Used' \cup freed', NEW k \in 1..n
             PROVE  k \in Used' \cup freed'
  BY DEF NoNumberLost
<1> DEFINE H == Used \cup freed
<1>1. H \subseteq Used' \cup freed'
  BY HeldGrows
<1>2. CASE n \in H
  BY <1>1, <1>2 DEF Inv, NoNumberLost
<1>3. CASE n \notin H
  <2>1. PICK s \in Starts : pc[s] = "insert" /\ n = cand[s]
    BY <1>3, HeldGrowsByInsert
  <2>2. n \in Nat /\ \A j \in 1..(n - 1) : j \in H
    BY <2>1, SlotsAssumption DEF Inv, TypeOK, CandidateInv, Held, SlotsAssumption
  <2>3. k = n \/ k \in 1..(n - 1)
    BY <2>2
  <2> QED
    BY <1>1, <2>2, <2>3
<1> QED
  BY <1>2, <1>3

LEMMA TasksStep == Inv /\ [Next]_vars => TasksOfOwnNumber'
<1> SUFFICES ASSUME Inv, [Next]_vars PROVE TasksOfOwnNumber'
  OBVIOUS
<1> USE DEF Inv, TypeOK, TasksOfOwnNumber
<1>1. ASSUME NEW s \in Starts, InsertCommit(s) PROVE TasksOfOwnNumber'
  BY <1>1 DEF InsertCommit, InsertReady, PayloadInv
<1>2. ASSUME NEW d \in Deletes, DeleteCommit(d) PROVE TasksOfOwnNumber'
  BY <1>2 DEF DeleteCommit
<1>3. CASE UNCHANGED <<resp, assigned>>
  BY <1>3
<1> QED
  BY <1>1, <1>2, <1>3 DEF Next, StartStep, DeleteStep, Idle, vars, dbVars, ClaimFreed,
     NothingFreed, NextNumber, InsertRetry, InsertGiveUp, StartAbort, DeleteRead,
     DeleteNotFound, DeleteRelease, DeleteRow, DeleteMissedRollback, DeleteMissedCommit,
     DeleteAbort, DeadlockVictim

LEMMA PayloadStep == Inv /\ [Next]_vars => PayloadInv'
<1> SUFFICES ASSUME Inv, [Next]_vars, NEW s \in Starts, pc'[s] = "insert"
             PROVE  payload'[s] = cand'[s]
  BY DEF PayloadInv
<1> USE DEF Inv, TypeOK, PayloadInv
<1>1. ASSUME NEW t \in Starts, ClaimFreed(t) \/ NextNumber(t) PROVE payload'[s] = cand'[s]
  BY <1>1 DEF ClaimFreed, NextNumber, PayloadFor
<1>2. ASSUME NEW t \in Starts,
             \/ NothingFreed(t) \/ InsertCommit(t) \/ InsertRetry(t)
             \/ InsertGiveUp(t) \/ StartAbort(t)
      PROVE  payload'[s] = cand'[s]
  BY <1>2 DEF NothingFreed, InsertCommit, InsertRetry, InsertGiveUp, StartAbort
<1>3. CASE UNCHANGED startVars
  BY <1>3 DEF startVars
<1> QED
  BY <1>1, <1>2, <1>3 DEF Next, StartStep, DeleteStep, Idle, vars, DeleteRead,
     DeleteNotFound, DeleteRelease, DeleteRow, DeleteMissedRollback, DeleteMissedCommit,
     DeleteCommit, DeleteAbort, DeadlockVictim

LEMMA CandidateStep == Inv /\ TypeOK' /\ [Next]_vars => CandidateInv'
<1> SUFFICES ASSUME Inv, TypeOK', [Next]_vars, NEW s \in Starts
             PROVE  /\ pc'[s] = "insert" =>
                          cand'[s] # 0 /\ \A k \in 1..(cand'[s] - 1) : k \in Used' \cup freed'
                    /\ resp'[s] # 0 => pc'[s] = "done"
  BY DEF CandidateInv, Held
<1> DEFINE H == Used \cup freed
           Goal == /\ pc'[s] = "insert" =>
                          cand'[s] # 0 /\ \A k \in 1..(cand'[s] - 1) : k \in Used' \cup freed'
                   /\ resp'[s] # 0 => pc'[s] = "done"
<1>1. H \subseteq Used' \cup freed'
  BY HeldGrows
<1>2. /\ pc[s] = "insert" => cand[s] # 0 /\ \A k \in 1..(cand[s] - 1) : k \in H
      /\ resp[s] # 0 => pc[s] = "done"
  BY DEF Inv, CandidateInv, Held
<1> HIDE DEF H
<1> USE DEF Inv, TypeOK
<1>3. ASSUME NEW t \in Starts, ClaimFreed(t) PROVE Goal
  <2>1. CASE s = t
    <3>1. cand'[s] \in freed /\ pc'[s] = "insert" /\ resp[s] = 0 /\ resp' = resp
      BY <1>3, <2>1, <1>2 DEF ClaimFreed, SmallestFreed, dbVars
    <3>2. \A k \in 1..cand'[s] : k \in H
      BY <3>1 DEF NoNumberLost, H
    <3>3. cand'[s] \in Nat /\ cand'[s] # 0
      BY <3>1, SlotsAssumption DEF Numbers, SlotsAssumption
    <3> QED
      BY <1>1, <3>1, <3>2, <3>3
  <2>2. CASE s # t
    BY <1>1, <1>2, <1>3, <2>2 DEF ClaimFreed, dbVars
  <2> QED
    BY <2>1, <2>2
<1>4. ASSUME NEW t \in Starts, NextNumber(t) PROVE Goal
  <2>1. CASE s = t
    <3>1. /\ IsNextNumber(cand'[s]) /\ cand'[s] \in Numbers
          /\ pc'[s] = "insert" /\ resp[s] = 0 /\ resp' = resp
      BY <1>4, <2>1, <1>2 DEF NextNumber, dbVars
    <3>2. cand'[s] \in Nat /\ cand'[s] # 0
      BY <3>1, SlotsAssumption DEF Numbers, SlotsAssumption
    <3>3. cand'[s] = 1 \/ cand'[s] - 1 \in H
      BY <3>1 DEF IsNextNumber, H
    <3>4. \A k \in 1..(cand'[s] - 1) : k \in H
      BY <3>2, <3>3 DEF NoNumberLost, H
    <3> QED
      BY <1>1, <3>1, <3>2, <3>4
  <2>2. CASE s # t
    BY <1>1, <1>2, <1>4, <2>2 DEF NextNumber, dbVars
  <2> QED
    BY <2>1, <2>2
<1>5. ASSUME NEW t \in Starts,
             NothingFreed(t) \/ InsertRetry(t) \/ InsertGiveUp(t) \/ StartAbort(t)
      PROVE  Goal
  BY <1>1, <1>2, <1>5 DEF NothingFreed, InsertRetry, InsertGiveUp, StartAbort, dbVars,
     InsertReady, StartEnded
<1>6. ASSUME NEW t \in Starts, InsertCommit(t) PROVE Goal
  BY <1>1, <1>2, <1>6 DEF InsertCommit, InsertReady
<1>7. ASSUME UNCHANGED startVars, \A t \in Starts : resp'[t] # 0 => resp[t] # 0 PROVE Goal
  BY <1>1, <1>2, <1>7 DEF startVars
<1>8. ASSUME NEW d \in Deletes, DeleteStep(d) \/ DeleteAbort(d)
      PROVE  UNCHANGED startVars /\ \A t \in Starts : resp'[t] # 0 => resp[t] # 0
  BY <1>8 DEF DeleteStep, dbVars, DeleteRead, DeleteNotFound, DeleteRelease, DeleteRow,
     DeleteMissedRollback, DeleteMissedCommit, DeleteCommit, DeleteAbort, DeadlockVictim
<1>9. CASE UNCHANGED vars
  BY <1>7, <1>9 DEF vars, dbVars
<1> QED
  BY <1>3, <1>4, <1>5, <1>6, <1>7, <1>8, <1>9 DEF Next, StartStep, Idle

LEMMA RemovalStep == Inv /\ TypeOK' /\ [Next]_vars => RemovalInv'
<1> DEFINE Open(d) == dpc[d] \in {"release", "delete", "commit"}
           Fact(d) == /\ target[d] \in Starts
                      /\ num[d] # 0 /\ num[d] \in Used \cup freed
                      /\ pc[target[d]] = "done"
                      /\ resp[target[d]] # 0 => resp[target[d]] = num[d]
                      /\ dpc[d] # "release" /\ resp[target[d]] # 0
                            => pending[d] \/ num[d] \in freed
<1> SUFFICES ASSUME Inv, TypeOK', [Next]_vars, NEW d \in Deletes, Open(d)'
             PROVE  Fact(d)'
  BY DEF RemovalInv, Held
<1>1. Used \cup freed \subseteq Used' \cup freed'
  BY HeldGrows
<1>2. Open(d) => Fact(d)
  BY DEF Inv, RemovalInv, Held
<1> USE DEF Inv, TypeOK
\* A start leaves the sessions of open removals alone, and takes from
\* freed_respondent_ids only a number that no response has.
<1>3. ASSUME NEW s \in Starts, InsertCommit(s) PROVE Fact(d)'
  <2>1. Fact(d) /\ UNCHANGED deleteVars
    BY <1>2, <1>3 DEF InsertCommit, deleteVars
  <2>2. target[d] # s
    BY <2>1, <1>3 DEF InsertCommit, InsertReady
  <2>3. resp'[target[d]] = resp[target[d]] /\ pc'[target[d]] = "done"
    BY <2>1, <2>2, <1>3 DEF InsertCommit
  <2>4. resp[target[d]] # 0 => num[d] # cand[s]
    BY <2>1, <1>3 DEF InsertCommit, Conflicts, Used
  <2>5. resp[target[d]] # 0 /\ num[d] \in freed => num[d] \in freed'
    BY <2>4, <1>3 DEF InsertCommit
  <2> QED
    BY <1>1, <2>1, <2>3, <2>5 DEF deleteVars
<1>4. ASSUME NEW s \in Starts,
             \/ ClaimFreed(s) \/ NothingFreed(s) \/ NextNumber(s) \/ InsertRetry(s)
             \/ InsertGiveUp(s) \/ StartAbort(s)
      PROVE  Fact(d)'
  <2>1. Fact(d) /\ UNCHANGED <<dbVars, deleteVars>>
    BY <1>2, <1>4 DEF ClaimFreed, NothingFreed, NextNumber, InsertRetry, InsertGiveUp,
       StartAbort, deleteVars
  <2>2. pc'[target[d]] = "done"
    BY <2>1, <1>4 DEF ClaimFreed, NothingFreed, NextNumber, InsertRetry, InsertGiveUp,
       StartAbort, InsertReady, StartEnded
  <2> QED
    BY <1>1, <2>1, <2>2 DEF dbVars, deleteVars
<1>5. ASSUME NEW e \in Deletes, DeleteRead(e) PROVE Fact(d)'
  <2>1. CASE d = e
    <3>1. /\ target'[d] \in Starts /\ resp[target'[d]] # 0 /\ num'[d] = resp[target'[d]]
          /\ dpc'[d] = "release" /\ UNCHANGED <<dbVars, startVars>>
      BY <1>5, <2>1 DEF DeleteRead
    <3>2. num'[d] \in Used /\ pc[target'[d]] = "done"
      BY <3>1 DEF Used, CandidateInv
    <3> QED
      BY <3>1, <3>2, <1>1 DEF startVars, dbVars
  <2>2. CASE d # e
    BY <1>1, <1>2, <1>5, <2>2 DEF DeleteRead, dbVars, startVars
  <2> QED
    BY <2>1, <2>2
<1>6. ASSUME NEW e \in Deletes, DeleteRelease(e) PROVE Fact(d)'
  <2>1. Fact(d)
    BY <1>2, <1>6 DEF DeleteRelease
  <2>2. d = e => pending'[d] \/ num[d] \in freed
    BY <1>6 DEF DeleteRelease, Releases
  <2>3. d # e => pending'[d] = pending[d] /\ dpc'[d] = dpc[d]
    BY <1>6 DEF DeleteRelease
  <2> QED
    BY <1>1, <1>6, <2>1, <2>2, <2>3 DEF DeleteRelease, dbVars, startVars
<1>7. ASSUME NEW e \in Deletes, DeleteRow(e) PROVE Fact(d)'
  BY <1>1, <1>2, <1>7 DEF DeleteRow, DeleteReady, dbVars, startVars
<1>8. ASSUME NEW e \in Deletes, DeleteCommit(e) \/ DeleteMissedCommit(e) PROVE Fact(d)'
  <2>1. d # e /\ Open(d) /\ Fact(d) /\ pending'[d] = pending[d] /\ dpc'[d] = dpc[d]
    BY <1>2, <1>8 DEF DeleteCommit, DeleteMissedCommit
  <2>2. freed \subseteq freed' /\ \A t \in Starts : resp'[t] # 0 => resp'[t] = resp[t]
    BY <1>8 DEF DeleteCommit, DeleteMissedCommit
  <2> QED
    BY <1>1, <1>8, <2>1, <2>2 DEF DeleteCommit, DeleteMissedCommit, startVars
<1>9. ASSUME NEW e \in Deletes,
             \/ DeleteNotFound(e) \/ DeleteMissedRollback(e) \/ DeleteAbort(e)
             \/ DeadlockVictim(e)
      PROVE  Fact(d)'
  <2>1. d # e /\ Fact(d) /\ pending'[d] = pending[d] /\ dpc'[d] = dpc[d]
    BY <1>2, <1>9 DEF DeleteNotFound, DeleteMissedRollback, DeleteAbort, DeadlockVictim
  <2> QED
    BY <1>1, <1>9, <2>1 DEF DeleteNotFound, DeleteMissedRollback, DeleteAbort,
       DeadlockVictim, dbVars, startVars
<1>10. CASE UNCHANGED vars
  BY <1>1, <1>2, <1>10 DEF vars, dbVars, startVars, deleteVars
<1> QED
  BY <1>3, <1>4, <1>5, <1>6, <1>7, <1>8, <1>9, <1>10 DEF Next, StartStep, DeleteStep, Idle

-----------------------------------------------------------------------------
LEMMA InvStep == Inv /\ [Next]_vars => Inv'
<1> SUFFICES ASSUME Inv, [Next]_vars PROVE Inv'
  OBVIOUS
<1>1. TypeOK'
  BY TypeStep DEF Inv
<1> QED
  BY <1>1, UniqueStep, NoNumberLostStep, TasksStep, CandidateStep, PayloadStep,
     RemovalStep DEF Inv

LEMMA SpecInv == Spec => []Inv
BY InitInv, InvStep, PTL DEF Spec

(* Every variable keeps its type: a start that runs out of retries stops   *)
(* counting, and only numbers that were given out are ever freed.          *)
THEOREM TypeCorrect == Spec => []TypeOK
BY SpecInv, PTL DEF Inv

(* Whatever the number of concurrent starts and removals, no two responses *)
(* of the study get the same respondent number.                            *)
THEOREM NumbersAreUnique == Spec => []UniqueNumbers
BY SpecInv, PTL DEF Inv

(* Rollbacks, crashes, lost races between removals and reused numbers      *)
(* leave no gap: the numbers in circulation are always 1..n for some n.    *)
THEOREM NumbersAreNotLost == Spec => []NoNumberLost
BY SpecInv, PTL DEF Inv

(* The tasks a response was given are those generated for its number.      *)
THEOREM TasksMatchNumber == Spec => []TasksOfOwnNumber
BY SpecInv, PTL DEF Inv

-----------------------------------------------------------------------------
(* What the two action properties rest on.  A start whose transaction      *)
(* deleted a freed row is the only one that did, and the row is still      *)
(* committed; a start that nobody has overtaken and that took MAX + 1 has  *)
(* its candidate for itself.                                               *)
ClaimInv ==
    /\ \A s \in Starts : claimed[s] => pc[s] = "insert" /\ cand[s] \in freed
    /\ \A s, t \in Starts : claimed[s] /\ claimed[t] /\ cand[s] = cand[t] => s = t
    /\ \A s \in Starts :
        pc[s] = "insert" /\ ~claimed[s] /\ ~overtaken[s] => cand[s] \notin Used

(* One removal at a time holds the lock of a response row, and the row a   *)
(* removal has deleted stays until that removal commits.                   *)
LockInv ==
    /\ \A d, e \in Deletes : HoldsRow(d) /\ HoldsRow(e) /\ target[d] = target[e] => d = e
    /\ \A d \in Deletes : dpc[d] = "commit" => resp[target[d]] # 0

LEMMA InitClaimLock == Init => ClaimInv /\ LockInv
BY DEF Init, ClaimInv, LockInv, HoldsRow, LocksFirst

LEMMA ClaimStep == Inv /\ ClaimInv /\ [Next]_vars => ClaimInv'
<1> SUFFICES ASSUME Inv, ClaimInv, [Next]_vars PROVE ClaimInv'
  OBVIOUS
<1> USE DEF Inv, TypeOK, ClaimInv
<1>1. ASSUME NEW s \in Starts, ClaimFreed(s) PROVE ClaimInv'
  <2>1. cand'[s] \in freed /\ cand'[s] \notin ClaimedRows
    BY <1>1 DEF ClaimFreed, SmallestFreed
  <2>2. \A t \in Starts : claimed[t] => cand[t] \in ClaimedRows
    BY DEF ClaimedRows
  <2>3. \A t \in Starts : t # s => cand'[t] = cand[t] /\ claimed'[t] = claimed[t] /\ pc'[t] = pc[t]
    BY <1>1 DEF ClaimFreed
  <2>4. claimed'[s] /\ pc'[s] = "insert" /\ UNCHANGED <<resp, freed, overtaken>>
    BY <1>1 DEF ClaimFreed, dbVars
  <2> QED
    BY <2>1, <2>2, <2>3, <2>4 DEF Used
<1>2. ASSUME NEW s \in Starts, NextNumber(s) PROVE ClaimInv'
  <2>1. ~claimed[s]
    BY <1>2 DEF NextNumber
  <2>2. cand'[s] \in Numbers /\ \A m \in Used : m < cand'[s]
    BY <1>2 DEF NextNumber, IsNextNumber
  <2>3. cand'[s] \notin Used
    BY <2>2, SlotsAssumption DEF Numbers, SlotsAssumption
  <2> QED
    BY <1>2, <2>1, <2>3 DEF NextNumber, dbVars, Used
\* The row that is published takes its number from nobody who claimed another
\* one, and whoever is still inserting counts as overtaken.
<1>3. ASSUME NEW s \in Starts, InsertCommit(s) PROVE ClaimInv'
  <2>1. \A t \in Starts : t # s /\ claimed'[t] => cand[t] \in freed'
    BY <1>3 DEF InsertCommit
  <2>2. \A t \in Starts : t # s /\ pc[t] = "insert" => overtaken'[t]
    BY <1>3 DEF InsertCommit, Running
  <2> QED
    BY <1>3, <2>1, <2>2 DEF InsertCommit
<1>4. ASSUME NEW s \in Starts,
             NothingFreed(s) \/ InsertRetry(s) \/ InsertGiveUp(s) \/ StartAbort(s)
      PROVE  ClaimInv'
  BY <1>4 DEF NothingFreed, InsertRetry, InsertGiveUp, StartAbort, dbVars, Used
<1>5. ASSUME UNCHANGED startVars, freed \subseteq freed', Used' \subseteq Used
      PROVE  ClaimInv'
  BY <1>5 DEF startVars
<1>6. ASSUME NEW d \in Deletes, DeleteStep(d) \/ DeleteAbort(d)
      PROVE  UNCHANGED startVars /\ freed \subseteq freed' /\ Used' \subseteq Used
  <2>1. CASE DeleteCommit(d)
    BY <2>1 DEF DeleteCommit, Used
  <2>2. CASE ~DeleteCommit(d)
    BY <1>6, <2>2 DEF DeleteStep, dbVars, DeleteRead, DeleteNotFound, DeleteRelease,
       DeleteRow, DeleteMissedRollback, DeleteMissedCommit, DeleteAbort,
       DeadlockVictim, Used
  <2> QED
    BY <2>1, <2>2
<1>7. CASE UNCHANGED vars
  BY <1>5, <1>7 DEF vars, dbVars, Used
<1> QED
  BY <1>1, <1>2, <1>3, <1>4, <1>5, <1>6, <1>7 DEF Next, StartStep, Idle

LEMMA LockStep == Inv /\ LockInv /\ [Next]_vars => LockInv'
<1> SUFFICES ASSUME Inv, LockInv, [Next]_vars PROVE LockInv'
  OBVIOUS
<1> USE DEF Inv, TypeOK, LockInv, HoldsRow, LocksFirst
<1>1. ASSUME NEW d \in Deletes, DeleteRead(d) PROVE LockInv'
  <2>1. path'[d] = "reject" => ~RowLocked(target'[d])
    BY <1>1 DEF DeleteRead
  <2>2. /\ \A e \in Deletes : e # d => /\ path'[e] = path[e] /\ target'[e] = target[e]
                                       /\ dpc'[e] = dpc[e]
        /\ dpc'[d] = "release" /\ UNCHANGED resp
    BY <1>1 DEF DeleteRead, dbVars
  <2> QED
    BY <2>1, <2>2 DEF RowLocked
<1>2. ASSUME NEW d \in Deletes, DeleteRow(d) PROVE LockInv'
  BY <1>2 DEF DeleteRow, DeleteReady, dbVars
<1>3. ASSUME NEW d \in Deletes, DeleteCommit(d) PROVE LockInv'
  <2>1. \A e \in Deletes : e # d /\ dpc[e] = "commit" => target[e] # target[d]
    BY <1>3 DEF DeleteCommit
  <2>2. \A e \in Deletes : dpc[e] = "commit" => target[e] \in Starts
    BY DEF RemovalInv
  <2> QED
    BY <1>3, <2>1, <2>2 DEF DeleteCommit
<1>4. ASSUME NEW d \in Deletes, DeleteRelease(d) PROVE LockInv'
  BY <1>4 DEF DeleteRelease, dbVars
<1>5. ASSUME NEW d \in Deletes,
             \/ DeleteNotFound(d) \/ DeleteMissedRollback(d) \/ DeleteMissedCommit(d)
             \/ DeleteAbort(d) \/ DeadlockVictim(d)
      PROVE  LockInv'
  BY <1>5 DEF DeleteNotFound, DeleteMissedRollback, DeleteMissedCommit, DeleteAbort,
     DeadlockVictim, dbVars
<1>6. ASSUME NEW s \in Starts, InsertCommit(s) PROVE LockInv'
  <2>1. \A d \in Deletes : dpc[d] = "commit" => target[d] \in Starts
    BY DEF RemovalInv
  <2>2. cand[s] # 0
    BY <1>6 DEF InsertCommit, InsertReady, CandidateInv
  <2> QED
    BY <1>6, <2>1, <2>2 DEF InsertCommit, deleteVars
<1>7. CASE UNCHANGED <<resp, deleteVars>>
  BY <1>7 DEF deleteVars
<1> QED
  BY <1>1, <1>2, <1>3, <1>4, <1>5, <1>6, <1>7 DEF Next, StartStep, DeleteStep, Idle,
     vars, dbVars, ClaimFreed, NothingFreed, NextNumber, InsertRetry, InsertGiveUp,
     StartAbort

LEMMA SpecClaimLock == Spec => [](Inv /\ ClaimInv /\ LockInv)
BY InitInv, InitClaimLock, InvStep, ClaimStep, LockStep, PTL DEF Spec

(* A start that answers 503 has met the unique constraint once more, and   *)
(* its candidate was taken by somebody who committed after it was chosen,  *)
(* or is a freed number that a response still holds.                       *)
LEMMA BusyStep ==
    ASSUME Inv, ClaimInv, [Next]_vars,
           NEW s \in Starts, pc[s] # "busy", pc'[s] = "busy"
    PROVE  overtaken[s] \/ (claimed[s] /\ cand[s] \in freed)
<1> USE DEF Inv, TypeOK
<1>1. ASSUME NEW t \in Starts,
             \/ ClaimFreed(t) \/ NothingFreed(t) \/ NextNumber(t) \/ InsertCommit(t)
             \/ InsertRetry(t) \/ StartAbort(t)
      PROVE  FALSE
  BY <1>1 DEF ClaimFreed, NothingFreed, NextNumber, InsertCommit, InsertRetry, StartAbort
<1>2. ASSUME UNCHANGED startVars PROVE FALSE
  BY <1>2 DEF startVars
<1>3. ASSUME NEW d \in Deletes, DeleteStep(d) \/ DeleteAbort(d) PROVE FALSE
  <2>1. UNCHANGED startVars
    BY <1>3 DEF DeleteStep, DeleteRead, DeleteNotFound, DeleteRelease, DeleteRow,
       DeleteMissedRollback, DeleteMissedCommit, DeleteCommit, DeleteAbort, DeadlockVictim
  <2> QED
    BY <1>2, <2>1
<1>4. PICK t \in Starts : InsertGiveUp(t)
  BY <1>1, <1>2, <1>3 DEF Next, StartStep, Idle, vars
<1>5. t = s /\ pc[s] = "insert" /\ cand[s] \in Used
  BY <1>4 DEF InsertGiveUp, InsertReady, Conflicts
<1> QED
  BY <1>5 DEF ClaimInv

(* The removal that ends put back at most the number of the row that its   *)
(* own commit takes away, which nobody else has.                           *)
LEMMA ReleaseStep ==
    ASSUME Inv, LockInv, [Next]_vars, NEW d \in Deletes,
           path[d] # "by_id", dpc[d] \notin DeleteEnded, dpc'[d] \in DeleteEnded
    PROVE  (freed' \ freed) \cap Used' = {}
<1> USE DEF Inv, TypeOK
<1>1. CASE DeleteCommit(d)
  <2>1. target[d] \in Starts /\ resp[target[d]] = num[d] /\ num[d] # 0
    BY <1>1 DEF DeleteCommit, LockInv, RemovalInv
  <2>2. \A t \in Starts : t # target[d] => resp[t] # num[d]
    BY <2>1 DEF UniqueNumbers
  <2>3. num[d] \notin Used'
    BY <1>1, <2>1, <2>2 DEF DeleteCommit, Used
  <2> QED
    BY <1>1, <2>3 DEF DeleteCommit
<1>2. ASSUME NEW e \in Deletes, e # d, DeleteStep(e) \/ DeleteAbort(e) PROVE FALSE
  BY <1>2 DEF DeleteStep, DeleteRead, DeleteNotFound, DeleteRelease, DeleteRow,
     DeleteMissedRollback, DeleteMissedCommit, DeleteCommit, DeleteAbort, DeadlockVictim
<1>3. ~DeleteMissedCommit(d)
  BY DEF DeleteMissedCommit, ChecksRowcount
<1>4. CASE UNCHANGED deleteVars
  BY <1>4 DEF deleteVars
<1>5. CASE UNCHANGED freed
  BY <1>5
<1> QED
  BY <1>1, <1>2, <1>3, <1>4, <1>5 DEF Next, StartStep, DeleteStep, Idle, vars, dbVars,
     ClaimFreed, NothingFreed, NextNumber, InsertCommit, InsertRetry, InsertGiveUp,
     StartAbort, DeleteRead, DeleteNotFound, DeleteRelease, DeleteRow,
     DeleteMissedRollback, DeleteAbort, DeadlockVictim

(* A start answers 503 only after another one overtook it, or because the  *)
(* freed number it keeps claiming is still held by a response: running out *)
(* of retries is never a start's own doing.                                *)
THEOREM BusyExplained == Spec => BusyIsExplained
<1>1. Inv /\ ClaimInv /\ [Next]_vars =>
        [\A s \in Starts : pc[s] # "busy" /\ pc'[s] = "busy"
            => overtaken[s] \/ (claimed[s] /\ cand[s] \in freed)]_vars
  BY BusyStep
<1> QED
  BY <1>1, SpecClaimLock, PTL DEF Spec, BusyIsExplained

(* For any number of removals that race for the same rows: one that checks *)
(* its rowcount puts back only a number that nobody holds any more.        *)
THEOREM ReleasedAreVacated == Spec => ReleaseOnlyVacated
<1>1. Inv /\ LockInv /\ [Next]_vars =>
        [\A d \in Deletes :
            path[d] # "by_id" /\ dpc[d] \notin DeleteEnded /\ dpc'[d] \in DeleteEnded
                => (freed' \ freed) \cap Used' = {}]_vars
  BY ReleaseStep
<1> QED
  BY <1>1, SpecClaimLock, PTL DEF Spec, ReleaseOnlyVacated
=============================================================================
