--------------------------- MODULE JobUpdatesProofs ---------------------------
(***************************************************************************)
(* Theorems about JobUpdates, for any streams and any number of progress   *)
(* updates.  That a stream which is subscribed in time closes in the end   *)
(* is liveness and stays with TLC; what it rests on is safety and proved   *)
(* here: the message that ends the stream is waiting in its channel, and   *)
(* neither earlier messages nor later ones push it out.                    *)
(***************************************************************************)
EXTENDS JobUpdates, TLAPS

FillType == [place : {"idle", "jobs", "rows", "write"}, job : Statuses, row : Shown,
             batch : {"own", "skipped", "foreign"}]

TypeInv ==
    /\ notifyFirst \in BOOLEAN
    /\ job \in Statuses
    /\ pub \in [place : {"work", "commit", "publish", "user", "upsert", "write", "done"},
                update : Updates, left : 0 .. MaxProgress, job : Statuses, row : Shown]
    /\ told \in {"no", "published", "lost", "never"}
    /\ socket \in [Sockets -> [place : {"new", "checked", "accepted", "subscribed", "closed"},
                               inbox : Seq(Updates)]]
    /\ subscribedBefore \subseteq Sockets
    /\ note \in [status : Shown, dismissed : BOOLEAN]
    /\ fill \in FillType
    /\ gate \in BOOLEAN
    /\ cache \in Shown \cup {NotCached}
    /\ look \in [place : {"idle", "read"}, list : Shown]

\* A sequence of updates that ends a stream sooner or later.
HasEnd(inbox) == \E i \in 1 .. Len(inbox) : inbox[i] \in Final

HeardBy(s) == s \in subscribedBefore =>
    /\ socket[s].place \in {"subscribed", "closed"}
    /\ told = "published" => Closed(s) \/ HasEnd(socket[s].inbox)

Inv == TypeInv /\ \A s \in Sockets : HeardBy(s)

\* Once the end of a job is published, each stream that was subscribed before is
\* closed or has the end in its channel.
EndIsHeard == told = "published" =>
    \A s \in subscribedBefore : Closed(s) \/ HasEnd(socket[s].inbox)

-----------------------------------------------------------------------------
(* Messages in a channel *)

LEMMA AppendKeepsEnd ==
    ASSUME NEW inbox \in Seq(Updates), NEW u \in Updates
    PROVE  /\ Append(inbox, u) \in Seq(Updates)
           /\ HasEnd(inbox) \/ u \in Final => HasEnd(Append(inbox, u))
<1>1. /\ Append(inbox, u) \in Seq(Updates) /\ Len(Append(inbox, u)) = Len(inbox) + 1
      /\ \A i \in 1 .. Len(inbox) : Append(inbox, u)[i] = inbox[i]
      /\ Append(inbox, u)[Len(inbox) + 1] = u
      /\ Len(inbox) \in Nat
  OBVIOUS
<1> DEFINE new == Append(inbox, u)
<1>2. ASSUME u \in Final PROVE HasEnd(new)
  BY <1>1, <1>2 DEF HasEnd
<1>3. ASSUME HasEnd(inbox) PROVE HasEnd(new)
  <2>1. PICK i \in 1 .. Len(inbox) : inbox[i] \in Final
    BY <1>3 DEF HasEnd
  <2>2. i \in 1 .. Len(new) /\ new[i] \in Final
    BY <1>1, <2>1
  <2> QED
    BY <2>2 DEF HasEnd
<1> QED
  BY <1>1, <1>2, <1>3

LEMMA TailKeepsEnd ==
    ASSUME NEW inbox \in Seq(Updates), inbox # <<>>
    PROVE  /\ Tail(inbox) \in Seq(Updates)
           /\ HasEnd(inbox) /\ Head(inbox) \notin Final => HasEnd(Tail(inbox))
<1>1. /\ Tail(inbox) \in Seq(Updates) /\ Len(Tail(inbox)) = Len(inbox) - 1
      /\ \A i \in 1 .. Len(Tail(inbox)) : Tail(inbox)[i] = inbox[i + 1]
      /\ Head(inbox) = inbox[1] /\ Len(inbox) \in Nat
  OBVIOUS
<1>2. ASSUME HasEnd(inbox), Head(inbox) \notin Final PROVE HasEnd(Tail(inbox))
  <2>1. PICK i \in 1 .. Len(inbox) : inbox[i] \in Final
    BY <1>2 DEF HasEnd
  <2>2. i # 1
    BY <1>1, <1>2, <2>1
  <2>3. i - 1 \in 1 .. Len(Tail(inbox)) /\ Tail(inbox)[i - 1] = inbox[i]
    BY <1>1, <2>1, <2>2
  <2> QED
    BY <2>1, <2>3 DEF HasEnd
<1> QED
  BY <1>1, <1>2

-----------------------------------------------------------------------------
(* The invariant *)

LEMMA InitInv == Init => Inv
<1> SUFFICES ASSUME Init PROVE Inv
  OBVIOUS
<1>1. socket \in [Sockets -> [place : {"new", "checked", "accepted", "subscribed", "closed"},
                              inbox : Seq(Updates)]]
  BY DEF Init
<1>2. pub \in [place : {"work", "commit", "publish", "user", "upsert", "write", "done"},
               update : Updates, left : 0 .. MaxProgress, job : Statuses, row : Shown]
  BY MaxProgressAssumption DEF Init, Updates, Statuses, Shown
<1>3. TypeInv
  BY <1>1, <1>2 DEF TypeInv, FillType, NoFill, Init, Statuses, Shown, NotCached
<1> QED
  BY <1>3 DEF Inv, HeardBy, Init

\* Nothing is heard or forgotten where streams are left alone, and the end is
\* not published.
LEMMA Unheard ==
    ASSUME Inv, UNCHANGED streamVars, told' = told \/ told' # "published"
    PROVE  \A s \in Sockets : HeardBy(s)'
  BY DEF Inv, HeardBy, Closed, streamVars

LEMMA ExecutionTypes ==
    ASSUME Inv, ExecutionStep \/ ExecutionDies \/ CancelJob
    PROVE  /\ notifyFirst' \in BOOLEAN /\ job' \in Statuses
           /\ pub' \in [place : {"work", "commit", "publish", "user", "upsert", "write", "done"},
                        update : Updates, left : 0 .. MaxProgress, job : Statuses, row : Shown]
           /\ told' \in {"no", "published", "lost", "never"}
<1>1. CASE NextUpdate
  <2>1. PICK u \in Updates :
            /\ u = "progress" => pub.left > 0
            /\ pub' = [pub EXCEPT !.update = u,
                                  !.left = IF u = "progress" THEN @ - 1 ELSE @,
                                  !.place = IF PublishesFirst(u) THEN "publish" ELSE "commit"]
    BY <1>1 DEF NextUpdate, ProgressLeft
  <2> DEFINE left == IF u = "progress" THEN pub.left - 1 ELSE pub.left
  <2>2. left \in 0 .. MaxProgress
    BY <2>1, MaxProgressAssumption DEF Inv, TypeInv
  <2> QED
    BY <1>1, <2>1, <2>2 DEF NextUpdate, Inv, TypeInv
<1>2. CASE CommitUpdate
  BY <1>2 DEF CommitUpdate, Inv, TypeInv, IsFinal, Final, Statuses, Ended
<1>3. CASE Publish
  BY <1>3 DEF Publish, Inv, TypeInv
<1>4. CASE PublishUser
  BY <1>4 DEF PublishUser, AfterUpdate, Inv, TypeInv
<1>5. CASE ReadRow
  BY <1>5 DEF ReadRow, Inv, TypeInv
<1>6. CASE WriteRow
  BY <1>6 DEF WriteRow, AfterUpdate, Inv, TypeInv, Shown, Statuses
<1>7. CASE ExecutionDies
  BY <1>7 DEF ExecutionDies, Inv, TypeInv
<1>8. CASE CancelJob
  BY <1>8 DEF CancelJob, Inv, TypeInv, Statuses, Ended
<1> QED
  BY <1>1, <1>2, <1>3, <1>4, <1>5, <1>6, <1>7, <1>8 DEF ExecutionStep

LEMMA UpsertedType ==
    ASSUME Inv, NEW seen \in Shown, NEW status \in Shown
    PROVE  /\ Upserted(seen, status) \in [status : Shown, dismissed : BOOLEAN]
           /\ Upserted(seen, status).dismissed = note.dismissed
  BY DEF Upserted, Inv, TypeInv

\* The execution.
LEMMA ExecutionInv ==
    ASSUME Inv, ExecutionStep \/ ExecutionDies \/ CancelJob
    PROVE  Inv'
<1>1. CASE Publish
  <2>1. UNCHANGED <<subscribedBefore, noteVars>> /\ pub.update \in Updates
    BY <1>1 DEF Publish, Inv, TypeInv
  <2>2. CASE /\ socket' = [s \in Sockets |->
                   IF Delivered(s) THEN [socket[s] EXCEPT !.inbox = Append(@, pub.update)]
                                   ELSE socket[s]]
             /\ told' = IF IsFinal THEN "published" ELSE told
    <3>1. ASSUME NEW s \in Sockets
          PROVE  /\ socket'[s] \in [place : {"new", "checked", "accepted", "subscribed", "closed"},
                                    inbox : Seq(Updates)]
                 /\ HeardBy(s)'
      <4>1. /\ Append(socket[s].inbox, pub.update) \in Seq(Updates)
            /\ HasEnd(socket[s].inbox) \/ pub.update \in Final =>
                  HasEnd(Append(socket[s].inbox, pub.update))
        BY <2>1, AppendKeepsEnd DEF Inv, TypeInv
      <4>2. CASE Delivered(s)
        <5>1. socket'[s] = [socket[s] EXCEPT !.inbox = Append(socket[s].inbox, pub.update)]
          BY <2>2, <4>2
        <5>2. /\ socket'[s].place = "subscribed"
              /\ socket'[s].inbox = Append(socket[s].inbox, pub.update)
          BY <4>2, <5>1 DEF Delivered, Inv, TypeInv
        <5>3. socket'[s] \in [place : {"new", "checked", "accepted", "subscribed", "closed"},
                              inbox : Seq(Updates)]
          BY <4>1, <5>1 DEF Inv, TypeInv
        <5> QED
          BY <2>1, <2>2, <4>1, <4>2, <5>2, <5>3
             DEF Inv, HeardBy, Closed, IsFinal, Delivered
      <4>3. CASE ~Delivered(s)
        BY <2>1, <2>2, <4>3 DEF Inv, TypeInv, HeardBy, Closed, Delivered
      <4> QED
        BY <4>2, <4>3
    <3>2. socket' \in [Sockets -> [place : {"new", "checked", "accepted", "subscribed", "closed"},
                                   inbox : Seq(Updates)]]
      BY <2>2, <3>1
    <3>3. TypeInv'
      BY <2>1, <3>2, ExecutionTypes DEF Inv, TypeInv, noteVars
    <3> QED
      BY <3>1, <3>3 DEF Inv
  <2>3. CASE UNCHANGED socket /\ told' = IF IsFinal THEN "lost" ELSE told
    <3>1. TypeInv'
      BY <2>1, <2>3, ExecutionTypes DEF Inv, TypeInv, noteVars
    <3>2. \A s \in Sockets : HeardBy(s)'
      BY <2>1, <2>3, Unheard DEF streamVars
    <3> QED
      BY <3>1, <3>2 DEF Inv
  <2> QED
    BY <1>1, <2>2, <2>3 DEF Publish
<1>2. CASE ~Publish
  <2>1. UNCHANGED streamVars /\ (told' = told \/ told' = "never")
    BY <1>2 DEF ExecutionStep, NextUpdate, CommitUpdate, PublishUser, ReadRow, WriteRow,
       ExecutionDies, CancelJob
  <2>2. /\ note' \in [status : Shown, dismissed : BOOLEAN] /\ cache' \in Shown \cup {NotCached}
        /\ UNCHANGED <<fill, gate, look>>
    <3>1. CASE WriteRow
      <4>1. note' \in [status : Shown, dismissed : BOOLEAN]
        BY <3>1, UpsertedType DEF WriteRow, Inv, TypeInv, Shown
      <4> QED
        BY <3>1, <4>1 DEF WriteRow, Inv, TypeInv
    <3>2. CASE ~WriteRow
      BY <1>2, <3>2 DEF ExecutionStep, NextUpdate, CommitUpdate, PublishUser, ReadRow,
         ExecutionDies, CancelJob, noteVars, Inv, TypeInv
    <3> QED
      BY <3>1, <3>2
  <2>3. TypeInv'
    BY <2>1, <2>2, ExecutionTypes DEF Inv, TypeInv, streamVars
  <2> QED
    BY <2>1, <2>3, Unheard DEF Inv
<1> QED
  BY <1>1, <1>2

\* Streams.
LEMMA StreamInv ==
    ASSUME Inv, NEW s \in Sockets, SocketStep(s) \/ StreamBreaks(s)
    PROVE  Inv'
<1> DEFINE Stream == [place : {"new", "checked", "accepted", "subscribed", "closed"},
                      inbox : Seq(Updates)]
<1>1. UNCHANGED <<jobVars, noteVars>>
  BY DEF SocketStep, Connect, Recheck, Subscribe, Receive, StreamBreaks
<1>2. socket[s] \in Stream /\ socket \in [Sockets -> Stream] /\ HeardBy(s)
  BY DEF Inv, TypeInv
<1>3. ASSUME NEW new \in Stream, socket' = [socket EXCEPT ![s] = new],
             subscribedBefore' \subseteq subscribedBefore \cup {s}, HeardBy(s)'
      PROVE  Inv'
  <2>1. socket' \in [Sockets -> Stream] /\ \A r \in Sockets \ {s} : socket'[r] = socket[r]
    BY <1>2, <1>3
  <2>2. TypeInv'
    BY <1>1, <1>3, <2>1 DEF Inv, TypeInv, jobVars, noteVars
  <2>3. \A r \in Sockets \ {s} : HeardBy(r)'
    BY <1>1, <1>3, <2>1 DEF Inv, HeardBy, Closed, jobVars
  <2> QED
    BY <1>3, <2>2, <2>3 DEF Inv
<1>4. ASSUME Close(s), UNCHANGED subscribedBefore PROVE Inv'
  <2> DEFINE new == [[socket[s] EXCEPT !.place = "closed"] EXCEPT !.inbox = <<>>]
  <2>1. new \in Stream /\ socket' = [socket EXCEPT ![s] = new] /\ new.place = "closed"
    <3>1. [socket[s] EXCEPT !.place = "closed"] \in Stream /\ <<>> \in Seq(Updates)
      BY <1>2
    <3>2. new \in Stream /\ new.place = "closed"
      BY <3>1
    <3>3. socket' = [socket EXCEPT ![s] = new]
      BY <1>2, <1>4, Zenon DEF Close
    <3> QED
      BY <3>2, <3>3
  <2> HIDE DEF new
  <2>2. HeardBy(s)'
    BY <1>2, <2>1 DEF HeardBy, Closed
  <2> QED
    BY <1>3, <1>4, <2>1, <2>2
<1>5. ASSUME NEW place \in {"checked", "accepted"}, socket[s].place \notin {"subscribed", "closed"},
             socket' = [socket EXCEPT ![s].place = place], UNCHANGED subscribedBefore
      PROVE  Inv'
  <2> DEFINE new == [socket[s] EXCEPT !.place = place]
  <2>1. new \in Stream /\ socket' = [socket EXCEPT ![s] = new]
    BY <1>2, <1>5
  <2> HIDE DEF new
  <2>2. HeardBy(s)'
    BY <1>2, <1>5 DEF HeardBy
  <2> QED
    BY <1>3, <1>5, <2>1, <2>2
<1>6. CASE Connect(s)
  BY <1>4, <1>5, <1>6 DEF Connect
<1>7. CASE Recheck(s)
  BY <1>4, <1>5, <1>7 DEF Recheck
<1>8. CASE Subscribe(s)
  <2> DEFINE new == [socket[s] EXCEPT !.place = "subscribed"]
  <2>1. new \in Stream /\ socket' = [socket EXCEPT ![s] = new] /\ new.place = "subscribed"
    BY <1>2, <1>8 DEF Subscribe
  <2> HIDE DEF new
  <2>2. /\ subscribedBefore' = IF told = "no" THEN subscribedBefore \cup {s} ELSE subscribedBefore
        /\ socket[s].place = "accepted" /\ told' = told
    BY <1>1, <1>8 DEF Subscribe, jobVars
  <2>3. HeardBy(s)'
    BY <1>2, <2>1, <2>2 DEF HeardBy, Closed
  <2>4. subscribedBefore' \subseteq subscribedBefore \cup {s}
    BY <2>2
  <2> QED
    BY <1>3, <2>1, <2>3, <2>4
<1>9. CASE Receive(s)
  <2>1. CASE EndsStream(Head(socket[s].inbox))
    BY <1>4, <1>9, <2>1 DEF Receive
  <2>2. CASE ~EndsStream(Head(socket[s].inbox))
    <3> DEFINE new == [socket[s] EXCEPT !.inbox = Tail(socket[s].inbox)]
    <3>1. /\ Tail(socket[s].inbox) \in Seq(Updates)
          /\ HasEnd(socket[s].inbox) => HasEnd(Tail(socket[s].inbox))
      BY <1>2, <1>9, <2>2, TailKeepsEnd DEF Receive, EndsStream
    <3>2. /\ new \in Stream /\ socket' = [socket EXCEPT ![s] = new]
          /\ new.place = socket[s].place /\ new.inbox = Tail(socket[s].inbox)
      BY <1>2, <1>9, <2>2, <3>1 DEF Receive
    <3> HIDE DEF new
    <3>3. told' = told /\ subscribedBefore' = subscribedBefore
      BY <1>1, <1>9 DEF Receive, jobVars
    <3>4. HeardBy(s)'
      BY <1>2, <3>1, <3>2, <3>3 DEF HeardBy, Closed
    <3> QED
      BY <1>3, <3>2, <3>3, <3>4
  <2> QED
    BY <2>1, <2>2
<1>10. CASE StreamBreaks(s)
  BY <1>4, <1>10 DEF StreamBreaks
<1> QED
  BY <1>6, <1>7, <1>8, <1>9, <1>10 DEF SocketStep

\* Notifications.
LEMMA NoteInv ==
    ASSUME Inv, Dismiss \/ LookStep \/ FillStep \/ CacheExpires \/ GateExpires \/ GuestInserts
    PROVE  Inv'
<1>1. UNCHANGED <<jobVars, streamVars>>
  BY DEF Dismiss, LookStep, LookRows, LookFills, FillStep, FillJobs, FillRows, FillWrite,
     CacheExpires, GateExpires, GuestInserts
<1>2. /\ note' \in [status : Shown, dismissed : BOOLEAN]
      /\ fill' \in FillType
      /\ gate' \in BOOLEAN /\ cache' \in Shown \cup {NotCached}
      /\ look' \in [place : {"idle", "read"}, list : Shown]
  <2>1. CASE Dismiss
    BY <2>1 DEF Dismiss, Inv, TypeInv, Shown
  <2>2. CASE LookRows
    BY <2>2 DEF LookRows, Listed, Inv, TypeInv, FillType, Shown
  <2>3. CASE LookFills
    BY <2>3 DEF LookFills, Inv, TypeInv, Shown
  <2>4. CASE FillJobs
    BY <2>4 DEF FillJobs, Reads, Inv, TypeInv, FillType
  <2>5. CASE FillRows
    BY <2>5 DEF FillRows, NoFill, Inv, TypeInv, FillType, Statuses, Shown
  <2>6. CASE FillWrite
    <3>1. note' \in [status : Shown, dismissed : BOOLEAN]
      BY <2>6, UpsertedType DEF FillWrite, FillResult, Inv, TypeInv, FillType, Shown
    <3> QED
      BY <2>6, <3>1 DEF FillWrite, NoFill, Inv, TypeInv, FillType, Shown, Statuses
  <2>7. CASE CacheExpires \/ GateExpires
    BY <2>7 DEF CacheExpires, GateExpires, Inv, TypeInv
  <2>8. CASE GuestInserts
    <3>1. PICK seen \in {"processing", job} : note' = Upserted("none", seen)
      BY <2>8 DEF GuestInserts
    <3>2. note' \in [status : Shown, dismissed : BOOLEAN]
      BY <3>1, UpsertedType DEF Inv, TypeInv, Shown, Statuses
    <3> QED
      BY <2>8, <3>2 DEF GuestInserts, Inv, TypeInv
  <2> QED
    BY <2>1, <2>2, <2>3, <2>4, <2>5, <2>6, <2>7, <2>8 DEF LookStep, FillStep
<1>3. TypeInv'
  BY <1>1, <1>2 DEF Inv, TypeInv, jobVars, streamVars
<1>4. \A s \in Sockets : HeardBy(s)'
  BY <1>1, Unheard DEF jobVars
<1> QED
  BY <1>3, <1>4 DEF Inv

LEMMA StepInv == Inv /\ [Next]_vars => Inv'
<1> SUFFICES ASSUME Inv, [Next]_vars PROVE Inv'
  OBVIOUS
<1>1. CASE UNCHANGED vars
  <2>1. TypeInv' /\ told' = told /\ UNCHANGED streamVars
    BY <1>1 DEF vars, jobVars, streamVars, noteVars, Inv, TypeInv
  <2> QED
    BY <2>1, Unheard DEF Inv
<1>2. CASE Next
  BY <1>2, ExecutionInv, StreamInv, NoteInv DEF Next
<1> QED
  BY <1>1, <1>2

LEMMA Invariance == Spec => []Inv
  BY InitInv, StepInv, PTL DEF Spec

-----------------------------------------------------------------------------
(* Theorems *)

\* Every variable has its type, and channels hold updates only.
THEOREM TypeCorrect == Spec => []TypeOK
<1>1. Inv => TypeOK
  <2>1. ASSUME NEW inbox \in Seq(Updates) PROVE ToSet(inbox) \subseteq Updates
    BY DEF ToSet
  <2> QED
    BY <2>1 DEF Inv, TypeInv, FillType, TypeOK
<1> QED
  BY <1>1, Invariance, PTL

\* No stream that was subscribed before the end of the job was published can miss
\* it, whatever other updates are published and received around it.
THEOREM EndHeard == Spec => []EndIsHeard
<1>1. Inv => EndIsHeard
  BY DEF Inv, TypeInv, EndIsHeard, HeardBy
<1> QED
  BY <1>1, Invariance, PTL

\* No write that has read the row before, of the execution or of a backfill, shows a
\* dismissed notification again.
THEOREM DismissalStays == Spec => DismissalIsPermanent
<1>1. Inv /\ [Next]_vars => [note.dismissed => note'.dismissed]_vars
  <2> SUFFICES ASSUME Inv, Next, note.dismissed PROVE note'.dismissed
    BY DEF vars
  <2>1. note' = note \/ WriteRow \/ Dismiss \/ FillWrite \/ GuestInserts
    BY DEF Next, ExecutionStep, NextUpdate, CommitUpdate, Publish, PublishUser, ReadRow,
       ExecutionDies, CancelJob, SocketStep, Connect, Recheck, Subscribe, Receive, StreamBreaks,
       LookStep, LookRows, LookFills, FillStep, FillJobs, FillRows, CacheExpires, GateExpires,
       noteVars
  <2>2. pub.row \in Shown /\ pub.job \in Shown /\ fill.row \in Shown /\ fill.job \in Shown
    BY DEF Inv, TypeInv, FillType, Shown
  <2>3. CASE WriteRow
    BY <2>2, <2>3, UpsertedType DEF WriteRow
  <2>4. CASE FillWrite
    BY <2>2, <2>4, UpsertedType DEF FillWrite, FillResult
  <2>5. CASE Dismiss
    BY <2>5 DEF Dismiss
  <2>6. CASE GuestInserts
    <3>1. PICK seen \in {"processing", job} : note' = Upserted("none", seen)
      BY <2>6 DEF GuestInserts
    <3> QED
      BY <3>1, UpsertedType DEF Inv, TypeInv, Shown, Statuses
  <2> QED
    BY <2>1, <2>3, <2>4, <2>5, <2>6
<1> QED
  BY <1>1, Invariance, PTL DEF Spec, DismissalIsPermanent
=============================================================================
