----------------------------- MODULE SyncProofs -----------------------------
(***************************************************************************)
(* Theorems about SyncOutbox for every number of events, of calls under    *)
(* way and of rows in a batch.                                             *)
(***************************************************************************)
EXTENDS SyncOutbox, DataTheorems

-----------------------------------------------------------------------------
(***************************************************************************)
(* The batch of a call.                                                    *)
(***************************************************************************)

\* A call that finds due rows claims some of them.
LEMMA BatchClaims ==
  ASSUME SyncAssumption, TypeOK, DueRows # {}
  PROVE  Batch # {} /\ Batch \subseteq DueRows
<1>1. DueRows \subseteq Nat
  BY DEF DueRows, TypeOK
<1>2. PICK i \in DueRows : \A j \in DueRows : ~(j < i)
  <2>1. PICK i \in DueRows : \A j \in DueRows : i <= j
    BY <1>1, LeastElement
  <2>2. \A j \in DueRows : ~(j < i)
    BY <1>1, <2>1
  <2>3. QED
    BY <2>2
<1>3. {j \in DueRows : j < i} = {}
  BY <1>2
<1>4. Cardinality({j \in DueRows : j < i}) < Limit
  BY <1>3, FS_EmptySet DEF SyncAssumption
<1>5. QED
  BY <1>4 DEF Batch

-----------------------------------------------------------------------------
(***************************************************************************)
(* The inductive invariant: types, exclusive claims, and that an answered  *)
(* request arrived.  Claims are exclusive because a row that a call holds  *)
(* is syncing, so it is not due and no other call claims it; for the same  *)
(* reason it is not final, so a call that ends touches no delivered row.   *)
(***************************************************************************)

AnsweredArrived == \A c \in Calls : calls[c].phase = "answered" => calls[c].rows \subseteq cloud

Inv == TypeOK /\ ClaimsExclusive /\ AnsweredArrived

\* Marking rows keeps the outbox an outbox of the same length.
LEMMA MarkedRows ==
  ASSUME TypeOK, NEW rows, NEW status, NEW due, [status |-> status, due |-> due] \in Row
  PROVE  /\ Marked(rows, status, due) \in Seq(Row)
         /\ Len(Marked(rows, status, due)) = Len(outbox)
<1> DEFINE marked == Marked(rows, status, due)
<1>1. outbox \in Seq(Row) /\ Len(outbox) \in Nat /\ DOMAIN outbox = 1 .. Len(outbox)
  BY DEF TypeOK
<1>2. \A i \in DOMAIN outbox : outbox[i] \in Row
  BY <1>1
<1>3. marked \in [1 .. Len(outbox) -> Row]
  BY <1>1, <1>2 DEF Marked
<1>4. QED
  BY <1>1, <1>3

LEMMA InvInitially == SyncAssumption /\ Init => Inv
<1> SUFFICES ASSUME SyncAssumption, Init PROVE Inv
  OBVIOUS
<1>1. Idle \in Call /\ Idle.rows = {} /\ Idle.phase = "idle" /\ Idle.conflicts = {}
  BY DEF Idle, Call
<1>2. outbox \in Seq(Row) /\ Len(outbox) = 0 /\ DOMAIN outbox = {}
  BY DEF Init
<1>3. \A c \in Calls : calls[c] = Idle
  BY DEF Init
<1>4. calls \in [Calls -> Call]
  BY <1>1 DEF Init
<1>5. TypeOK
  <2>1. configured \in BOOLEAN /\ cloud \subseteq DOMAIN outbox
    BY DEF Init
  <2>2. Len(outbox) <= MaxEvents
    BY <1>2 DEF SyncAssumption
  <2>3. QED
    BY <1>1, <1>2, <1>3, <1>4, <2>1, <2>2 DEF TypeOK
<1>6. ClaimsExclusive
  BY <1>1, <1>3 DEF ClaimsExclusive
<1>7. AnsweredArrived
  BY <1>1, <1>3 DEF AnsweredArrived
<1>8. QED
  BY <1>5, <1>6, <1>7 DEF Inv

LEMMA ClaimKeepsInv ==
  ASSUME SyncAssumption, Inv, NEW c \in Calls, Claim(c)
  PROVE  Inv'
<1> DEFINE call == [phase |-> "posted", rows |-> Batch, conflicts |-> {}]
<1>1. TypeOK /\ ClaimsExclusive /\ outbox \in Seq(Row)
  BY DEF Inv, TypeOK
<1>2. Batch # {} /\ Batch \subseteq DueRows /\ Batch \subseteq DOMAIN outbox
  BY <1>1, BatchClaims DEF Claim, CanClaim, DueRows
<1>3. /\ outbox' \in Seq(Row) /\ Len(outbox') = Len(outbox) /\ DOMAIN outbox' = DOMAIN outbox
      /\ \A i \in DOMAIN outbox :
           outbox'[i] = IF i \in Batch THEN [status |-> "syncing", due |-> TRUE] ELSE outbox[i]
  <2>1. [status |-> "syncing", due |-> TRUE] \in Row
    BY DEF Row, Statuses
  <2>2. outbox' \in Seq(Row) /\ Len(outbox') = Len(outbox)
    BY <1>1, <2>1, MarkedRows DEF Claim
  <2>3. QED
    BY <1>1, <2>2 DEF Claim, Marked
<1>4. Batch \in SUBSET (1 .. MaxEvents)
  BY <1>1, <1>2 DEF TypeOK, SyncAssumption
<1>5. call \in Call
  BY <1>4 DEF Call
<1>6. calls' = [calls EXCEPT ![c] = call]
  BY DEF Claim
<1>7. calls' \in [Calls -> Call]
  BY <1>1, <1>5, <1>6 DEF TypeOK
<1>8. \A d \in Calls : calls'[d] = IF d = c THEN call ELSE calls[d]
  BY <1>1, <1>6 DEF TypeOK
<1>9. TypeOK'
  <2>1. configured' \in BOOLEAN /\ Len(outbox') <= MaxEvents /\ cloud' \subseteq DOMAIN outbox'
    BY <1>1, <1>3 DEF TypeOK, Claim
  <2>2. \A d \in Calls :
          /\ calls'[d].rows \subseteq DOMAIN outbox'
          /\ calls'[d].phase = "idle" <=> calls'[d].rows = {}
          /\ calls'[d].conflicts \subseteq calls'[d].rows
    BY <1>1, <1>2, <1>3, <1>8 DEF TypeOK
  <2>3. QED
    BY <1>3, <1>7, <2>1, <2>2 DEF TypeOK
<1>10. \A d \in Calls : d # c => calls[d].rows \cap Batch = {}
  BY <1>1, <1>2 DEF ClaimsExclusive, DueRows
<1>11. calls[c].rows = {}
  BY <1>1 DEF TypeOK, Claim
<1>12. ClaimsExclusive'
  <2>1. \A d \in Calls : \A i \in calls'[d].rows : outbox'[i].status = "syncing"
    BY <1>1, <1>2, <1>3, <1>8 DEF TypeOK, ClaimsExclusive
  <2>2. \A d, e \in Calls : d # e => calls'[d].rows \cap calls'[e].rows = {}
    BY <1>1, <1>8, <1>10 DEF ClaimsExclusive
  <2>3. QED
    BY <2>1, <2>2 DEF ClaimsExclusive
<1>13. AnsweredArrived'
  BY <1>8 DEF Inv, AnsweredArrived, Claim
<1>14. QED
  BY <1>9, <1>12, <1>13 DEF Inv

\* Steps that change rows no call holds.
LEMMA RowsKeepInv ==
  ASSUME Inv, UNCHANGED <<configured, calls, cloud>>,
         outbox' \in Seq(Row), Len(outbox') <= MaxEvents,
         DOMAIN outbox \subseteq DOMAIN outbox',
         \A i \in DOMAIN outbox :
           outbox[i].status = "syncing" => outbox'[i].status = "syncing"
  PROVE  Inv'
<1>1. TypeOK'
  BY DEF Inv, TypeOK
<1>2. ClaimsExclusive'
  BY DEF Inv, TypeOK, ClaimsExclusive
<1>3. AnsweredArrived'
  BY DEF Inv, AnsweredArrived
<1>4. QED
  BY <1>1, <1>2, <1>3 DEF Inv

\* A call that ends gives back its rows and changes no others.
LEMMA EndKeepsInv ==
  ASSUME Inv, NEW c \in Calls, calls' = [calls EXCEPT ![c] = Idle],
         UNCHANGED <<configured, cloud>>,
         outbox' \in Seq(Row), Len(outbox') = Len(outbox),
         \A i \in DOMAIN outbox : i \notin calls[c].rows => outbox'[i] = outbox[i]
  PROVE  Inv'
<1>1. Idle \in Call /\ Idle.rows = {} /\ Idle.phase = "idle" /\ Idle.conflicts = {}
  BY DEF Idle, Call
<1>2. \A d \in Calls : calls'[d] = IF d = c THEN Idle ELSE calls[d]
  BY DEF Inv, TypeOK
<1>3. calls' \in [Calls -> Call] /\ DOMAIN outbox' = DOMAIN outbox
  BY <1>1 DEF Inv, TypeOK
<1>4. TypeOK'
  BY <1>1, <1>2, <1>3 DEF Inv, TypeOK
<1>5. ClaimsExclusive'
  <2>1. \A d \in Calls : \A i \in calls'[d].rows :
          d # c /\ i \in calls[d].rows /\ i \in DOMAIN outbox /\ i \notin calls[c].rows
    BY <1>1, <1>2 DEF Inv, TypeOK, ClaimsExclusive
  <2>2. \A d \in Calls : \A i \in calls'[d].rows : outbox'[i].status = "syncing"
    BY <2>1 DEF Inv, ClaimsExclusive
  <2>3. \A d, e \in Calls : d # e => calls'[d].rows \cap calls'[e].rows = {}
    BY <1>1, <1>2 DEF Inv, ClaimsExclusive
  <2>4. QED
    BY <2>2, <2>3 DEF ClaimsExclusive
<1>6. AnsweredArrived'
  BY <1>1, <1>2 DEF Inv, AnsweredArrived
<1>7. QED
  BY <1>4, <1>5, <1>6 DEF Inv

LEMMA InvPreserved ==
  ASSUME SyncAssumption, Inv, [Next]_vars
  PROVE  Inv'
<1>1. outbox \in Seq(Row) /\ Len(outbox) \in Nat /\ DOMAIN outbox = 1 .. Len(outbox)
  BY DEF Inv, TypeOK
<1>2. CASE Enqueue
  <2>1. [status |-> "pending", due |-> TRUE] \in Row
    BY DEF Row, Statuses
  <2>2. outbox' \in Seq(Row) /\ Len(outbox') = Len(outbox) + 1
    BY <1>1, <1>2, <2>1 DEF Enqueue
  <2>3. Len(outbox') <= MaxEvents
    BY <1>1, <1>2, <2>2 DEF Enqueue, SyncAssumption
  <2>4. \A i \in DOMAIN outbox : i \in DOMAIN outbox' /\ outbox'[i] = outbox[i]
    BY <1>1, <1>2, <2>2 DEF Enqueue
  <2>5. UNCHANGED <<configured, calls, cloud>>
    BY <1>2 DEF Enqueue
  <2>6. QED
    BY <2>2, <2>3, <2>4, <2>5, RowsKeepInv
<1>3. CASE Configure
  <2>1. TypeOK'
    BY <1>3 DEF Configure, Inv, TypeOK
  <2>2. QED
    BY <1>3, <2>1 DEF Configure, Inv, ClaimsExclusive, AnsweredArrived
<1>4. ASSUME NEW c \in Calls, Claim(c) PROVE Inv'
  BY <1>4, ClaimKeepsInv
<1>5. ASSUME NEW c \in Calls, Arrive(c) PROVE Inv'
  <2>1. PICK conflicts \in SUBSET calls[c].rows :
          calls' = [calls EXCEPT ![c].phase = "answered", ![c].conflicts = conflicts]
    BY <1>5 DEF Arrive
  <2>2. calls[c] \in Call /\ calls[c].rows # {} /\ calls[c].rows \subseteq DOMAIN outbox
    BY <1>5 DEF Arrive, Inv, TypeOK
  <2>3. calls'[c] \in Call /\ calls'[c].phase = "answered" /\ calls'[c].rows = calls[c].rows
        /\ calls'[c].conflicts = conflicts
    BY <2>1, <2>2 DEF Inv, TypeOK, Call
  <2>4. \A d \in Calls : d # c => calls'[d] = calls[d]
    BY <2>1 DEF Inv, TypeOK
  <2>5. calls' \in [Calls -> Call]
    BY <2>1, <2>3, <2>4 DEF Inv, TypeOK
  <2>6. outbox' = outbox /\ configured' = configured /\ cloud' = cloud \cup calls[c].rows
    BY <1>5 DEF Arrive
  <2>7. \A d \in Calls : calls'[d].rows = calls[d].rows
    BY <2>3, <2>4
  <2>8. \A d \in Calls : /\ calls'[d].phase = "idle" <=> calls'[d].rows = {}
                         /\ calls'[d].conflicts \subseteq calls'[d].rows
    BY <2>2, <2>3, <2>4 DEF Inv, TypeOK
  <2>9. TypeOK'
    BY <2>2, <2>5, <2>6, <2>7, <2>8 DEF Inv, TypeOK
  <2>10. ClaimsExclusive'
    BY <2>6, <2>7 DEF Inv, ClaimsExclusive
  <2>11. AnsweredArrived'
    BY <2>3, <2>4, <2>6 DEF Inv, AnsweredArrived
  <2>12. QED
    BY <2>9, <2>10, <2>11 DEF Inv
<1>6. ASSUME NEW c \in Calls, Complete(c) PROVE Inv'
  <2>1. \A i \in DOMAIN outbox : outbox[i] \in Row
    BY <1>1
  <2>2. \A i \in DOMAIN outbox, status \in Final : [outbox[i] EXCEPT !.status = status] \in Row
    BY <2>1 DEF Row, Statuses
  <2>3. DOMAIN outbox' = 1 .. Len(outbox) /\ outbox' \in [1 .. Len(outbox) -> Row]
    BY <1>1, <1>6, <2>1, <2>2 DEF Complete, Final
  <2>4. outbox' \in Seq(Row) /\ Len(outbox') = Len(outbox)
    BY <1>1, <2>3
  <2>5. \A i \in DOMAIN outbox : i \notin calls[c].rows => outbox'[i] = outbox[i]
    BY <1>6 DEF Complete
  <2>6. calls' = [calls EXCEPT ![c] = Idle] /\ UNCHANGED <<configured, cloud>>
    BY <1>6 DEF Complete
  <2>7. QED
    BY <2>4, <2>5, <2>6, EndKeepsInv
<1>7. ASSUME NEW c \in Calls, Fail(c) PROVE Inv'
  <2>1. [status |-> "failed", due |-> FALSE] \in Row
    BY DEF Row, Statuses
  <2>2. outbox' \in Seq(Row) /\ Len(outbox') = Len(outbox)
    BY <1>7, <2>1, MarkedRows DEF Fail, Inv
  <2>3. \A i \in DOMAIN outbox : i \notin calls[c].rows => outbox'[i] = outbox[i]
    BY <1>7 DEF Fail, Marked
  <2>4. calls' = [calls EXCEPT ![c] = Idle] /\ UNCHANGED <<configured, cloud>>
    BY <1>7 DEF Fail
  <2>5. QED
    BY <2>2, <2>3, <2>4, EndKeepsInv
<1>8. ASSUME NEW i \in 1 .. MaxEvents, BackoffEnds(i) PROVE Inv'
  <2> DEFINE row == [outbox[i] EXCEPT !.due = TRUE]
  <2>1. row \in Row /\ row.status = outbox[i].status
    <3>1. PICK old \in Row : old = outbox[i]
      BY <1>1, <1>8 DEF BackoffEnds
    <3>2. [old EXCEPT !.due = TRUE] \in Row /\ [old EXCEPT !.due = TRUE].status = old.status
      BY DEF Row
    <3>3. QED
      BY <3>1, <3>2
  <2>2. outbox' = [outbox EXCEPT ![i] = row] /\ i \in DOMAIN outbox
    BY <1>8 DEF BackoffEnds
  <2> HIDE DEF row
  <2>3. outbox' \in Seq(Row) /\ Len(outbox') = Len(outbox) /\ DOMAIN outbox' = DOMAIN outbox
    BY <1>1, <2>1, <2>2
  <2>4. \A j \in DOMAIN outbox : outbox'[j].status = outbox[j].status
    BY <1>1, <2>1, <2>2
  <2>5. Len(outbox') <= MaxEvents
    BY <2>3 DEF Inv, TypeOK
  <2>6. UNCHANGED <<configured, calls, cloud>>
    BY <1>8 DEF BackoffEnds
  <2>7. QED
    BY <2>3, <2>4, <2>5, <2>6, RowsKeepInv
<1>9. CASE RetryFailed
  <2>1. [status |-> "pending", due |-> TRUE] \in Row
    BY DEF Row, Statuses
  <2>2. outbox' \in Seq(Row) /\ Len(outbox') = Len(outbox)
    BY <1>9, <2>1, MarkedRows DEF RetryFailed, Inv
  <2>3. \A i \in DOMAIN outbox :
          outbox[i].status = "syncing" => outbox'[i].status = "syncing"
    BY <1>9 DEF RetryFailed, Marked, Retried
  <2>4. DOMAIN outbox' = DOMAIN outbox /\ Len(outbox') <= MaxEvents
    BY <1>1, <2>2 DEF Inv, TypeOK
  <2>5. UNCHANGED <<configured, calls, cloud>>
    BY <1>9 DEF RetryFailed
  <2>6. QED
    BY <2>2, <2>3, <2>4, <2>5, RowsKeepInv
<1>10. CASE Crash
  <2>1. Idle \in Call /\ Idle.rows = {} /\ Idle.phase = "idle" /\ Idle.conflicts = {}
    BY DEF Idle, Call
  <2>2. \A c \in Calls : calls'[c] = Idle
    BY <1>10 DEF Crash
  <2>3. calls' \in [Calls -> Call]
    BY <1>10, <2>1 DEF Crash
  <2>4. UNCHANGED <<configured, outbox, cloud>>
    BY <1>10 DEF Crash
  <2>5. TypeOK'
    BY <2>1, <2>2, <2>3, <2>4 DEF Inv, TypeOK
  <2>6. ClaimsExclusive' /\ AnsweredArrived'
    BY <2>1, <2>2 DEF ClaimsExclusive, AnsweredArrived
  <2>7. QED
    BY <2>5, <2>6 DEF Inv
<1>11. CASE UNCHANGED vars
  <2>1. TypeOK'
    BY <1>11 DEF vars, Inv, TypeOK
  <2>2. QED
    BY <1>11, <2>1 DEF vars, Inv, ClaimsExclusive, AnsweredArrived
<1>12. QED
  BY <1>2, <1>3, <1>4, <1>5, <1>6, <1>7, <1>8, <1>9, <1>10, <1>11 DEF Next

-----------------------------------------------------------------------------
(***************************************************************************)
(* The theorems.                                                           *)
(***************************************************************************)

LEMMA InvAlways == Spec => []Inv
<1>1. Init => Inv
  BY InvInitially, SyncAssumption
<1>2. Inv /\ [Next]_vars => Inv'
  BY InvPreserved, SyncAssumption
<1>3. QED
  BY <1>1, <1>2, PTL DEF Spec

\* The types of sync_outbox and of the calls of process.
THEOREM TypesHold == Spec => []TypeOK
<1>1. Inv => TypeOK
  BY DEF Inv
<1>2. QED
  BY <1>1, InvAlways, PTL

\* However many calls of process wait for the cloud at the same time, and
\* whatever fails in between, a row that one of them posted is in no other call
\* and stays syncing until its own call ends.
THEOREM ClaimsStayExclusive == Spec => []ClaimsExclusive
<1>1. Inv => ClaimsExclusive
  BY DEF Inv
<1>2. QED
  BY <1>1, InvAlways, PTL

\* Every step of the outbox is a step of Delivery or leaves it alone.
LEMMA StepsDeliver ==
  ASSUME SyncAssumption, Inv, Inv', [Next]_vars
  PROVE  [Promise!Next]_(Promise!vars)
<1> USE DEF Promise!Next, Promise!vars
<1>1. outbox \in Seq(Row) /\ Len(outbox) \in Nat /\ DOMAIN outbox = 1 .. Len(outbox)
  BY DEF Inv, TypeOK
<1>2. DOMAIN outbox \subseteq 1 .. MaxEvents
  BY <1>1 DEF Inv, TypeOK, SyncAssumption
<1>3. CASE Enqueue
  <2> DEFINE e == Len(outbox) + 1
  <2>1. e \in 1 .. MaxEvents /\ e \notin DOMAIN outbox
    BY <1>1, <1>3 DEF Enqueue, SyncAssumption
  <2>2. DOMAIN outbox' = DOMAIN outbox \cup {e}
    BY <1>1, <1>3 DEF Enqueue
  <2>3. \A i \in DOMAIN outbox : outbox'[i] = outbox[i]
    BY <1>1, <1>3 DEF Enqueue
  <2>4. outbox'[e].status \notin Final
    BY <1>1, <1>3 DEF Enqueue, Final
  <2>5. FinalRows' = FinalRows /\ cloud' = cloud
    BY <1>3, <2>2, <2>3, <2>4 DEF FinalRows, Enqueue
  <2> HIDE DEF e
  <2>6. Promise!Submit(e)
    BY <2>1, <2>2, <2>5 DEF Promise!Submit
  <2>7. QED
    BY <2>1, <2>6
<1>4. ASSUME NEW c \in Calls, Arrive(c)
      PROVE  Promise!Receive(calls[c].rows) /\ calls[c].rows \in SUBSET (1 .. MaxEvents)
  <2>1. calls[c].rows \subseteq DOMAIN outbox
    BY DEF Inv, TypeOK
  <2>2. cloud' = cloud \cup calls[c].rows /\ outbox' = outbox
    BY <1>4 DEF Arrive
  <2>3. QED
    BY <1>2, <2>1, <2>2 DEF Promise!Receive, FinalRows
<1>5. ASSUME NEW c \in Calls, Complete(c)
      PROVE  Promise!Deliver(calls[c].rows) /\ calls[c].rows \in SUBSET (1 .. MaxEvents)
  <2>1. calls[c].rows \subseteq DOMAIN outbox /\ calls[c].rows \subseteq cloud
    BY <1>5 DEF Inv, TypeOK, AnsweredArrived, Complete, HasAnswer
  <2>2. DOMAIN outbox' = DOMAIN outbox /\ cloud' = cloud
    BY <1>5 DEF Complete
  <2>3. \A i \in DOMAIN outbox : i \notin calls[c].rows => outbox'[i] = outbox[i]
    BY <1>5 DEF Complete
  <2>4. \A i \in calls[c].rows : outbox'[i].status \in Final
    <3> SUFFICES ASSUME NEW i \in calls[c].rows PROVE outbox'[i].status \in Final
      OBVIOUS
    <3>1. PICK old \in Row : old = outbox[i]
      BY <1>1, <2>1
    <3>2. \A status \in Final : [old EXCEPT !.status = status].status = status
      BY DEF Row
    <3>3. QED
      BY <1>5, <2>1, <3>1, <3>2 DEF Complete, Final
  <2>5. FinalRows' = FinalRows \cup calls[c].rows
    BY <2>1, <2>2, <2>3, <2>4 DEF FinalRows
  <2>6. QED
    BY <1>2, <2>1, <2>2, <2>5 DEF Promise!Deliver
<1>6. CASE \/ Configure
           \/ \E c \in Calls : Claim(c) \/ Fail(c)
           \/ \E i \in 1 .. MaxEvents : BackoffEnds(i)
           \/ RetryFailed
           \/ Crash
           \/ UNCHANGED vars
  <2>1. cloud' = cloud /\ DOMAIN outbox' = DOMAIN outbox
    BY <1>1, <1>6 DEF Configure, Claim, Fail, BackoffEnds, RetryFailed, Crash, vars, Marked
  <2>2. \A i \in DOMAIN outbox : outbox'[i].status \in Final <=> outbox[i].status \in Final
    <3> SUFFICES ASSUME NEW i \in DOMAIN outbox
                 PROVE  outbox'[i].status \in Final <=> outbox[i].status \in Final
      OBVIOUS
    <3>1. CASE Configure \/ Crash \/ UNCHANGED vars
      BY <3>1 DEF Configure, Crash, vars
    <3>2. ASSUME NEW c \in Calls, Claim(c)
          PROVE  outbox'[i].status \in Final <=> outbox[i].status \in Final
      BY <3>2 DEF Claim, Marked, Batch, DueRows, Final
    <3>3. ASSUME NEW c \in Calls, Fail(c)
          PROVE  outbox'[i].status \in Final <=> outbox[i].status \in Final
      BY <3>3 DEF Fail, Marked, Inv, ClaimsExclusive, Final
    <3>4. ASSUME NEW j \in 1 .. MaxEvents, BackoffEnds(j)
          PROVE  outbox'[i].status \in Final <=> outbox[i].status \in Final
      <4>1. PICK old \in Row : old = outbox[j]
        BY <1>1, <3>4 DEF BackoffEnds
      <4>2. [old EXCEPT !.due = TRUE].status = old.status
        BY DEF Row
      <4>3. outbox' = [outbox EXCEPT ![j] = [old EXCEPT !.due = TRUE]]
        BY <3>4, <4>1 DEF BackoffEnds
      <4>4. QED
        BY <1>1, <4>1, <4>2, <4>3
    <3>5. CASE RetryFailed
      BY <3>5 DEF RetryFailed, Marked, Retried, Final
    <3>6. QED
      BY <1>6, <3>1, <3>2, <3>3, <3>4, <3>5
  <2>3. FinalRows' = FinalRows
    BY <2>1, <2>2 DEF FinalRows
  <2>4. QED
    BY <2>1, <2>3
<1>7. QED
  BY <1>3, <1>4, <1>5, <1>6 DEF Next

\* sync_outbox implements Delivery: a row becomes synced or a conflict only when
\* the cloud has received its event, and stays so, through lost requests, lost
\* answers, retries, calls side by side and crashes.
THEOREM OutboxDelivers == Spec => AtLeastOnce
<1>1. Init => Promise!Init
  BY DEF Init, Promise!Init, FinalRows
<1>2. Inv /\ Inv' /\ [Next]_vars => [Promise!Next]_(Promise!vars)
  BY StepsDeliver, SyncAssumption
<1>3. QED
  BY <1>1, <1>2, InvAlways, PTL DEF Spec, AtLeastOnce, Promise!Spec
=============================================================================
