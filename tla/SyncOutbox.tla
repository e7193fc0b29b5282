----------------------------- MODULE SyncOutbox -----------------------------
(***************************************************************************)
(* The outbox that carries changes of the database to the cloud:           *)
(* electron/services/sync-service.ts and the table and triggers of         *)
(* electron/database/migrations/016_create_sync_outbox.sql.                *)
(*                                                                         *)
(* A call of process claims rows, waits for the answer to one request and  *)
(* settles its rows in a transaction.  Nothing keeps a second call from    *)
(* starting while the first one waits.  The process may end at any moment; *)
(* the rows are then as the last write left them and the calls are gone.   *)
(*                                                                         *)
(* The cloud is no part of the repository's desktop program.  It is a set  *)
(* of the events that reached it; an answer may be lost, or be an error.   *)
(***************************************************************************)
EXTENDS Naturals, Sequences, FiniteSets

CONSTANTS
  Calls,      \* calls of process that may be under way at a time
  Limit,      \* rows a call claims at most
  MaxEvents   \* bound on the number of events

ASSUME SyncAssumption ==
  /\ Limit \in Nat \ {0}
  /\ MaxEvents \in Nat

VARIABLES
  configured,  \* is sync.api_url set?
  outbox,      \* sync_outbox, in the order of id
  calls,       \* what each call of process is doing
  cloud        \* the rows whose events reached the cloud

vars == <<configured, outbox, calls, cloud>>

Final == {"synced", "conflict"}
Statuses == {"pending", "syncing", "failed"} \cup Final

\* due: next_attempt_at is null or has passed.
Row == [status : Statuses, due : BOOLEAN]

\* A call has posted its rows, or has the answer with the conflicts in it.
Call == [phase : {"idle", "posted", "answered"},
         rows : SUBSET (1 .. MaxEvents), conflicts : SUBSET (1 .. MaxEvents)]

Idle == [phase |-> "idle", rows |-> {}, conflicts |-> {}]

\* The outbox with the rows of a set given a status and made due or not.
Marked(rows, status, due) ==
  [i \in DOMAIN outbox |-> IF i \in rows THEN [status |-> status, due |-> due] ELSE outbox[i]]

Init ==
  /\ configured = FALSE
  /\ outbox = <<>>
  /\ calls = [c \in Calls |-> Idle]
  /\ cloud = {}

\* A trigger inserts a row in the transaction of the change itself.
Enqueue ==
  /\ Len(outbox) < MaxEvents
  /\ outbox' = Append(outbox, [status |-> "pending", due |-> TRUE])
  /\ UNCHANGED <<configured, calls, cloud>>

Configure ==
  /\ configured' = TRUE
  /\ UNCHANGED <<outbox, calls, cloud>>

\* A mutant: failed rows wait for retryFailed.
PendingRows == {i \in DOMAIN outbox : outbox[i].status = "pending" /\ outbox[i].due}

\* The rows a call may claim, and of them the oldest.
DueRows == {i \in DOMAIN outbox : outbox[i].status \in {"pending", "failed"} /\ outbox[i].due}

Batch == {i \in DueRows : Cardinality({j \in DueRows : j < i}) < Limit}

\* A mutant: a call without rows posts all the same.
CanClaimNothing == configured

CanClaim == configured /\ DueRows # {}

\* process up to the await of fetch: claim rows and post them.
Claim(c) ==
  /\ CanClaim
  /\ calls[c].phase = "idle"
  /\ calls' = [calls EXCEPT ![c] = [phase |-> "posted", rows |-> Batch, conflicts |-> {}]]
  /\ outbox' = Marked(Batch, "syncing", TRUE)
  /\ UNCHANGED <<configured, cloud>>

\* The events reach the cloud, and its answer names some of them as conflicts.
Arrive(c) ==
  /\ calls[c].phase = "posted"
  /\ cloud' = cloud \cup calls[c].rows
  /\ \E conflicts \in SUBSET calls[c].rows :
       calls' = [calls EXCEPT ![c].phase = "answered", ![c].conflicts = conflicts]
  /\ UNCHANGED <<configured, outbox>>

\* A mutant: what was posted is taken for answered.
HasAnswerOnceSent(c) == calls[c].phase # "idle"

HasAnswer(c) == calls[c].phase = "answered"

\* process after a good answer.
Complete(c) ==
  /\ HasAnswer(c)
  /\ outbox' = [i \in DOMAIN outbox |->
                  IF i \in calls[c].rows
                  THEN [outbox[i] EXCEPT !.status = IF i \in calls[c].conflicts
                                                    THEN "conflict" ELSE "synced"]
                  ELSE outbox[i]]
  /\ calls' = [calls EXCEPT ![c] = Idle]
  /\ UNCHANGED <<configured, cloud>>

\* process after an error: the request did not reach the cloud, or its answer
\* was lost or was an error.  The rows back off.
Fail(c) ==
  /\ calls[c].phase # "idle"
  /\ outbox' = Marked(calls[c].rows, "failed", FALSE)
  /\ calls' = [calls EXCEPT ![c] = Idle]
  /\ UNCHANGED <<configured, cloud>>

\* The backoff of row i is over.
BackoffEnds(i) ==
  /\ i \in DOMAIN outbox
  /\ ~outbox[i].due
  /\ outbox' = [outbox EXCEPT ![i].due = TRUE]
  /\ UNCHANGED <<configured, calls, cloud>>

\* A mutant: whatever is not delivered is retried.
RetriedUnlessFinal == {i \in DOMAIN outbox : outbox[i].status \notin Final}

Retried == {i \in DOMAIN outbox : outbox[i].status = "failed"}

RetryFailed ==
  /\ outbox' = Marked(Retried, "pending", TRUE)
  /\ UNCHANGED <<configured, calls, cloud>>

\* The process ends and is started again: nothing looks at the outbox then.
Crash ==
  /\ calls' = [c \in Calls |-> Idle]
  /\ UNCHANGED <<configured, outbox, cloud>>

Next ==
  \/ Enqueue
  \/ Configure
  \/ \E c \in Calls : Claim(c) \/ Arrive(c) \/ Complete(c) \/ Fail(c)
  \/ \E i \in 1 .. MaxEvents : BackoffEnds(i)
  \/ RetryFailed
  \/ Crash

Spec == Init /\ [][Next]_vars

\* Synchronisation is configured and started again and again, a request comes
\* to an end, a backoff too, and a cloud that is asked again and again answers
\* in the end.  Nobody has to press retry, and nothing is asked of crashes.
Fairness ==
  /\ WF_vars(Configure)
  /\ WF_vars(\E c \in Calls : Claim(c))
  /\ \A c \in Calls : WF_vars(Arrive(c) \/ Complete(c) \/ Fail(c))
  /\ SF_vars(\E c \in Calls : Arrive(c))
  /\ SF_vars(\E c \in Calls : Complete(c))
  /\ \A i \in 1 .. MaxEvents : WF_vars(BackoffEnds(i))

FairSpec == Spec /\ Fairness

-----------------------------------------------------------------------------
TypeOK ==
  /\ configured \in BOOLEAN
  /\ outbox \in Seq(Row) /\ Len(outbox) <= MaxEvents
  /\ calls \in [Calls -> Call]
  /\ cloud \subseteq DOMAIN outbox
  /\ \A c \in Calls :
       /\ calls[c].rows \subseteq DOMAIN outbox
       /\ calls[c].phase = "idle" <=> calls[c].rows = {}
       /\ calls[c].conflicts \subseteq calls[c].rows

\* Between the claim of a row and the end of its call the row is nobody else's:
\* it keeps the status syncing, and no other call has it.  So a late answer never
\* settles a row that was claimed anew, and the attempt count that the backoff
\* uses, read before the request, is still the one in the row.
ClaimsExclusive ==
  /\ \A c \in Calls : \A i \in calls[c].rows : outbox[i].status = "syncing"
  /\ \A c, d \in Calls : c # d => calls[c].rows \cap calls[d].rows = {}

FinalRows == {i \in DOMAIN outbox : outbox[i].status \in Final}

Promise ==
  INSTANCE Delivery WITH Events <- 1 .. MaxEvents, submitted <- DOMAIN outbox,
                         received <- cloud, delivered <- FinalRows

\* The outbox implements Delivery: whatever is lost, fails or crashes, a row is
\* synced or in conflict only after the cloud received it, and for good.
AtLeastOnce == Promise!Spec

\* Rows left in the status syncing by a call that no longer exists.
Stranded ==
  {i \in DOMAIN outbox : outbox[i].status = "syncing" /\ \A c \in Calls : i \notin calls[c].rows}

\* Every event is delivered in the end, however often requests fail, unless the
\* process ends while the event is being sent.
SettlesUnlessStranded ==
  \A i \in 1 .. MaxEvents : i \in DOMAIN outbox ~> i \in FinalRows \cup Stranded

\* The outbox is durable: every event is delivered in the end.
EveryEventSettles == \A i \in 1 .. MaxEvents : i \in DOMAIN outbox ~> i \in FinalRows
=============================================================================
