------------------------------ MODULE Delivery ------------------------------
(***************************************************************************)
(* What the outbox promises of each event that a change of the database    *)
(* left in it: the cloud receives it, once or more often, before the       *)
(* terminal takes it for delivered; and what is delivered stays delivered. *)
(***************************************************************************)
CONSTANT Events

VARIABLES
  submitted,  \* the events of changes that were committed
  received,   \* the events the cloud has received
  delivered   \* the events the terminal will never send again

vars == <<submitted, received, delivered>>

Init == submitted = {} /\ received = {} /\ delivered = {}

Submit(e) ==
  /\ e \notin submitted
  /\ submitted' = submitted \cup {e}
  /\ UNCHANGED <<received, delivered>>

Receive(batch) ==
  /\ batch \subseteq submitted
  /\ received' = received \cup batch
  /\ UNCHANGED <<submitted, delivered>>

Deliver(batch) ==
  /\ batch \subseteq received
  /\ delivered' = delivered \cup batch
  /\ UNCHANGED <<submitted, received>>

Next ==
  \/ \E e \in Events : Submit(e)
  \/ \E batch \in SUBSET Events : Receive(batch) \/ Deliver(batch)

Spec == Init /\ [][Next]_vars
=============================================================================
