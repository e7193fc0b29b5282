---------------------------- MODULE KitchenProofs ----------------------------
(***************************************************************************)
(* Theorems about kitchen tickets for every value of the constants of      *)
(* Kitchen: the life of a ticket, the chain of tickets, and what the       *)
(* kitchen holds once it has replayed them.  Whatever depends on the order *)
(* of the replay assumes that the wall clock is not set back.              *)
(***************************************************************************)
EXTENDS Kitchen, DataTheorems, SequenceTheorems

-----------------------------------------------------------------------------
(***************************************************************************)
(* The steps of the specification, by what they do to the ticket tables.   *)
(***************************************************************************)

\* A row was appended to each ticket table: by a send, a cancellation of
\* ticket ref or a reprint of ticket ref.
Appended(kind, status, ref, from, now, others) ==
  \E content : CreateTicket(kind, status, ref, from, content, now, others)

\* Every step leaves the ticket tables alone or is one of six.
LEMMA StepCases ==
  ASSUME [Next]_vars
  PROVE  \/ UNCHANGED <<tickets, history>> /\ Len(kotItems') = Len(kotItems)
         \/ \E now \in Times : Appended(SendKind, "new", SendRef, "none", now, tickets)
         \/ \E t \in DOMAIN tickets, now \in Times :
              /\ CanCancel(t)
              /\ Appended("cancel", "new", t, "none", now,
                          [tickets EXCEPT ![t].cancelled = TRUE])
         \/ \E t \in DOMAIN tickets, now \in Times :
              Appended("reprint", tickets[t].status, t, tickets[t].status, now, tickets)
         \/ \E t \in DOMAIN tickets :
              \/ Transition(t, "new", "preparing")
              \/ Transition(t, "preparing", "ready")
              \/ Transition(t, "ready", "completed")
         \/ \E t \in DOMAIN tickets :
              \/ \E priority \in Priorities : SetPriority(t, priority)
              \/ \E station \in Stations : SetStation(t, station)
<1>1. CASE EditOrder
  BY <1>1 DEF EditOrder, AddItem, UpdateItemQuantity, RemoveItem, SetItemMake, SetItemNote,
              Edit, KotUnchanged
<1>2. CASE \E now \in Times : Create(now)
  BY <1>2 DEF Create, Appended
<1>3. ASSUME NEW t \in DOMAIN tickets, TicketStep(t)
      PROVE  \/ \E now \in Times :
                  /\ CanCancel(t)
                  /\ Appended("cancel", "new", t, "none", now,
                              [tickets EXCEPT ![t].cancelled = TRUE])
             \/ \E now \in Times :
                  Appended("reprint", tickets[t].status, t, tickets[t].status, now, tickets)
             \/ Transition(t, "new", "preparing")
             \/ Transition(t, "preparing", "ready")
             \/ Transition(t, "ready", "completed")
             \/ \E priority \in Priorities : SetPriority(t, priority)
             \/ \E station \in Stations : SetStation(t, station)
  BY <1>3 DEF TicketStep, Cancel, Reprint, MarkStarted, MarkReady, MarkCompleted, Appended
<1>4. CASE UNCHANGED vars
  BY <1>4 DEF vars
<1>5. QED
  BY <1>1, <1>2, <1>3, <1>4 DEF Next

\* What an appended row looks like, and that the rows before it are those of
\* others.
LEMMA AppendedRows ==
  ASSUME HeadersOK,
         NEW kind \in Kinds, NEW status \in Statuses, NEW ref \in Nat,
         NEW from \in Statuses \cup {"none"}, NEW now \in Times,
         NEW others \in Seq(Ticket), Len(others) = Len(tickets),
         Appended(kind, status, ref, from, now, others)
  PROVE  LET n == Len(tickets) IN
         /\ HeadersOK'
         /\ DOMAIN tickets = 1 .. n
         /\ DOMAIN tickets' = 1 .. n + 1
         /\ \A t \in 1 .. n : tickets'[t] = others[t] /\ history'[t] = history[t]
         /\ tickets'[n + 1].kind = kind
         /\ tickets'[n + 1].status = status
         /\ tickets'[n + 1].ref = ref
         /\ tickets'[n + 1].at = now
         /\ ~tickets'[n + 1].cancelled
         /\ ~tickets'[n + 1].started /\ ~tickets'[n + 1].ready /\ ~tickets'[n + 1].completed
         /\ history'[n + 1] = <<[from |-> from, to |-> status]>>
<1> DEFINE row == [at |-> now, kind |-> kind, status |-> status, cancelled |-> FALSE,
                   ref |-> ref, started |-> FALSE, ready |-> FALSE, completed |-> FALSE,
                   priority |-> 0, station |-> MainStation]
           first == <<[from |-> from, to |-> status]>>
           n == Len(tickets)
<1>1. PICK content : CreateTicket(kind, status, ref, from, content, now, others)
  BY DEF Appended
<1>2. tickets' = Append(others, row) /\ history' = Append(history, first)
      /\ kotItems' = Append(kotItems, content)
  BY <1>1 DEF CreateTicket
<1>3. row \in Ticket
  BY KitchenAssumption DEF Ticket
<1>4. first \in Seq(Change)
  BY DEF Change
<1>5. n \in Nat /\ DOMAIN tickets = 1 .. n
  BY DEF HeadersOK
<1>6. tickets' \in Seq(Ticket) /\ Len(tickets') = n + 1
  BY <1>2, <1>3
<1>7. history' \in Seq(Seq(Change)) /\ Len(history') = n + 1
  BY <1>2, <1>4 DEF HeadersOK
<1>8. Len(kotItems') = n + 1
  BY <1>2, <1>5 DEF HeadersOK
<1>9. HeadersOK'
  BY <1>6, <1>7, <1>8 DEF HeadersOK
<1>10. \A t \in 1 .. n : tickets'[t] = others[t] /\ history'[t] = history[t]
  BY <1>2, <1>5 DEF HeadersOK
<1>11. tickets'[n + 1] = row /\ history'[n + 1] = first
  BY <1>2, <1>5 DEF HeadersOK
<1> HIDE DEF n, first
<1>12. QED
  BY <1>5, <1>6, <1>9, <1>10, <1>11 DEF n, first

\* Some ticket of a set of tickets is the newest.
LEMMA NewestChosen ==
  ASSUME HeadersOK, NEW ts \in SUBSET DOMAIN tickets, ts # {}
  PROVE  Newest(ts) \in ts /\ \A u \in ts \ {Newest(ts)} : Before(u, Newest(ts))
<1> DEFINE HasNewest(s) == \E m \in s : \A u \in s \ {m} : Before(u, m)
<1>1. PICK D : D = DOMAIN tickets
  OBVIOUS
<1>2. PICK Q : Q = {s \in SUBSET D : s # {} => HasNewest(s)}
  OBVIOUS
<1>3. IsFiniteSet(D)
  <2>1. PICK k \in Nat : D = 1 .. k
    BY <1>1 DEF HeadersOK
  <2>2. IsFiniteSet(1 .. k)
    BY FS_Interval
  <2>3. QED
    BY <2>1, <2>2
<1>4. \A t \in D : t \in Nat /\ tickets[t].at \in Int
  <2>1. \A t \in D : t \in Nat /\ tickets[t] \in Ticket
    BY <1>1 DEF HeadersOK
  <2>2. QED
    BY <2>1, KitchenAssumption DEF Ticket
<1>5. {} \in Q
  BY <1>2
<1>6. ASSUME NEW s \in SUBSET D, s # {}
      PROVE  \E x \in s : (s \ {x} \in Q => s \in Q)
  <2>1. PICK x \in s : TRUE
    BY <1>6
  <2>2. CASE s \ {x} = {}
    <3>1. HasNewest(s)
      BY <2>1, <2>2
    <3>2. QED
      BY <1>2, <2>1, <3>1
  <2>3. CASE s \ {x} # {}
    <3>1. SUFFICES ASSUME s \ {x} \in Q PROVE HasNewest(s)
      BY <1>2
    <3>2. PICK m \in s \ {x} : \A u \in (s \ {x}) \ {m} : Before(u, m)
      BY <1>2, <2>3, <3>1
    <3>3. CASE Before(x, m)
      BY <3>2, <3>3
    <3>4. CASE ~Before(x, m)
      <4>1. ASSUME NEW u \in s \ {x} PROVE Before(u, x)
        BY <1>4, <3>2, <3>4 DEF Before
      <4>2. QED
        BY <2>1, <4>1
    <3>5. QED
      BY <3>3, <3>4
  <2>4. QED
    BY <2>2, <2>3
<1>7. SUBSET D \subseteq Q
  BY <1>3, <1>5, <1>6, BuildUp
<1>8. HasNewest(ts)
  BY <1>1, <1>2, <1>7
<1>9. QED
  BY <1>8 DEF Newest

\* The reference of a send is null or an earlier ticket.
LEMMA SendRefType == HeadersOK => SendRef \in Nat /\ SendKind \in {"full", "delta"}
<1> SUFFICES ASSUME HeadersOK PROVE SendRef \in Nat
  BY DEF SendKind
<1>1. SentTickets \subseteq DOMAIN tickets /\ \A t \in DOMAIN tickets : t \in Nat
  BY DEF SentTickets, HeadersOK
<1>2. CASE SentTickets = {}
  BY <1>2 DEF SendRef
<1>3. CASE SentTickets # {}
  <2>1. Newest(SentTickets) \in SentTickets
    BY <1>1, <1>3, NewestChosen
  <2>2. QED
    BY <1>1, <1>3, <2>1 DEF SendRef
<1>4. QED
  BY <1>2, <1>3

-----------------------------------------------------------------------------
(***************************************************************************)
(* Headers and history stay well formed.                                   *)
(***************************************************************************)

\* There are no headers at first.
LEMMA HeadersInitially == Init => HeadersOK
BY DEF Init, HeadersOK

\* Every step keeps headers and history well formed.
LEMMA HeadersPreserved == HeadersOK /\ [Next]_vars => HeadersOK'
<1> SUFFICES ASSUME HeadersOK, [Next]_vars PROVE HeadersOK'
  OBVIOUS
<1>1. CASE UNCHANGED <<tickets, history>> /\ Len(kotItems') = Len(kotItems)
  BY <1>1 DEF HeadersOK
<1>2. ASSUME NEW now \in Times, Appended(SendKind, "new", SendRef, "none", now, tickets)
      PROVE  HeadersOK'
  <2>1. tickets \in Seq(Ticket)
    BY DEF HeadersOK
  <2>2. SendRef \in Nat /\ SendKind \in Kinds /\ "new" \in Statuses
    BY SendRefType DEF Kinds, Statuses
  <2>3. QED
    BY <1>2, <2>1, <2>2, AppendedRows
<1>3. ASSUME NEW t \in DOMAIN tickets, NEW now \in Times,
             Appended("cancel", "new", t, "none", now, [tickets EXCEPT ![t].cancelled = TRUE])
      PROVE  HeadersOK'
  <2> DEFINE marked == [tickets EXCEPT ![t].cancelled = TRUE]
  <2>0. t \in Nat /\ t \in 1 .. Len(tickets) /\ tickets[t] \in Ticket
    BY DEF HeadersOK
  <2> [tickets[t] EXCEPT !.cancelled = TRUE] \in Ticket
    BY <2>0 DEF Ticket
  <2>1. t \in Nat /\ marked \in Seq(Ticket) /\ Len(marked) = Len(tickets)
    BY <2>0 DEF HeadersOK
  <2>2. "cancel" \in Kinds /\ "new" \in Statuses
    BY DEF Kinds, Statuses
  <2> HIDE DEF marked
  <2>3. Appended("cancel", "new", t, "none", now, marked)
    BY <1>3 DEF marked
  <2>4. QED
    BY <2>1, <2>2, <2>3, AppendedRows
<1>4. ASSUME NEW t \in DOMAIN tickets, NEW now \in Times,
             Appended("reprint", tickets[t].status, t, tickets[t].status, now, tickets)
      PROVE  HeadersOK'
  <2>0. t \in Nat /\ tickets[t] \in Ticket /\ tickets \in Seq(Ticket)
    BY DEF HeadersOK
  <2>1. tickets[t].status \in Statuses
    BY <2>0 DEF Ticket
  <2>2. "reprint" \in Kinds
    BY DEF Kinds
  <2>3. QED
    BY <1>4, <2>0, <2>1, <2>2, AppendedRows
<1>5. ASSUME NEW t \in DOMAIN tickets, NEW expected \in Statuses, NEW next \in Statuses,
             Transition(t, expected, next)
      PROVE  HeadersOK'
  <2>1. tickets[t] \in Ticket /\ history[t] \in Seq(Change) /\ t \in DOMAIN history
    BY DEF HeadersOK
  <2>2. Stamped(tickets[t], next) \in Ticket
    BY <2>1 DEF Stamped, Ticket
  <2>3. tickets' \in Seq(Ticket) /\ Len(tickets') = Len(tickets)
    BY <1>5, <2>2 DEF Transition, HeadersOK
  <2>4. Append(history[t], [from |-> expected, to |-> next]) \in Seq(Change)
    BY <2>1 DEF Change
  <2>5. history' \in Seq(Seq(Change)) /\ Len(history') = Len(history)
    BY <1>5, <2>1, <2>4 DEF Transition, HeadersOK
  <2>6. QED
    BY <1>5, <2>3, <2>5 DEF Transition, HeadersOK
<1>6. ASSUME NEW t \in DOMAIN tickets,
             \/ \E priority \in Priorities : SetPriority(t, priority)
             \/ \E station \in Stations : SetStation(t, station)
      PROVE  HeadersOK'
  <2>0. tickets[t] \in Ticket
    BY DEF HeadersOK
  <2>1. /\ \A priority \in Priorities : [tickets[t] EXCEPT !.priority = priority] \in Ticket
        /\ \A station \in Stations : [tickets[t] EXCEPT !.station = station] \in Ticket
    BY <2>0 DEF Ticket
  <2>2. PICK row \in Ticket : tickets' = [tickets EXCEPT ![t] = row]
    BY <1>6, <2>1 DEF SetPriority, SetStation
  <2>3. tickets' \in Seq(Ticket) /\ Len(tickets') = Len(tickets)
    BY <2>2 DEF HeadersOK
  <2>4. QED
    BY <1>6, <2>3 DEF SetPriority, SetStation, HeadersOK
<1>7. QED
  BY <1>1, <1>2, <1>3, <1>4, <1>5, <1>6, StepCases DEF Statuses

\* kot_tickets and kot_status_history keep well formed rows, one history per ticket.
THEOREM HeadersTyped == Spec => []HeadersOK
<1>1. QED
  BY HeadersInitially, HeadersPreserved, PTL DEF Spec

-----------------------------------------------------------------------------
(***************************************************************************)
(* What each kind of step does to the rows, in the terms of the            *)
(* properties.                                                             *)
(***************************************************************************)

\* Rows keep what never changes, and only a move of an uncancelled ticket or its
\* cancellation touches the rest.
Kept(t) ==
  /\ tickets'[t].at = tickets[t].at
  /\ tickets'[t].kind = tickets[t].kind
  /\ tickets'[t].ref = tickets[t].ref

SameLife(t) ==
  /\ tickets'[t].status = tickets[t].status
  /\ tickets'[t].started = tickets[t].started
  /\ tickets'[t].ready = tickets[t].ready
  /\ tickets'[t].completed = tickets[t].completed
  /\ history'[t] = history[t]

SameMark(t) == tickets'[t].cancelled = tickets[t].cancelled

NoNewTicket == DOMAIN tickets' = DOMAIN tickets

\* One row more, with these values in it.
NewTicket(kind, status, ref, from, now) ==
  LET n == Len(tickets) + 1 IN
  /\ DOMAIN tickets = 1 .. n - 1
  /\ DOMAIN tickets' = 1 .. n
  /\ tickets'[n].at = now
  /\ tickets'[n].kind = kind
  /\ tickets'[n].status = status
  /\ tickets'[n].ref = ref
  /\ ~tickets'[n].cancelled
  /\ ~tickets'[n].started /\ ~tickets'[n].ready /\ ~tickets'[n].completed
  /\ history'[n] = <<[from |-> from, to |-> status]>>

\* What a step that appends a ticket does to the rows.
LEMMA AppendedTicket ==
  ASSUME HeadersOK,
         NEW kind \in Kinds, NEW status \in Statuses, NEW ref \in Nat,
         NEW from \in Statuses \cup {"none"}, NEW now \in Times,
         NEW others \in Seq(Ticket), Len(others) = Len(tickets),
         Appended(kind, status, ref, from, now, others)
  PROVE  /\ NewTicket(kind, status, ref, from, now)
         /\ \A t \in DOMAIN tickets : tickets'[t] = others[t] /\ history'[t] = history[t]
<1>1. Len(tickets) \in Nat /\ Len(tickets) + 1 - 1 = Len(tickets)
  BY DEF HeadersOK
<1>2. QED
  BY <1>1, AppendedRows DEF NewTicket

Quiet == NoNewTicket /\ \A t \in DOMAIN tickets : Kept(t) /\ SameLife(t) /\ SameMark(t)

Sent ==
  \E now \in Times :
    /\ NewTicket(SendKind, "new", SendRef, "none", now)
    /\ ClockAllows(now)
    /\ \A t \in DOMAIN tickets : Kept(t) /\ SameLife(t) /\ SameMark(t)

Cancelled(c) ==
  \E now \in Times :
    /\ CanCancel(c)
    /\ NewTicket("cancel", "new", c, "none", now)
    /\ ClockAllows(now)
    /\ \A t \in DOMAIN tickets : Kept(t) /\ SameLife(t) /\ (t # c => SameMark(t))
    /\ tickets'[c].cancelled

Reprinted(r) ==
  \E now \in Times :
    /\ NewTicket("reprint", tickets[r].status, r, tickets[r].status, now)
    /\ ClockAllows(now)
    /\ \A t \in DOMAIN tickets : Kept(t) /\ SameLife(t) /\ SameMark(t)

Moved(m, expected, next) ==
  /\ NoNewTicket
  /\ CanMove(m, expected)
  /\ \A t \in DOMAIN tickets : Kept(t) /\ SameMark(t) /\ (t # m => SameLife(t))
  /\ tickets'[m].status = next
  /\ tickets'[m].started = (tickets[m].started \/ next = "preparing")
  /\ tickets'[m].ready = (tickets[m].ready \/ next = "ready")
  /\ tickets'[m].completed = (tickets[m].completed \/ next = "completed")
  /\ history'[m] = Append(history[m], [from |-> expected, to |-> next])

\* Every step is quiet, a send, a cancellation, a reprint or a move of one ticket.
LEMMA StepEffects ==
  ASSUME HeadersOK, [Next]_vars
  PROVE  \/ Quiet
         \/ Sent
         \/ \E t \in DOMAIN tickets : Cancelled(t) \/ Reprinted(t)
         \/ \E t \in DOMAIN tickets :
              \/ Moved(t, "new", "preparing")
              \/ Moved(t, "preparing", "ready")
              \/ Moved(t, "ready", "completed")
<1> USE DEF Kept, SameLife, SameMark
<1>0. /\ tickets \in Seq(Ticket) /\ Len(tickets) \in Nat /\ DOMAIN tickets = 1 .. Len(tickets)
      /\ \A t \in DOMAIN tickets : t \in Nat /\ tickets[t] \in Ticket
  BY DEF HeadersOK
<1>1. CASE UNCHANGED <<tickets, history>> /\ Len(kotItems') = Len(kotItems)
  BY <1>1 DEF Quiet, NoNewTicket
<1>2. ASSUME NEW now \in Times, Appended(SendKind, "new", SendRef, "none", now, tickets)
      PROVE  Sent
  <2>1. SendRef \in Nat /\ SendKind \in Kinds /\ "new" \in Statuses
    BY SendRefType DEF Kinds, Statuses
  <2>2. ClockAllows(now)
    BY <1>2 DEF Appended, CreateTicket
  <2>3. /\ NewTicket(SendKind, "new", SendRef, "none", now)
        /\ \A t \in DOMAIN tickets : tickets'[t] = tickets[t] /\ history'[t] = history[t]
    BY <1>0, <1>2, <2>1, AppendedTicket
  <2>4. \A t \in DOMAIN tickets : Kept(t) /\ SameLife(t) /\ SameMark(t)
    BY <2>3
  <2>5. QED
    BY <2>2, <2>3, <2>4 DEF Sent
<1>3. ASSUME NEW c \in DOMAIN tickets, NEW now \in Times, CanCancel(c),
             Appended("cancel", "new", c, "none", now, [tickets EXCEPT ![c].cancelled = TRUE])
      PROVE  Cancelled(c)
  <2> DEFINE row == [tickets[c] EXCEPT !.cancelled = TRUE]
             marked == [tickets EXCEPT ![c] = row]
  <2>1. row \in Ticket /\ row.cancelled /\ row.at = tickets[c].at
        /\ row.kind = tickets[c].kind /\ row.ref = tickets[c].ref
        /\ row.status = tickets[c].status /\ row.started = tickets[c].started
        /\ row.ready = tickets[c].ready /\ row.completed = tickets[c].completed
    BY <1>0 DEF Ticket
  <2>2. Appended("cancel", "new", c, "none", now, marked)
    BY <1>3
  <2> HIDE DEF row
  <2>3. /\ marked \in Seq(Ticket) /\ Len(marked) = Len(tickets)
        /\ marked[c] = row /\ \A t \in DOMAIN tickets : t # c => marked[t] = tickets[t]
    BY <1>0, <2>1
  <2> HIDE DEF marked
  <2>4. "cancel" \in Kinds /\ "new" \in Statuses /\ c \in Nat
    BY <1>0 DEF Kinds, Statuses
  <2>5. ClockAllows(now)
    BY <1>3 DEF Appended, CreateTicket
  <2>6. /\ NewTicket("cancel", "new", c, "none", now)
        /\ \A t \in DOMAIN tickets : tickets'[t] = marked[t] /\ history'[t] = history[t]
    BY <1>0, <2>2, <2>3, <2>4, AppendedTicket
  <2>7. \A t \in DOMAIN tickets : Kept(t) /\ SameLife(t) /\ (t # c => SameMark(t))
    BY <2>1, <2>3, <2>6
  <2>8. tickets'[c].cancelled
    BY <2>1, <2>3, <2>6
  <2>9. QED
    BY <1>3, <2>5, <2>6, <2>7, <2>8 DEF Cancelled
<1>4. ASSUME NEW r \in DOMAIN tickets, NEW now \in Times,
             Appended("reprint", tickets[r].status, r, tickets[r].status, now, tickets)
      PROVE  Reprinted(r)
  <2>1. tickets[r].status \in Statuses /\ r \in Nat /\ "reprint" \in Kinds
    BY <1>0 DEF Ticket, Kinds
  <2>2. ClockAllows(now)
    BY <1>4 DEF Appended, CreateTicket
  <2>3. /\ NewTicket("reprint", tickets[r].status, r, tickets[r].status, now)
        /\ \A t \in DOMAIN tickets : tickets'[t] = tickets[t] /\ history'[t] = history[t]
    BY <1>0, <1>4, <2>1, AppendedTicket
  <2>4. \A t \in DOMAIN tickets : Kept(t) /\ SameLife(t) /\ SameMark(t)
    BY <2>3
  <2>5. QED
    BY <2>2, <2>3, <2>4 DEF Reprinted
<1>5. ASSUME NEW m \in DOMAIN tickets, NEW expected \in Statuses, NEW next \in Statuses,
             Transition(m, expected, next)
      PROVE  Moved(m, expected, next)
  <2> DEFINE row == Stamped(tickets[m], next)
  <2>1. /\ row.at = tickets[m].at /\ row.kind = tickets[m].kind /\ row.ref = tickets[m].ref
        /\ row.cancelled = tickets[m].cancelled /\ row.status = next
        /\ row.started = (tickets[m].started \/ next = "preparing")
        /\ row.ready = (tickets[m].ready \/ next = "ready")
        /\ row.completed = (tickets[m].completed \/ next = "completed")
    BY <1>0 DEF Stamped, Ticket
  <2> HIDE DEF row
  <2>2. /\ tickets' = [tickets EXCEPT ![m] = row]
        /\ history' = [history EXCEPT ![m] = Append(@, [from |-> expected, to |-> next])]
        /\ CanMove(m, expected)
    BY <1>5 DEF Transition, row
  <2>3. /\ tickets'[m] = row /\ NoNewTicket
        /\ \A t \in DOMAIN tickets : t # m => tickets'[t] = tickets[t]
    BY <1>0, <2>2 DEF NoNewTicket
  <2>4. /\ history'[m] = Append(history[m], [from |-> expected, to |-> next])
        /\ \A t \in DOMAIN tickets : t # m => history'[t] = history[t]
    BY <1>0, <2>2 DEF HeadersOK
  <2>5. QED
    BY <2>1, <2>2, <2>3, <2>4 DEF Moved
<1>6. ASSUME NEW m \in DOMAIN tickets,
             \/ \E priority \in Priorities : SetPriority(m, priority)
             \/ \E station \in Stations : SetStation(m, station)
      PROVE  Quiet
  <2>1. /\ \A priority \in Priorities :
             LET row == [tickets[m] EXCEPT !.priority = priority] IN
             /\ row.at = tickets[m].at /\ row.kind = tickets[m].kind
             /\ row.ref = tickets[m].ref /\ row.status = tickets[m].status
             /\ row.started = tickets[m].started /\ row.ready = tickets[m].ready
             /\ row.completed = tickets[m].completed /\ row.cancelled = tickets[m].cancelled
        /\ \A station \in Stations :
             LET row == [tickets[m] EXCEPT !.station = station] IN
             /\ row.at = tickets[m].at /\ row.kind = tickets[m].kind
             /\ row.ref = tickets[m].ref /\ row.status = tickets[m].status
             /\ row.started = tickets[m].started /\ row.ready = tickets[m].ready
             /\ row.completed = tickets[m].completed /\ row.cancelled = tickets[m].cancelled
    BY <1>0 DEF Ticket
  <2>2. PICK row : /\ tickets' = [tickets EXCEPT ![m] = row]
                   /\ row.at = tickets[m].at /\ row.kind = tickets[m].kind
                   /\ row.ref = tickets[m].ref /\ row.status = tickets[m].status
                   /\ row.started = tickets[m].started /\ row.ready = tickets[m].ready
                   /\ row.completed = tickets[m].completed
                   /\ row.cancelled = tickets[m].cancelled
    BY <1>6, <2>1 DEF SetPriority, SetStation
  <2>3. history' = history
    BY <1>6 DEF SetPriority, SetStation
  <2>4. QED
    BY <1>0, <2>2, <2>3 DEF Quiet, NoNewTicket
<1>7. QED
  BY <1>1, <1>2, <1>3, <1>4, <1>5, <1>6, StepCases DEF Statuses

-----------------------------------------------------------------------------
(***************************************************************************)
(* Cancelled tickets and cancel tickets come in pairs.                     *)
(***************************************************************************)

\* A step that marks no ticket as cancelled and adds no cancel ticket.
LEMMA PairsKept ==
  ASSUME HeadersOK, HeadersOK', CancelPairs,
         \A t \in DOMAIN tickets :
           /\ t \in DOMAIN tickets'
           /\ Kept(t) /\ SameMark(t)
           /\ tickets[t].cancelled => tickets'[t].status = tickets[t].status,
         \A t \in DOMAIN tickets' :
           t \in DOMAIN tickets \/ (tickets'[t].kind # "cancel" /\ ~tickets'[t].cancelled)
  PROVE  CancelPairs'
<1>0. DOMAIN tickets = 1 .. Len(tickets) /\ Len(tickets) \in Nat
  BY DEF HeadersOK
<1>1. ASSUME NEW t \in DOMAIN tickets', tickets'[t].cancelled
      PROVE  /\ tickets'[t].status = "new"
             /\ \E c \in DOMAIN tickets' : tickets'[c].kind = "cancel" /\ tickets'[c].ref = t
  <2>1. t \in DOMAIN tickets
    BY <1>1
  <2>2. tickets[t].cancelled
    BY <1>1, <2>1 DEF SameMark
  <2>3. PICK c \in DOMAIN tickets : tickets[c].kind = "cancel" /\ tickets[c].ref = t
    BY <2>1, <2>2 DEF CancelPairs
  <2>4. tickets'[t].status = "new"
    BY <2>1, <2>2 DEF CancelPairs
  <2>5. QED
    BY <2>3, <2>4 DEF Kept
<1>2. ASSUME NEW c \in DOMAIN tickets', tickets'[c].kind = "cancel"
      PROVE  /\ tickets'[c].ref \in 1 .. c - 1
             /\ tickets'[tickets'[c].ref].cancelled
             /\ \A d \in DOMAIN tickets' :
                  tickets'[d].kind = "cancel" /\ tickets'[d].ref = tickets'[c].ref => d = c
  <2>1. c \in DOMAIN tickets /\ tickets[c].kind = "cancel" /\ tickets'[c].ref = tickets[c].ref
    BY <1>2 DEF Kept
  <2>2. tickets[c].ref \in 1 .. c - 1 /\ tickets[tickets[c].ref].cancelled
    BY <2>1 DEF CancelPairs
  <2>3. tickets[c].ref \in DOMAIN tickets
    BY <1>0, <2>1, <2>2
  <2>4. tickets'[tickets[c].ref].cancelled
    BY <2>2, <2>3 DEF SameMark
  <2>5. ASSUME NEW d \in DOMAIN tickets', tickets'[d].kind = "cancel",
               tickets'[d].ref = tickets[c].ref
        PROVE  d = c
    <3>1. d \in DOMAIN tickets /\ tickets[d].kind = "cancel" /\ tickets[d].ref = tickets[c].ref
      BY <2>5 DEF Kept
    <3>2. QED
      BY <2>1, <3>1 DEF CancelPairs
  <2>6. QED
    BY <2>1, <2>2, <2>4, <2>5
<1>3. QED
  BY <1>1, <1>2 DEF CancelPairs

\* Every step keeps cancelled tickets and cancel tickets in pairs.
LEMMA CancelPairsPreserved ==
  ASSUME HeadersOK, CancelPairs, [Next]_vars
  PROVE  CancelPairs'
<1> DEFINE n == Len(tickets) + 1
<1>0. /\ DOMAIN tickets = 1 .. n - 1 /\ n \in Nat
      /\ HeadersOK'
  BY HeadersPreserved DEF HeadersOK
<1>1. CASE Quiet
  BY <1>0, <1>1, PairsKept DEF Quiet, NoNewTicket, SameLife
<1>2. CASE Sent
  <2>1. SendKind # "cancel"
    BY SendRefType
  <2>2. QED
    BY <1>0, <1>2, <2>1, PairsKept DEF Sent, NewTicket, SameLife
<1>3. ASSUME NEW c \in DOMAIN tickets, Cancelled(c)
      PROVE  CancelPairs'
  <2>1. PICK now \in Times :
          /\ CanCancel(c)
          /\ NewTicket("cancel", "new", c, "none", now)
          /\ \A t \in DOMAIN tickets : Kept(t) /\ SameLife(t) /\ (t # c => SameMark(t))
          /\ tickets'[c].cancelled
    BY <1>3 DEF Cancelled
  <2>2. \A d \in DOMAIN tickets : tickets[d].kind = "cancel" => tickets[d].ref # c
    BY <1>0, <2>1 DEF CanCancel, CancelPairs
  <2>3. ASSUME NEW t \in DOMAIN tickets', tickets'[t].cancelled
        PROVE  /\ tickets'[t].status = "new"
               /\ \E d \in DOMAIN tickets' : tickets'[d].kind = "cancel" /\ tickets'[d].ref = t
    <3>1. CASE t = c
      BY <1>0, <2>1, <3>1 DEF CanCancel, NewTicket, SameLife
    <3>2. CASE t # c
      <4>1. t \in DOMAIN tickets /\ tickets[t].cancelled
        BY <1>0, <2>1, <2>3, <3>2 DEF NewTicket, SameMark
      <4>2. PICK d \in DOMAIN tickets : tickets[d].kind = "cancel" /\ tickets[d].ref = t
        BY <4>1 DEF CancelPairs
      <4>3. d \in DOMAIN tickets' /\ tickets'[d].kind = "cancel" /\ tickets'[d].ref = t
        BY <1>0, <2>1, <4>2 DEF NewTicket, Kept
      <4>4. tickets'[t].status = "new"
        BY <2>1, <4>1 DEF SameLife, CancelPairs
      <4>5. QED
        BY <4>3, <4>4
    <3>3. QED
      BY <3>1, <3>2
  <2>4. ASSUME NEW d \in DOMAIN tickets', tickets'[d].kind = "cancel"
        PROVE  /\ tickets'[d].ref \in 1 .. d - 1
               /\ tickets'[tickets'[d].ref].cancelled
               /\ \A e \in DOMAIN tickets' :
                    tickets'[e].kind = "cancel" /\ tickets'[e].ref = tickets'[d].ref => e = d
    <3>1. CASE d = n
      BY <1>0, <2>1, <2>2, <3>1 DEF NewTicket, Kept
    <3>2. CASE d # n
      <4>1. d \in DOMAIN tickets /\ tickets[d].kind = "cancel" /\ tickets'[d].ref = tickets[d].ref
        BY <1>0, <2>1, <2>4, <3>2 DEF NewTicket, Kept
      <4>2. tickets[d].ref \in 1 .. d - 1 /\ tickets[tickets[d].ref].cancelled
        BY <4>1 DEF CancelPairs
      <4>3. tickets[d].ref \in DOMAIN tickets /\ tickets[d].ref # c
        BY <1>0, <2>2, <4>1, <4>2
      <4>4. tickets'[tickets[d].ref].cancelled
        BY <2>1, <4>2, <4>3 DEF SameMark
      <4>5. ASSUME NEW e \in DOMAIN tickets', tickets'[e].kind = "cancel",
                   tickets'[e].ref = tickets[d].ref
            PROVE  e = d
        <5>1. e # n
          BY <2>1, <4>3, <4>5 DEF NewTicket
        <5>2. e \in DOMAIN tickets /\ tickets[e].kind = "cancel" /\ tickets[e].ref = tickets[d].ref
          BY <1>0, <2>1, <4>5, <5>1 DEF NewTicket, Kept
        <5>3. QED
          BY <4>1, <5>2 DEF CancelPairs
      <4>6. QED
        BY <4>1, <4>2, <4>4, <4>5
    <3>3. QED
      BY <3>1, <3>2
  <2>5. QED
    BY <2>3, <2>4 DEF CancelPairs
<1>4. ASSUME NEW r \in DOMAIN tickets, Reprinted(r)
      PROVE  CancelPairs'
  BY <1>0, <1>4, PairsKept DEF Reprinted, NewTicket, SameLife
<1>5. ASSUME NEW m \in DOMAIN tickets, NEW expected, NEW next, Moved(m, expected, next)
      PROVE  CancelPairs'
  BY <1>0, <1>5, PairsKept DEF Moved, NoNewTicket, CanMove, SameLife
<1>6. QED
  BY <1>1, <1>2, <1>3, <1>4, <1>5, StepEffects

\* Cancelled tickets and cancel tickets come in pairs, whatever else happens.
THEOREM CancelPairsAlways == Spec => []CancelPairs
<1>1. Init => CancelPairs
  BY DEF Init, CancelPairs
<1>2. HeadersOK /\ CancelPairs /\ [Next]_vars => CancelPairs'
  BY CancelPairsPreserved
<1>3. QED
  BY <1>1, <1>2, HeadersTyped, PTL DEF Spec

-----------------------------------------------------------------------------
(***************************************************************************)
(* The history of a ticket tells its life.                                 *)
(***************************************************************************)

\* HistoryTells, for one ticket.
Told(t) ==
  LET h == history[t]
      movedTo(status) == \E k \in 2 .. Len(h) : h[k].to = status
  IN  /\ h # <<>> /\ h[Len(h)].to = tickets[t].status
      /\ \A k \in 2 .. Len(h) : h[k].from = h[k - 1].to
      /\ tickets[t].started = movedTo("preparing")
      /\ tickets[t].ready = movedTo("ready")
      /\ tickets[t].completed = movedTo("completed")

\* HistoryTells speaks of one ticket at a time.
LEMMA ToldByEach == HistoryTells <=> \A t \in DOMAIN tickets : Told(t)
BY DEF HistoryTells, Told

\* A ticket whose life did not change keeps a history that tells it.
LEMMA ToldKept ==
  ASSUME NEW t, Told(t), SameLife(t)
  PROVE  Told(t)'
BY DEF Told, SameLife

\* A first history row makes a true story of a ticket without stamps.
LEMMA ToldFirst ==
  ASSUME NEW n, NEW status, NEW from,
         tickets'[n].status = status, history'[n] = <<[from |-> from, to |-> status]>>,
         tickets'[n].started = FALSE, tickets'[n].ready = FALSE, tickets'[n].completed = FALSE
  PROVE  Told(n)'
<1> DEFINE h == history'[n]
<1>1. Len(h) = 1 /\ h[1].to = status /\ h # <<>>
  OBVIOUS
<1>2. \A k \in 2 .. Len(h) : FALSE
  BY <1>1
<1>3. QED
  BY <1>1, <1>2 DEF Told

\* A move appends the row that tells it.
LEMMA ToldMoved ==
  ASSUME HeadersOK, NEW m \in DOMAIN tickets, Told(m),
         NEW expected \in Statuses, NEW next \in Statuses,
         Moved(m, expected, next)
  PROVE  Told(m)'
<1> DEFINE h == history[m]
           hh == history'[m]
           row == [from |-> expected, to |-> next]
<1>1. h \in Seq(Change) /\ m \in DOMAIN history
  BY DEF HeadersOK
<1>2. hh = Append(h, row)
  BY DEF Moved
<1>3. h # <<>> /\ h[Len(h)].to = expected
  BY DEF Told, Moved, CanMove
<1>4. /\ Len(hh) = Len(h) + 1 /\ Len(h) \in Nat \ {0} /\ hh # <<>>
      /\ hh[Len(hh)] = row
      /\ \A k \in 1 .. Len(h) : hh[k] = h[k]
  BY <1>1, <1>2, <1>3
<1>5. row.from = expected /\ row.to = next
  OBVIOUS
<1> HIDE DEF row, hh
<1>6. \A k \in 2 .. Len(hh) : hh[k].from = hh[k - 1].to
  <2> SUFFICES ASSUME NEW k \in 2 .. Len(hh) PROVE hh[k].from = hh[k - 1].to
    OBVIOUS
  <2>1. CASE k = Len(hh)
    BY <1>3, <1>4, <1>5, <2>1
  <2>2. CASE k # Len(hh)
    <3>1. k \in 2 .. Len(h) /\ k - 1 \in 1 .. Len(h)
      BY <1>4, <2>2
    <3>2. h[k].from = h[k - 1].to
      BY <3>1 DEF Told
    <3>3. QED
      BY <1>4, <3>1, <3>2
  <2>3. QED
    BY <2>1, <2>2
<1>7. ASSUME NEW status
      PROVE  (\E k \in 2 .. Len(hh) : hh[k].to = status)
             <=> (\E k \in 2 .. Len(h) : h[k].to = status) \/ next = status
  <2>1. ASSUME NEW k \in 2 .. Len(hh), hh[k].to = status
        PROVE  (\E j \in 2 .. Len(h) : h[j].to = status) \/ next = status
    BY <1>4, <1>5, <2>1
  <2>2. ASSUME NEW k \in 2 .. Len(h), h[k].to = status
        PROVE  \E j \in 2 .. Len(hh) : hh[j].to = status
    BY <1>4, <2>2
  <2>3. ASSUME next = status
        PROVE  \E j \in 2 .. Len(hh) : hh[j].to = status
    BY <1>4, <1>5, <2>3
  <2>4. QED
    BY <2>1, <2>2, <2>3
<1>8. /\ tickets'[m].status = next
      /\ tickets'[m].started = (tickets[m].started \/ next = "preparing")
      /\ tickets'[m].ready = (tickets[m].ready \/ next = "ready")
      /\ tickets'[m].completed = (tickets[m].completed \/ next = "completed")
  BY DEF Moved
<1>9. /\ tickets[m].started = (\E k \in 2 .. Len(h) : h[k].to = "preparing")
      /\ tickets[m].ready = (\E k \in 2 .. Len(h) : h[k].to = "ready")
      /\ tickets[m].completed = (\E k \in 2 .. Len(h) : h[k].to = "completed")
  BY DEF Told
<1>10. /\ tickets'[m].started = (\E k \in 2 .. Len(hh) : hh[k].to = "preparing")
       /\ tickets'[m].ready = (\E k \in 2 .. Len(hh) : hh[k].to = "ready")
       /\ tickets'[m].completed = (\E k \in 2 .. Len(hh) : hh[k].to = "completed")
  BY <1>7, <1>8, <1>9, Zenon
<1>11. QED
  BY <1>4, <1>5, <1>6, <1>8, <1>10 DEF Told, hh

\* Every step keeps the histories true.
LEMMA HistoryTellsPreserved ==
  ASSUME HeadersOK, HistoryTells, [Next]_vars
  PROVE  HistoryTells'
<1>0. PICK n \in Nat : n = Len(tickets) + 1
  BY DEF HeadersOK
<1>a. /\ DOMAIN tickets = 1 .. n - 1
      /\ HeadersOK'
      /\ \A t \in DOMAIN tickets : Told(t)
  BY <1>0, HeadersPreserved, ToldByEach DEF HeadersOK
<1>1. SUFFICES \A t \in DOMAIN tickets' : Told(t)'
  BY DEF HistoryTells, Told
<1>2. CASE Quiet
  BY <1>0, <1>a, <1>2, ToldKept DEF Quiet, NoNewTicket
<1>3. ASSUME NEW kind, NEW status, NEW ref, NEW from, NEW now,
             NewTicket(kind, status, ref, from, now),
             \A t \in DOMAIN tickets : SameLife(t)
      PROVE  \A t \in DOMAIN tickets' : Told(t)'
  <2>1. \A t \in DOMAIN tickets : Told(t)'
    BY <1>0, <1>a, <1>3, ToldKept
  <2>2. /\ DOMAIN tickets' = 1 .. n /\ n \in DOMAIN tickets'
        /\ tickets'[n].status = status /\ history'[n] = <<[from |-> from, to |-> status]>>
        /\ ~tickets'[n].started /\ ~tickets'[n].ready /\ ~tickets'[n].completed
    BY <1>0, <1>a, <1>3 DEF NewTicket
  <2>3. tickets'[n] \in Ticket
    BY <1>0, <1>a, <2>2 DEF HeadersOK
  <2>4. /\ tickets'[n].started = FALSE /\ tickets'[n].ready = FALSE
        /\ tickets'[n].completed = FALSE
    BY <2>2, <2>3 DEF Ticket
  <2>5. Told(n)'
    BY <2>2, <2>4, ToldFirst
  <2>6. QED
    BY <1>0, <1>a, <2>1, <2>2, <2>5
<1>4. CASE Sent
  BY <1>3, <1>4 DEF Sent
<1>5. ASSUME NEW c \in DOMAIN tickets, Cancelled(c) \/ Reprinted(c)
      PROVE  \A t \in DOMAIN tickets' : Told(t)'
  BY <1>3, <1>5 DEF Cancelled, Reprinted
<1>6. ASSUME NEW m \in DOMAIN tickets, NEW expected \in Statuses, NEW next \in Statuses,
             Moved(m, expected, next)
      PROVE  \A t \in DOMAIN tickets' : Told(t)'
  <2>1. Told(m)'
    BY <1>0, <1>a, <1>6, ToldMoved
  <2>2. \A t \in DOMAIN tickets : t # m => Told(t)'
    BY <1>0, <1>a, <1>6, ToldKept DEF Moved
  <2>3. QED
    BY <1>6, <2>1, <2>2 DEF Moved, NoNewTicket
<1>7. QED
  BY <1>2, <1>4, <1>5, <1>6, StepEffects DEF Statuses

\* kot_status_history tells the life of each ticket.
THEOREM HistoryTellsAlways == Spec => []HistoryTells
<1>1. Init => HistoryTells
  BY DEF Init, HistoryTells
<1>2. HeadersOK /\ HistoryTells /\ [Next]_vars => HistoryTells'
  BY HistoryTellsPreserved
<1>3. QED
  BY <1>1, <1>2, HeadersTyped, PTL DEF Spec

-----------------------------------------------------------------------------
(***************************************************************************)
(* A ticket that left the kitchen display never comes back: it left by its *)
(* completion or its cancellation, and no step undoes either.              *)
(***************************************************************************)

\* A ticket that left the kitchen display never comes back.
THEOREM BoardNeverResurrectsAlways == Spec => BoardNeverResurrects
<1>1. ASSUME HeadersOK, [Next]_vars, NEW t \in DOMAIN tickets, ~OnBoard(t)
      PROVE  ~OnBoard(t)'
  <2>1. tickets[t] \in Ticket
    BY <1>1 DEF HeadersOK
  <2>2. /\ tickets[t].status \in Statuses /\ tickets[t].cancelled \in BOOLEAN
    BY <2>1 DEF Ticket
  <2>3. CASE \E m \in DOMAIN tickets :
               \/ Moved(m, "new", "preparing")
               \/ Moved(m, "preparing", "ready")
               \/ Moved(m, "ready", "completed")
    <3>1. PICK m \in DOMAIN tickets, expected \in Statuses \ {"completed"}, next \in Statuses :
            Moved(m, expected, next)
      BY <2>3 DEF Statuses
    <3>2. CASE t = m
      BY <1>1, <2>2, <3>1, <3>2 DEF Moved, CanMove, Kept, SameMark, OnBoard, Statuses
    <3>3. CASE t # m
      BY <1>1, <2>2, <3>1, <3>3 DEF Moved, Kept, SameMark, SameLife, OnBoard
    <3>4. QED
      BY <3>2, <3>3
  <2>4. CASE Kept(t) /\ SameLife(t) /\ SameMark(t)
    BY <1>1, <2>2, <2>4 DEF Kept, SameMark, SameLife, OnBoard
  <2>5. CASE tickets'[t].cancelled
    BY <2>5 DEF OnBoard
  <2>6. QED
    BY <1>1, <2>3, <2>4, <2>5, StepEffects DEF Quiet, Sent, Cancelled, Reprinted
<1>2. HeadersOK /\ [Next]_vars => [\A t \in DOMAIN tickets : ~OnBoard(t) => ~OnBoard(t)']_vars
  BY <1>1
<1>3. QED
  BY <1>2, HeadersTyped, PTL DEF Spec, BoardNeverResurrects

-----------------------------------------------------------------------------
(***************************************************************************)
(* The first sent ticket is the only full one, and deltas form a chain, as *)
(* long as the clock is not set back.                                      *)
(***************************************************************************)

\* Tickets are stamped in the order they are created, and where there are tickets
\* one was sent.
Clocked ==
  /\ \A t, u \in DOMAIN tickets : t < u => tickets[t].at <= tickets[u].at
  /\ DOMAIN tickets # {} => SentTickets # {}

\* A send refers to the last ticket inserted that is no reprint.
LEMMA SendRefNewest ==
  ASSUME HeadersOK, Clocked, SentTickets # {}
  PROVE  SendRef \in SentTickets /\ \A u \in SentTickets : u <= SendRef
<1>1. \A t \in DOMAIN tickets : t \in Nat /\ tickets[t].at \in Int
  <2>1. \A t \in DOMAIN tickets : t \in Nat /\ tickets[t] \in Ticket
    BY DEF HeadersOK
  <2>2. QED
    BY <2>1, KitchenAssumption DEF Ticket
<1>2. SentTickets \in SUBSET DOMAIN tickets
  BY DEF SentTickets
<1>3. PICK m : m = SendRef
  OBVIOUS
<1>4. m \in SentTickets /\ \A u \in SentTickets \ {m} : Before(u, m)
  BY <1>2, <1>3, NewestChosen DEF SendRef
<1>5. ASSUME NEW u \in SentTickets, u # m
      PROVE  u <= m
  <2>1. u \in DOMAIN tickets /\ m \in DOMAIN tickets /\ Before(u, m)
    BY <1>2, <1>4, <1>5
  <2>2. m < u => tickets[m].at <= tickets[u].at
    BY <2>1 DEF Clocked
  <2>3. QED
    BY <1>1, <2>1, <2>2 DEF Before
<1>6. m <= m
  BY <1>1, <1>2, <1>4
<1>7. QED
  BY <1>3, <1>4, <1>5, <1>6

\* Steps that add no ticket keep both; steps that add one extend SentTickets by
\* it unless it is a reprint.
LEMMA SentKept ==
  ASSUME NoNewTicket, \A t \in DOMAIN tickets : Kept(t)
  PROVE  SentTickets' = SentTickets
BY DEF NoNewTicket, Kept, SentTickets

\* A new ticket joins the sent ones unless it is a reprint.
LEMMA SentExtended ==
  ASSUME HeadersOK, NEW kind, NEW status, NEW ref, NEW from, NEW now,
         NewTicket(kind, status, ref, from, now), \A t \in DOMAIN tickets : Kept(t)
  PROVE  SentTickets' = SentTickets \cup (IF kind = "reprint" THEN {} ELSE {Len(tickets) + 1})
<1>1. Len(tickets) \in Nat
  BY DEF HeadersOK
<1>2. QED
  BY <1>1 DEF NewTicket, Kept, SentTickets

\* Without a new ticket the chain stays as it is.
LEMMA ChainKept ==
  ASSUME HeadersOK, Clocked, TicketChain,
         NoNewTicket, \A t \in DOMAIN tickets : Kept(t)
  PROVE  Clocked' /\ TicketChain'
<1>1. SentTickets' = SentTickets
  BY SentKept
<1>2. Clocked'
  BY <1>1 DEF NoNewTicket, Kept, Clocked
<1>3. TicketChain'
  BY <1>1 DEF NoNewTicket, Kept, TicketChain
<1>4. QED
  BY <1>2, <1>3

\* A ticket more: a first full one, a delta to the newest, or another kind.
LEMMA ChainExtended ==
  ASSUME HeadersOK, HeadersOK', Clocked, TicketChain, ~ClockRunsBack,
         NEW kind, NEW status, NEW ref, NEW from, NEW now \in Times,
         NewTicket(kind, status, ref, from, now), ClockAllows(now),
         \A t \in DOMAIN tickets : Kept(t),
         \/ kind = SendKind /\ ref = SendRef
         \/ kind \in {"cancel", "reprint"} /\ DOMAIN tickets # {}
  PROVE  Clocked' /\ TicketChain'
<1>0. PICK n \in Nat : n = Len(tickets) + 1
  BY DEF HeadersOK
<1>1. /\ DOMAIN tickets = 1 .. n - 1 /\ DOMAIN tickets' = 1 .. n
      /\ tickets'[n].at = now /\ tickets'[n].kind = kind /\ tickets'[n].ref = ref
      /\ SentTickets \subseteq DOMAIN tickets /\ n >= 1
  BY <1>0 DEF NewTicket, HeadersOK, SentTickets
<1>2. SentTickets' = SentTickets \cup (IF kind = "reprint" THEN {} ELSE {n})
  BY <1>0, SentExtended
<1>3. Clocked'
  <2>1. \A t, u \in DOMAIN tickets' : t < u => tickets'[t].at <= tickets'[u].at
    BY <1>1 DEF Clocked, ClockAllows, Kept
  <2>2. SentTickets' # {}
    BY <1>1, <1>2, SendRefType DEF Clocked
  <2>3. QED
    BY <2>1, <2>2 DEF Clocked
<1>4. TicketChain'
  <2> DEFINE earlier(t) == {u \in SentTickets : u < t}
             earlierNow(t) == {u \in SentTickets' : u < t}
  <2>1. \A t \in DOMAIN tickets' : earlierNow(t) = earlier(t)
    BY <1>1, <1>2
  <2>2. ASSUME NEW t \in DOMAIN tickets
        PROVE  /\ tickets'[t].kind = "full" <=> t \in SentTickets' /\ earlierNow(t) = {}
               /\ tickets'[t].kind = "delta" =>
                    /\ tickets'[t].ref \in earlierNow(t)
                    /\ \A u \in earlierNow(t) : u <= tickets'[t].ref
    <3>1. t \in SentTickets' <=> t \in SentTickets
      BY <1>1, <1>2
    <3>2. t \in DOMAIN tickets' /\ earlierNow(t) = earlier(t)
      BY <1>1, <2>1
    <3>3. /\ tickets[t].kind = "full" <=> t \in SentTickets /\ earlier(t) = {}
          /\ tickets[t].kind = "delta" =>
               tickets[t].ref \in earlier(t) /\ \A u \in earlier(t) : u <= tickets[t].ref
      BY DEF TicketChain
    <3>4. QED
      BY <3>1, <3>2, <3>3 DEF Kept
  <2>3. /\ tickets'[n].kind = "full" <=> n \in SentTickets' /\ earlierNow(n) = {}
        /\ tickets'[n].kind = "delta" =>
             /\ tickets'[n].ref \in earlierNow(n)
             /\ \A u \in earlierNow(n) : u <= tickets'[n].ref
    <3>1. earlierNow(n) = SentTickets
      BY <1>1, <2>1
    <3>2. CASE kind = SendKind /\ ref = SendRef
      <4>1. CASE SentTickets = {}
        BY <1>1, <1>2, <3>1, <3>2, <4>1 DEF SendKind
      <4>2. CASE SentTickets # {}
        BY <1>1, <3>1, <3>2, <4>2, SendRefNewest DEF SendKind
      <4>3. QED
        BY <4>1, <4>2
    <3>3. CASE kind \in {"cancel", "reprint"} /\ DOMAIN tickets # {}
      BY <1>1, <3>1, <3>3 DEF Clocked
    <3>4. QED
      BY <3>2, <3>3
  <2>4. \A t \in DOMAIN tickets' : t = n \/ t \in DOMAIN tickets
    BY <1>1
  <2>5. QED
    BY <2>2, <2>3, <2>4 DEF TicketChain
<1>5. QED
  BY <1>3, <1>4

\* Every step keeps the clock order and the chain, unless the clock is set back.
LEMMA ChainPreserved ==
  ASSUME HeadersOK, Clocked, TicketChain, ~ClockRunsBack, [Next]_vars
  PROVE  Clocked' /\ TicketChain'
<1>1. HeadersOK'
  BY HeadersPreserved
<1>2. CASE Quiet
  BY <1>2, ChainKept DEF Quiet
<1>3. CASE Sent
  BY <1>1, <1>3, ChainExtended DEF Sent
<1>4. ASSUME NEW c \in DOMAIN tickets, Cancelled(c) \/ Reprinted(c)
      PROVE  Clocked' /\ TicketChain'
  BY <1>1, <1>4, ChainExtended DEF Cancelled, Reprinted
<1>5. ASSUME NEW m \in DOMAIN tickets, NEW expected, NEW next, Moved(m, expected, next)
      PROVE  Clocked' /\ TicketChain'
  BY <1>5, ChainKept DEF Moved
<1>6. QED
  BY <1>2, <1>3, <1>4, <1>5, StepEffects

\* There is one full ticket, the first, and each delta refers to the one before it.
THEOREM TicketChainAlways ==
  ASSUME ~ClockRunsBack
  PROVE  Spec => []TicketChain
<1>1. Init => Clocked /\ TicketChain
  BY DEF Init, Clocked, TicketChain, SentTickets
<1>2. HeadersOK /\ Clocked /\ TicketChain /\ [Next]_vars => Clocked' /\ TicketChain'
  BY ChainPreserved
<1>3. QED
  BY <1>1, <1>2, HeadersTyped, PTL DEF Spec

-----------------------------------------------------------------------------
(***************************************************************************)
(* The lines of a ticket, applied one by one.                              *)
(***************************************************************************)

\* What the kitchen may hold of an item.
Dish == [qty : Nat \ {0}, note : Notes, make : Makes] \cup {Nothing}

\* The lines of one ticket for an item applied one by one.
Cooked(dish, content) == FoldLeft(Apply, dish, content)

\* A ticket line leaves the kitchen with a dish or with nothing.
LEMMA ApplyTyped ==
  ASSUME NEW dish \in Dish, NEW line \in KotLine
  PROVE  Apply(dish, line) \in Dish
<1>1. CASE line.action \in {"add", "update"}
  BY <1>1, KitchenAssumption DEF Dish, KotLine, Apply, Nothing
<1>2. CASE line.action = "cancel"
  BY <1>2, KitchenAssumption DEF Dish, KotLine, Apply, Nothing
<1>3. QED
  BY <1>1, <1>2 DEF KotLine, Actions

\* The steps of that fold.
Applied(content) == [k \in DOMAIN content |-> [d \in Dish |-> Apply(d, content[k])]]

\* The lines of a ticket are applied by a fold that takes the last line last.
LEMMA CookedByFold ==
  ASSUME NEW dish \in Dish, NEW content \in Seq(KotLine)
  PROVE  \E g : /\ FoldsIn(g, DOMAIN content, Dish, dish, Largest, Applied(content))
                /\ Cooked(dish, content) = g[DOMAIN content]
<1> DEFINE S == DOMAIN content
           step == Applied(content)
           Literal(g) == g = [s \in SUBSET S |-> IF s = {} THEN dish
                                ELSE Apply(g[s \ {LargestOf(s)}], content[LargestOf(s)])]
           g == CHOOSE g : Literal(g)
<1>1. /\ S = 1 .. Len(content) /\ Len(content) \in Nat /\ IsFiniteSet(S)
      /\ \A k \in S : content[k] \in KotLine
  BY FS_Interval
<1>2. Choice(Largest, S) /\ \A s \in SUBSET S : LargestOf(s) = Largest[s]
  BY <1>1, LargestChosen DEF Largest
<1>3. /\ \A k \in S, d \in Dish : step[k][d] = Apply(d, content[k])
      /\ StepsIn(step, S, Dish)
  BY <1>1, ApplyTyped DEF Applied, StepsIn
<1>4. Cooked(dish, content) = g[S]
  BY DEF Cooked, FoldLeft, MapThenFoldSet, Max, LargestOf
<1> HIDE DEF S, step
<1>5. PICK f \in [SUBSET S -> Dish] : Folds(f, S, dish, Largest, step)
  BY <1>1, <1>2, <1>3, FoldExists
<1>6. ASSUME NEW s \in SUBSET S, s # {}
      PROVE  LargestOf(s) \in S /\ s \ {LargestOf(s)} \in SUBSET S
  BY <1>2, <1>6 DEF Choice
<1>7. \A s \in SUBSET S :
        f[s] = IF s = {} THEN dish ELSE Apply(f[s \ {LargestOf(s)}], content[LargestOf(s)])
  BY <1>2, <1>3, <1>5, <1>6, ZenonT(30) DEF Folds
<1>8. Literal(f)
  BY <1>5, <1>7
<1>9. Literal(g)
  BY <1>8
<1> HIDE DEF g
<1>10. \A s \in SUBSET S :
         g[s] = IF s = {} THEN dish ELSE Apply(g[s \ {LargestOf(s)}], content[LargestOf(s)])
  BY <1>9
<1> HIDE DEF Literal
<1>11. ASSUME NEW s \in SUBSET S, s # {}, g[s \ {Largest[s]}] \in Dish
       PROVE  g[s] = step[Largest[s]][g[s \ {Largest[s]}]]
  <2>1. LargestOf(s) = Largest[s] /\ LargestOf(s) \in S
    BY <1>2, <1>6, <1>11
  <2>2. g[s] = Apply(g[s \ {Largest[s]}], content[Largest[s]])
    BY <1>10, <1>11, <2>1
  <2>3. QED
    BY <1>3, <1>11, <2>1, <2>2
<1>12. Unfolds(g, S, Dish, dish, Largest, step)
  BY <1>10, <1>11 DEF Unfolds
<1>13. FoldsIn(g, S, Dish, dish, Largest, step)
  BY <1>1, <1>2, <1>3, <1>12, FoldTyped
<1>14. QED
  BY <1>4, <1>13 DEF S, step

\* So do the lines of a ticket.
LEMMA CookedTyped ==
  ASSUME NEW dish \in Dish, NEW content \in Seq(KotLine)
  PROVE  Cooked(dish, content) \in Dish
<1>1. PICK g : /\ FoldsIn(g, DOMAIN content, Dish, dish, Largest, Applied(content))
               /\ Cooked(dish, content) = g[DOMAIN content]
  BY CookedByFold
<1>2. QED
  BY <1>1 DEF FoldsIn

\* No lines change nothing.
LEMMA CookedNone ==
  ASSUME NEW dish \in Dish
  PROVE  Cooked(dish, <<>>) = dish
<1>1. <<>> \in Seq(KotLine) /\ DOMAIN <<>> = {}
  OBVIOUS
<1>2. PICK g : /\ FoldsIn(g, DOMAIN <<>>, Dish, dish, Largest, Applied(<<>>))
               /\ Cooked(dish, <<>>) = g[DOMAIN <<>>]
  BY <1>1, CookedByFold
<1>3. QED
  BY <1>1, <1>2 DEF FoldsIn, Folds

\* One line more is applied after the others.
LEMMA CookedOneMore ==
  ASSUME NEW dish \in Dish, NEW content \in Seq(KotLine), NEW line \in KotLine
  PROVE  Cooked(dish, Append(content, line)) = Apply(Cooked(dish, content), line)
<1> DEFINE n == Len(content)
           more == Append(content, line)
<1>1. /\ n \in Nat /\ DOMAIN content = 1 .. n
      /\ more \in Seq(KotLine) /\ DOMAIN more = 1 .. n + 1
      /\ more[n + 1] = line /\ \A k \in 1 .. n : more[k] = content[k]
  OBVIOUS
<1> HIDE DEF n, more
<1>2. PICK g : /\ FoldsIn(g, 1 .. n, Dish, dish, Largest, Applied(content))
               /\ Cooked(dish, content) = g[1 .. n]
  BY <1>1, CookedByFold
<1>3. PICK h : /\ FoldsIn(h, 1 .. n + 1, Dish, dish, Largest, Applied(more))
               /\ Cooked(dish, more) = h[1 .. n + 1]
  BY <1>1, CookedByFold
<1>4. \A k \in 1 .. n, d \in Dish : Applied(content)[k][d] = Applied(more)[k][d]
  BY <1>1 DEF Applied
<1>5. h[1 .. n + 1] = Applied(more)[n + 1][g[1 .. n]]
  BY <1>1, <1>2, <1>3, <1>4, FoldLonger
<1>6. Applied(more)[n + 1][Cooked(dish, content)] = Apply(Cooked(dish, content), line)
  BY <1>1, CookedTyped DEF Applied
<1>7. QED
  BY <1>2, <1>3, <1>5, <1>6 DEF more

-----------------------------------------------------------------------------
(***************************************************************************)
(* The replay: the newest ticket is applied last, so the tickets are       *)
(* applied in the order of the clock.                                      *)
(***************************************************************************)

\* Ticket lines are well formed.
ContentOK == kotItems \in Seq([Items -> Seq(KotLine)])

\* The newest of each set of tickets, and what each ticket does, as functions.
Newests == [s \in SUBSET DOMAIN tickets |-> Newest(s)]

Cookings(i) == [t \in DOMAIN tickets |-> [d \in Dish |-> Cooked(d, kotItems[t][i])]]

\* The replayed tickets are finitely many rows of the table.
LEMMA ReplayedTickets ==
  ASSUME HeadersOK, NEW n \in 0 .. Len(tickets)
  PROVE  IsFiniteSet(Replayed(n)) /\ Replayed(n) \subseteq DOMAIN tickets
<1>1. n \in Nat /\ DOMAIN tickets = 1 .. Len(tickets) /\ Len(tickets) \in Nat
  BY DEF HeadersOK
<1>2. PICK R : R = Replayed(n)
  OBVIOUS
<1>3. R \subseteq 1 .. n /\ R \subseteq DOMAIN tickets
  BY <1>1, <1>2 DEF Replayed
<1>4. IsFiniteSet(R)
  <2>1. IsFiniteSet(1 .. n)
    BY <1>1, FS_Interval
  <2>2. QED
    BY <1>3, <2>1, FS_Subset
<1>5. QED
  BY <1>2, <1>3, <1>4

\* The replay is a fold that takes the newest ticket last.
LEMMA KitchenByFold ==
  ASSUME HeadersOK, ContentOK, NEW n \in 0 .. Len(tickets), NEW i \in Items
  PROVE  \E g : /\ FoldsIn(g, Replayed(n), Dish, Nothing, Newests, Cookings(i))
                /\ KitchenAfter(n, i) = g[Replayed(n)]
<1>0. PICK R, chosen, step, D, last, cooked, null :
        /\ R = Replayed(n) /\ chosen = Newests /\ step = Cookings(i)
        /\ D = DOMAIN tickets
        /\ last = [s \in SUBSET R |-> Newest(s)]
        /\ cooked = [t \in R |-> kotItems[t][i]]
        /\ null = Nothing
  OBVIOUS
<1> DEFINE Literal(g) == g = [s \in SUBSET R |-> IF s = {} THEN Nothing
                                ELSE FoldLeft(Apply, g[s \ {Newest(s)}], kotItems[Newest(s)][i])]
           g == CHOOSE g : Literal(g)
<1>1. IsFiniteSet(R) /\ R \subseteq D
  BY <1>0, ReplayedTickets
<1>2. Choice(chosen, R) /\ \A s \in SUBSET R : Newest(s) = chosen[s]
  BY <1>0, <1>1, NewestChosen DEF Newests, Choice
<1>3. \A t \in R : kotItems[t][i] \in Seq(KotLine)
  BY <1>0, <1>1 DEF HeadersOK, ContentOK
<1>4. /\ \A t \in R, d \in Dish : step[t][d] = Cooked(d, kotItems[t][i])
      /\ StepsIn(step, R, Dish)
  BY <1>0, <1>1, <1>3, CookedTyped DEF Cookings, StepsIn
<1>5. KitchenAfter(n, i) = g[R]
  BY <1>0 DEF KitchenAfter, MapThenFoldSet
<1>6. null \in Dish
  BY <1>0 DEF Dish
<1>7. PICK f \in [SUBSET R -> Dish] : Folds(f, R, null, chosen, step)
  BY <1>1, <1>2, <1>4, <1>6, FoldExists
<1>8. ASSUME NEW s \in SUBSET R, s # {}
      PROVE  Newest(s) \in R /\ s \ {Newest(s)} \in SUBSET R
  BY <1>2, <1>8 DEF Choice
<1>9. \A s \in SUBSET R :
        f[s] = IF s = {} THEN Nothing
               ELSE Cooked(f[s \ {Newest(s)}], kotItems[Newest(s)][i])
  <2>1. f[{}] = null
    BY <1>7 DEF Folds
  <2>2. ASSUME NEW s \in SUBSET R, s # {}
        PROVE  f[s] = Cooked(f[s \ {Newest(s)}], kotItems[Newest(s)][i])
    <3>1. PICK t, rest : t = Newest(s) /\ rest = s \ {t}
      OBVIOUS
    <3>2. t = chosen[s] /\ t \in R /\ rest \in SUBSET R
      BY <1>2, <1>8, <2>2, <3>1
    <3>3. f[s] = step[t][f[rest]] /\ f[rest] \in Dish
      BY <1>7, <2>2, <3>1, <3>2 DEF Folds
    <3>4. step[t][f[rest]] = Cooked(f[rest], kotItems[t][i])
      BY <1>4, <3>2, <3>3
    <3>5. QED
      BY <3>1, <3>3, <3>4
  <2>3. QED
    BY <1>0, <2>1, <2>2
<1>10. Literal(f)
  BY <1>7, <1>9 DEF Cooked
<1>11. Literal(g)
  BY <1>10
<1> HIDE DEF g
<1>12. \A s \in SUBSET R :
         g[s] = IF s = {} THEN Nothing
                ELSE Cooked(g[s \ {Newest(s)}], kotItems[Newest(s)][i])
  BY <1>11 DEF Cooked
<1> HIDE DEF Literal
<1>13. PICK G : G = g
  OBVIOUS
<1>14. ASSUME NEW s \in SUBSET R, s # {}, G[s \ {chosen[s]}] \in Dish
       PROVE  G[s] = step[chosen[s]][G[s \ {chosen[s]}]]
  <2>1. Newest(s) = chosen[s] /\ chosen[s] \in R
    BY <1>2, <1>8, <1>14
  <2>2. G[s] = Cooked(G[s \ {chosen[s]}], kotItems[chosen[s]][i])
    BY <1>12, <1>13, <1>14, <2>1
  <2>3. QED
    BY <1>4, <1>14, <2>1, <2>2
<1>15. Unfolds(G, R, Dish, null, chosen, step)
  BY <1>0, <1>12, <1>13, <1>14 DEF Unfolds
<1>16. FoldsIn(G, R, Dish, null, chosen, step)
  BY <1>1, <1>2, <1>4, <1>6, <1>15, FoldTyped
<1>17. QED
  BY <1>0, <1>5, <1>13, <1>16

\* The kitchen holds a dish or nothing.
LEMMA KitchenTyped ==
  ASSUME HeadersOK, ContentOK, NEW n \in 0 .. Len(tickets), NEW i \in Items
  PROVE  KitchenAfter(n, i) \in Dish
<1>1. PICK g : /\ FoldsIn(g, Replayed(n), Dish, Nothing, Newests, Cookings(i))
               /\ KitchenAfter(n, i) = g[Replayed(n)]
  BY KitchenByFold
<1>2. QED
  BY <1>1 DEF FoldsIn

\* Before the first ticket it holds nothing.
LEMMA KitchenStart ==
  ASSUME HeadersOK, ContentOK, NEW i \in Items
  PROVE  KitchenAfter(0, i) = Nothing
<1>0. 0 \in 0 .. Len(tickets) /\ Replayed(0) = {}
  BY DEF HeadersOK, Replayed
<1>1. PICK g : /\ FoldsIn(g, Replayed(0), Dish, Nothing, Newests, Cookings(i))
               /\ KitchenAfter(0, i) = g[Replayed(0)]
  BY <1>0, KitchenByFold
<1>2. QED
  BY <1>0, <1>1 DEF FoldsIn, Folds

\* A reprint leaves the replay as it is.
LEMMA KitchenSkipsReprint ==
  ASSUME HeadersOK, NEW n \in DOMAIN tickets, tickets[n].kind = "reprint", NEW i
  PROVE  KitchenAfter(n, i) = KitchenAfter(n - 1, i)
<1>1. n \in Nat \ {0}
  BY DEF HeadersOK
<1>2. Replayed(n) = Replayed(n - 1)
  BY <1>1 DEF Replayed
<1>3. QED
  BY <1>2 DEF KitchenAfter

\* In the order of the clock, each other ticket is applied to the tickets before it.
LEMMA KitchenCooks ==
  ASSUME HeadersOK, ContentOK, Clocked, NEW n \in DOMAIN tickets, tickets[n].kind # "reprint",
         NEW i \in Items
  PROVE  KitchenAfter(n, i) = Cooked(KitchenAfter(n - 1, i), kotItems[n][i])
<1>0. PICK R, S, chosen, step, D, null :
        /\ R = Replayed(n) /\ S = Replayed(n - 1)
        /\ chosen = Newests /\ step = Cookings(i) /\ D = DOMAIN tickets /\ null = Nothing
  OBVIOUS
<1>1. n \in 1 .. Len(tickets) /\ n \in 0 .. Len(tickets) /\ n - 1 \in 0 .. Len(tickets)
      /\ n \in Nat
  BY DEF HeadersOK
<1>2. R = S \cup {n} /\ n \notin S /\ IsFiniteSet(R) /\ R \subseteq D /\ IsFiniteSet(S)
      /\ \A u \in S : u < n
  <2>1. R = S \cup {n} /\ n \notin S /\ \A u \in S : u < n
    BY <1>0, <1>1 DEF Replayed
  <2>2. QED
    BY <1>0, <1>1, <2>1, ReplayedTickets
<1>3. \A t \in D : t \in Nat /\ tickets[t].at \in Int
  <2>1. \A t \in D : t \in Nat /\ tickets[t] \in Ticket
    BY <1>0 DEF HeadersOK
  <2>2. QED
    BY <2>1, KitchenAssumption DEF Ticket
<1>4. Choice(chosen, R)
  BY <1>0, <1>2, NewestChosen DEF Newests, Choice
<1>5. Newest(R) = n
  <2>1. PICK t : t = Newest(R)
    OBVIOUS
  <2>2. R \in SUBSET DOMAIN tickets /\ R # {}
    BY <1>0, <1>2
  <2>3. t \in R /\ \A u \in R \ {t} : Before(u, t)
    BY <2>1, <2>2, NewestChosen
  <2>4. SUFFICES ASSUME t # n PROVE FALSE
    BY <2>1
  <2>5. Before(n, t) /\ t < n
    BY <1>2, <2>3, <2>4
  <2>6. tickets[t].at <= tickets[n].at
    BY <1>0, <1>2, <2>3, <2>5 DEF Clocked
  <2>7. QED
    BY <1>0, <1>2, <1>3, <2>3, <2>5, <2>6 DEF Before
<1>6. PICK g : FoldsIn(g, R, Dish, null, chosen, step) /\ KitchenAfter(n, i) = g[R]
  BY <1>0, <1>1, KitchenByFold
<1>7. PICK h : FoldsIn(h, S, Dish, null, chosen, step) /\ KitchenAfter(n - 1, i) = h[S]
  BY <1>0, <1>1, KitchenByFold
<1>8. S \in SUBSET R /\ R \in SUBSET R /\ S \cap R = S
  BY <1>2
<1>9. Agree(h, g, S \cap R)
  <2>1. Folds(g, R, null, chosen, step) /\ Folds(h, S, null, chosen, step)
    BY <1>6, <1>7 DEF FoldsIn
  <2>2. QED
    BY <1>2, <1>4, <1>8, <2>1, FoldsAgree
<1>10. g[S] = h[S]
  BY <1>8, <1>9 DEF Agree
<1>11. chosen[R] = n /\ R \ {n} = S
  BY <1>0, <1>2, <1>5 DEF Newests
<1>12. g[R] = step[n][g[S]]
  BY <1>2, <1>6, <1>8, <1>11, ZenonT(30) DEF FoldsIn, Folds
<1>13. h[S] \in Dish
  BY <1>7 DEF FoldsIn
<1>14. step[n][h[S]] = Cooked(h[S], kotItems[n][i])
  BY <1>0, <1>13 DEF Cookings
<1>15. QED
  BY <1>6, <1>7, <1>10, <1>12, <1>14

\* A ticket of one line.
LEMMA CookedOne ==
  ASSUME NEW dish \in Dish, NEW a \in KotLine
  PROVE  Cooked(dish, <<a>>) = Apply(dish, a)
<1>1. <<a>> = Append(<<>>, a) /\ <<>> \in Seq(KotLine)
  OBVIOUS
<1>2. Cooked(dish, Append(<<>>, a)) = Apply(Cooked(dish, <<>>), a)
  BY <1>1, CookedOneMore
<1>3. QED
  BY <1>1, <1>2, CookedNone

\* A ticket of two lines.
LEMMA CookedTwo ==
  ASSUME NEW dish \in Dish, NEW a \in KotLine, NEW b \in KotLine
  PROVE  Cooked(dish, <<a, b>>) = Apply(Apply(dish, a), b)
<1>1. <<a, b>> = Append(<<a>>, b) /\ <<a>> \in Seq(KotLine)
  OBVIOUS
<1>2. Cooked(dish, Append(<<a>>, b)) = Apply(Cooked(dish, <<a>>), b)
  BY <1>1, CookedOneMore
<1>3. QED
  BY <1>1, <1>2, CookedOne

-----------------------------------------------------------------------------
(***************************************************************************)
(* The delta takes the kitchen from what it holds to the order.            *)
(***************************************************************************)

\* What an order has of an item.
Row == Line \cup {Nothing}

\* Both have the dish, made in the same way.
SameDish(prev, cur) == cur.qty > 0 /\ prev.qty > 0 /\ cur.make = prev.make

\* What dishes and order rows consist of.
LEMMA DishFacts ==
  /\ Nothing.qty = 0 /\ Nothing.note = NoNote /\ Nothing.make = PlainMake
  /\ Row \subseteq Dish
  /\ \A dish \in Dish :
       /\ dish.qty \in Nat /\ dish.note \in Notes /\ dish.make \in Makes
       /\ dish = [qty |-> dish.qty, note |-> dish.note, make |-> dish.make]
       /\ dish.qty = 0 => dish = Nothing
BY KitchenAssumption DEF Dish, Row, Line, Nothing

\* What a delta consists of.
LEMMA DeltaCases ==
  ASSUME NEW prev \in Dish, NEW cur \in Row
  PROVE  LET delta == DeltaBetween(prev, cur)
             taken == KotLineOf("cancel", prev, prev.qty)
             made  == KotLineOf("add", cur, cur.qty)
             noted == KotLineOf("update", cur, cur.qty)
             more  == KotLineOf("add", cur, cur.qty - prev.qty)
             less  == KotLineOf("cancel", prev, prev.qty - cur.qty)
         IN  IF ~SameDish(prev, cur)
             THEN \/ cur.qty = 0 /\ prev.qty = 0 /\ delta = <<>>
                  \/ cur.qty = 0 /\ prev.qty > 0 /\ delta = <<taken>>
                  \/ cur.qty > 0 /\ prev.qty = 0 /\ delta = <<made>>
                  \/ cur.qty > 0 /\ prev.qty > 0 /\ delta = <<taken, made>>
             ELSE IF cur.note = prev.note
             THEN \/ cur.qty = prev.qty /\ delta = <<>>
                  \/ cur.qty > prev.qty /\ delta = <<more>>
                  \/ cur.qty < prev.qty /\ delta = <<less>>
             ELSE \/ cur.qty = prev.qty /\ delta = <<noted>>
                  \/ cur.qty > prev.qty /\ delta = <<noted, more>>
                  \/ cur.qty < prev.qty /\ delta = <<noted, less>>
<1>1. /\ cur.qty \in Nat /\ prev.qty \in Nat
  BY DishFacts
<1>2. PICK taken, made, noted, more, less :
        /\ taken = KotLineOf("cancel", prev, prev.qty)
        /\ made  = KotLineOf("add", cur, cur.qty)
        /\ noted = KotLineOf("update", cur, cur.qty)
        /\ more  = KotLineOf("add", cur, cur.qty - prev.qty)
        /\ less  = KotLineOf("cancel", prev, prev.qty - cur.qty)
  OBVIOUS
<1>3. PICK same \in BOOLEAN : same <=> SameDish(prev, cur)
  BY Zenon
<1>4. DeltaBetween(prev, cur)
        = When(prev.qty > 0 /\ ~same, taken)
          \o When(cur.qty > 0 /\ ~same, made)
          \o When(same /\ cur.note # prev.note, noted)
          \o When(same /\ cur.qty > prev.qty, more)
          \o When(same /\ cur.qty < prev.qty, less)
  BY <1>2, <1>3 DEF DeltaBetween, SameDish
<1>5. /\ \A a, b : <<a>> \o <<b>> = <<a, b>>
      /\ \A a : <<a>> \o <<>> = <<a>>
      /\ \A a : <<>> \o <<a>> = <<a>>
      /\ <<>> \o <<>> = <<>>
      /\ \A a, b : <<a, b>> \o <<>> = <<a, b>>
  <2>1. \A a, b : <<a>> \in Seq({a, b}) /\ <<b>> \in Seq({a, b}) /\ <<a, b>> \in Seq({a, b})
    OBVIOUS
  <2>2. ASSUME NEW a, NEW b PROVE <<a>> \o <<b>> = <<a, b>>
    <3>1. PICK c : c = <<a>> \o <<b>>
      OBVIOUS
    <3>2. Len(<<a>>) = 1 /\ Len(<<b>>) = 1 /\ <<a>>[1] = a /\ <<b>>[1] = b
      OBVIOUS
    <3>3. c \in Seq({a, b}) /\ Len(c) = 2 /\ c[1] = a /\ c[2] = b
      BY <2>1, <3>1, <3>2, ConcatProperties
    <3>4. <<a, b>> \in Seq({a, b}) /\ Len(<<a, b>>) = 2 /\ <<a, b>>[1] = a /\ <<a, b>>[2] = b
      OBVIOUS
    <3>5. \A i \in 1 .. 2 : c[i] = <<a, b>>[i]
      BY <3>3, <3>4
    <3>6. QED
      BY <3>1, <3>3, <3>4, <3>5, SeqEqual
  <2>3. QED
    BY <2>1, <2>2, ConcatEmptySeq
<1>6. CASE ~same
  <2>1. CASE prev.qty > 0 /\ cur.qty > 0
    <3>1. /\ When(prev.qty > 0 /\ ~same, taken) = <<taken>>
          /\ When(cur.qty > 0 /\ ~same, made) = <<made>>
          /\ When(same /\ cur.note # prev.note, noted) = <<>>
          /\ When(same /\ cur.qty > prev.qty, more) = <<>>
          /\ When(same /\ cur.qty < prev.qty, less) = <<>>
      BY <1>1, <1>6, <2>1 DEF When
    <3>2. DeltaBetween(prev, cur) = <<taken>> \o <<made>> \o <<>> \o <<>> \o <<>>
      BY <1>4, <3>1
    <3>3. DeltaBetween(prev, cur) = <<taken, made>>
      BY <1>5, <3>2, ZenonT(30)
    <3>4. QED
      BY <1>1, <1>2, <1>3, <1>6, <2>1, <3>3
  <2>2. CASE prev.qty > 0 /\ cur.qty = 0
    <3>1. /\ When(prev.qty > 0 /\ ~same, taken) = <<taken>>
          /\ When(cur.qty > 0 /\ ~same, made) = <<>>
          /\ When(same /\ cur.note # prev.note, noted) = <<>>
          /\ When(same /\ cur.qty > prev.qty, more) = <<>>
          /\ When(same /\ cur.qty < prev.qty, less) = <<>>
      BY <1>1, <1>6, <2>2 DEF When
    <3>2. DeltaBetween(prev, cur) = <<taken>> \o <<>> \o <<>> \o <<>> \o <<>>
      BY <1>4, <3>1
    <3>3. DeltaBetween(prev, cur) = <<taken>>
      BY <1>5, <3>2
    <3>4. QED
      BY <1>1, <1>2, <1>3, <1>6, <2>2, <3>3
  <2>3. CASE prev.qty = 0 /\ cur.qty > 0
    <3>1. /\ When(prev.qty > 0 /\ ~same, taken) = <<>>
          /\ When(cur.qty > 0 /\ ~same, made) = <<made>>
          /\ When(same /\ cur.note # prev.note, noted) = <<>>
          /\ When(same /\ cur.qty > prev.qty, more) = <<>>
          /\ When(same /\ cur.qty < prev.qty, less) = <<>>
      BY <1>1, <1>6, <2>3 DEF When
    <3>2. DeltaBetween(prev, cur) = <<>> \o <<made>> \o <<>> \o <<>> \o <<>>
      BY <1>4, <3>1
    <3>3. DeltaBetween(prev, cur) = <<made>>
      BY <1>5, <3>2
    <3>4. QED
      BY <1>1, <1>2, <1>3, <1>6, <2>3, <3>3
  <2>4. CASE prev.qty = 0 /\ cur.qty = 0
    <3>1. /\ When(prev.qty > 0 /\ ~same, taken) = <<>>
          /\ When(cur.qty > 0 /\ ~same, made) = <<>>
          /\ When(same /\ cur.note # prev.note, noted) = <<>>
          /\ When(same /\ cur.qty > prev.qty, more) = <<>>
          /\ When(same /\ cur.qty < prev.qty, less) = <<>>
      BY <1>1, <1>6, <2>4 DEF When
    <3>2. DeltaBetween(prev, cur) = <<>> \o <<>> \o <<>> \o <<>> \o <<>>
      BY <1>4, <3>1
    <3>3. DeltaBetween(prev, cur) = <<>>
      BY <1>5, <3>2
    <3>4. QED
      BY <1>1, <1>2, <1>3, <1>6, <2>4, <3>3
  <2>5. QED
    BY <1>1, <2>1, <2>2, <2>3, <2>4
<1>7. CASE same
  <2>1. CASE cur.note = prev.note /\ cur.qty = prev.qty
    <3>1. /\ When(prev.qty > 0 /\ ~same, taken) = <<>>
          /\ When(cur.qty > 0 /\ ~same, made) = <<>>
          /\ When(same /\ cur.note # prev.note, noted) = <<>>
          /\ When(same /\ cur.qty > prev.qty, more) = <<>>
          /\ When(same /\ cur.qty < prev.qty, less) = <<>>
      BY <1>1, <1>7, <2>1 DEF When
    <3>2. DeltaBetween(prev, cur) = <<>> \o <<>> \o <<>> \o <<>> \o <<>>
      BY <1>4, <3>1
    <3>3. DeltaBetween(prev, cur) = <<>>
      BY <1>5, <3>2
    <3>4. QED
      BY <1>1, <1>2, <1>3, <1>7, <2>1, <3>3
  <2>2. CASE cur.note = prev.note /\ cur.qty > prev.qty
    <3>1. /\ When(prev.qty > 0 /\ ~same, taken) = <<>>
          /\ When(cur.qty > 0 /\ ~same, made) = <<>>
          /\ When(same /\ cur.note # prev.note, noted) = <<>>
          /\ When(same /\ cur.qty > prev.qty, more) = <<more>>
          /\ When(same /\ cur.qty < prev.qty, less) = <<>>
      BY <1>1, <1>7, <2>2 DEF When
    <3>2. DeltaBetween(prev, cur) = <<>> \o <<>> \o <<>> \o <<more>> \o <<>>
      BY <1>4, <3>1
    <3>3. DeltaBetween(prev, cur) = <<more>>
      BY <1>5, <3>2
    <3>4. QED
      BY <1>1, <1>2, <1>3, <1>7, <2>2, <3>3
  <2>3. CASE cur.note = prev.note /\ cur.qty < prev.qty
    <3>1. /\ When(prev.qty > 0 /\ ~same, taken) = <<>>
          /\ When(cur.qty > 0 /\ ~same, made) = <<>>
          /\ When(same /\ cur.note # prev.note, noted) = <<>>
          /\ When(same /\ cur.qty > prev.qty, more) = <<>>
          /\ When(same /\ cur.qty < prev.qty, less) = <<less>>
      BY <1>1, <1>7, <2>3 DEF When
    <3>2. DeltaBetween(prev, cur) = <<>> \o <<>> \o <<>> \o <<>> \o <<less>>
      BY <1>4, <3>1
    <3>3. DeltaBetween(prev, cur) = <<less>>
      BY <1>5, <3>2
    <3>4. QED
      BY <1>1, <1>2, <1>3, <1>7, <2>3, <3>3
  <2>4. CASE cur.note # prev.note /\ cur.qty = prev.qty
    <3>1. /\ When(prev.qty > 0 /\ ~same, taken) = <<>>
          /\ When(cur.qty > 0 /\ ~same, made) = <<>>
          /\ When(same /\ cur.note # prev.note, noted) = <<noted>>
          /\ When(same /\ cur.qty > prev.qty, more) = <<>>
          /\ When(same /\ cur.qty < prev.qty, less) = <<>>
      BY <1>1, <1>7, <2>4 DEF When
    <3>2. DeltaBetween(prev, cur) = <<>> \o <<>> \o <<noted>> \o <<>> \o <<>>
      BY <1>4, <3>1
    <3>3. DeltaBetween(prev, cur) = <<noted>>
      BY <1>5, <3>2
    <3>4. QED
      BY <1>1, <1>2, <1>3, <1>7, <2>4, <3>3
  <2>5. CASE cur.note # prev.note /\ cur.qty > prev.qty
    <3>1. /\ When(prev.qty > 0 /\ ~same, taken) = <<>>
          /\ When(cur.qty > 0 /\ ~same, made) = <<>>
          /\ When(same /\ cur.note # prev.note, noted) = <<noted>>
          /\ When(same /\ cur.qty > prev.qty, more) = <<more>>
          /\ When(same /\ cur.qty < prev.qty, less) = <<>>
      BY <1>1, <1>7, <2>5 DEF When
    <3>2. DeltaBetween(prev, cur) = <<>> \o <<>> \o <<noted>> \o <<more>> \o <<>>
      BY <1>4, <3>1
    <3>3. DeltaBetween(prev, cur) = <<noted, more>>
      BY <1>5, <3>2, ZenonT(30)
    <3>4. QED
      BY <1>1, <1>2, <1>3, <1>7, <2>5, <3>3
  <2>6. CASE cur.note # prev.note /\ cur.qty < prev.qty
    <3>1. /\ When(prev.qty > 0 /\ ~same, taken) = <<>>
          /\ When(cur.qty > 0 /\ ~same, made) = <<>>
          /\ When(same /\ cur.note # prev.note, noted) = <<noted>>
          /\ When(same /\ cur.qty > prev.qty, more) = <<>>
          /\ When(same /\ cur.qty < prev.qty, less) = <<less>>
      BY <1>1, <1>7, <2>6 DEF When
    <3>2. DeltaBetween(prev, cur) = <<>> \o <<>> \o <<noted>> \o <<>> \o <<less>>
      BY <1>4, <3>1
    <3>3. DeltaBetween(prev, cur) = <<noted, less>>
      BY <1>5, <3>2
    <3>4. QED
      BY <1>1, <1>2, <1>3, <1>7, <2>6, <3>3
  <2>7. QED
    BY <1>1, <2>1, <2>2, <2>3, <2>4, <2>5, <2>6
<1>8. QED
  BY <1>6, <1>7

\* A delta consists of ticket lines, each with a positive quantity.
LEMMA DeltaTyped ==
  ASSUME NEW prev \in Dish, NEW cur \in Row
  PROVE  DeltaBetween(prev, cur) \in Seq(KotLine)
<1>1. /\ cur.qty \in Nat /\ prev.qty \in Nat /\ cur \in Dish
      /\ cur.note \in Notes /\ cur.make \in Makes
      /\ prev.note \in Notes /\ prev.make \in Makes
  BY DishFacts
<1>2. /\ cur.qty > 0 => /\ KotLineOf("add", cur, cur.qty) \in KotLine
                        /\ KotLineOf("update", cur, cur.qty) \in KotLine
      /\ prev.qty > 0 => KotLineOf("cancel", prev, prev.qty) \in KotLine
      /\ cur.qty > prev.qty => KotLineOf("add", cur, cur.qty - prev.qty) \in KotLine
      /\ cur.qty < prev.qty => KotLineOf("cancel", prev, prev.qty - cur.qty) \in KotLine
  BY <1>1 DEF KotLineOf, KotLine, Actions
<1>3. /\ <<>> \in Seq(KotLine)
      /\ \A a \in KotLine : <<a>> \in Seq(KotLine)
      /\ \A a, b \in KotLine : <<a, b>> \in Seq(KotLine)
  OBVIOUS
<1>4. QED
  BY <1>1, <1>2, <1>3, DeltaCases DEF SameDish

\* The exception of SendReachesKitchen.
NoteAndQtyDiffer(prev, cur) ==
  SameDish(prev, cur) /\ prev.note # cur.note /\ prev.qty # cur.qty

\* A delta takes the kitchen to the order, unless note and quantity both differ.
LEMMA DeltaReaches ==
  ASSUME NEW prev \in Dish, NEW cur \in Row, ~NoteAndQtyDiffer(prev, cur)
  PROVE  Cooked(prev, DeltaBetween(prev, cur)) = cur
<1> DEFINE delta == DeltaBetween(prev, cur)
           taken == KotLineOf("cancel", prev, prev.qty)
           made  == KotLineOf("add", cur, cur.qty)
           noted == KotLineOf("update", cur, cur.qty)
           more  == KotLineOf("add", cur, cur.qty - prev.qty)
           less  == KotLineOf("cancel", prev, prev.qty - cur.qty)
<1>1. /\ cur.qty \in Nat /\ prev.qty \in Nat /\ cur \in Dish
      /\ cur.note \in Notes /\ cur.make \in Makes
      /\ prev.note \in Notes /\ prev.make \in Makes
      /\ cur.qty = 0 => cur = Nothing
      /\ prev.qty = 0 => prev = Nothing
      /\ cur = [qty |-> cur.qty, note |-> cur.note, make |-> cur.make]
      /\ prev = [qty |-> prev.qty, note |-> prev.note, make |-> prev.make]
  BY DishFacts
<1>2. /\ cur.qty > 0 => made \in KotLine /\ noted \in KotLine
      /\ prev.qty > 0 => taken \in KotLine
      /\ cur.qty > prev.qty => more \in KotLine
      /\ cur.qty < prev.qty => less \in KotLine
  BY <1>1 DEF KotLineOf, KotLine, Actions
<1>3. Nothing \in Dish /\ Nothing.qty = 0
  BY DishFacts DEF Row
<1>4. prev.qty > 0 => Apply(prev, taken) = Nothing
  BY <1>1 DEF Apply, KotLineOf
<1>5. cur.qty > 0 => Apply(Nothing, made) = cur
  BY <1>1, <1>3 DEF Apply, KotLineOf
<1>6. cur.qty > 0 => Apply(prev, noted) = cur
  BY <1>1 DEF Apply, KotLineOf
<1>7. cur.qty > prev.qty => Apply(prev, more) = cur
  <2>1. cur.qty > prev.qty => prev.qty + (cur.qty - prev.qty) = cur.qty
    BY <1>1
  <2>2. QED
    BY <1>1, <2>1 DEF Apply, KotLineOf
<1>8. cur.qty < prev.qty /\ cur.qty > 0 /\ cur.note = prev.note /\ cur.make = prev.make
        => Apply(prev, less) = cur
  <2>1. cur.qty < prev.qty /\ cur.qty > 0
          => prev.qty > prev.qty - cur.qty /\ prev.qty - (prev.qty - cur.qty) = cur.qty
    BY <1>1
  <2>2. [prev EXCEPT !.qty = cur.qty]
          = [qty |-> cur.qty, note |-> prev.note, make |-> prev.make]
    BY <1>1
  <2>3. QED
    BY <1>1, <2>1, <2>2 DEF Apply, KotLineOf
<1> HIDE DEF delta, taken, made, noted, more, less
<1>9. IF ~SameDish(prev, cur)
      THEN \/ cur.qty = 0 /\ prev.qty = 0 /\ delta = <<>>
           \/ cur.qty = 0 /\ prev.qty > 0 /\ delta = <<taken>>
           \/ cur.qty > 0 /\ prev.qty = 0 /\ delta = <<made>>
           \/ cur.qty > 0 /\ prev.qty > 0 /\ delta = <<taken, made>>
      ELSE IF cur.note = prev.note
      THEN \/ cur.qty = prev.qty /\ delta = <<>>
           \/ cur.qty > prev.qty /\ delta = <<more>>
           \/ cur.qty < prev.qty /\ delta = <<less>>
      ELSE \/ cur.qty = prev.qty /\ delta = <<noted>>
           \/ cur.qty > prev.qty /\ delta = <<noted, more>>
           \/ cur.qty < prev.qty /\ delta = <<noted, less>>
  BY DeltaCases DEF delta, taken, made, noted, more, less
<1>10. CASE ~SameDish(prev, cur)
  <2>1. CASE cur.qty = 0 /\ prev.qty = 0 /\ delta = <<>>
    BY <1>1, <2>1, CookedNone DEF delta
  <2>2. CASE cur.qty = 0 /\ prev.qty > 0 /\ delta = <<taken>>
    BY <1>1, <1>2, <1>4, <2>2, CookedOne DEF delta
  <2>3. CASE cur.qty > 0 /\ prev.qty = 0 /\ delta = <<made>>
    BY <1>1, <1>2, <1>5, <2>3, CookedOne DEF delta
  <2>4. CASE cur.qty > 0 /\ prev.qty > 0 /\ delta = <<taken, made>>
    BY <1>1, <1>2, <1>4, <1>5, <2>4, CookedTwo DEF delta
  <2>5. QED
    BY <1>9, <1>10, <2>1, <2>2, <2>3, <2>4
<1>11. CASE SameDish(prev, cur)
  <2>0. cur.qty > 0 /\ prev.qty > 0 /\ cur.make = prev.make
    BY <1>11 DEF SameDish
  <2>1. CASE cur.note = prev.note /\ cur.qty = prev.qty /\ delta = <<>>
    BY <1>1, <2>0, <2>1, CookedNone DEF delta
  <2>2. CASE cur.note = prev.note /\ cur.qty > prev.qty /\ delta = <<more>>
    BY <1>1, <1>2, <1>7, <2>2, CookedOne DEF delta
  <2>3. CASE cur.note = prev.note /\ cur.qty < prev.qty /\ delta = <<less>>
    BY <1>1, <1>2, <1>8, <2>0, <2>3, CookedOne DEF delta
  <2>4. CASE cur.note # prev.note /\ cur.qty = prev.qty /\ delta = <<noted>>
    BY <1>1, <1>2, <1>6, <2>0, <2>4, CookedOne DEF delta
  <2>5. cur.note # prev.note => cur.qty = prev.qty
    BY <1>11 DEF NoteAndQtyDiffer
  <2>6. QED
    BY <1>1, <1>9, <1>11, <2>1, <2>2, <2>3, <2>4, <2>5
<1>12. QED
  BY <1>10, <1>11

-----------------------------------------------------------------------------
(***************************************************************************)
(* The replay in the order of insertion, and the types of the tables.      *)
(***************************************************************************)

\* The replay goes through the tickets one by one, in the order of insertion.
Replays ==
  \A i \in Items :
    /\ KitchenAfter(0, i) = Nothing
    /\ \A n \in DOMAIN tickets :
         KitchenAfter(n, i) = IF tickets[n].kind = "reprint" THEN KitchenAfter(n - 1, i)
                              ELSE Cooked(KitchenAfter(n - 1, i), kotItems[n][i])

\* It does so as long as tickets are stamped in that order,
LEMMA ReplaysInOrder == HeadersOK /\ ContentOK /\ Clocked => Replays
BY KitchenStart, KitchenSkipsReprint, KitchenCooks DEF Replays

\* and after a step as well.
LEMMA ReplaysInOrderNext == HeadersOK' /\ ContentOK' /\ Clocked' => Replays'
BY ReplaysInOrder, PTL

\* The rows of the order are well formed.
OrderOK ==
  /\ lines \in [Items -> Row]
  /\ minted \subseteq Items
  /\ \A i \in Items : lines[i].qty > 0 => i \in minted

\* TypeOK speaks of the order, of the headers and of the lines.
LEMMA TypeOKParts == TypeOK <=> OrderOK /\ HeadersOK /\ ContentOK
BY DEF TypeOK, OrderOK, ContentOK, Row

\* What a step does to the lines of the tickets.
LEMMA ContentSteps ==
  ASSUME [Next]_vars
  PROVE  \/ kotItems' = kotItems /\ Len(tickets') = Len(tickets)
         \/ \E now \in Times : Create(now)
         \/ \E t \in DOMAIN tickets, now \in Times : Cancel(t, now) \/ Reprint(t, now)
<1>1. CASE EditOrder
  BY <1>1 DEF EditOrder, AddItem, UpdateItemQuantity, RemoveItem, SetItemMake, SetItemNote,
              Edit, KotUnchanged
<1>2. ASSUME NEW t \in DOMAIN tickets, TicketStep(t)
      PROVE  \/ kotItems' = kotItems /\ Len(tickets') = Len(tickets)
             \/ \E now \in Times : Cancel(t, now) \/ Reprint(t, now)
  <2>1. \A row : Len([tickets EXCEPT ![t] = row]) = Len(tickets)
    OBVIOUS
  <2>2. CASE MarkStarted(t) \/ MarkReady(t) \/ MarkCompleted(t)
    BY <2>2 DEF MarkStarted, MarkReady, MarkCompleted, Transition
  <2>3. CASE \/ \E priority \in Priorities : SetPriority(t, priority)
             \/ \E station \in Stations : SetStation(t, station)
    BY <2>3 DEF SetPriority, SetStation
  <2>4. QED
    BY <1>2, <2>2, <2>3 DEF TicketStep
<1>3. CASE UNCHANGED vars
  BY <1>3 DEF vars
<1>4. QED
  BY <1>1, <1>2, <1>3 DEF Next

\* Edits keep the rows of the order well formed.
LEMMA OrderSteps ==
  ASSUME OrderOK, [Next]_vars
  PROVE  OrderOK'
<1> USE KitchenAssumption
<1>1. ASSUME NEW i \in Items, NEW row \in Row, Edit(i, row), HasItem(i)
      PROVE  OrderOK'
  BY <1>1 DEF Edit, OrderOK, HasItem
<1>2. ASSUME NEW i \in Items, HasItem(i)
      PROVE  /\ Nothing \in Row
             /\ \A qty \in 1 .. MaxQty : [lines[i] EXCEPT !.qty = qty] \in Row
             /\ \A make \in Makes : [lines[i] EXCEPT !.make = make] \in Row
             /\ \A note \in Notes : [lines[i] EXCEPT !.note = note] \in Row
  <2>1. lines[i] \in Line
    BY <1>2 DEF HasItem, OrderOK, Row, Nothing
  <2>2. QED
    BY <2>1 DEF Row, Line
<1>3. ASSUME NEW i \in Items, NEW make \in Makes, AddItem(i, make)
      PROVE  OrderOK'
  <2>1. [qty |-> 1, note |-> NoNote, make |-> make] \in Row
    BY DEF Row, Line
  <2>2. QED
    BY <1>3, <2>1 DEF AddItem, OrderOK
<1>4. CASE EditOrder
  <2>1. PICK i \in Items :
          \/ \E make \in Makes : AddItem(i, make)
          \/ \E qty \in 0 .. MaxQty : UpdateItemQuantity(i, qty)
          \/ RemoveItem(i)
          \/ \E make \in Makes : SetItemMake(i, make)
          \/ \E note \in Notes : SetItemNote(i, note)
    BY <1>4 DEF EditOrder
  <2>2. CASE \E qty \in 0 .. MaxQty : UpdateItemQuantity(i, qty)
    <3>1. PICK qty \in 0 .. MaxQty : UpdateItemQuantity(i, qty)
      BY <2>2
    <3>2. HasItem(i) /\ \E row \in Row : Edit(i, row)
      BY <1>2, <3>1 DEF UpdateItemQuantity
    <3>3. QED
      BY <1>1, <3>2
  <2>3. CASE RemoveItem(i)
    BY <1>1, <1>2, <2>3 DEF RemoveItem
  <2>4. CASE \E make \in Makes : SetItemMake(i, make)
    BY <1>1, <1>2, <2>4 DEF SetItemMake
  <2>5. CASE \E note \in Notes : SetItemNote(i, note)
    BY <1>1, <1>2, <2>5 DEF SetItemNote
  <2>6. QED
    BY <1>3, <2>1, <2>2, <2>3, <2>4, <2>5
<1>5. CASE UNCHANGED <<lines, minted>>
  BY <1>5 DEF OrderOK
<1>6. CASE \E now \in Times : Create(now)
  BY <1>5, <1>6 DEF Create, CreateTicket
<1>7. CASE \E t \in DOMAIN tickets : TicketStep(t)
  BY <1>5, <1>7 DEF TicketStep, Cancel, Reprint, CreateTicket, MarkStarted, MarkReady,
                    MarkCompleted, Transition, SetPriority, SetStation
<1>8. CASE UNCHANGED vars
  BY <1>5, <1>8 DEF vars
<1>9. QED
  BY <1>4, <1>6, <1>7, <1>8 DEF Next

\* The lines that a send and a cancellation put on a ticket.
LEMMA SentLinesTyped ==
  ASSUME OrderOK, HeadersOK, ContentOK
  PROVE  [i \in Items |-> Delta(i)] \in [Items -> Seq(KotLine)]
<1> SUFFICES ASSUME NEW i \in Items PROVE Delta(i) \in Seq(KotLine)
  OBVIOUS
<1>1. PICK prev, cur : prev = KitchenNow(i) /\ cur = lines[i]
  OBVIOUS
<1>2. Len(tickets) \in 0 .. Len(tickets)
  BY DEF HeadersOK
<1>3. prev \in Dish /\ cur \in Row
  BY <1>1, <1>2, KitchenTyped DEF KitchenNow, OrderOK
<1>4. QED
  BY <1>1, <1>3, DeltaTyped DEF Delta

\* A cancellation consists of ticket lines.
LEMMA CancelLinesTyped ==
  ASSUME HeadersOK, ContentOK, NEW t \in DOMAIN tickets
  PROVE  CancelLines(t) \in [Items -> Seq(KotLine)]
<1> SUFFICES ASSUME NEW i \in Items
             PROVE  [k \in DOMAIN kotItems[t][i] |->
                       [kotItems[t][i][k] EXCEPT !.action = "cancel"]] \in Seq(KotLine)
  BY DEF CancelLines
<1>1. PICK content \in Seq(KotLine) : content = kotItems[t][i]
  BY DEF HeadersOK, ContentOK
<1>2. \A k \in DOMAIN content : [content[k] EXCEPT !.action = "cancel"] \in KotLine
  <2>1. ASSUME NEW line \in KotLine PROVE [line EXCEPT !.action = "cancel"] \in KotLine
    BY DEF KotLine, Actions
  <2>2. QED
    BY <2>1
<1>3. DOMAIN content = 1 .. Len(content) /\ Len(content) \in Nat
  OBVIOUS
<1>4. [k \in 1 .. Len(content) |-> [content[k] EXCEPT !.action = "cancel"]] \in Seq(KotLine)
  BY <1>2, <1>3
<1>5. QED
  BY <1>1, <1>3, <1>4

\* Every step adds only well formed lines.
LEMMA ContentPreserved ==
  ASSUME OrderOK, HeadersOK, HeadersOK', ContentOK, [Next]_vars
  PROVE  ContentOK'
<1>1. ASSUME NEW content \in [Items -> Seq(KotLine)], kotItems' = Append(kotItems, content)
      PROVE  ContentOK'
  BY <1>1 DEF ContentOK
<1>2. CASE kotItems' = kotItems
  BY <1>2 DEF ContentOK
<1>3. CASE \E now \in Times : Create(now)
  BY <1>1, <1>3, SentLinesTyped DEF Create, CreateTicket
<1>4. ASSUME NEW t \in DOMAIN tickets, NEW now \in Times, Cancel(t, now) \/ Reprint(t, now)
      PROVE  ContentOK'
  <2>1. kotItems[t] \in [Items -> Seq(KotLine)]
    BY DEF HeadersOK, ContentOK
  <2>2. QED
    BY <1>1, <1>4, <2>1, CancelLinesTyped DEF Cancel, Reprint, CreateTicket
<1>5. QED
  BY <1>2, <1>3, <1>4, ContentSteps

\* An order without rows and tickets is well formed.
LEMMA KitchenInitially == Init => TypeOK
BY DEF Init, TypeOK, Nothing, HeadersOK

\* Order rows and ticket rows always have the types the tables demand: in
\* particular no ticket line ever breaks CHECK (qty > 0).
THEOREM KitchenTypeOK == Spec => []TypeOK
<1>1. Init => TypeOK
  BY KitchenInitially
<1>2. TypeOK /\ [Next]_vars => TypeOK'
  <2> SUFFICES ASSUME TypeOK, [Next]_vars PROVE TypeOK'
    OBVIOUS
  <2>1. OrderOK /\ HeadersOK /\ ContentOK
    BY TypeOKParts
  <2>2. OrderOK' /\ HeadersOK' /\ ContentOK'
    BY <2>1, OrderSteps, HeadersPreserved, ContentPreserved
  <2>3. QED
    BY <2>2 DEF TypeOK, OrderOK, ContentOK, Row
<1>3. QED
  BY <1>1, <1>2, PTL DEF Spec

\* Tickets keep their kind and their lines.
LEMMA TicketsKept ==
  ASSUME HeadersOK, ContentOK, [Next]_vars
  PROVE  \A t \in DOMAIN tickets :
           /\ t \in DOMAIN tickets'
           /\ tickets'[t].kind = tickets[t].kind
           /\ kotItems'[t] = kotItems[t]
<1>1. Len(tickets) \in Nat /\ DOMAIN tickets = 1 .. Len(tickets)
  BY DEF HeadersOK
<1>2. \A t \in DOMAIN tickets : t \in DOMAIN tickets' /\ tickets'[t].kind = tickets[t].kind
  <2>1. CASE Quiet
    BY <2>1 DEF Quiet, NoNewTicket, Kept
  <2>2. CASE Sent
    BY <1>1, <2>2 DEF Sent, NewTicket, Kept
  <2>3. CASE \E t \in DOMAIN tickets : Cancelled(t) \/ Reprinted(t)
    BY <1>1, <2>3 DEF Cancelled, Reprinted, NewTicket, Kept
  <2>4. ASSUME NEW m, NEW expected, NEW next, Moved(m, expected, next)
        PROVE  \A t \in DOMAIN tickets :
                 t \in DOMAIN tickets' /\ tickets'[t].kind = tickets[t].kind
    BY <2>4 DEF Moved, NoNewTicket, Kept
  <2>5. QED
    BY <2>1, <2>2, <2>3, <2>4, StepEffects
<1>3. \A t \in DOMAIN tickets : kotItems'[t] = kotItems[t]
  <2>1. ASSUME NEW content, kotItems' = Append(kotItems, content)
        PROVE  \A t \in DOMAIN tickets : kotItems'[t] = kotItems[t]
    BY <1>1, <2>1 DEF HeadersOK, ContentOK
  <2>2. CASE \E now \in Times : Create(now)
    BY <2>1, <2>2 DEF Create, CreateTicket
  <2>3. CASE \E t \in DOMAIN tickets, now \in Times : Cancel(t, now) \/ Reprint(t, now)
    BY <2>1, <2>3 DEF Cancel, Reprint, CreateTicket
  <2>4. QED
    BY <2>2, <2>3, ContentSteps
<1>4. QED
  BY <1>2, <1>3

\* What the kitchen held after a ticket is never rewritten.
LEMMA KitchenStable ==
  ASSUME HeadersOK, ContentOK, Replays, Replays', [Next]_vars, NEW i \in Items
  PROVE  \A n \in 0 .. Len(tickets) : KitchenAfter(n, i)' = KitchenAfter(n, i)
<1>1. PICK L \in Nat : L = Len(tickets)
  BY DEF HeadersOK
<1>2. PICK Q : Q = {k \in Nat : k <= L => KitchenAfter(k, i)' = KitchenAfter(k, i)}
  OBVIOUS
<1>3. 0 \in Q
  BY <1>2 DEF Replays
<1>4. ASSUME NEW n \in Nat, n \in Q
      PROVE  n + 1 \in Q
  <2>1. SUFFICES ASSUME n + 1 <= L
                 PROVE  KitchenAfter(n + 1, i)' = KitchenAfter(n + 1, i)
    BY <1>2
  <2>2. PICK k : k = n + 1
    OBVIOUS
  <2>3. k \in DOMAIN tickets /\ k - 1 = n
    BY <1>1, <2>1, <2>2 DEF HeadersOK
  <2>4. KitchenAfter(n, i)' = KitchenAfter(n, i)
    BY <1>2, <1>4, <2>1
  <2>5. /\ k \in DOMAIN tickets' /\ tickets'[k].kind = tickets[k].kind
        /\ kotItems'[k] = kotItems[k]
    BY <2>3, TicketsKept
  <2>6. KitchenAfter(k, i) = IF tickets[k].kind = "reprint" THEN KitchenAfter(n, i)
                             ELSE Cooked(KitchenAfter(n, i), kotItems[k][i])
    BY <2>3 DEF Replays
  <2>7. KitchenAfter(k, i)' = IF tickets'[k].kind = "reprint" THEN KitchenAfter(n, i)'
                              ELSE Cooked(KitchenAfter(n, i)', kotItems'[k][i])
    BY <2>3, <2>5 DEF Replays
  <2>8. QED
    BY <2>2, <2>4, <2>5, <2>6, <2>7
<1>5. Nat \subseteq Q
  BY <1>3, <1>4, CountUp
<1>6. QED
  BY <1>1, <1>2, <1>5

\* Only a send adds a full or a delta ticket.
LEMMA SendIsCreate ==
  ASSUME HeadersOK, [Next]_vars, IsSend
  PROVE  \E now \in Times : Create(now)
<1>1. Len(tickets) \in Nat /\ Len(tickets') = Len(tickets) + 1
  BY DEF HeadersOK, IsSend
<1>2. ASSUME NEW t \in DOMAIN tickets, NEW now \in Times, Cancel(t, now) \/ Reprint(t, now)
      PROVE  FALSE
  <2>1. PICK kind, status, ref, from, content, others :
          /\ CreateTicket(kind, status, ref, from, content, now, others)
          /\ kind \in {"cancel", "reprint"}
          /\ Len(others) = Len(tickets)
          /\ others \in Seq(Ticket)
    <3>1. tickets \in Seq(Ticket) /\ tickets[t] \in Ticket
      BY DEF HeadersOK
    <3>2. [tickets EXCEPT ![t].cancelled = TRUE] \in Seq(Ticket)
      <4>1. [tickets[t] EXCEPT !.cancelled = TRUE] \in Ticket
        BY <3>1 DEF Ticket
      <4>2. QED
        BY <3>1, <4>1
    <3>3. Len([tickets EXCEPT ![t].cancelled = TRUE]) = Len(tickets)
      BY <3>1
    <3>4. CASE Cancel(t, now)
      BY <3>2, <3>3, <3>4 DEF Cancel
    <3>5. CASE Reprint(t, now)
      BY <3>1, <3>5 DEF Reprint
    <3>6. QED
      BY <1>2, <3>4, <3>5
  <2>2. tickets'[Len(tickets')].kind = kind
    BY <1>1, <2>1 DEF CreateTicket
  <2>3. QED
    BY <2>1, <2>2 DEF IsSend
<1>3. QED
  BY <1>1, <1>2, ContentSteps

\* A send is appended to a replay that it does not change.
LEMMA SendCooks ==
  ASSUME HeadersOK, ContentOK, Replays, Replays', [Next]_vars, NEW i \in Items,
         NEW now \in Times, Create(now)
  PROVE  KitchenNow(i)' = Cooked(KitchenNow(i), Delta(i))
<1>0. PICK n \in Nat : n = Len(tickets)
  BY DEF HeadersOK
<1>1. /\ Len(tickets') = n + 1 /\ DOMAIN tickets' = 1 .. n + 1
      /\ tickets'[n + 1].kind # "reprint"
      /\ kotItems'[n + 1] = [j \in Items |-> Delta(j)]
  <2>1. PICK row : tickets' = Append(tickets, row) /\ row.kind = SendKind
    BY DEF Create, CreateTicket
  <2>2. kotItems' = Append(kotItems, [j \in Items |-> Delta(j)])
    BY DEF Create, CreateTicket
  <2>3. QED
    BY <1>0, <2>1, <2>2 DEF HeadersOK, ContentOK, SendKind
<1>2. PICK k : k = n + 1
  OBVIOUS
<1>3. k \in DOMAIN tickets' /\ k - 1 = n /\ n \in 0 .. Len(tickets)
  BY <1>0, <1>1, <1>2
<1>4. KitchenAfter(k, i)' = Cooked(KitchenAfter(n, i)', kotItems'[k][i])
  BY <1>1, <1>2, <1>3 DEF Replays
<1>5. KitchenAfter(n, i)' = KitchenAfter(n, i)
  BY <1>3, KitchenStable
<1>6. KitchenNow(i) = KitchenAfter(n, i)
  BY <1>0 DEF KitchenNow
<1>7. KitchenNow(i)' = KitchenAfter(k, i)'
  BY <1>1, <1>2 DEF KitchenNow
<1>8. QED
  BY <1>1, <1>2, <1>4, <1>5, <1>6, <1>7

\* A send of the difference leaves the kitchen with the order.
LEMMA SendReaches ==
  ASSUME OrderOK, HeadersOK, ContentOK, Replays, Replays', [Next]_vars, IsSend,
         NEW i \in Items, ~NoteAndQtyEdited(i)
  PROVE  KitchenNow(i)' = lines[i]
<1>1. PICK prev, cur, delta : prev = KitchenNow(i) /\ cur = lines[i] /\ delta = Delta(i)
  OBVIOUS
<1>2. Len(tickets) \in 0 .. Len(tickets)
  BY DEF HeadersOK
<1>3. prev \in Dish /\ cur \in Row
  BY <1>1, <1>2, KitchenTyped DEF KitchenNow, OrderOK
<1>4. delta = DeltaBetween(prev, cur)
  BY <1>1 DEF Delta
<1>5. ~NoteAndQtyDiffer(prev, cur)
  BY <1>1 DEF NoteAndQtyEdited, NoteAndQtyDiffer, SameDish
<1>6. Cooked(prev, delta) = cur
  BY <1>3, <1>4, <1>5, DeltaReaches
<1>7. PICK now \in Times : Create(now)
  BY SendIsCreate
<1>8. KitchenNow(i)' = Cooked(prev, delta)
  BY <1>1, <1>7, SendCooks
<1>9. QED
  BY <1>1, <1>6, <1>8

\* After a send the kitchen holds exactly the order, except where note and quantity
\* of a dish both changed, as long as the clock is not set back.
THEOREM SendReachesKitchenAlways ==
  ASSUME ~ClockRunsBack
  PROVE  Spec => SendReachesKitchen
<1> DEFINE Inv == TypeOK /\ Clocked /\ TicketChain
<1>1. Init => Clocked /\ TicketChain
  BY DEF Init, Clocked, TicketChain, SentTickets
<1>2. HeadersOK /\ Clocked /\ TicketChain /\ [Next]_vars => Clocked' /\ TicketChain'
  BY ChainPreserved
<1>3. TypeOK /\ TypeOK' /\ Clocked /\ Clocked' /\ [Next]_vars
        => [IsSend => \A i \in Items : NoteAndQtyEdited(i) \/ KitchenNow(i)' = lines[i]]_vars
  <2> SUFFICES ASSUME TypeOK, TypeOK', Clocked, Clocked', [Next]_vars, IsSend,
                      NEW i \in Items, ~NoteAndQtyEdited(i)
               PROVE  KitchenNow(i)' = lines[i]
    OBVIOUS
  <2>1. OrderOK /\ HeadersOK /\ ContentOK
    BY TypeOKParts
  <2>2. HeadersOK' /\ ContentOK'
    BY DEF TypeOK, ContentOK
  <2>3. Replays /\ Replays'
    BY <2>1, <2>2, ReplaysInOrder, ReplaysInOrderNext
  <2>4. QED
    BY <2>1, <2>3, SendReaches
<1>4. QED
  BY <1>1, <1>2, <1>3, KitchenTypeOK, HeadersTyped, PTL DEF Spec, SendReachesKitchen

\* The ticket a step adds, and its lines.
AddedSend ==
  LET n == Len(tickets') IN
  tickets'[n].kind \in {"full", "delta"} /\ kotItems'[n] = [i \in Items |-> Delta(i)]

AddedCancel(t) ==
  LET n == Len(tickets') IN
  tickets'[n].kind = "cancel" /\ tickets'[n].ref = t /\ kotItems'[n] = CancelLines(t)

AddedReprint(t) ==
  LET n == Len(tickets') IN
  tickets'[n].kind = "reprint" /\ kotItems'[n] = kotItems[t]

\* A step adds no ticket, or a send, a cancellation or a reprint.
LEMMA ContentEffects ==
  ASSUME HeadersOK, ContentOK, [Next]_vars
  PROVE  /\ \A t \in DOMAIN tickets : tickets'[t].ref = tickets[t].ref
         /\ \/ DOMAIN tickets' = DOMAIN tickets
            \/ /\ Len(tickets') = Len(tickets) + 1
               /\ \/ AddedSend
                  \/ \E t \in DOMAIN tickets : AddedCancel(t) \/ AddedReprint(t)
<1>1. PICK n \in Nat : n = Len(tickets) /\ DOMAIN tickets = 1 .. n
  BY DEF HeadersOK
<1>2. \A t \in DOMAIN tickets : tickets'[t].ref = tickets[t].ref
  BY StepEffects DEF Quiet, Sent, Cancelled, Reprinted, Moved, Kept
<1>3. HeadersOK'
  BY HeadersPreserved
<1>4. CASE kotItems' = kotItems /\ Len(tickets') = Len(tickets)
  BY <1>1, <1>2, <1>3, <1>4 DEF HeadersOK
<1>5. ASSUME NEW kind, NEW status, NEW ref, NEW from, NEW content, NEW now,
             NEW others \in Seq(Ticket), Len(others) = n,
             CreateTicket(kind, status, ref, from, content, now, others)
      PROVE  /\ Len(tickets') = n + 1
             /\ tickets'[n + 1].kind = kind /\ tickets'[n + 1].ref = ref
             /\ kotItems'[n + 1] = content
  <2> DEFINE row == [at |-> now, kind |-> kind, status |-> status, cancelled |-> FALSE,
                     ref |-> ref, started |-> FALSE, ready |-> FALSE, completed |-> FALSE,
                     priority |-> 0, station |-> MainStation]
  <2>1. tickets' = Append(others, row) /\ row.kind = kind /\ row.ref = ref
    BY <1>5 DEF CreateTicket
  <2>2. kotItems' = Append(kotItems, content)
    BY <1>5 DEF CreateTicket
  <2> HIDE DEF row
  <2>3. QED
    BY <1>1, <1>5, <2>1, <2>2 DEF HeadersOK, ContentOK
<1>6. CASE \E now \in Times : Create(now)
  <2>1. tickets \in Seq(Ticket)
    BY DEF HeadersOK
  <2>2. /\ Len(tickets') = n + 1
        /\ tickets'[n + 1].kind = SendKind
        /\ kotItems'[n + 1] = [i \in Items |-> Delta(i)]
    BY <1>1, <1>5, <1>6, <2>1 DEF Create
  <2>3. QED
    BY <1>1, <1>2, <2>2 DEF AddedSend, SendKind
<1>7. ASSUME NEW t \in DOMAIN tickets, NEW now \in Times, Cancel(t, now)
      PROVE  Len(tickets') = Len(tickets) + 1 /\ AddedCancel(t)
  <2> DEFINE others == [tickets EXCEPT ![t].cancelled = TRUE]
  <2>1. others \in Seq(Ticket) /\ Len(others) = n
    <3>1. tickets[t] \in Ticket
      BY DEF HeadersOK
    <3>2. [tickets[t] EXCEPT !.cancelled = TRUE] \in Ticket
      BY <3>1 DEF Ticket
    <3>3. QED
      BY <1>1, <3>2 DEF HeadersOK
  <2>2. CreateTicket("cancel", "new", t, "none", CancelLines(t), now, others)
    BY <1>7 DEF Cancel
  <2> HIDE DEF others
  <2>3. /\ Len(tickets') = n + 1
        /\ tickets'[n + 1].kind = "cancel" /\ tickets'[n + 1].ref = t
        /\ kotItems'[n + 1] = CancelLines(t)
    BY <1>5, <2>1, <2>2
  <2>4. QED
    BY <1>1, <2>3 DEF AddedCancel
<1>8. ASSUME NEW t \in DOMAIN tickets, NEW now \in Times, Reprint(t, now)
      PROVE  Len(tickets') = Len(tickets) + 1 /\ AddedReprint(t)
  <2>1. tickets \in Seq(Ticket)
    BY DEF HeadersOK
  <2>2. /\ Len(tickets') = n + 1
        /\ tickets'[n + 1].kind = "reprint"
        /\ kotItems'[n + 1] = kotItems[t]
    BY <1>1, <1>5, <1>8, <2>1 DEF Reprint
  <2>3. QED
    BY <1>1, <2>2 DEF AddedReprint
<1>9. QED
  BY <1>2, <1>4, <1>6, <1>7, <1>8, ContentSteps

-----------------------------------------------------------------------------
(***************************************************************************)
(* What a sent and a cancelled ticket carry, long after.                   *)
(***************************************************************************)

\* A cancel ticket takes back the lines of an earlier ticket.
TakesBack ==
  \A c \in DOMAIN tickets : tickets[c].kind = "cancel" =>
    /\ tickets[c].ref \in 1 .. c - 1
    /\ kotItems[c] = CancelLines(tickets[c].ref)

\* A send carries the difference to what the kitchen then held.
SentFits ==
  \A r \in DOMAIN tickets : tickets[r].kind \in {"full", "delta"} =>
    \A i \in Items : \E cur \in Row : kotItems[r][i] = DeltaBetween(KitchenAfter(r - 1, i), cur)

\* Later tickets do not disturb what a cancel ticket takes back.
LEMMA TakesBackPreserved ==
  ASSUME HeadersOK, HeadersOK', ContentOK, TakesBack, [Next]_vars
  PROVE  TakesBack'
<1>1. PICK n \in Nat : n = Len(tickets) /\ DOMAIN tickets = 1 .. n
  BY DEF HeadersOK
<1>2. \A t \in DOMAIN tickets :
        /\ t \in DOMAIN tickets'
        /\ tickets'[t].kind = tickets[t].kind
        /\ tickets'[t].ref = tickets[t].ref
        /\ kotItems'[t] = kotItems[t]
  BY TicketsKept, ContentEffects
<1>3. \A t \in DOMAIN tickets : CancelLines(t)' = CancelLines(t)
  BY <1>2 DEF CancelLines
<1>4. SUFFICES ASSUME NEW c \in DOMAIN tickets', tickets'[c].kind = "cancel"
               PROVE  /\ tickets'[c].ref \in 1 .. c - 1
                      /\ kotItems'[c] = CancelLines(tickets[c].ref)'
  BY DEF TakesBack
<1>5. CASE c \in DOMAIN tickets
  <2>1. tickets[c].kind = "cancel"
    BY <1>2, <1>4, <1>5
  <2>2. PICK r : r = tickets[c].ref
    OBVIOUS
  <2>3. r \in 1 .. c - 1 /\ r \in DOMAIN tickets /\ kotItems[c] = CancelLines(r)
    BY <1>1, <1>5, <2>1, <2>2 DEF TakesBack
  <2>4. tickets'[c].ref = r
    BY <1>2, <1>5, <2>2
  <2>5. kotItems'[c] = CancelLines(r)'
    BY <1>2, <1>3, <1>5, <2>3
  <2>6. QED
    BY <2>3, <2>4, <2>5 DEF CancelLines
<1>6. CASE c \notin DOMAIN tickets
  <2>1. c = n + 1 /\ c = Len(tickets')
    BY <1>1, <1>4, <1>6, ContentEffects, SMTT(30) DEF HeadersOK
  <2>2. PICK t \in DOMAIN tickets : AddedCancel(t)
    BY <1>1, <1>4, <1>6, <2>1, ContentEffects DEF AddedSend, AddedReprint
  <2>3. tickets'[c].ref = t /\ kotItems'[c] = CancelLines(t)
    BY <2>1, <2>2 DEF AddedCancel
  <2>4. kotItems'[c] = CancelLines(t)'
    BY <1>3, <2>3
  <2>5. t \in 1 .. c - 1
    BY <1>1, <2>1
  <2>6. QED
    BY <2>3, <2>4, <2>5 DEF CancelLines
<1>7. QED
  BY <1>5, <1>6

\* Nor do they disturb what a send was the difference to.
LEMMA SentFitsPreserved ==
  ASSUME OrderOK, HeadersOK, HeadersOK', ContentOK, Replays, Replays', SentFits, [Next]_vars
  PROVE  SentFits'
<1>1. PICK n \in Nat : n = Len(tickets) /\ DOMAIN tickets = 1 .. n
  BY DEF HeadersOK
<1>2. SUFFICES ASSUME NEW r \in DOMAIN tickets', tickets'[r].kind \in {"full", "delta"},
                      NEW i \in Items
               PROVE  \E cur \in Row :
                        kotItems'[r][i] = DeltaBetween(KitchenAfter(r - 1, i)', cur)
  BY DEF SentFits
<1>3. CASE r \in DOMAIN tickets
  <2>1. tickets[r].kind \in {"full", "delta"} /\ kotItems'[r] = kotItems[r]
    BY <1>2, <1>3, TicketsKept
  <2>2. PICK p : p = r - 1
    OBVIOUS
  <2>3. p \in 0 .. Len(tickets)
    BY <1>1, <1>3, <2>2
  <2>4. KitchenAfter(p, i)' = KitchenAfter(p, i)
    BY <2>3, KitchenStable
  <2>5. PICK cur \in Row : kotItems[r][i] = DeltaBetween(KitchenAfter(p, i), cur)
    BY <1>3, <2>1, <2>2 DEF SentFits
  <2>6. QED
    BY <2>1, <2>2, <2>4, <2>5
<1>4. CASE r \notin DOMAIN tickets
  <2>1. r = n + 1 /\ r = Len(tickets') /\ r - 1 = n /\ n \in 0 .. Len(tickets)
    BY <1>1, <1>2, <1>4, ContentEffects DEF HeadersOK
  <2>2. AddedSend
    BY <1>1, <1>2, <1>4, <2>1, ContentEffects DEF AddedCancel, AddedReprint
  <2>3. kotItems'[r][i] = Delta(i)
    BY <2>1, <2>2 DEF AddedSend
  <2>4. Delta(i) = DeltaBetween(KitchenAfter(n, i), lines[i])
    BY <1>1 DEF Delta, KitchenNow
  <2>5. KitchenAfter(n, i)' = KitchenAfter(n, i)
    BY <2>1, KitchenStable
  <2>6. lines[i] \in Row
    BY DEF OrderOK
  <2>7. QED
    BY <2>1, <2>3, <2>4, <2>5, <2>6
<1>5. QED
  BY <1>3, <1>4

\* Tickets that only add, and their cancellation.
OnlyAdds(content) == \A k \in DOMAIN content : content[k].action = "add"

Reversed(content) == [k \in DOMAIN content |-> [content[k] EXCEPT !.action = "cancel"]]

\* A delta that only adds is undone by its reverse.
LEMMA AddsReversed ==
  ASSUME NEW prev \in Dish, NEW cur \in Row, NEW delta,
         delta = DeltaBetween(prev, cur), OnlyAdds(delta)
  PROVE  Cooked(Cooked(prev, delta), Reversed(delta)) = prev
<1> DEFINE taken == KotLineOf("cancel", prev, prev.qty)
           made  == KotLineOf("add", cur, cur.qty)
           noted == KotLineOf("update", cur, cur.qty)
           more  == KotLineOf("add", cur, cur.qty - prev.qty)
           less  == KotLineOf("cancel", prev, prev.qty - cur.qty)
           unmade == KotLineOf("cancel", cur, cur.qty)
           fewer  == KotLineOf("cancel", cur, cur.qty - prev.qty)
<1>1. /\ cur.qty \in Nat /\ prev.qty \in Nat /\ cur \in Dish
      /\ cur.note \in Notes /\ cur.make \in Makes
      /\ prev.note \in Notes /\ prev.make \in Makes
      /\ prev.qty = 0 => prev = Nothing
      /\ cur = [qty |-> cur.qty, note |-> cur.note, make |-> cur.make]
      /\ prev = [qty |-> prev.qty, note |-> prev.note, make |-> prev.make]
  BY DishFacts
<1>2. /\ cur.qty > 0 => made \in KotLine /\ unmade \in KotLine
      /\ cur.qty > prev.qty => more \in KotLine /\ fewer \in KotLine
  BY <1>1 DEF KotLineOf, KotLine, Actions
<1>3. /\ taken.action = "cancel" /\ noted.action = "update" /\ less.action = "cancel"
      /\ [made EXCEPT !.action = "cancel"] = unmade
      /\ [more EXCEPT !.action = "cancel"] = fewer
  BY DEF KotLineOf
<1>4. \A a : Reversed(<<a>>) = <<[a EXCEPT !.action = "cancel"]>>
  BY DEF Reversed
<1>5. Reversed(<<>>) = <<>>
  BY DEF Reversed
<1>6. /\ \A a : OnlyAdds(<<a>>) => a.action = "add"
      /\ \A a, b : OnlyAdds(<<a, b>>) => a.action = "add" /\ b.action = "add"
  <2>1. ASSUME NEW a, OnlyAdds(<<a>>) PROVE a.action = "add"
    <3>1. 1 \in DOMAIN <<a>> /\ <<a>>[1] = a
      OBVIOUS
    <3>2. QED
      BY <2>1, <3>1 DEF OnlyAdds
  <2>2. ASSUME NEW a, NEW b, OnlyAdds(<<a, b>>) PROVE a.action = "add" /\ b.action = "add"
    <3>1. 1 \in DOMAIN <<a, b>> /\ <<a, b>>[1] = a /\ 2 \in DOMAIN <<a, b>> /\ <<a, b>>[2] = b
      OBVIOUS
    <3>2. QED
      BY <2>2, <3>1 DEF OnlyAdds
  <2>3. QED
    BY <2>1, <2>2
<1>7. cur.qty > 0 /\ prev.qty = 0 => Apply(prev, made) = cur /\ Apply(cur, unmade) = prev
  BY <1>1 DEF Apply, KotLineOf, Nothing
<1>8. cur.qty > prev.qty => Apply(prev, more) = cur
  <2>1. cur.qty > prev.qty => prev.qty + (cur.qty - prev.qty) = cur.qty
    BY <1>1
  <2>2. QED
    BY <1>1, <2>1 DEF Apply, KotLineOf
<1>9. cur.qty > prev.qty /\ prev.qty > 0 /\ cur.note = prev.note /\ cur.make = prev.make
        => Apply(cur, fewer) = prev
  <2>1. cur.qty > prev.qty /\ prev.qty > 0
          => cur.qty > cur.qty - prev.qty /\ cur.qty - (cur.qty - prev.qty) = prev.qty
    BY <1>1
  <2>2. [cur EXCEPT !.qty = prev.qty] = [qty |-> prev.qty, note |-> cur.note, make |-> cur.make]
    BY <1>1
  <2>3. QED
    BY <1>1, <2>1, <2>2 DEF Apply, KotLineOf
<1> HIDE DEF taken, made, noted, more, less, unmade, fewer
<1>10. IF ~SameDish(prev, cur)
       THEN \/ cur.qty = 0 /\ prev.qty = 0 /\ delta = <<>>
            \/ cur.qty = 0 /\ prev.qty > 0 /\ delta = <<taken>>
            \/ cur.qty > 0 /\ prev.qty = 0 /\ delta = <<made>>
            \/ cur.qty > 0 /\ prev.qty > 0 /\ delta = <<taken, made>>
       ELSE IF cur.note = prev.note
       THEN \/ cur.qty = prev.qty /\ delta = <<>>
            \/ cur.qty > prev.qty /\ delta = <<more>>
            \/ cur.qty < prev.qty /\ delta = <<less>>
       ELSE \/ cur.qty = prev.qty /\ delta = <<noted>>
            \/ cur.qty > prev.qty /\ delta = <<noted, more>>
            \/ cur.qty < prev.qty /\ delta = <<noted, less>>
  BY DeltaCases DEF taken, made, noted, more, less
<1>11. \/ delta = <<>>
       \/ cur.qty > 0 /\ prev.qty = 0 /\ delta = <<made>>
       \/ SameDish(prev, cur) /\ cur.note = prev.note /\ cur.qty > prev.qty /\ delta = <<more>>
  <2>1. delta # <<taken>> /\ delta # <<less>> /\ delta # <<noted>>
    BY <1>3, <1>6
  <2>2. delta # <<taken, made>> /\ delta # <<noted, more>> /\ delta # <<noted, less>>
    BY <1>3, <1>6
  <2>3. QED
    BY <1>10, <2>1, <2>2
<1>12. CASE delta = <<>>
  BY <1>5, <1>12, CookedNone
<1>13. CASE cur.qty > 0 /\ prev.qty = 0 /\ delta = <<made>>
  <2>1. Reversed(delta) = <<unmade>>
    BY <1>3, <1>4, <1>13
  <2>2. Cooked(prev, delta) = cur
    BY <1>2, <1>7, <1>13, CookedOne
  <2>3. Cooked(cur, <<unmade>>) = prev
    BY <1>1, <1>2, <1>7, <1>13, CookedOne
  <2>4. QED
    BY <2>1, <2>2, <2>3
<1>14. CASE SameDish(prev, cur) /\ cur.note = prev.note /\ cur.qty > prev.qty /\ delta = <<more>>
  <2>1. Reversed(delta) = <<fewer>>
    BY <1>3, <1>4, <1>14
  <2>2. Cooked(prev, delta) = cur
    BY <1>2, <1>8, <1>14, CookedOne
  <2>3. Apply(cur, fewer) = prev
    BY <1>9, <1>14 DEF SameDish
  <2>4. Cooked(cur, <<fewer>>) = prev
    BY <1>1, <1>2, <1>14, <2>3, CookedOne
  <2>5. QED
    BY <2>1, <2>2, <2>4
<1>15. QED
  BY <1>11, <1>12, <1>13, <1>14

-----------------------------------------------------------------------------
(***************************************************************************)
(* Cancelling the latest ticket.                                           *)
(***************************************************************************)

\* Reprints between two tickets do not count.
LEMMA ReprintsSkipped ==
  ASSUME HeadersOK, Replays, NEW i \in Items, NEW r \in DOMAIN tickets, NEW m \in Nat,
         r + m \in DOMAIN tickets,
         \A t \in r + 1 .. r + m : tickets[t].kind = "reprint"
  PROVE  KitchenAfter(r + m, i) = KitchenAfter(r, i)
<1>0. PICK L \in Nat : L = Len(tickets) /\ DOMAIN tickets = 1 .. L
  BY DEF HeadersOK
<1>1. PICK Q : Q = {k \in Nat : k <= m => KitchenAfter(r + k, i) = KitchenAfter(r, i)}
  OBVIOUS
<1>2. 0 \in Q
  <2>1. r + 0 = r
    BY <1>0
  <2>2. QED
    BY <1>1, <2>1
<1>3. ASSUME NEW k \in Nat, k \in Q
      PROVE  k + 1 \in Q
  <2>1. SUFFICES ASSUME k + 1 <= m PROVE KitchenAfter(r + (k + 1), i) = KitchenAfter(r, i)
    BY <1>1
  <2>2. PICK t, u : t = r + (k + 1) /\ u = r + k
    OBVIOUS
  <2>3. t \in r + 1 .. r + m /\ t \in DOMAIN tickets /\ t - 1 = u
    BY <1>0, <2>1, <2>2
  <2>4. KitchenAfter(t, i) = KitchenAfter(u, i)
    BY <2>3 DEF Replays
  <2>5. KitchenAfter(u, i) = KitchenAfter(r, i)
    BY <1>1, <1>3, <2>1, <2>2
  <2>6. QED
    BY <2>2, <2>4, <2>5
<1>4. Nat \subseteq Q
  BY <1>2, <1>3, CountUp
<1>5. QED
  BY <1>1, <1>4

\* A ticket that only added is undone by a cancellation with nothing but reprints
\* between them.
LEMMA CancelUndoes ==
  ASSUME HeadersOK, ContentOK, Replays, TakesBack, SentFits
  PROVE  CancelUndoesLatestAdd
<1>1. SUFFICES ASSUME NEW c \in DOMAIN tickets, NEW r, r = tickets[c].ref,
                      tickets[c].kind = "cancel",
                      tickets[r].kind # "reprint",
                      \A t \in r + 1 .. c - 1 : tickets[t].kind = "reprint",
                      \A i \in Items : OnlyAdds(kotItems[r][i]),
                      NEW i \in Items
               PROVE  KitchenAfter(c, i) = KitchenAfter(r - 1, i)
  BY DEF CancelUndoesLatestAdd, OnlyAdds
<1>2. /\ c \in Nat /\ r \in 1 .. c - 1 /\ r \in DOMAIN tickets /\ c - 1 \in DOMAIN tickets
      /\ kotItems[c] = CancelLines(r) /\ Len(tickets) \in Nat
  BY <1>1 DEF TakesBack, HeadersOK
<1>3. PICK prev, delta : prev = KitchenAfter(r - 1, i) /\ delta = kotItems[r][i]
  OBVIOUS
<1>4. prev \in Dish /\ delta \in Seq(KotLine)
  <2>1. r - 1 \in 0 .. Len(tickets)
    BY <1>2 DEF HeadersOK
  <2>2. r \in DOMAIN kotItems
    BY <1>2 DEF HeadersOK, ContentOK
  <2>3. QED
    BY <1>3, <2>1, <2>2, KitchenTyped DEF ContentOK
<1>5. KitchenAfter(r, i) = Cooked(prev, delta)
  BY <1>1, <1>2, <1>3 DEF Replays
<1>6. KitchenAfter(c - 1, i) = KitchenAfter(r, i)
  <2>1. PICK m \in Nat : m = c - 1 - r
    BY <1>2
  <2>2. r + m = c - 1
    BY <1>2, <2>1
  <2>3. QED
    BY <1>1, <1>2, <2>2, ReprintsSkipped
<1>7. kotItems[c][i] = Reversed(delta)
  BY <1>2, <1>3 DEF CancelLines, Reversed
<1>8. KitchenAfter(c, i) = Cooked(Cooked(prev, delta), Reversed(delta))
  BY <1>1, <1>5, <1>6, <1>7 DEF Replays
<1>9. tickets[r].kind \in {"full", "delta", "cancel"}
  <2>1. tickets[r] \in Ticket
    BY <1>2 DEF HeadersOK
  <2>2. QED
    BY <1>1, <2>1 DEF Ticket, Kinds
<1>10. CASE tickets[r].kind \in {"full", "delta"}
  <2>1. PICK cur \in Row : delta = DeltaBetween(prev, cur)
    BY <1>2, <1>3, <1>10 DEF SentFits
  <2>2. OnlyAdds(delta)
    BY <1>1, <1>3
  <2>3. QED
    BY <1>3, <1>4, <1>8, <2>1, <2>2, AddsReversed
<1>11. CASE tickets[r].kind = "cancel"
  <2>1. PICK s : delta = CancelLines(s)[i]
    BY <1>2, <1>3, <1>11 DEF TakesBack
  <2>2. \A k \in DOMAIN delta : delta[k].action = "cancel"
    <3>1. PICK content : delta = [k \in DOMAIN content |-> [content[k] EXCEPT !.action = "cancel"]]
      BY <2>1 DEF CancelLines
    <3>2. ASSUME NEW k \in DOMAIN delta PROVE delta[k].action = "cancel"
      <4>1. k \in DOMAIN content /\ delta[k] = [content[k] EXCEPT !.action = "cancel"]
        BY <3>1
      <4>2. delta[k] \in KotLine
        BY <1>4
      <4>3. QED
        BY <4>1, <4>2 DEF KotLine
    <3>3. QED
      BY <3>2
  <2>3. DOMAIN delta = {}
    BY <1>1, <1>3, <2>2 DEF OnlyAdds
  <2>4. delta = <<>> /\ Reversed(delta) = <<>>
    BY <1>4, <2>3 DEF Reversed
  <2>5. QED
    BY <1>3, <1>4, <1>8, <2>4, CookedNone
<1>12. QED
  BY <1>9, <1>10, <1>11

\* The lines that were sent, and what they were the difference to.
SendsOK == OrderOK /\ HeadersOK /\ ContentOK /\ Clocked /\ TakesBack /\ SentFits

\* Without tickets there is nothing to tell.
LEMMA SendsInitially == Init => SendsOK /\ TicketChain
<1>1. Init => TypeOK
  BY KitchenInitially
<1>2. Init => Clocked /\ TicketChain
  BY DEF Init, Clocked, TicketChain, SentTickets
<1>3. Init => TakesBack /\ SentFits
  BY DEF Init, TakesBack, SentFits
<1>4. QED
  BY <1>1, <1>2, <1>3, TypeOKParts DEF SendsOK

\* Every step keeps them, unless the clock is set back.
LEMMA SendsPreserved ==
  ASSUME ~ClockRunsBack, SendsOK, TicketChain, [Next]_vars
  PROVE  SendsOK' /\ TicketChain'
<1>1. OrderOK' /\ HeadersOK' /\ ContentOK'
  BY OrderSteps, HeadersPreserved, ContentPreserved DEF SendsOK
<1>2. Clocked' /\ TicketChain'
  BY ChainPreserved DEF SendsOK
<1>3. Replays /\ Replays'
  BY <1>1, <1>2, ReplaysInOrder, ReplaysInOrderNext DEF SendsOK
<1>4. TakesBack' /\ SentFits'
  BY <1>1, <1>3, TakesBackPreserved, SentFitsPreserved DEF SendsOK
<1>5. QED
  BY <1>1, <1>2, <1>4 DEF SendsOK

\* Cancelling the latest ticket, when it only added, takes the kitchen back to what it
\* held before, as long as the clock is not set back.
THEOREM CancelUndoesLatestAddAlways ==
  ASSUME ~ClockRunsBack
  PROVE  Spec => []CancelUndoesLatestAdd
<1>1. SendsOK => CancelUndoesLatestAdd
  BY ReplaysInOrder, CancelUndoes DEF SendsOK
<1>2. SendsOK /\ TicketChain /\ [Next]_vars => SendsOK' /\ TicketChain'
  BY SendsPreserved
<1>3. QED
  BY <1>1, <1>2, SendsInitially, PTL DEF Spec

\* What a line asks for.
Portions(line) == IF line.action = "cancel" THEN 0 ELSE line.qty

\* What each line adds to the sum.
AskedSteps(content) == [k \in DOMAIN content |-> [v \in Nat |-> v + Portions(content[k])]]

\* It is a number.
LEMMA PortionsTyped == \A line \in KotLine : Portions(line) \in Nat
BY DEF KotLine, Portions

\* What a ticket asks for is a fold that adds the last line last.
LEMMA AskedByFold ==
  ASSUME NEW content \in Seq(KotLine)
  PROVE  \E g : /\ FoldsIn(g, DOMAIN content, Nat, 0, Largest, AskedSteps(content))
                /\ Asked(content) = g[DOMAIN content]
<1> DEFINE S == DOMAIN content
           step == AskedSteps(content)
           Adding(sum, line) == IF line.action = "cancel" THEN sum ELSE sum + line.qty
           Literal(g) == g = [s \in SUBSET S |-> IF s = {} THEN 0
                                ELSE Adding(g[s \ {LargestOf(s)}], content[LargestOf(s)])]
           g == CHOOSE g : Literal(g)
<1>1. /\ S = 1 .. Len(content) /\ Len(content) \in Nat /\ IsFiniteSet(S)
      /\ \A k \in S : content[k] \in KotLine
  BY FS_Interval
<1>2. Choice(Largest, S) /\ \A s \in SUBSET S : LargestOf(s) = Largest[s]
  BY <1>1, LargestChosen DEF Largest
<1>3. /\ \A k \in S, v \in Nat : step[k][v] = Adding(v, content[k])
      /\ StepsIn(step, S, Nat)
  <2>1. \A k \in S : Portions(content[k]) \in Nat
    BY <1>1, PortionsTyped
  <2>2. \A k \in S, v \in Nat : step[k][v] = v + Portions(content[k])
    BY DEF AskedSteps
  <2>3. \A k \in S, v \in Nat : v + Portions(content[k]) = Adding(v, content[k])
    BY <2>1 DEF Portions
  <2> HIDE DEF S, step, Adding
  <2>4. \A k \in S, v \in Nat : v + Portions(content[k]) \in Nat
    BY <2>1
  <2>5. StepsIn(step, S, Nat)
    BY <2>2, <2>4 DEF StepsIn
  <2>6. QED
    BY <2>2, <2>3, <2>5
<1>4. Asked(content) = g[S]
  BY DEF Asked, FoldLeft, MapThenFoldSet, Max, LargestOf
<1> HIDE DEF S, step, Adding
<1>5. PICK f \in [SUBSET S -> Nat] : Folds(f, S, 0, Largest, step)
  BY <1>1, <1>2, <1>3, FoldExists
<1>6. ASSUME NEW s \in SUBSET S, s # {}
      PROVE  LargestOf(s) \in S /\ s \ {LargestOf(s)} \in SUBSET S
  BY <1>2, <1>6 DEF Choice
<1>7. \A s \in SUBSET S :
        f[s] = IF s = {} THEN 0 ELSE Adding(f[s \ {LargestOf(s)}], content[LargestOf(s)])
  BY <1>2, <1>3, <1>5, <1>6, ZenonT(30) DEF Folds
<1>8. Literal(f)
  BY <1>5, <1>7
<1>9. Literal(g)
  BY <1>8
<1> HIDE DEF g
<1>10. \A s \in SUBSET S :
         g[s] = IF s = {} THEN 0 ELSE Adding(g[s \ {LargestOf(s)}], content[LargestOf(s)])
  BY <1>9
<1> HIDE DEF Literal
<1>11. ASSUME NEW s \in SUBSET S, s # {}, g[s \ {Largest[s]}] \in Nat
       PROVE  g[s] = step[Largest[s]][g[s \ {Largest[s]}]]
  <2>1. LargestOf(s) = Largest[s] /\ LargestOf(s) \in S
    BY <1>2, <1>6, <1>11
  <2>2. g[s] = Adding(g[s \ {Largest[s]}], content[Largest[s]])
    BY <1>10, <1>11, <2>1
  <2>3. QED
    BY <1>3, <1>11, <2>1, <2>2
<1>12. Unfolds(g, S, Nat, 0, Largest, step)
  BY <1>10, <1>11 DEF Unfolds
<1>13. FoldsIn(g, S, Nat, 0, Largest, step)
  BY <1>1, <1>2, <1>3, <1>12, FoldTyped
<1>14. QED
  BY <1>4, <1>13 DEF S, step

\* It is a number, too.
LEMMA AskedTyped ==
  ASSUME NEW content \in Seq(KotLine)
  PROVE  Asked(content) \in Nat
<1>1. PICK g : /\ FoldsIn(g, DOMAIN content, Nat, 0, Largest, AskedSteps(content))
               /\ Asked(content) = g[DOMAIN content]
  BY AskedByFold
<1>2. QED
  BY <1>1 DEF FoldsIn

\* No lines ask for nothing.
LEMMA AskedNone == Asked(<<>>) = 0
<1>1. <<>> \in Seq(KotLine) /\ DOMAIN <<>> = {}
  OBVIOUS
<1>2. PICK g : /\ FoldsIn(g, DOMAIN <<>>, Nat, 0, Largest, AskedSteps(<<>>))
               /\ Asked(<<>>) = g[DOMAIN <<>>]
  BY <1>1, AskedByFold
<1>3. QED
  BY <1>1, <1>2 DEF FoldsIn, Folds

\* One line more asks for its portions more.
LEMMA AskedOneMore ==
  ASSUME NEW content \in Seq(KotLine), NEW line \in KotLine
  PROVE  Asked(Append(content, line)) = Asked(content) + Portions(line)
<1> DEFINE n == Len(content)
           more == Append(content, line)
<1>1. /\ n \in Nat /\ DOMAIN content = 1 .. n
      /\ more \in Seq(KotLine) /\ DOMAIN more = 1 .. n + 1
      /\ more[n + 1] = line /\ \A k \in 1 .. n : more[k] = content[k]
  OBVIOUS
<1> HIDE DEF n, more
<1>2. PICK g : /\ FoldsIn(g, 1 .. n, Nat, 0, Largest, AskedSteps(content))
               /\ Asked(content) = g[1 .. n]
  BY <1>1, AskedByFold
<1>3. PICK h : /\ FoldsIn(h, 1 .. n + 1, Nat, 0, Largest, AskedSteps(more))
               /\ Asked(more) = h[1 .. n + 1]
  BY <1>1, AskedByFold
<1>4. \A k \in 1 .. n, v \in Nat : AskedSteps(content)[k][v] = AskedSteps(more)[k][v]
  BY <1>1 DEF AskedSteps
<1>5. h[1 .. n + 1] = AskedSteps(more)[n + 1][g[1 .. n]]
  BY <1>1, <1>2, <1>3, <1>4, FoldLonger
<1>6. AskedSteps(more)[n + 1][Asked(content)] = Asked(content) + Portions(line)
  BY <1>1, AskedTyped DEF AskedSteps
<1>7. QED
  BY <1>2, <1>3, <1>5, <1>6 DEF more

-----------------------------------------------------------------------------
(***************************************************************************)
(* Portions: what tickets add and what their cancellation takes.           *)
(***************************************************************************)

\* A ticket adds no more than it asks for.
LEMMA CookedWithinAsked ==
  ASSUME NEW dish \in Dish, NEW content \in Seq(KotLine)
  PROVE  Cooked(dish, content).qty <= dish.qty + Asked(content)
<1>1. PICK Q : Q = {s \in Seq(KotLine) : Cooked(dish, s).qty <= dish.qty + Asked(s)}
  OBVIOUS
<1>2. <<>> \in Q
  <2>1. dish.qty <= dish.qty + 0
    BY DishFacts
  <2>2. QED
    BY <1>1, <2>1, CookedNone, AskedNone
<1>3. ASSUME NEW s \in Seq(KotLine), NEW line \in KotLine, s \in Q
      PROVE  Append(s, line) \in Q
  <2>1. PICK before, after, asked :
          before = Cooked(dish, s) /\ after = Apply(before, line) /\ asked = Asked(s)
    OBVIOUS
  <2>2. before \in Dish /\ after \in Dish /\ asked \in Nat /\ Portions(line) \in Nat
    BY <2>1, CookedTyped, ApplyTyped, AskedTyped, PortionsTyped
  <2>3. before.qty \in Nat /\ after.qty \in Nat /\ dish.qty \in Nat
    BY <2>2, DishFacts
  <2>4. before.qty <= dish.qty + asked
    BY <1>1, <1>3, <2>1
  <2>5. line.qty \in Nat \ {0} /\ line.action \in Actions
    BY DEF KotLine
  <2>6. after.qty <= before.qty + Portions(line)
    BY <2>1, <2>3, <2>5, DishFacts DEF Apply, Portions, Actions
  <2>7. after.qty <= dish.qty + (asked + Portions(line))
    BY <2>2, <2>3, <2>4, <2>6, SMTT(30)
  <2>8. QED
    BY <1>1, <2>1, <2>7, CookedOneMore, AskedOneMore
<1>4. Seq(KotLine) \subseteq Q
  BY <1>2, <1>3, AppendUp
<1>5. QED
  BY <1>1, <1>4

\* Taking a ticket back takes at least what it asked for.
LEMMA ReversedTakes ==
  ASSUME NEW dish \in Dish, NEW content \in Seq(KotLine), NEW rest \in Nat,
         dish.qty <= rest + Asked(content)
  PROVE  Cooked(dish, Reversed(content)).qty <= rest
<1>1. PICK Q : Q = {s \in Seq(KotLine) :
                      /\ Reversed(s) \in Seq(KotLine)
                      /\ \A r \in Nat : dish.qty <= r + Asked(s)
                                          => Cooked(dish, Reversed(s)).qty <= r}
  OBVIOUS
<1>2. <<>> \in Q
  <2>1. Reversed(<<>>) = <<>> /\ <<>> \in Seq(KotLine)
    BY DEF Reversed
  <2>2. \A r \in Nat : dish.qty <= r + 0 => dish.qty <= r
    BY DishFacts
  <2>3. QED
    BY <1>1, <2>1, <2>2, CookedNone, AskedNone
<1>3. ASSUME NEW s \in Seq(KotLine), NEW line \in KotLine, s \in Q
      PROVE  Append(s, line) \in Q
  <2>1. PICK back, undo : back = Reversed(s) /\ undo = [line EXCEPT !.action = "cancel"]
    OBVIOUS
  <2>2. /\ undo \in KotLine /\ undo.action = "cancel" /\ undo.qty = line.qty
        /\ line.qty \in Nat \ {0} /\ line.action \in Actions
    BY <2>1 DEF KotLine, Actions
  <2>3. back \in Seq(KotLine)
    BY <1>1, <1>3, <2>1
  <2>4. Reversed(Append(s, line)) = Append(back, undo)
    <3>1. PICK n \in Nat : n = Len(s)
      <4>1. Len(s) \in Nat
        OBVIOUS
      <4>2. QED
        BY <4>1
    <3>2. PICK more, both : more = Append(s, line) /\ both = Append(back, undo)
      OBVIOUS
    <3>3. /\ DOMAIN s = 1 .. n /\ DOMAIN more = 1 .. n + 1
          /\ more[n + 1] = line /\ \A k \in 1 .. n : more[k] = s[k]
      BY <3>1, <3>2
    <3>4. DOMAIN back = 1 .. n /\ \A k \in 1 .. n : back[k] = [s[k] EXCEPT !.action = "cancel"]
      BY <2>1, <3>3 DEF Reversed
    <3>5. Len(back) = n
      BY <2>3, <3>4
    <3>6. /\ both \in Seq(KotLine) /\ Len(both) = n + 1
          /\ both[n + 1] = undo /\ \A k \in 1 .. n : both[k] = back[k]
      <4>1. both \in Seq(KotLine) /\ Len(both) = Len(back) + 1
        BY <2>2, <2>3, <3>2
      <4>2. both[Len(back) + 1] = undo
        BY <2>2, <2>3, <3>2
      <4>3. \A k \in 1 .. Len(back) : both[k] = back[k]
        BY <2>2, <2>3, <3>2
      <4>4. QED
        BY <3>5, <4>1, <4>2, <4>3
    <3>7. \A k \in 1 .. n + 1 : both[k] = [more[k] EXCEPT !.action = "cancel"]
      <4>1. both[n + 1] = [more[n + 1] EXCEPT !.action = "cancel"]
        BY <2>1, <3>3, <3>6
      <4>2. \A k \in 1 .. n : both[k] = [more[k] EXCEPT !.action = "cancel"]
        BY <3>3, <3>4, <3>6
      <4>3. \A k \in 1 .. n + 1 : k \in 1 .. n \/ k = n + 1
        OBVIOUS
      <4>4. QED
        BY <4>1, <4>2, <4>3
    <3>8. both = [k \in 1 .. n + 1 |-> both[k]]
      <4>1. PICK m : m = n + 1
        OBVIOUS
      <4>2. both \in Seq(KotLine) /\ Len(both) = m
        BY <3>6, <4>1
      <4>3. both = [k \in 1 .. m |-> both[k]]
        BY <4>2
      <4>4. QED
        BY <4>1, <4>3
    <3>9. both = [k \in DOMAIN more |-> [more[k] EXCEPT !.action = "cancel"]]
      <4>1. [k \in 1 .. n + 1 |-> both[k]]
              = [k \in 1 .. n + 1 |-> [more[k] EXCEPT !.action = "cancel"]]
        BY <3>7
      <4>2. QED
        BY <3>3, <3>8, <4>1
    <3>10. QED
      BY <3>2, <3>9 DEF Reversed
  <2>5. ASSUME NEW r \in Nat, dish.qty <= r + Asked(Append(s, line))
        PROVE  Cooked(dish, Append(back, undo)).qty <= r
    <3>1. PICK before, after, asked, p :
            /\ before = Cooked(dish, back) /\ after = Apply(before, undo)
            /\ asked = Asked(s) /\ p = Portions(line)
      OBVIOUS
    <3>2. before \in Dish /\ after \in Dish /\ asked \in Nat /\ p \in Nat
      BY <2>2, <2>3, <3>1, CookedTyped, ApplyTyped, AskedTyped, PortionsTyped
    <3>3. before.qty \in Nat /\ after.qty \in Nat /\ dish.qty \in Nat
      BY <3>2, DishFacts
    <3>4. p <= line.qty
      BY <2>2, <3>1 DEF Portions
    <3>5. dish.qty <= r + (asked + p)
      BY <2>5, <3>1, AskedOneMore
    <3>6. dish.qty <= (r + p) + asked /\ r + p \in Nat
      BY <3>2, <3>3, <3>5
    <3>7. before.qty <= r + p
      BY <1>1, <1>3, <2>1, <3>1, <3>6
    <3>8. after.qty <= r
      BY <2>2, <3>1, <3>2, <3>3, <3>4, <3>7, DishFacts DEF Apply
    <3>9. QED
      BY <2>2, <2>3, <3>1, <3>8, CookedOneMore
  <2>6. Append(back, undo) \in Seq(KotLine) /\ Append(s, line) \in Seq(KotLine)
    BY <2>2, <2>3
  <2>7. QED
    BY <1>1, <2>4, <2>5, <2>6
<1>4. Seq(KotLine) \subseteq Q
  BY <1>2, <1>3, AppendUp
<1>5. QED
  BY <1>1, <1>4

\* The portions of item i that each ticket asks for.
AskedOf(i) == [t \in DOMAIN tickets |-> Asked(kotItems[t][i])]

\* Ordered is the sum over the tickets in force.
OrderedAddsUp ==
  \A i \in Items : \E g : IsSum(g, AskedOf(i), LiveTickets) /\ Ordered(i) = g[LiveTickets]

\* Finitely many tickets are in force, and each asks for a number of portions.
LEMMA AskedOfTyped ==
  ASSUME HeadersOK, ContentOK, NEW i \in Items
  PROVE  /\ \A t \in DOMAIN tickets : AskedOf(i)[t] \in Nat
         /\ IsFiniteSet(LiveTickets) /\ LiveTickets \subseteq DOMAIN tickets
<1>1. \A t \in DOMAIN tickets : kotItems[t][i] \in Seq(KotLine)
  BY DEF HeadersOK, ContentOK
<1>2. LiveTickets \subseteq DOMAIN tickets
  BY DEF LiveTickets, SentTickets
<1>3. IsFiniteSet(LiveTickets)
  <2>1. PICK n \in Nat : DOMAIN tickets = 1 .. n
    BY DEF HeadersOK
  <2>2. QED
    BY <1>2, <2>1, FS_Interval, FS_Subset
<1>4. QED
  BY <1>1, <1>2, <1>3, AskedTyped DEF AskedOf

\* Ordered(i), a fold that chooses any ticket, is their sum, whichever is chosen.
LEMMA OrderedIsSum ==
  ASSUME HeadersOK, ContentOK, NEW i \in Items
  PROVE  \E g : IsSum(g, AskedOf(i), LiveTickets) /\ Ordered(i) = g[LiveTickets]
<1>0. PICK L, f, step : L = LiveTickets /\ f = AskedOf(i) /\ step = Adds(f, L)
  OBVIOUS
<1> DEFINE First(s) == CHOOSE x \in s : TRUE
           chosen == [s \in SUBSET L |-> First(s)]
           Literal(g) == g = [s \in SUBSET L |-> IF s = {} THEN 0
                                ELSE Asked(kotItems[First(s)][i]) + g[s \ {First(s)}]]
           g == CHOOSE g : Literal(g)
<1>1. /\ IsFiniteSet(L) /\ \A t \in L : f[t] \in Nat
      /\ \A t \in L : f[t] = Asked(kotItems[t][i])
  BY <1>0, AskedOfTyped DEF AskedOf
<1>2. Choice(chosen, L) /\ \A s \in SUBSET L : First(s) = chosen[s]
  BY DEF Choice
<1> HIDE DEF chosen
<1>3. /\ \A t \in L, v \in Nat : step[t][v] = f[t] + v
      /\ StepsIn(step, L, Nat)
  BY <1>0, <1>1 DEF Adds, StepsIn
<1>4. Ordered(i) = g[L]
  BY <1>0 DEF Ordered, MapThenSumSet, MapThenFoldSet
<1>5. PICK k \in [SUBSET L -> Nat] : Folds(k, L, 0, chosen, step)
  <2>1. Choice(chosen, L) /\ StepsIn(step, L, Nat) /\ IsFiniteSet(L) /\ 0 \in Nat
    BY <1>1, <1>2, <1>3
  <2> HIDE DEF g, Literal, First
  <2>2. QED
    BY <2>1, FoldExists
<1>6. ASSUME NEW s \in SUBSET L, s # {}
      PROVE  First(s) \in L /\ s \ {First(s)} \in SUBSET L
  BY <1>2, <1>6 DEF Choice
<1> HIDE DEF First
<1>7. \A s \in SUBSET L :
        k[s] = IF s = {} THEN 0 ELSE Asked(kotItems[First(s)][i]) + k[s \ {First(s)}]
  <2>1. k[{}] = 0
    BY <1>5 DEF Folds
  <2>2. ASSUME NEW s \in SUBSET L, s # {}
        PROVE  k[s] = Asked(kotItems[First(s)][i]) + k[s \ {First(s)}]
    <3>1. PICK t, others : t = First(s) /\ others = s \ {t}
      OBVIOUS
    <3>2. t = chosen[s] /\ t \in L /\ others \in SUBSET L
      BY <1>2, <1>6, <2>2, <3>1
    <3>3. k[s] = step[t][k[others]] /\ k[others] \in Nat
      BY <1>5, <2>2, <3>1, <3>2 DEF Folds
    <3>4. step[t][k[others]] = Asked(kotItems[t][i]) + k[others]
      BY <1>1, <1>3, <3>2, <3>3
    <3>5. QED
      BY <3>1, <3>3, <3>4
  <2>3. QED
    BY <2>1, <2>2
<1>8. Literal(k)
  BY <1>5, <1>7
<1>9. Literal(g)
  BY <1>8
<1> HIDE DEF g
<1>10. \A s \in SUBSET L :
         g[s] = IF s = {} THEN 0 ELSE Asked(kotItems[First(s)][i]) + g[s \ {First(s)}]
  BY <1>9
<1> HIDE DEF Literal
<1>11. ASSUME NEW s \in SUBSET L, s # {}, g[s \ {chosen[s]}] \in Nat
       PROVE  g[s] = step[chosen[s]][g[s \ {chosen[s]}]]
  <2>1. First(s) = chosen[s] /\ chosen[s] \in L
    BY <1>2, <1>6, <1>11
  <2>2. g[s] = f[chosen[s]] + g[s \ {chosen[s]}]
    BY <1>1, <1>10, <1>11, <2>1
  <2>3. QED
    BY <1>3, <1>11, <2>1, <2>2
<1>12. Unfolds(g, L, Nat, 0, chosen, step)
  BY <1>10, <1>11 DEF Unfolds
<1>13. FoldsIn(g, L, Nat, 0, chosen, step)
  BY <1>1, <1>2, <1>3, <1>12, FoldTyped
<1>14. IsSum(g, f, L)
  BY <1>0, <1>1, <1>2, <1>13, FoldIsSum
<1>15. QED
  BY <1>0, <1>4, <1>14

\* So it is for every item,
LEMMA OrderedSums == HeadersOK /\ ContentOK => OrderedAddsUp
BY OrderedIsSum DEF OrderedAddsUp

\* and after a step as well.
LEMMA OrderedSumsNext == HeadersOK' /\ ContentOK' => OrderedAddsUp'
BY OrderedSums, PTL

-----------------------------------------------------------------------------
(***************************************************************************)
(* Nothing is cooked without a ticket.                                     *)
(***************************************************************************)

\* Which tickets are in force after a step.
LEMMA LiveAfter ==
  ASSUME HeadersOK, HeadersOK', ContentOK, [Next]_vars
  PROVE  LET n == Len(tickets') IN
         \/ DOMAIN tickets' = DOMAIN tickets /\ LiveTickets' = LiveTickets
         \/ /\ n = Len(tickets) + 1
            /\ \/ AddedSend /\ LiveTickets' = LiveTickets \cup {n}
               \/ \E t \in DOMAIN tickets :
                    \/ AddedCancel(t) /\ LiveTickets' = (LiveTickets \ {t}) \cup {n}
                    \/ AddedReprint(t) /\ LiveTickets' = LiveTickets
<1>1. PICK n \in Nat : n = Len(tickets) /\ DOMAIN tickets = 1 .. n
  BY DEF HeadersOK
<1>2. PICK m : m = n + 1
  OBVIOUS
<1>3. DOMAIN tickets' = 1 .. Len(tickets') /\ Len(tickets') \in Nat
  BY DEF HeadersOK
<1>4. \A t \in DOMAIN tickets : tickets'[t].kind = tickets[t].kind
  BY TicketsKept
<1>5. /\ \A t : t \in LiveTickets <=> t \in DOMAIN tickets /\ tickets[t].kind # "reprint"
                                      /\ ~tickets[t].cancelled
      /\ \A t : t \in LiveTickets' <=> t \in DOMAIN tickets' /\ tickets'[t].kind # "reprint"
                                       /\ ~tickets'[t].cancelled
  BY DEF LiveTickets, SentTickets
<1>0. ASSUME DOMAIN tickets' = 1 .. m
      PROVE  /\ Len(tickets') = m /\ \A t \in 1 .. m : t \in 1 .. n \/ t = m
             /\ \/ AddedSend
                \/ \E t \in DOMAIN tickets : AddedCancel(t) \/ AddedReprint(t)
  <2>1. \A k, l \in Nat : 1 .. k = 1 .. l => k = l
    OBVIOUS
  <2>2. m \in Nat /\ m # n /\ \A t \in 1 .. m : t \in 1 .. n \/ t = m
    BY <1>2
  <2>5. Len(tickets') = m
    <3>1. 1 .. Len(tickets') = 1 .. m
      BY <1>0, <1>3
    <3>2. QED
      BY <1>3, <2>1, <2>2, <3>1
  <2>3. DOMAIN tickets' # DOMAIN tickets
    BY <1>1, <1>2, <1>0, <2>1, <2>2
  <2>4. QED
    BY <2>2, <2>5, <2>3, ContentEffects
<1>6. CASE \/ Quiet
           \/ \E t \in DOMAIN tickets :
                \/ Moved(t, "new", "preparing")
                \/ Moved(t, "preparing", "ready")
                \/ Moved(t, "ready", "completed")
  <2>1. DOMAIN tickets' = DOMAIN tickets /\ \A t \in DOMAIN tickets : SameMark(t)
    BY <1>6 DEF Quiet, Moved, NoNewTicket
  <2>2. LiveTickets' = LiveTickets
    BY <1>4, <1>5, <2>1 DEF SameMark
  <2>3. QED
    BY <2>1, <2>2
<1>7. CASE Sent
  <2>1. /\ DOMAIN tickets' = 1 .. m /\ tickets'[m].kind \in {"full", "delta"}
        /\ ~tickets'[m].cancelled /\ \A t \in DOMAIN tickets : SameMark(t)
    BY <1>1, <1>2, <1>7 DEF Sent, NewTicket, SendKind
  <2>2. Len(tickets') = m /\ \A t \in 1 .. m : t \in 1 .. n \/ t = m
    BY <1>0, <2>1
  <2>3. AddedSend
    BY <1>0, <2>1, <2>2 DEF AddedCancel, AddedReprint
  <2>4. LiveTickets' = LiveTickets \cup {m}
    BY <1>1, <1>2, <1>4, <1>5, <2>1, <2>2 DEF SameMark
  <2>5. QED
    BY <1>1, <1>2, <2>2, <2>3, <2>4
<1>8. ASSUME NEW c \in DOMAIN tickets, Cancelled(c)
      PROVE  /\ Len(tickets') = Len(tickets) + 1
             /\ AddedCancel(c) /\ LiveTickets' = (LiveTickets \ {c}) \cup {Len(tickets')}
  <2>1. /\ DOMAIN tickets' = 1 .. m /\ tickets'[m].kind = "cancel" /\ tickets'[m].ref = c
        /\ ~tickets'[m].cancelled /\ tickets'[c].cancelled
        /\ \A t \in DOMAIN tickets : t # c => SameMark(t)
    BY <1>1, <1>2, <1>8 DEF Cancelled, NewTicket
  <2>2. Len(tickets') = m /\ \A t \in 1 .. m : t \in 1 .. n \/ t = m
    BY <1>0, <2>1
  <2>3. AddedCancel(c)
    BY <1>0, <2>1, <2>2 DEF AddedSend, AddedCancel, AddedReprint
  <2>4. LiveTickets' = (LiveTickets \ {c}) \cup {m}
    BY <1>1, <1>2, <1>4, <1>5, <2>1, <2>2 DEF SameMark
  <2>5. QED
    BY <1>1, <1>2, <2>2, <2>3, <2>4
<1>9. ASSUME NEW c \in DOMAIN tickets, Reprinted(c)
      PROVE  /\ Len(tickets') = Len(tickets) + 1
             /\ \E t \in DOMAIN tickets : AddedReprint(t) /\ LiveTickets' = LiveTickets
  <2>1. /\ DOMAIN tickets' = 1 .. m /\ tickets'[m].kind = "reprint"
        /\ \A t \in DOMAIN tickets : SameMark(t)
    BY <1>1, <1>2, <1>9 DEF Reprinted, NewTicket
  <2>2. Len(tickets') = m /\ \A t \in 1 .. m : t \in 1 .. n \/ t = m
    BY <1>0, <2>1
  <2>3. \E t \in DOMAIN tickets : AddedReprint(t)
    BY <1>0, <2>1, <2>2 DEF AddedSend, AddedCancel
  <2>4. LiveTickets' = LiveTickets
    <3>1. \A t \in DOMAIN tickets' : t \in DOMAIN tickets \/ t = m
      BY <1>1, <2>1, <2>2
    <3>2. DOMAIN tickets \subseteq DOMAIN tickets'
      BY TicketsKept
    <3>3. \A t \in DOMAIN tickets : t \in LiveTickets' <=> t \in LiveTickets
      BY <1>4, <1>5, <2>1, <3>2 DEF SameMark
    <3>4. m \notin LiveTickets'
      BY <1>5, <2>1
    <3>5. QED
      BY <1>5, <3>1, <3>3, <3>4
  <2>5. QED
    BY <1>1, <1>2, <2>2, <2>3, <2>4
<1>10. QED
  BY <1>6, <1>7, <1>8, <1>9, StepEffects

\* A new ticket is replayed after the others.
LEMMA NewTicketCooks ==
  ASSUME HeadersOK, HeadersOK', ContentOK, Replays, Replays', [Next]_vars, NEW i \in Items
  PROVE  /\ DOMAIN tickets' = DOMAIN tickets => KitchenNow(i)' = KitchenNow(i)
         /\ Len(tickets') = Len(tickets) + 1 =>
              KitchenNow(i)' = IF tickets'[Len(tickets')].kind = "reprint" THEN KitchenNow(i)
                               ELSE Cooked(KitchenNow(i), kotItems'[Len(tickets')][i])
<1>1. PICK n \in Nat : n = Len(tickets) /\ DOMAIN tickets = 1 .. n
  BY DEF HeadersOK
<1>2. PICK m \in Nat : m = Len(tickets') /\ DOMAIN tickets' = 1 .. m
  BY DEF HeadersOK
<1>3. KitchenAfter(n, i)' = KitchenAfter(n, i)
  BY <1>1, KitchenStable
<1>4. KitchenNow(i) = KitchenAfter(n, i) /\ KitchenNow(i)' = KitchenAfter(m, i)'
  BY <1>1, <1>2 DEF KitchenNow
<1>5. ASSUME DOMAIN tickets' = DOMAIN tickets
      PROVE  KitchenNow(i)' = KitchenNow(i)
  <2>1. m = n
    BY <1>1, <1>2, <1>5
  <2>2. QED
    BY <1>3, <1>4, <2>1
<1>6. ASSUME m = n + 1
      PROVE  KitchenNow(i)' = IF tickets'[m].kind = "reprint" THEN KitchenNow(i)
                              ELSE Cooked(KitchenNow(i), kotItems'[m][i])
  <2>1. m \in DOMAIN tickets' /\ m - 1 = n
    BY <1>1, <1>2, <1>6
  <2>2. KitchenAfter(m, i)' = IF tickets'[m].kind = "reprint" THEN KitchenAfter(n, i)'
                              ELSE Cooked(KitchenAfter(n, i)', kotItems'[m][i])
    BY <2>1 DEF Replays
  <2>3. QED
    BY <1>3, <1>4, <2>2
<1>7. QED
  BY <1>1, <1>2, <1>5, <1>6

\* No step lets the kitchen hold more than the tickets in force ask for: a send adds
\* what it asks for, and a cancellation takes at least what its target asked for.
LEMMA WithinPreserved ==
  ASSUME HeadersOK, HeadersOK', ContentOK, ContentOK', Replays, Replays',
         NothingCookedWithoutTicket, [Next]_vars
  PROVE  NothingCookedWithoutTicket'
<1> SUFFICES ASSUME NEW i \in Items PROVE KitchenNow(i)'.qty <= Ordered(i)'
  BY DEF NothingCookedWithoutTicket
<1>1. PICK n \in Nat : n = Len(tickets) /\ DOMAIN tickets = 1 .. n
  BY DEF HeadersOK
<1>2. PICK L, f, g : /\ L = LiveTickets /\ f = AskedOf(i)
                     /\ IsSum(g, f, L) /\ Ordered(i) = g[L]
  BY OrderedSums DEF OrderedAddsUp
<1>3. PICK M, e, h : /\ M = LiveTickets' /\ e = AskedOf(i)'
                     /\ IsSum(h, e, M) /\ Ordered(i)' = h[M]
  BY OrderedSumsNext DEF OrderedAddsUp
<1>4. PICK dish, after : dish = KitchenNow(i) /\ after = KitchenNow(i)'
  OBVIOUS
<1>5. dish \in Dish /\ dish.qty \in Nat
  <2>1. Len(tickets) \in 0 .. Len(tickets)
    BY DEF HeadersOK
  <2>2. QED
    BY <1>4, <2>1, KitchenTyped, DishFacts DEF KitchenNow
<1>6. dish.qty <= g[L]
  BY <1>2, <1>4 DEF NothingCookedWithoutTicket
<1>7. /\ IsFiniteSet(L) /\ L \subseteq DOMAIN tickets
      /\ \A t \in DOMAIN tickets : f[t] \in Nat /\ f[t] = Asked(kotItems[t][i])
  BY <1>2, AskedOfTyped DEF AskedOf
<1>8. \A t \in DOMAIN tickets : e[t] = f[t]
  <2>1. \A t \in DOMAIN tickets : t \in DOMAIN tickets' /\ kotItems'[t] = kotItems[t]
    BY TicketsKept
  <2>2. QED
    BY <1>2, <1>3, <2>1 DEF AskedOf
<1>9. \A R \in SUBSET L : R \subseteq M => h[R] = g[R] /\ g[R] \in Nat
  <2>1. ASSUME NEW R \in SUBSET L, R \subseteq M PROVE h[R] = g[R]
    <3>1. IsFiniteSet(R) /\ \A x \in R : f[x] = e[x]
      BY <1>7, <1>8, FS_Subset
    <3>2. QED
      BY <1>2, <1>3, <2>1, <3>1, SumsAgree
  <2>2. \A R \in SUBSET L : g[R] \in Nat
    BY <1>2 DEF IsSum
  <2>3. QED
    BY <2>1, <2>2
<1>10. CASE M = L
           /\ \/ DOMAIN tickets' = DOMAIN tickets
              \/ /\ Len(tickets') = Len(tickets) + 1
                 /\ tickets'[Len(tickets')].kind = "reprint"
  <2>1. after = dish
    BY <1>4, <1>10, NewTicketCooks
  <2>2. h[M] = g[L]
    BY <1>9, <1>10
  <2>3. QED
    BY <1>3, <1>4, <1>6, <2>1, <2>2
<1>11. ASSUME Len(tickets') = Len(tickets) + 1,
              tickets'[Len(tickets')].kind # "reprint",
              NEW K \in SUBSET L, M = K \cup {Len(tickets')}
       PROVE  /\ after = Cooked(dish, kotItems'[n + 1][i])
              /\ kotItems'[n + 1][i] \in Seq(KotLine)
              /\ Asked(kotItems'[n + 1][i]) \in Nat
              /\ h[M] = Asked(kotItems'[n + 1][i]) + g[K] /\ g[K] \in Nat
  <2>1. PICK m : m = n + 1
    OBVIOUS
  <2>2. m = Len(tickets') /\ m \notin DOMAIN tickets /\ m \in DOMAIN tickets'
    BY <1>1, <1>11, <2>1 DEF HeadersOK
  <2>3. after = Cooked(dish, kotItems'[m][i])
    BY <1>4, <1>11, <2>2, NewTicketCooks
  <2>4. kotItems'[m][i] \in Seq(KotLine)
    BY <2>2 DEF HeadersOK, ContentOK
  <2>5. M \ {m} = K /\ m \in M
    BY <1>7, <1>11, <2>2
  <2>6. h[M] = e[m] + h[K]
    BY <1>3, <2>5 DEF IsSum
  <2>7. e[m] = Asked(kotItems'[m][i])
    BY <1>3, <2>2 DEF AskedOf
  <2>8. h[K] = g[K] /\ g[K] \in Nat
    BY <1>9, <1>11
  <2>9. QED
    BY <2>1, <2>3, <2>4, <2>6, <2>7, <2>8, AskedTyped
<1>12. CASE /\ Len(tickets') = Len(tickets) + 1
            /\ AddedSend /\ M = L \cup {Len(tickets')}
  <2>1. tickets'[Len(tickets')].kind # "reprint"
    BY <1>12 DEF AddedSend
  <2>2. PICK content \in Seq(KotLine) :
          after = Cooked(dish, content) /\ h[M] = Asked(content) + g[L]
          /\ Asked(content) \in Nat /\ g[L] \in Nat
    BY <1>11, <1>12, <2>1
  <2>3. after.qty <= dish.qty + Asked(content) /\ after.qty \in Nat
    BY <1>5, <2>2, CookedWithinAsked, CookedTyped, DishFacts
  <2>4. after.qty <= h[M]
    BY <1>5, <1>6, <2>2, <2>3
  <2>5. QED
    BY <1>3, <1>4, <2>4
<1>13. ASSUME NEW t \in DOMAIN tickets, Len(tickets') = Len(tickets) + 1,
              AddedCancel(t), M = (L \ {t}) \cup {Len(tickets')}
       PROVE  after.qty <= h[M]
  <2>1. tickets'[Len(tickets')].kind # "reprint" /\ kotItems'[n + 1] = CancelLines(t)
    BY <1>1, <1>13 DEF AddedCancel
  <2>2. PICK content, K : content = kotItems[t][i] /\ K = L \ {t}
    OBVIOUS
  <2>3. CancelLines(t)[i] = Reversed(content)
    BY <2>2 DEF CancelLines, Reversed
  <2>4. K \in SUBSET L /\ M = K \cup {Len(tickets')}
    BY <1>13, <2>2
  <2>5. PICK back \in Seq(KotLine) :
          /\ back = Reversed(content) /\ after = Cooked(dish, back)
          /\ h[M] = Asked(back) + g[K]
          /\ Asked(back) \in Nat /\ g[K] \in Nat
    BY <1>11, <1>13, <2>1, <2>3, <2>4
  <2>6. content \in Seq(KotLine) /\ Asked(content) \in Nat
    BY <2>2, AskedTyped DEF HeadersOK, ContentOK
  <2>7. g[L] <= g[K] + Asked(content)
    <3>1. CASE t \in L
      <4>1. g[L] = f[t] + g[K]
        BY <1>2, <2>2, <3>1 DEF IsSum
      <4>2. QED
        BY <1>7, <2>2, <2>5, <2>6, <4>1
    <3>2. CASE t \notin L
      <4>1. K = L
        BY <2>2, <3>2
      <4>2. QED
        BY <2>5, <2>6, <4>1
    <3>3. QED
      BY <3>1, <3>2
  <2>8. dish.qty <= g[K] + Asked(content)
    <3>1. g[L] \in Nat
      BY <1>2 DEF IsSum
    <3>2. QED
      BY <1>5, <1>6, <2>5, <2>6, <2>7, <3>1
  <2>9. after.qty <= g[K]
    BY <1>5, <2>5, <2>6, <2>8, ReversedTakes
  <2>10. after.qty \in Nat
    BY <1>5, <2>5, CookedTyped, DishFacts
  <2>11. QED
    BY <2>5, <2>9, <2>10
<1>14. QED
  BY <1>1, <1>2, <1>3, <1>4, <1>10, <1>12, <1>13, LiveAfter DEF AddedReprint

\* At first it holds nothing.
LEMMA WithinInitially == Init => NothingCookedWithoutTicket
<1> SUFFICES ASSUME Init, NEW i \in Items PROVE KitchenNow(i).qty <= Ordered(i)
  BY DEF NothingCookedWithoutTicket
<1>1. HeadersOK /\ ContentOK
  BY KitchenInitially, TypeOKParts
<1>2. KitchenNow(i) = Nothing
  <2>1. Len(tickets) = 0
    BY DEF Init
  <2>2. QED
    BY <1>1, <2>1, KitchenStart DEF KitchenNow
<1>3. Ordered(i) \in Nat
  BY <1>1, OrderedIsSum DEF IsSum
<1>4. QED
  BY <1>2, <1>3 DEF Nothing

\* The kitchen never holds more of an item than tickets in force ask for, as long as
\* the clock is not set back.
THEOREM NothingCookedWithoutTicketAlways ==
  ASSUME ~ClockRunsBack
  PROVE  Spec => []NothingCookedWithoutTicket
<1>1. SendsOK /\ TicketChain /\ NothingCookedWithoutTicket /\ [Next]_vars
        => SendsOK' /\ TicketChain' /\ NothingCookedWithoutTicket'
  <2> SUFFICES ASSUME SendsOK, TicketChain, NothingCookedWithoutTicket, [Next]_vars
               PROVE  SendsOK' /\ TicketChain' /\ NothingCookedWithoutTicket'
    OBVIOUS
  <2>1. SendsOK' /\ TicketChain'
    BY SendsPreserved
  <2>2. HeadersOK /\ ContentOK /\ HeadersOK' /\ ContentOK' /\ Replays /\ Replays'
    BY <2>1, ReplaysInOrder, ReplaysInOrderNext DEF SendsOK
  <2>3. QED
    BY <2>1, <2>2, WithinPreserved
<1>2. QED
  BY <1>1, SendsInitially, WithinInitially, PTL DEF Spec
=============================================================================
