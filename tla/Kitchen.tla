------------------------------- MODULE Kitchen -------------------------------
(***************************************************************************)
(* Kitchen order tickets (KOTs) of one order: what the cashier edits       *)
(* (electron/services/order-service.ts), the delta that is sent to the     *)
(* kitchen and the life of a ticket (electron/services/kot-service.ts,     *)
(* electron/repositories/kot-repository.ts).                               *)
(*                                                                         *)
(* Every IPC handler runs to its end on the main thread and every KOT      *)
(* operation writes inside one database transaction, so an operation is    *)
(* one action.  Two orders share nothing but the KOT number, a count of    *)
(* rows that are never deleted; the number is the ticket's index here.     *)
(*                                                                         *)
(* The kitchen's view of the order is stored nowhere: each send replays    *)
(* all earlier tickets.  Ticket lines of different order items commute in  *)
(* that replay, so a ticket keeps one sequence of lines for each item.     *)
(***************************************************************************)
EXTENDS Integers, SequencesExt

CONSTANTS
  Items,          \* order_items.uuid values; a removed one is never used again
  Makes,          \* how an item is made: variant name and modifier names together
  PlainMake,      \* the default variant without modifiers
  Notes, NoNote,  \* kitchen notes, and null
  MaxQty,         \* bound on the quantity of an order item
  Priorities,     \* KOT priorities
  Stations,       \* kitchen station codes
  MainStation,    \* the station a ticket is created with
  Times,          \* values of the wall clock when tickets are created
  ClockRunsBack,  \* may the wall clock be set back between two tickets?
  MaxTickets      \* bound on the number of tickets

ASSUME KitchenAssumption ==
  /\ PlainMake \in Makes
  /\ NoNote \in Notes
  /\ MaxQty \in Nat \ {0}
  /\ 0 \in Priorities
  /\ MainStation \in Stations
  /\ Times \subseteq Int
  /\ ClockRunsBack \in BOOLEAN
  /\ MaxTickets \in Nat

VARIABLES
  lines,     \* lines[i]: the order_items row of item i, Nothing when there is none
  minted,    \* the items ever added to the order
  tickets,   \* kot_tickets, in the order of insertion (id)
  kotItems,  \* kot_items: kotItems[t][i] are the lines of ticket t for item i
  history    \* kot_status_history: history[t] are the rows of ticket t

vars == <<lines, minted, tickets, kotItems, history>>

Statuses == {"new", "preparing", "ready", "completed"}
Kinds == {"full", "delta", "cancel", "reprint"}
Actions == {"add", "update", "cancel"}

\* The absence of a row, for the order and for the kitchen alike.
Nothing == [qty |-> 0, note |-> NoNote, make |-> PlainMake]

Line == [qty : 1 .. MaxQty, note : Notes, make : Makes]
KotLine == [action : Actions, qty : Nat \ {0}, note : Notes, make : Makes]

Ticket ==
  [at : Times, kind : Kinds, status : Statuses, cancelled : BOOLEAN, ref : Nat,
   started : BOOLEAN, ready : BOOLEAN, completed : BOOLEAN,
   priority : Priorities, station : Stations]

Change == [from : Statuses \cup {"none"}, to : Statuses]

-----------------------------------------------------------------------------
(***************************************************************************)
(* The kitchen's view: currentKitchenState replays the tickets.            *)
(***************************************************************************)

\* listByOrder sorts by creation time, then by id.
Before(t, u) ==
  \/ tickets[t].at < tickets[u].at
  \/ tickets[t].at = tickets[u].at /\ t < u

Newest(ts) == CHOOSE t \in ts : \A u \in ts \ {t} : Before(u, t)

\* Replayed tickets among the first n: all but the reprints.
Replayed(n) == {t \in 1 .. n : tickets[t].kind # "reprint"}

\* A mutant: a note update adds its quantity to what is there.
ApplyUpdateAdds(dish, line) ==
  CASE line.action \in {"add", "update"} ->
         [qty |-> dish.qty + line.qty, note |-> line.note, make |-> line.make]
    [] line.action = "cancel" ->
         IF dish.qty > line.qty THEN [dish EXCEPT !.qty = @ - line.qty] ELSE Nothing

\* A mutant: a dish whose quantity reaches zero stays in the map.
ApplyKeepsZero(dish, line) ==
  CASE line.action = "add" ->
         [qty |-> dish.qty + line.qty, note |-> line.note, make |-> line.make]
    [] line.action = "update" ->
         [qty |-> line.qty, note |-> line.note, make |-> line.make]
    [] line.action = "cancel" ->
         IF dish.qty >= line.qty THEN [dish EXCEPT !.qty = @ - line.qty] ELSE Nothing

\* One ticket line applied to what the kitchen holds of an item.
Apply(dish, line) ==
  CASE line.action = "add" ->
         [qty |-> dish.qty + line.qty, note |-> line.note, make |-> line.make]
    [] line.action = "update" ->
         [qty |-> line.qty, note |-> line.note, make |-> line.make]
    [] line.action = "cancel" ->
         IF dish.qty > line.qty THEN [dish EXCEPT !.qty = @ - line.qty] ELSE Nothing

\* What the kitchen holds of item i after the first n tickets, the newest applied last.
KitchenAfter(n, i) ==
  MapThenFoldSet(LAMBDA t, dish : FoldLeft(Apply, dish, kotItems[t][i]), Nothing,
                 LAMBDA t : t, Newest, Replayed(n))

KitchenNow(i) == KitchenAfter(Len(tickets), i)

-----------------------------------------------------------------------------
(***************************************************************************)
(* The delta between the order and the kitchen: buildDelta.                *)
(***************************************************************************)

KotLineOf(action, row, qty) ==
  [action |-> action, qty |-> qty, note |-> row.note, make |-> row.make]

When(cond, line) == IF cond THEN <<line>> ELSE <<>>

\* The lines that take the kitchen from prev to cur.
DeltaBetween(prev, cur) ==
  LET here == cur.qty > 0
      sent == prev.qty > 0
      same == here /\ sent /\ cur.make = prev.make
  IN  When(sent /\ ~same, KotLineOf("cancel", prev, prev.qty))
      \o When(here /\ ~same, KotLineOf("add", cur, cur.qty))
      \o When(same /\ cur.note # prev.note, KotLineOf("update", cur, cur.qty))
      \o When(same /\ cur.qty > prev.qty, KotLineOf("add", cur, cur.qty - prev.qty))
      \o When(same /\ cur.qty < prev.qty, KotLineOf("cancel", prev, prev.qty - cur.qty))

Delta(i) == DeltaBetween(KitchenNow(i), lines[i])

\* preview: an order without items and an order without changes are refused.
CanSend ==
  /\ \E i \in Items : lines[i].qty > 0
  /\ \E i \in Items : Delta(i) # <<>>

SentTickets == {t \in DOMAIN tickets : tickets[t].kind # "reprint"}

SendKind == IF SentTickets = {} THEN "full" ELSE "delta"

\* A mutant: the newest ticket, a reprint or not.
SendRefAny == Len(tickets)

\* The newest ticket that is no reprint, 0 for null.
SendRef == IF SentTickets = {} THEN 0 ELSE Newest(SentTickets)

-----------------------------------------------------------------------------
Init ==
  /\ lines = [i \in Items |-> Nothing]
  /\ minted = {}
  /\ tickets = <<>>
  /\ kotItems = <<>>
  /\ history = <<>>

(***************************************************************************)
(* Edits of the order (OrderService).                                      *)
(***************************************************************************)

KotUnchanged == UNCHANGED <<tickets, kotItems, history>>

AddItem(i, make) ==
  /\ i \notin minted
  /\ minted' = minted \cup {i}
  /\ lines' = [lines EXCEPT ![i] = [qty |-> 1, note |-> NoNote, make |-> make]]
  /\ KotUnchanged

HasItem(i) == lines[i].qty > 0      \* requireItem

Edit(i, row) ==
  /\ lines' = [lines EXCEPT ![i] = row]
  /\ UNCHANGED minted
  /\ KotUnchanged

\* A mutant: a quantity of zero is stored.
UpdateItemQuantityKeepsZero(i, qty) == HasItem(i) /\ Edit(i, [lines[i] EXCEPT !.qty = qty])

\* A quantity of zero or less removes the item.
UpdateItemQuantity(i, qty) ==
  /\ HasItem(i)
  /\ Edit(i, IF qty <= 0 THEN Nothing ELSE [lines[i] EXCEPT !.qty = qty])

RemoveItem(i) == HasItem(i) /\ Edit(i, Nothing)

\* setItemVariant and setItemModifiers.
SetItemMake(i, make) == HasItem(i) /\ Edit(i, [lines[i] EXCEPT !.make = make])

SetItemNote(i, note) == HasItem(i) /\ Edit(i, [lines[i] EXCEPT !.note = note])

-----------------------------------------------------------------------------
(***************************************************************************)
(* Tickets (KotService).                                                   *)
(***************************************************************************)

ClockAllows(now) ==
  ClockRunsBack \/ \A t \in DOMAIN tickets : tickets[t].at <= now

\* createTicket and the first addStatusHistory, in one transaction.
CreateTicket(kind, status, ref, from, content, now, others) ==
  /\ Len(tickets) < MaxTickets
  /\ ClockAllows(now)
  /\ tickets' = Append(others,
       [at |-> now, kind |-> kind, status |-> status, cancelled |-> FALSE, ref |-> ref,
        started |-> FALSE, ready |-> FALSE, completed |-> FALSE,
        priority |-> 0, station |-> MainStation])
  /\ kotItems' = Append(kotItems, content)
  /\ history' = Append(history, <<[from |-> from, to |-> status]>>)
  /\ UNCHANGED <<lines, minted>>

Create(now) ==
  /\ CanSend
  /\ CreateTicket(SendKind, "new", SendRef, "none", [i \in Items |-> Delta(i)], now, tickets)

\* A mutant: the cancel ticket repeats the lines of its target.
CancelLinesCopied(t) == kotItems[t]

\* Every line of the target comes back as a cancel line, whatever it was.
CancelLines(t) ==
  [i \in Items |-> [k \in DOMAIN kotItems[t][i] |->
                      [kotItems[t][i][k] EXCEPT !.action = "cancel"]]]

\* A mutant: a ticket already cancelled is not refused.
CanCancelAgain(t) == tickets[t].status = "new"

CanCancel(t) == tickets[t].status = "new" /\ ~tickets[t].cancelled

Cancel(t, now) ==
  /\ CanCancel(t)
  /\ CreateTicket("cancel", "new", t, "none", CancelLines(t), now,
                  [tickets EXCEPT ![t].cancelled = TRUE])

\* A mutant: no COALESCE, the earlier stamps are lost.
StampedAfresh(ticket, next) ==
  [ticket EXCEPT !.status = next,
                 !.started = next = "preparing",
                 !.ready = next = "ready",
                 !.completed = next = "completed"]

\* updateTicketState stamps the new status; COALESCE keeps the earlier stamps.
Stamped(ticket, next) ==
  [ticket EXCEPT !.status = next,
                 !.started = @ \/ next = "preparing",
                 !.ready = @ \/ next = "ready",
                 !.completed = @ \/ next = "completed"]

\* A mutant: the expected status is not compared.
CanMoveFromAny(t, expected) == ~tickets[t].cancelled

CanMove(t, expected) == ~tickets[t].cancelled /\ tickets[t].status = expected

Transition(t, expected, next) ==
  /\ CanMove(t, expected)
  /\ tickets' = [tickets EXCEPT ![t] = Stamped(@, next)]
  /\ history' = [history EXCEPT ![t] = Append(@, [from |-> expected, to |-> next])]
  /\ UNCHANGED <<lines, minted, kotItems>>

MarkStarted(t)   == Transition(t, "new", "preparing")
MarkReady(t)     == Transition(t, "preparing", "ready")
MarkCompleted(t) == Transition(t, "ready", "completed")

Reprint(t, now) ==
  CreateTicket("reprint", tickets[t].status, t, tickets[t].status, kotItems[t], now, tickets)

SetPriority(t, priority) ==
  /\ tickets[t].status # "completed"
  /\ tickets' = [tickets EXCEPT ![t].priority = priority]
  /\ UNCHANGED <<lines, minted, kotItems, history>>

SetStation(t, station) ==
  /\ tickets[t].status # "completed"
  /\ tickets' = [tickets EXCEPT ![t].station = station]
  /\ UNCHANGED <<lines, minted, kotItems, history>>

EditOrder ==
  \E i \in Items :
    \/ \E make \in Makes : AddItem(i, make)
    \/ \E qty \in 0 .. MaxQty : UpdateItemQuantity(i, qty)
    \/ RemoveItem(i)
    \/ \E make \in Makes : SetItemMake(i, make)
    \/ \E note \in Notes : SetItemNote(i, note)

TicketStep(t) ==
  \/ \E now \in Times : Cancel(t, now)
  \/ MarkStarted(t)
  \/ MarkReady(t)
  \/ MarkCompleted(t)
  \/ \E now \in Times : Reprint(t, now)
  \/ \E priority \in Priorities : SetPriority(t, priority)
  \/ \E station \in Stations : SetStation(t, station)

Next ==
  \/ EditOrder
  \/ \E now \in Times : Create(now)
  \/ \E t \in DOMAIN tickets : TicketStep(t)

Spec == Init /\ [][Next]_vars

-----------------------------------------------------------------------------
(***************************************************************************)
(* Properties.                                                             *)
(***************************************************************************)

\* Headers and history are well formed.
HeadersOK ==
  /\ tickets \in Seq(Ticket)
  /\ history \in Seq(Seq(Change))
  /\ Len(kotItems) = Len(tickets)
  /\ Len(history) = Len(tickets)

\* Order rows and ticket rows have the types the tables demand: an order row is
\* gone or has a positive quantity, and so has every ticket line (CHECK (qty > 0)).
TypeOK ==
  /\ lines \in [Items -> Line \cup {Nothing}]
  /\ minted \subseteq Items
  /\ \A i \in Items : lines[i].qty > 0 => i \in minted
  /\ HeadersOK
  /\ kotItems \in Seq([Items -> Seq(KotLine)])

IsSend ==
  /\ Len(tickets') = Len(tickets) + 1
  /\ tickets'[Len(tickets')].kind \in {"full", "delta"}

\* The note and the quantity of a dish the kitchen has both changed.
NoteAndQtyEdited(i) ==
  LET prev == KitchenNow(i) IN
  /\ prev.qty > 0 /\ lines[i].qty > 0
  /\ prev.make = lines[i].make
  /\ prev.note # lines[i].note
  /\ prev.qty # lines[i].qty

\* After a send the kitchen, as the next replay will see it, holds exactly the
\* order, whatever was sent, cancelled and reprinted before; the one exception
\* is an item whose note and quantity were edited since the last send, for
\* which buildDelta emits an update to the full quantity and the difference.
SendReachesKitchen ==
  [][IsSend => \A i \in Items : NoteAndQtyEdited(i) \/ KitchenNow(i)' = lines[i]]_vars

\* A send leaves nothing to send: the next send without an edit is refused
\* (NO_KOT_CHANGES).  The code breaks this when NoteAndQtyEdited.
ResendRefused == [][IsSend => ~CanSend']_vars

LiveTickets == {t \in SentTickets : ~tickets[t].cancelled}

\* The portions that the lines of a ticket ask for.
Asked(content) ==
  FoldLeft(LAMBDA sum, line : IF line.action = "cancel" THEN sum ELSE sum + line.qty,
           0, content)

\* The portions of item i that tickets still in force ask for.
Ordered(i) == MapThenSumSet(LAMBDA t : Asked(kotItems[t][i]), LiveTickets)

\* The kitchen never holds more of an item than tickets that are not cancelled
\* ask for, however sends, cancellations (of cancel tickets and reprints too)
\* and edits alternate.
NothingCookedWithoutTicket == \A i \in Items : KitchenNow(i).qty <= Ordered(i)

\* Cancelling a ticket right after it was sent takes the kitchen back to what
\* it held before, when the ticket only added.
CancelUndoesLatestAdd ==
  \A c \in DOMAIN tickets :
    LET r == tickets[c].ref IN
    (/\ tickets[c].kind = "cancel"
     /\ tickets[r].kind # "reprint"
     /\ \A t \in r + 1 .. c - 1 : tickets[t].kind = "reprint"
     /\ \A i \in Items : \A k \in DOMAIN kotItems[r][i] : kotItems[r][i][k].action = "add")
    => \A i \in Items : KitchenAfter(c, i) = KitchenAfter(r - 1, i)

\* Cancelled tickets and cancel tickets come in pairs: a cancelled ticket never
\* left the status new and has one cancel ticket, and that cancel ticket names
\* an earlier ticket, cancelled, whose every line it takes back.
CancelPairs ==
  /\ \A t \in DOMAIN tickets : tickets[t].cancelled =>
       /\ tickets[t].status = "new"
       /\ \E c \in DOMAIN tickets : tickets[c].kind = "cancel" /\ tickets[c].ref = t
  /\ \A c \in DOMAIN tickets : tickets[c].kind = "cancel" =>
       /\ tickets[c].ref \in 1 .. c - 1
       /\ tickets[tickets[c].ref].cancelled
       /\ \A d \in DOMAIN tickets :
            tickets[d].kind = "cancel" /\ tickets[d].ref = tickets[c].ref => d = c

\* kot_status_history tells the life of each ticket: a chain that ends at its
\* status, with a time stamp for each status it moved to and for no other; a
\* reprint starts at the status it copied, without that status's stamp.
HistoryTells ==
  \A t \in DOMAIN tickets :
    LET h == history[t]
        movedTo(status) == \E k \in 2 .. Len(h) : h[k].to = status
    IN  /\ h # <<>> /\ h[Len(h)].to = tickets[t].status
        /\ \A k \in 2 .. Len(h) : h[k].from = h[k - 1].to
        /\ tickets[t].started = movedTo("preparing")
        /\ tickets[t].ready = movedTo("ready")
        /\ tickets[t].completed = movedTo("completed")

\* The first ticket of an order that is no reprint is its only full one, and
\* each delta refers to the ticket sent just before it, reprints skipped.
TicketChain ==
  \A t \in DOMAIN tickets :
    LET earlier == {u \in SentTickets : u < t} IN
    /\ tickets[t].kind = "full" <=> t \in SentTickets /\ earlier = {}
    /\ tickets[t].kind = "delta" =>
         tickets[t].ref \in earlier /\ \A u \in earlier : u <= tickets[t].ref

\* listActiveTickets: what the kitchen display shows.
OnBoard(t) ==
  /\ tickets[t].status \in {"new", "preparing", "ready"}
  /\ tickets[t].kind # "reprint"
  /\ ~tickets[t].cancelled

\* A ticket that left the kitchen display, done or cancelled, never comes back.
BoardNeverResurrects ==
  [][\A t \in DOMAIN tickets : ~OnBoard(t) => ~OnBoard(t)']_vars
=============================================================================
