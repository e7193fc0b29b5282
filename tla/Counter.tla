-------------------------------- MODULE Counter --------------------------------
(***************************************************************************)
(* The counter: what the cashier presses, what the screens show and what   *)
(* the main process stores, with the calls under way between them          *)
(* (src/stores/pos-store.ts, billing-store.ts and table-store.ts, and the  *)
(* screens PosScreen, TablesScreen, RunningOrdersScreen, HeldOrdersScreen  *)
(* and BillingScreen).                                                     *)
(*                                                                         *)
(* Each press invokes a handler of the main process and goes on when the   *)
(* answer comes; meanwhile the cashier presses other buttons and leaves    *)
(* the screen.  Handlers run to their end, one after the other, in the     *)
(* order of the calls, and nothing else writes orders, so a call is        *)
(* handled when its answer is taken: what another order of these two steps *)
(* would change, no screen can see.                                        *)
(*                                                                         *)
(* An order is told apart by its items (each costs 1, so its total is      *)
(* their number), its table and whether it is held.  Order types, waiters, *)
(* modifiers and discounts are left out: hold may refuse an order that     *)
(* lacks some, a change of the others may be refused, and a shift is open. *)
(***************************************************************************)
EXTENDS Naturals, FiniteSets, Sequences, SequencesExt

CONSTANTS
  Orders,    \* orders.uuid values
  Tables,    \* tables.uuid values
  Null,      \* no order, no table
  MaxItems,  \* bound on the items ever added
  MaxCalls   \* bound on the calls under way when a button is pressed

ASSUME CounterAssumption ==
  /\ Null \notin Orders \cup Tables
  /\ MaxItems \in Nat /\ MaxCalls \in Nat

VARIABLES
  recent,  \* the orders stored, the one last updated first
  rows,    \* rows[o]: what is stored of order o
  paid,    \* paid[o]: what was paid for order o, 0 when it is not settled
  calls,   \* the calls under way, oldest first
  shown,   \* currentOrder of the POS store, or Null
  floor,   \* floor[t]: the order the floor map of the table store shows at t
  screen,  \* the screen on display with its own state
  added    \* the items added so far: each has its number

vars == <<recent, rows, paid, calls, shown, floor, screen, added>>
stored == <<recent, rows, paid>>

Row == [items : SUBSET (1 .. MaxItems), table : Tables \cup {Null}, held : BOOLEAN]
NewRow == [items |-> {}, table |-> Null, held |-> FALSE]

Placed == ToSet(recent)
Settled == {o \in Orders : paid[o] > 0}
Total(row) == Cardinality(row.items)

\* A change of an order; item is 0 when it is about no item of it.  An item gets its
\* number when the button is pressed: no one sees it before it is stored.
Edits == {e \in [kind : {"add", "alter", "remove", "seat", "hold"},
                 item : 0 .. MaxItems, table : Tables \cup {Null}] :
            e.kind = "add" => e.item # 0}
Change(kind) == [kind |-> kind, item |-> 0, table |-> Null]
ChangeItem(kind, i) == [kind |-> kind, item |-> i, table |-> Null]
Seat(t) == [kind |-> "seat", item |-> 0, table |-> t]
NoEdit == Change("alter")

\* A call under way; chain is what its caller does with the answer.
Call == [op : {"create", "edit", "summary", "recall", "running", "held", "floor",
               "preview", "settle", "dropped"},
         order : Orders \cup {Null}, edit : Edits, amount : 0 .. MaxItems,
         chain : {"none", "edit", "seat", "seated", "leave"}]
To(op, o, edit, chain) ==
  [op |-> op, order |-> o, edit |-> edit, amount |-> 0, chain |-> chain]
Ask(op, o, chain) == To(op, o, NoEdit, chain)

Bill == [order : Orders, amount : 1 .. MaxItems, settled : BOOLEAN]
NoBill == [order |-> Null, amount |-> 0, settled |-> FALSE]

\* The screens; route is the order of the billing screen, list what the running
\* or held orders screen has loaded, busy its openingOrderUuid or openingTableUuid.
Screen == [name : {"pos", "tables", "running", "held", "billing"},
           route : Orders \cup {Null}, list : SUBSET [order : Orders, filled : BOOLEAN],
           busy : BOOLEAN, bill : Bill \cup {NoBill}, loading : BOOLEAN]

-----------------------------------------------------------------------------
\* What the main process answers.
Listed(chosen) == {[order |-> o, filled |-> rows[o].items # {}] : o \in chosen}

RunningNow ==
  Listed({o \in Placed \ Settled : ~rows[o].held /\ (rows[o].items # {} \/ rows[o].table # Null)})
HeldNow == Listed({o \in Placed : rows[o].held})

\* The newest order at a table that is not settled, held ones included.
FloorNow ==
  [t \in Tables |->
     LET at == {i \in DOMAIN recent : rows[recent[i]].table = t /\ recent[i] \notin Settled}
     IN  IF at = {} THEN Null ELSE recent[CHOOSE i \in at : \A j \in at : i <= j]]

\* preview answers with the stored bill once there is one.
BillNow(o) ==
  [order |-> o, amount |-> IF o \in Settled THEN paid[o] ELSE Total(rows[o]),
   settled |-> o \in Settled]

Edited(row, e) ==
  [items |-> IF e.kind = "add" THEN row.items \cup {e.item}
             ELSE IF e.kind = "remove" THEN row.items \ {e.item} ELSE row.items,
   table |-> IF e.kind = "seat" THEN e.table ELSE row.table,
   held |-> row.held \/ e.kind = "hold"]

\* A mutant: the order is listed once more.
TouchedAgain(o) == <<o>> \o recent

\* Every write of an order sets its updated_at.
Touched(o) == <<o>> \o RemoveAt(recent, CHOOSE i \in DOMAIN recent : recent[i] = o)

-----------------------------------------------------------------------------
\* Leaving a screen and entering another.  The lists and flags of a screen are its
\* own: they start afresh, and answers for the screen that was left are dropped.
Mounted(name, o) ==
  [name |-> name, route |-> o, list |-> {}, busy |-> FALSE, bill |-> NoBill,
   loading |-> name = "billing"]

Dropped(pending) ==
  [i \in DOMAIN pending |->
     IF pending[i].op \in {"running", "held"}
     THEN [pending[i] EXCEPT !.op = "dropped"] ELSE pending[i]]

\* A mutant: the bill is of the order shown on the POS screen.
MountCallsOfShown(name, o, cur) ==
  IF name = "pos" /\ cur = Null
  THEN <<Ask("create", Null, "none"), Ask("floor", Null, "none")>>
  ELSE IF name \in {"pos", "tables"} THEN <<Ask("floor", Null, "none")>>
  ELSE IF name = "billing" THEN <<Ask("preview", IF cur = Null THEN o ELSE cur, "none")>>
  ELSE <<Ask(name, Null, "none")>>

\* The effects of a screen that is mounted while order cur is shown: the running and
\* the held orders are asked for by the name of their screen.
MountCalls(name, o, cur) ==
  IF name = "pos" /\ cur = Null
  THEN <<Ask("create", Null, "none"), Ask("floor", Null, "none")>>
  ELSE IF name \in {"pos", "tables"} THEN <<Ask("floor", Null, "none")>>
  ELSE IF name = "billing" THEN <<Ask("preview", o, "none")>>
  ELSE <<Ask(name, Null, "none")>>

\* A mutant: the list of the last visit is kept.
EnterWithList(name, o, cur, pending) ==
  /\ screen' = [Mounted(name, o) EXCEPT !.list = screen.list]
  /\ calls' = Dropped(pending) \o MountCalls(name, o, cur)

Enter(name, o, cur, pending) ==
  /\ screen' = Mounted(name, o)
  /\ calls' = Dropped(pending) \o MountCalls(name, o, cur)

\* navigate("/pos"): nothing happens when it is on display already.
EnterPos(cur, pending) ==
  IF screen.name = "pos"
  THEN screen' = screen /\ calls' = pending
  ELSE Enter("pos", Null, cur, pending)

Send(c) == calls' = Append(calls, c)

-----------------------------------------------------------------------------
\* What the cashier presses.  Len(calls) < MaxCalls bounds the calls under way,
\* CanCreate the orders ever created.
CanPress == Len(calls) < MaxCalls

CanCreate ==
  Len(recent) + Cardinality({i \in DOMAIN calls : calls[i].op = "create"}) < Cardinality(Orders)

Navigate ==
  /\ CanPress
  /\ \E name \in {"pos", "tables", "running", "held"} \ {screen.name} :
       /\ name = "pos" /\ shown = Null => CanCreate
       /\ Enter(name, Null, shown, calls)
  /\ UNCHANGED <<stored, shown, floor, added>>

\* The buttons that open an order or a table wait for one that is being opened.
Openable == ~screen.busy /\ CanPress

\* The edits the POS screen offers: of the items shown, and of the order.
Offered ==
  {Change("alter"), Change("hold")}
    \cup {Seat(t) : t \in Tables}
    \cup (IF added < MaxItems THEN {ChangeItem("add", added + 1)} ELSE {})
    \cup (IF shown = Null THEN {}
          ELSE {ChangeItem(kind, i) : kind \in {"alter", "remove"}, i \in rows[shown].items})

\* mutateOrder: the order shown is edited; when there is none, one is created first.
PressEdit ==
  /\ screen.name = "pos" /\ CanPress
  /\ \E e \in Offered :
       /\ IF shown = Null
          THEN CanCreate /\ Send(To("create", Null, e, "edit"))
          ELSE Send(To("edit", shown, e, "none"))
       /\ added' = IF e.kind = "add" THEN added + 1 ELSE added
  /\ UNCHANGED <<stored, shown, floor, screen>>

PressNewDraft ==
  /\ screen.name = "pos" /\ CanPress /\ CanCreate
  /\ Send(Ask("create", Null, "none"))
  /\ UNCHANGED <<stored, shown, floor, screen, added>>

PressRefresh ==
  /\ CanPress
  /\ screen.name \in {"tables", "running", "held"}
  /\ Send(Ask(IF screen.name = "tables" THEN "floor" ELSE screen.name, Null, "none"))
  /\ UNCHANGED <<stored, shown, floor, screen, added>>

PressOpen ==
  /\ screen.name = "running" /\ Openable
  /\ \E entry \in screen.list : Send(Ask("summary", entry.order, "leave"))
  /\ screen' = [screen EXCEPT !.busy = TRUE]
  /\ UNCHANGED <<stored, shown, floor, added>>

PressBill ==
  /\ screen.name = "running" /\ CanPress
  /\ \E entry \in screen.list : entry.filled /\ Enter("billing", entry.order, shown, calls)
  /\ UNCHANGED <<stored, shown, floor, added>>

PressRecall ==
  /\ screen.name = "held" /\ CanPress
  /\ \E entry \in screen.list : Send(Ask("recall", entry.order, "none"))
  /\ UNCHANGED <<stored, shown, floor, screen, added>>

\* openTable: an occupied table opens its order; a free one takes the order shown
\* when that is empty and at no other table, else a new one.
PressTable ==
  /\ screen.name = "tables" /\ Openable
  /\ \E t \in Tables :
       IF floor[t] # Null
       THEN Send(Ask("summary", floor[t], "leave"))
       ELSE IF shown # Null /\ rows[shown].items = {} /\ rows[shown].table \in {Null, t}
       THEN \/ Send(To("edit", shown, Seat(t), "seated"))
            \/ Send(To("edit", shown, [Seat(t) EXCEPT !.kind = "alter"], "seat"))
       ELSE CanCreate /\ Send(To("create", Null, Seat(t), "seat"))
  /\ screen' = [screen EXCEPT !.busy = TRUE]
  /\ UNCHANGED <<stored, shown, floor, added>>

PressSettle ==
  /\ screen.name = "billing" /\ CanPress
  /\ screen.bill # NoBill /\ ~screen.bill.settled /\ ~screen.loading
  /\ Send([Ask("settle", screen.route, "none") EXCEPT !.amount = screen.bill.amount])
  /\ screen' = [screen EXCEPT !.loading = TRUE]
  /\ UNCHANGED <<stored, shown, floor, added>>

PressBack ==
  /\ screen.name = "billing" /\ CanPress
  /\ Send(Ask("summary", screen.route, "leave"))
  /\ UNCHANGED <<stored, shown, floor, screen, added>>

Press ==
  \/ Navigate \/ PressEdit \/ PressNewDraft \/ PressRefresh \/ PressOpen \/ PressBill
  \/ PressRecall \/ PressTable \/ PressSettle \/ PressBack

-----------------------------------------------------------------------------
\* What happens when the oldest call is answered.
Answers(op) == calls # <<>> /\ Head(calls).op = op

\* A mutant: the screen is not left once a table is taken.
FollowingNotLeft(c, o) ==
  IF c.chain = "edit" THEN <<To("edit", o, c.edit, "none")>>
  ELSE IF c.chain = "seat" THEN <<To("edit", o, Seat(c.edit.table), "seated")>>
  ELSE <<>>

\* What follows in the chain of call c's caller, about order o.
Following(c, o) ==
  IF c.chain = "edit" THEN <<To("edit", o, c.edit, "none")>>
  ELSE IF c.chain = "seat" THEN <<To("edit", o, Seat(c.edit.table), "seated")>>
  ELSE IF c.chain = "seated" THEN <<Ask("floor", Null, "leave")>>
  ELSE <<>>

AnswerCreate ==
  /\ Answers("create")
  /\ \E o \in Orders \ Placed :
       /\ recent' = <<o>> \o recent
       /\ rows' = [rows EXCEPT ![o] = NewRow]
       /\ shown' = o
       /\ calls' = Tail(calls) \o Following(Head(calls), o)
  /\ UNCHANGED <<paid, floor, screen, added>>

\* requireItem: the item is still there.
Accepted(row, e) == e.kind = "add" \/ e.item = 0 \/ e.item \in row.items

\* Hold refuses a dine-in order without a table or waiter, and what a button of its own
\* alters may be refused too: too few or too many modifiers, too high a discount.
MayRefuse(c) ==
  \/ ~Accepted(rows[c.order], c.edit)
  \/ c.edit.kind = "hold"
  \/ c.edit.kind = "alter" /\ c.chain = "none"

Store(o, row) ==
  /\ recent' = Touched(o)
  /\ rows' = [rows EXCEPT ![o] = row]

AnswerEdit ==
  /\ Answers("edit")
  /\ LET c == Head(calls)
         row == rows[c.order]
     IN  \/ /\ Accepted(row, c.edit)
            /\ Store(c.order, Edited(row, c.edit))
            /\ shown' = c.order
            /\ calls' = Tail(calls) \o Following(c, c.order)
         \/ /\ MayRefuse(c)
            /\ calls' = Tail(calls)
            /\ UNCHANGED <<recent, rows, shown>>
  /\ UNCHANGED <<paid, floor, screen, added>>

\* loadSummary for Open, for an occupied table and for Back to Order.
AnswerSummary ==
  /\ Answers("summary")
  /\ shown' = Head(calls).order
  /\ EnterPos(Head(calls).order, Tail(calls))
  /\ UNCHANGED <<stored, floor, added>>

AnswerRecall ==
  /\ Answers("recall")
  /\ LET o == Head(calls).order
     IN  /\ Store(o, [rows[o] EXCEPT !.held = FALSE])
         /\ shown' = o
  /\ calls' = Tail(calls)
  /\ UNCHANGED <<paid, floor, screen, added>>

AnswerList ==
  /\ \/ Answers("running") /\ screen' = [screen EXCEPT !.list = RunningNow]
     \/ Answers("held") /\ screen' = [screen EXCEPT !.list = HeldNow]
  /\ calls' = Tail(calls)
  /\ UNCHANGED <<stored, shown, floor, added>>

\* The answer to a screen that was left.
AnswerDropped ==
  /\ Answers("dropped")
  /\ calls' = Tail(calls)
  /\ UNCHANGED <<stored, shown, floor, screen, added>>

AnswerFloor ==
  /\ Answers("floor")
  /\ floor' = FloorNow
  /\ UNCHANGED <<stored, shown, added>>
  /\ IF Head(calls).chain = "leave"
     THEN EnterPos(shown, Tail(calls))
     ELSE calls' = Tail(calls) /\ UNCHANGED screen

\* The answers of the billing store; only the billing screen shows them, and it
\* clears the store when it is entered.
Showing(bill) ==
  screen' = IF screen.name = "billing"
            THEN [screen EXCEPT !.loading = FALSE, !.bill = bill]
            ELSE screen

AnswerPreview ==
  /\ Answers("preview")
  /\ LET o == Head(calls).order
     IN  Showing(IF o \in Settled \/ rows[o].items # {} THEN BillNow(o) ELSE screen.bill)
  /\ calls' = Tail(calls)
  /\ UNCHANGED <<stored, shown, floor, added>>

CanSettle(c) ==
  c.order \notin Settled /\ rows[c.order].items # {} /\ c.amount = Total(rows[c.order])

AnswerSettle ==
  /\ Answers("settle")
  /\ LET c == Head(calls)
     IN  IF CanSettle(c)
         THEN /\ paid' = [paid EXCEPT ![c.order] = c.amount]
              /\ Showing([order |-> c.order, amount |-> c.amount, settled |-> TRUE])
         ELSE Showing(screen.bill) /\ UNCHANGED paid
  /\ calls' = Tail(calls)
  /\ UNCHANGED <<recent, rows, shown, floor, added>>

Answer ==
  \/ AnswerCreate \/ AnswerEdit \/ AnswerSummary \/ AnswerRecall \/ AnswerList
  \/ AnswerDropped \/ AnswerFloor \/ AnswerPreview \/ AnswerSettle

Init ==
  /\ recent = <<>> /\ added = 0
  /\ rows = [o \in Orders |-> NewRow]
  /\ paid = [o \in Orders |-> 0]
  /\ shown = Null
  /\ floor = [t \in Tables |-> Null]
  /\ screen = Mounted("pos", Null)
  /\ calls = <<Ask("create", Null, "none"), Ask("floor", Null, "none")>>

Next == Press \/ Answer

Spec == Init /\ [][Next]_vars

-----------------------------------------------------------------------------
TypeOK ==
  /\ recent \in Seq(Orders)
  /\ \A i, j \in DOMAIN recent : recent[i] = recent[j] => i = j
  /\ rows \in [Orders -> Row]
  /\ paid \in [Orders -> 0 .. MaxItems]
  /\ Settled \subseteq Placed
  /\ calls \in Seq(Call)
  /\ \A i \in DOMAIN calls : calls[i].order \in Placed \cup {Null}
  /\ shown \in Placed \cup {Null}
  /\ floor \in [Tables -> Placed \cup {Null}]
  /\ screen \in Screen
  /\ \A o \in {entry.order : entry \in screen.list} \cup {screen.route} :
       o \in Placed \cup {Null}
  /\ added \in 0 .. MaxItems

\* "Empty orders cannot open billing": the list the cashier picks from may be old,
\* but never so old that the order of the billing screen has no items.
BillingNeverEmpty == screen.name = "billing" => rows[screen.route].items # {}

BillCalls == {i \in DOMAIN calls : calls[i].op \in {"preview", "settle"}}

\* When the answers are in, the billing screen shows the bill of its own order and
\* the amount that the order owes or was settled with, though the store takes the
\* answer of every preview and settlement, those of the screen's last visit too.
BillIsTrue ==
  screen.name = "billing" /\ BillCalls = {} =>
    /\ ~screen.loading
    /\ LET o == screen.route
       IN  screen.bill = [order |-> o, settled |-> o \in Settled,
                          amount |-> IF o \in Settled THEN paid[o] ELSE Total(rows[o])]

\* Buttons disabled while an order or a table is opened come back: as long as they are
\* disabled a call is under way whose chain ends with leaving the screen, and every
\* call is answered, whatever else is pressed meanwhile.
BusyHasCall ==
  screen.busy => \E i \in DOMAIN calls : calls[i].chain \in {"seat", "seated", "leave"}

\* Order items are not changed once the order is settled: what was paid for is what
\* the order holds.
PaidForAll == \A o \in Settled : paid[o] = Total(rows[o])
=============================================================================
