------------------------------- MODULE Orders -------------------------------
(***************************************************************************)
(* Order headers: the life of an order from draft to held and back         *)
(* (electron/services/order-service.ts), and the two lists a cashier finds *)
(* it in again (listRunning and listHeld).                                 *)
(*                                                                         *)
(* An operation runs to its end on the main thread but is no transaction:  *)
(* it writes the items, the table or the held_orders row, each statement   *)
(* on its own, and last the totals and the status (recalculateAndBuild).   *)
(* With Crashes the process may end before that last write.                *)
(*                                                                         *)
(* The items and the discount appear as what the totals are computed from: *)
(* whether there are items, and the grand total they amount to.            *)
(***************************************************************************)
EXTENDS Integers

CONSTANTS
  Orders,             \* orders.uuid values
  OrderTypes,         \* the order types used: dine_in, takeaway, delivery
  Tables, NoTable,    \* tables.uuid values, and null
  Waiters, NoWaiter,  \* waiters.uuid values, and null
  Totals,             \* grand totals that items and discount may amount to
  Crashes             \* may the process end between two writes of an operation?

ASSUME OrdersAssumption ==
  /\ OrderTypes # {}
  /\ NoTable \notin Tables
  /\ NoWaiter \notin Waiters
  /\ Totals \subseteq Nat
  /\ 0 \in Totals
  /\ Crashes \in BOOLEAN

VARIABLES
  orders,  \* the order headers, with what their items amount to
  held,    \* the orders with a row in held_orders
  torn     \* history: the orders an operation was cut short on since the last
           \* hold or recall that came to its end

ordersVars == <<orders, held, torn>>

Order ==
  [type : OrderTypes, status : {"none", "draft", "active", "held"},
   table : Tables \cup {NoTable}, waiter : Waiters \cup {NoWaiter},
   filled : BOOLEAN, worth : Totals,    \* there are items; computeOrderTotals of them
   total : Totals]                      \* grand_total_minor as stored

Placed == {o \in Orders : orders[o].status # "none"}

OrdersTypeOK ==
  /\ orders \in [Orders -> Order]
  /\ held \subseteq Placed
  /\ torn \subseteq Placed
  /\ \A o \in Orders : ~orders[o].filled => orders[o].worth = 0

OrdersInit ==
  /\ orders \in [Orders -> {row \in Order : /\ row.status = "none"
                                             /\ row.table = NoTable /\ row.waiter = NoWaiter
                                             /\ ~row.filled
                                             /\ row.worth = 0 /\ row.total = 0}]
  /\ held = {}
  /\ torn = {}

-----------------------------------------------------------------------------
CreateDraft(o) ==
  /\ o \notin Placed
  /\ orders' = [orders EXCEPT ![o].status = "draft"]
  /\ UNCHANGED <<held, torn>>

\* A mutant: an edit takes an order out of its held state.
ResolveStatusForgetsHeld(row) == IF row.filled THEN "active" ELSE "draft"

ResolveStatus(row) ==
  IF row.status = "held" THEN "held" ELSE IF row.filled THEN "active" ELSE "draft"

\* The last writes of an operation, recalculateAndBuild: row is what its own
\* statements left.
Recalculate(o, row, status) ==
  orders' = [orders EXCEPT ![o] = [row EXCEPT !.total = row.worth, !.status = status]]

\* The process ends before the last write.
CutShort(o, row) ==
  /\ Crashes
  /\ orders' = [orders EXCEPT ![o] = row]
  /\ torn' = torn \cup {o}

Change(o, row) ==
  /\ o \in Placed
  /\ UNCHANGED held
  /\ \/ Recalculate(o, row, ResolveStatus(row)) /\ UNCHANGED torn
     \/ CutShort(o, row)

\* addItem, updateItemQuantity, removeItem, setItemVariant, setItemModifiers,
\* applyDiscount and removeDiscount: any of them may change what the order
\* amounts to, and the first three whether it has items.  setItemNote and
\* setCustomer change nothing of it and compute the totals anew.
EditItems(o) ==
  \E filled \in BOOLEAN, worth \in Totals :
    /\ ~filled => worth = 0
    /\ Change(o, [orders[o] EXCEPT !.filled = filled, !.worth = worth])

SetOrderType(o) ==
  \E type \in OrderTypes : Change(o, [orders[o] EXCEPT !.type = type])

SetTable(o) ==
  \E table \in Tables \cup {NoTable} : Change(o, [orders[o] EXCEPT !.table = table])

SetWaiter(o) ==
  \E waiter \in Waiters \cup {NoWaiter} : Change(o, [orders[o] EXCEPT !.waiter = waiter])

CanHold(o) ==
  /\ o \in Placed
  /\ orders[o].type = "dine_in" =>
       orders[o].table # NoTable /\ orders[o].waiter # NoWaiter

Hold(o) ==
  /\ CanHold(o)
  /\ held' = held \cup {o}
  /\ \/ Recalculate(o, orders[o], "held") /\ torn' = torn \ {o}
     \/ CutShort(o, orders[o])

\* A mutant: the status is resolved from the header, where it is still held.
RecallKeepsStatus(o) ==
  /\ o \in Placed
  /\ held' = held \ {o}
  /\ \/ Recalculate(o, orders[o], ResolveStatus(orders[o])) /\ torn' = torn \ {o}
     \/ CutShort(o, orders[o])

\* Nothing asks whether the order is held.
Recall(o) ==
  /\ o \in Placed
  /\ held' = held \ {o}
  /\ \/ Recalculate(o, orders[o], "active") /\ torn' = torn \ {o}
     \/ CutShort(o, orders[o])

OrderStep(o) ==
  \/ CreateDraft(o)
  \/ EditItems(o)
  \/ SetOrderType(o)
  \/ SetTable(o)
  \/ SetWaiter(o)
  \/ Hold(o)
  \/ Recall(o)

OrdersNext == \E o \in Orders : OrderStep(o)

OrdersSpec == OrdersInit /\ [][OrdersNext]_ordersVars

-----------------------------------------------------------------------------
\* listRunning, before settled orders are left out.
Running ==
  {o \in Placed : /\ orders[o].status \in {"draft", "active"}
                  /\ orders[o].filled \/ orders[o].table # NoTable}

\* listHeld joins held_orders with orders and asks nothing about the status.
Held == held \cap Placed

RowsAgree(o) ==
  /\ orders[o].total = orders[o].worth
  /\ o \in held <=> orders[o].status = "held"

\* What the writes of an order say agrees: the stored total is what its items
\* amount to, and the status is held exactly for the orders with a row in
\* held_orders.  Settlement charges the stored total without computing it anew.
OrderRowsAgree == \A o \in Placed : RowsAgree(o)

\* They agree however an order is edited, held and recalled, as long as every
\* operation comes to its end; after one was cut short the next hold or recall
\* makes them agree again.
WholeRowsAgree == \A o \in Placed \ torn : RowsAgree(o)

\* An order with items, if no operation on it was cut short, is in exactly one
\* of the two lists: a cashier can find it again, and finds it once.
ListedOnce ==
  \A o \in Placed \ torn : orders[o].filled => (o \in Held <=> o \notin Running)
=============================================================================
