---------------------------- MODULE OrdersProofs ----------------------------
(***************************************************************************)
(* Theorems about Orders for every set of orders, order types, tables,     *)
(* waiters and totals, with crashes or without.                            *)
(***************************************************************************)
EXTENDS Orders, TLAPS

\* An order that is not placed yet will start with a total that is right.
StartsRight == \A o \in Orders \ Placed : orders[o].total = orders[o].worth

\* The inductive invariant.  What a header was before hardly matters: every
\* operation that comes to its end writes the total anew, and resolves the status
\* from the one thing it must agree with.
OrdersInv == OrdersTypeOK /\ WholeRowsAgree /\ StartsRight

LEMMA OrdersInvInitially == OrdersInit => OrdersInv
BY OrdersAssumption
DEF OrdersInit, OrdersInv, OrdersTypeOK, WholeRowsAgree, StartsRight, Placed

\* The end of an operation on order o, which had left row in its header.
LEMMA RecalculateKeepsInv ==
  ASSUME OrdersInv, NEW o \in Placed, NEW row \in Order, row.status \in {"draft", "active", "held"},
         ~row.filled => row.worth = 0,
         NEW status \in {"draft", "active", "held"},
         Recalculate(o, row, status),
         held' \subseteq held \cup {o}, \A p \in held : p # o => p \in held',
         torn' \subseteq torn, \A p \in torn : p # o => p \in torn',
         o \in torn' \/ (o \in held' <=> status = "held")
  PROVE  OrdersInv'
<1> DEFINE done == [row EXCEPT !.total = row.worth, !.status = status]
<1>1. /\ done \in Order
      /\ done.status = status /\ done.total = row.worth
      /\ done.worth = row.worth /\ done.filled = row.filled
  BY DEF Order
<1>2. orders' = [orders EXCEPT ![o] = done]
  BY DEF Recalculate
<1> HIDE DEF done
<1>3. o \in Orders /\ orders \in [Orders -> Order]
  BY DEF OrdersInv, OrdersTypeOK, Placed
<1>4. orders' \in [Orders -> Order]
  BY <1>1, <1>2, <1>3
<1>5. \A p \in Orders : orders'[p] = IF p = o THEN done ELSE orders[p]
  BY <1>2, <1>3
<1>6. Placed' = Placed
  BY <1>1, <1>3, <1>5 DEF Placed
<1>7. OrdersTypeOK'
  <2>1. held' \subseteq Placed' /\ torn' \subseteq Placed'
    BY <1>6 DEF OrdersInv, OrdersTypeOK
  <2>2. \A p \in Orders : ~orders'[p].filled => orders'[p].worth = 0
    BY <1>1, <1>5 DEF OrdersInv, OrdersTypeOK
  <2>3. QED
    BY <1>4, <2>1, <2>2 DEF OrdersTypeOK
<1>8. ASSUME NEW p \in Placed' \ torn'
      PROVE  RowsAgree(p)'
  <2>1. CASE p = o
    BY <1>1, <1>3, <1>5, <2>1 DEF RowsAgree
  <2>2. CASE p # o
    <3>1. p \in Placed \ torn /\ p \in Orders
      BY <1>6, <1>8, <2>2 DEF Placed
    <3>2. RowsAgree(p)
      BY <3>1 DEF OrdersInv, WholeRowsAgree
    <3>3. p \in held' <=> p \in held
      BY <2>2
    <3>4. orders'[p] = orders[p]
      BY <1>5, <2>2, <3>1
    <3>5. QED
      BY <3>2, <3>3, <3>4 DEF RowsAgree
  <2>3. QED
    BY <2>1, <2>2
<1>9. StartsRight'
  BY <1>5, <1>6 DEF OrdersInv, StartsRight, Placed
<1>10. QED
  BY <1>7, <1>8, <1>9 DEF OrdersInv, WholeRowsAgree

\* An operation on order o that was cut short.
LEMMA CutShortKeepsInv ==
  ASSUME OrdersInv, NEW o \in Placed, NEW row \in Order, row.status = orders[o].status,
         ~row.filled => row.worth = 0,
         CutShort(o, row),
         held' \subseteq held \cup {o}, \A p \in held : p # o => p \in held'
  PROVE  OrdersInv'
<1>1. orders' = [orders EXCEPT ![o] = row] /\ torn' = torn \cup {o}
  BY DEF CutShort
<1>2. o \in Orders /\ orders \in [Orders -> Order]
  BY DEF OrdersInv, OrdersTypeOK, Placed
<1>3. \A p \in Orders : orders'[p] = IF p = o THEN row ELSE orders[p]
  BY <1>1, <1>2
<1>4. Placed' = Placed
  BY <1>2, <1>3 DEF Placed
<1>5. OrdersTypeOK'
  <2>1. orders' \in [Orders -> Order]
    BY <1>1, <1>2
  <2>2. held' \subseteq Placed' /\ torn' \subseteq Placed'
    BY <1>1, <1>4 DEF OrdersInv, OrdersTypeOK
  <2>3. \A p \in Orders : ~orders'[p].filled => orders'[p].worth = 0
    BY <1>3 DEF OrdersInv, OrdersTypeOK
  <2>4. QED
    BY <2>1, <2>2, <2>3 DEF OrdersTypeOK
<1>6. ASSUME NEW p \in Placed' \ torn'
      PROVE  RowsAgree(p)'
  <2>1. p \in Placed \ torn /\ p # o /\ p \in Orders
    BY <1>1, <1>4, <1>6 DEF Placed
  <2>2. RowsAgree(p) /\ orders'[p] = orders[p] /\ (p \in held' <=> p \in held)
    BY <1>3, <2>1 DEF OrdersInv, WholeRowsAgree
  <2>3. QED
    BY <2>2 DEF RowsAgree
<1>7. StartsRight'
  BY <1>3, <1>4 DEF OrdersInv, StartsRight, Placed
<1>8. QED
  BY <1>5, <1>6, <1>7 DEF OrdersInv, WholeRowsAgree

\* A header that an operation other than hold and recall has changed.
LEMMA ChangeKeepsInv ==
  ASSUME OrdersInv, NEW o \in Orders, NEW row \in Order, row.status = orders[o].status,
         ~row.filled => row.worth = 0, Change(o, row)
  PROVE  OrdersInv'
<1>1. o \in Placed /\ held' = held
  BY DEF Change
<1>2. row.status \in {"draft", "active", "held"}
  BY <1>1 DEF Placed, Order
<1>3. CASE Recalculate(o, row, ResolveStatus(row)) /\ UNCHANGED torn
  <2>1. ResolveStatus(row) \in {"draft", "active", "held"}
        /\ (ResolveStatus(row) = "held" <=> row.status = "held")
    BY DEF ResolveStatus
  <2>2. o \in torn \/ (o \in held <=> row.status = "held")
    BY <1>1 DEF OrdersInv, WholeRowsAgree, RowsAgree
  <2>3. QED
    BY <1>1, <1>2, <1>3, <2>1, <2>2, RecalculateKeepsInv
<1>4. CASE CutShort(o, row)
  BY <1>1, <1>4, CutShortKeepsInv
<1>5. QED
  BY <1>3, <1>4 DEF Change

LEMMA OrderStepKeepsInv ==
  ASSUME OrdersInv, NEW o \in Orders, OrderStep(o)
  PROVE  OrdersInv'
<1>1. PICK row \in Order : row = orders[o] /\ (~row.filled => row.worth = 0)
  BY DEF OrdersInv, OrdersTypeOK
<1>2. CASE CreateDraft(o)
  <2>1. [row EXCEPT !.status = "draft"] \in Order
    BY DEF Order
  <2>2. orders' = [orders EXCEPT ![o] = [row EXCEPT !.status = "draft"]]
        /\ held' = held /\ torn' = torn /\ o \notin Placed
    BY <1>1, <1>2 DEF CreateDraft
  <2> DEFINE new == [row EXCEPT !.status = "draft"]
  <2>3. new \in Order /\ new.status = "draft" /\ new.total = row.total /\ new.worth = row.worth
        /\ new.filled = row.filled
    BY DEF Order
  <2> HIDE DEF new
  <2>4. orders \in [Orders -> Order] /\ held \subseteq Placed /\ torn \subseteq Placed
    BY DEF OrdersInv, OrdersTypeOK
  <2>5. \A p \in Orders : orders'[p] = IF p = o THEN new ELSE orders[p]
    BY <2>2, <2>4 DEF new
  <2>6. Placed' = Placed \cup {o}
    BY <2>3, <2>5 DEF Placed
  <2>7. OrdersTypeOK'
    <3>1. orders' \in [Orders -> Order]
      BY <2>2, <2>3, <2>4 DEF new
    <3>2. \A p \in Orders : ~orders'[p].filled => orders'[p].worth = 0
      BY <1>1, <2>3, <2>5 DEF OrdersInv, OrdersTypeOK
    <3>3. QED
      BY <2>2, <2>4, <2>6, <3>1, <3>2 DEF OrdersTypeOK
  <2>8. row.total = row.worth
    BY <1>1, <2>2 DEF OrdersInv, StartsRight
  <2>9. ASSUME NEW p \in Placed' \ torn' PROVE RowsAgree(p)'
    <3>1. CASE p = o
      BY <2>2, <2>3, <2>4, <2>5, <2>8, <3>1 DEF RowsAgree
    <3>2. CASE p # o
      <4>1. p \in Placed \ torn /\ p \in Orders
        BY <2>2, <2>6, <2>9, <3>2 DEF Placed
      <4>2. RowsAgree(p) /\ orders'[p] = orders[p]
        BY <2>5, <3>2, <4>1 DEF OrdersInv, WholeRowsAgree
      <4>3. QED
        BY <2>2, <4>2 DEF RowsAgree
    <3>3. QED
      BY <3>1, <3>2
  <2>10. StartsRight'
    BY <2>5, <2>6 DEF OrdersInv, StartsRight
  <2>11. QED
    BY <2>7, <2>9, <2>10 DEF OrdersInv, WholeRowsAgree
<1>3. CASE EditItems(o)
  <2>1. PICK filled \in BOOLEAN, worth \in Totals :
          (~filled => worth = 0) /\ Change(o, [row EXCEPT !.filled = filled, !.worth = worth])
    BY <1>1, <1>3 DEF EditItems
  <2>2. LET new == [row EXCEPT !.filled = filled, !.worth = worth]
        IN  new \in Order /\ new.status = row.status /\ (~new.filled => new.worth = 0)
    BY <2>1 DEF Order
  <2>3. QED
    BY <1>1, <2>1, <2>2, ChangeKeepsInv
<1>4. CASE SetOrderType(o)
  <2>1. PICK type \in OrderTypes : Change(o, [row EXCEPT !.type = type])
    BY <1>1, <1>4 DEF SetOrderType
  <2>2. LET new == [row EXCEPT !.type = type]
        IN  new \in Order /\ new.status = row.status /\ (~new.filled => new.worth = 0)
    BY <1>1 DEF Order
  <2>3. QED
    BY <1>1, <2>1, <2>2, ChangeKeepsInv
<1>5. CASE SetTable(o)
  <2>1. PICK table \in Tables \cup {NoTable} : Change(o, [row EXCEPT !.table = table])
    BY <1>1, <1>5 DEF SetTable
  <2>2. LET new == [row EXCEPT !.table = table]
        IN  new \in Order /\ new.status = row.status /\ (~new.filled => new.worth = 0)
    BY <1>1 DEF Order
  <2>3. QED
    BY <1>1, <2>1, <2>2, ChangeKeepsInv
<1>6. CASE SetWaiter(o)
  <2>1. PICK waiter \in Waiters \cup {NoWaiter} : Change(o, [row EXCEPT !.waiter = waiter])
    BY <1>1, <1>6 DEF SetWaiter
  <2>2. LET new == [row EXCEPT !.waiter = waiter]
        IN  new \in Order /\ new.status = row.status /\ (~new.filled => new.worth = 0)
    BY <1>1 DEF Order
  <2>3. QED
    BY <1>1, <2>1, <2>2, ChangeKeepsInv
<1>7. CASE Hold(o) \/ Recall(o)
  <2>1. o \in Placed /\ row.status \in {"draft", "active", "held"}
    BY <1>1, <1>7 DEF Hold, CanHold, Recall, Placed, Order
  <2>2. held' \subseteq held \cup {o} /\ \A p \in held : p # o => p \in held'
    BY <1>7 DEF Hold, Recall
  <2>3. CASE CutShort(o, row)
    BY <1>1, <2>1, <2>2, <2>3, CutShortKeepsInv
  <2>4. CASE torn' = torn \ {o} /\ Recalculate(o, row, "held") /\ o \in held'
    BY <1>1, <2>1, <2>2, <2>4, RecalculateKeepsInv
  <2>5. CASE torn' = torn \ {o} /\ Recalculate(o, row, "active") /\ o \notin held'
    BY <1>1, <2>1, <2>2, <2>5, RecalculateKeepsInv
  <2>6. QED
    BY <1>1, <1>7, <2>3, <2>4, <2>5 DEF Hold, Recall
<1>8. QED
  BY <1>2, <1>3, <1>4, <1>5, <1>6, <1>7 DEF OrderStep

LEMMA OrdersInvAlways == OrdersSpec => []OrdersInv
<1>1. OrdersInv /\ [OrdersNext]_ordersVars => OrdersInv'
  <2>1. OrdersInv /\ UNCHANGED ordersVars => OrdersInv'
    BY DEF ordersVars, OrdersInv, OrdersTypeOK, WholeRowsAgree, StartsRight, RowsAgree, Placed
  <2>2. QED
    BY <2>1, OrderStepKeepsInv DEF OrdersNext
<1>2. QED
  BY <1>1, OrdersInvInitially, PTL DEF OrdersSpec

\* The stored total is what the items amount to and the held state agrees in
\* both tables, for every order on which no operation was cut short since the
\* last hold or recall.
THEOREM WholeRowsAgreeAlways == OrdersSpec => []WholeRowsAgree
<1>1. OrdersInv => WholeRowsAgree
  BY DEF OrdersInv
<1>2. QED
  BY <1>1, OrdersInvAlways, PTL

\* No such order with items is missing from both lists or shown in both.
THEOREM ListedOnceAlways == OrdersSpec => []ListedOnce
<1>1. OrdersInv => ListedOnce
  <2> SUFFICES ASSUME OrdersInv, NEW o \in Placed \ torn, orders[o].filled
               PROVE  o \in Held <=> o \notin Running
    BY DEF ListedOnce
  <2>1. orders[o].status \in {"draft", "active", "held"}
    BY DEF OrdersInv, OrdersTypeOK, Placed, Order
  <2>2. o \in held <=> orders[o].status = "held"
    BY DEF OrdersInv, WholeRowsAgree, RowsAgree
  <2>3. QED
    BY <2>1, <2>2 DEF Held, Running
<1>2. QED
  BY <1>1, OrdersInvAlways, PTL
=============================================================================
