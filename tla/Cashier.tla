------------------------------- MODULE Cashier -------------------------------
(***************************************************************************)
(* The till: cash shifts (electron/services/shift-service.ts and           *)
(* electron/repositories/shift-repository.ts) and the settlement of orders *)
(* (electron/services/billing-service.ts and                               *)
(* electron/repositories/billing-repository.ts).                           *)
(*                                                                         *)
(* Settlement is one transaction and opening and closing a shift write one *)
(* row, so each is one action; the terminal is the session's.  Orders go   *)
(* on changing before and after they are settled (module Orders): nothing  *)
(* in the order service looks for a bill.                                  *)
(***************************************************************************)
EXTENDS Orders, SequencesExt

CONSTANTS
  Terminals,    \* terminals.uuid values
  OpeningCash,  \* cash declared when a shift is opened
  CountedCash,  \* cash counted when a shift is closed
  Modes,        \* payment modes used, "cash" among them
  MaxAmount,    \* bound on the amount of a payment and on the cash received
  MaxPayments,  \* bound on the payments of one settlement
  MaxShifts     \* bound on the number of shifts

ASSUME CashierAssumption ==
  /\ OpeningCash \subseteq Nat
  /\ CountedCash \subseteq Nat
  /\ "cash" \in Modes
  /\ MaxAmount \in Nat
  /\ MaxPayments \in Nat
  /\ MaxShifts \in Nat

VARIABLES
  shifts,  \* cash_shifts, in the order of insertion (id)
  bills    \* bills[o]: the bill of order o, with its payments

tillVars == <<shifts, bills>>
vars == <<orders, held, torn, shifts, bills>>

Shift ==
  [terminal : Terminals, open : BOOLEAN, opening : OpeningCash,
   expected : Int, counted : Nat, difference : Int]

\* A payment as it is entered and stored; received is 0 when it is not given.
Payment == [mode : Modes, amount : 1 .. MaxAmount, received : 0 .. MaxAmount]

Bill == [settled : BOOLEAN, shift : Nat, total : Totals, paid : Totals, payments : Seq(Payment)]

NoBill == [settled |-> FALSE, shift |-> 0, total |-> 0, paid |-> 0, payments |-> <<>>]

Settled == {o \in Orders : bills[o].settled}

-----------------------------------------------------------------------------
\* The amounts of a list of payments.
Amount(payments) == FoldLeft(LAMBDA sum, p : sum + p.amount, 0, payments)

\* change_minor: only of cash, and only when the cash received is given.
ChangeOf(p) ==
  IF p.mode = "cash" /\ p.received > p.amount THEN p.received - p.amount ELSE 0

\* What cashSales adds up for one bill.
CashOf(payments) ==
  FoldLeft(LAMBDA sum, p : IF p.mode = "cash" THEN sum + p.amount - ChangeOf(p) ELSE sum,
           0, payments)

SettledIn(s) == {o \in Settled : bills[o].shift = s}

Sum(amounts) == FoldFunction(+, 0, amounts)

\* cashSales: the cash of the settled bills of shift s.
CashSales(s) == Sum([o \in SettledIn(s) |-> CashOf(bills[o].payments)])

\* What the shift read model shows as expected cash, and close stores.
ExpectedCash(s) == shifts[s].opening + CashSales(s)

\* A mutant: the newest shift of a terminal, open or not.
ShiftsOf(t) == {s \in DOMAIN shifts : shifts[s].terminal = t}

OpenShifts(t) == {s \in DOMAIN shifts : shifts[s].terminal = t /\ shifts[s].open}

\* getOpen: the newest open shift of the terminal.
IsCurrent(t, s) == s \in OpenShifts(t) /\ \A u \in OpenShifts(t) : u <= s

-----------------------------------------------------------------------------
\* A mutant: a terminal may open a second shift.
CanOpenAgain(t) == Len(shifts) < MaxShifts

CanOpen(t) == OpenShifts(t) = {} /\ Len(shifts) < MaxShifts

OpenShift(t) ==
  /\ CanOpen(t)
  /\ \E opening \in OpeningCash :
       shifts' = Append(shifts, [terminal |-> t, open |-> TRUE, opening |-> opening,
                                 expected |-> opening, counted |-> 0, difference |-> 0])
  /\ UNCHANGED <<orders, held, torn, bills>>

CloseShift(t) ==
  /\ \E s \in DOMAIN shifts, counted \in CountedCash :
       /\ IsCurrent(t, s)
       /\ shifts' = [shifts EXCEPT ![s] =
                       [terminal |-> t, open |-> FALSE, opening |-> @.opening,
                        expected |-> ExpectedCash(s), counted |-> counted,
                        difference |-> counted - ExpectedCash(s)]]
  /\ UNCHANGED <<orders, held, torn, bills>>

\* A mutant: it is enough that the payments cover the total.
PaymentsCover(o, payments) == Amount(payments) >= orders[o].total

\* The payments are exactly the stored total of the order, and cash received
\* covers its payment.
PaymentsFit(o, payments) ==
  /\ Amount(payments) = orders[o].total
  /\ \A i \in DOMAIN payments :
       LET p == payments[i]
       IN  p.mode = "cash" /\ p.received # 0 => p.received >= p.amount

\* A mutant: a settled order may be settled again.
CanSettleAgain(o) == o \in Placed /\ orders[o].filled

CanSettle(o) ==
  /\ o \in Placed
  /\ orders[o].filled
  /\ o \notin Settled

\* The lists of payments that can be entered; cash received is given for cash.
Entered ==
  LET one == {p \in Payment : p.mode # "cash" => p.received = 0}
  IN  UNION {[1 .. n -> one] : n \in 1 .. MaxPayments}

\* A mutant: the bill is written without its shift.
BillWithoutShift(o, s) ==
  [settled |-> FALSE, shift |-> 0, total |-> orders[o].total, paid |-> 0, payments |-> <<>>]

\* The bill to be paid: the one of the order, else a new one in shift s.
BillOf(o, s) ==
  IF o \in Settled
  THEN bills[o]
  ELSE [settled |-> FALSE, shift |-> s, total |-> orders[o].total, paid |-> 0,
        payments |-> <<>>]

Settle(t, o) ==
  /\ CanSettle(o)
  /\ \E s \in DOMAIN shifts, payments \in Entered :
       /\ IsCurrent(t, s)
       /\ PaymentsFit(o, payments)
       /\ LET bill == BillOf(o, s)
          IN  bills' = [bills EXCEPT ![o] =
                          [settled |-> TRUE, shift |-> bill.shift, total |-> bill.total,
                           paid |-> Amount(payments), payments |-> bill.payments \o payments]]
  /\ UNCHANGED <<orders, held, torn, shifts>>

EditOrder(o) == OrderStep(o) /\ UNCHANGED tillVars

Init ==
  /\ OrdersInit
  /\ shifts = <<>>
  /\ bills = [o \in Orders |-> NoBill]

Next ==
  \/ \E t \in Terminals :
       \/ OpenShift(t)
       \/ CloseShift(t)
       \/ \E o \in Orders : Settle(t, o)
  \/ \E o \in Orders : EditOrder(o)

Spec == Init /\ [][Next]_vars

-----------------------------------------------------------------------------
\* Types; a settled bill belongs to a shift that exists.
TypeOK ==
  /\ OrdersTypeOK
  /\ shifts \in Seq(Shift)
  /\ bills \in [Orders -> Bill]
  /\ \A o \in Settled : bills[o].shift \in DOMAIN shifts

\* A terminal never has two open shifts, so the bills of the terminal cannot
\* be split over two counts of the same drawer (getOpen would show one only).
OneOpenShift ==
  \A s, u \in DOMAIN shifts :
    shifts[s].open /\ shifts[u].open /\ shifts[s].terminal = shifts[u].terminal => s = u

\* The expected cash and the difference stored when a shift was closed stay
\* what the read model computes from the bills each time the shift is shown: no
\* bill joins or leaves a closed shift, and none of its payments changes.
ClosedBooksStay ==
  \A s \in DOMAIN shifts : ~shifts[s].open =>
    /\ shifts[s].expected = ExpectedCash(s)
    /\ shifts[s].difference = shifts[s].counted - ExpectedCash(s)

\* A settled bill is paid in full and by its payments: none was added by a
\* second settlement, whatever the order was changed to in the meantime.
BillAddsUp ==
  \A o \in Settled :
    /\ bills[o].paid = bills[o].total
    /\ Amount(bills[o].payments) = bills[o].total

\* Settled bills, their payments and closed shifts never change again: edits of
\* the order, of the shift and later settlements leave them alone.
RecordsNeverChange ==
  [][ /\ \A o \in Settled : bills'[o] = bills[o]
      /\ \A s \in DOMAIN shifts : ~shifts[s].open => shifts'[s] = shifts[s] ]_vars

\* The cash that a payment leaves in the drawer: what was handed over, the
\* amount when it was not entered, less the change given.
LeftInDrawer(p) ==
  IF p.mode # "cash" THEN 0
  ELSE (IF p.received = 0 THEN p.amount ELSE p.received) - ChangeOf(p)

DrawerCash(s) ==
  shifts[s].opening +
  Sum([o \in SettledIn(s) |->
         FoldLeft(LAMBDA sum, p : sum + LeftInDrawer(p), 0, bills[o].payments)])

\* The expected cash of a shift is what lies in the drawer when nobody erred:
\* counting exactly that closes the shift with a difference of zero.
ExpectedIsInDrawer == \A s \in DOMAIN shifts : ExpectedCash(s) = DrawerCash(s)
=============================================================================
