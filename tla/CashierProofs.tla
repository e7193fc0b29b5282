---------------------------- MODULE CashierProofs ----------------------------
(***************************************************************************)
(* Theorems about the till for every set of orders, terminals, payment     *)
(* modes and amounts.  What a list of payments amounts to is the result of *)
(* a fold; the theorems about the books use only that it depends on the    *)
(* payments alone, the types that it is a number.                          *)
(***************************************************************************)
EXTENDS Cashier, OrdersProofs, DataTheorems

\* What the properties of the books need to know of the rows.
ShiftRows == \E S : shifts \in Seq(S)

BillRows ==
  /\ DOMAIN bills = Orders
  /\ \A o \in Settled : bills[o].shift \in DOMAIN shifts

-----------------------------------------------------------------------------
(***************************************************************************)
(* The steps of the specification, by what they do to shifts and bills.    *)
(***************************************************************************)

Opened(t, row) ==
  /\ OpenShifts(t) = {}
  /\ row.terminal = t /\ row.open
  /\ shifts' = Append(shifts, row)
  /\ bills' = bills

Closed(s, row) ==
  /\ shifts[s].open /\ ~row.open
  /\ row.terminal = shifts[s].terminal
  /\ row.opening = shifts[s].opening
  /\ row.expected = ExpectedCash(s)
  /\ row.difference = row.counted - ExpectedCash(s)
  /\ shifts' = [shifts EXCEPT ![s] = row]
  /\ bills' = bills

Paid(o, s, bill) ==
  /\ o \notin Settled
  /\ shifts[s].open
  /\ bill.settled
  /\ bill.shift = s
  /\ bill.paid = bill.total /\ Amount(bill.payments) = bill.total
  /\ bills' = [bills EXCEPT ![o] = bill]
  /\ shifts' = shifts

\* A new bill holds exactly the payments that were entered.
LEMMA EnteredOnly ==
  ASSUME NEW payments \in Entered
  PROVE  <<>> \o payments = payments
<1> DEFINE one == {p \in Payment : p.mode # "cash" => p.received = 0}
<1>1. PICK n \in 1 .. MaxPayments : payments \in [1 .. n -> one]
  BY DEF Entered
<1>2. n \in Nat /\ payments \in Seq(one)
  BY <1>1, CashierAssumption
<1> HIDE DEF one
<1>3. QED
  BY <1>2

LEMMA StepCases ==
  ASSUME [Next]_vars
  PROVE  \/ UNCHANGED <<shifts, bills>>
         \/ \E t \in Terminals : \E row : Opened(t, row)
         \/ \E s \in DOMAIN shifts : \E row : Closed(s, row)
         \/ \E o \in Orders, s \in DOMAIN shifts : \E bill : Paid(o, s, bill)
<1>1. ASSUME NEW t \in Terminals, OpenShift(t)
      PROVE  \E row : Opened(t, row)
  <2>1. PICK opening \in OpeningCash :
          shifts' = Append(shifts, [terminal |-> t, open |-> TRUE, opening |-> opening,
                                    expected |-> opening, counted |-> 0, difference |-> 0])
    BY <1>1 DEF OpenShift
  <2> DEFINE row == [terminal |-> t, open |-> TRUE, opening |-> opening,
                     expected |-> opening, counted |-> 0, difference |-> 0]
  <2>2. OpenShifts(t) = {} /\ bills' = bills
    BY <1>1 DEF OpenShift, CanOpen
  <2>3. Opened(t, row)
    BY <2>1, <2>2 DEF Opened
  <2>4. QED
    BY <2>3
<1>2. ASSUME NEW t \in Terminals, CloseShift(t)
      PROVE  \E s \in DOMAIN shifts : \E row : Closed(s, row)
  <2>1. PICK s \in DOMAIN shifts, counted \in CountedCash :
          /\ shifts[s].terminal = t /\ shifts[s].open
          /\ shifts' = [shifts EXCEPT ![s] =
                          [terminal |-> t, open |-> FALSE, opening |-> shifts[s].opening,
                           expected |-> ExpectedCash(s), counted |-> counted,
                           difference |-> counted - ExpectedCash(s)]]
    BY <1>2 DEF CloseShift, IsCurrent, OpenShifts
  <2> DEFINE row == [terminal |-> t, open |-> FALSE, opening |-> shifts[s].opening,
                     expected |-> ExpectedCash(s), counted |-> counted,
                     difference |-> counted - ExpectedCash(s)]
  <2>2. Closed(s, row)
    BY <1>2, <2>1 DEF Closed, CloseShift
  <2>3. QED
    BY <2>2
<1>3. ASSUME NEW t \in Terminals, NEW o \in Orders, Settle(t, o)
      PROVE  \E s \in DOMAIN shifts : \E bill : Paid(o, s, bill)
  <2>1. PICK s \in DOMAIN shifts, payments \in Entered :
          /\ shifts[s].open
          /\ Amount(payments) = orders[o].total
          /\ bills' = [bills EXCEPT ![o] =
                         [settled |-> TRUE, shift |-> BillOf(o, s).shift,
                          total |-> BillOf(o, s).total, paid |-> Amount(payments),
                          payments |-> BillOf(o, s).payments \o payments]]
    BY <1>3 DEF Settle, IsCurrent, OpenShifts, PaymentsFit
  <2>2. o \notin Settled /\ shifts' = shifts
    BY <1>3 DEF Settle, CanSettle
  <2> DEFINE bill == [settled |-> TRUE, shift |-> s, total |-> orders[o].total,
                      paid |-> Amount(payments), payments |-> payments]
  <2>3. <<>> \o payments = payments
    BY EnteredOnly
  <2>4. BillOf(o, s) = [settled |-> FALSE, shift |-> s, total |-> orders[o].total,
                        paid |-> 0, payments |-> <<>>]
    BY <2>2 DEF BillOf
  <2>5. /\ BillOf(o, s).shift = s
        /\ BillOf(o, s).total = orders[o].total
        /\ BillOf(o, s).payments = <<>>
    BY <2>4
  <2>6. bills' = [bills EXCEPT ![o] = bill]
    BY <2>1, <2>3, <2>5
  <2>7. Paid(o, s, bill)
    BY <2>1, <2>2, <2>6 DEF Paid
  <2>8. QED
    BY <2>7
<1>4. QED
  BY <1>1, <1>2, <1>3 DEF Next, vars, EditOrder, tillVars

-----------------------------------------------------------------------------
(***************************************************************************)
(* The invariant: the till's rows, and the three properties of the books.  *)
(***************************************************************************)
Inv ==
  /\ ShiftRows
  /\ BillRows
  /\ OneOpenShift
  /\ ClosedBooksStay
  /\ BillAddsUp

LEMMA InitInv == Init => Inv
<1> SUFFICES ASSUME Init PROVE Inv
  OBVIOUS
<1>1. shifts = <<>> /\ DOMAIN shifts = {} /\ DOMAIN bills = Orders
  BY DEF Init
<1>2. \A o \in Orders : ~bills[o].settled
  BY DEF Init, NoBill
<1>3. Settled = {}
  BY <1>2 DEF Settled
<1>4. shifts \in Seq({})
  BY <1>1
<1>5. QED
  BY <1>1, <1>3, <1>4
     DEF Inv, ShiftRows, BillRows, OneOpenShift, ClosedBooksStay, BillAddsUp

\* The cash of a shift is a function of the payments of its bills.
LEMMA SameCash ==
  ASSUME NEW s, SettledIn(s)' = SettledIn(s),
         \A o \in SettledIn(s) : bills'[o] = bills[o]
  PROVE  CashSales(s)' = CashSales(s)
<1>1. [o \in SettledIn(s)' |-> CashOf(bills'[o].payments)]
        = [o \in SettledIn(s) |-> CashOf(bills[o].payments)]
  OBVIOUS
<1>2. QED
  BY <1>1 DEF CashSales

LEMMA UnchangedStep ==
  ASSUME Inv, UNCHANGED <<shifts, bills>>
  PROVE  Inv'
<1>1. Settled' = Settled
  BY DEF Settled
<1>2. \A s : SettledIn(s)' = SettledIn(s)
  BY <1>1 DEF SettledIn
<1>3. \A s : CashSales(s)' = CashSales(s)
  BY <1>2, SameCash
<1>4. \A s : ExpectedCash(s)' = ExpectedCash(s)
  BY <1>3 DEF ExpectedCash
<1>5. QED
  BY <1>1, <1>4 DEF Inv, ShiftRows, BillRows, OneOpenShift, ClosedBooksStay, BillAddsUp

\* The rows after one of the two steps that touch a shift.
LEMMA SameBills ==
  ASSUME bills' = bills
  PROVE  Settled' = Settled /\ \A s : CashSales(s)' = CashSales(s)
<1>1. Settled' = Settled
  BY DEF Settled
<1>2. \A s : SettledIn(s)' = SettledIn(s)
  BY <1>1 DEF SettledIn
<1>3. QED
  BY <1>1, <1>2, SameCash

LEMMA OpenedStep ==
  ASSUME Inv, NEW t, NEW row, Opened(t, row)
  PROVE  Inv'
<1>1. PICK S : shifts \in Seq(S)
  BY DEF Inv, ShiftRows
<1> DEFINE n == Len(shifts) + 1
<1>2. shifts \in Seq(S \cup {row})
  BY <1>1
<1>3. shifts' \in Seq(S \cup {row})
  BY <1>2 DEF Opened
<1>4. /\ DOMAIN shifts = 1 .. Len(shifts)
      /\ DOMAIN shifts' = 1 .. n
      /\ shifts'[n] = row
      /\ \A s \in DOMAIN shifts : s # n /\ shifts'[s] = shifts[s]
  BY <1>2 DEF Opened
<1>5. DOMAIN shifts' = DOMAIN shifts \cup {n}
  BY <1>1, <1>4
<1> HIDE DEF n
<1>6. Settled' = Settled /\ bills' = bills /\ \A s : CashSales(s)' = CashSales(s)
  BY SameBills DEF Opened
<1>7. OneOpenShift'
  BY <1>4, <1>5 DEF Inv, OneOpenShift, Opened, OpenShifts
<1>8. ClosedBooksStay'
  <2>1. SUFFICES ASSUME NEW s \in DOMAIN shifts', ~shifts'[s].open
                 PROVE  /\ shifts'[s].expected = ExpectedCash(s)'
                        /\ shifts'[s].difference = shifts'[s].counted - ExpectedCash(s)'
    BY DEF ClosedBooksStay
  <2>2. s \in DOMAIN shifts /\ shifts'[s] = shifts[s]
    BY <1>4, <1>5, <2>1 DEF Opened
  <2>3. ExpectedCash(s)' = ExpectedCash(s)
    BY <1>6, <2>2 DEF ExpectedCash
  <2>4. QED
    BY <2>1, <2>2, <2>3 DEF Inv, ClosedBooksStay
<1>9. BillRows' /\ BillAddsUp'
  BY <1>5, <1>6 DEF Inv, BillRows, BillAddsUp
<1>10. QED
  BY <1>3, <1>7, <1>8, <1>9 DEF Inv, ShiftRows

LEMMA ClosedStep ==
  ASSUME Inv, NEW c \in DOMAIN shifts, NEW row, Closed(c, row)
  PROVE  Inv'
<1>1. PICK S : shifts \in Seq(S)
  BY DEF Inv, ShiftRows
<1>2. shifts \in Seq(S \cup {row})
  BY <1>1
<1>3. shifts' \in Seq(S \cup {row})
  BY <1>2 DEF Closed
<1>4. /\ DOMAIN shifts' = DOMAIN shifts
      /\ shifts'[c] = row
      /\ \A s \in DOMAIN shifts : s # c => shifts'[s] = shifts[s]
  BY DEF Closed
<1>5. Settled' = Settled /\ bills' = bills /\ \A s : CashSales(s)' = CashSales(s)
  BY SameBills DEF Closed
<1>6. \A s \in DOMAIN shifts : shifts'[s].opening = shifts[s].opening
  BY <1>4 DEF Closed
<1>7. \A s \in DOMAIN shifts : ExpectedCash(s)' = ExpectedCash(s)
  BY <1>5, <1>6 DEF ExpectedCash
<1>8. OneOpenShift'
  BY <1>4 DEF Inv, OneOpenShift, Closed
<1>9. ClosedBooksStay'
  BY <1>4, <1>7 DEF Inv, ClosedBooksStay, Closed
<1>10. BillRows' /\ BillAddsUp'
  BY <1>4, <1>5 DEF Inv, BillRows, BillAddsUp
<1>11. QED
  BY <1>3, <1>8, <1>9, <1>10 DEF Inv, ShiftRows

\* Only the bill of the settled order changes, and its shift is open.
LEMMA PaidStep ==
  ASSUME Inv, NEW o \in Orders, NEW c \in DOMAIN shifts, NEW bill, Paid(o, c, bill)
  PROVE  Inv'
<1>1. /\ DOMAIN bills' = Orders
      /\ bills'[o] = bill
      /\ \A x \in Orders : x # o => bills'[x] = bills[x]
  BY DEF Paid, Inv, BillRows
<1>2. Settled' = Settled \cup {o}
  BY <1>1 DEF Settled, Paid
<1>3. \A x \in Settled : x \in Orders /\ x # o /\ bills'[x] = bills[x]
  BY <1>1 DEF Settled, Paid
<1>4. shifts' = shifts
  BY DEF Paid
<1>5. ShiftRows' /\ OneOpenShift'
  BY <1>4 DEF Inv, ShiftRows, OneOpenShift
<1>6. BillRows' /\ BillAddsUp'
  BY <1>1, <1>2, <1>3, <1>4 DEF Inv, BillRows, BillAddsUp, Paid
<1>7. ClosedBooksStay'
  <2>1. SUFFICES ASSUME NEW s \in DOMAIN shifts, ~shifts[s].open
                 PROVE  ExpectedCash(s)' = ExpectedCash(s)
    BY <1>4 DEF Inv, ClosedBooksStay
  <2>2. s # c
    BY <2>1 DEF Paid
  <2>3. SettledIn(s)' = SettledIn(s)
    BY <1>1, <1>2, <1>3, <2>2 DEF SettledIn, Paid
  <2>4. \A x \in SettledIn(s) : bills'[x] = bills[x]
    BY <1>3 DEF SettledIn
  <2>5. CashSales(s)' = CashSales(s)
    BY <2>3, <2>4, SameCash
  <2>6. QED
    BY <1>4, <2>5 DEF ExpectedCash
<1>8. QED
  BY <1>5, <1>6, <1>7 DEF Inv

LEMMA StepInv == Inv /\ [Next]_vars => Inv'
  BY StepCases, UnchangedStep, OpenedStep, ClosedStep, PaidStep

\* The invariant holds in every reachable state of the till.
THEOREM BooksKept == Spec => []Inv
<1>1. Init => Inv
  BY InitInv
<1>2. Inv /\ [Next]_vars => Inv'
  BY StepInv
<1>3. QED
  BY <1>1, <1>2, PTL DEF Spec

\* No terminal ever has two open shifts (shift-service.ts, open).
THEOREM OneOpenShiftAlways == Spec => []OneOpenShift
<1>1. Inv => OneOpenShift
  BY DEF Inv
<1>2. QED
  BY <1>1, BooksKept, PTL

\* The stored figures of a closed shift stay those its bills give: settlement
\* reaches open shifts only (billing-service.ts, settle; shift-repository.ts,
\* close).
THEOREM ClosedBooksStayAlways == Spec => []ClosedBooksStay
<1>1. Inv => ClosedBooksStay
  BY DEF Inv
<1>2. QED
  BY <1>1, BooksKept, PTL

\* A settled bill is always paid in full, by its payments.
THEOREM BillAddsUpAlways == Spec => []BillAddsUp
<1>1. Inv => BillAddsUp
  BY DEF Inv
<1>2. QED
  BY <1>1, BooksKept, PTL

\* No step changes a settled bill or a closed shift.
THEOREM RecordsNeverChangeAlways == Spec => RecordsNeverChange
<1> DEFINE Kept == /\ \A o \in Settled : bills'[o] = bills[o]
                   /\ \A s \in DOMAIN shifts : ~shifts[s].open => shifts'[s] = shifts[s]
<1>1. ASSUME Inv, [Next]_vars
      PROVE  Kept
  <2>1. CASE UNCHANGED <<shifts, bills>>
    BY <2>1
  <2>2. ASSUME NEW t \in Terminals, NEW row, Opened(t, row)
        PROVE  Kept
    <3>1. PICK S : shifts \in Seq(S)
      BY <1>1 DEF Inv, ShiftRows
    <3>2. shifts \in Seq(S \cup {row}) /\ shifts' = Append(shifts, row)
      BY <2>2, <3>1 DEF Opened
    <3>3. \A s \in DOMAIN shifts : shifts'[s] = shifts[s]
      BY <3>2
    <3>4. QED
      BY <2>2, <3>3 DEF Opened
  <2>3. ASSUME NEW s \in DOMAIN shifts, NEW row, Closed(s, row)
        PROVE  Kept
    BY <2>3 DEF Closed
  <2>4. ASSUME NEW o \in Orders, NEW s \in DOMAIN shifts, NEW bill, Paid(o, s, bill)
        PROVE  Kept
    BY <1>1, <2>4 DEF Paid, Inv, BillRows, Settled
  <2>5. QED
    BY <1>1, <2>1, <2>2, <2>3, <2>4, StepCases
<1>2. Inv /\ [Next]_vars => [Kept]_vars
  BY <1>1
<1>3. QED
  BY <1>2, BooksKept, PTL DEF Spec, RecordsNeverChange

-----------------------------------------------------------------------------
(***************************************************************************)
(* The types of the till.                                                  *)
(***************************************************************************)

\* What one payment adds to the cash, and one bill to the sum.
Takings(payments) ==
  [k \in DOMAIN payments |-> [v \in Int |->
     IF payments[k].mode = "cash" THEN v + payments[k].amount - ChangeOf(payments[k]) ELSE v]]

\* The cash of a bill is a number: at worst a negative one.
LEMMA CashTyped ==
  ASSUME NEW payments \in Seq(Payment)
  PROVE  CashOf(payments) \in Int
<1> DEFINE S == DOMAIN payments
           step == Takings(payments)
           Taking(sum, p) == IF p.mode = "cash" THEN sum + p.amount - ChangeOf(p) ELSE sum
           Literal(g) == g = [s \in SUBSET S |-> IF s = {} THEN 0
                                ELSE Taking(g[s \ {LargestOf(s)}], payments[LargestOf(s)])]
           g == CHOOSE g : Literal(g)
<1>1. /\ S = 1 .. Len(payments) /\ Len(payments) \in Nat /\ IsFiniteSet(S)
      /\ \A k \in S : payments[k] \in Payment
  BY FS_Interval
<1>2. Choice(Largest, S) /\ \A s \in SUBSET S : LargestOf(s) = Largest[s]
  BY <1>1, LargestChosen DEF Largest
<1>3. \A p \in Payment, v \in Int : Taking(v, p) \in Int
  BY CashierAssumption DEF Payment, ChangeOf
<1>4. \A k \in S, v \in Int : step[k][v] = Taking(v, payments[k])
  BY DEF Takings
<1>5. CashOf(payments) = g[S]
  BY DEF CashOf, FoldLeft, MapThenFoldSet, Max, LargestOf
<1> HIDE DEF S, step, Taking
<1>6. StepsIn(step, S, Int)
  BY <1>1, <1>3, <1>4 DEF StepsIn
<1>7. PICK f \in [SUBSET S -> Int] : Folds(f, S, 0, Largest, step)
  <2>1. 0 \in Int
    OBVIOUS
  <2>2. QED
    BY <1>1, <1>2, <1>6, <2>1, FoldExists
<1>8. ASSUME NEW s \in SUBSET S, s # {}
      PROVE  LargestOf(s) \in S /\ s \ {LargestOf(s)} \in SUBSET S
  BY <1>2, <1>8 DEF Choice
<1>9. \A s \in SUBSET S :
        f[s] = IF s = {} THEN 0 ELSE Taking(f[s \ {LargestOf(s)}], payments[LargestOf(s)])
  BY <1>2, <1>4, <1>7, <1>8, ZenonT(30) DEF Folds
<1>10. Literal(f)
  BY <1>7, <1>9
<1>11. Literal(g)
  BY <1>10
<1> HIDE DEF g
<1>12. \A s \in SUBSET S :
         g[s] = IF s = {} THEN 0 ELSE Taking(g[s \ {LargestOf(s)}], payments[LargestOf(s)])
  BY <1>11
<1> HIDE DEF Literal
<1>13. ASSUME NEW s \in SUBSET S, s # {}, g[s \ {Largest[s]}] \in Int
       PROVE  g[s] = step[Largest[s]][g[s \ {Largest[s]}]]
  <2>1. LargestOf(s) = Largest[s] /\ LargestOf(s) \in S
    BY <1>2, <1>8, <1>13
  <2>2. g[s] = Taking(g[s \ {Largest[s]}], payments[Largest[s]])
    BY <1>12, <1>13, <2>1
  <2>3. QED
    BY <1>4, <1>13, <2>1, <2>2
<1>14. Unfolds(g, S, Int, 0, Largest, step)
  BY <1>12, <1>13 DEF Unfolds
<1>15. FoldsIn(g, S, Int, 0, Largest, step)
  <2>1. 0 \in Int
    OBVIOUS
  <2>2. QED
    BY <1>1, <1>2, <1>6, <1>14, <2>1, FoldTyped
<1>16. QED
  BY <1>5, <1>15 DEF FoldsIn

\* A sum of finitely many numbers is one.
LEMMA SumTyped ==
  ASSUME NEW S, IsFiniteSet(S), NEW amounts \in [S -> Int]
  PROVE  Sum(amounts) \in Int
<1> DEFINE First(s) == CHOOSE x \in s : TRUE
           chosen == [s \in SUBSET S |-> First(s)]
           step == [x \in S |-> [v \in Int |-> amounts[x] + v]]
           Literal(g) == g = [s \in SUBSET S |-> IF s = {} THEN 0
                                ELSE amounts[First(s)] + g[s \ {First(s)}]]
           g == CHOOSE g : Literal(g)
<1>1. Choice(chosen, S) /\ \A s \in SUBSET S : First(s) = chosen[s]
  BY DEF Choice
<1>2. \A x \in S, v \in Int : step[x][v] = amounts[x] + v
  OBVIOUS
<1>3. Sum(amounts) = g[S]
  BY DEF Sum, FoldFunction, FoldFunctionOnSet, MapThenFoldSet
<1> HIDE DEF chosen, step
<1>4. \A x \in S, v \in Int : amounts[x] + v \in Int
  OBVIOUS
<1>5. StepsIn(step, S, Int)
  BY <1>2, <1>4 DEF StepsIn
<1>6. PICK f \in [SUBSET S -> Int] : Folds(f, S, 0, chosen, step)
  <2> HIDE DEF g, Literal, First
  <2>1. 0 \in Int
    OBVIOUS
  <2>2. QED
    BY <1>1, <1>5, <2>1, FoldExists
<1>7. ASSUME NEW s \in SUBSET S, s # {}
      PROVE  First(s) \in S /\ s \ {First(s)} \in SUBSET S
  BY <1>1, <1>7 DEF Choice
<1> HIDE DEF First
<1>8. \A s \in SUBSET S : f[s] = IF s = {} THEN 0 ELSE amounts[First(s)] + f[s \ {First(s)}]
  <2>1. f[{}] = 0
    BY <1>6 DEF Folds
  <2>2. ASSUME NEW s \in SUBSET S, s # {}
        PROVE  f[s] = amounts[First(s)] + f[s \ {First(s)}]
    <3>1. PICK x, others : x = First(s) /\ others = s \ {x}
      OBVIOUS
    <3>2. x = chosen[s] /\ x \in S /\ others \in SUBSET S
      BY <1>1, <1>7, <2>2, <3>1
    <3>3. f[s] = step[x][f[others]] /\ f[others] \in Int
      BY <1>6, <2>2, <3>1, <3>2 DEF Folds
    <3>4. QED
      BY <1>2, <3>1, <3>2, <3>3
  <2>3. QED
    BY <2>1, <2>2
<1>9. Literal(f)
  BY <1>6, <1>8
<1>10. Literal(g)
  BY <1>9
<1> HIDE DEF g
<1>11. \A s \in SUBSET S : g[s] = IF s = {} THEN 0 ELSE amounts[First(s)] + g[s \ {First(s)}]
  BY <1>10
<1> HIDE DEF Literal
<1>12. ASSUME NEW s \in SUBSET S, s # {}, g[s \ {chosen[s]}] \in Int
       PROVE  g[s] = step[chosen[s]][g[s \ {chosen[s]}]]
  <2>1. First(s) = chosen[s] /\ chosen[s] \in S
    BY <1>1, <1>7, <1>12
  <2>2. g[s] = amounts[chosen[s]] + g[s \ {chosen[s]}]
    BY <1>11, <1>12, <2>1
  <2>3. QED
    BY <1>2, <1>12, <2>1, <2>2
<1>13. Unfolds(g, S, Int, 0, chosen, step)
  BY <1>11, <1>12 DEF Unfolds
<1>14. FoldsIn(g, S, Int, 0, chosen, step)
  BY <1>1, <1>5, <1>13, FoldTyped
<1>15. QED
  BY <1>3, <1>14 DEF FoldsIn

\* Only finitely many orders are settled, so the expected cash is a number.
TillInv == TypeOK /\ OrdersInv /\ IsFiniteSet(Settled)

\* Its opening cash and the cash of its bills.
LEMMA ExpectedCashTyped ==
  ASSUME TillInv, NEW s \in DOMAIN shifts
  PROVE  ExpectedCash(s) \in Int
<1>1. PICK S : S = SettledIn(s)
  OBVIOUS
<1>2. IsFiniteSet(S) /\ S \subseteq Orders
  BY <1>1, FS_Subset DEF TillInv, SettledIn, Settled
<1>3. \A o \in S : bills[o].payments \in Seq(Payment)
  BY <1>2 DEF TillInv, TypeOK, Bill
<1>4. PICK amounts : amounts = [o \in S |-> CashOf(bills[o].payments)]
  OBVIOUS
<1>5. amounts \in [S -> Int]
  BY <1>3, <1>4, CashTyped
<1>6. Sum(amounts) \in Int
  BY <1>2, <1>5, SumTyped
<1>7. CashSales(s) \in Int
  BY <1>1, <1>4, <1>6 DEF CashSales
<1>8. shifts[s].opening \in Int
  <2>1. shifts[s] \in Shift
    BY DEF TillInv, TypeOK
  <2>2. QED
    <3>1. shifts[s].opening \in OpeningCash
      BY <2>1 DEF Shift
    <3>2. OpeningCash \subseteq Int
      BY CashierAssumption
    <3>3. QED
      BY <3>1, <3>2
<1>9. QED
  BY <1>7, <1>8 DEF ExpectedCash

\* What is entered is a list of payments.
LEMMA EnteredTyped ==
  ASSUME NEW payments \in Entered
  PROVE  payments \in Seq(Payment) /\ <<>> \o payments = payments
<1>1. PICK n \in 1 .. MaxPayments : payments \in [1 .. n -> Payment]
  BY DEF Entered
<1>2. QED
  BY <1>1, EnteredOnly, CashierAssumption

\* Every step keeps the types of the till.
LEMMA TillSteps ==
  ASSUME TillInv, [Next]_vars
  PROVE  TillInv'
<1>1. ASSUME UNCHANGED <<orders, held, torn>>
      PROVE  OrdersInv' /\ OrdersTypeOK'
  BY <1>1 DEF TillInv, OrdersInv, OrdersTypeOK, WholeRowsAgree, StartsRight, Placed, RowsAgree
<1>2. ASSUME bills' = bills, DOMAIN shifts \subseteq DOMAIN shifts'
      PROVE  /\ bills' \in [Orders -> Bill]
             /\ \A o \in Settled' : bills'[o].shift \in DOMAIN shifts'
             /\ IsFiniteSet(Settled')
  <2>1. Settled' = Settled
    BY <1>2 DEF Settled
  <2>2. QED
    BY <1>2, <2>1 DEF TillInv, TypeOK
<1>3. ASSUME NEW t \in Terminals, OpenShift(t)
      PROVE  TillInv'
  <2>1. PICK opening \in OpeningCash :
          shifts' = Append(shifts, [terminal |-> t, open |-> TRUE, opening |-> opening,
                                    expected |-> opening, counted |-> 0, difference |-> 0])
    BY <1>3 DEF OpenShift
  <2> DEFINE row == [terminal |-> t, open |-> TRUE, opening |-> opening,
                     expected |-> opening, counted |-> 0, difference |-> 0]
  <2>2. row \in Shift
    BY CashierAssumption DEF Shift
  <2> HIDE DEF row
  <2>3. shifts' = Append(shifts, row)
    BY <2>1 DEF row
  <2>4. shifts' \in Seq(Shift) /\ DOMAIN shifts \subseteq DOMAIN shifts'
    BY <2>2, <2>3 DEF TillInv, TypeOK
  <2>5. QED
    BY <1>1, <1>2, <1>3, <2>4 DEF OpenShift, TillInv, TypeOK
<1>4. ASSUME NEW t \in Terminals, CloseShift(t)
      PROVE  TillInv'
  <2>1. PICK s \in DOMAIN shifts, counted \in CountedCash :
          shifts' = [shifts EXCEPT ![s] =
                       [terminal |-> t, open |-> FALSE, opening |-> shifts[s].opening,
                        expected |-> ExpectedCash(s), counted |-> counted,
                        difference |-> counted - ExpectedCash(s)]]
    BY <1>4 DEF CloseShift
  <2> DEFINE row == [terminal |-> t, open |-> FALSE, opening |-> shifts[s].opening,
                     expected |-> ExpectedCash(s), counted |-> counted,
                     difference |-> counted - ExpectedCash(s)]
  <2>2. row \in Shift
    <3>1. shifts[s] \in Shift
      BY DEF TillInv, TypeOK
    <3>2. ExpectedCash(s) \in Int /\ counted \in Nat /\ counted - ExpectedCash(s) \in Int
      BY ExpectedCashTyped, CashierAssumption
    <3>3. QED
      BY <3>1, <3>2 DEF Shift
  <2> HIDE DEF row
  <2>3. shifts' = [shifts EXCEPT ![s] = row]
    BY <2>1 DEF row
  <2>4. shifts' \in Seq(Shift) /\ DOMAIN shifts \subseteq DOMAIN shifts'
    BY <2>2, <2>3 DEF TillInv, TypeOK
  <2>5. QED
    BY <1>1, <1>2, <1>4, <2>4 DEF CloseShift, TillInv, TypeOK
<1>5. ASSUME NEW t \in Terminals, NEW o \in Orders, Settle(t, o)
      PROVE  TillInv'
  <2>1. PICK s \in DOMAIN shifts, payments \in Entered :
          /\ Amount(payments) = orders[o].total
          /\ bills' = [bills EXCEPT ![o] =
                         [settled |-> TRUE, shift |-> BillOf(o, s).shift,
                          total |-> BillOf(o, s).total, paid |-> Amount(payments),
                          payments |-> BillOf(o, s).payments \o payments]]
    BY <1>5 DEF Settle, PaymentsFit
  <2> DEFINE bill == [settled |-> TRUE, shift |-> s, total |-> orders[o].total,
                      paid |-> orders[o].total, payments |-> payments]
  <2>2. o \notin Settled
    BY <1>5 DEF Settle, CanSettle
  <2>3. payments \in Seq(Payment) /\ <<>> \o payments = payments
    BY EnteredTyped
  <2>4. BillOf(o, s) = [settled |-> FALSE, shift |-> s, total |-> orders[o].total,
                        paid |-> 0, payments |-> <<>>]
    BY <2>2 DEF BillOf
  <2>5. bills' = [bills EXCEPT ![o] = bill]
    BY <2>1, <2>3, <2>4
  <2>6. bill \in Bill /\ bill.settled /\ bill.shift = s
    <3>1. orders[o].total \in Totals
      BY DEF TillInv, TypeOK, OrdersTypeOK, Order
    <3>2. s \in Nat
      BY DEF TillInv, TypeOK
    <3>3. QED
      BY <2>3, <3>1, <3>2 DEF Bill
  <2> HIDE DEF bill
  <2>7. /\ bills' \in [Orders -> Bill]
        /\ \A x \in Orders : bills'[x] = IF x = o THEN bill ELSE bills[x]
    BY <2>5, <2>6 DEF TillInv, TypeOK
  <2>8. Settled' = Settled \cup {o}
    BY <2>6, <2>7 DEF Settled
  <2>9. IsFiniteSet(Settled')
    BY <2>8, FS_AddElement DEF TillInv
  <2>10. shifts' = shifts
    BY <1>5 DEF Settle
  <2>11. \A x \in Settled' : bills'[x].shift \in DOMAIN shifts'
    BY <2>6, <2>7, <2>8, <2>10 DEF TillInv, TypeOK, Settled
  <2>12. QED
    BY <1>1, <1>5, <2>7, <2>9, <2>10, <2>11 DEF Settle, TillInv, TypeOK
<1>6. ASSUME NEW o \in Orders, EditOrder(o)
      PROVE  TillInv'
  <2>1. OrdersInv' /\ UNCHANGED <<shifts, bills>>
    BY <1>6, OrderStepKeepsInv DEF EditOrder, tillVars, TillInv
  <2>2. QED
    BY <1>2, <2>1 DEF TillInv, TypeOK, OrdersInv
<1>7. CASE UNCHANGED vars
  BY <1>1, <1>2, <1>7 DEF vars, TillInv, TypeOK
<1>8. QED
  BY <1>3, <1>4, <1>5, <1>6, <1>7 DEF Next

\* They hold at first.
LEMMA TillInitially == Init => TillInv
<1> SUFFICES ASSUME Init PROVE TillInv
  OBVIOUS
<1>1. OrdersInv
  BY OrdersInvInitially DEF Init
<1>2. bills \in [Orders -> Bill] /\ \A o \in Orders : ~bills[o].settled
  <2>1. NoBill \in Bill /\ ~NoBill.settled
    BY OrdersAssumption DEF NoBill, Bill
  <2>2. QED
    BY <2>1 DEF Init
<1>3. Settled = {}
  BY <1>2 DEF Settled
<1>4. shifts \in Seq(Shift)
  BY DEF Init
<1>5. QED
  BY <1>1, <1>2, <1>3, <1>4, FS_EmptySet DEF TillInv, TypeOK, OrdersInv

\* Shifts and bills have the types the tables demand, a settled bill belongs to a
\* shift, and the order headers keep theirs: in particular the expected cash that
\* closing writes is a number, negative or not.
THEOREM TillTyped == Spec => []TypeOK
<1>1. TillInv /\ [Next]_vars => TillInv'
  BY TillSteps
<1>2. TillInv => TypeOK
  BY DEF TillInv
<1>3. QED
  BY <1>1, <1>2, TillInitially, PTL DEF Spec

\* The till moves orders only as the order service does: whatever holds of Orders
\* holds at the till.
THEOREM TillRunsOrders == Spec => OrdersSpec
<1>1. Init => OrdersInit
  BY DEF Init
<1>2. [Next]_vars => [OrdersNext]_ordersVars
  BY DEF Next, vars, ordersVars, OrdersNext, OpenShift, CloseShift, Settle, EditOrder
<1>3. QED
  BY <1>1, <1>2, PTL DEF Spec, OrdersSpec

\* What settlement charges, the stored total, is what the items amount to unless an
\* operation was cut short since the last hold or recall of the order.
THEOREM ChargedTotalAgrees == Spec => []WholeRowsAgree
BY TillRunsOrders, WholeRowsAgreeAlways, PTL
=============================================================================
