\* Two orders with three items in all, one table, up to two calls under way when a button
\* is pressed.
SPECIFICATION Spec
CONSTANTS
  Orders = {o1, o2}
  Tables = {t1}
  Null = null
  MaxItems = 3
  MaxCalls = 2
INVARIANTS
  TypeOK
  BillingNeverEmpty
  BillIsTrue
  BusyHasCall
SYMMETRY OrderSymmetry
CHECK_DEADLOCK FALSE
