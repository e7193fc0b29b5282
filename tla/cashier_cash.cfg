\* One order paid in cash with change.
SPECIFICATION Spec
CONSTANTS
  Orders = {o1}
  OrderTypes = {"takeaway"}
  Tables = {}
  NoTable = none
  Waiters = {}
  NoWaiter = nobody
  Totals = {0, 1}
  Crashes = FALSE
  Terminals = {a}
  OpeningCash = {1}
  CountedCash = {2}
  Modes = {"cash"}
  MaxAmount = 2
  MaxPayments = 1
  MaxShifts = 1
INVARIANT
  ExpectedIsInDrawer
CHECK_DEADLOCK FALSE
