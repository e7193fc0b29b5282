\* One order, and the process may end between two writes.
SPECIFICATION OrdersSpec
CONSTANTS
  Orders = {o1}
  OrderTypes = {"dine_in", "takeaway"}
  Tables = {t1}
  NoTable = none
  Waiters = {w1}
  NoWaiter = nobody
  Totals = {0, 1}
  Crashes = TRUE
INVARIANT
  OrderRowsAgree
