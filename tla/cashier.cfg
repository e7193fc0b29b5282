\* Two orders and two terminals, operations that come to their end.
SPECIFICATION Spec
CONSTANTS
  Orders = {o1, o2}
  OrderTypes = {"takeaway"}
  Tables = {}
  NoTable = none
  Waiters = {}
  NoWaiter = nobody
  Totals = {0, 2}
  Crashes = FALSE
  Terminals = {a, b}
  OpeningCash = {1}
  CountedCash = {1}
  Modes = {"cash", "upi"}
  MaxAmount = 2
  MaxPayments = 2
  MaxShifts = 2
SYMMETRY Symmetry
INVARIANTS
  TypeOK
  OneOpenShift
  ClosedBooksStay
  BillAddsUp
PROPERTY
  RecordsNeverChange
CHECK_DEADLOCK FALSE
