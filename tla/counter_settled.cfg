\* Orders sold and settled, then changed.
SPECIFICATION Spec
CONSTANTS
  Orders = {o1, o2}
  Tables = {t1}
  Null = null
  MaxItems = 3
  MaxCalls = 2
INVARIANT
  PaidForAll
CHECK_DEADLOCK FALSE
