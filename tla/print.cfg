\* Two overlapping calls in all, two jobs of a bill, a ticket or a printer, two
\* profiles saved, new or changed, one crash.
SPECIFICATION Spec
CONSTANTS
  Calls = {c1, c2}
  Bills = {b1}
  Tickets = {k1}
  Null = null
  Defaults = {TRUE}
  Limit = 2
  MaxSaves = 2
  MaxJobs = 2
  MaxStarts = 2
  MaxCrashes = 1
INVARIANTS
  TypeOK
  PrintedOnPaper
  EverySheetCounted
  SentWhereRouted
SYMMETRY CallSymmetry
CHECK_DEADLOCK FALSE
