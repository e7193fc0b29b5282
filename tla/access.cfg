\* Both runs of the startup effect, one restart, two hours.
SPECIFICATION Spec
CONSTANTS
  Boots = {first, second}
  LiveBoot = second
  Form = form
  Null = null
  Graces = {1}
  DefaultGrace = 2
  Spans = {2}
  MaxTime = 2
  MaxSessions = 2
  MaxRestarts = 1
INVARIANTS
  TypeOK
  PastActivation
  ShownSessionIsKept
  StartupGoesOn
  BusyHasRequest
PROPERTY
  LetInWithinGrace
