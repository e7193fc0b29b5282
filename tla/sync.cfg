\* Three events, two calls at a time, batches of two.
SPECIFICATION FairSpec
CONSTANTS
  Calls = {c1, c2}
  Limit = 2
  MaxEvents = 3
INVARIANTS
  TypeOK
  ClaimsExclusive
PROPERTIES
  AtLeastOnce
  SettlesUnlessStranded
