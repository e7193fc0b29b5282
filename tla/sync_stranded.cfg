\* Two events, one call at a time.
SPECIFICATION FairSpec
CONSTANTS
  Calls = {c1}
  Limit = 2
  MaxEvents = 2
PROPERTY
  EveryEventSettles
