\* One item edited in every way, three tickets.
SPECIFICATION Spec
CONSTANTS
  Items = {i1}
  Makes = {plain, large}
  PlainMake = plain
  Notes = {none, spicy}
  NoNote = none
  MaxQty = 2
  Priorities = {0}
  Stations = {main}
  MainStation = main
  Times = {1}
  ClockRunsBack = FALSE
  MaxTickets = 3
INVARIANTS
  TypeOK
  NothingCookedWithoutTicket
  CancelUndoesLatestAdd
  CancelPairs
  HistoryTells
  TicketChain
PROPERTIES
  SendReachesKitchen
  BoardNeverResurrects
CHECK_DEADLOCK FALSE
