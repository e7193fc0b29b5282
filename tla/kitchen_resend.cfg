\* One item whose note and quantity are edited between two sends.
SPECIFICATION Spec
CONSTANTS
  Items = {i1}
  Makes = {plain}
  PlainMake = plain
  Notes = {none, spicy}
  NoNote = none
  MaxQty = 2
  Priorities = {0}
  Stations = {main}
  MainStation = main
  Times = {1}
  ClockRunsBack = FALSE
  MaxTickets = 2
PROPERTY
  ResendRefused
CHECK_DEADLOCK FALSE
