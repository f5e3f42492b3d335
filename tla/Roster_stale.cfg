CONSTANTS
  Keys = {roster, all, unread}
  Nothing = nothing
  MaxFails = 0
  Characters = {c1}
  NoOne = noone
  RosterUrl = roster
  Slots = {s1}
  MaxEdits = 2
  MaxRestarts = 0
SPECIFICATION RosterSpec
INVARIANTS RosterUpToDate
CHECK_DEADLOCK FALSE
