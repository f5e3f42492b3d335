CONSTANTS
  Keys = {roster, all, unread}
  Nothing = nothing
  MaxFails = 1
  Characters = {c1, c2}
  NoOne = noone
  RosterUrl = roster
  Slots = {s1, s2}
  MaxEdits = 3
  MaxRestarts = 1
  Items = {i1}
  AllUrl = all
  UnreadUrl = unread
  Loads = {l1, l2}
  Drawers = {d1, d2}
  AllItems = allitems
  NoItem = noitem
  MaxClicks = 2
SPECIFICATION PagesSpec
INVARIANTS PagesTypeOK RosterSound
PROPERTIES SummaryKept PulseConverges
CHECK_DEADLOCK FALSE
