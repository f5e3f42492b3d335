CONSTANTS
  Boot = boot
  Saved = saved
  Warm = warm
  Main = main
  Free = free
  Managers <- MCManagers
  Setups <- SomeSetups
  Launchers = {boot, saved}
SPECIFICATION FairSpec
INVARIANTS NoStrayEngine ReapsWhatItHolds
PROPERTIES SwapEnds HealthConverges
CHECK_DEADLOCK FALSE
