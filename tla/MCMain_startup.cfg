SPECIFICATION FairSpec
CONSTANTS
  Keys <- KeysByDepth
  Blocks <- BlockKeys
  Word <- Words
  Styles <- AllStyles
  MaxEntries = 4
  MaxDepth = 2
  Number <- Numbers
  Truths <- Yes
  Missing <- Gone
  Usec = 3
  Msec = 2
  IntRange = 4
  Starts <- Boot
  Waits <- ShortWaits
  Jumps <- Settings
  MaxWall = 3
  MaxJumps = 1
INVARIANTS
  
  RunsWhatIsWritten
  DaemonCanRely
  
  MeasuresTime
PROPERTIES
  
  SignalStops
CHECK_DEADLOCK FALSE
