SPECIFICATION FairSpec
CONSTANTS
  e1 = e1
  e2 = e2
  e3 = e3
  gone = gone
  Name <- Names
  CommandLines <- Lines
  Openable <- Present
  Hwaddr <- HwaddrMC
  Inputs <- InputsFirst
INVARIANTS
  ChecksumKept
  
  
  RelaysAsTold
PROPERTIES
  SignalEnds
CHECK_DEADLOCK FALSE
