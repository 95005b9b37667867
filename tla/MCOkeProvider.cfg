CONSTANTS
  Ids = {"i1", "i2"}
  Works = {"w1", "w2"}
  Absent = "absent"
  Texts <- MCTexts
  ParseInt <- MCParseInt
  DefaultWorkersPerAD = "1"
  NodeZones <- MCNodeZones
  OtherPools <- MCOtherPools
  Sizes <- MCSizes
  MaxInt = 7
  MaxCalls = 3
  MaxFaults = 1
SPECIFICATION Spec
INVARIANTS TypeOK CountedIsAskedFor PanicsOnRefusalOnly ActsAsInProviders
PROPERTIES OthersKept ValidIsRunning
CHECK_DEADLOCK FALSE
