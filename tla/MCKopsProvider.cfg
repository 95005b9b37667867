CONSTANTS
  Texts <- MCTexts
  ParseInt <- MCParseInt
  DefaultNumberOfNodes = "1"
  Resources = {"masters", "nodes"}
  Sizes <- MCSizes
  MaxInt = 7
  MaxCalls = 3
  MaxFaults = 2
SPECIFICATION Spec
INVARIANTS TypeOK NothingOrphaned CountedIsRunning ActsAsInProviders
PROPERTY ScalesAsAsked
CHECK_DEADLOCK FALSE
