CONSTANTS
  c1 = c1
  c2 = c2
  Clusters = {c1}
  Fields <- MCFields
  Values <- MCValues
  Absent = "absent"
  Updaters = {1, 2, 3}
  Annotations <- MCAnnotations
  MaxRetryCount = 3
  Ids <- MCIds
  Class <- OneOke
  Found = {"offline"}
  Faults = {}
  MaxFaults = 0
  MaxRequests = 3
  MaxNotes = 0
SPECIFICATION CtlSpec
INVARIANTS  PendingIsHeld 
PROPERTY ProvisionSettles
