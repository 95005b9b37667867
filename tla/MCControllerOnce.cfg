CONSTANTS
  c1 = c1
  c2 = c2
  Clusters = {c1}
  Fields <- MCFields
  Values <- MCValues
  Absent = "absent"
  Updaters = {1, 2, 3}
  Annotations <- MCAnnotations
  MaxRetryCount = 3
  Ids <- MCIds
  Class <- OneOke
  Found = {"ready"}
  Faults = {"api", "get", "reset", "lost", "provider", "secret", "build", "expiry", "crash"}
  MaxFaults = 2
  MaxRequests = 1
  MaxNotes = 1
SPECIFICATION CtlSpec
INVARIANTS AtMostOncePerRequest 
 
