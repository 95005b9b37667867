CONSTANTS
  c1 = c1
  c2 = c2
  Clusters = {c1}
  Fields <- MCFields
  Values <- MCValues
  Absent = "absent"
  Updaters = {1, 2, 3}
  Annotations <- MCAnnotations
  MaxRetryCount = 3
  Ids <- MCIds
  Class <- OneKops
  Found = {"offline"}
  Faults = {"reset"}
  MaxFaults = 1
  MaxRequests = 1
  MaxNotes = 0
SPECIFICATION CtlSpec
PROPERTY ProvisionEndsAsDocumented
