CONSTANTS
  f1 = f1
  f2 = f2
  v1 = v1
  Clusters = {c1}
  Fields = {f1, f2}
  Values = {v1}
  Absent = absent
  Updaters = {u1, u2}
  Annotations <- MCAnnotations
  MaxRetryCount = 3
  MaxRV = 3
SYMMETRY Symmetry
SPECIFICATION MCSpec
INVARIANTS TypeOK AcceptedCopyIsCurrent
PROPERTY AtomicMerge
