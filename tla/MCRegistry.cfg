CONSTANTS
  Clusters = {c1}
  Classes = {"kops", "oke", "other", "none"}
  MaxWrites = 2
  MaxStarts = 2
SPECIFICATION Spec
INVARIANT ProviderIsSupported
