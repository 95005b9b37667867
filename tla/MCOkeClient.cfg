SPECIFICATION Spec
CONSTANTS
  Types <- MCTypes
  Bodies <- MCBodies
INVARIANTS
  TypeOK
  
  RoundTrip
  
