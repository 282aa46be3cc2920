SPECIFICATION Spec
CONSTANTS
  MaxContexts = 2
  MaxStates = 2
  MaxObjects = 1
  Owners = {o1, o2}
  Values = {v1, v2}
SYMMETRY Symmetry
INVARIANTS
  TypeOK
  
  
  
  ObjectsGoWithContext
