\* Two descriptors, two records and two row types.
SPECIFICATION Spec
CONSTANTS
  Descriptors = {1, 2}
  Records = {3, 4}
  Shapes = {s1, s2}
INVARIANTS
  TypeOK
  
  
