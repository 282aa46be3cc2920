\* Types with every relation: a wider and a narrower integer, both floats.  A set of
\* two rows has a first and a later one.
SPECIFICATION Spec
CONSTANTS
  SqlTypes = {"int4", "int8", "float4", "float8"}
  MaxRows = 2
INVARIANTS
  TypeOK
  
CHECK_DEADLOCK FALSE
