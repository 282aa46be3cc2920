\* Three processes in a parallel plan, one in a serial one, and up to three rows.
SPECIFICATION Spec
CONSTANTS
  Workers = {w1, w2, w3}
  Rows = {r1, r2, r3}
INVARIANTS
  TypeOK
  QueryOutcome
  
CHECK_DEADLOCK FALSE
