SPECIFICATION Spec
CONSTANTS
  MaxScopes = 4
  MaxExecutors = 3
  MaxSubs = 2
  MaxPrepared = 1
  Plans = {p1, p2}
  Tables = {r1}
  Duties = {"finish late", "commit alone"}
SYMMETRY Symmetry
INVARIANTS
  TypeOK
  
  
  SavedPlanHasOneOwner
