\* Nested scopes with exceptions thrown, caught and unwinding through destructors.
SPECIFICATION Spec
CONSTANTS
  MaxScopes = 5
  MaxSubs = 3
  ReleaseFailsInScopeEnd = FALSE
INVARIANTS
  TypeOK
  NestIsTheGuards
  GlobalsRestored
PROPERTIES
  OutcomeMatchesExit
  UserRestored
