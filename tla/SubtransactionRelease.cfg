\* Whether a guard always finishes its subtransaction.
SPECIFICATION Spec
CONSTANTS
  MaxScopes = 3
  MaxSubs = 2
  ReleaseFailsInScopeEnd = TRUE
INVARIANT FinishesExactlyOnce
