\* The whole bridge: nested calls, guards, exception blocks, bare longjmps.
SPECIFICATION FairSpec
CONSTANTS
  Plain = {c1}
  MaxDepth = 6
  MaxCalls = 2
  MaxErrors = 3
  CatchByValue = FALSE
INVARIANTS
  TypeOK
  HandlerLive
  
  ErrorDataValid
  CurrentContextLive
  Flushed
  PopNeverEmpty
  CallsAreTheBodies
PROPERTIES
  StaleOnlyByJump
  LeakOnlyByJump
  Delivered
