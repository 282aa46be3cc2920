\* Two client threads and the main one, three tasks.
SPECIFICATION FairSpec
CONSTANTS
  Task = {t1, t2, t3}
  Client = {a, b}
  Main = main
  NoTask = none
INVARIANTS
  TypeOK
  OrderedOnce
  NoLostWakeup
  OwedIsPaid
PROPERTIES
  ImplementsTaskQueue
  EveryTaskRuns
  TerminateEndsRun
