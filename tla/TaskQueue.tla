------------------------------ MODULE TaskQueue ------------------------------
(****************************************************************************)
(* What a worker (threading.hpp) promises to the threads that post to it:   *)
(* tasks are executed one at a time, each at most once, in the order in     *)
(* which they were accepted, and serving ends by itself only after the      *)
(* queue was closed and everything accepted by then has been executed.      *)
(****************************************************************************)
EXTENDS Naturals, Sequences

CONSTANT Task   \* the tasks that may be posted, each one once

VARIABLES
  accepted,   \* every task accepted so far, in order
  log,        \* the tasks whose execution began, in order
  busy,       \* a task is being executed
  serving,    \* somebody executes tasks
  closed      \* no more tasks are expected

vars == <<accepted, log, busy, serving, closed>>

Init ==
  /\ accepted = <<>> /\ log = <<>>
  /\ busy = FALSE /\ serving = FALSE /\ closed = FALSE

Accept(t) ==
  /\ \A i \in DOMAIN accepted : accepted[i] # t
  /\ accepted' = Append(accepted, t)
  /\ UNCHANGED <<log, busy, serving, closed>>

Close == closed' = TRUE /\ UNCHANGED <<accepted, log, busy, serving>>

Serve == ~serving /\ serving' = TRUE /\ UNCHANGED <<accepted, log, busy, closed>>

Begin ==
  /\ serving /\ ~busy
  /\ Len(log) < Len(accepted)
  /\ log' = Append(log, accepted[Len(log) + 1])
  /\ busy' = TRUE
  /\ UNCHANGED <<accepted, serving, closed>>

End == busy /\ busy' = FALSE /\ UNCHANGED <<accepted, log, serving, closed>>

\* Serving ends: in order when nothing is left, or because a task never came back.
Leave ==
  /\ serving
  /\ busy \/ (closed /\ log = accepted)
  /\ serving' = FALSE /\ busy' = FALSE
  /\ UNCHANGED <<accepted, log, closed>>

Next == (\E t \in Task : Accept(t)) \/ Close \/ Serve \/ Begin \/ End \/ Leave

Spec == Init /\ [][Next]_vars
==============================================================================
