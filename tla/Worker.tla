-------------------------------- MODULE Worker --------------------------------
(****************************************************************************)
(* worker (threading.hpp): the main thread of a backend executes, in run(),  *)
(* the tasks other threads post.  A critical section of the mutex is one     *)
(* action; what the code does outside of it (notify_one of post, the task,   *)
(* the store to terminated) is an action of its own.  posted, ran and owed   *)
(* are history variables.                                                    *)
(****************************************************************************)
EXTENDS Naturals, Sequences, FiniteSets

CONSTANTS
  Task,     \* the tasks that may be posted, each one once
  Client,   \* threads other than the main one
  Main,     \* the main thread of the process, the only one run() accepts
  NoTask    \* no task in hand

ASSUME MainAssumption == Main \notin Client
ASSUME NoTaskAssumption == NoTask \notin Task

Thread == Client \cup {Main}

VARIABLES
  tasks,       \* the queue
  done,        \* terminate() was called
  terminated,  \* run() has returned by itself
  runner,      \* where the main thread is in run(): "out", "loop", "asleep",
               \* "running", "leaving"
  woken,       \* the condition variable has unblocked the main thread
  task,        \* the task in hand
  notifying,   \* threads in post() between the unlock and notify_one
  posted,      \* every task ever enqueued, in order
  ran,         \* every task ever taken from the queue, in order
  owed         \* the tasks enqueued before done was set

vars == <<tasks, done, terminated, runner, woken, task, notifying, posted, ran, owed>>

InQueue(s) == {s[i] : i \in DOMAIN s}

Init ==
  /\ tasks = <<>> /\ done = FALSE /\ terminated = FALSE
  /\ runner = "out" /\ woken = FALSE /\ task = NoTask
  /\ notifying = {}
  /\ posted = <<>> /\ ran = <<>> /\ owed = {}

\* A thread can call a member function: the main thread does so before or after
\* run(), or from within a task.
CanCall(p) == p \notin notifying /\ (p = Main => runner \in {"out", "running"})

\* notify_one: the main thread is the only one that ever waits.
Notify == woken' = (woken \/ runner = "asleep")

\* post: the critical section.
Post(p, t) ==
  /\ CanCall(p)
  /\ t \notin InQueue(posted)
  /\ tasks' = Append(tasks, t)
  /\ posted' = Append(posted, t)
  /\ notifying' = notifying \cup {p}
  /\ UNCHANGED <<done, terminated, runner, woken, task, ran, owed>>

\* Mutant of PostNotify: post() returns without notify_one.
PostReturns(p) ==
  /\ p \in notifying
  /\ notifying' = notifying \ {p}
  /\ UNCHANGED <<tasks, done, terminated, runner, woken, task, posted, ran, owed>>

\* post: notify_one after the unlock.
PostNotify(p) ==
  /\ p \in notifying
  /\ notifying' = notifying \ {p}
  /\ Notify
  /\ UNCHANGED <<tasks, done, terminated, runner, task, posted, ran, owed>>

\* Mutant of Terminate: nobody is notified.
TerminateSilently(p) ==
  /\ CanCall(p)
  /\ ~terminated
  /\ done' = TRUE
  /\ owed' = IF done THEN owed ELSE InQueue(posted)
  /\ UNCHANGED <<tasks, terminated, runner, woken, task, notifying, posted, ran>>

\* terminate, also called by ~worker; it does nothing once terminated.
Terminate(p) ==
  /\ CanCall(p)
  /\ ~terminated
  /\ done' = TRUE
  /\ owed' = IF done THEN owed ELSE InQueue(posted)
  /\ Notify
  /\ UNCHANGED <<tasks, terminated, runner, task, notifying, posted, ran>>

\* run() is called on the main thread (elsewhere it throws); it may be called
\* again after it returned.
Run ==
  /\ runner = "out" /\ Main \notin notifying
  /\ runner' = "loop"
  /\ UNCHANGED <<tasks, done, terminated, woken, task, notifying, posted, ran, owed>>

\* Mutant of Sleep: cv.wait is called without its predicate.
SleepWithoutPredicate ==
  /\ runner = "loop"
  /\ runner' = "asleep" /\ woken' = FALSE
  /\ UNCHANGED <<tasks, done, terminated, task, notifying, posted, ran, owed>>

\* The predicate of cv.wait is false: release the mutex and block, atomically.
Sleep ==
  /\ runner = "loop"
  /\ ~done /\ tasks = <<>>
  /\ runner' = "asleep" /\ woken' = FALSE
  /\ UNCHANGED <<tasks, done, terminated, task, notifying, posted, ran, owed>>

\* cv.wait unblocks after a notification.
Wake ==
  /\ runner = "asleep" /\ woken
  /\ runner' = "loop" /\ woken' = FALSE
  /\ UNCHANGED <<tasks, done, terminated, task, notifying, posted, ran, owed>>

\* cv.wait unblocks for no reason, as the standard allows.
SpuriousWakeup ==
  /\ runner = "asleep"
  /\ runner' = "loop" /\ woken' = FALSE
  /\ UNCHANGED <<tasks, done, terminated, task, notifying, posted, ran, owed>>

\* Mutant of Take: the newest task is taken.
TakeNewest ==
  /\ runner = "loop"
  /\ tasks # <<>>
  /\ task' = tasks[Len(tasks)]
  /\ tasks' = SubSeq(tasks, 1, Len(tasks) - 1)
  /\ ran' = Append(ran, task')
  /\ runner' = "running"
  /\ UNCHANGED <<done, terminated, woken, notifying, posted, owed>>

\* Mutant of Take: the front is moved from but not popped.
TakeWithoutPop ==
  /\ runner = "loop"
  /\ tasks # <<>>
  /\ task' = Head(tasks)
  /\ ran' = Append(ran, task')
  /\ runner' = "running"
  /\ UNCHANGED <<tasks, done, terminated, woken, notifying, posted, owed>>

\* The predicate is true and the queue is not empty: move the front out and pop.
Take ==
  /\ runner = "loop"
  /\ tasks # <<>>
  /\ task' = Head(tasks)
  /\ tasks' = Tail(tasks)
  /\ ran' = Append(ran, Head(tasks))
  /\ runner' = "running"
  /\ UNCHANGED <<done, terminated, woken, notifying, posted, owed>>

\* Mutant of Break: the loop is left as soon as done is set.
BreakOnDone ==
  /\ runner = "loop"
  /\ done
  /\ runner' = "leaving"
  /\ UNCHANGED <<tasks, done, terminated, woken, task, notifying, posted, ran, owed>>

\* done and nothing left: break, which releases the mutex.
Break ==
  /\ runner = "loop"
  /\ done /\ tasks = <<>>
  /\ runner' = "leaving"
  /\ UNCHANGED <<tasks, done, terminated, woken, task, notifying, posted, ran, owed>>

\* Mutant of Finish: task is declared outside of the loop, so the last one and
\* its promise live on while run() waits.
FinishKeepsTask ==
  /\ runner = "running" /\ Main \notin notifying
  /\ runner' = "loop"
  /\ UNCHANGED <<tasks, done, terminated, woken, task, notifying, posted, ran, owed>>

\* The task returns; packaged_task keeps its value or its exception.
Finish ==
  /\ runner = "running" /\ Main \notin notifying
  /\ task' = NoTask
  /\ runner' = "loop"
  /\ UNCHANGED <<tasks, done, terminated, woken, notifying, posted, ran, owed>>

\* A Postgres error raised in the task outside of any guard longjmps past run().
Abandon ==
  /\ runner = "running" /\ Main \notin notifying
  /\ task' = NoTask
  /\ runner' = "out"
  /\ UNCHANGED <<tasks, done, terminated, woken, notifying, posted, ran, owed>>

\* terminated = true, without the mutex.
Return ==
  /\ runner = "leaving"
  /\ terminated' = TRUE
  /\ runner' = "out"
  /\ UNCHANGED <<tasks, done, woken, task, notifying, posted, ran, owed>>

Runner == Sleep \/ Wake \/ Take \/ Break \/ Finish \/ Return

Next ==
  \/ \E p \in Thread : (\E t \in Task : Post(p, t)) \/ PostNotify(p) \/ Terminate(p)
  \/ Run \/ SpuriousWakeup \/ Abandon
  \/ Runner

Spec == Init /\ [][Next]_vars

\* A thread inside post() or run() is scheduled, and a task comes to its end.
FairSpec ==
  /\ Spec
  /\ WF_vars(Runner)
  /\ \A p \in Thread : WF_vars(PostNotify(p))
------------------------------------------------------------------------------
TypeOK ==
  /\ tasks \in Seq(Task) /\ posted \in Seq(Task) /\ ran \in Seq(Task)
  /\ done \in BOOLEAN /\ terminated \in BOOLEAN /\ woken \in BOOLEAN
  /\ runner \in {"out", "loop", "asleep", "running", "leaving"}
  /\ task \in Task \cup {NoTask}
  /\ (task # NoTask) <=> (runner = "running")
  /\ notifying \subseteq Thread
  /\ owed \subseteq Task

\* What was taken, then what is queued, is what was posted: every task that was
\* accepted is executed at most once, none overtakes another and none is lost,
\* whoever posts, from whatever thread, before, during or after run().
OrderedOnce == posted = ran \o tasks

\* While the main thread sleeps in cv.wait with nobody having woken it, either
\* there is nothing to do or a thread is about to notify: although post()
\* notifies after releasing the mutex, no wakeup is lost.
NoLostWakeup ==
  runner = "asleep" /\ ~woken => ~done /\ (tasks = <<>> \/ notifying # {})

\* When run() returns by itself, every task posted before terminate() has been
\* executed.
OwedIsPaid == terminated => owed \subseteq InQueue(ran)

TQ == INSTANCE TaskQueue WITH
  accepted <- posted, log <- ran, busy <- runner = "running",
  serving <- runner \notin {"out", "leaving"}, closed <- done

\* worker implements TaskQueue.
ImplementsTaskQueue == TQ!Spec

\* A task queued while run() is executing is executed, unless a task never
\* comes back to run().
EveryTaskRuns ==
  \A t \in Task :
    (t \in InQueue(tasks) /\ runner # "out") ~> (t \in InQueue(ran) \/ runner = "out")

\* terminate() ends a run(), provided tasks come to an end and stop posting.
TerminateEndsRun == done ~> (runner = "out")
===============================================================================
