---------------------------- MODULE WorkerProofs ----------------------------
(****************************************************************************)
(* Theorems about Worker, for any number of client threads and tasks.       *)
(****************************************************************************)
EXTENDS Worker, TLAPS

\* What a task taken or about to be taken owes to the history.
OwedKept ==
  /\ owed \subseteq InQueue(posted)
  /\ runner = "leaving" \/ terminated => done
  /\ runner = "leaving" \/ terminated => owed \subseteq InQueue(ran)

\* The inductive invariant of Worker.
Inv == TypeOK /\ OrderedOnce /\ NoLostWakeup /\ OwedKept

LEMMA InQueueAppend ==
  ASSUME NEW S, NEW s \in Seq(S), NEW e \in S
  PROVE  InQueue(Append(s, e)) = InQueue(s) \cup {e}
<1>1. /\ DOMAIN Append(s, e) = 1 .. Len(s) + 1
      /\ \A i \in 1 .. Len(s) : Append(s, e)[i] = s[i]
      /\ Append(s, e)[Len(s) + 1] = e
      /\ DOMAIN s = 1 .. Len(s) /\ Len(s) \in Nat
  OBVIOUS
<1> QED
  BY <1>1 DEF InQueue

\* Moving the front of the queue to the end of the history keeps their sum.
LEMMA MoveFront ==
  ASSUME NEW S, NEW r \in Seq(S), NEW q \in Seq(S), q # <<>>
  PROVE  /\ Append(r, Head(q)) \o Tail(q) = r \o q
         /\ Head(q) \in S /\ Tail(q) \in Seq(S)
         /\ Len(r) + 1 \in DOMAIN (r \o q)
         /\ (r \o q)[Len(r) + 1] = Head(q)
OBVIOUS

LEMMA InvInit == Init => Inv
<1> SUFFICES ASSUME Init PROVE Inv
  OBVIOUS
<1> USE DEF Init
<1>1. TypeOK
  <2>1. <<>> \in Seq(Task)
    OBVIOUS
  <2> QED
    BY <2>1 DEF TypeOK
<1>2. OrderedOnce
  <2>1. <<>> \o <<>> = <<>>
    OBVIOUS
  <2> QED
    BY <2>1 DEF OrderedOnce
<1>3. NoLostWakeup /\ OwedKept
  BY DEF NoLostWakeup, OwedKept
<1> QED
  BY <1>1, <1>2, <1>3 DEF Inv

\* Every step keeps the invariant.  The queue is what a step may disturb: Post
\* and Take keep OrderedOnce, Post and Sleep keep NoLostWakeup, Terminate and
\* Break keep OwedKept.
LEMMA InvNext == Inv /\ [Next]_vars => Inv'
<1> SUFFICES ASSUME Inv, [Next]_vars PROVE Inv'
  OBVIOUS
<1> USE DEF Inv
<1>1. ASSUME NEW p \in Thread, NEW t \in Task, Post(p, t) PROVE Inv'
  <2> USE <1>1 DEF Post
  <2>1. TypeOK'
    BY DEF TypeOK
  <2>2. OrderedOnce'
    <3>1. ran \in Seq(Task) /\ tasks \in Seq(Task)
      BY DEF TypeOK
    <3>2. Append(ran \o tasks, t) = ran \o Append(tasks, t)
      BY ONLY <3>1, t \in Task
    <3> QED
      BY <3>2 DEF OrderedOnce
  <2>3. NoLostWakeup'
    BY DEF TypeOK, NoLostWakeup
  <2>4. OwedKept'
    BY InQueueAppend DEF TypeOK, OwedKept
  <2> QED
    BY <2>1, <2>2, <2>3, <2>4
<1>2. ASSUME NEW p \in Thread, PostNotify(p) PROVE Inv'
  <2> USE <1>2 DEF PostNotify, Notify
  <2>1. TypeOK'
    BY DEF TypeOK
  <2>2. OrderedOnce' /\ OwedKept'
    BY DEF OrderedOnce, OwedKept, InQueue
  <2>3. NoLostWakeup'
    BY DEF TypeOK, NoLostWakeup
  <2> QED
    BY <2>1, <2>2, <2>3
<1>3. ASSUME NEW p \in Thread, Terminate(p) PROVE Inv'
  <2> USE <1>3 DEF Terminate, Notify
  <2>1. InQueue(posted) \subseteq Task
    BY DEF TypeOK, InQueue
  <2>2. TypeOK'
    BY <2>1 DEF TypeOK
  <2>3. OrderedOnce'
    BY DEF OrderedOnce
  <2>4. NoLostWakeup'
    BY DEF TypeOK, NoLostWakeup
  <2>5. OwedKept'
    BY DEF TypeOK, OwedKept, InQueue
  <2> QED
    BY <2>2, <2>3, <2>4, <2>5
<1>4. ASSUME Sleep PROVE Inv'
  <2> USE <1>4 DEF Sleep
  <2>1. TypeOK'
    BY DEF TypeOK
  <2>2. OrderedOnce'
    BY DEF OrderedOnce
  <2>3. OwedKept'
    BY DEF OwedKept, InQueue
  <2>4. NoLostWakeup'
    BY DEF NoLostWakeup
  <2> QED
    BY <2>1, <2>2, <2>3, <2>4
<1>5. ASSUME Take PROVE Inv'
  <2> USE <1>5 DEF Take
  <2>1. /\ ran' \o tasks' = ran \o tasks
        /\ Head(tasks) \in Task /\ tasks' \in Seq(Task)
    BY MoveFront DEF TypeOK
  <2>2. TypeOK'
    BY <2>1, NoTaskAssumption DEF TypeOK
  <2>3. OrderedOnce'
    BY <2>1 DEF OrderedOnce
  <2>4. InQueue(ran') = InQueue(ran) \cup {Head(tasks)}
    BY <2>1, InQueueAppend DEF TypeOK
  <2>5. NoLostWakeup' /\ OwedKept'
    BY <2>4 DEF NoLostWakeup, OwedKept, InQueue
  <2> QED
    BY <2>2, <2>3, <2>5
<1>6. ASSUME Break PROVE Inv'
  <2> USE <1>6 DEF Break
  <2>1. posted = ran
    BY DEF TypeOK, OrderedOnce
  <2>2. TypeOK' /\ OrderedOnce' /\ NoLostWakeup'
    BY DEF TypeOK, OrderedOnce, NoLostWakeup
  <2>3. OwedKept'
    BY <2>1 DEF OwedKept, InQueue
  <2> QED
    BY <2>2, <2>3
<1>7. ASSUME Run \/ Wake \/ SpuriousWakeup \/ Finish \/ Abandon \/ Return PROVE Inv'
  <2>1. TypeOK'
    BY <1>7 DEF Run, Wake, SpuriousWakeup, Finish, Abandon, Return, TypeOK
  <2>2. OrderedOnce' /\ NoLostWakeup'
    BY <1>7 DEF Run, Wake, SpuriousWakeup, Finish, Abandon, Return, OrderedOnce,
                NoLostWakeup
  <2>3. OwedKept'
    BY <1>7 DEF Run, Wake, SpuriousWakeup, Finish, Abandon, Return, OwedKept, InQueue
  <2> QED
    BY <2>1, <2>2, <2>3
<1>8. ASSUME UNCHANGED vars PROVE Inv'
  BY <1>8 DEF vars, TypeOK, OrderedOnce, NoLostWakeup, OwedKept, InQueue
<1> QED
  BY <1>1, <1>2, <1>3, <1>4, <1>5, <1>6, <1>7, <1>8 DEF Next, Runner

THEOREM Invariance == Spec => []Inv
<1>1. Init => Inv
  BY InvInit
<1>2. Inv /\ [Next]_vars => Inv'
  BY InvNext
<1> QED
  BY <1>1, <1>2, PTL DEF Spec

\* The variables of worker keep their types.
THEOREM WorkerTypes == Spec => []TypeOK
BY Invariance, PTL DEF Inv

\* Nothing posted is lost, duplicated or overtaken, with any number of threads.
THEOREM WorkerOrderedOnce == Spec => []OrderedOnce
BY Invariance, PTL DEF Inv

\* post() may notify after it released the mutex: the main thread never sleeps
\* over a task or over done with no notification to come.
THEOREM WorkerNoLostWakeup == Spec => []NoLostWakeup
BY Invariance, PTL DEF Inv

\* run() returns by itself only after everything posted before terminate().
THEOREM WorkerOwedIsPaid == Spec => []OwedIsPaid
<1>1. Inv => OwedIsPaid
  BY DEF Inv, OwedKept, OwedIsPaid
<1> QED
  BY Invariance, <1>1, PTL
------------------------------------------------------------------------------
LEMMA RefinesInit == Init => TQ!Init
BY DEF Init, TQ!Init

\* Every step of worker is a step of TaskQueue or leaves its state alone.
LEMMA RefinesNext == Inv /\ [Next]_vars => [TQ!Next]_(TQ!vars)
<1> SUFFICES ASSUME Inv, [Next]_vars PROVE TQ!Next \/ UNCHANGED TQ!vars
  OBVIOUS
<1> USE DEF Inv
<1>1. ASSUME NEW p \in Thread, NEW t \in Task, Post(p, t) PROVE TQ!Accept(t)
  BY <1>1 DEF Post, TQ!Accept, InQueue
<1>2. ASSUME NEW p \in Thread, PostNotify(p) PROVE UNCHANGED TQ!vars
  BY <1>2 DEF PostNotify, TQ!vars
<1>3. ASSUME NEW p \in Thread, Terminate(p) PROVE TQ!Close
  BY <1>3 DEF Terminate, TQ!Close
<1>4. ASSUME Sleep \/ Wake \/ SpuriousWakeup \/ Return PROVE UNCHANGED TQ!vars
  BY <1>4 DEF Sleep, Wake, SpuriousWakeup, Return, TQ!vars
<1>5. ASSUME Take PROVE TQ!Begin
  <2>1. /\ Len(ran) + 1 \in DOMAIN posted
        /\ posted[Len(ran) + 1] = Head(tasks)
    BY <1>5, MoveFront DEF Take, TypeOK, OrderedOnce
  <2>2. Len(ran) < Len(posted)
    BY <2>1 DEF TypeOK
  <2> QED
    BY <1>5, <2>1, <2>2 DEF Take, TQ!Begin
<1>6. ASSUME Break PROVE TQ!Leave
  <2>1. posted = ran
    BY <1>6 DEF Break, TypeOK, OrderedOnce
  <2> QED
    BY <1>6, <2>1 DEF Break, TQ!Leave
<1>7. ASSUME Run PROVE TQ!Serve
  BY <1>7 DEF Run, TQ!Serve
<1>8. ASSUME Finish PROVE TQ!End
  BY <1>8 DEF Finish, TQ!End
<1>9. ASSUME Abandon PROVE TQ!Leave
  BY <1>9 DEF Abandon, TQ!Leave
<1>10. ASSUME UNCHANGED vars PROVE UNCHANGED TQ!vars
  BY <1>10 DEF vars, TQ!vars
<1> QED
  BY <1>1, <1>2, <1>3, <1>4, <1>5, <1>6, <1>7, <1>8, <1>9, <1>10
     DEF Next, Runner, TQ!Next

\* worker keeps every promise of TaskQueue, for any threads and tasks.
THEOREM WorkerImplementsTaskQueue == Spec => ImplementsTaskQueue
<1>1. Init => TQ!Init
  BY RefinesInit
<1>2. Inv /\ [Next]_vars => [TQ!Next]_(TQ!vars)
  BY RefinesNext
<1> QED
  BY <1>1, <1>2, Invariance, PTL DEF Spec, TQ!Spec, ImplementsTaskQueue
=============================================================================
