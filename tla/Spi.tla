---------------------------------- MODULE Spi ----------------------------------
(****************************************************************************)
(* spi_executor, spi_nonatomic_executor, spi_plan and results                *)
(* (executor.hpp): C++ scopes that each hold a connection of SPI.  Postgres  *)
(* keeps the connections on a stack of its own, which SPI_finish, and the    *)
(* end of a subtransaction, pop; the executors note themselves on another.   *)
(*                                                                          *)
(* Executor e has connection e, if any; 0 is the connection of the caller,   *)
(* as a PL/pgSQL function has one, and 0 among the contexts is a context     *)
(* that outlives the call.  Numbers are reused.                              *)
(****************************************************************************)
EXTENDS Integers, Sequences, FiniteSets, TLC

CONSTANTS
  MaxScopes,     \* bound: nested scopes
  MaxExecutors,  \* bound: executors at a time
  MaxSubs,       \* bound: open subtransactions at a time
  MaxPrepared,   \* bound: prepared plans in memory at a time
  Plans,         \* variables of type spi_plan
  Tables,        \* variables of type results
  Duties         \* what the code that uses executors takes care of, see below

\* "finish late": no subtransaction is finished by hand under an executor that
\* was opened in it.  "commit alone": no transaction is ended in a nonatomic
\* executor inside of an atomic one.
ASSUME DutiesAssumption == Duties \subseteq {"finish late", "commit alone"}
ASSUME BoundsAssumption ==
  /\ MaxScopes \in Nat /\ MaxExecutors \in Nat
  /\ MaxSubs \in Nat /\ MaxPrepared \in Nat

VARIABLES
  scopes,       \* C++ scopes, innermost last
  mode,         \* "run", or "unwind" while an exception leaves scopes
  atomic,       \* current_postgres_function::atomic()
  executors,    \* the stack of the executors
  connections,  \* the stack of SPI
  nest,         \* open subtransactions, innermost last
  plan,         \* the spi_plan variables
  prepared,     \* what SPI_prepare allocated
  table,        \* the SPITupleTable of each results variable
  CurrentMemoryContext

vars == <<scopes, mode, atomic, executors, connections, nest, plan, prepared, table,
          CurrentMemoryContext>>
spi == <<connections, nest>>
data == <<plan, prepared, table>>

Executors == 1 .. MaxExecutors
Subs == 1 .. MaxSubs
Prepared == 1 .. MaxPrepared

Scope == [kind : {"executor", "nonatomic", "sub", "try"}, id : 0 .. MaxExecutors + MaxSubs,
          finished : BOOLEAN]
Connection == [id : 0 .. MaxExecutors, sub : 0 .. MaxSubs, atomic : BOOLEAN]

Last(s) == s[Len(s)]
Pop(s) == SubSeq(s, 1, Len(s) - 1)
Innermost(n) == IF n = <<>> THEN 0 ELSE Last(n)
Inside == scopes # <<>>
Top == Last(scopes)
IsExecutor(s) == s.kind \in {"executor", "nonatomic"}
InScope == {i \in DOMAIN scopes : IsExecutor(scopes[i])}
Live == {scopes[i].id : i \in InScope}

\* tracked: the variable was not moved from.  released: release() was called;
\* raw: what it returned is the caller's to free.
NoPlan == [made |-> FALSE, of |-> 0, kept |-> FALSE, tracked |-> FALSE, released |-> FALSE]
NotPrepared == [life |-> "none", conn |-> 0, saved |-> FALSE, raw |-> FALSE]
\* by: the executor asked; conn, sub: the connection it was, and the
\* subtransaction it is, part of.
NoTable == [by |-> 0, conn |-> 0, sub |-> 0, gone |-> FALSE, undone |-> FALSE]

Init ==
  /\ scopes = <<>> /\ mode = "run" /\ atomic \in BOOLEAN
  /\ executors = <<>> /\ nest = <<>>
  /\ connections \in {<<>>, <<[id |-> 0, sub |-> 0, atomic |-> atomic]>>}
  /\ plan = [p \in Plans |-> NoPlan]
  /\ prepared = [m \in Prepared |-> NotPrepared]
  /\ table = [r \in Tables |-> NoTable]
  /\ CurrentMemoryContext = 0
------------------------------------------------------------------------------
\* Postgres.

\* Plans freed: their number may be used again once no variable in `objects'
\* refers to them.
FreePlans(M, objects) ==
  prepared' = [m \in Prepared |->
    LET life == IF m \notin M THEN prepared[m].life
                ELSE IF prepared[m].life = "live" THEN "gone" ELSE "freed twice"
    IN  IF life = "gone" /\ \A p \in Plans : objects[p].of # m THEN NotPrepared
        ELSE [prepared[m] EXCEPT !.life = life, !.conn = IF life = "live" THEN @ ELSE 0]]

PlansIn(C) ==
  {m \in Prepared : prepared[m].life = "live" /\ ~prepared[m].saved /\ prepared[m].conn \in C}

\* What SPI_finish ends: the innermost connection, whoever calls.  Without one it
\* returns SPI_ERROR_UNCONNECTED.
Finished == IF connections = <<>> THEN {} ELSE {Last(connections).id}

\* The end of the innermost subtransaction s pops the connections made in it, down
\* to the first that was not; an abort also frees the tables it filled.
EndSub(how) ==
  LET s == Innermost(nest)
      Undone(r) == how = "aborted" /\ table[r].sub = s
  IN  /\ nest # <<>>
      /\ nest' = Pop(nest)
      /\ \E n \in 0 .. Len(connections) :
           LET C == {connections[i].id : i \in n + 1 .. Len(connections)} IN
           /\ \A i \in n + 1 .. Len(connections) : connections[i].sub = s
           /\ n > 0 => connections[n].sub # s
           /\ connections' = SubSeq(connections, 1, n)
           /\ FreePlans(PlansIn(C), plan)
           /\ table' = [r \in Tables |->
                IF table[r].by = 0 THEN NoTable
                ELSE [table[r] EXCEPT
                  !.gone = @ \/ Undone(r) \/ table[r].conn \in C,
                  !.undone = @ \/ Undone(r),
                  !.sub = IF @ = s THEN Innermost(Pop(nest)) ELSE @]]
------------------------------------------------------------------------------
\* The surrounding C++ code.

\* What is thrown leaves the innermost scopes up to a try block; without one it
\* leaves the function.
Raise == mode' = "unwind"

Enter ==
  /\ mode = "run" /\ Len(scopes) < MaxScopes
  /\ scopes' = Append(scopes, [kind |-> "try", id |-> 0, finished |-> TRUE])
  /\ UNCHANGED <<mode, atomic, executors, spi, data, CurrentMemoryContext>>

LeaveTry ==
  /\ Inside /\ Top.kind = "try"
  /\ scopes' = Pop(scopes) /\ mode' = "run"
  /\ UNCHANGED <<atomic, executors, spi, data, CurrentMemoryContext>>

\* The exception has left the function, and its caller has caught the error that
\* exception_guard made of it.
Caught ==
  /\ mode = "unwind" /\ ~Inside
  /\ mode' = "run"
  /\ UNCHANGED <<scopes, atomic, executors, spi, data, CurrentMemoryContext>>

\* The scope on top has come to its constructor's end.
Built == Inside /\ IsExecutor(Top) => Top.finished

\* Any statement may throw, ffi_guard of a Postgres error among them.
Throw ==
  /\ mode = "run" /\ Inside /\ Built
  /\ Raise
  /\ UNCHANGED <<scopes, atomic, executors, spi, data, CurrentMemoryContext>>

\* internal_subtransaction, as Subtransaction has it in detail.
BeginSub(s) ==
  /\ mode = "run" /\ Built /\ Len(scopes) < MaxScopes
  /\ \A i \in DOMAIN scopes : scopes[i].kind = "sub" => scopes[i].id < s
  /\ s = Cardinality({i \in DOMAIN scopes : scopes[i].kind = "sub"}) + 1
  /\ scopes' = Append(scopes, [kind |-> "sub", id |-> s, finished |-> FALSE])
  /\ nest' = Append(nest, s)
  /\ UNCHANGED <<mode, atomic, executors, connections, data, CurrentMemoryContext>>

\* commit() or rollback() of the innermost subtransaction by hand.
FinishSub(g, how) ==
  /\ mode = "run" /\ Built
  /\ scopes[g].kind = "sub" /\ scopes[g].id = Innermost(nest) /\ ~scopes[g].finished
  /\ "finish late" \in Duties => \A i \in g .. Len(scopes) : ~IsExecutor(scopes[i])
  /\ EndSub(how)
  /\ scopes' = [scopes EXCEPT ![g].finished = TRUE]
  /\ UNCHANGED <<mode, atomic, executors, plan, CurrentMemoryContext>>

LeaveSub(how) ==
  /\ Inside /\ Top.kind = "sub"
  /\ mode = "unwind" => how = "aborted"
  /\ IF Top.finished THEN how = "aborted" /\ UNCHANGED <<spi, prepared, table>>
     ELSE EndSub(how)
  /\ scopes' = Pop(scopes)
  /\ UNCHANGED <<mode, atomic, executors, plan, CurrentMemoryContext>>
------------------------------------------------------------------------------
\* spi_executor.

FreeExecutor(e) ==
  LET used == Live \cup {executors[i] : i \in DOMAIN executors}
                   \cup {connections[i].id : i \in DOMAIN connections}
                   \cup {prepared[m].conn : m \in Prepared}
                   \cup {table[r].by : r \in Tables} \cup {table[r].conn : r \in Tables}
  IN  e \notin used /\ 1 .. e - 1 \subseteq used

\* SPI_connect_ext and the scope of e; only spi_executor may be atomic.
Connect(e, kind, isAtomic) ==
  /\ kind = "nonatomic" => ~isAtomic
  /\ connections' = Append(connections,
       [id |-> e, sub |-> Innermost(nest), atomic |-> isAtomic])
  /\ scopes' = Append(scopes, [kind |-> kind, id |-> e, finished |-> kind = "executor"])

MayOpen(e) == mode = "run" /\ Built /\ Len(scopes) < MaxScopes /\ FreeExecutor(e)

\* The constructor: SPI_connect_ext makes a context of its own current, and
\* CurrentMemoryContext is put back.
Open(e, kind, isAtomic) ==
  /\ MayOpen(e)
  /\ Connect(e, kind, isAtomic)
  /\ executors' = Append(executors, e)
  /\ UNCHANGED <<mode, atomic, nest, data, CurrentMemoryContext>>

\* Mutant of OpenFails: the executor is pushed before it is connected.
OpenFailsPushed(e) ==
  /\ MayOpen(e)
  /\ Raise
  /\ executors' = Append(executors, e)
  /\ UNCHANGED <<scopes, atomic, spi, data, CurrentMemoryContext>>

\* SPI_connect_ext cannot grow its stack: there is nothing to destroy.
OpenFails(e) ==
  /\ MayOpen(e)
  /\ Raise
  /\ UNCHANGED <<scopes, atomic, executors, spi, data, CurrentMemoryContext>>

\* The rest of the constructor of spi_nonatomic_executor: what it throws destroys
\* the spi_executor it has already built.
CheckAtomic ==
  /\ mode = "run" /\ ~Built
  /\ IF atomic THEN Raise /\ UNCHANGED scopes
     ELSE scopes' = [scopes EXCEPT ![Len(scopes)].finished = TRUE] /\ UNCHANGED mode
  /\ UNCHANGED <<atomic, executors, spi, data, CurrentMemoryContext>>

\* The destructor, whose return code nobody looks at.  What the executor returned
\* is not read any longer, but a plan may be.
Close ==
  /\ Inside /\ IsExecutor(Top) /\ (mode = "unwind" \/ Built)
  /\ connections' = IF Finished = {} THEN <<>> ELSE Pop(connections)
  /\ FreePlans(PlansIn(Finished), plan)
  /\ table' = [r \in Tables |->
       IF table[r].by \in {0, Top.id} THEN NoTable
       ELSE [table[r] EXCEPT !.gone = @ \/ table[r].conn \in Finished]]
  /\ CurrentMemoryContext' = IF Finished = {} THEN CurrentMemoryContext ELSE 0
  /\ executors' = Pop(executors)
  /\ scopes' = Pop(scopes)
  /\ UNCHANGED <<mode, atomic, nest, plan>>

\* Mutant of IsCurrent: any executor will do.
IsCurrentAlways(e) == TRUE

\* `executors.top() == this', without which every operation throws.
IsCurrent(e) == executors # <<>> /\ Last(executors) = e

\* An executor in scope may be asked by the code inside of it.
MayAsk(e) == mode = "run" /\ Built /\ e \in Live

\* What SPI runs in: nothing when it is not connected.
Connected == connections # <<>>

\* query(), where rows come back.
Query(e, r) ==
  /\ MayAsk(e) /\ IsCurrent(e) /\ Connected
  /\ table' = [table EXCEPT ![r] =
       [by |-> e, conn |-> Last(connections).id, sub |-> Innermost(nest),
        gone |-> FALSE, undone |-> FALSE]]
  /\ UNCHANGED <<scopes, mode, atomic, executors, spi, plan, prepared, CurrentMemoryContext>>

\* query(), execute() and plan() out of turn, or unconnected.
Refused(e) ==
  /\ MayAsk(e) /\ (~IsCurrent(e) \/ ~Connected)
  /\ Raise
  /\ UNCHANGED <<scopes, atomic, executors, spi, data, CurrentMemoryContext>>

\* The results variable ends, or is read no more.
DropTable(r) ==
  /\ table[r].by # 0
  /\ table' = [table EXCEPT ![r] = NoTable]
  /\ UNCHANGED <<scopes, mode, atomic, executors, spi, plan, prepared, CurrentMemoryContext>>

\* commit() and rollback() of spi_nonatomic_executor: the transaction ends and
\* takes the memory of the atomic connections, which stay on the stack.
EndTransaction(e) ==
  /\ MayAsk(e) /\ IsCurrent(e) /\ Connected
  /\ \E i \in DOMAIN scopes : scopes[i].kind = "nonatomic" /\ scopes[i].id = e
  /\ nest = <<>> /\ ~Last(connections).atomic
  /\ LET C == {connections[i].id : i \in {j \in DOMAIN connections :
                  connections[j].sub = 0 /\ connections[j].atomic}} IN
       /\ "commit alone" \in Duties => C = {}
       /\ FreePlans(PlansIn(C), plan)
       /\ table' = [r \in Tables |-> [table[r] EXCEPT !.gone =
            @ \/ (table[r].by # 0 /\ table[r].conn \in C)]]
  /\ UNCHANGED <<scopes, mode, atomic, executors, spi, plan, CurrentMemoryContext>>
------------------------------------------------------------------------------
\* spi_plan.

FreePrepared(m) ==
  LET used == {n \in Prepared : prepared[n].life # "none"}
  IN  m \notin used /\ 1 .. m - 1 \subseteq used

\* plan() in either form.
Prepare(e, p, m) ==
  /\ MayAsk(e) /\ IsCurrent(e) /\ Connected
  /\ ~plan[p].made /\ FreePrepared(m)
  /\ prepared' = [prepared EXCEPT ![m] =
       [NotPrepared EXCEPT !.life = "live", !.conn = Last(connections).id]]
  /\ plan' = [plan EXCEPT ![p] =
       [made |-> TRUE, of |-> m, kept |-> FALSE, tracked |-> TRUE, released |-> FALSE]]
  /\ UNCHANGED <<scopes, mode, atomic, executors, spi, table, CurrentMemoryContext>>

\* The conversion to SPIPlanPtr throws: the context of the plan is gone.
Gone(p) == plan[p].tracked /\ prepared[plan[p].of].life = "gone"

\* A plan that was moved from, or given away, is not to be used.
MayUse(p) == mode = "run" /\ Built /\ plan[p].made /\ plan[p].tracked /\ ~plan[p].released

\* keep().
Keep(p) ==
  /\ MayUse(p) /\ ~Gone(p)
  /\ prepared' = [prepared EXCEPT ![plan[p].of].saved = TRUE, ![plan[p].of].conn = 0]
  /\ plan' = [plan EXCEPT ![p].kept = TRUE]
  /\ UNCHANGED <<scopes, mode, atomic, executors, spi, table, CurrentMemoryContext>>

\* query() of a plan.
QueryPlan(e, p, r) == MayUse(p) /\ ~Gone(p) /\ Query(e, r)

\* keep(), or query() of a current executor, with a plan that is gone.
UseGone(p) ==
  /\ MayUse(p) /\ Gone(p)
  /\ Raise
  /\ UNCHANGED <<scopes, atomic, executors, spi, data, CurrentMemoryContext>>

\* Mutant of MovePlan: its argument is left to free the plan as well.
MovePlanKeeps(p, q) ==
  /\ MayUse(p) /\ ~plan[q].made
  /\ plan' = [plan EXCEPT ![q] = plan[p], ![p].tracked = FALSE]
  /\ UNCHANGED <<scopes, mode, atomic, executors, spi, prepared, table, CurrentMemoryContext>>

\* The move constructor: the pointer stays in p, its tracker and the duty to
\* free it do not.
MovePlan(p, q) ==
  /\ MayUse(p) /\ ~plan[q].made
  /\ plan' = [plan EXCEPT ![q] = plan[p], ![p].tracked = FALSE, ![p].kept = FALSE]
  /\ UNCHANGED <<scopes, mode, atomic, executors, spi, prepared, table, CurrentMemoryContext>>

\* Mutant of Release: the destructor is not disarmed.
ReleaseArmed(p) ==
  /\ MayUse(p)
  /\ plan' = [plan EXCEPT ![p].released = TRUE]
  /\ prepared' = [prepared EXCEPT ![plan[p].of].raw = plan[p].kept]
  /\ UNCHANGED <<scopes, mode, atomic, executors, spi, table, CurrentMemoryContext>>

\* release(): if the plan was kept, whoever called frees it some day.
Release(p) ==
  /\ MayUse(p)
  /\ plan' = [plan EXCEPT ![p].released = TRUE, ![p].kept = FALSE]
  /\ prepared' = [prepared EXCEPT ![plan[p].of].raw = plan[p].kept]
  /\ UNCHANGED <<scopes, mode, atomic, executors, spi, table, CurrentMemoryContext>>

\* The destructor, in whatever scope the variable is by now.
DestroyPlan(p) ==
  /\ plan[p].made
  /\ plan' = [plan EXCEPT ![p] = NoPlan]
  /\ FreePlans(IF plan[p].kept THEN {plan[p].of} ELSE {}, plan')
  /\ UNCHANGED <<scopes, mode, atomic, executors, spi, table, CurrentMemoryContext>>

\* The caller of release() frees what it was given.
FreeReleased(m) ==
  /\ mode = "run" /\ prepared[m].raw /\ prepared[m].life = "live"
  /\ FreePlans({m}, plan)
  /\ UNCHANGED <<scopes, mode, atomic, executors, spi, plan, table, CurrentMemoryContext>>
------------------------------------------------------------------------------
Next ==
  \/ Enter \/ LeaveTry \/ Caught \/ Throw
  \/ \E s \in Subs : BeginSub(s)
  \/ \E how \in {"committed", "aborted"} :
       LeaveSub(how) \/ \E g \in DOMAIN scopes : FinishSub(g, how)
  \/ \E e \in Executors, kind \in {"executor", "nonatomic"}, isAtomic \in BOOLEAN :
       Open(e, kind, isAtomic)
  \/ \E e \in Executors : OpenFails(e)
  \/ CheckAtomic \/ Close
  \/ \E e \in Executors : Refused(e) \/ EndTransaction(e) \/ \E r \in Tables : Query(e, r)
  \/ \E r \in Tables : DropTable(r)
  \/ \E e \in Executors, p \in Plans, m \in Prepared : Prepare(e, p, m)
  \/ \E p \in Plans : Keep(p) \/ UseGone(p) \/ Release(p) \/ DestroyPlan(p)
  \/ \E p, q \in Plans : MovePlan(p, q)
  \/ \E e \in Executors, p \in Plans, r \in Tables : QueryPlan(e, p, r)
  \/ \E m \in Prepared : FreeReleased(m)

Spec == Init /\ [][Next]_vars

\* Variables of a type are interchangeable.
Symmetry == Permutations(Plans)
------------------------------------------------------------------------------
TypeOK ==
  /\ scopes \in Seq(Scope)
  /\ mode \in {"run", "unwind"} /\ atomic \in BOOLEAN
  /\ executors \in Seq(Executors)
  /\ connections \in Seq(Connection)
  /\ nest \in Seq(Subs)
  /\ plan \in [Plans -> [made : BOOLEAN, of : 0 .. MaxPrepared, kept : BOOLEAN,
                        tracked : BOOLEAN, released : BOOLEAN]]
  /\ prepared \in [Prepared -> [life : {"none", "live", "gone"}, conn : 0 .. MaxExecutors,
                               saved : BOOLEAN, raw : BOOLEAN]]
  /\ table \in [Tables -> [by : 0 .. MaxExecutors, conn : 0 .. MaxExecutors,
                           sub : 0 .. MaxSubs, gone : BOOLEAN, undone : BOOLEAN]]
  /\ CurrentMemoryContext \in 0 .. MaxExecutors

\* Level by level, the executors noted in `executors', those in scope and the
\* connections of SPI are the same, whatever is thrown where, so that the check
\* of one of them speaks for the connection; the caller's connection is never
\* finished for it, and no connection's memory, which goes first, is current.
ConnectionsAreExecutors ==
  LET level(i) == Cardinality({j \in InScope : j <= i})
      callers == Len(connections) - Len(executors)
  IN  /\ Len(executors) = Cardinality(InScope)
      /\ \A i \in InScope : /\ executors[level(i)] = scopes[i].id
                            /\ connections[callers + level(i)].id = scopes[i].id
      /\ callers = 0 \/ (callers = 1 /\ connections[1].id = 0)
      /\ CurrentMemoryContext = 0

\* The rows an executor returned can be read as long as it is in scope and the
\* subtransaction that asked for them has not been rolled back.
ResultsLive ==
  \A r \in Tables : table[r].gone => table[r].undone

\* A saved plan has exactly one who is to free it, a variable or the caller of
\* release(), and no variable frees another one.
SavedPlanHasOneOwner ==
  \A m \in Prepared :
    LET keepers == {p \in Plans : plan[p].of = m /\ plan[p].kept} IN
    IF prepared[m].life = "live" /\ prepared[m].saved
    THEN IF prepared[m].raw THEN keepers = {} ELSE Cardinality(keepers) = 1
    ELSE keepers = {}
===============================================================================
