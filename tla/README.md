# A verification development for cppgres

cppgres is a header-only C++20 library for writing Postgres extensions.  Its own
logic is the seam between two runtimes with incompatible notions of failure and
ownership: Postgres unwinds by `longjmp`, frees by memory context and keeps its
state in globals; C++ unwinds by exceptions and frees by destructors.  Nearly every
class of the library is a guard over a piece of Postgres state, and what makes the
library correct is what happens when guards nest, are moved, are skipped by a
`longjmp`, or run while something is failing.  This directory models those guards in
TLA+, model-checks them with TLC and proves the most important facts with TLAPS.

Source lines below are those of `src/src/cppgres/`.

## 1. Inventory

| Component | State | Operations | Interacts with | Hard behaviour | What makes it correct |
|---|---|---|---|---|---|
| **Error bridge** `guard.hpp`, `exception*.hpp`, `error.hpp` | `PG_exception_stack`, `error_context_stack`, the C stack, one memory context per captured error, callbacks on `ErrorContext` | `ffi_guard`, `exception_guard`, `pg_exception` (capture, copy, destroy, `rethrow`), `report`, `scope_exit`, `scope_fail` | everything | errors while capturing errors, nested captures, `longjmp` over C++ frames | a jump always lands in a live frame; each record is freed once, never while readable; every error is delivered |
| **postgres_function**, calls stack `function.hpp` 47-354 | `calls`, the current memory context of a set-returning body | prologue, push, body, pop, rows | error bridge, fmgr | pops on the unwinding path, skipped by `longjmp` | `calls` is the chain of live bodies |
| **worker** `threading.hpp` | queue, `done`, `terminated`, mutex, condition variable | `post`, `terminate`, `run` | threads of the extension | notify after unlock, drain versus stop, re-entry from tasks | each task once and in order, no lost wakeup, drain before return |
| **internal_subtransaction** `xact.hpp` 54-134 | the nest of subtransactions, `CurrentMemoryContext`, `CurrentResourceOwner`, counts of exceptions | construct, `commit`, `rollback`, destructor | error bridge, SPI | destructors during unwinding, failing release | each guard ends its own subtransaction once, with the outcome of its exit |
| **transaction** `xact.hpp` 136-179 | transaction block state, active snapshots | construct, `commit`, `rollback`, destructor | background workers | conditional start, unconditional end | what was begun is ended, snapshots balance |
| **Memory contexts** `memory.hpp` | context tree, reset callbacks, shared tracking state, `CurrentMemoryContext` | create, move, delete, reset, `construct`, track, copy, assign, scope | varlena, plans, aggregates | parent deletion, callbacks outliving their argument | no double delete, no callback into freed memory, counts of resets never miss one |
| **SPI** `executor.hpp` | `executors`, SPI connections, plans, tuple tables | connect, finish, `query`, `execute`, `plan`, `keep`, `release`, `commit`, `rollback` | subtransactions, error bridge | abort pops connections, results outlive them | operations reach the connection of their executor; plans freed once |
| **Background workers** `bgw.hpp` | worker slots, handles | register, wait, pid, terminate | postmaster | registration failure, death of worker or postmaster | a pid is that of the worker |
| **Aggregates** `aggregate.hpp` | transition states in the aggregate context | sfunc, ffunc, serial, deserial, combine | parallel query, memory | null states, parallel order, destructors at reset | the result is that of all rows, in any plan |
| **resource_owner, executor_state** | an owned pointer | create, move, release, dispose | transactions | failing disposal, deletion of the parent | disposed of exactly once |
| **security_context** `role.hpp` | user and security context | construct, destroy | subtransactions | abort restores the same state | restored to what surrounds it |
| **Calls and values** `function.hpp` 169-478, `type*.hpp`, `datum.hpp` | a signature compared once, strictness noted once | call, call with arguments, rows of a set, rows of a query | fmgr, SPI | accepted types that differ from the read ones, nulls, sets | what is passed and returned arrives as it was, nulls as nulls |
| **Descriptors and records** `record.hpp` | a shared `TupleDesc`, a flag | create, bless, `set_type`, form, copy, assign, move | functions, Postgres' registry of row types | changes after sharing | a tuple is read by the descriptor it was formed with |
| **Parse nodes** `node.hpp`, the two tables | none, an activation per node | `visit_node`, walkers | error bridge | recursion through C | each node goes to the overload of its tag |
| **syscache, lists, GUC, backend**, reflection, demo | mostly stateless | | | | not modelled, see section 7 |

## 2. Plan

Order: what everything rests on first.

1. `Guard`: the error bridge and the stack of calls.
2. `TaskQueue`, `Worker`: the abstract queue and its refinement.
3. `Subtransaction`: subtransactions and security contexts as nested scopes.
4. `Memory`: owned and tracked contexts, callbacks, objects, varlena values.
5. `Spi`: executors, connections, plans and results over subtransactions.
6. `Aggregate`: serial and parallel plans against the fold of all rows.
7. `Record`, `Call`, `Node`: the data side.

All of these are modelled and checked.  Every one but `Node`, whose only run is a
counterexample, has a module of proofs (`GuardProofs`, `WorkerProofs` and so on), which
states each of its invariants, its action properties and the refinement of `TaskQueue`
as theorems.  What TLC alone shows is liveness.

Left: `transaction` (xact.hpp 136-179) with the block state and the snapshot stack it
would need; a property of `visit_node` that holds, over trees without null cells; the
arithmetic of `result_iterator`.

Composition is by shared guarantee, not by one big
module: `Spi` and `Subtransaction` take from `Guard` that a Postgres error arrives as a
C++ exception in the innermost guard, `Call` that a body that throws is popped, and
`Spi`'s plans rely on `Memory` that a gone pointer is known.  No module uses
RECURSIVE operators.

## 3. Modules

### Guard

The state is one backend's C stack, a sequence of frames.  A `"try"` frame is a
Postgres frame with a `sigjmp_buf` (`PostgresMain` at the bottom, `PG_TRY` blocks), an
`"ffi"` frame is an activation of `ffi_guard`, an `"fn"` frame one of
`postgres_function` with its `exception_guard`.  A frame keeps what its code keeps in
locals: the handler and callbacks to restore, the memory context noted on entry, the
`FunctionCallInfo`, whether the `handle` and the `memory_context_scope` are alive, and
the exceptions its unfinished catch clauses hold.

`mode` says who moves the stack: code runs, an error is between `longjmp` and its
handler, `ffi_guard` is about to build a `pg_exception`, or an exception unwinds.
`cxt` is the life of the memory context of every `pg_exception`, `pending` those
handed to `ErrorContext` by `rethrow()`; a context deleted twice becomes `"corrupt"`.

| Code | Action |
|---|---|
| `ffi_guard::operator()` up to the call | `FfiCall` |
| its return, and its unwinding | `FfiReturn`, `UnwindFfi` |
| `state == 1`, then `pg_exception(mcxt)` | `LandInFfi`, then `Capture` or `CaptureFails` |
| `~pg_exception` | part of `EndCatch`, `ThrowAgain`, `Escape` |
| `rethrow()` | `Rethrow` in extension code, part of `Escape` in `exception_guard` |
| catch clauses of `exception_guard` | `Escape` |
| `report(ERROR)`, `CHECK_FOR_INTERRUPTS` | `Report` |
| `postgres_function`: prologue, `push`, exits | `CallFunction`, `EnterBody`, `FnReturn`, `Escape` |

`Postgres` steps (`Pg*`, `LandInTry`) are external: they are what the code relies on.
Extension code may do anything between the library's operations: throw, catch, throw
again, rethrow, report, call Postgres.  Simplifications: the allocation in `rethrow()`
succeeds; at most one `pg_exception` is in flight (exceptions that cross in destructors
are in `Subtransaction`); a body that throws before `push` is one that throws with
`handle` false.

### Worker and TaskQueue

A critical section of the mutex is one action; what happens outside of it (the
`notify_one` of `post`, the task, the store to `terminated`) is its own.  `runner` is
where the main thread is in `run()`.  A task may post and terminate itself, may never
return to `run()` because an unguarded Postgres error jumps past it (`Abandon`), and
`cv.wait` may wake up for no reason.  Each task is posted once, which names it; `posted`, `ran`
and `owed` are history variables.  `TaskQueue` states what clients may rely on;
`Worker` implements it under the mapping `TQ`.

### Subtransaction

The state is the stack of C++ scopes (guards, security contexts, try blocks, destructors
that run code while an exception unwinds), Postgres' nest of open subtransactions, the
two globals a guard restores and the current user with its flags, `CurrentUser`.
`uncaught` is `std::uncaught_exceptions()`.  `Construct`, `Finish` (both `commit()` and
`rollback()`), `CommitFails` and `Destroy` are the guard, `EnterRole` and `LeaveRole`
are `security_context`; the others are the code around them.  Two assumptions:
explicit `commit()` and `rollback()` are called on the innermost unfinished guard, as
Postgres has no way to end another, and rolling back does not fail (a failing abort is a
PANIC or a FATAL in Postgres).

### Memory

`context` is the tree, `callbacks` the list of reset callbacks of each context, newest
first.  An `owned_memory_context` is a variable of `owner`; a `tracking_memory_context`
is the number of the shared `callback_state` it points to, and the number of its
users is read off the variables that hold it.  A varlena value is a pair of tracked pointers.
A reset or a deletion starts a pass (`cleaning`) whose steps are the callbacks of
Postgres in their order: `TrackReset`, `DestroyObject` and, once none is left, `Wipe`.
`DestroyObject` destroys what the object holds, trackers included, in the middle of the
pass.  A deletion cleans children first and leaves the order of siblings open (`Clean`);
`Without` is a list of callbacks after some were unregistered.

| Code | Action |
|---|---|
| `alloc_set_memory_context`, moves, destructor, `delete` | `NewOwner`, `MoveOwner`, `DestroyOwner`, `Release`, `DeleteContext` |
| `track_memory`, copies, moves, `operator=`, destructor of what holds a tracker | `NewValue`, `Copy`, `Move`, `Assign`, `DestroyValue` |
| `construct()` | `Construct` (and `NewExpanded` for an expanded value) |
| detoasting, in place or copied | `DetoastInPlace`, `DetoastCopy`, `Expand` |
| the callbacks | `TrackReset`, `DestroyObject` |

Assumptions: a context whose parent goes is not owned by a variable that outlives it
(`MayGo`, the hazard at memory.hpp:127 is the caller's); allocation succeeds
(`type.hpp` 126-130); at most one callback struct dangles at a time, and what running it
does is left out, because it is undefined (`Dangling`, memory.hpp:237).
`expanded_varlena` caches its `detoasted_value` without a tracker; that copy is not a
pointer of the model.  `memory_context_allocator` (293-324) is left out.

### Spi

`scopes` holds executors, nonatomic executors, subtransactions and try blocks;
`executors` is the stack of cppgres, `connections` that of SPI.  The end of a
subtransaction pops the connections made in it, down to the first that was not
(`EndSub`, as `AtEOSubXact_SPI` does).  `ConnectionsAreExecutors` counts levels from the
bottom, above the connection the caller may have.  `Open` and `OpenFails` are the constructors, `Close` the
destructors, `Query` and `QueryPlan` every operation that returns results, `Refused` the
check that throws.  Plans are variables (`plan`) and what SPI keeps (`prepared`):
`Prepare`, `Keep`, `MovePlan`, `Release`, `DestroyPlan`.

`Duties` names what the code that uses executors must see to, and what the properties
need: no subtransaction is finished by hand under an executor that was opened in it
("finish late"), and no transaction is ended in a nonatomic executor inside an atomic one
("commit alone", executor.hpp:523).  Left out: a `longjmp` over an executor, failure of
the allocation in `SPI_connect_ext`, a statement that returns no rows (439), the
arithmetic of iterators, use of a moved-from plan and of results after their executor.

### Aggregate

`kind` says whether the state is an object in the aggregate context or converts to a
datum.  A serial plan scans in `"final"`; in a parallel one every worker scans, sends its
state (`Send`, with `aggregate_serial`), and the final process takes the states
in any order (`Take`, `CombineObject`, `CombineDatum`).  A state is the bag of rows it has
seen, so that the fold over all rows, `Exactly(asked)`, is the abstract specification.
`strict` enumerates which support functions were declared STRICT and what nodeAgg skips
for that; `combine` is taken to be non-strict, as in the tests.  The final process is
not one of the workers (`FinalAssumption`).  Left out: a failing
`AggCheckCallContext`, and types that are both convertible and finalizable.

### Record

A `TupleDesc` goes by the name of one of the variables that point to it, which makes the
states canonical.  `After` renames and drops what nobody points to.  `td` and `rec` are
the variables; `Form`, `CopyRecord`, `AssignRecord`, `MoveRecord`, `GetTd` follow who copies
and who shares.  `hearsay` marks a descriptor whose flag says blessed although Postgres never
registered it (the default flag of `tuple_descriptor(TupleDesc, bool)`, as for
SPI results, and copies of const ones): the one exception of `RowTypesRegistered`.
Moved-from variables are not used again.  Attribute values, their number and types, the
memory of a `TupleDesc`, `get_attribute` and composite conversions are left out.

### Call

An SQL declaration, a C++ body and a caller: the executor (`CallSql`), a `function<>`
(`Construct`, then `Replace` may change the strictness under it, then `CallHeld`) or a query
(`QueryRow`).  `Accepts` is `type_traits::is`, `Carried` what reading a datum of one type
as another comes to.  A value is the narrowest integer type that holds it, which is
enough to tell a truncation, or `Garbled`.  `Enter`, `Return`, `Yield`, `YieldRecord` and
`EndSet` are `postgres_function`.

### Node

A stack of activations of `visit_node` over a tree; a tag stands for all tags the tables
and the walkers treat alike.  `Visit` is the entry by C++ type or by void pointer,
`Dispatch` and `After` are the switch and what comes after it, `OwnWalk` and `ForeignWalk`
the walkers.  `OwnWalk` passes a null cell on, which ends the run ("null read").

## 4. Runs

| Run | Bounds | Shows |
|---|---|---|
| `guard` | six frames, two activations, three exceptions, one other context | 449 324 states: the invariants of section 5 and delivery of every error.  Six frames hold `PostgresMain`, a function, a guard, an exception block, an inner function and its guard, the deepest pattern in which the handlers of two functions and a block interact; three exceptions allow one to be held, one to be rethrown and one to be captured. |
| `guard_call_info` | five frames | a counterexample: after a `longjmp` over an inner body an outer one sees the inner call as its own |
| `guard_copy` | four frames | a counterexample: a copy frees the original's record |
| `worker` | two clients and the main thread, three tasks | 5 818 states: order, no lost wakeup, draining, refinement of `TaskQueue`, liveness.  Three tasks are needed for one to run while one waits and one arrives. |
| `subtransaction` | five scopes, three subtransactions | 583 000 states: guards in guards and in security contexts, in destructors during unwinding, with try blocks; outcome, globals and user are those the exit calls for |
| `subtransaction_release` | three scopes, two subtransactions | a counterexample: a failing release in a destructor leaves its subtransaction open |
| `memory` | two contexts besides the top, two tracking states, one object, two owners, two values | 3.0 million states: no pointer is handed out after its memory went, callbacks and trackers stay in step, no double delete, objects die with their context.  Two trackers and two values give every sharing (same state, same context, one inside an object of the other's context); a tracker outlives, precedes and straddles a reset. |
| `spi` | four scopes, three executors, two subtransactions, one prepared plan, two plan variables, one result | 1.3 million states: an executor, one inside a subtransaction inside it and one failing to open, with a plan moved, kept and released in between |
| `aggregate` | three processes, three rows | 175 000 states: a process without rows, one with one, one with several, and every order of combination |
| `record` | two descriptors, two records, two row types | 62 000 states: two records that share, one of them reassigned, while a third party keeps the descriptor |
| `call` | `int4`, `int8`, `float4`, `float8`, at most one argument, two rows | 2.2 million states: every pair of SQL and C++ types, null or not, STRICT or not, called and returning in each way.  Arguments are independent of each other in the code, so that one shows what several do; a set's second row is the one that is not compared. |
| `node_visit` | three nodes, two children each | a counterexample: a known node is reported as unknown |

The known exceptions of the code are part of the properties, in the words of the property:
`QueryOutcome` (a non-strict serial function and a process without rows),
`ResultsLive` (results of a rolled-back subtransaction), `UserRestored` (a `rollback()`
called inside the scope it surrounds), `RowTypesRegistered` (`hearsay`), `ResultsArrive` and
`ArgumentsArrive` (`float4` read as `double`, types.hpp 90-94 and 234-237; a result
wider than declared, 62-94; records after the first, function.hpp 262-277),
`StrictSeesNoNull` (strictness is that of the construction, 411).

Fairness.  `Guard` assumes only that a processor that is propagating an error goes on
(`WF` of `Propagate`).  `Worker` assumes that a thread inside `post()` or `run()` is
scheduled and that a task ends (`WF` of `PostNotify` and `Runner`); nothing is
assumed of callers, of spurious wakeups, or of who gets the mutex.  The other modules
state safety only: their code is sequential and makes no promise of progress.

Deadlock is not checked where a query, a call or a traversal ends (`aggregate`, `call`,
`node_visit`); elsewhere something can always happen.

## 5. Proofs

Each module of proofs has the theorems of one component, for every value of its
constants: any depth of nesting, any number of variables, contexts, threads or rows.
The bounds of section 4 are constants there too, so a theorem holds for each of them.
The assumptions are those the modules state on their constants, and the few hypotheses
named below.  In every module one inductive invariant carries the properties the
runs check, which are seldom inductive by themselves.

**`GuardProofs`.**  `HandlerLive` (the installed `sigjmp_buf` is that of the innermost
live handler) does not say what a guard restores when it is left.  `Inv` adds the `Shape`
of the stack: the bottom frame is `PostgresMain`, a guard is directly above C++
code, and what each handler noted is the innermost handler below it.  Every operation
cuts the stack, pushes a frame or rewrites the innermost C++ frame, and there is one
lemma about shape for each.  On top of it come, each with a lemma per step:

* `ErrorCallbacksAreLive`: what each frame restores to `error_context_stack` is a
  callback of a frame below it;
* `ErrorDataIsValid`, `CurrentContextIsLive`, `LeaksOnlyByJump`: the memory context of an
  error has one owner (a frame, what is in flight, or `ErrorContext`), it is live as long
  as it is owned, and no frame runs in it or returns to it.  Hypothesis: nobody catches
  by value (`~CatchByValue`); `guard_copy` shows that it is needed;
* `ErrorContextIsFlushed`;
* `CallsNeverPoppedEmpty`, `StaleEntriesOnlyByJump`, `CallsListTheBodies`: a step keeps
  `calls` and the live handles, pushes the innermost frame's entry or pops it
  (`Tracks`); only a `longjmp` removes frames and leaves `calls` alone (`Skips`).
  `CallsAreTheBodies` numbers the bodies by their `Place` on the stack.

**`WorkerProofs`.**  `Inv` joins the four invariants with what relates `runner`, `done`
and the history variables.  `WorkerImplementsTaskQueue` takes each step to a step of
`TaskQueue` or a stutter.

**`SubtransactionProofs`.**  `Inv` has three parts.  `CountInv` relates
`uncaught_exceptions()` to the scopes that noted it: a destructor's scope begins with one
more, and `mode` adds the last; it is what the verdict of a guard depends on.  `NestInv`
says that the nest is that of the unfinished guards and that each noted the owner,
context and user of the level around it.  `UsersKept` says that up to the next
security context, and up to the innermost guard that was rolled back by hand,
everyone sees the same user.  All but the type invariant suppose that no release
fails in a destructor (`~ReleaseFailsInScopeEnd`); `subtransaction_release` shows that it
is needed.

**`MemoryProofs`.**  `Lists` says that a callback struct is on the list of one context,
once; `Guarded` that a tracker that has not counted a reset still has its struct in the
context of every pointer it guards.  `GoneIsKnown` and `CallbacksPaired` follow because
a reset runs all structs of a context before memory goes.  `Without` is a
recursive function over a list: what it computes is shown by induction on the length, as a
fact about a set of naturals (`SetInduction`), because the induction theorems of the
library take an operator.

**`SpiProofs`.**  The comparison level by level is not inductive, because a
subtransaction may end under a connection.  `Aligned` adds that each connection was made
outside of any subtransaction, or in one whose scope is unfinished and below that of its
executor; `NestOf` that the nest is that of the unfinished scopes, with numbers that
grow.  So the subtransaction that ends has no connection of its own left
(`NoneMadeInside`), and `EndSub` pops none.  Hypotheses: "finish late", and "commit
alone" for `ResultsStayLive`.  Plans need neither: `Owned` says that two variables never
track one plan, that a raw pointer is out only when its variable was released, and that a
saved plan is somebody's.

**`AggregateProofs`.**  While the query runs, every row is in exactly one place: still to
be scanned, in a transition state, or in a message (`OnePlace`); rows with a null stay where
they are (`NullsStay`).  Every step moves rows from one place to another (`Moves`), so
that the final state holds each once.

**`RecordProofs`.**  `Apart` says that a `TupleDesc` that a record reads its tuple by may be
changed by no variable, and no other by two.  The invariant is stated of any addresses,
to speak of the state before `After` names them, and one lemma says that naming preserves it.

**`CallProofs`.**  `Phases` says which parts of the state are there at each point of a call;
`CallerOK` that a `function<>` that was not refused keeps the signature of its function.

Only model-checked:

* liveness (`Delivered`, `EveryTaskRuns`, `TerminateEndsRun`), which rests on fairness and
  ENABLED and is outside of the prover;
* the counterexamples, and `Node` as a whole, which has no other run.

## 6. Findings

* `guard_call_info`: `current_postgres_function::calls` keeps the entry of a body that a
  `longjmp` skipped, so `call_info()` and `atomic()` of the outer function read a
  dead `FunctionCallInfo`.
* `guard_copy`: `pg_exception` is copyable although its destructor deletes what copies
  share.
* `subtransaction_release`: a guard whose release fails in the destructor does not
  finish its subtransaction.
* `node_visit`: `visit_node(void *)` goes on to "unknown node tag" after a known tag was
  dispatched.

Seen while reading, without a run of their own: `nodes::...::allocate` writes the tag over
the pointer it returns (node.hpp:87); the walker of `List` passes null cells to
`nodeTag` (204); `datum_conversion<record>::into_datum` returns a `HeapTuple` where a
composite datum is a `HeapTupleHeader`; assignment to a `tracking_memory_context` leaves
its callback behind (memory.hpp:237).

## 7. Not modelled

* **transaction** (xact.hpp 136-179): straight calls at the top of a background worker.
  Its hazard, a destructor that ends what its constructor did not begin, needs the block
  state and the snapshot stack of Postgres, which nothing else here shares.
* **Background workers**: setters of a struct and single calls; what is hard, slots that
  the postmaster reuses, lies wholly in Postgres.  The unchecked results are listed as
  hazards.
* **resource_owner, executor_state**: one owned pointer each, of the pattern of `OneOwner`.
* **syscache, GUC, backend**: one or two forwarding calls, no state.
* **Reflection and demo**: the vendored `pfr.hpp` (7157 lines), `function_traits`,
  `maybe_ref` and the demo's generator compute at compile time.  They are most of the lines
  no definition is mapped to.
* **Bytes**: text, bytea, names, collations and the layout of tuples.

Postgres itself is modelled only as far as the library relies on it; such definitions are
marked external.
