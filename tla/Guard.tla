-------------------------------- MODULE Guard --------------------------------
(****************************************************************************)
(* The error bridge between Postgres and C++: ffi_guard, exception_guard,    *)
(* pg_exception and the call stack of postgres_function (guard.hpp,          *)
(* exception.hpp, exception_impl.hpp, error.hpp, function.hpp).              *)
(*                                                                          *)
(* The state is the C stack of one backend.  Postgres code runs in a "try"   *)
(* frame (PostgresMain at the bottom, or any PG_TRY) or below an "ffi" frame *)
(* (an activation of ffi_guard); C++ code runs in an "fn" frame (an          *)
(* activation of postgres_function, with its exception_guard).  A Postgres   *)
(* error longjmps to PG_exception_stack and discards every frame above it    *)
(* without running a destructor; a C++ exception unwinds frame by frame.     *)
(****************************************************************************)
EXTENDS Integers, Sequences, FiniteSets

CONSTANTS
  Plain,        \* memory contexts other than those of captured errors
  MaxDepth,     \* bound: frames on the C stack
  MaxCalls,     \* bound: activations of postgres_function
  MaxErrors,    \* bound: pg_exception objects ever constructed
  CatchByValue  \* whether extension code may write catch (pg_exception e)

ASSUME PlainAssumption == Plain # {}
ASSUME BoundsAssumption ==
  /\ MaxDepth \in Nat \ {0} /\ MaxCalls \in Nat /\ MaxErrors \in Nat
  /\ CatchByValue \in BOOLEAN
ASSUME DisjointAssumption == Plain \cap (1 .. MaxErrors) = {}

VARIABLES
  stack,                \* the C stack, innermost frame last
  mode,                 \* who moves the stack: "run", "jump", "capture", "throw"
  flying,               \* the pg_exception in flight, 0 for any other exception
  PG_exception_stack,   \* depth of the frame whose sigjmp_buf is installed
  error_context_stack,  \* depth of the frame of the newest error callback, 0 if none
  CurrentMemoryContext,
  calls,                \* current_postgres_function::calls
  cxt,                  \* what became of the error_cxt of each pg_exception
  pending,              \* error_cxts that a reset of ErrorContext will delete
  ncalls                \* activations so far, the identity of the next fcinfo

vars == <<stack, mode, flying, PG_exception_stack, error_context_stack,
          CurrentMemoryContext, calls, cxt, pending, ncalls>>

handlers == <<PG_exception_stack, error_context_stack>>
errors == <<cxt, pending>>
activations == <<calls, ncalls>>

ErrIds == 1 .. MaxErrors
Contexts == Plain \cup ErrIds

\* An exception a catch clause holds; a copy shares the error_cxt of its original.
HeldException == [err : ErrIds, copy : BOOLEAN]

Frame == [kind  : {"try", "ffi", "fn"},
          saved : 0 .. MaxDepth,     \* PG_exception_stack to restore
          cb    : 0 .. MaxDepth,     \* error_context_stack to restore
          mcxt  : Contexts,          \* memory context noted on entry
          call  : 0 .. MaxCalls,     \* the fcinfo, 0 in a Postgres frame
          handle: BOOLEAN,           \* current_postgres_function::handle alive
          scope : BOOLEAN,           \* memory_context_scope alive
          held  : Seq(HeldException)]

Handler(f) == f.kind \in {"try", "ffi"}
Top == stack[Len(stack)]
Pop == SubSeq(stack, 1, Len(stack) - 1)
SetTop(f) == [stack EXCEPT ![Len(stack)] = f]

\* Bound: an error is raised only while every ffi_guard it can meet on its way
\* down still finds an unused pg_exception.
CanRaise(spare) ==
  Cardinality({e \in ErrIds : cxt[e] = "none"})
    >= Cardinality({i \in DOMAIN stack : stack[i].kind = "ffi"}) + spare

PgRunning == mode = "run" /\ Handler(Top)
CppRunning == mode = "run" /\ ~Handler(Top)

HandlerFrame(kind) ==
  [kind |-> kind, saved |-> PG_exception_stack, cb |-> error_context_stack,
   mcxt |-> CurrentMemoryContext, call |-> 0, handle |-> FALSE, scope |-> FALSE,
   held |-> <<>>]

\* ~pg_exception: delete_context of error_cxt.  A second delete corrupts.
Delete(c, once, twice) ==
  [e \in ErrIds |->
     IF e \notin once THEN c[e]
     ELSE IF c[e] = "live" /\ e \notin twice THEN "deleted" ELSE "corrupt"]

HeldIn(held) == {held[i].err : i \in DOMAIN held}
CopiesIn(held) == {held[i].err : i \in {j \in DOMAIN held : held[j].copy}}
Destroy(held) == Delete(cxt, HeldIn(held), CopiesIn(held))

Init ==
  /\ \E c \in Plain : CurrentMemoryContext = c
  /\ stack = << [kind |-> "try", saved |-> 0, cb |-> 0, mcxt |-> CurrentMemoryContext,
                 call |-> 0, handle |-> FALSE, scope |-> FALSE, held |-> <<>>] >>
  /\ mode = "run"
  /\ flying = 0
  /\ PG_exception_stack = 1
  /\ error_context_stack = 0
  /\ calls = <<>>
  /\ cxt = [e \in ErrIds |-> "none"]
  /\ pending = {}
  /\ ncalls = 0
------------------------------------------------------------------------------
\* Postgres code: what it may do between the calls cppgres makes and receives.

\* MemoryContextSwitchTo, in any Postgres code.
PgSwitchContext ==
  /\ PgRunning
  /\ CurrentMemoryContext' \in Plain
  /\ UNCHANGED <<stack, mode, flying, handlers, activations, errors>>

\* A Postgres frame links an ErrorContextCallback, or unlinks its own.
PgErrorCallback ==
  /\ PgRunning
  /\ error_context_stack' = IF error_context_stack = Len(stack) THEN Top.cb ELSE Len(stack)
  /\ UNCHANGED <<stack, mode, flying, PG_exception_stack, CurrentMemoryContext,
                 activations, errors>>

Enter(kind) ==
  /\ Len(stack) < MaxDepth
  /\ stack' = Append(stack, HandlerFrame(kind))
  /\ PG_exception_stack' = Len(stack) + 1
  /\ UNCHANGED <<mode, flying, error_context_stack, CurrentMemoryContext, activations,
                 errors>>

\* PG_TRY: an exception block of a procedural language, a PG_FINALLY, ...
PgTry == PgRunning /\ Enter("try")

\* PG_END_TRY without an error.
PgEndTry ==
  /\ PgRunning
  /\ Top.kind = "try" /\ Len(stack) > 1
  /\ error_context_stack # Len(stack)
  /\ stack' = Pop
  /\ PG_exception_stack' = Top.saved
  /\ error_context_stack' = Top.cb
  /\ UNCHANGED <<mode, flying, CurrentMemoryContext, activations, errors>>

\* ereport(ERROR) in Postgres code.
PgError ==
  /\ PgRunning /\ CanRaise(0)
  /\ mode' = "jump"
  /\ UNCHANGED <<stack, flying, handlers, CurrentMemoryContext, activations, errors>>

\* The longjmp lands in a PG_CATCH.  PostgresMain and exception blocks flush the
\* error; a PG_FINALLY re-throws it.  PostgresMain keeps its buffer installed.
LandInTry(rethrows) ==
  /\ mode = "jump"
  /\ LET k == PG_exception_stack
         f == stack[k]
     IN /\ f.kind = "try"
        /\ k = 1 => ~rethrows
        /\ stack' = SubSeq(stack, 1, IF k = 1 THEN 1 ELSE k - 1)
        /\ PG_exception_stack' = IF k = 1 THEN 1 ELSE f.saved
        /\ error_context_stack' = f.cb
        /\ CurrentMemoryContext' = f.mcxt
  /\ mode' = IF rethrows THEN "jump" ELSE "run"
  /\ IF rethrows THEN UNCHANGED errors ELSE pending' = {} /\ cxt' = Delete(cxt, pending, {})
  /\ UNCHANGED <<flying, activations>>
------------------------------------------------------------------------------
\* ffi_guard and the capture of a Postgres error.

\* C++ code calls Postgres through ffi_guard: sigsetjmp and state = 0.
FfiCall == CppRunning /\ Enter("ffi")

\* Mutants of RestoreHandlers.
RestoreCallbacksOnly == error_context_stack' = Top.cb /\ UNCHANGED PG_exception_stack
RestoreBufferOnly == PG_exception_stack' = Top.saved /\ UNCHANGED error_context_stack

\* `defer', which runs however the guard is left.
RestoreHandlers == PG_exception_stack' = Top.saved /\ error_context_stack' = Top.cb

\* The guarded call returns.
FfiReturn ==
  /\ PgRunning
  /\ Top.kind = "ffi"
  /\ error_context_stack # Len(stack)
  /\ stack' = Pop
  /\ RestoreHandlers
  /\ UNCHANGED <<mode, flying, CurrentMemoryContext, activations, errors>>

\* state = 1: the frames above the guard are gone, pg_exception(mcxt) is next.
LandInFfi ==
  /\ mode = "jump"
  /\ stack[PG_exception_stack].kind = "ffi"
  /\ stack' = SubSeq(stack, 1, PG_exception_stack)
  /\ mode' = "capture"
  /\ UNCHANGED <<flying, handlers, CurrentMemoryContext, activations, errors>>

Fresh(e) == cxt[e] = "none" /\ \A d \in 1 .. e - 1 : cxt[d] # "none"

\* Mutant of Captured: the constructor never leaves error_cxt.
CapturedInErrorContext(e) == flying' = e /\ CurrentMemoryContext' = e

\* The record is copied into error_cxt, then the context of the guard is current.
Captured(e) == flying' = e /\ CurrentMemoryContext' = Top.mcxt

\* Mutant of Capture: FlushErrorState is not called once the error is copied.
CaptureWithoutFlush ==
  /\ mode = "capture"
  /\ \E e \in ErrIds :
       /\ Fresh(e) /\ Captured(e)
       /\ cxt' = [cxt EXCEPT ![e] = "live"]
  /\ mode' = "throw"
  /\ UNCHANGED <<stack, handlers, activations, pending>>

\* pg_exception::pg_exception: a context under TopMemoryContext receives the
\* copy and FlushErrorState deletes what earlier rethrows handed to ErrorContext.
Capture ==
  /\ mode = "capture"
  /\ \E e \in ErrIds :
       /\ Fresh(e) /\ Captured(e)
       /\ cxt' = [Delete(cxt, pending, {}) EXCEPT ![e] = "live"]
  /\ pending' = {}
  /\ mode' = "throw"
  /\ UNCHANGED <<stack, handlers, activations>>

\* CopyErrorData itself fails (out of memory) under its own ffi_guard, whose
\* mcxt is the context e just made current: the constructor throws a second
\* pg_exception, e + 1, and no destructor will ever run for e.
CaptureFails ==
  /\ mode = "capture"
  /\ \E e \in ErrIds :
       /\ Fresh(e) /\ e + 1 \in ErrIds /\ CanRaise(1)
       /\ cxt' = [Delete(cxt, pending, {}) EXCEPT ![e] = "live", ![e + 1] = "live"]
       /\ flying' = e + 1
       /\ CurrentMemoryContext' = e
  /\ pending' = {}
  /\ mode' = "throw"
  /\ UNCHANGED <<stack, handlers, activations>>

\* The exception leaves ffi_guard::operator().
UnwindFfi ==
  /\ mode = "throw"
  /\ Top.kind = "ffi"
  /\ stack' = Pop
  /\ RestoreHandlers
  /\ UNCHANGED <<mode, flying, CurrentMemoryContext, activations, errors>>
------------------------------------------------------------------------------
\* postgres_function: prologue, body, catch clauses, exit.

\* fmgr calls a C++ function; until the arguments are converted nothing is
\* pushed on calls.
CallFunction ==
  /\ PgRunning
  /\ Len(stack) < MaxDepth /\ ncalls < MaxCalls
  /\ ncalls' = ncalls + 1
  /\ stack' = Append(stack, [HandlerFrame("fn") EXCEPT !.call = ncalls + 1])
  /\ UNCHANGED <<mode, flying, handlers, CurrentMemoryContext, calls, errors>>

\* Mutant of Push: the handle is a temporary, destroyed as soon as it is made.
PushTemporary == UNCHANGED calls

\* current_postgres_function::push(fc).
Push == calls' = Append(calls, Top.call)

\* The prologue is over: push(fc), and for a set-returning function a
\* memory_context_scope of the per-query context.
EnterBody(set) ==
  /\ CppRunning
  /\ ~Top.handle
  /\ Push
  /\ stack' = SetTop([Top EXCEPT !.handle = TRUE, !.scope = set,
                                 !.mcxt = CurrentMemoryContext])
  /\ IF set THEN CurrentMemoryContext' \in Plain ELSE UNCHANGED CurrentMemoryContext
  /\ UNCHANGED <<mode, flying, handlers, errors, ncalls>>

\* call_info(), which atomic() reads too: the entry on top of calls.
CallInfo == calls[Len(calls)]

\* ~memory_context_scope.
EndScope ==
  CurrentMemoryContext' = IF Top.scope THEN Top.mcxt ELSE CurrentMemoryContext

\* Mutant of PopCalls: it pops whether or not the prologue came to push.
PopCallsAlways == calls' = SubSeq(calls, 1, Len(calls) - 1)

\* ~handle: pops whatever entry is the last.
PopCalls == calls' = IF Top.handle THEN SubSeq(calls, 1, Len(calls) - 1) ELSE calls

\* Mutant of FnReturn: the handle is not destroyed on return.
FnReturnWithoutPop ==
  /\ CppRunning
  /\ Top.handle /\ Top.held = <<>>
  /\ stack' = Pop
  /\ EndScope
  /\ UNCHANGED <<mode, flying, handlers, errors, activations>>

\* The body returns its datum; handle and scope are destroyed.
FnReturn ==
  /\ CppRunning
  /\ Top.handle /\ Top.held = <<>>
  /\ stack' = Pop
  /\ EndScope
  /\ PopCalls
  /\ UNCHANGED <<mode, flying, handlers, errors, ncalls>>

\* report(ERROR, ...) or CHECK_FOR_INTERRUPTS in C++ code: a bare longjmp.
Report ==
  /\ CppRunning /\ CanRaise(0)
  /\ mode' = "jump"
  /\ UNCHANGED <<stack, flying, handlers, CurrentMemoryContext, activations, errors>>

\* C++ code throws an exception of its own.
Throw ==
  /\ CppRunning /\ CanRaise(0)
  /\ mode' = "throw" /\ flying' = 0
  /\ UNCHANGED <<stack, handlers, CurrentMemoryContext, activations, errors>>

\* A catch clause of the body: it holds a pg_exception until it ends.
Catch(copy) ==
  /\ mode = "throw"
  /\ ~Handler(Top) /\ Top.handle
  /\ copy => CatchByValue /\ flying # 0
  /\ stack' = IF flying = 0 THEN stack
              ELSE SetTop([Top EXCEPT !.held = Append(@, [err |-> flying, copy |-> copy])])
  /\ mode' = "run" /\ flying' = 0
  /\ UNCHANGED <<handlers, CurrentMemoryContext, activations, errors>>

Innermost == Top.held[Len(Top.held)]
DropInnermost == SetTop([Top EXCEPT !.held = SubSeq(@, 1, Len(@) - 1)])

\* The catch clause ends and its exception is destroyed.
EndCatch ==
  /\ CppRunning
  /\ Top.held # <<>>
  /\ cxt' = Destroy(<<Innermost>>)
  /\ stack' = DropInnermost
  /\ UNCHANGED <<mode, flying, handlers, CurrentMemoryContext, activations, pending>>

\* `throw;': the original flies on, a copy is destroyed.
ThrowAgain ==
  /\ CppRunning /\ CanRaise(0)
  /\ Top.held # <<>>
  /\ flying' = Innermost.err
  /\ mode' = "throw"
  /\ stack' = DropInnermost
  /\ cxt' = Delete(cxt, CopiesIn(<<Innermost>>), {})
  /\ UNCHANGED <<handlers, CurrentMemoryContext, activations, pending>>

\* e.rethrow() in a catch clause of the body: error_cxt is handed to
\* ErrorContext and ReThrowError longjmps out of the live body.
Rethrow ==
  /\ CppRunning /\ CanRaise(0)
  /\ Top.held # <<>>
  /\ pending' = pending \cup {Innermost.err}
  /\ stack' = DropInnermost
  /\ mode' = "jump"
  /\ UNCHANGED <<flying, handlers, CurrentMemoryContext, activations, cxt>>

\* Mutant of HandOver: a pg_exception is reported as any std::exception.
ReportWhat == UNCHANGED pending /\ cxt' = Destroy(Top.held)

\* Mutant of HandOver: ~pg_exception runs besides the callback of rethrow().
HandOverAndDestroy ==
  /\ pending' = pending \cup ({flying} \ {0})
  /\ cxt' = Delete(Destroy(Top.held), {flying} \ {0}, {})

\* The exceptions of unfinished catch clauses are destroyed; a pg_exception in
\* flight is rethrown, which hands its error_cxt to ErrorContext.
HandOver ==
  /\ pending' = pending \cup ({flying} \ {0})
  /\ cxt' = Destroy(Top.held)

\* Mutant of Escape: no catch (...), the exception goes on unwinding.
EscapeUncaught ==
  /\ mode = "throw" /\ ~Handler(Top)
  /\ EndScope /\ PopCalls
  /\ stack' = Pop
  /\ cxt' = Destroy(Top.held)
  /\ UNCHANGED <<mode, flying, handlers, pending, ncalls>>

\* Mutant of Escape: the clauses for other exceptions are missing, and a
\* noexcept frame stops the program.
EscapeOnlyPgException ==
  /\ mode = "throw" /\ ~Handler(Top)
  /\ flying # 0
  /\ EndScope /\ PopCalls /\ HandOver
  /\ stack' = SetTop([Top EXCEPT !.handle = FALSE, !.scope = FALSE, !.held = <<>>])
  /\ mode' = "jump" /\ flying' = 0
  /\ UNCHANGED <<handlers, ncalls>>

\* The exception leaves the body: the body's locals are destroyed, then the
\* catch clauses of exception_guard rethrow a pg_exception to Postgres, or
\* report(ERROR) any other.
Escape ==
  /\ mode = "throw" /\ ~Handler(Top)
  /\ EndScope /\ PopCalls /\ HandOver
  /\ stack' = SetTop([Top EXCEPT !.handle = FALSE, !.scope = FALSE, !.held = <<>>])
  /\ mode' = "jump" /\ flying' = 0
  /\ UNCHANGED <<handlers, ncalls>>
------------------------------------------------------------------------------
\* The steps an error takes on its way to a handler.
Propagate ==
  \/ \E r \in BOOLEAN : LandInTry(r)
  \/ LandInFfi
  \/ Capture
  \/ CaptureFails
  \/ UnwindFfi
  \/ Escape
  \/ \E c \in BOOLEAN : Catch(c)

Next ==
  \/ PgSwitchContext \/ PgErrorCallback \/ PgTry \/ PgEndTry \/ PgError
  \/ FfiCall \/ FfiReturn
  \/ CallFunction \/ (\E s \in BOOLEAN : EnterBody(s)) \/ FnReturn
  \/ Report \/ Throw \/ EndCatch \/ ThrowAgain \/ Rethrow
  \/ Propagate

Spec == Init /\ [][Next]_vars

\* The processor keeps executing: an error in flight is propagated.
FairSpec == Spec /\ WF_vars(Propagate)
------------------------------------------------------------------------------
\* Types, and which frame each mode finds on top: a C++ exception never unwinds
\* into a Postgres frame, and only an ffi_guard captures a Postgres error.
TypeOK ==
  /\ stack \in Seq(Frame) /\ Len(stack) \in 1 .. MaxDepth
  /\ stack[1].kind = "try"
  /\ mode \in {"run", "jump", "capture", "throw"}
  /\ mode = "capture" => Top.kind = "ffi"
  /\ mode = "throw" => Top.kind \in {"ffi", "fn"}
  /\ flying \in 0 .. MaxErrors
  /\ PG_exception_stack \in 0 .. MaxDepth
  /\ error_context_stack \in 0 .. MaxDepth
  /\ CurrentMemoryContext \in Contexts
  /\ calls \in Seq(0 .. MaxCalls)
  /\ cxt \in [ErrIds -> {"none", "live", "deleted", "corrupt"}]
  /\ pending \subseteq ErrIds
  /\ ncalls \in 0 .. MaxCalls

\* PG_exception_stack always names the innermost live handler, whatever was
\* thrown, caught, reported or skipped by a longjmp: no error ever jumps into a
\* dead sigjmp_buf, and none passes over a guard.
HandlerLive ==
  /\ PG_exception_stack \in DOMAIN stack
  /\ Handler(stack[PG_exception_stack])
  /\ \A i \in PG_exception_stack + 1 .. Len(stack) : ~Handler(stack[i])

\* Whenever an error can be raised, error_context_stack names a callback of a
\* frame that is still there.  (Not so while a pg_exception is being built.)
ErrorCallbacksLive ==
  mode \in {"run", "jump"} =>
    /\ error_context_stack <= Len(stack)
    /\ error_context_stack > 0 => Handler(stack[error_context_stack])

Held == UNION {HeldIn(stack[i].held) : i \in DOMAIN stack}
Alive == (IF flying = 0 THEN {} ELSE {flying}) \cup Held

\* The record of every pg_exception that can still be read, and every context
\* handed to ErrorContext, is live: none is freed twice or used after it was
\* freed, however exceptions nest, are caught, thrown again or rethrown.
ErrorDataValid ==
  /\ \A e \in Alive \cup pending : cxt[e] = "live"
  /\ \A e \in ErrIds : cxt[e] # "corrupt"
  /\ Alive \cap pending = {}

\* No code runs with CurrentMemoryContext deleted.
CurrentContextLive ==
  CurrentMemoryContext \in ErrIds => cxt[CurrentMemoryContext] = "live"

\* Once an error has been handled and code runs again, nothing handed to
\* ErrorContext is left: rethrow() leaks nothing.
Flushed == mode \in {"run", "throw"} => pending = {}

Handles == {i \in DOMAIN stack : stack[i].handle}
Stale == Len(calls) - Cardinality(Handles)

\* ~handle never pops an empty stack of calls.
PopNeverEmpty == Len(calls) >= Cardinality(Handles)

\* An entry of calls goes stale only when a longjmp discards its activation:
\* no return, exception, catch clause or rethrow by exception_guard leaves one.
StaleOnlyByJump == [][mode # "jump" => Stale' = Stale]_vars

\* The place of the body in frame i among the bodies on the stack.
Place(i) == Cardinality({j \in Handles : j <= i})

\* While no longjmp has discarded an activation, calls is exactly the chain of
\* the bodies on the stack, so that call_info() is the running function's.
CallsAreTheBodies ==
  Len(calls) <= Cardinality(Handles) =>
    /\ Len(calls) = Cardinality(Handles)
    /\ \A i \in Handles : calls[Place(i)] = stack[i].call

Leaked == {e \in ErrIds : cxt[e] = "live"} \ (Alive \cup pending)

\* The context of a captured error is lost only when a longjmp discards the
\* frame that holds the exception or when the capture itself fails; returning,
\* unwinding, catching and rethrowing never lose one.
LeakOnlyByJump == [][(mode \in {"run", "throw"}) => Leaked' = Leaked]_vars

\* Every error raised reaches a handler that lets the program go on.
Delivered == (mode # "run") ~> (mode = "run")

\* tests/function.hpp:106 expects call_info() to be the activation that runs;
\* a longjmp over an inner activation leaves the inner one on calls.
CallInfoIsRunningFunction ==
  CppRunning /\ Top.handle => calls # <<>> /\ CallInfo = Top.call

\* exception.hpp:22: error_data() is valid for the lifetime of the exception
\* object; a copy of the exception ends the record of the original.
ErrorDataForLifetime == \A e \in Alive : cxt[e] = "live"
==============================================================================
