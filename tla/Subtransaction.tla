---------------------------- MODULE Subtransaction ----------------------------
(****************************************************************************)
(* internal_subtransaction (xact.hpp) and security_context (role.hpp): scope *)
(* guards over the subtransactions of one backend and over its current user. *)
(* The state is the nest of open subtransactions Postgres keeps, the C++     *)
(* scopes (guards, security contexts, try blocks, destructors that run while *)
(* an exception unwinds) and the globals every path must restore.            *)
(*                                                                          *)
(* Subtransaction i stands for its own memory context and resource owner; 0  *)
(* stands for those of the surrounding transaction.  User d is the one that   *)
(* the security context at depth d set, with its flags; 0 is the one before.  *)
(****************************************************************************)
EXTENDS Naturals, Sequences

CONSTANTS
  MaxScopes,            \* bound: nested scopes
  MaxSubs,              \* bound: subtransactions ever begun
  ReleaseFailsInScopeEnd \* whether the release of a destructor may raise an error

ASSUME BoundsAssumption == MaxScopes \in Nat /\ MaxSubs \in Nat
ASSUME FailureAssumption == ReleaseFailsInScopeEnd \in BOOLEAN

VARIABLES
  scopes,                \* C++ scopes, innermost last
  mode,                  \* "run", or "unwind" while an exception leaves scopes
  uncaught,              \* std::uncaught_exceptions()
  nest,                  \* open subtransactions, innermost last
  outcome,               \* what became of each subtransaction
  CurrentMemoryContext,
  CurrentResourceOwner,
  CurrentUser,           \* what SetUserIdAndSecContext set last
  prevUser               \* the user Postgres noted as each subtransaction began

vars == <<scopes, mode, uncaught, nest, outcome, CurrentMemoryContext,
          CurrentResourceOwner, CurrentUser, prevUser>>
users == <<CurrentUser, prevUser>>
globals == <<CurrentMemoryContext, CurrentResourceOwner>>

Subs == 1 .. MaxSubs
Users == 0 .. MaxScopes
Scope == [kind : {"guard", "role", "try", "dtor"}, user : Users, sub : 0 .. MaxSubs, ctx : 0 .. MaxSubs,
          owner : 0 .. MaxSubs, should_commit : BOOLEAN, uncaught : 0 .. MaxScopes + 1,
          finished : BOOLEAN]

Top == scopes[Len(scopes)]
Inside == scopes # <<>>
Pop(s) == SubSeq(s, 1, Len(s) - 1)
Innermost(n) == IF n = <<>> THEN 0 ELSE n[Len(n)]

\* A scope that is not a guard.  (All note the user and the exceptions in flight at
\* their start; only a security context has the one as a member, and a guard the other.)
Plain(kind) ==
  [kind |-> kind, user |-> CurrentUser, sub |-> 0, ctx |-> 0, owner |-> 0, should_commit |-> FALSE,
   uncaught |-> uncaught, finished |-> TRUE]

Init ==
  /\ scopes = <<>> /\ mode = "run" /\ uncaught = 0
  /\ nest = <<>> /\ outcome = [i \in Subs |-> "none"]
  /\ CurrentMemoryContext = 0 /\ CurrentResourceOwner = 0
  /\ CurrentUser = 0 /\ prevUser = [i \in Subs |-> 0]
------------------------------------------------------------------------------
\* The surrounding C++ code.

\* A try block is entered, or, while an exception unwinds, the destructor of
\* some local object runs code of its own.
Enter ==
  /\ Len(scopes) < MaxScopes
  /\ \/ mode = "run" /\ scopes' = Append(scopes, Plain("try"))
     \/ mode = "unwind" /\ scopes' = Append(scopes, Plain("dtor"))
  /\ mode' = "run"
  /\ UNCHANGED <<uncaught, nest, outcome, globals, users>>

\* The block or the destructor ends; after a destructor the unwinding goes on.
Leave ==
  /\ mode = "run" /\ Inside /\ Top.kind \in {"try", "dtor"}
  /\ mode' = IF Top.kind = "dtor" THEN "unwind" ELSE "run"
  /\ scopes' = Pop(scopes)
  /\ UNCHANGED <<uncaught, nest, outcome, globals, users>>

\* Something is there to catch what is thrown now: a try block around it in the
\* same destructor, or around everything.
CanCatch ==
  \E i \in DOMAIN scopes :
    scopes[i].kind = "try" /\ \A j \in i .. Len(scopes) : scopes[j].kind # "dtor"

\* An exception of C++ code, or one that ffi_guard made of a Postgres error.
Throw ==
  /\ mode = "run" /\ CanCatch
  /\ mode' = "unwind" /\ uncaught' = uncaught + 1
  /\ UNCHANGED <<scopes, nest, outcome, globals, users>>

\* The exception reaches a try block.
Catch ==
  /\ mode = "unwind" /\ Inside /\ Top.kind = "try"
  /\ mode' = "run" /\ uncaught' = uncaught - 1
  /\ scopes' = Pop(scopes)
  /\ UNCHANGED <<nest, outcome, globals, users>>

\* MemoryContextSwitchTo(CurTransactionContext), or back.
SwitchContext ==
  /\ mode = "run"
  /\ CurrentMemoryContext' \in {0, Innermost(nest)}
  /\ UNCHANGED <<scopes, mode, uncaught, nest, outcome, CurrentResourceOwner, users>>
------------------------------------------------------------------------------
\* The functions of Postgres that begin and end a subtransaction.

Fresh(i) == outcome[i] = "none" /\ \A j \in 1 .. i - 1 : outcome[j] # "none"

BeginInternalSubTransaction(i) ==
  /\ nest' = Append(nest, i)
  /\ outcome' = [outcome EXCEPT ![i] = "open"]
  /\ prevUser' = [prevUser EXCEPT ![i] = CurrentUser]
  /\ UNCHANGED CurrentUser

\* Both functions end the innermost subtransaction, whatever the caller began; an
\* abort also puts back the user of its beginning.
EndCurrent(how) ==
  /\ nest # <<>>
  /\ nest' = Pop(nest)
  /\ outcome' = [outcome EXCEPT ![Innermost(nest)] = how]
  /\ CurrentUser' = IF how = "aborted" THEN prevUser[Innermost(nest)] ELSE CurrentUser
  /\ prevUser' = [prevUser EXCEPT ![Innermost(nest)] = 0]
------------------------------------------------------------------------------
\* internal_subtransaction.

\* Mutant of Construct: the count of exceptions in flight is not taken.
ConstructUncounted(i, commit) ==
  /\ mode = "run" /\ Len(scopes) < MaxScopes
  /\ BeginInternalSubTransaction(i)
  /\ scopes' = Append(scopes,
       [kind |-> "guard", user |-> CurrentUser, sub |-> i, ctx |-> CurrentMemoryContext,
        owner |-> CurrentResourceOwner, should_commit |-> commit,
        uncaught |-> 0, finished |-> FALSE])
  /\ CurrentResourceOwner' = i
  /\ UNCHANGED <<mode, uncaught, CurrentMemoryContext>>

\* Mutant of Construct: owner is missing from the member initialisers.
ConstructUninitialised(i, commit) ==
  /\ mode = "run" /\ Len(scopes) < MaxScopes
  /\ BeginInternalSubTransaction(i)
  /\ scopes' = Append(scopes,
       [kind |-> "guard", user |-> CurrentUser, sub |-> i, ctx |-> CurrentMemoryContext,
        owner |-> MaxSubs + 1, should_commit |-> commit,
        uncaught |-> uncaught, finished |-> FALSE])
  /\ CurrentResourceOwner' = i
  /\ UNCHANGED <<mode, uncaught, CurrentMemoryContext>>

\* Mutant of Construct: the globals are noted after the subtransaction began.
ConstructNotesLate(i, commit) ==
  /\ mode = "run" /\ Len(scopes) < MaxScopes
  /\ BeginInternalSubTransaction(i)
  /\ scopes' = Append(scopes,
       [kind |-> "guard", user |-> CurrentUser, sub |-> i, ctx |-> i, owner |-> i, should_commit |-> commit,
        uncaught |-> uncaught, finished |-> FALSE])
  /\ CurrentResourceOwner' = i /\ CurrentMemoryContext' = i
  /\ UNCHANGED <<mode, uncaught>>

\* The constructor: the globals and the exceptions in flight are noted, the
\* subtransaction begins, and CurrentMemoryContext (only) is put back.
Construct(i, commit) ==
  /\ mode = "run" /\ Len(scopes) < MaxScopes
  /\ BeginInternalSubTransaction(i)
  /\ scopes' = Append(scopes,
       [kind |-> "guard", user |-> CurrentUser, sub |-> i, ctx |-> CurrentMemoryContext,
        owner |-> CurrentResourceOwner, should_commit |-> commit,
        uncaught |-> uncaught, finished |-> FALSE])
  /\ CurrentResourceOwner' = i
  /\ UNCHANGED <<mode, uncaught, CurrentMemoryContext>>

\* The guard at depth g is the innermost one that still has a subtransaction.
Last(g) ==
  /\ scopes[g].kind = "guard" /\ ~scopes[g].finished
  /\ \A h \in g + 1 .. Len(scopes) : scopes[h].finished

\* restore().
Restore(g) ==
  CurrentMemoryContext' = scopes[g].ctx /\ CurrentResourceOwner' = scopes[g].owner

\* Mutant of Finish: commit() and rollback() do not note that they finished.
FinishUnnoted(g, how) ==
  /\ mode = "run" /\ Last(g)
  /\ EndCurrent(how)
  /\ Restore(g)
  /\ UNCHANGED <<scopes, mode, uncaught>>

\* commit() or rollback() of the innermost unfinished guard, from any scope
\* inside of it.
Finish(g, how) ==
  /\ mode = "run" /\ Last(g)
  /\ EndCurrent(how)
  /\ Restore(g)
  /\ scopes' = [scopes EXCEPT ![g].finished = TRUE]
  /\ UNCHANGED <<mode, uncaught>>

\* ReleaseCurrentSubTransaction raises in commit(): the exception leaves it
\* before restore() and before finished is set.
CommitFails(g) ==
  /\ mode = "run" /\ Last(g) /\ CanCatch
  /\ mode' = "unwind" /\ uncaught' = uncaught + 1
  /\ UNCHANGED <<scopes, nest, outcome, globals, users>>

\* What the destructor does with an unfinished subtransaction.
Verdict(g) ==
  IF uncaught > g.uncaught \/ ~g.should_commit THEN "aborted" ELSE "committed"

\* The destructor, at the end of the scope or while an exception leaves it.  If
\* the release raises, ffi_guard_noexcept makes a WARNING of it and restore()
\* runs with the subtransaction still open.
Destroy(fails) ==
  /\ Inside /\ Top.kind = "guard"
  /\ fails => ReleaseFailsInScopeEnd /\ ~Top.finished /\ Verdict(Top) = "committed"
  /\ IF fails \/ Top.finished THEN UNCHANGED <<nest, outcome, users>>
     ELSE EndCurrent(Verdict(Top))
  /\ IF Top.finished THEN UNCHANGED globals ELSE Restore(Len(scopes))
  /\ scopes' = Pop(scopes)
  /\ UNCHANGED <<mode, uncaught>>
------------------------------------------------------------------------------
\* security_context.

\* Mutant of EnterRole: the user is noted after it was set.
EnterRoleNotesLate ==
  /\ mode = "run" /\ Len(scopes) < MaxScopes
  /\ CurrentUser' = Len(scopes) + 1
  /\ scopes' = Append(scopes, [Plain("role") EXCEPT !.user = CurrentUser'])
  /\ UNCHANGED <<mode, uncaught, nest, outcome, globals, prevUser>>

\* The constructor notes the user and the flags, and sets others.
EnterRole ==
  /\ mode = "run" /\ Len(scopes) < MaxScopes
  /\ scopes' = Append(scopes, Plain("role"))
  /\ CurrentUser' = Len(scopes) + 1
  /\ UNCHANGED <<mode, uncaught, nest, outcome, globals, prevUser>>

\* The destructor, at the end of the scope or while an exception leaves it.
LeaveRole ==
  /\ Inside /\ Top.kind = "role"
  /\ CurrentUser' = Top.user
  /\ scopes' = Pop(scopes)
  /\ UNCHANGED <<mode, uncaught, nest, outcome, globals, prevUser>>
------------------------------------------------------------------------------
Next ==
  \/ Enter \/ Leave \/ Throw \/ Catch \/ SwitchContext \/ EnterRole \/ LeaveRole
  \/ \E i \in Subs, c \in BOOLEAN : Fresh(i) /\ Construct(i, c)
  \/ \E g \in DOMAIN scopes :
       (\E how \in {"committed", "aborted"} : Finish(g, how)) \/ CommitFails(g)
  \/ \E fails \in BOOLEAN : Destroy(fails)

Spec == Init /\ [][Next]_vars
------------------------------------------------------------------------------
TypeOK ==
  /\ scopes \in Seq(Scope)
  /\ mode \in {"run", "unwind"}
  /\ uncaught \in 0 .. MaxScopes + 1
  /\ nest \in Seq(Subs)
  /\ outcome \in [Subs -> {"none", "open", "committed", "aborted"}]
  /\ CurrentMemoryContext \in 0 .. MaxSubs
  /\ CurrentResourceOwner \in 0 .. MaxSubs
  /\ CurrentUser \in Users /\ prevUser \in [Subs -> Users]

Unfinished == {g \in DOMAIN scopes : ~scopes[g].finished}

\* The nest of Postgres is, level by level, that of the guards that have not
\* finished: each guard ends the subtransaction it began, none is ended twice,
\* and none is left open when its scope is gone, whatever is thrown where.
NestIsTheGuards ==
  /\ {nest[k] : k \in DOMAIN nest} = {scopes[g].sub : g \in Unfinished}
  /\ \A k, l \in DOMAIN nest, g, h \in Unfinished :
       nest[k] = scopes[g].sub /\ nest[l] = scopes[h].sub => (k < l <=> g < h)

\* CurrentResourceOwner is at all times that of the innermost open
\* subtransaction, never of one that is over.
OwnerIsInnermost == CurrentResourceOwner = Innermost(nest)

\* CurrentMemoryContext is never that of a subtransaction that was rolled back.
ContextLive ==
  CurrentMemoryContext # 0 => outcome[CurrentMemoryContext] # "aborted"

\* The two globals every path restores (xact.hpp:65).
GlobalsRestored == OwnerIsInnermost /\ ContextLive

\* Whatever scope is left, and however, the user is again the one it began with,
\* although security contexts and aborts of subtransactions both put users back.
\* Only the rollback() of a guard around the scope, called inside of it, has already
\* gone further (role.hpp:67).
RolledBackAround ==
  \E g \in 1 .. Len(scopes) - 1 :
    scopes[g].kind = "guard" /\ scopes[g].finished /\ outcome[scopes[g].sub] = "aborted"

UserRestored ==
  [][Len(scopes') < Len(scopes) => CurrentUser' = Top.user \/ RolledBackAround]_vars

\* A scope left by an exception rolls back, and one left otherwise does what its
\* flag says, also in a destructor that runs while another exception unwinds.
OutcomeMatchesExit ==
  [][Len(scopes') < Len(scopes) /\ Top.kind = "guard" /\ ~Top.finished =>
       outcome'[Top.sub] =
         IF mode = "run" /\ Top.should_commit THEN "committed" ELSE "aborted"]_vars

\* xact.hpp:57: a guard finishes its subtransaction exactly once.  When the
\* release of the destructor fails, nobody is left to finish it.
FinishesExactlyOnce ==
  \A i \in DOMAIN nest :
    \E g \in DOMAIN scopes : scopes[g].sub = nest[i] /\ ~scopes[g].finished
===============================================================================
