------------------------- MODULE SubtransactionProofs -------------------------
(****************************************************************************)
(* Theorems about Subtransaction, for any nesting of guards, security         *)
(* contexts, try blocks and destructors.                                     *)
(****************************************************************************)
EXTENDS Subtransaction, SequenceTheorems, TLAPS

\* Exceptions in flight are those that were when the innermost scope began, and one
\* that leaves it; a destructor begins with the one that runs it.
Counted(s) ==
  \A i \in 1 .. Len(s) :
    s[i].uncaught = (IF i = 1 THEN 0 ELSE s[i - 1].uncaught) +
                    (IF s[i].kind = "dtor" THEN 1 ELSE 0)

InFlight(s) == IF s = <<>> THEN 0 ELSE s[Len(s)].uncaught

CountInv ==
  /\ Len(scopes) <= MaxScopes
  /\ Counted(scopes)
  /\ \A i \in 1 .. Len(scopes) : scopes[i].uncaught \in 0 .. i
  /\ uncaught = InFlight(scopes) + (IF mode = "unwind" THEN 1 ELSE 0)

TypeInv == TypeOK /\ CountInv

\* Only guards are unfinished, and a finished one has ended its subtransaction.
GuardsOnly ==
  \A g \in 1 .. Len(scopes) :
    /\ ~scopes[g].finished => scopes[g].kind = "guard"
    /\ scopes[g].kind = "guard" => scopes[g].sub \in Subs
    /\ scopes[g].kind = "guard" /\ scopes[g].finished =>
         outcome[scopes[g].sub] \in {"committed", "aborted"}

\* What a guard will restore belongs to the level around its subtransaction.
Around(k) == IF k = 1 THEN 0 ELSE nest[k - 1]
Noted ==
  \A g \in Unfinished, k \in DOMAIN nest :
    nest[k] = scopes[g].sub =>
      /\ scopes[g].owner = Around(k)
      /\ scopes[g].ctx = 0 \/ \E j \in 1 .. k - 1 : scopes[g].ctx = nest[j]
      /\ prevUser[nest[k]] = scopes[g].user

NestOpen == \A k \in DOMAIN nest : outcome[nest[k]] = "open"
ContextInNest ==
  CurrentMemoryContext = 0 \/ \E k \in DOMAIN nest : CurrentMemoryContext = nest[k]

NestInv ==
  GuardsOnly /\ NestIsTheGuards /\ Noted /\ NestOpen /\ ContextInNest /\ OwnerIsInnermost

\* The user directly inside scope g, and the one noted by scope j, now for the next.
UserIn(g) ==
  IF g = 0 THEN 0 ELSE IF scopes[g].kind = "role" THEN g ELSE scopes[g].user
UserAt(j) == IF j <= Len(scopes) THEN scopes[j].user ELSE CurrentUser
RolledBack(g) ==
  scopes[g].kind = "guard" /\ scopes[g].finished /\ outcome[scopes[g].sub] = "aborted"

\* Up to the next security context, and up to the innermost guard that was rolled
\* back by hand, everyone sees the user directly inside scope g.
UsersKept ==
  \A g \in 0 .. Len(scopes), j \in 1 .. Len(scopes) + 1 :
    /\ g < j
    /\ \A i \in 1 .. g - 1 : ~RolledBack(i)
    /\ \A i \in g + 1 .. j - 1 : scopes[i].kind # "role"
    => UserAt(j) = UserIn(g)

Inv == TypeInv /\ NestInv /\ UsersKept
------------------------------------------------------------------------------
LEMMA Popped ==
  ASSUME NEW S, NEW s \in Seq(S), s # <<>>
  PROVE  /\ Pop(s) \in Seq(S) /\ Len(Pop(s)) = Len(s) - 1
         /\ Len(s) \in Nat \ {0} /\ s[Len(s)] \in S
         /\ \A i \in 1 .. Len(s) - 1 : Pop(s)[i] = s[i]
<1>1. PICK n \in Nat \ {0} : n = Len(s)
  OBVIOUS
<1>2. \A i \in 1 .. n : s[i] \in S
  BY <1>1
<1>3. SubSeq(s, 1, n - 1) \in Seq(S) /\ Len(SubSeq(s, 1, n - 1)) = n - 1
  BY <1>1
<1>4. \A i \in 1 .. n - 1 : SubSeq(s, 1, n - 1)[i] = s[i]
  BY <1>1, <1>2
<1> QED
  BY <1>1, <1>2, <1>3, <1>4 DEF Pop

LEMMA Pushed ==
  ASSUME NEW S, NEW s \in Seq(S), NEW e \in S
  PROVE  /\ Append(s, e) \in Seq(S) /\ Len(Append(s, e)) = Len(s) + 1
         /\ Len(s) \in Nat
         /\ Append(s, e)[Len(s) + 1] = e
         /\ \A i \in 1 .. Len(s) : Append(s, e)[i] = s[i]
OBVIOUS

\* Marking a guard as finished changes nothing else.
LEMMA Marked ==
  ASSUME NEW s \in Seq(Scope), NEW g \in 1 .. Len(s)
  PROVE  LET t == [s EXCEPT ![g].finished = TRUE]
         IN  /\ t \in Seq(Scope) /\ Len(t) = Len(s)
             /\ t[g] = [s[g] EXCEPT !.finished = TRUE]
             /\ \A i \in 1 .. Len(s) : i # g => t[i] = s[i]
<1>1. s[g] \in Scope
  OBVIOUS
<1>2. [s[g] EXCEPT !.finished = TRUE] \in Scope
  BY <1>1 DEF Scope
<1> DEFINE t == [s EXCEPT ![g] = [s[g] EXCEPT !.finished = TRUE]]
<1>3. /\ t \in Seq(Scope) /\ Len(t) = Len(s)
      /\ \A i \in 1 .. Len(s) : t[i] = IF i = g THEN [s[g] EXCEPT !.finished = TRUE] ELSE s[i]
  BY <1>2, ExceptSeq
<1> QED
  BY <1>3
------------------------------------------------------------------------------
\* Types, and the count of exceptions.

LEMMA CountPush ==
  ASSUME TypeInv, NEW f \in Scope, Len(scopes) < MaxScopes,
         scopes' = Append(scopes, f),
         f.uncaught = InFlight(scopes) + (IF f.kind = "dtor" THEN 1 ELSE 0),
         uncaught' = f.uncaught, mode' = "run"
  PROVE  CountInv' /\ scopes' \in Seq(Scope) /\ uncaught' \in 0 .. MaxScopes + 1
<1>1. /\ scopes \in Seq(Scope) /\ scopes' \in Seq(Scope)
      /\ Len(scopes) \in Nat /\ Len(scopes') = Len(scopes) + 1
      /\ scopes'[Len(scopes) + 1] = f
      /\ \A i \in 1 .. Len(scopes) : scopes'[i] = scopes[i]
  BY Pushed DEF TypeInv, TypeOK
<1>2. f.uncaught \in 0 .. Len(scopes) + 1
  BY <1>1 DEF InFlight, TypeInv, CountInv
<1>3. Counted(scopes')
  BY <1>1 DEF Counted, InFlight, TypeInv, CountInv
<1>4. \A i \in 1 .. Len(scopes') : scopes'[i].uncaught \in 0 .. i
  BY <1>1, <1>2 DEF TypeInv, CountInv
<1>5. InFlight(scopes') = f.uncaught
  BY <1>1 DEF InFlight
<1> QED
  BY <1>1, <1>2, <1>3, <1>4, <1>5, BoundsAssumption DEF CountInv, InFlight

LEMMA CountPop ==
  ASSUME TypeInv, Inside, scopes' = Pop(scopes),
         uncaught' = Top.uncaught - (IF Top.kind = "dtor" THEN 1 ELSE 0) +
                     (IF mode' = "unwind" THEN 1 ELSE 0)
  PROVE  CountInv' /\ scopes' \in Seq(Scope) /\ uncaught' \in 0 .. MaxScopes + 1
<1>1. /\ scopes \in Seq(Scope) /\ scopes' \in Seq(Scope)
      /\ Len(scopes) \in Nat \ {0} /\ Len(scopes') = Len(scopes) - 1
      /\ \A i \in 1 .. Len(scopes) - 1 : scopes'[i] = scopes[i]
  BY Popped DEF TypeInv, TypeOK, Inside
<1>2. Counted(scopes')
  <2>1. \A i \in 1 .. Len(scopes') : i \in 1 .. Len(scopes) /\ scopes'[i] = scopes[i]
    BY <1>1
  <2>2. \A i \in 2 .. Len(scopes') : scopes'[i - 1] = scopes[i - 1]
    BY <1>1
  <2> QED
    BY <2>1, <2>2, <1>1 DEF Counted, TypeInv, CountInv
<1>3. \A i \in 1 .. Len(scopes') : scopes'[i].uncaught \in 0 .. i
  BY <1>1 DEF TypeInv, CountInv
<1>4. InFlight(scopes') = Top.uncaught - (IF Top.kind = "dtor" THEN 1 ELSE 0)
  BY <1>1 DEF InFlight, Top, Counted, TypeInv, CountInv
<1>5. InFlight(scopes') \in 0 .. MaxScopes
  BY <1>1, <1>3, BoundsAssumption DEF InFlight, TypeInv, CountInv
<1>6. uncaught' = InFlight(scopes') + (IF mode' = "unwind" THEN 1 ELSE 0)
  BY <1>1, <1>4 DEF TypeInv, CountInv, Top
<1>7. Len(scopes') <= MaxScopes
  BY <1>1, BoundsAssumption DEF TypeInv, CountInv
<1> QED
  BY <1>1, <1>2, <1>3, <1>5, <1>6, <1>7, BoundsAssumption DEF CountInv

LEMMA PlainType ==
  ASSUME TypeInv, Len(scopes) < MaxScopes, NEW kind \in {"role", "try", "dtor"}
  PROVE  /\ Plain(kind) \in Scope
         /\ Plain(kind).kind = kind /\ Plain(kind).uncaught = uncaught
         /\ Plain(kind).user = CurrentUser /\ Plain(kind).finished
BY BoundsAssumption DEF Plain, Scope, TypeInv, TypeOK, Users

\* The parts of a guard's frame that a step writes have their types.
LEMMA InnermostType ==
  ASSUME TypeOK
  PROVE  /\ nest # <<>> => Innermost(nest) \in Subs /\ Pop(nest) \in Seq(Subs)
         /\ Innermost(nest) \in 0 .. MaxSubs
         /\ MaxSubs \in Nat /\ MaxScopes \in Nat
<1>1. CASE nest = <<>>
  BY <1>1, BoundsAssumption DEF Innermost
<1>2. CASE nest # <<>>
  BY <1>2, Popped, BoundsAssumption DEF Innermost, TypeOK, Subs
<1> QED
  BY <1>1, <1>2

LEMMA TopType ==
  ASSUME TypeInv, Inside
  PROVE  /\ Top \in Scope /\ Top = scopes[Len(scopes)]
         /\ Len(scopes) \in 1 .. MaxScopes
         /\ uncaught = Top.uncaught + (IF mode = "unwind" THEN 1 ELSE 0)
BY Popped, BoundsAssumption DEF Top, Inside, TypeInv, TypeOK, CountInv, InFlight

LEMMA EndCurrentType ==
  ASSUME TypeOK, NEW how \in {"committed", "aborted"}, EndCurrent(how)
  PROVE  /\ nest' \in Seq(Subs)
         /\ outcome' \in [Subs -> {"none", "open", "committed", "aborted"}]
         /\ CurrentUser' \in Users /\ prevUser' \in [Subs -> Users]
<1>1. Innermost(nest) \in Subs /\ Pop(nest) \in Seq(Subs) /\ 0 \in Users
  BY InnermostType DEF EndCurrent, Users
<1> QED
  BY <1>1 DEF EndCurrent, TypeOK

LEMMA TypeInit == Init => TypeInv
<1> SUFFICES ASSUME Init PROVE TypeInv
  OBVIOUS
<1>1. <<>> \in Seq(Scope) /\ <<>> \in Seq(Subs) /\ Len(<<>>) = 0
  OBVIOUS
<1>2. TypeOK
  BY <1>1, BoundsAssumption DEF Init, TypeOK, Users, Subs
<1>3. CountInv
  BY <1>1, BoundsAssumption DEF Init, CountInv, Counted, InFlight
<1> QED
  BY <1>2, <1>3 DEF TypeInv

LEMMA TypeConstruct ==
  ASSUME TypeInv, NEW i \in Subs, NEW commit \in BOOLEAN, Construct(i, commit)
  PROVE  TypeInv'
<1> DEFINE f == [kind |-> "guard", user |-> CurrentUser, sub |-> i,
                 ctx |-> CurrentMemoryContext, owner |-> CurrentResourceOwner,
                 should_commit |-> commit, uncaught |-> uncaught, finished |-> FALSE]
<1>1. f \in Scope
  BY BoundsAssumption DEF Scope, TypeInv, TypeOK, Subs
<1>2. /\ scopes' = Append(scopes, f) /\ Len(scopes) < MaxScopes
      /\ f.uncaught = uncaught /\ f.kind = "guard"
      /\ UNCHANGED <<uncaught, mode>> /\ mode = "run"
  BY DEF Construct
<1> HIDE DEF f
<1>3. uncaught = InFlight(scopes)
  BY <1>2 DEF TypeInv, CountInv, InFlight, TypeOK
<1>4. f.uncaught = InFlight(scopes) + (IF f.kind = "dtor" THEN 1 ELSE 0)
  BY <1>1, <1>2, <1>3 DEF Scope
<1>5. CountInv' /\ scopes' \in Seq(Scope) /\ uncaught' \in 0 .. MaxScopes + 1
  BY <1>1, <1>2, <1>4, CountPush
<1>6. nest' \in Seq(Subs)
  BY DEF Construct, BeginInternalSubTransaction, TypeInv, TypeOK
<1>7. TypeOK'
  BY <1>2, <1>5, <1>6 DEF Construct, BeginInternalSubTransaction, TypeInv, TypeOK, Subs
<1> QED
  BY <1>5, <1>7 DEF TypeInv

\* A try block, a destructor or a security context is entered.
LEMMA TypeEnter ==
  ASSUME TypeInv, Enter \/ EnterRole
  PROVE  TypeInv'
<1>1. PICK kind \in {"role", "try", "dtor"} :
        /\ scopes' = Append(scopes, Plain(kind)) /\ Len(scopes) < MaxScopes
        /\ mode = (IF kind = "dtor" THEN "unwind" ELSE "run") /\ mode' = "run"
        /\ uncaught' = uncaught
        /\ UNCHANGED <<nest, outcome, globals, prevUser>>
        /\ CurrentUser' \in {CurrentUser, Len(scopes) + 1}
  BY DEF Enter, EnterRole, users
<1>2. Plain(kind) \in Scope /\ Plain(kind).kind = kind /\ Plain(kind).uncaught = uncaught
  BY <1>1, PlainType
<1>3. uncaught = InFlight(scopes) + (IF kind = "dtor" THEN 1 ELSE 0)
  BY <1>1 DEF TypeInv, CountInv
<1>4. CountInv' /\ scopes' \in Seq(Scope) /\ uncaught' \in 0 .. MaxScopes + 1
  BY <1>1, <1>2, <1>3, CountPush
<1>5. CurrentUser' \in Users
  BY <1>1, BoundsAssumption DEF TypeInv, TypeOK, Users
<1>6. TypeOK'
  BY <1>1, <1>4, <1>5 DEF TypeInv, TypeOK, globals
<1> QED
  BY <1>4, <1>6 DEF TypeInv

\* A scope is left, by its end or by an exception.
LEMMA TypeLeave ==
  ASSUME TypeInv, Leave \/ Catch \/ LeaveRole \/ (\E fails \in BOOLEAN : Destroy(fails))
  PROVE  TypeInv'
<1>1. /\ Inside /\ scopes' = Pop(scopes) /\ mode' \in {"run", "unwind"}
      /\ uncaught' = Top.uncaught - (IF Top.kind = "dtor" THEN 1 ELSE 0) +
                      (IF mode' = "unwind" THEN 1 ELSE 0)
  <2>1. Inside
    BY DEF Leave, Catch, LeaveRole, Destroy
  <2>a. Top.uncaught \in Nat
    <3>1. Top \in Scope
      BY <2>1, TopType
    <3> QED
      BY <3>1, BoundsAssumption DEF Scope
  <2>2. /\ Top.uncaught \in Nat /\ mode \in {"run", "unwind"}
        /\ uncaught = Top.uncaught + (IF mode = "unwind" THEN 1 ELSE 0)
    BY <2>1, <2>a, TopType DEF TypeInv, TypeOK
  <2>3. CASE Leave
    BY <2>1, <2>2, <2>3 DEF Leave
  <2>4. CASE Catch
    BY <2>1, <2>2, <2>4 DEF Catch
  <2>5. CASE LeaveRole \/ (\E fails \in BOOLEAN : Destroy(fails))
    BY <2>1, <2>2, <2>5 DEF LeaveRole, Destroy
  <2> QED
    BY <2>3, <2>4, <2>5
<1>2. CountInv' /\ scopes' \in Seq(Scope) /\ uncaught' \in 0 .. MaxScopes + 1
  BY <1>1, CountPop
<1>3. Top \in Scope
  BY <1>1, TopType
<1>4. /\ nest' \in Seq(Subs)
      /\ outcome' \in [Subs -> {"none", "open", "committed", "aborted"}]
      /\ CurrentUser' \in Users /\ prevUser' \in [Subs -> Users]
  <2>1. CASE Leave \/ Catch \/ LeaveRole
    BY <1>3, <2>1 DEF Leave, Catch, LeaveRole, users, TypeInv, TypeOK, Scope
  <2>2. CASE \E fails \in BOOLEAN : Destroy(fails)
    BY <2>2, EndCurrentType DEF Destroy, Verdict, users, TypeInv, TypeOK
  <2> QED
    BY <2>1, <2>2
<1>5. CurrentMemoryContext' \in 0 .. MaxSubs /\ CurrentResourceOwner' \in 0 .. MaxSubs
  <2>1. scopes[Len(scopes)] \in Scope
    BY <1>1, TopType
  <2> QED
    BY <2>1 DEF Leave, Catch, LeaveRole, Destroy, Restore, globals, TypeInv, TypeOK, Scope
<1>6. TypeOK'
  BY <1>1, <1>2, <1>4, <1>5 DEF TypeOK
<1> QED
  BY <1>2, <1>6 DEF TypeInv

\* commit() and rollback().
LEMMA TypeFinish ==
  ASSUME TypeInv, NEW g \in DOMAIN scopes, NEW how \in {"committed", "aborted"},
         Finish(g, how)
  PROVE  TypeInv'
<1>1. scopes \in Seq(Scope) /\ g \in 1 .. Len(scopes) /\ scopes[g] \in Scope
  BY DEF TypeInv, TypeOK
<1>2. /\ scopes' \in Seq(Scope) /\ Len(scopes') = Len(scopes)
      /\ \A i \in 1 .. Len(scopes) :
           scopes'[i].kind = scopes[i].kind /\ scopes'[i].uncaught = scopes[i].uncaught
  BY <1>1, Marked DEF Finish, Scope
<1>3. CountInv'
  <2>1. Counted(scopes')
    <3>1. \A i \in 2 .. Len(scopes) : scopes'[i - 1].uncaught = scopes[i - 1].uncaught
      BY <1>1, <1>2
    <3> SUFFICES ASSUME NEW i \in 1 .. Len(scopes)
                 PROVE  scopes'[i].uncaught =
                          (IF i = 1 THEN 0 ELSE scopes'[i - 1].uncaught) +
                          (IF scopes'[i].kind = "dtor" THEN 1 ELSE 0)
      BY <1>2 DEF Counted
    <3>2. scopes[i].uncaught =
            (IF i = 1 THEN 0 ELSE scopes[i - 1].uncaught) +
            (IF scopes[i].kind = "dtor" THEN 1 ELSE 0)
      BY DEF TypeInv, CountInv, Counted
    <3>3. CASE i = 1
      BY <1>2, <3>2, <3>3
    <3>4. CASE i # 1
      <4>1. i \in 2 .. Len(scopes)
        BY <1>1, <3>4
      <4> QED
        BY <1>2, <3>1, <3>2, <3>4, <4>1
    <3> QED
      BY <3>3, <3>4
  <2>2. InFlight(scopes') = InFlight(scopes)
    BY <1>1, <1>2 DEF InFlight
  <2> QED
    BY <1>2, <2>1, <2>2 DEF TypeInv, CountInv, Finish
<1>4. /\ nest' \in Seq(Subs)
      /\ outcome' \in [Subs -> {"none", "open", "committed", "aborted"}]
      /\ CurrentUser' \in Users /\ prevUser' \in [Subs -> Users]
  BY EndCurrentType DEF Finish, TypeInv
<1>5. TypeOK'
  BY <1>1, <1>2, <1>4 DEF Finish, Restore, TypeInv, TypeOK, Scope
<1> QED
  BY <1>3, <1>5 DEF TypeInv

\* Steps that change the mode or a global only.
LEMMA TypeOther ==
  ASSUME TypeInv,
         Throw \/ SwitchContext \/ (\E g \in DOMAIN scopes : CommitFails(g)) \/ UNCHANGED vars
  PROVE  TypeInv'
<1>1. UNCHANGED <<scopes, nest, outcome, users, CurrentResourceOwner>>
  BY DEF Throw, SwitchContext, CommitFails, vars, users, globals
<1>2. CurrentMemoryContext' \in 0 .. MaxSubs
  BY InnermostType DEF Throw, SwitchContext, CommitFails, vars, users, globals, TypeInv, TypeOK
<1>3. \/ UNCHANGED <<mode, uncaught>>
      \/ mode = "run" /\ mode' = "unwind" /\ uncaught' = uncaught + 1
  BY DEF Throw, SwitchContext, CommitFails, vars
<1>4. InFlight(scopes) \in 0 .. MaxScopes
  BY BoundsAssumption DEF TypeInv, TypeOK, CountInv, InFlight
<1>5. uncaught' \in 0 .. MaxScopes + 1 /\ CountInv'
  BY <1>1, <1>3, <1>4, BoundsAssumption DEF TypeInv, CountInv, TypeOK
<1>6. TypeOK'
  BY <1>1, <1>2, <1>3, <1>5 DEF TypeInv, TypeOK, users
<1> QED
  BY <1>5, <1>6 DEF TypeInv

\* Every step is one of these.
LEMMA NextCases ==
  ASSUME [Next]_vars
  PROVE  \/ \E i \in Subs, c \in BOOLEAN : Fresh(i) /\ Construct(i, c)
         \/ Enter \/ EnterRole
         \/ Leave \/ Catch \/ LeaveRole \/ (\E fails \in BOOLEAN : Destroy(fails))
         \/ \E g \in DOMAIN scopes, how \in {"committed", "aborted"} : Finish(g, how)
         \/ Throw \/ SwitchContext \/ (\E g \in DOMAIN scopes : CommitFails(g))
         \/ UNCHANGED vars
BY DEF Next

LEMMA TypeNext == TypeInv /\ [Next]_vars => TypeInv'
BY NextCases, TypeConstruct, TypeEnter, TypeLeave, TypeFinish, TypeOther

\* The state of the model keeps its type, also when a release fails.
THEOREM SubtransactionTypes == Spec => []TypeOK
<1>1. TypeInv => TypeOK
  BY DEF TypeInv
<1> QED
  BY <1>1, TypeInit, TypeNext, PTL DEF Spec

------------------------------------------------------------------------------
\* The nest of subtransactions and the guards, when no release of a destructor fails.

LEMMA Domains ==
  ASSUME TypeOK
  PROVE  /\ DOMAIN nest = 1 .. Len(nest) /\ Len(nest) \in Nat
         /\ DOMAIN scopes = 1 .. Len(scopes) /\ Len(scopes) \in Nat
         /\ \A k \in 1 .. Len(nest) : nest[k] \in Subs
         /\ \A g \in 1 .. Len(scopes) : scopes[g] \in Scope
BY DEF TypeOK

\* A subtransaction that a guard began is at one level of the nest.
LEMMA LevelOf ==
  ASSUME TypeOK, NestIsTheGuards, NEW g \in Unfinished
  PROVE  \E k \in 1 .. Len(nest) : nest[k] = scopes[g].sub
<1>1. scopes[g].sub \in {nest[k] : k \in DOMAIN nest}
  BY DEF NestIsTheGuards
<1> QED
  BY <1>1, Domains

LEMMA GuardOf ==
  ASSUME TypeOK, NestIsTheGuards, NEW k \in 1 .. Len(nest)
  PROVE  \E g \in Unfinished : nest[k] = scopes[g].sub
<1>1. nest[k] \in {nest[l] : l \in DOMAIN nest}
  BY Domains
<1> QED
  BY <1>1 DEF NestIsTheGuards

\* The subtransaction Postgres ends is that of the innermost unfinished guard.
LEMMA InnermostGuard ==
  ASSUME TypeOK, NestIsTheGuards, NEW g \in Unfinished, \A h \in Unfinished : h <= g
  PROVE  /\ nest # <<>> /\ Len(nest) \in Nat \ {0}
         /\ nest[Len(nest)] = scopes[g].sub /\ Innermost(nest) = scopes[g].sub
<1>1. PICK k \in 1 .. Len(nest) : nest[k] = scopes[g].sub
  BY LevelOf
<1>2. nest # <<>> /\ Len(nest) \in Nat \ {0} /\ Len(nest) \in 1 .. Len(nest)
  BY <1>1, Domains
<1>3. PICK h \in Unfinished : nest[Len(nest)] = scopes[h].sub
  BY <1>2, GuardOf
<1>4. k < Len(nest) <=> g < h
  BY <1>1, <1>2, <1>3, Domains DEF NestIsTheGuards
<1>5. h <= g /\ g \in Nat /\ h \in Nat
  BY <1>3, Domains DEF Unfinished
<1>6. k = Len(nest)
  BY <1>1, <1>2, <1>4, <1>5
<1> QED
  BY <1>1, <1>2, <1>6 DEF Innermost

\* No subtransaction is in the nest twice.
LEMMA NestOnce ==
  ASSUME TypeOK, NestIsTheGuards,
         NEW k \in 1 .. Len(nest), NEW l \in 1 .. Len(nest), nest[k] = nest[l]
  PROVE  k = l
<1>1. PICK g \in Unfinished : nest[k] = scopes[g].sub
  BY GuardOf
<1>2. k \in DOMAIN nest /\ l \in DOMAIN nest /\ g \in Nat
  BY Domains DEF Unfinished
<1>3. (k < l <=> g < g) /\ (l < k <=> g < g)
  BY <1>1, <1>2 DEF NestIsTheGuards
<1> QED
  BY <1>2, <1>3

\* A step that leaves the unfinished guards and the nest alone.
LEMMA NestSame ==
  ASSUME TypeInv, NestInv, Unfinished' = Unfinished,
         \A g \in Unfinished : scopes'[g] = scopes[g],
         UNCHANGED <<nest, outcome, prevUser, CurrentResourceOwner>>,
         CurrentMemoryContext' \in {CurrentMemoryContext, 0, Innermost(nest)}
  PROVE  (NestIsTheGuards /\ Noted /\ NestOpen /\ ContextInNest /\ OwnerIsInnermost)'
<1>1. NestIsTheGuards'
  <2>1. {scopes'[g].sub : g \in Unfinished'} = {scopes[g].sub : g \in Unfinished}
    OBVIOUS
  <2>2. \A k, l \in DOMAIN nest', g, h \in Unfinished' :
          nest'[k] = scopes'[g].sub /\ nest'[l] = scopes'[h].sub => (k < l <=> g < h)
    BY DEF NestInv, NestIsTheGuards
  <2> QED
    BY <2>1, <2>2 DEF NestInv, NestIsTheGuards
<1>2. Noted'
  BY DEF NestInv, Noted, Around
<1>3. NestOpen' /\ OwnerIsInnermost'
  BY DEF NestInv, NestOpen, OwnerIsInnermost
<1>4. ContextInNest'
  <2>1. Innermost(nest) = 0 \/ \E k \in DOMAIN nest : Innermost(nest) = nest[k]
    <3>1. CASE nest = <<>>
      BY <3>1 DEF Innermost
    <3>2. CASE nest # <<>>
      <4>1. Len(nest) \in DOMAIN nest
        BY <3>2 DEF TypeInv, TypeOK
      <4> QED
        BY <3>2, <4>1 DEF Innermost
    <3> QED
      BY <3>1, <3>2
  <2> QED
    BY <2>1 DEF NestInv, ContextInNest
<1> QED
  BY <1>1, <1>2, <1>3, <1>4

\* A subtransaction begins: a new level of the nest, and a new innermost guard.
LEMMA NestConstruct ==
  ASSUME TypeInv, NestInv, NEW i \in Subs, NEW commit \in BOOLEAN,
         Fresh(i), Construct(i, commit)
  PROVE  NestInv'
<1> DEFINE f == [kind |-> "guard", user |-> CurrentUser, sub |-> i,
                 ctx |-> CurrentMemoryContext, owner |-> CurrentResourceOwner,
                 should_commit |-> commit, uncaught |-> uncaught, finished |-> FALSE]
           n == Len(nest)
           m == Len(scopes)
<1>a. f \in Scope
  BY BoundsAssumption DEF Scope, TypeInv, TypeOK, Subs
<1>b. /\ f.kind = "guard" /\ f.user = CurrentUser /\ f.sub = i
      /\ f.ctx = CurrentMemoryContext /\ f.owner = CurrentResourceOwner /\ ~f.finished
  OBVIOUS
<1>1. /\ scopes' = Append(scopes, f) /\ nest' = Append(nest, i)
      /\ outcome' = [outcome EXCEPT ![i] = "open"]
      /\ prevUser' = [prevUser EXCEPT ![i] = CurrentUser]
      /\ CurrentResourceOwner' = i /\ CurrentMemoryContext' = CurrentMemoryContext
      /\ outcome[i] = "none"
  BY DEF Construct, BeginInternalSubTransaction, Fresh
<1> HIDE DEF f
<1>2. /\ DOMAIN scopes = 1 .. m /\ m \in Nat /\ DOMAIN scopes' = 1 .. m + 1
      /\ scopes'[m + 1] = f /\ \A g \in 1 .. m : scopes'[g] = scopes[g]
      /\ DOMAIN nest = 1 .. n /\ n \in Nat /\ DOMAIN nest' = 1 .. n + 1
      /\ nest'[n + 1] = i /\ \A k \in 1 .. n : nest'[k] = nest[k]
      /\ Len(nest') = n + 1 /\ Len(scopes') = m + 1 /\ nest' # <<>>
  <2>1. scopes \in Seq(Scope) /\ nest \in Seq(Subs)
    BY DEF TypeInv, TypeOK
  <2>2. /\ scopes' \in Seq(Scope) /\ Len(scopes') = m + 1 /\ m \in Nat
        /\ scopes'[m + 1] = f /\ \A g \in 1 .. m : scopes'[g] = scopes[g]
    BY <1>a, <1>1, <2>1, Pushed
  <2>3. /\ nest' \in Seq(Subs) /\ Len(nest') = n + 1 /\ n \in Nat
        /\ nest'[n + 1] = i /\ \A k \in 1 .. n : nest'[k] = nest[k]
    BY <1>1, <2>1, Pushed
  <2> QED
    BY <2>1, <2>2, <2>3
<1>3. outcome'[i] = "open" /\ \A j \in Subs \ {i} : outcome'[j] = outcome[j]
  BY <1>1 DEF TypeInv, TypeOK
<1>4. \A k \in 1 .. n : nest[k] # i /\ nest[k] \in Subs
  BY <1>1, <1>2, Domains DEF NestInv, NestOpen, TypeInv
<1>5. Unfinished' = Unfinished \cup {m + 1} /\ \A g \in Unfinished : g \in 1 .. m
  BY <1>b, <1>2 DEF Unfinished
<1>6. \A g \in Unfinished : scopes[g].sub # i /\ scopes'[g] = scopes[g]
  BY <1>2, <1>4, <1>5, LevelOf DEF NestInv, TypeInv
<1> HIDE DEF n, m
<1>7. GuardsOnly'
  <2> SUFFICES ASSUME NEW g \in 1 .. m + 1
               PROVE  /\ ~scopes'[g].finished => scopes'[g].kind = "guard"
                      /\ scopes'[g].kind = "guard" => scopes'[g].sub \in Subs
                      /\ scopes'[g].kind = "guard" /\ scopes'[g].finished =>
                           outcome'[scopes'[g].sub] \in {"committed", "aborted"}
    BY <1>2 DEF GuardsOnly
  <2>1. CASE g = m + 1
    BY <1>b, <1>2, <2>1
  <2>2. CASE g # m + 1
    <3>1. g \in 1 .. m /\ scopes'[g] = scopes[g]
      BY <1>2, <2>2
    <3>2. /\ ~scopes[g].finished => scopes[g].kind = "guard"
          /\ scopes[g].kind = "guard" => scopes[g].sub \in Subs
          /\ scopes[g].kind = "guard" /\ scopes[g].finished =>
               outcome[scopes[g].sub] \in {"committed", "aborted"}
      BY <3>1 DEF NestInv, GuardsOnly, m
    <3> QED
      BY <1>1, <1>3, <3>1, <3>2
  <2> QED
    BY <2>1, <2>2
<1>8. NestIsTheGuards'
  <2>1. {nest'[k] : k \in DOMAIN nest'} = {nest[k] : k \in DOMAIN nest} \cup {i}
    BY <1>2
  <2>2. {scopes'[g].sub : g \in Unfinished'} = {scopes[g].sub : g \in Unfinished} \cup {i}
    BY <1>b, <1>2, <1>5, <1>6
  <2>3. ASSUME NEW k \in DOMAIN nest', NEW l \in DOMAIN nest',
               NEW g \in Unfinished', NEW h \in Unfinished',
               nest'[k] = scopes'[g].sub, nest'[l] = scopes'[h].sub
        PROVE  k < l <=> g < h
    <3>1. k = n + 1 <=> g = m + 1
      BY <1>b, <1>2, <1>4, <1>5, <1>6, <2>3
    <3>2. l = n + 1 <=> h = m + 1
      BY <1>b, <1>2, <1>4, <1>5, <1>6, <2>3
    <3>3. CASE k # n + 1 /\ l # n + 1
      <4>1. k \in 1 .. n /\ l \in 1 .. n /\ g \in Unfinished /\ h \in Unfinished
        BY <1>2, <1>5, <3>1, <3>2, <3>3
      <4>2. nest[k] = scopes[g].sub /\ nest[l] = scopes[h].sub
        BY <1>2, <1>6, <2>3, <4>1
      <4> QED
        BY <1>2, <4>1, <4>2 DEF NestInv, NestIsTheGuards
    <3>4. CASE k = n + 1 \/ l = n + 1
      <4>1. k \in 1 .. n + 1 /\ l \in 1 .. n + 1 /\ g \in 1 .. m + 1 /\ h \in 1 .. m + 1
        BY <1>2, <1>5
      <4> QED
        BY <1>2, <3>1, <3>2, <3>4, <4>1
    <3> QED
      BY <3>3, <3>4
  <2> QED
    BY <2>1, <2>2, <2>3 DEF NestInv, NestIsTheGuards
<1>9. Noted'
  <2> SUFFICES ASSUME NEW g \in Unfinished', NEW k \in DOMAIN nest', nest'[k] = scopes'[g].sub
               PROVE  /\ scopes'[g].owner = (IF k = 1 THEN 0 ELSE nest'[k - 1])
                      /\ scopes'[g].ctx = 0 \/ \E j \in 1 .. k - 1 : scopes'[g].ctx = nest'[j]
                      /\ prevUser'[nest'[k]] = scopes'[g].user
    BY DEF Noted, Around
  <2>1. CASE k = n + 1
    <3>1. g = m + 1
      BY <1>2, <1>5, <1>6, <2>1
    <3>2. scopes'[g] = f
      BY <1>2, <3>1
    <3>3. CurrentResourceOwner = IF n = 0 THEN 0 ELSE nest[n]
      BY <1>2 DEF NestInv, OwnerIsInnermost, Innermost, n, TypeInv, TypeOK
    <3>4. n # 0 => nest'[n] = nest[n]
      BY <1>2
    <3>5. prevUser'[i] = CurrentUser
      BY <1>1 DEF TypeInv, TypeOK
    <3>6. CurrentMemoryContext = 0 \/ \E j \in 1 .. n : CurrentMemoryContext = nest[j]
      BY <1>2 DEF NestInv, ContextInNest
    <3> QED
      BY <1>b, <1>2, <2>1, <3>2, <3>3, <3>4, <3>5, <3>6
  <2>2. CASE k # n + 1
    <3>1. k \in 1 .. n /\ nest'[k] = nest[k]
      BY <1>2, <2>2
    <3>2. g \in Unfinished /\ scopes'[g] = scopes[g]
      BY <1>b, <1>2, <1>4, <1>5, <1>6, <3>1
    <3>3. /\ scopes[g].owner = (IF k = 1 THEN 0 ELSE nest[k - 1])
          /\ scopes[g].ctx = 0 \/ \E j \in 1 .. k - 1 : scopes[g].ctx = nest[j]
          /\ prevUser[nest[k]] = scopes[g].user
      <4>1. k \in DOMAIN nest /\ nest[k] = scopes[g].sub
        BY <1>2, <3>1, <3>2
      <4>2. Around(k) = (IF k = 1 THEN 0 ELSE nest[k - 1])
        BY DEF Around
      <4> QED
        BY <3>2, <4>1, <4>2 DEF NestInv, Noted
    <3>4. \A j \in 1 .. k - 1 : nest'[j] = nest[j]
      BY <1>2, <3>1
    <3>5. k # 1 => nest'[k - 1] = nest[k - 1]
      BY <1>2, <3>1
    <3>6. prevUser'[nest[k]] = prevUser[nest[k]]
      BY <1>1, <1>4, <3>1 DEF TypeInv, TypeOK
    <3> QED
      BY <3>1, <3>2, <3>3, <3>4, <3>5, <3>6
  <2> QED
    BY <2>1, <2>2
<1>10. NestOpen'
  BY <1>2, <1>3, <1>4 DEF NestInv, NestOpen
<1>11. ContextInNest'
  BY <1>1, <1>2 DEF NestInv, ContextInNest
<1>12. OwnerIsInnermost'
  BY <1>1, <1>2 DEF OwnerIsInnermost, Innermost
<1> QED
  BY <1>7, <1>8, <1>9, <1>10, <1>11, <1>12 DEF NestInv
\* Any other scope is entered: it has no subtransaction of its own.
LEMMA NestEnter ==
  ASSUME TypeInv, NestInv, Enter \/ EnterRole
  PROVE  NestInv'
<1>1. PICK kind \in {"role", "try", "dtor"} :
        /\ scopes' = Append(scopes, Plain(kind)) /\ Len(scopes) < MaxScopes
        /\ UNCHANGED <<nest, outcome, globals, prevUser>>
  BY DEF Enter, EnterRole, users
<1>2. Plain(kind) \in Scope /\ Plain(kind).kind # "guard" /\ Plain(kind).finished
  BY <1>1, PlainType
<1>3. /\ DOMAIN scopes = 1 .. Len(scopes) /\ Len(scopes) \in Nat
      /\ DOMAIN scopes' = 1 .. Len(scopes) + 1 /\ Len(scopes') = Len(scopes) + 1
      /\ scopes'[Len(scopes) + 1] = Plain(kind)
      /\ \A g \in 1 .. Len(scopes) : scopes'[g] = scopes[g]
  <2>1. scopes \in Seq(Scope)
    BY DEF TypeInv, TypeOK
  <2>2. scopes' \in Seq(Scope) /\ Len(scopes') = Len(scopes) + 1
    BY <1>1, <1>2, <2>1, Pushed
  <2> QED
    BY <1>1, <1>2, <2>1, <2>2, Pushed
<1>4. Unfinished' = Unfinished /\ \A g \in Unfinished : scopes'[g] = scopes[g]
  BY <1>2, <1>3 DEF Unfinished
<1>5. GuardsOnly'
  BY <1>1, <1>2, <1>3 DEF NestInv, GuardsOnly
<1> QED
  BY <1>1, <1>4, <1>5, NestSame DEF NestInv, globals

\* A scope is left whose subtransaction, if it had one, is over.
LEMMA NestLeave ==
  ASSUME TypeInv, NestInv,
         Leave \/ Catch \/ LeaveRole \/ (Top.finished /\ \E fails \in BOOLEAN : Destroy(fails))
  PROVE  NestInv'
<1>1. /\ Inside /\ scopes' = Pop(scopes)
      /\ UNCHANGED <<nest, outcome, globals, prevUser>>
      /\ Top.finished \/ Top.kind # "guard"
  BY DEF Leave, Catch, LeaveRole, Destroy, users
<1>2. /\ scopes \in Seq(Scope) /\ Len(scopes) \in Nat \ {0}
      /\ scopes' \in Seq(Scope) /\ Len(scopes') = Len(scopes) - 1
      /\ \A g \in 1 .. Len(scopes) - 1 : scopes'[g] = scopes[g]
  BY <1>1, Popped DEF TypeInv, TypeOK, Inside
<1>3. Top.finished
  BY <1>1, <1>2 DEF NestInv, GuardsOnly, Top
<1>4. DOMAIN scopes = 1 .. Len(scopes) /\ DOMAIN scopes' = 1 .. Len(scopes) - 1
  BY <1>2
<1>5. Unfinished' = Unfinished /\ \A g \in Unfinished : scopes'[g] = scopes[g]
  BY <1>2, <1>3, <1>4 DEF Unfinished, Top
<1>6. GuardsOnly'
  BY <1>1, <1>2 DEF NestInv, GuardsOnly
<1> QED
  BY <1>1, <1>5, <1>6, NestSame DEF NestInv, globals

\* The innermost unfinished guard ends its subtransaction and restores what it noted.
LEMMA NestEnd ==
  ASSUME TypeInv, NestInv, NEW g \in Unfinished, \A h \in Unfinished : h <= g,
         NEW how \in {"committed", "aborted"}, EndCurrent(how), Restore(g),
         Unfinished' = Unfinished \ {g}, \A h \in Unfinished' : scopes'[h] = scopes[h]
  PROVE  (NestIsTheGuards /\ Noted /\ NestOpen /\ ContextInNest /\ OwnerIsInnermost)'
<1>1. PICK n \in Nat \ {0} : n = Len(nest)
  BY InnermostGuard DEF TypeInv, NestInv
<1>2. nest # <<>> /\ nest[n] = scopes[g].sub /\ Innermost(nest) = scopes[g].sub
  BY <1>1, InnermostGuard DEF TypeInv, NestInv
<1>3. /\ nest' \in Seq(Subs) /\ Len(nest') = n - 1
      /\ \A k \in 1 .. n - 1 : nest'[k] = nest[k]
  BY <1>1, <1>2, Popped DEF EndCurrent, TypeInv, TypeOK
<1>4. DOMAIN nest = 1 .. n /\ DOMAIN nest' = 1 .. n - 1
  BY <1>1, <1>3, Domains DEF TypeInv
<1>5. /\ \A k \in 1 .. n - 1 : nest[k] # nest[n]
      /\ \A k \in 1 .. n : nest[k] \in Subs
  BY <1>1, <1>4, NestOnce, Domains DEF NestInv, TypeInv
<1>6. \A k \in 1 .. n - 1 :
        outcome'[nest[k]] = outcome[nest[k]] /\ prevUser'[nest[k]] = prevUser[nest[k]]
  BY <1>2, <1>5 DEF EndCurrent, TypeInv, TypeOK
<1>7. \A h \in Unfinished : scopes[h].sub = nest[n] => h = g
  <2> SUFFICES ASSUME NEW h \in Unfinished, scopes[h].sub = nest[n] PROVE h = g
    OBVIOUS
  <2>1. n < n <=> h < g
    BY <1>2, <1>4 DEF NestInv, NestIsTheGuards
  <2>2. h \in Nat /\ g \in Nat /\ h <= g
    BY Domains DEF Unfinished, TypeInv
  <2> QED
    BY <2>1, <2>2
<1>8. NestIsTheGuards'
  <2>1. {nest'[k] : k \in DOMAIN nest'} = {nest[k] : k \in DOMAIN nest} \ {nest[n]}
    BY <1>3, <1>4, <1>5
  <2>2. {scopes'[h].sub : h \in Unfinished'} = {scopes[h].sub : h \in Unfinished} \ {nest[n]}
    BY <1>2, <1>7
  <2>3. \A k, l \in DOMAIN nest', h1, h2 \in Unfinished' :
          nest'[k] = scopes'[h1].sub /\ nest'[l] = scopes'[h2].sub => (k < l <=> h1 < h2)
    BY <1>3, <1>4 DEF NestInv, NestIsTheGuards
  <2> QED
    BY <2>1, <2>2, <2>3 DEF NestInv, NestIsTheGuards
<1>9. Noted'
  <2> SUFFICES ASSUME NEW h \in Unfinished', NEW k \in DOMAIN nest', nest'[k] = scopes'[h].sub
               PROVE  /\ scopes'[h].owner = (IF k = 1 THEN 0 ELSE nest'[k - 1])
                      /\ scopes'[h].ctx = 0 \/ \E j \in 1 .. k - 1 : scopes'[h].ctx = nest'[j]
                      /\ prevUser'[nest'[k]] = scopes'[h].user
    BY DEF Noted, Around
  <2>1. /\ k \in 1 .. n - 1 /\ k \in DOMAIN nest /\ nest'[k] = nest[k]
        /\ h \in Unfinished /\ scopes'[h] = scopes[h]
    BY <1>3, <1>4
  <2>2. /\ scopes[h].owner = (IF k = 1 THEN 0 ELSE nest[k - 1])
        /\ scopes[h].ctx = 0 \/ \E j \in 1 .. k - 1 : scopes[h].ctx = nest[j]
        /\ prevUser[nest[k]] = scopes[h].user
    <3>1. Around(k) = (IF k = 1 THEN 0 ELSE nest[k - 1]) /\ nest[k] = scopes[h].sub
      BY <2>1 DEF Around
    <3> QED
      BY <2>1, <3>1 DEF NestInv, Noted
  <2>3. \A j \in 1 .. k - 1 : nest'[j] = nest[j]
    BY <1>3, <2>1
  <2>4. k # 1 => nest'[k - 1] = nest[k - 1]
    BY <1>3, <2>1
  <2> QED
    BY <1>6, <2>1, <2>2, <2>3, <2>4
<1>10. NestOpen'
  BY <1>3, <1>4, <1>6 DEF NestInv, NestOpen
<1>11. /\ scopes[g].owner = (IF n = 1 THEN 0 ELSE nest[n - 1])
       /\ scopes[g].ctx = 0 \/ \E j \in 1 .. n - 1 : scopes[g].ctx = nest[j]
  BY <1>2, <1>4 DEF NestInv, Noted, Around
<1>12. ContextInNest'
  BY <1>3, <1>4, <1>11 DEF ContextInNest, Restore
<1>13. OwnerIsInnermost'
  <2>1. CASE n = 1
    <3>1. nest' = <<>>
      BY <1>3, <2>1
    <3> QED
      BY <1>11, <2>1, <3>1 DEF OwnerIsInnermost, Innermost, Restore
  <2>2. CASE n # 1
    <3>1. nest' # <<>> /\ nest'[n - 1] = nest[n - 1]
      BY <1>3, <2>2
    <3> QED
      BY <1>3, <1>11, <2>2, <3>1 DEF OwnerIsInnermost, Innermost, Restore
  <2> QED
    BY <2>1, <2>2
<1> QED
  BY <1>8, <1>9, <1>10, <1>12, <1>13

\* Ending a subtransaction takes no outcome of a finished guard back.
LEMMA OutcomesStay ==
  ASSUME TypeInv, NEW how \in {"committed", "aborted"}, EndCurrent(how), NEW i \in Subs,
         outcome[i] \in {"committed", "aborted"} \/ i = Innermost(nest)
  PROVE  outcome'[i] \in {"committed", "aborted"}
BY DEF EndCurrent, TypeInv, TypeOK

\* commit() and rollback().
LEMMA NestFinish ==
  ASSUME TypeInv, NestInv, NEW g \in DOMAIN scopes, NEW how \in {"committed", "aborted"},
         Finish(g, how)
  PROVE  NestInv'
<1>1. /\ scopes \in Seq(Scope) /\ g \in 1 .. Len(scopes) /\ DOMAIN scopes = 1 .. Len(scopes)
      /\ Len(scopes) \in Nat
  BY DEF TypeInv, TypeOK
<1>2. g \in Unfinished /\ scopes[g].kind = "guard"
  BY DEF Finish, Last, Unfinished
<1>3. \A h \in Unfinished : h <= g
  BY <1>1 DEF Finish, Last, Unfinished
<1>4. /\ scopes' \in Seq(Scope) /\ Len(scopes') = Len(scopes)
      /\ scopes'[g] = [scopes[g] EXCEPT !.finished = TRUE]
      /\ \A h \in 1 .. Len(scopes) : h # g => scopes'[h] = scopes[h]
  BY <1>1, Marked DEF Finish
<1>5. /\ scopes'[g].finished /\ scopes'[g].kind = scopes[g].kind
      /\ scopes'[g].sub = scopes[g].sub
  BY <1>1, <1>4 DEF Scope
<1>6. DOMAIN scopes' = DOMAIN scopes
  BY <1>1, <1>4
<1>7. Unfinished' = Unfinished \ {g} /\ \A h \in Unfinished' : scopes'[h] = scopes[h]
  BY <1>1, <1>2, <1>4, <1>5, <1>6 DEF Unfinished
<1>8. EndCurrent(how) /\ Restore(g)
  BY DEF Finish
<1>9. Innermost(nest) = scopes[g].sub
  BY <1>2, <1>3, InnermostGuard DEF NestInv, TypeInv
<1>10. GuardsOnly'
  <2> SUFFICES ASSUME NEW h \in 1 .. Len(scopes)
               PROVE  /\ ~scopes'[h].finished => scopes'[h].kind = "guard"
                      /\ scopes'[h].kind = "guard" => scopes'[h].sub \in Subs
                      /\ scopes'[h].kind = "guard" /\ scopes'[h].finished =>
                           outcome'[scopes'[h].sub] \in {"committed", "aborted"}
    BY <1>4 DEF GuardsOnly
  <2>1. scopes'[h].kind = scopes[h].kind /\ scopes'[h].sub = scopes[h].sub
    BY <1>4, <1>5
  <2>2. /\ scopes[h].kind = "guard" => scopes[h].sub \in Subs
        /\ scopes[h].kind = "guard" /\ scopes[h].finished =>
             outcome[scopes[h].sub] \in {"committed", "aborted"}
    BY DEF NestInv, GuardsOnly
  <2>3. ~scopes'[h].finished => scopes'[h].kind = "guard"
    BY <1>4, <1>5 DEF NestInv, GuardsOnly
  <2>4. scopes'[h].finished => scopes[h].finished \/ h = g
    BY <1>4
  <2> QED
    BY <1>8, <1>9, <2>1, <2>2, <2>3, <2>4, OutcomesStay
<1> QED
  BY <1>2, <1>3, <1>7, <1>8, <1>10, NestEnd DEF NestInv

\* The destructor of a guard that has not finished.
LEMMA NestDestroy ==
  ASSUME TypeInv, NestInv, ~Top.finished, Destroy(FALSE)
  PROVE  NestInv'
<1> DEFINE g == Len(scopes)
<1>1. /\ Inside /\ scopes \in Seq(Scope) /\ g \in Nat \ {0} /\ scopes[g] = Top
      /\ scopes' \in Seq(Scope) /\ Len(scopes') = g - 1
      /\ \A h \in 1 .. g - 1 : scopes'[h] = scopes[h]
  BY Popped DEF Destroy, TypeInv, TypeOK, Inside, Top
<1>2. DOMAIN scopes = 1 .. g /\ DOMAIN scopes' = 1 .. g - 1
  BY <1>1
<1> HIDE DEF g
<1>3. g \in Unfinished /\ (\A h \in Unfinished : h <= g) /\ scopes[g].kind = "guard"
  BY <1>1, <1>2 DEF Unfinished, Destroy
<1>4. Unfinished' = Unfinished \ {g} /\ \A h \in Unfinished' : scopes'[h] = scopes[h]
  BY <1>1, <1>2 DEF Unfinished
<1>5. PICK how \in {"committed", "aborted"} : EndCurrent(how)
  BY DEF Destroy, Verdict
<1>6. Restore(g)
  BY DEF Destroy, g
<1>7. GuardsOnly'
  <2> SUFFICES ASSUME NEW h \in 1 .. g - 1
               PROVE  /\ ~scopes[h].finished => scopes[h].kind = "guard"
                      /\ scopes[h].kind = "guard" => scopes[h].sub \in Subs
                      /\ scopes[h].kind = "guard" /\ scopes[h].finished =>
                           outcome'[scopes[h].sub] \in {"committed", "aborted"}
    BY <1>1 DEF GuardsOnly
  <2>1. h \in 1 .. Len(scopes)
    BY <1>1 DEF g
  <2> QED
    BY <1>5, <2>1, OutcomesStay DEF NestInv, GuardsOnly
<1> QED
  BY <1>3, <1>4, <1>5, <1>6, <1>7, NestEnd DEF NestInv

\* Steps that change the mode or the current context only.
LEMMA NestOther ==
  ASSUME TypeInv, NestInv,
         Throw \/ SwitchContext \/ (\E g \in DOMAIN scopes : CommitFails(g)) \/ UNCHANGED vars
  PROVE  NestInv'
<1>1. /\ UNCHANGED <<scopes, nest, outcome, prevUser, CurrentResourceOwner>>
      /\ CurrentMemoryContext' \in {CurrentMemoryContext, 0, Innermost(nest)}
  BY DEF Throw, SwitchContext, CommitFails, vars, users, globals
<1>2. GuardsOnly' /\ Unfinished' = Unfinished
  BY <1>1 DEF NestInv, GuardsOnly, Unfinished
<1> QED
  BY <1>1, <1>2, NestSame DEF NestInv

LEMMA NestNext ==
  ASSUME TypeInv, NestInv, ~ReleaseFailsInScopeEnd, [Next]_vars
  PROVE  NestInv'
<1>1. \A fails \in BOOLEAN : Destroy(fails) => Destroy(FALSE)
  BY DEF Destroy
<1>2. CASE \E fails \in BOOLEAN : Destroy(fails)
  BY <1>1, <1>2, NestLeave, NestDestroy
<1> QED
  BY <1>2, NextCases, NestConstruct, NestEnter, NestLeave, NestFinish, NestOther
LEMMA NestInit == Init => NestInv
<1> SUFFICES ASSUME Init PROVE NestInv
  OBVIOUS
<1>1. scopes = <<>> /\ nest = <<>> /\ Len(scopes) = 0 /\ DOMAIN nest = {} /\ Unfinished = {}
  BY DEF Init, Unfinished
<1> QED
  BY <1>1 DEF Init, NestInv, GuardsOnly, NestIsTheGuards, Noted, NestOpen, ContextInNest,
              OwnerIsInnermost, Innermost
------------------------------------------------------------------------------
\* The user each scope has to put back.

\* A scope is entered; only a security context sets a user, its own.
LEMMA UsersPush ==
  ASSUME scopes \in Seq(Scope), UsersKept, NEW f \in Scope, scopes' = Append(scopes, f),
         f.user = CurrentUser,
         CurrentUser' = (IF f.kind = "role" THEN Len(scopes) + 1 ELSE CurrentUser),
         \A i \in 1 .. Len(scopes) : RolledBack(i) => RolledBack(i)'
  PROVE  UsersKept'
<1> DEFINE n == Len(scopes)
<1>1. /\ Len(scopes') = n + 1 /\ n \in Nat /\ scopes'[n + 1] = f
      /\ \A i \in 1 .. n : scopes'[i] = scopes[i]
  BY Pushed
<1> HIDE DEF n
<1> SUFFICES ASSUME NEW g \in 0 .. n + 1, NEW j \in 1 .. n + 2, g < j,
                    \A i \in 1 .. g - 1 : ~RolledBack(i)',
                    \A i \in g + 1 .. j - 1 : scopes'[i].kind # "role"
             PROVE  UserAt(j)' = UserIn(g)'
  <2>1. Len(scopes') = n + 1 /\ Len(scopes') + 1 = n + 2
    BY <1>1
  <2> QED
    BY <2>1 DEF UsersKept
<1>2. CASE g = n + 1
  <2>1. j = n + 2
    BY <1>1, <1>2
  <2>2. UserAt(j)' = CurrentUser'
    BY <1>1, <2>1 DEF UserAt
  <2>3. UserIn(g)' = IF f.kind = "role" THEN n + 1 ELSE f.user
    BY <1>1, <1>2 DEF UserIn
  <2> QED
    BY <2>2, <2>3 DEF n
<1>3. CASE g # n + 1
  <2>1. g \in 0 .. n /\ UserIn(g)' = UserIn(g)
    BY <1>1, <1>3 DEF UserIn
  <2>2. \A i \in 1 .. g - 1 : ~RolledBack(i)
    BY <1>1, <2>1 DEF n
  <2>3. CASE j <= n + 1
    <3>1. UserAt(j)' = UserAt(j)
      BY <1>1, <2>3 DEF UserAt, n
    <3>2. \A i \in g + 1 .. j - 1 : scopes[i].kind # "role"
      BY <1>1, <2>1, <2>3
    <3>3. j \in 1 .. n + 1
      BY <1>1, <2>3
    <3> QED
      BY <2>1, <2>2, <3>1, <3>2, <3>3 DEF UsersKept, n
  <2>4. CASE j = n + 2
    <3>1. f.kind # "role" /\ \A i \in g + 1 .. n : scopes[i].kind # "role"
      BY <1>1, <2>1, <2>4
    <3>2. UserAt(j)' = CurrentUser /\ UserAt(n + 1) = CurrentUser
      BY <1>1, <2>4, <3>1 DEF UserAt, n
    <3>3. UserAt(n + 1) = UserIn(g)
      <4>1. n + 1 \in 1 .. n + 1 /\ g < n + 1 /\ n + 1 - 1 = n
        BY <1>1, <2>1
      <4> QED
        BY <2>1, <2>2, <3>1, <4>1 DEF UsersKept, n
    <3> QED
      BY <2>1, <3>2, <3>3
  <2> QED
    BY <1>1, <2>3, <2>4
<1> QED
  BY <1>2, <1>3

\* A scope is left; the user is that of its start, or stays.
LEMMA UsersPop ==
  ASSUME scopes \in Seq(Scope), Inside, UsersKept, scopes' = Pop(scopes),
         \/ CurrentUser' = Top.user
         \/ CurrentUser' = CurrentUser /\ Top.kind # "role",
         \A i \in 1 .. Len(scopes) - 1 : RolledBack(i) => RolledBack(i)'
  PROVE  UsersKept'
<1> DEFINE n == Len(scopes)
<1>1. /\ Len(scopes') = n - 1 /\ n \in Nat \ {0} /\ Top = scopes[n]
      /\ \A i \in 1 .. n - 1 : scopes'[i] = scopes[i]
  BY Popped DEF Inside, Top
<1> HIDE DEF n
<1> SUFFICES ASSUME NEW g \in 0 .. n - 1, NEW j \in 1 .. n, g < j,
                    \A i \in 1 .. g - 1 : ~RolledBack(i)',
                    \A i \in g + 1 .. j - 1 : scopes'[i].kind # "role"
             PROVE  UserAt(j)' = UserIn(g)'
  <2>1. Len(scopes') = n - 1 /\ Len(scopes') + 1 = n
    BY <1>1
  <2> QED
    BY <2>1 DEF UsersKept
<1>2. UserIn(g)' = UserIn(g) /\ \A i \in 1 .. g - 1 : ~RolledBack(i)
  BY <1>1 DEF UserIn, n
<1>3. \A i \in g + 1 .. j - 1 : scopes[i].kind # "role"
  BY <1>1
<1>4. UserAt(j) = UserIn(g)
  <2>1. g \in 0 .. n /\ j \in 1 .. n + 1
    BY <1>1
  <2> QED
    BY <1>2, <1>3, <2>1 DEF UsersKept, n
<1>5. CASE j < n
  <2>1. UserAt(j)' = UserAt(j)
    BY <1>1, <1>5 DEF UserAt, n
  <2> QED
    BY <1>2, <1>4, <2>1
<1>6. CASE j = n
  <2>1. UserAt(j)' = CurrentUser' /\ UserAt(j) = Top.user
    BY <1>1, <1>6 DEF UserAt, n
  <2>2. CASE CurrentUser' = Top.user
    BY <1>2, <1>4, <2>1, <2>2
  <2>3. CASE CurrentUser' = CurrentUser /\ Top.kind # "role"
    <3>1. UserAt(n + 1) = CurrentUser
      BY <1>1 DEF UserAt, n
    <3>2. \A i \in g + 1 .. n + 1 - 1 : scopes[i].kind # "role"
      BY <1>1, <1>3, <1>6, <2>3
    <3>3. g \in 0 .. n /\ n + 1 \in 1 .. n + 1 /\ g < n + 1
      BY <1>1
    <3>4. UserAt(n + 1) = UserIn(g)
      BY <1>2, <3>2, <3>3 DEF UsersKept, n
    <3> QED
      BY <1>2, <2>1, <2>3, <3>1, <3>4
  <2> QED
    BY <2>2, <2>3
<1> QED
  BY <1>1, <1>5, <1>6

\* commit() keeps the user; rollback() of guard d goes back to the user of its start.
LEMMA UsersFinish ==
  ASSUME scopes \in Seq(Scope), UsersKept, NEW d \in 1 .. Len(scopes),
         Len(scopes') = Len(scopes),
         \A i \in 1 .. Len(scopes) :
           scopes'[i].user = scopes[i].user /\ scopes'[i].kind = scopes[i].kind,
         \/ CurrentUser' = CurrentUser
         \/ CurrentUser' = scopes[d].user /\ RolledBack(d)',
         \A i \in 1 .. Len(scopes) : RolledBack(i) => RolledBack(i)',
         scopes[d].kind = "guard"
  PROVE  UsersKept'
<1> DEFINE n == Len(scopes)
<1>1. n \in Nat \ {0} /\ d \in 1 .. n
  OBVIOUS
<1> HIDE DEF n
<1> SUFFICES ASSUME NEW g \in 0 .. n, NEW j \in 1 .. n + 1, g < j,
                    \A i \in 1 .. g - 1 : ~RolledBack(i)',
                    \A i \in g + 1 .. j - 1 : scopes'[i].kind # "role"
             PROVE  UserAt(j)' = UserIn(g)'
  BY DEF UsersKept, n
<1>2. UserIn(g)' = UserIn(g) /\ \A i \in 1 .. g - 1 : ~RolledBack(i)
  BY <1>1 DEF UserIn, n
<1>3. \A i \in g + 1 .. j - 1 : scopes[i].kind # "role"
  BY <1>1 DEF n
<1>4. UserAt(j) = UserIn(g)
  BY <1>1, <1>2, <1>3 DEF UsersKept, n
<1>5. CASE j <= n
  <2>1. UserAt(j)' = UserAt(j)
    BY <1>1, <1>5 DEF UserAt, n
  <2> QED
    BY <1>2, <1>4, <2>1
<1>6. CASE j = n + 1
  <2>1. UserAt(j)' = CurrentUser' /\ UserAt(j) = CurrentUser
    BY <1>1, <1>6 DEF UserAt, n
  <2>2. CASE CurrentUser' = CurrentUser
    BY <1>2, <1>4, <2>1, <2>2
  <2>3. CASE CurrentUser' = scopes[d].user /\ RolledBack(d)'
    <3>1. d >= g
      BY <1>1, <2>3
    <3>2. CASE d = g
      BY <1>1, <1>2, <2>1, <2>3, <3>2 DEF UserIn
    <3>3. CASE d > g
      <4>1. \A i \in g + 1 .. d - 1 : scopes[i].kind # "role"
        BY <1>1, <1>3, <1>6
      <4>2. UserAt(d) = UserIn(g)
        BY <1>1, <1>2, <3>3, <4>1 DEF UsersKept, n
      <4> QED
        BY <1>1, <1>2, <2>1, <2>3, <4>2 DEF UserAt, n
    <3> QED
      BY <1>1, <3>1, <3>2, <3>3
  <2> QED
    BY <2>2, <2>3
<1> QED
  BY <1>1, <1>5, <1>6

\* An aborted subtransaction stays so.
LEMMA AbortedStays ==
  ASSUME TypeInv, NestInv, NEW i \in Subs, outcome[i] = "aborted",
         \/ UNCHANGED outcome
         \/ \E how \in {"committed", "aborted"} : EndCurrent(how)
         \/ \E j \in Subs : Fresh(j) /\ BeginInternalSubTransaction(j)
  PROVE  outcome'[i] = "aborted"
<1>1. CASE \E how \in {"committed", "aborted"} : EndCurrent(how)
  <2>1. nest # <<>>
    BY <1>1 DEF EndCurrent
  <2>2. outcome[Innermost(nest)] = "open"
    <3>1. Len(nest) \in DOMAIN nest
      BY <2>1, Popped, Domains DEF TypeInv, TypeOK
    <3> QED
      BY <2>1, <3>1 DEF Innermost, NestInv, NestOpen
  <2> QED
    BY <1>1, <2>2 DEF EndCurrent, TypeInv, TypeOK
<1>2. CASE \E j \in Subs : Fresh(j) /\ BeginInternalSubTransaction(j)
  BY <1>2 DEF Fresh, BeginInternalSubTransaction, TypeInv, TypeOK
<1> QED
  BY <1>1, <1>2

LEMMA RolledBackStays ==
  ASSUME TypeInv, NestInv, NEW i \in 1 .. Len(scopes), RolledBack(i),
         scopes'[i] = scopes[i],
         \/ UNCHANGED outcome
         \/ \E how \in {"committed", "aborted"} : EndCurrent(how)
         \/ \E j \in Subs : Fresh(j) /\ BeginInternalSubTransaction(j)
  PROVE  RolledBack(i)'
<1>1. scopes[i].sub \in Subs
  BY DEF RolledBack, NestInv, GuardsOnly
<1> QED
  BY <1>1, AbortedStays DEF RolledBack
\* A scope that is left puts back the user of its start, or has set none.
LEMMA Leaving ==
  ASSUME TypeInv, NestInv,
         Leave \/ Catch \/ LeaveRole \/ Destroy(FALSE)
  PROVE  /\ Inside /\ scopes' = Pop(scopes)
         /\ \/ CurrentUser' = Top.user
            \/ CurrentUser' = CurrentUser /\ Top.kind # "role"
         /\ UNCHANGED outcome \/ \E how \in {"committed", "aborted"} : EndCurrent(how)
<1>1. CASE Leave \/ Catch \/ LeaveRole
  BY <1>1 DEF Leave, Catch, LeaveRole, users
<1>2. CASE Destroy(FALSE) /\ Top.finished
  BY <1>2 DEF Destroy, users
<1>3. CASE Destroy(FALSE) /\ ~Top.finished
  <2>1. Inside /\ Top.kind = "guard" /\ scopes' = Pop(scopes) /\ EndCurrent(Verdict(Top))
    BY <1>3 DEF Destroy
  <2>2. Len(scopes) \in Unfinished /\ \A h \in Unfinished : h <= Len(scopes)
    BY <1>3, <2>1, TopType, Domains DEF Unfinished, TypeInv
  <2>3. Innermost(nest) = Top.sub /\ nest[Len(nest)] = Top.sub /\ Len(nest) \in DOMAIN nest
    BY <2>2, InnermostGuard, Domains DEF TypeInv, NestInv, Top
  <2>4. prevUser[Innermost(nest)] = Top.user
    BY <2>2, <2>3 DEF NestInv, Noted, Top
  <2>5. CurrentUser' \in {CurrentUser, Top.user}
    BY <2>1, <2>4 DEF EndCurrent
  <2>6. Verdict(Top) \in {"committed", "aborted"}
    BY DEF Verdict
  <2> QED
    BY <2>1, <2>5, <2>6
<1> QED
  BY <1>1, <1>2, <1>3

LEMMA UsersInit == Init => UsersKept
<1> SUFFICES ASSUME Init PROVE UsersKept
  OBVIOUS
<1>1. Len(scopes) = 0 /\ CurrentUser = 0
  BY DEF Init
<1>2. UserAt(1) = 0 /\ UserIn(0) = 0
  BY <1>1 DEF UserAt, UserIn
<1> QED
  BY <1>1, <1>2 DEF UsersKept

LEMMA UsersNext ==
  ASSUME TypeInv, NestInv, UsersKept, ~ReleaseFailsInScopeEnd, [Next]_vars
  PROVE  UsersKept'
<1>1. scopes \in Seq(Scope) /\ DOMAIN scopes = 1 .. Len(scopes) /\ Len(scopes) \in Nat
  BY DEF TypeInv, TypeOK
<1>2. ASSUME NEW i \in Subs, NEW c \in BOOLEAN, Fresh(i), Construct(i, c)
      PROVE  UsersKept'
  <2> DEFINE f == [kind |-> "guard", user |-> CurrentUser, sub |-> i,
                   ctx |-> CurrentMemoryContext, owner |-> CurrentResourceOwner,
                   should_commit |-> c, uncaught |-> uncaught, finished |-> FALSE]
  <2>1. f \in Scope
    BY BoundsAssumption DEF Scope, TypeInv, TypeOK, Subs
  <2>2. /\ scopes' = Append(scopes, f) /\ f.user = CurrentUser /\ f.kind # "role"
        /\ CurrentUser' = CurrentUser /\ BeginInternalSubTransaction(i)
    BY <1>2 DEF Construct, BeginInternalSubTransaction
  <2> HIDE DEF f
  <2>3. \A k \in 1 .. Len(scopes) : scopes'[k] = scopes[k]
    BY <1>1, <2>1, <2>2, Pushed
  <2>4. \A k \in 1 .. Len(scopes) : RolledBack(k) => RolledBack(k)'
    BY <1>2, <2>2, <2>3, RolledBackStays
  <2> QED
    BY <1>1, <2>1, <2>2, <2>4, UsersPush
<1>3. CASE Enter \/ EnterRole
  <2>1. PICK kind \in {"role", "try", "dtor"} :
          /\ scopes' = Append(scopes, Plain(kind)) /\ Len(scopes) < MaxScopes
          /\ UNCHANGED outcome
          /\ CurrentUser' = IF kind = "role" THEN Len(scopes) + 1 ELSE CurrentUser
    BY <1>3 DEF Enter, EnterRole, users
  <2>2. /\ Plain(kind) \in Scope /\ Plain(kind).kind = kind
        /\ Plain(kind).user = CurrentUser
    BY <2>1, PlainType
  <2>3. \A k \in 1 .. Len(scopes) : scopes'[k] = scopes[k]
    BY <1>1, <2>1, <2>2, Pushed
  <2>4. \A k \in 1 .. Len(scopes) : RolledBack(k) => RolledBack(k)'
    BY <2>1, <2>3 DEF RolledBack
  <2> QED
    BY <1>1, <2>1, <2>2, <2>4, UsersPush
<1>4. CASE Leave \/ Catch \/ LeaveRole \/ (\E fails \in BOOLEAN : Destroy(fails))
  <2>1. Leave \/ Catch \/ LeaveRole \/ Destroy(FALSE)
    BY <1>4 DEF Destroy
  <2>2. /\ Inside /\ scopes' = Pop(scopes)
        /\ \/ CurrentUser' = Top.user
           \/ CurrentUser' = CurrentUser /\ Top.kind # "role"
        /\ UNCHANGED outcome \/ \E how \in {"committed", "aborted"} : EndCurrent(how)
    BY <2>1, Leaving
  <2>3. \A k \in 1 .. Len(scopes) - 1 : scopes'[k] = scopes[k] /\ k \in 1 .. Len(scopes)
    BY <1>1, <2>2, Popped DEF Inside
  <2>4. \A k \in 1 .. Len(scopes) - 1 : RolledBack(k) => RolledBack(k)'
    BY <2>2, <2>3, RolledBackStays
  <2> QED
    BY <1>1, <2>2, <2>4, UsersPop
<1>5. ASSUME NEW g \in DOMAIN scopes, NEW how \in {"committed", "aborted"}, Finish(g, how)
      PROVE  UsersKept'
  <2>1. g \in Unfinished /\ scopes[g].kind = "guard" /\ g \in 1 .. Len(scopes)
    BY <1>1, <1>5 DEF Finish, Last, Unfinished
  <2>2. \A h \in Unfinished : h <= g
    BY <1>1, <1>5 DEF Finish, Last, Unfinished
  <2>3. /\ Len(scopes') = Len(scopes)
        /\ scopes'[g] = [scopes[g] EXCEPT !.finished = TRUE] /\ scopes[g] \in Scope
        /\ \A k \in 1 .. Len(scopes) : k # g => scopes'[k] = scopes[k]
    BY <1>1, <1>5, Marked DEF Finish
  <2>4. /\ scopes'[g].finished /\ scopes'[g].kind = scopes[g].kind
        /\ scopes'[g].sub = scopes[g].sub /\ scopes'[g].user = scopes[g].user
    BY <2>3 DEF Scope
  <2>5. /\ EndCurrent(how) /\ Innermost(nest) = scopes[g].sub
        /\ nest[Len(nest)] = scopes[g].sub /\ Len(nest) \in DOMAIN nest
    BY <1>5, <2>1, <2>2, InnermostGuard, Domains DEF Finish, TypeInv, NestInv
  <2>6. prevUser[Innermost(nest)] = scopes[g].user
    BY <2>1, <2>5 DEF NestInv, Noted
  <2>7. scopes[g].sub \in Subs
    BY <2>1 DEF NestInv, GuardsOnly
  <2>8. CurrentUser' = CurrentUser \/ (CurrentUser' = scopes[g].user /\ RolledBack(g)')
    BY <2>1, <2>4, <2>5, <2>6, <2>7 DEF EndCurrent, RolledBack, TypeInv, TypeOK
  <2>9. \A k \in 1 .. Len(scopes) : RolledBack(k) => RolledBack(k)'
    <3>1. ~RolledBack(g)
      BY <2>1 DEF RolledBack, Unfinished
    <3> QED
      BY <2>3, <2>5, <3>1, RolledBackStays
  <2> QED
    BY <1>1, <2>1, <2>3, <2>4, <2>8, <2>9, UsersFinish
<1>6. CASE Throw \/ SwitchContext \/ (\E g \in DOMAIN scopes : CommitFails(g)) \/ UNCHANGED vars
  <2>1. UNCHANGED <<scopes, outcome, CurrentUser>>
    BY <1>6 DEF Throw, SwitchContext, CommitFails, vars, users
  <2> QED
    BY <2>1 DEF UsersKept, UserAt, UserIn, RolledBack
<1> QED
  BY <1>2, <1>3, <1>4, <1>5, <1>6, NextCases
------------------------------------------------------------------------------
LEMMA InvInductive ==
  ASSUME ~ReleaseFailsInScopeEnd
  PROVE  Spec => []Inv
<1>1. Init => Inv
  BY TypeInit, NestInit, UsersInit DEF Inv
<1>2. Inv /\ [Next]_vars => Inv'
  BY TypeNext, NestNext, UsersNext DEF Inv
<1> QED
  BY <1>1, <1>2, PTL DEF Spec

\* While no release of a destructor fails, the open subtransactions of Postgres are,
\* in order, those of the guards that have not finished (xact.hpp:57).
THEOREM NestIsGuards ==
  ASSUME ~ReleaseFailsInScopeEnd
  PROVE  Spec => []NestIsTheGuards
<1>1. Inv => NestIsTheGuards
  BY DEF Inv, NestInv
<1> QED
  BY <1>1, InvInductive, PTL

\* Both globals that a guard notes and restores are always those of an open
\* subtransaction, the resource owner of the innermost one (xact.hpp:65).
THEOREM SubtransactionGlobals ==
  ASSUME ~ReleaseFailsInScopeEnd
  PROVE  Spec => []GlobalsRestored
<1>1. Inv => GlobalsRestored
  <2> SUFFICES ASSUME Inv PROVE GlobalsRestored
    OBVIOUS
  <2>1. CurrentMemoryContext # 0 => outcome[CurrentMemoryContext] = "open"
    BY DEF Inv, NestInv, ContextInNest, NestOpen
  <2> QED
    BY <2>1 DEF GlobalsRestored, ContextLive, Inv, NestInv
<1> QED
  BY <1>1, InvInductive, PTL

\* A step that leaves a scope is one of these.
LEMMA Shorter ==
  ASSUME TypeInv, ~ReleaseFailsInScopeEnd, [Next]_vars, Len(scopes') < Len(scopes)
  PROVE  Leave \/ Catch \/ LeaveRole \/ Destroy(FALSE)
<1>1. scopes \in Seq(Scope) /\ Len(scopes) \in Nat
  BY DEF TypeInv, TypeOK
<1>2. \A i \in Subs, c \in BOOLEAN : ~Construct(i, c)
  <2> SUFFICES ASSUME NEW i \in Subs, NEW c \in BOOLEAN, Construct(i, c)
               PROVE  FALSE
    OBVIOUS
  <2> DEFINE f == [kind |-> "guard", user |-> CurrentUser, sub |-> i,
                   ctx |-> CurrentMemoryContext, owner |-> CurrentResourceOwner,
                   should_commit |-> c, uncaught |-> uncaught, finished |-> FALSE]
  <2>1. f \in Scope
    BY BoundsAssumption DEF Scope, TypeInv, TypeOK, Subs
  <2>2. scopes' = Append(scopes, f)
    BY DEF Construct
  <2> HIDE DEF f
  <2>3. Len(scopes') = Len(scopes) + 1
    BY <1>1, <2>1, <2>2, Pushed
  <2> QED
    BY <1>1, <2>3
<1>3. ~Enter /\ ~EnterRole
  <2> SUFFICES ASSUME Enter \/ EnterRole PROVE FALSE
    OBVIOUS
  <2>1. PICK kind \in {"role", "try", "dtor"} :
          scopes' = Append(scopes, Plain(kind)) /\ Len(scopes) < MaxScopes
    BY DEF Enter, EnterRole
  <2>2. Len(scopes') = Len(scopes) + 1
    BY <1>1, <2>1, PlainType, Pushed
  <2> QED
    BY <1>1, <2>2
<1>4. \A g \in DOMAIN scopes, how \in {"committed", "aborted"} : ~Finish(g, how)
  BY <1>1, Marked DEF Finish
<1>5. ~Throw /\ ~SwitchContext /\ (\A g \in DOMAIN scopes : ~CommitFails(g)) /\ ~UNCHANGED vars
  BY <1>1 DEF Throw, SwitchContext, CommitFails, vars
<1>6. \A fails \in BOOLEAN : Destroy(fails) => Destroy(FALSE)
  BY DEF Destroy
<1> QED
  BY <1>2, <1>3, <1>4, <1>5, <1>6, NextCases

\* Whatever scope is left, and however, the user is the one of its start, unless a
\* guard around it was rolled back inside of it (role.hpp:67, xact.hpp:74).
THEOREM UserIsRestored ==
  ASSUME ~ReleaseFailsInScopeEnd
  PROVE  Spec => UserRestored
<1>1. ASSUME Inv, [Next]_vars, Len(scopes') < Len(scopes)
      PROVE  CurrentUser' = Top.user \/ RolledBackAround
  <2>1. /\ Inside
        /\ \/ CurrentUser' = Top.user
           \/ CurrentUser' = CurrentUser /\ Top.kind # "role"
    BY <1>1, Shorter, Leaving DEF Inv
  <2>2. CASE CurrentUser' = CurrentUser /\ Top.kind # "role" /\ ~RolledBackAround
    <3>1. PICK n \in Nat \ {0} : n = Len(scopes)
      BY <1>1, <2>1, TopType DEF Inv
    <3>2. UserAt(n + 1) = CurrentUser /\ UserIn(n) = Top.user
      BY <2>2, <3>1 DEF UserAt, UserIn, Top
    <3>3. \A i \in 1 .. n - 1 : ~RolledBack(i)
      BY <2>2, <3>1 DEF RolledBackAround, RolledBack
    <3>4. UserAt(n + 1) = UserIn(n)
      <4>1. /\ n \in 0 .. n /\ n + 1 \in 1 .. n + 1 /\ n < n + 1
            /\ \A i \in n + 1 .. n + 1 - 1 : scopes[i].kind # "role"
        BY <3>1
      <4> QED
        BY <1>1, <3>1, <3>3, <4>1 DEF Inv, UsersKept
    <3> QED
      BY <2>2, <3>2, <3>4
  <2> QED
    BY <2>1, <2>2
<1>2. Inv /\ [Next]_vars => [Len(scopes') < Len(scopes) => CurrentUser' = Top.user \/ RolledBackAround]_vars
  BY <1>1
<1> QED
  BY <1>2, InvInductive, PTL DEF Spec, UserRestored

\* A guard whose scope an exception leaves rolls back, and any other does what its
\* flag says, also inside of a destructor that runs during an unwinding (xact.hpp:74).
THEOREM ExitDecidesOutcome ==
  ASSUME ~ReleaseFailsInScopeEnd
  PROVE  Spec => OutcomeMatchesExit
<1>1. ASSUME Inv, [Next]_vars, Len(scopes') < Len(scopes),
             Top.kind = "guard", ~Top.finished
      PROVE  outcome'[Top.sub] =
               IF mode = "run" /\ Top.should_commit THEN "committed" ELSE "aborted"
  <2>1. Destroy(FALSE)
    BY <1>1, Shorter DEF Inv, Leave, Catch, LeaveRole
  <2>2. /\ Inside /\ EndCurrent(Verdict(Top))
    BY <1>1, <2>1 DEF Destroy
  <2>3. /\ Len(scopes) \in Unfinished /\ \A h \in Unfinished : h <= Len(scopes)
        /\ Top = scopes[Len(scopes)] /\ Top \in Scope
        /\ uncaught = Top.uncaught + (IF mode = "unwind" THEN 1 ELSE 0)
    BY <1>1, <2>2, TopType, Domains DEF Unfinished, TypeInv, Inv
  <2>4. Innermost(nest) = Top.sub
    BY <1>1, <2>3, InnermostGuard DEF Inv, TypeInv, NestInv
  <2>5. Top.sub \in Subs
    <3>1. Len(scopes) \in 1 .. Len(scopes)
      BY <1>1, <2>2, TopType DEF Inv
    <3> QED
      BY <1>1, <2>3, <3>1 DEF Inv, NestInv, GuardsOnly
  <2>6. outcome'[Top.sub] = Verdict(Top)
    BY <1>1, <2>2, <2>4, <2>5 DEF EndCurrent, Inv, TypeInv, TypeOK
  <2>7. uncaught > Top.uncaught <=> mode # "run"
    <3>1. Top.uncaught \in Nat /\ mode \in {"run", "unwind"}
      BY <1>1, <2>3, BoundsAssumption DEF Scope, Inv, TypeInv, TypeOK
    <3> QED
      BY <2>3, <3>1
  <2> QED
    BY <2>6, <2>7 DEF Verdict
<1>2. Inv /\ [Next]_vars =>
        [Len(scopes') < Len(scopes) /\ Top.kind = "guard" /\ ~Top.finished =>
           outcome'[Top.sub] =
             IF mode = "run" /\ Top.should_commit THEN "committed" ELSE "aborted"]_vars
  BY <1>1
<1> QED
  BY <1>2, InvInductive, PTL DEF Spec, OutcomeMatchesExit
===============================================================================
