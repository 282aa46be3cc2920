-------------------------------- MODULE Memory --------------------------------
(****************************************************************************)
(* memory.hpp and the values of type.hpp: memory contexts owned by C++       *)
(* variables, reset callbacks, tracking_memory_context, which counts the     *)
(* resets of a context, and the varlena values whose pointers it guards.     *)
(*                                                                          *)
(* Context 0 is TopMemoryContext, never reset.  A tracking_memory_context is *)
(* the shared state it points to.  A callback struct is its entry in the     *)
(* list of its context; a disarmed one, which does nothing, is no entry.  A  *)
(* value has two pointers with a tracker each: its datum and, once           *)
(* detoasted, the detoasted bytes.  Numbers are reused, as memory is.        *)
(****************************************************************************)
EXTENDS Naturals, Sequences, FiniteSets, Functions, TLC

CONSTANTS
  MaxContexts,  \* bound: contexts at a time
  MaxStates,    \* bound: tracking states at a time
  MaxObjects,   \* bound: objects constructed in contexts at a time
  Owners,       \* variables of type alloc_set_memory_context
  Values        \* variables of a varlena type, expanded ones included

ASSUME BoundsAssumption ==
  MaxContexts \in Nat /\ MaxStates \in Nat /\ MaxObjects \in Nat

VARIABLES
  context,               \* life and parent of each context
  owner,                 \* context each owned_memory_context owns; 0: moved from
                         \* or no longer there, which no operation tells apart
  callbacks,             \* registered reset callbacks of a context, newest first
  state,                 \* the callback_state of each tracker
  value,                 \* what each value variable holds
  object,                \* objects built by construct()
  cleaning,              \* contexts a reset or delete has yet to clean, in order
  CurrentMemoryContext

vars == <<context, owner, callbacks, state, value, object, cleaning,
          CurrentMemoryContext>>

Made == 1 .. MaxContexts
Contexts == 0 .. MaxContexts
States == 1 .. MaxStates
Objects == 1 .. MaxObjects
Parts == {"datum", "detoasted"}

\* A pointer into a context, its tracker, and whether the memory is gone.
Ptr == [context : Contexts, state : 0 .. MaxStates, gone : BOOLEAN]
NoPtr == [context |-> 0, state |-> 0, gone |-> FALSE]

\* expanded: detoasted_value of an expanded_varlena is set; holder: the object
\* the variable is a member of, 0 for a local variable.
NoValue == [datum |-> NoPtr, detoasted |-> NoPtr, expanded |-> FALSE, holder |-> 0]
NoState == [counter |-> 0, callback |-> FALSE]

Init ==
  /\ context = [c \in Contexts |->
       [life |-> IF c = 0 THEN "live" ELSE "none", parent |-> 0]]
  /\ owner = [o \in Owners |-> 0]
  /\ callbacks = [c \in Contexts |-> <<>>]
  /\ state = [s \in States |-> NoState]
  /\ value = [v \in Values |-> NoValue]
  /\ object = [i \in Objects |-> [life |-> "none", context |-> 0]]
  /\ cleaning = <<>>
  /\ CurrentMemoryContext = 0
------------------------------------------------------------------------------
Live(c) == context[c].life = "live"
Exists(v) == value[v].datum.state # 0
Local(v) == Exists(v) /\ value[v].holder = 0
Running == cleaning = <<>>

\* The callback structs of c, and whether some context has the struct x.
Structs(c) == Range(callbacks[c])
Registered(x) == \E c \in Contexts : x \in Structs(c)

\* The variables whose tracker shares state s; their number is its use_count().
Refs(s) == {r \in Values \X Parts : value[r[1]][r[2]].state = s}

\* The least unused number of each kind.
Next1(used, i) == i \notin used /\ 1 .. i - 1 \subseteq used
FreeContext(c) == Next1({d \in Made : context[d].life # "none"}, c)
FreeState(s) == Next1({t \in States : Refs(t) # {} \/ Registered(<<"state", t>>)}, s)
FreeObject(i) == Next1({j \in Objects : object[j].life # "none"}, i)

Children(D) == {d \in Made : context[d].parent \in D /\ Live(d)}

\* The least set that holds the children of c and of its members.
Below(c) ==
  {d \in Made : \A D \in SUBSET Made : Children({c} \cup D) \subseteq D => d \in D}

\* A context below another one goes with it: nobody may own it any longer, and
\* nobody may be using it.
MayGo(D) ==
  /\ CurrentMemoryContext \notin D
  /\ \A o \in Owners : owner[o] \notin D

\* MemoryContextReset and MemoryContextDelete clean children first; which of two
\* siblings goes first is left open.
Clean(D) ==
  {q \in [1 .. Cardinality(D) -> D] :
     \A i, j \in DOMAIN q : i < j => q[i] # q[j] /\ q[j] \notin Below(q[i])}
------------------------------------------------------------------------------
\* owned_memory_context and memory_context.

\* AllocSetContextCreate under CurrentMemoryContext.
Create(c) ==
  /\ FreeContext(c)
  /\ context' = [context EXCEPT ![c] =
                   [life |-> "live", parent |-> CurrentMemoryContext]]

\* delete_context(): callbacks run later in the step order, memory goes last.
DeleteAll(D) ==
  /\ context' = [c \in Contexts |->
       IF c \in D THEN [context[c] EXCEPT !.life = "deleting"] ELSE context[c]]
  /\ cleaning' \in Clean(D)

NewOwner(o, c) ==
  /\ Running /\ owner[o] = 0 /\ Create(c)
  /\ owner' = [owner EXCEPT ![o] = c]
  /\ UNCHANGED <<callbacks, state, value, object, cleaning, CurrentMemoryContext>>

\* What a variable deletes when it is destroyed or assigned to.
Owned(o) == IF owner[o] = 0 THEN {} ELSE {owner[o]} \cup Below(owner[o])

\* Nothing below the context of o has an owner of its own.
OwnsAll(o) ==
  owner[o] # 0 => CurrentMemoryContext \notin Owned(o) /\ MayGo(Below(owner[o]))

\* Mutant of MoveOwner: its argument is left the owner as well.
MoveOwnerCopies(o, p) ==
  /\ Running /\ o # p /\ owner[o] # 0 /\ OwnsAll(p) /\ owner[o] \notin Owned(p)
  /\ DeleteAll(Owned(p))
  /\ owner' = [owner EXCEPT ![p] = owner[o]]
  /\ UNCHANGED <<callbacks, state, value, object, CurrentMemoryContext>>

\* The move constructor, and move assignment: what p owned is deleted, then it
\* takes over from o.
MoveOwner(o, p) ==
  /\ Running /\ o # p /\ owner[o] # 0 /\ OwnsAll(p) /\ owner[o] \notin Owned(p)
  /\ DeleteAll(Owned(p))
  /\ owner' = [owner EXCEPT ![p] = owner[o], ![o] = 0]
  /\ UNCHANGED <<callbacks, state, value, object, CurrentMemoryContext>>

\* The destructor.
DestroyOwner(o) ==
  /\ Running /\ owner[o] # 0 /\ OwnsAll(o)
  /\ DeleteAll(Owned(o))
  /\ owner' = [owner EXCEPT ![o] = 0]
  /\ UNCHANGED <<callbacks, state, value, object, CurrentMemoryContext>>

\* memory_context(owned_memory_context &&): the context is left to its parent.
Release(o) ==
  /\ Running /\ owner[o] # 0
  /\ owner' = [owner EXCEPT ![o] = 0]
  /\ UNCHANGED <<context, callbacks, state, value, object, cleaning, CurrentMemoryContext>>

\* reset() through any handle: the children are deleted, c itself stays.
Reset(c) ==
  /\ Running /\ c # 0 /\ Live(c) /\ MayGo(Below(c))
  /\ context' = [d \in Contexts |->
       IF d \in Below(c) THEN [context[d] EXCEPT !.life = "deleting"] ELSE context[d]]
  /\ cleaning' \in Clean({c} \cup Below(c))
  /\ UNCHANGED <<owner, callbacks, state, value, object, CurrentMemoryContext>>

\* delete_context() through a handle that does not own, once nobody owns c.
DeleteContext(c) ==
  /\ Running /\ c # 0 /\ Live(c) /\ MayGo({c} \cup Below(c))
  /\ DeleteAll({c} \cup Below(c))
  /\ UNCHANGED <<owner, callbacks, state, value, object, CurrentMemoryContext>>

\* memory_context_scope and operator()(thunk), entered or left.
Switch(c) ==
  /\ Running /\ Live(c) /\ c # CurrentMemoryContext
  /\ CurrentMemoryContext' = c
  /\ UNCHANGED <<context, owner, callbacks, state, value, object, cleaning>>
------------------------------------------------------------------------------
\* tracking_memory_context.

Tracking == [counter |-> 0, callback |-> TRUE]

\* The constructor: a fresh state whose callback is registered in c.
Track(s, c) ==
  /\ FreeState(s) /\ Live(c)
  /\ state' = [state EXCEPT ![s] = Tracking]
  /\ callbacks' = [callbacks EXCEPT ![c] = <<<<"state", s>>>> \o @]

\* The states all of whose trackers are among R.
Ends(R) == {s \in States : Refs(s) # {} /\ Refs(s) \subseteq R}

Forgotten(S) == [s \in States |-> IF s \in S THEN NoState ELSE state[s]]

\* The list s without the structs X.
Without(s, X) ==
  LET upto[n \in 0 .. Len(s)] ==
        IF n = 0 THEN <<>>
        ELSE IF s[n] \in X THEN upto[n - 1] ELSE Append(upto[n - 1], s[n])
  IN  upto[Len(s)]

\* Mutant of Disarmed: the destructor leaves its callback armed.
DisarmedNot(lists, S) == lists

\* The last trackers of the states S are destroyed: each disarms its callback
\* struct, unless track_reset has said that it is gone.
Disarmed(lists, S) ==
  LET disarmed == {<<"state", s>> : s \in {t \in S : state[t].callback}}
  IN  [c \in Contexts |-> Without(lists[c], disarmed)]

\* The last trackers of the states S are assigned to: nothing is disarmed, and
\* the structs are left with an argument that was freed.
Dangling(lists, S) ==
  [c \in Contexts |-> [i \in DOMAIN lists[c] |->
     LET x == lists[c][i] IN IF x[1] = "state" /\ x[2] \in S THEN <<"dangling", 0>> ELSE x]]

Both(v) == {v} \X Parts

\* resets(), as ptr() and detoasted_ptr() ask it.
Resets(p) == IF p.state = 0 THEN 0 ELSE state[p.state].counter
------------------------------------------------------------------------------
\* Values.

\* non_by_value_type: a datum that lives in c.  Without a context the tracked
\* one is TopMemoryContext.
NewValue(v, s, c) ==
  /\ Running /\ ~Exists(v) /\ Track(s, c)
  /\ value' = [value EXCEPT ![v].datum = [context |-> c, state |-> s, gone |-> FALSE]]
  /\ UNCHANGED <<context, owner, object, cleaning, CurrentMemoryContext>>

\* The copy constructor: the trackers of both pointers are shared.
Copy(v, w) ==
  /\ Running /\ Exists(v) /\ ~Exists(w)
  /\ value' = [value EXCEPT ![w] = [value[v] EXCEPT !.holder = 0]]
  /\ UNCHANGED <<context, owner, callbacks, state, object, cleaning, CurrentMemoryContext>>

\* The move constructor: the states move along.
Move(v, w) ==
  /\ Running /\ Local(v) /\ ~Exists(w)
  /\ value' = [value EXCEPT ![w] = value[v], ![v] = NoValue]
  /\ UNCHANGED <<context, owner, callbacks, state, object, cleaning, CurrentMemoryContext>>

\* Move assignment over a value: the tracker of w's datum is assigned to, that
\* of its detoasted bytes too if v has one, and is destroyed otherwise.
Assign(v, w) ==
  LET destroyed == IF value[v].detoasted = NoPtr THEN {value[w].detoasted.state} ELSE {}
      S == Ends(Both(w))
  IN  /\ Running /\ v # w /\ Local(v) /\ Exists(w)
      /\ ~Registered(<<"dangling", 0>>)  \* bound: one such assignment at a time
      /\ state' = Forgotten(S)
      /\ callbacks' = Dangling(Disarmed(callbacks, S \cap destroyed), S \ destroyed)
      /\ value' = [value EXCEPT ![w] = [value[v] EXCEPT !.holder = value[w].holder],
                                ![v] = NoValue]
      /\ UNCHANGED <<context, owner, object, cleaning, CurrentMemoryContext>>

\* The destructor of a local variable.
DestroyValue(v) ==
  /\ Running /\ Local(v)
  /\ state' = Forgotten(Ends(Both(v)))
  /\ callbacks' = Disarmed(callbacks, Ends(Both(v)))
  /\ value' = [value EXCEPT ![v] = NoValue]
  /\ UNCHANGED <<context, owner, object, cleaning, CurrentMemoryContext>>

\* What ptr() lets through, and then detoasted_ptr() has yet to do.
Undetoasted(v) ==
  Exists(v) /\ value[v].detoasted = NoPtr /\ Resets(value[v].datum) = 0

\* detoasted_ptr(), when pg_detoast_datum returns its argument.
DetoastInPlace(v) ==
  /\ Running /\ Undetoasted(v) /\ ~value[v].expanded
  /\ value' = [value EXCEPT ![v].detoasted = value[v].datum]
  /\ UNCHANGED <<context, owner, callbacks, state, object, cleaning, CurrentMemoryContext>>

\* Mutant of DetoastCopy: the copy is tracked where the datum is.
DetoastCopyShares(v, s) ==
  /\ Running /\ Undetoasted(v) /\ ~value[v].expanded
  /\ value' = [value EXCEPT ![v].detoasted =
       [context |-> CurrentMemoryContext, state |-> value[v].datum.state, gone |-> FALSE]]
  /\ UNCHANGED <<context, owner, callbacks, state, object, cleaning, CurrentMemoryContext>>

\* detoasted_ptr(), when it copies into CurrentMemoryContext.
DetoastCopy(v, s) ==
  /\ Running /\ Undetoasted(v) /\ ~value[v].expanded
  /\ Track(s, CurrentMemoryContext)
  /\ value' = [value EXCEPT ![v].detoasted =
       [context |-> CurrentMemoryContext, state |-> s, gone |-> FALSE]]
  /\ UNCHANGED <<context, owner, object, cleaning, CurrentMemoryContext>>
------------------------------------------------------------------------------
\* Objects.

Build(i, c) == object' = [object EXCEPT ![i] = [life |-> "live", context |-> c]]

\* Mutant of Register: the object was registered by hand as well.
RegisterTwice(i, c) ==
  callbacks' = [callbacks EXCEPT ![c] = <<<<"object", i>>, <<"object", i>>>> \o @]

\* Mutant of Register: the destructor is taken for a trivial one.
RegisterNot(i, c) == UNCHANGED callbacks

Register(i, c) == callbacks' = [callbacks EXCEPT ![c] = <<<<"object", i>>>> \o @]

\* construct(): the object takes the local values V as its members, and its
\* destructor is registered once it exists.
Construct(i, c, V) ==
  /\ Running /\ FreeObject(i) /\ Live(c) /\ c # 0 /\ \A v \in V : Local(v)
  /\ Build(i, c)
  /\ value' = [v \in Values |->
       IF v \in V THEN [value[v] EXCEPT !.holder = i] ELSE value[v]]
  /\ Register(i, c)
  /\ UNCHANGED <<context, owner, state, cleaning, CurrentMemoryContext>>

\* expanded_varlena(): a context of its own under CurrentMemoryContext, which
\* nobody owns, holds the object; the value tracks that context.
NewExpanded(v, s, i, c) ==
  /\ Running /\ ~Exists(v) /\ Create(c) /\ FreeObject(i) /\ FreeState(s)
  /\ Build(i, c)
  /\ state' = [state EXCEPT ![s] = Tracking]
  /\ callbacks' = [callbacks EXCEPT ![c] = <<<<"state", s>>, <<"object", i>>>>]
  /\ value' = [value EXCEPT ![v] = [NoValue EXCEPT !.expanded = TRUE,
                 !.datum = [context |-> c, state |-> s, gone |-> FALSE]]]
  /\ UNCHANGED <<owner, cleaning, CurrentMemoryContext>>

\* expanded_varlena::operator T& over flat bytes that need no detoasting (or are
\* detoasted already): the object is restored into a context of its own.
Expand(v, i, c) ==
  /\ Running /\ Exists(v) /\ ~value[v].expanded /\ Resets(value[v].datum) = 0
  /\ value[v].detoasted # NoPtr => Resets(value[v].detoasted) = 0
  /\ Create(c) /\ FreeObject(i)
  /\ Build(i, c) /\ Register(i, c)
  /\ value' = [value EXCEPT ![v].expanded = TRUE,
       ![v].detoasted = IF @ = NoPtr THEN value[v].datum ELSE @]
  /\ UNCHANGED <<owner, state, cleaning, CurrentMemoryContext>>
------------------------------------------------------------------------------
\* The rest of a reset or delete, one callback at a time.

Ahead == cleaning[1]
First == callbacks[Ahead][1]
Popped == [callbacks EXCEPT ![Ahead] = Tail(@)]

\* track_reset.
Called(s) == [state EXCEPT ![s].counter = @ + 1, ![s].callback = FALSE]

\* The callback of a tracker.  What it does through a dangling argument is
\* undefined and left out.
TrackReset ==
  /\ ~Running /\ callbacks[Ahead] # <<>> /\ First[1] # "object"
  /\ callbacks' = Popped
  /\ state' = IF First[1] = "state" THEN Called(First[2]) ELSE state
  /\ UNCHANGED <<context, owner, value, object, cleaning, CurrentMemoryContext>>

\* The callback of an object: its destructor, and those of its members.
DestroyObject ==
  /\ ~Running /\ callbacks[Ahead] # <<>> /\ First[1] = "object"
  /\ LET V == {v \in Values : Exists(v) /\ value[v].holder = First[2]} IN
       /\ state' = Forgotten(Ends(V \X Parts))
       /\ callbacks' = Disarmed(Popped, Ends(V \X Parts))
       /\ value' = [v \in Values |-> IF v \in V THEN NoValue ELSE value[v]]
  /\ object' = [object EXCEPT ![First[2]] =
       IF @.life = "live" THEN [life |-> "none", context |-> 0]
       ELSE [@ EXCEPT !.life = "destroyed twice"]]
  /\ UNCHANGED <<context, owner, cleaning, CurrentMemoryContext>>

Lost(p) ==
  IF p.state # 0 /\ p.context = Ahead THEN [p EXCEPT !.context = 0, !.gone = TRUE] ELSE p

\* All callbacks have run: the memory goes, the structs with it.
Wipe ==
  /\ ~Running /\ callbacks[Ahead] = <<>>
  /\ context' = [context EXCEPT ![Ahead] =
       IF @.life = "deleting" THEN [life |-> "none", parent |-> 0] ELSE @]
  /\ value' = [v \in Values |-> [value[v] EXCEPT !.datum = Lost(@), !.detoasted = Lost(@)]]
  /\ cleaning' = Tail(cleaning)
  /\ UNCHANGED <<owner, callbacks, state, object, CurrentMemoryContext>>
------------------------------------------------------------------------------
Next ==
  \/ \E o \in Owners : (\E c \in Made : NewOwner(o, c)) \/ DestroyOwner(o) \/ Release(o)
  \/ \E o, p \in Owners : MoveOwner(o, p)
  \/ \E c \in Contexts : Reset(c) \/ DeleteContext(c) \/ Switch(c)
  \/ \E v \in Values, s \in States, c \in Contexts : NewValue(v, s, c)
  \/ \E v, w \in Values : Copy(v, w) \/ Move(v, w) \/ Assign(v, w)
  \/ \E v \in Values : DestroyValue(v) \/ DetoastInPlace(v)
  \/ \E v \in Values, s \in States : DetoastCopy(v, s)
  \/ \E i \in Objects, c \in Contexts, V \in SUBSET Values : Construct(i, c, V)
  \/ \E v \in Values, s \in States, i \in Objects, c \in Made : NewExpanded(v, s, i, c)
  \/ \E v \in Values, i \in Objects, c \in Made : Expand(v, i, c)
  \/ TrackReset \/ DestroyObject \/ Wipe

Spec == Init /\ [][Next]_vars

\* Variables of a type are interchangeable.
Symmetry == Permutations(Owners) \cup Permutations(Values)
------------------------------------------------------------------------------
TypeOK ==
  /\ context \in [Contexts -> [life : {"none", "live", "deleting"}, parent : Contexts]]
  /\ owner \in [Owners -> Contexts]
  /\ \A c \in Contexts : Structs(c) \subseteq
       ({"state"} \X States) \cup ({"object"} \X Objects) \cup {<<"dangling", 0>>}
  /\ state \in [States -> [counter : 0 .. 1, callback : BOOLEAN]]
  /\ value \in [Values -> [datum : Ptr, detoasted : Ptr, expanded : BOOLEAN,
                           holder : 0 .. MaxObjects]]
  /\ object \in [Objects -> [life : {"none", "live"}, context : Contexts]]
  /\ CurrentMemoryContext \in Contexts

\* A pointer that ptr() or detoasted_ptr() hands out without throwing
\* pointer_gone_exception points to memory that is still there, whatever was
\* copied, moved, detoasted, reset and deleted before.
GoneIsKnown ==
  \A v \in Values, p \in Parts :
    value[v][p].gone => Resets(value[v][p]) > 0

\* The last tracker of a state may write through its callback pointer exactly
\* when the struct is there, and no struct refers to a state that its last
\* tracker took along (assignments aside, see Dangling).
CallbacksPaired ==
  \A s \in States :
    Registered(<<"state", s>>) <=> Refs(s) # {} /\ state[s].callback

\* An owner that was not moved from owns a context that exists, alone: no
\* context is deleted twice.
OneOwner ==
  \A o \in Owners : owner[o] # 0 =>
    /\ Live(owner[o])
    /\ \A p \in Owners \ {o} : owner[p] # owner[o]

\* An object exists exactly as long as the context it was constructed in is to
\* run its destructor, and its members are not destroyed before.
ObjectsGoWithContext ==
  /\ \A i \in Objects :
       object[i].life = "live" <=> Registered(<<"object", i>>)
  /\ \A v \in Values : value[v].holder # 0 => object[value[v].holder].life = "live"
===============================================================================
