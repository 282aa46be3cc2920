--------------------------------- MODULE Record ---------------------------------
(****************************************************************************)
(* Tuple descriptors and records (record.hpp): who shares a TupleDesc with    *)
(* whom, and which of them may still be changed.                             *)
(*                                                                          *)
(* A tuple_descriptor points to a TupleDesc and keeps a flag: blessed ones    *)
(* refuse set_type and set_name.  The TupleDesc itself carries a type         *)
(* modifier, the number under which Postgres registered its row type; a tuple *)
(* that is formed with it carries the number too, and whoever gets the tuple  *)
(* looks its row type up.  What set_type and set_name determine is one value, *)
(* the shape.                                                                *)
(****************************************************************************)
EXTENDS Integers, Sequences

CONSTANTS
  Descriptors,  \* variables of type tuple_descriptor, and
  Records,      \* of type record: numbers, all different
  Shapes        \* row types

VARIABLES
  desc,      \* the TupleDesc at each address: its shape and its number, 0 for none
  registry,  \* row types Postgres knows by number; the first is a composite type
  td,        \* tuple_descriptors
  rec        \* records: a descriptor of their own and a tuple

vars == <<desc, registry, td, rec>>

Variables == Descriptors \cup Records

\* An address is called by one of the variables that point there; that of a TupleDesc
\* just made is New.
New == 0
Nowhere == -1

ASSUME DistinctVariables ==
  Descriptors \cap Records = {} /\ New \notin Variables /\ Nowhere \notin Variables

NoDesc == [shape |-> "none", number |-> 0]

\* hearsay: the flag was passed with a TupleDesc that Postgres has not registered,
\* and taken on trust.
NoTd == [at |-> Nowhere, blessed |-> FALSE, hearsay |-> FALSE]
NoRec == [td |-> NoTd, tuple |-> NoDesc]

Init ==
  /\ desc = [x \in Variables |-> NoDesc]
  /\ registry \in {<<s>> : s \in Shapes}
  /\ td = [v \in Descriptors |-> NoTd]
  /\ rec = [r \in Records |-> NoRec]
------------------------------------------------------------------------------
Exists(v) == td[v] # NoTd

\* Variables and TupleDescs after a step: addresses get their names, what nothing
\* points to is forgotten.
After(tds, recs, ds) ==
  LET at == [x \in Variables |-> IF x \in Descriptors THEN tds[x].at ELSE recs[x].td.at]
      Name(p) == CHOOSE x \in Variables : at[x] = p
      Named(t) == IF t.at = Nowhere THEN t ELSE [t EXCEPT !.at = Name(@)]
  IN  /\ td' = [v \in Descriptors |-> Named(tds[v])]
      /\ rec' = [r \in Records |-> [recs[r] EXCEPT !.td = Named(@)]]
      /\ desc' = [x \in Variables |->
           IF at[x] # Nowhere /\ Name(at[x]) = x THEN ds[at[x]] ELSE NoDesc]

SetTd(v, t, ds) == After([td EXCEPT ![v] = t], rec, ds)
SetRec(r, x, ds) == After(td, [rec EXCEPT ![r] = x], ds)

\* TupleDescs, with a new one.
With(d) == [x \in Variables \cup {New} |-> IF x = New THEN d ELSE desc[x]]

\* tuple_descriptor(TupleDesc, bool = true).
Wrapped(p, ds) == [at |-> p, blessed |-> TRUE, hearsay |-> ds[p].number = 0]

\* tuple_descriptor(tuple_descriptor &) and operator=: a copy of the TupleDesc, its
\* number included, with the flag of the original.
Copied(t) == [t EXCEPT !.at = New]

\* tuple_descriptor(const tuple_descriptor &) is what the compiler makes of a const
\* original: its operator TupleDesc() and tuple_descriptor(TupleDesc, true).  The
\* copy shares the TupleDesc and is called blessed, whatever the original is.
ConstCopied(t) == [Wrapped(t.at, desc) EXCEPT !.hearsay = @ \/ t.hearsay]

\* Mutant of Registered: the number is taken before the row type is entered.
RegisteredLate(s) == [registry |-> registry, number |-> Len(registry) + 1]

\* assign_record_type_typmod: the number of an anonymous row type of this shape,
\* entered if it is new.
Registered(s) ==
  LET known == {i \in 2..Len(registry) : registry[i] = s} IN
  IF known # {} THEN [registry |-> registry, number |-> CHOOSE i \in known : TRUE]
  ELSE [registry |-> Append(registry, s), number |-> Len(registry) + 1]

\* Mutant of Blessed: the flag is not set.
BlessedUnflagged(t, d) ==
  IF t.blessed \/ d.number # 0 THEN [td |-> t, desc |-> d, registry |-> registry]
  ELSE LET new == Registered(d.shape) IN
       [td |-> t, desc |-> [d EXCEPT !.number = new.number], registry |-> new.registry]

\* operator TupleDesc() of a tuple_descriptor that is not const: t blessed, its
\* TupleDesc d and the registry then.
Blessed(t, d) ==
  IF t.blessed THEN [td |-> t, desc |-> d, registry |-> registry]
  ELSE LET new == IF d.number # 0 THEN [registry |-> registry, number |-> d.number]
                  ELSE Registered(d.shape) IN
       [td |-> [t EXCEPT !.blessed = TRUE],
        desc |-> [d EXCEPT !.number = new.number], registry |-> new.registry]
------------------------------------------------------------------------------
\* tuple_descriptor(int): what a template is before any set_type is one of the
\* shapes.
Create(v, s) ==
  /\ SetTd(v, [at |-> New, blessed |-> FALSE, hearsay |-> FALSE],
           With([shape |-> s, number |-> 0]))
  /\ UNCHANGED registry

\* tuple_descriptor(type) of a composite type; another type raises, which changes
\* nothing.
OfType(v) ==
  /\ LET ds == With([shape |-> registry[1], number |-> 1]) IN
       SetTd(v, Wrapped(New, ds), ds)
  /\ UNCHANGED registry

\* results::get_tuple_descriptor() and other TupleDescs of Postgres, registered or
\* not, which are wrapped with the default flag.
OfResults(v, s) ==
  /\ LET ds == With([shape |-> s, number |-> 0]) IN SetTd(v, Wrapped(New, ds), ds)
  /\ UNCHANGED registry

CopyTd(v, w) ==
  /\ Exists(v)
  /\ SetTd(w, Copied(td[v]), With(desc[td[v].at]))
  /\ UNCHANGED registry

ConstCopyTd(v, w) ==
  /\ Exists(v) /\ v # w
  /\ SetTd(w, ConstCopied(td[v]), desc)
  /\ UNCHANGED registry

\* The original still points to the TupleDesc; it is assigned to or destroyed next.
MoveTd(v, w) ==
  /\ Exists(v) /\ v # w
  /\ After([td EXCEPT ![w] = td[v], ![v] = NoTd], rec, desc)
  /\ UNCHANGED registry

DestroyTd(v) == Exists(v) /\ SetTd(v, NoTd, desc) /\ UNCHANGED registry

\* set_type, set_name: check_not_blessed, then the TupleDesc changes in place.
SetShape(v, s) ==
  /\ Exists(v) /\ ~td[v].blessed
  /\ SetTd(v, td[v], [desc EXCEPT ![td[v].at].shape = s])
  /\ UNCHANGED registry

ToTupleDesc(v) ==
  /\ Exists(v)
  /\ LET b == Blessed(td[v], desc[td[v].at]) IN
       /\ SetTd(v, b.td, [desc EXCEPT ![td[v].at] = b.desc])
       /\ registry' = b.registry
------------------------------------------------------------------------------
\* Mutant of Form: the descriptor is taken as const, which shares it.
FormShared(v, r) ==
  /\ Exists(v)
  /\ LET b == Blessed(td[v], desc[td[v].at])
         shared == [b.td EXCEPT !.blessed = TRUE]
     IN  /\ SetRec(r, [td |-> shared, tuple |-> b.desc], [desc EXCEPT ![td[v].at] = b.desc])
         /\ registry' = b.registry

\* record(tuple_descriptor &, values...): a copy of the descriptor, blessed as the
\* tuple is formed.  There are as many values as attributes, each of its type (the
\* caller's part: nothing checks it).
Form(v, r) ==
  /\ Exists(v)
  /\ LET b == Blessed(Copied(td[v]), desc[td[v].at]) IN
       /\ SetRec(r, [td |-> b.td, tuple |-> b.desc], With(b.desc))
       /\ registry' = b.registry

\* record(HeapTupleHeader, ...): a datum of row type i, looked up by its number.
OfDatum(r, i) ==
  /\ i <= Len(registry)
  /\ LET ds == With([shape |-> registry[i], number |-> i]) IN
       SetRec(r, [td |-> Wrapped(New, ds), tuple |-> ds[New]], ds)
  /\ UNCHANGED registry

\* record(const record &): both members are const.
CopyRecord(r, q) ==
  /\ rec[r] # NoRec /\ r # q
  /\ SetRec(q, [rec[r] EXCEPT !.td = ConstCopied(@)], desc)
  /\ UNCHANGED registry

\* operator=(const record &), of the right hand side itself too.
AssignRecord(r, q) ==
  /\ rec[r] # NoRec /\ rec[q] # NoRec
  /\ SetRec(q, [rec[r] EXCEPT !.td = Copied(@)], With(desc[rec[r].td.at]))
  /\ UNCHANGED registry

\* Moves: the original keeps pointing to both, and can only be read.
MoveRecord(r, q) ==
  /\ rec[r] # NoRec
  /\ SetRec(q, rec[r], desc)
  /\ UNCHANGED registry

DestroyRecord(r) == rec[r] # NoRec /\ SetRec(r, NoRec, desc) /\ UNCHANGED registry

\* get_tuple_descriptor() const.
GetTd(r, v) ==
  /\ rec[r] # NoRec
  /\ SetTd(v, ConstCopied(rec[r].td), desc)
  /\ UNCHANGED registry
------------------------------------------------------------------------------
Next ==
  \/ \E v \in Descriptors :
       \/ OfType(v) \/ DestroyTd(v) \/ ToTupleDesc(v)
       \/ \E s \in Shapes : Create(v, s) \/ OfResults(v, s) \/ SetShape(v, s)
       \/ \E w \in Descriptors : CopyTd(v, w) \/ ConstCopyTd(v, w) \/ MoveTd(v, w)
       \/ \E r \in Records : Form(v, r) \/ GetTd(r, v)
  \/ \E r \in Records :
       \/ \E i \in 1..Len(registry) : OfDatum(r, i)
       \/ \E q \in Records : CopyRecord(r, q) \/ AssignRecord(r, q) \/ MoveRecord(r, q)
       \/ DestroyRecord(r)

Spec == Init /\ [][Next]_vars
------------------------------------------------------------------------------
Numbers == 0..Len(registry)
TupleDescs == [shape : Shapes \cup {"none"}, number : Numbers]
Flags == [at : Variables \cup {Nowhere}, blessed : BOOLEAN, hearsay : BOOLEAN]

\* The state of the model; no number is one that Postgres has not given out.
TypeOK ==
  /\ desc \in [Variables -> TupleDescs]
  /\ registry \in Seq(Shapes) /\ registry # <<>>
  /\ td \in [Descriptors -> Flags]
  /\ rec \in [Records -> [td : Flags, tuple : TupleDescs]]

\* A record reads its tuple by the descriptor the tuple was formed with: whatever
\* is shared, copied and assigned, no set_type or set_name gets at it
\* (record.hpp:136, 161, 291-320).
ReadAsFormed ==
  \A r \in Records : rec[r] # NoRec => desc[rec[r].td.at] = rec[r].tuple

\* Whoever looks up the row type a tuple names finds the one it was formed with.  A
\* tuple names none only where a descriptor was called blessed, by the default of
\* tuple_descriptor(TupleDesc, bool) or by a copy of a const one, and was not.
RowTypesRegistered ==
  \A r \in Records : rec[r] # NoRec =>
    LET t == rec[r].tuple IN
    IF t.number = 0 THEN rec[r].td.hearsay ELSE registry[t.number] = t.shape
=================================================================================
