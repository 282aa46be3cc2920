------------------------------ MODULE RecordProofs ------------------------------
(****************************************************************************)
(* Theorems about Record, for any descriptors, records and row types.         *)
(****************************************************************************)
EXTENDS Record, SequenceTheorems, TLAPS

\* The invariant is stated of any variables tds and recs, TupleDescs ds at the
\* addresses P and registry reg, to speak of a state before its addresses get their
\* names too.
DescsOver(reg) == [shape : Shapes \cup {"none"}, number : 0..Len(reg)]
FlagsOver(P) == [at : P \cup {Nowhere}, blessed : BOOLEAN, hearsay : BOOLEAN]
Typed(tds, recs, ds, reg, P) ==
  /\ ds \in [P -> DescsOver(reg)]
  /\ reg \in Seq(Shapes) /\ reg # <<>>
  /\ tds \in [Descriptors -> FlagsOver(P)]
  /\ recs \in [Records -> [td : FlagsOver(P), tuple : DescsOver(reg)]]

\* The descriptor that is a variable, or is in it.
Holder(tds, recs, x) == IF x \in Descriptors THEN tds[x] ELSE recs[x].td

\* What a descriptor t says of its TupleDesc d: one that may be changed has no number,
\* one that may not has a number, and that of its row type, or is hearsay.
Good(t, d, reg) ==
  /\ d.shape \in Shapes
  /\ d.number # 0 => reg[d.number] = d.shape
  /\ IF t.blessed THEN d.number # 0 \/ t.hearsay ELSE d.number = 0

\* No TupleDesc that a record reads its tuple by may be changed by anyone, and no other
\* by two.
Apart(tds, recs) ==
  \A x, y \in Variables :
    /\ x # y /\ Holder(tds, recs, x).at = Holder(tds, recs, y).at
    /\ Holder(tds, recs, x).at # Nowhere /\ ~Holder(tds, recs, x).blessed
    => y \in Descriptors /\ Holder(tds, recs, y).blessed

Formed(recs, ds) ==
  \A r \in Records :
    IF recs[r].td.at = Nowhere THEN recs[r] = NoRec
    ELSE recs[r].td.blessed /\ ds[recs[r].td.at] = recs[r].tuple

Held(tds, recs, ds, reg) ==
  /\ \A v \in Descriptors : tds[v].at = Nowhere => tds[v] = NoTd
  /\ \A x \in Variables :
       Holder(tds, recs, x).at # Nowhere =>
         Good(Holder(tds, recs, x), ds[Holder(tds, recs, x).at], reg)
  /\ Formed(recs, ds)
  /\ Apart(tds, recs)

Inv == Typed(td, rec, desc, registry, Variables) /\ Held(td, rec, desc, registry)
------------------------------------------------------------------------------
\* Addresses get their names: what the invariant says survives it.
LEMMA Renamed ==
  ASSUME NEW tds, NEW recs, NEW ds, NEW P, Nowhere \notin P,
         Typed(tds, recs, ds, registry', P), Held(tds, recs, ds, registry'),
         After(tds, recs, ds)
  PROVE  Inv'
<1> DEFINE at == [x \in Variables |-> IF x \in Descriptors THEN tds[x].at ELSE recs[x].td.at]
           Name(p) == CHOOSE x \in Variables : at[x] = p
           Named(t) == IF t.at = Nowhere THEN t ELSE [t EXCEPT !.at = Name(@)]
<1>1. /\ td' = [v \in Descriptors |-> Named(tds[v])]
      /\ rec' = [r \in Records |-> [recs[r] EXCEPT !.td = Named(@)]]
      /\ desc' = [x \in Variables |->
           IF at[x] # Nowhere /\ Name(at[x]) = x THEN ds[at[x]] ELSE NoDesc]
  BY DEF After
<1>2. \A x \in Variables : at[x] = Holder(tds, recs, x).at
  BY DEF Holder
<1>3. \A x \in Variables : Name(at[x]) \in Variables /\ at[Name(at[x])] = at[x]
  OBVIOUS
<1>4. \A x \in Variables : Holder(tds, recs, x) \in FlagsOver(P)
  BY DEF Typed, Holder, Variables
<1> HIDE DEF at, Name
<1>5. \A x \in Variables : Holder(td', rec', x) = Named(Holder(tds, recs, x))
  <2>1. \A r \in Records : rec'[r] = [recs[r] EXCEPT !.td = Named(@)]
    BY <1>1
  <2>2. \A r \in Records : rec'[r].td = Named(recs[r].td) /\ rec'[r].tuple = recs[r].tuple
    BY <2>1, ZenonT(30) DEF Typed
  <2> QED
    BY <1>1, <2>2 DEF Holder, Variables
<1>6. \A x \in Variables :
        LET t == Holder(tds, recs, x)
            u == Holder(td', rec', x)
        IN  /\ u.blessed = t.blessed /\ u.hearsay = t.hearsay
            /\ IF t.at = Nowhere THEN u.at = Nowhere
               ELSE u.at = Name(t.at) /\ u.at \in Variables /\ desc'[u.at] = ds[t.at]
            /\ u \in FlagsOver(Variables)
  <2> SUFFICES ASSUME NEW x \in Variables
               PROVE  LET t == Holder(tds, recs, x)
                          u == Holder(td', rec', x)
                      IN  /\ u.blessed = t.blessed /\ u.hearsay = t.hearsay
                          /\ IF t.at = Nowhere THEN u.at = Nowhere
                             ELSE u.at = Name(t.at) /\ u.at \in Variables /\ desc'[u.at] = ds[t.at]
                          /\ u \in FlagsOver(Variables)
    OBVIOUS
  <2> DEFINE t == Holder(tds, recs, x)
             u == Holder(td', rec', x)
  <2>1. t \in FlagsOver(P) /\ u = Named(t) /\ t.at = at[x]
    BY <1>2, <1>4, <1>5
  <2> HIDE DEF t, u
  <2>2. CASE t.at = Nowhere
    <3>1. u = t
      BY <2>1, <2>2
    <3> QED
      BY <2>1, <2>2, <3>1 DEF FlagsOver, t, u
  <2>3. CASE t.at # Nowhere
    <3>1. u = [t EXCEPT !.at = Name(t.at)]
      BY <2>1, <2>3
    <3>2. Name(t.at) \in Variables /\ at[Name(t.at)] = t.at
      BY <1>3, <2>1
    <3>3. u.at = Name(t.at) /\ u.blessed = t.blessed /\ u.hearsay = t.hearsay
          /\ u \in FlagsOver(Variables)
      BY <2>1, <3>1, <3>2 DEF FlagsOver
    <3>4. desc'[u.at] = ds[t.at]
      BY <1>1, <2>3, <3>2, <3>3
    <3> QED
      BY <2>3, <3>2, <3>3, <3>4 DEF t, u
  <2> QED
    BY <2>2, <2>3
<1>7. \A x, y \in Variables :
        Holder(td', rec', x).at # Nowhere /\ Holder(td', rec', x).at = Holder(td', rec', y).at
        => /\ Holder(tds, recs, x).at # Nowhere
           /\ Holder(tds, recs, x).at = Holder(tds, recs, y).at
  BY <1>2, <1>3, <1>6, DistinctVariables
<1>8. Typed(td', rec', desc', registry', Variables)
  <2>1. \A x \in Variables : at[x] # Nowhere => ds[at[x]] \in DescsOver(registry')
    BY <1>2, <1>4 DEF FlagsOver, Typed
  <2>2. NoDesc \in DescsOver(registry')
    <3>1. Len(registry') \in Nat
      BY DEF Typed
    <3> QED
      BY <3>1 DEF NoDesc, DescsOver
  <2>3. desc' \in [Variables -> DescsOver(registry')]
    BY <1>1, <2>1, <2>2
  <2>4. td' \in [Descriptors -> FlagsOver(Variables)]
    BY <1>1, <1>6 DEF Holder, Variables
  <2>5. rec' \in [Records -> [td : FlagsOver(Variables), tuple : DescsOver(registry')]]
    <3>1. \A r \in Records : rec'[r] = [recs[r] EXCEPT !.td = Named(@)]
      BY <1>1
    <3>2. \A r \in Records : rec'[r].td \in FlagsOver(Variables)
      BY <1>6, DistinctVariables DEF Holder, Variables
    <3>3. \A r \in Records : rec'[r] \in [td : FlagsOver(Variables), tuple : DescsOver(registry')]
      BY <3>1, <3>2 DEF Typed
    <3> QED
      BY <1>1, <3>3
  <2> QED
    BY <2>3, <2>4, <2>5 DEF Typed
<1>9. Held(td', rec', desc', registry')
  <2>1. \A v \in Descriptors : td'[v].at = Nowhere => td'[v] = NoTd
    <3> SUFFICES ASSUME NEW v \in Descriptors, td'[v].at = Nowhere PROVE td'[v] = NoTd
      OBVIOUS
    <3>1. v \in Variables /\ Holder(td', rec', v) = td'[v] /\ Holder(tds, recs, v) = tds[v]
      BY DEF Variables, Holder
    <3>2. tds[v].at = Nowhere
      BY <1>6, <3>1, DistinctVariables
    <3> QED
      BY <1>1, <3>2 DEF Held
  <2>2. ASSUME NEW x \in Variables, Holder(td', rec', x).at # Nowhere
        PROVE  Good(Holder(td', rec', x), desc'[Holder(td', rec', x).at], registry')
    BY <1>6, <2>2 DEF Held, Good
  <2>3. Formed(rec', desc')
    <3> SUFFICES ASSUME NEW r \in Records
                 PROVE  IF rec'[r].td.at = Nowhere THEN rec'[r] = NoRec
                        ELSE rec'[r].td.blessed /\ desc'[rec'[r].td.at] = rec'[r].tuple
      BY DEF Formed
    <3>1. r \in Variables /\ Holder(td', rec', r) = rec'[r].td /\ Holder(tds, recs, r) = recs[r].td
      BY DistinctVariables DEF Variables, Holder
    <3>2. rec'[r] = [recs[r] EXCEPT !.td = Named(@)]
      BY <1>1
    <3>3. rec'[r].tuple = recs[r].tuple
      BY <3>2 DEF Typed
    <3>4. CASE recs[r].td.at = Nowhere
      <4>1. recs[r] = NoRec
        BY <3>4 DEF Held, Formed
      <4>2. Named(recs[r].td) = recs[r].td
        BY <3>4
      <4>3. rec'[r] = NoRec
        BY <3>2, <4>1, <4>2 DEF NoRec
      <4> QED
        BY <4>3 DEF NoRec, NoTd
    <3>5. CASE recs[r].td.at # Nowhere
      <4>1. recs[r].td.blessed /\ ds[recs[r].td.at] = recs[r].tuple
        BY <3>5 DEF Held, Formed
      <4> QED
        BY <1>6, <3>1, <3>3, <3>5, <4>1, DistinctVariables
    <3> QED
      BY <3>4, <3>5
  <2>4. Apart(td', rec')
    <3> SUFFICES ASSUME NEW x \in Variables, NEW y \in Variables, x # y,
                        Holder(td', rec', x).at = Holder(td', rec', y).at,
                        Holder(td', rec', x).at # Nowhere, ~Holder(td', rec', x).blessed
                 PROVE  y \in Descriptors /\ Holder(td', rec', y).blessed
      BY DEF Apart
    <3>1. /\ Holder(tds, recs, x).at # Nowhere
          /\ Holder(tds, recs, x).at = Holder(tds, recs, y).at
          /\ ~Holder(tds, recs, x).blessed
      BY <1>6, <1>7
    <3>2. y \in Descriptors /\ Holder(tds, recs, y).blessed
      BY <3>1 DEF Held, Apart
    <3> QED
      BY <1>6, <3>2
  <2> QED
    BY <2>1, <2>2, <2>3, <2>4 DEF Held
<1> QED
  BY <1>8, <1>9 DEF Inv
------------------------------------------------------------------------------
\* Postgres forgets no row type, and gives no number twice.
Grown ==
  /\ registry' \in Seq(Shapes) /\ registry' # <<>> /\ Len(registry) <= Len(registry')
  /\ \A i \in 1..Len(registry) : registry'[i] = registry[i]

LEMMA SameGrown ==
  ASSUME Inv, UNCHANGED registry
  PROVE  Grown
<1>1. registry \in Seq(Shapes) /\ registry # <<>> /\ Len(registry) \in Nat
  BY DEF Inv, Typed
<1> QED
  BY <1>1 DEF Grown

LEMMA GrownDescs ==
  ASSUME Inv, Grown
  PROVE  /\ DescsOver(registry) \subseteq DescsOver(registry')
         /\ Len(registry) \in Nat /\ Len(registry') \in Nat
         /\ \A x \in Variables : desc[x] \in DescsOver(registry')
         /\ \A r \in Records : rec[r].tuple \in DescsOver(registry')
<1>1. Len(registry) \in Nat /\ Len(registry') \in Nat /\ Len(registry) <= Len(registry')
  BY DEF Grown, Inv, Typed
<1>2. DescsOver(registry) \subseteq DescsOver(registry')
  BY <1>1 DEF DescsOver
<1> QED
  BY <1>1, <1>2 DEF Inv, Typed

LEMMA GoodGrown ==
  ASSUME Inv, Grown, NEW t, NEW d \in DescsOver(registry), Good(t, d, registry)
  PROVE  Good(t, d, registry')
<1>1. d.number # 0 => d.number \in 1..Len(registry)
  BY GrownDescs DEF DescsOver
<1> QED
  BY <1>1 DEF Good, Grown

\* The descriptors and the TupleDescs they point to.
LEMMA Holders ==
  ASSUME Inv
  PROVE  /\ \A x \in Variables : Holder(td, rec, x) \in FlagsOver(Variables)
         /\ \A v \in Descriptors : v \in Variables /\ Holder(td, rec, v) = td[v]
         /\ \A r \in Records : r \in Variables /\ r \notin Descriptors /\ Holder(td, rec, r) = rec[r].td
         /\ \A x \in Variables : Holder(td, rec, x).at # Nowhere =>
              /\ Holder(td, rec, x).at \in Variables
              /\ desc[Holder(td, rec, x).at] \in DescsOver(registry)
              /\ Good(Holder(td, rec, x), desc[Holder(td, rec, x).at], registry)
<1>1. \A x \in Variables : Holder(td, rec, x) \in FlagsOver(Variables)
  BY DEF Inv, Typed, Holder, Variables
<1>2. /\ \A v \in Descriptors : v \in Variables /\ Holder(td, rec, v) = td[v]
      /\ \A r \in Records : r \in Variables /\ r \notin Descriptors /\ Holder(td, rec, r) = rec[r].td
  BY DistinctVariables DEF Holder, Variables
<1>3. \A x \in Variables : Holder(td, rec, x).at # Nowhere => Holder(td, rec, x).at \in Variables
  BY <1>1 DEF FlagsOver
<1> QED
  BY <1>1, <1>2, <1>3 DEF Inv, Typed, Held

LEMMA Existing ==
  ASSUME Inv
  PROVE  /\ \A v \in Descriptors : Exists(v) => td[v].at # Nowhere
         /\ \A r \in Records : rec[r] # NoRec => rec[r].td.at # Nowhere /\ rec[r].td.blessed
                                                 /\ desc[rec[r].td.at] = rec[r].tuple
BY DEF Inv, Held, Formed, Exists

\* A variable w gets a descriptor t: a new one, or one that shares a TupleDesc.
Gets(w, t, tds, recs, ds) ==
  /\ Holder(tds, recs, w) = t
  /\ \A x \in Variables : x # w => Holder(tds, recs, x) = Holder(td, rec, x)
  /\ \A x \in Variables : ds[x] = desc[x]
  /\ t.at # Nowhere =>
       /\ Good(t, ds[t.at], registry')
       /\ \/ t.at = New
          \/ t.blessed /\ w \in Descriptors
          \/ t.blessed /\ \E r \in Records : rec[r].td.at = t.at

LEMMA OneHolder ==
  ASSUME Inv, Grown, NEW w \in Variables, NEW t, NEW tds, NEW recs, NEW ds,
         Gets(w, t, tds, recs, ds)
  PROVE  /\ \A x \in Variables :
              Holder(tds, recs, x).at # Nowhere =>
                Good(Holder(tds, recs, x), ds[Holder(tds, recs, x).at], registry')
         /\ Apart(tds, recs)
<1> USE DEF Gets
<1>1. ASSUME NEW x \in Variables, Holder(tds, recs, x).at # Nowhere
      PROVE  Good(Holder(tds, recs, x), ds[Holder(tds, recs, x).at], registry')
  <2>1. CASE x = w
    BY <1>1, <2>1
  <2>2. CASE x # w
    <3>1. Holder(tds, recs, x) = Holder(td, rec, x)
      BY <2>2
    <3>2. ds[Holder(td, rec, x).at] = desc[Holder(td, rec, x).at]
      BY <1>1, <3>1, Holders
    <3> QED
      BY <1>1, <3>1, <3>2, Holders, GoodGrown
  <2> QED
    BY <2>1, <2>2
<1>2. ASSUME NEW x \in Variables, NEW y \in Variables, x # y,
             Holder(tds, recs, x).at = Holder(tds, recs, y).at,
             Holder(tds, recs, x).at # Nowhere, ~Holder(tds, recs, x).blessed
      PROVE  y \in Descriptors /\ Holder(tds, recs, y).blessed
  <2>1. \A z \in Variables : Holder(td, rec, z).at # New
    BY Holders, DistinctVariables DEF FlagsOver, New, Nowhere
  <2>2. CASE x # w /\ y # w
    BY <1>2, <2>2 DEF Inv, Held, Apart
  <2>3. CASE x = w
    BY <1>2, <2>1, <2>3
  <2>4. CASE y = w /\ x # w
    <3>1. Holder(td, rec, x) = Holder(tds, recs, x) /\ t.at = Holder(td, rec, x).at
      BY <1>2, <2>4
    <3>2. t.blessed
      BY <1>2, <2>1, <3>1
    <3>3. ASSUME NEW r \in Records, rec[r].td.at = t.at PROVE FALSE
      <4>1. /\ r \in Variables /\ r \notin Descriptors /\ Holder(td, rec, r) = rec[r].td
        BY Holders
      <4>2. Holder(td, rec, r).blessed
        BY <1>2, <3>1, <3>3, <4>1 DEF Inv, Held, Formed
      <4>3. x # r
        BY <1>2, <3>1, <4>2
      <4> QED
        BY <1>2, <3>1, <3>3, <4>1, <4>3 DEF Inv, Held, Apart
    <3> QED
      BY <1>2, <2>1, <2>4, <3>1, <3>2, <3>3
  <2> QED
    BY <2>2, <2>3, <2>4
<1> QED
  BY <1>1, <1>2 DEF Apart

LEMMA FlagsMore ==
  ASSUME NEW P, Variables \subseteq P
  PROVE  FlagsOver(Variables) \subseteq FlagsOver(P)
BY DEF FlagsOver

LEMMA SetTdKeeps ==
  ASSUME Inv, Grown, NEW P, Variables \subseteq P, Nowhere \notin P,
         NEW ds \in [P -> DescsOver(registry')], \A x \in Variables : ds[x] = desc[x],
         NEW w \in Descriptors, NEW t \in FlagsOver(P),
         IF t.at = Nowhere THEN t = NoTd
         ELSE Good(t, ds[t.at], registry') /\ (t.at = New \/ t.blessed),
         SetTd(w, t, ds)
  PROVE  Inv'
<1> DEFINE tds == [td EXCEPT ![w] = t]
<1>1. After(tds, rec, ds)
  BY DEF SetTd
<1>2. /\ w \in Variables /\ Holder(tds, rec, w) = t
      /\ \A x \in Variables : x # w => Holder(tds, rec, x) = Holder(td, rec, x)
      /\ tds \in [Descriptors -> FlagsOver(P)]
      /\ \A v \in Descriptors : tds[v] = IF v = w THEN t ELSE td[v]
  BY FlagsMore DEF Inv, Typed, Holder, Variables
<1> HIDE DEF tds
<1>3. /\ \A x \in Variables :
           Holder(tds, rec, x).at # Nowhere =>
             Good(Holder(tds, rec, x), ds[Holder(tds, rec, x).at], registry')
      /\ Apart(tds, rec)
  <2>1. Gets(w, t, tds, rec, ds)
    BY <1>2 DEF Gets
  <2> QED
    BY <1>2, <2>1, OneHolder
<1>4. Typed(tds, rec, ds, registry', P)
  <2>1. rec \in [Records -> [td : FlagsOver(P), tuple : DescsOver(registry')]]
    BY FlagsMore, GrownDescs DEF Inv, Typed
  <2> QED
    BY <1>2, <2>1 DEF Typed, Grown
<1>5. Formed(rec, ds)
  BY Holders DEF Inv, Held, Formed
<1>6. \A v \in Descriptors : tds[v].at = Nowhere => tds[v] = NoTd
  BY <1>2 DEF Inv, Held
<1> QED
  BY <1>1, <1>3, <1>4, <1>5, <1>6, Renamed DEF Held

LEMMA SetRecKeeps ==
  ASSUME Inv, Grown, NEW P, Variables \subseteq P, Nowhere \notin P,
         NEW ds \in [P -> DescsOver(registry')], \A x \in Variables : ds[x] = desc[x],
         NEW w \in Records, NEW x \in [td : FlagsOver(P), tuple : DescsOver(registry')],
         IF x.td.at = Nowhere THEN x = NoRec
         ELSE /\ Good(x.td, ds[x.td.at], registry') /\ x.td.blessed
              /\ ds[x.td.at] = x.tuple
              /\ x.td.at = New \/ \E r \in Records : rec[r].td.at = x.td.at,
         SetRec(w, x, ds)
  PROVE  Inv'
<1> DEFINE recs == [rec EXCEPT ![w] = x]
<1>1. After(td, recs, ds)
  BY DEF SetRec
<1>2. /\ recs \in [Records -> [td : FlagsOver(P), tuple : DescsOver(registry')]]
      /\ \A r \in Records : recs[r] = IF r = w THEN x ELSE rec[r]
  <2>1. rec \in [Records -> [td : FlagsOver(P), tuple : DescsOver(registry')]]
    BY FlagsMore, GrownDescs DEF Inv, Typed
  <2> QED
    BY <2>1
<1> HIDE DEF recs
<1>3. /\ w \in Variables /\ Holder(td, recs, w) = x.td
      /\ \A y \in Variables : y # w => Holder(td, recs, y) = Holder(td, rec, y)
  BY <1>2, DistinctVariables DEF Holder, Variables
<1>4. /\ \A y \in Variables :
           Holder(td, recs, y).at # Nowhere =>
             Good(Holder(td, recs, y), ds[Holder(td, recs, y).at], registry')
      /\ Apart(td, recs)
  <2>1. Gets(w, x.td, td, recs, ds)
    BY <1>3 DEF Gets
  <2> QED
    BY <1>3, <2>1, OneHolder
<1>5. Typed(td, recs, ds, registry', P)
  <2>1. td \in [Descriptors -> FlagsOver(P)]
    BY FlagsMore DEF Inv, Typed
  <2> QED
    BY <1>2, <2>1 DEF Typed, Grown
<1>6. Formed(recs, ds)
  <2> SUFFICES ASSUME NEW r \in Records
               PROVE  IF recs[r].td.at = Nowhere THEN recs[r] = NoRec
                      ELSE recs[r].td.blessed /\ ds[recs[r].td.at] = recs[r].tuple
    BY DEF Formed
  <2>1. CASE r = w
    BY <1>2, <2>1
  <2>2. CASE r # w
    BY <1>2, <2>2, Holders DEF Inv, Held, Formed
  <2> QED
    BY <2>1, <2>2
<1>7. \A v \in Descriptors : td[v].at = Nowhere => td[v] = NoTd
  BY DEF Inv, Held
<1> QED
  BY <1>1, <1>4, <1>5, <1>6, <1>7, Renamed DEF Held

\* A TupleDesc changes in place, by the only descriptor that may change it.
LEMMA SetInPlace ==
  ASSUME Inv, Grown, NEW v \in Descriptors, Exists(v), ~td[v].blessed,
         NEW t \in FlagsOver(Variables), t.at = td[v].at,
         NEW d \in DescsOver(registry'), Good(t, d, registry'),
         SetTd(v, t, [desc EXCEPT ![td[v].at] = d])
  PROVE  Inv'
<1> DEFINE p == td[v].at
           tds == [td EXCEPT ![v] = t]
           ds == [desc EXCEPT ![td[v].at] = d]
<1>1. p # Nowhere /\ p \in Variables /\ v \in Variables /\ Holder(td, rec, v) = td[v]
  BY Existing, Holders
<1>2. desc[p].number = 0
  BY <1>1, Holders DEF Good
<1>3. /\ After(tds, rec, ds) /\ tds \in [Descriptors -> FlagsOver(Variables)]
      /\ \A u \in Descriptors : tds[u] = IF u = v THEN t ELSE td[u]
      /\ Holder(tds, rec, v) = t
      /\ \A x \in Variables : x # v => Holder(tds, rec, x) = Holder(td, rec, x)
  BY DEF SetTd, Inv, Typed, Holder, Variables
<1>4. /\ ds \in [Variables -> DescsOver(registry')] /\ ds[p] = d
      /\ \A x \in Variables : x # p => ds[x] = desc[x]
  BY <1>1, GrownDescs DEF Inv, Typed
<1> HIDE DEF tds, ds, p
<1>5. \A x \in Variables : x # v /\ Holder(td, rec, x).at = p =>
        x \in Descriptors /\ Holder(td, rec, x).blessed /\ Holder(td, rec, x).hearsay
  <2> SUFFICES ASSUME NEW x \in Variables, x # v, Holder(td, rec, x).at = p
               PROVE  x \in Descriptors /\ Holder(td, rec, x).blessed /\ Holder(td, rec, x).hearsay
    OBVIOUS
  <2>1. x \in Descriptors /\ Holder(td, rec, x).blessed
    BY <1>1 DEF Inv, Held, Apart, p
  <2> QED
    BY <1>1, <1>2, <2>1, Holders DEF Good
<1>6. \A x \in Variables : Holder(tds, rec, x).at # Nowhere =>
        Good(Holder(tds, rec, x), ds[Holder(tds, rec, x).at], registry')
  <2> SUFFICES ASSUME NEW x \in Variables, Holder(tds, rec, x).at # Nowhere
               PROVE  Good(Holder(tds, rec, x), ds[Holder(tds, rec, x).at], registry')
    OBVIOUS
  <2>1. CASE x = v
    BY <1>3, <1>4, <2>1 DEF p
  <2>2. CASE x # v /\ Holder(td, rec, x).at = p
    BY <1>3, <1>4, <1>5, <2>2 DEF Good
  <2>3. CASE x # v /\ Holder(td, rec, x).at # p
    <3>1. Holder(tds, rec, x) = Holder(td, rec, x) /\ Holder(td, rec, x).at \in Variables
      BY <1>3, <2>3, Holders
    <3>2. ds[Holder(td, rec, x).at] = desc[Holder(td, rec, x).at]
      BY <1>4, <2>3, <3>1
    <3> QED
      BY <3>1, <3>2, Holders, GoodGrown
  <2> QED
    BY <2>1, <2>2, <2>3
<1>7. Apart(tds, rec)
  <2> SUFFICES ASSUME NEW x \in Variables, NEW y \in Variables, x # y,
                      Holder(tds, rec, x).at = Holder(tds, rec, y).at,
                      Holder(tds, rec, x).at # Nowhere, ~Holder(tds, rec, x).blessed
               PROVE  y \in Descriptors /\ Holder(tds, rec, y).blessed
    BY DEF Apart
  <2>1. CASE x = v
    BY <1>3, <1>5, <2>1 DEF p
  <2>2. CASE x # v /\ y = v
    <3>1. Holder(td, rec, x).at = p /\ ~Holder(td, rec, x).blessed
      BY <1>3, <2>2 DEF p
    <3> QED
      BY <1>5, <2>2, <3>1
  <2>3. CASE x # v /\ y # v
    BY <1>3, <2>3 DEF Inv, Held, Apart
  <2> QED
    BY <2>1, <2>2, <2>3
<1>8. Formed(rec, ds)
  <2> SUFFICES ASSUME NEW r \in Records
               PROVE  IF rec[r].td.at = Nowhere THEN rec[r] = NoRec
                      ELSE rec[r].td.blessed /\ ds[rec[r].td.at] = rec[r].tuple
    BY DEF Formed
  <2>1. r \in Variables /\ r \notin Descriptors /\ Holder(td, rec, r) = rec[r].td
    BY Holders
  <2>2. rec[r].td.at # p /\ (rec[r].td.at # Nowhere => rec[r].td.at \in Variables)
    BY <1>5, <2>1, Holders
  <2>3. IF rec[r].td.at = Nowhere THEN rec[r] = NoRec
        ELSE rec[r].td.blessed /\ desc[rec[r].td.at] = rec[r].tuple
    BY DEF Inv, Held, Formed
  <2> QED
    BY <1>4, <2>2, <2>3
<1>9. Typed(tds, rec, ds, registry', Variables)
  <2>1. rec \in [Records -> [td : FlagsOver(Variables), tuple : DescsOver(registry')]]
    BY GrownDescs DEF Inv, Typed
  <2> QED
    BY <1>3, <1>4, <2>1 DEF Typed, Grown
<1>10. \A u \in Descriptors : tds[u].at = Nowhere => tds[u] = NoTd
  BY <1>1, <1>3 DEF Inv, Held, p
<1> QED
  BY <1>3, <1>6, <1>7, <1>8, <1>9, <1>10, Renamed, DistinctVariables DEF Held

\* The TupleDesc a step makes.
LEMMA NewDesc ==
  ASSUME Inv, Grown, NEW d \in DescsOver(registry')
  PROVE  /\ With(d) \in [Variables \cup {New} -> DescsOver(registry')]
         /\ With(d)[New] = d /\ \A x \in Variables : With(d)[x] = desc[x]
         /\ Nowhere \notin Variables \cup {New} /\ New # Nowhere
BY GrownDescs, DistinctVariables DEF With, New, Nowhere

\* assign_record_type_typmod gives a number of this row type.
LEMMA Registering ==
  ASSUME Inv, NEW s \in Shapes, registry' = Registered(s).registry
  PROVE  /\ Grown /\ Registered(s).number \in 1..Len(registry')
         /\ registry'[Registered(s).number] = s
<1> DEFINE known == {i \in 2..Len(registry) : registry[i] = s}
           n == Len(registry)
<1>1. registry \in Seq(Shapes) /\ registry # <<>> /\ n \in Nat \ {0}
  BY DEF Inv, Typed
<1>2. CASE known # {}
  <2>1. (CHOOSE i \in known : TRUE) \in known
    BY <1>2
  <2>2. Registered(s) = [registry |-> registry, number |-> CHOOSE i \in known : TRUE]
    BY <1>2 DEF Registered
  <2>3. registry' = registry /\ Registered(s).number \in known
    BY <2>1, <2>2
  <2> QED
    BY <1>1, <2>3 DEF Grown
<1>3. CASE known = {}
  <2>1. Registered(s) = [registry |-> Append(registry, s), number |-> n + 1]
    BY <1>3 DEF Registered
  <2>2. registry' = Append(registry, s) /\ Registered(s).number = n + 1
    BY <2>1
  <2>3. /\ registry' \in Seq(Shapes) /\ Len(registry') = n + 1 /\ registry'[n + 1] = s
        /\ \A i \in 1..n : registry'[i] = registry[i]
    BY <1>1, <2>2
  <2> QED
    BY <1>1, <2>2, <2>3 DEF Grown
<1> QED
  BY <1>2, <1>3

\* operator TupleDesc() makes a descriptor and its TupleDesc good for a tuple.
LEMMA Blessing ==
  ASSUME Inv, NEW P, NEW t \in FlagsOver(P), NEW d \in DescsOver(registry),
         Good(t, d, registry), registry' = Blessed(t, d).registry
  PROVE  /\ Grown /\ Blessed(t, d).td \in FlagsOver(P)
         /\ Blessed(t, d).td.at = t.at /\ Blessed(t, d).td.blessed
         /\ Blessed(t, d).desc \in DescsOver(registry')
         /\ Good(Blessed(t, d).td, Blessed(t, d).desc, registry')
<1>1. CASE t.blessed
  <2>1. Blessed(t, d) = [td |-> t, desc |-> d, registry |-> registry]
    BY <1>1 DEF Blessed
  <2> QED
    BY <1>1, <2>1, SameGrown, GoodGrown, GrownDescs
<1>2. CASE ~t.blessed
  <2>1. d.number = 0 /\ d.shape \in Shapes
    BY <1>2 DEF Good
  <2>2. Blessed(t, d) = [td |-> [t EXCEPT !.blessed = TRUE],
                         desc |-> [d EXCEPT !.number = Registered(d.shape).number],
                         registry |-> Registered(d.shape).registry]
    BY <1>2, <2>1 DEF Blessed
  <2>3. registry' = Registered(d.shape).registry
    BY <2>2
  <2>4. /\ Grown /\ Registered(d.shape).number \in 1..Len(registry')
        /\ registry'[Registered(d.shape).number] = d.shape
    BY <2>1, <2>3, Registering
  <2>5. /\ [t EXCEPT !.blessed = TRUE] \in FlagsOver(P)
        /\ [t EXCEPT !.blessed = TRUE].at = t.at /\ [t EXCEPT !.blessed = TRUE].blessed
    BY DEF FlagsOver
  <2> DEFINE e == [d EXCEPT !.number = Registered(d.shape).number]
  <2>6. e.shape = d.shape /\ e.number = Registered(d.shape).number
    BY DEF DescsOver
  <2>7. e \in DescsOver(registry')
    BY <2>4, GrownDescs DEF DescsOver
  <2>8. e.number # 0
    BY <2>4, <2>6, GrownDescs
  <2>9. Blessed(t, d).td = [t EXCEPT !.blessed = TRUE] /\ Blessed(t, d).desc = e
    BY <2>2
  <2> HIDE DEF e
  <2>10. Good(Blessed(t, d).td, e, registry')
    BY <2>1, <2>4, <2>5, <2>6, <2>8, <2>9 DEF Good
  <2> QED
    BY <2>4, <2>5, <2>7, <2>9, <2>10
<1> QED
  BY <1>1, <1>2
------------------------------------------------------------------------------
\* The steps.

LEMMA NewTdKeeps ==
  ASSUME Inv, Grown, NEW w \in Descriptors, NEW d \in DescsOver(registry'),
         NEW t \in FlagsOver(Variables \cup {New}), t.at = New, Good(t, d, registry'),
         SetTd(w, t, With(d))
  PROVE  Inv'
BY NewDesc, SetTdKeeps

LEMMA NewRecKeeps ==
  ASSUME Inv, Grown, NEW r \in Records, NEW d \in DescsOver(registry'),
         NEW t \in FlagsOver(Variables \cup {New}), t.at = New, t.blessed, Good(t, d, registry'),
         SetRec(r, [td |-> t, tuple |-> d], With(d))
  PROVE  Inv'
<1> DEFINE x == [td |-> t, tuple |-> d]
<1>1. /\ x \in [td : FlagsOver(Variables \cup {New}), tuple : DescsOver(registry')]
      /\ x.td = t /\ x.tuple = d
  OBVIOUS
<1> HIDE DEF x
<1>2. /\ With(d) \in [Variables \cup {New} -> DescsOver(registry')]
      /\ With(d)[New] = d /\ \A y \in Variables : With(d)[y] = desc[y]
      /\ Nowhere \notin Variables \cup {New} /\ New # Nowhere
  BY NewDesc
<1>3. SetRec(r, x, With(d))
  BY DEF x
<1>4. IF x.td.at = Nowhere THEN x = NoRec
      ELSE /\ Good(x.td, With(d)[x.td.at], registry') /\ x.td.blessed
           /\ With(d)[x.td.at] = x.tuple
           /\ x.td.at = New \/ \E q \in Records : rec[q].td.at = x.td.at
  BY <1>1, <1>2
<1> QED
  BY <1>1, <1>2, <1>3, <1>4, SetRecKeeps

LEMMA SharedTdKeeps ==
  ASSUME Inv, Grown, NEW w \in Descriptors, NEW t \in FlagsOver(Variables), t.blessed,
         t.at # Nowhere, Good(t, desc[t.at], registry'), SetTd(w, t, desc)
  PROVE  Inv'
<1>1. desc \in [Variables -> DescsOver(registry')] /\ Nowhere \notin Variables
  BY GrownDescs, DistinctVariables DEF Inv, Typed
<1> QED
  BY <1>1, SetTdKeeps

\* The parts of Wrapped, Copied and ConstCopied.
LEMMA Copies ==
  ASSUME Inv, NEW t \in FlagsOver(Variables), t.at # Nowhere, Good(t, desc[t.at], registry)
  PROVE  /\ Copied(t) \in FlagsOver(Variables \cup {New}) /\ Copied(t).at = New
         /\ Copied(t).blessed = t.blessed /\ Good(Copied(t), desc[t.at], registry)
         /\ ConstCopied(t) \in FlagsOver(Variables) /\ ConstCopied(t).at = t.at
         /\ ConstCopied(t).blessed /\ Good(ConstCopied(t), desc[t.at], registry)
<1>1. /\ Copied(t) \in FlagsOver(Variables \cup {New}) /\ Copied(t).at = New
      /\ Copied(t).blessed = t.blessed /\ Copied(t).hearsay = t.hearsay
  BY DEF Copied, FlagsOver
<1> DEFINE w == Wrapped(t.at, desc)
<1>2. /\ w \in FlagsOver(Variables) /\ w.at = t.at /\ w.blessed
      /\ w.hearsay <=> desc[t.at].number = 0
  BY DEF Wrapped, FlagsOver
<1> HIDE DEF w
<1>3. /\ ConstCopied(t) \in FlagsOver(Variables) /\ ConstCopied(t).at = t.at
      /\ ConstCopied(t).blessed
      /\ ConstCopied(t).hearsay <=> (desc[t.at].number = 0 \/ t.hearsay)
  <2>1. ConstCopied(t) = [w EXCEPT !.hearsay = w.hearsay \/ t.hearsay]
    BY DEF ConstCopied, w
  <2> QED
    BY <1>2, <2>1 DEF FlagsOver
<1> QED
  BY <1>1, <1>3 DEF Good

LEMMA TdHolder ==
  ASSUME Inv, NEW v \in Descriptors, Exists(v)
  PROVE  /\ td[v] \in FlagsOver(Variables) /\ td[v].at # Nowhere /\ td[v].at \in Variables
         /\ desc[td[v].at] \in DescsOver(registry) /\ Good(td[v], desc[td[v].at], registry)
<1>1. v \in Variables /\ Holder(td, rec, v) = td[v] /\ td[v].at # Nowhere
  BY Holders, Existing
<1> QED
  BY <1>1, Holders

LEMMA RecHolder ==
  ASSUME Inv, NEW r \in Records, rec[r] # NoRec
  PROVE  /\ rec[r].td \in FlagsOver(Variables) /\ rec[r].td.at # Nowhere
         /\ rec[r].td.at \in Variables /\ rec[r].td.blessed
         /\ rec[r].tuple \in DescsOver(registry) /\ desc[rec[r].td.at] = rec[r].tuple
         /\ Good(rec[r].td, rec[r].tuple, registry)
         /\ rec[r] = [td |-> rec[r].td, tuple |-> rec[r].tuple]
<1>1. /\ r \in Variables /\ Holder(td, rec, r) = rec[r].td /\ rec[r].td.at # Nowhere
      /\ rec[r].td.blessed /\ desc[rec[r].td.at] = rec[r].tuple
  BY Holders, Existing
<1>2. rec[r] = [td |-> rec[r].td, tuple |-> rec[r].tuple]
  BY DEF Inv, Typed
<1> QED
  BY <1>1, <1>2, Holders

LEMMA Empty ==
  /\ NoTd \in FlagsOver(Variables) /\ NoTd.at = Nowhere
  /\ NoRec = [td |-> NoTd, tuple |-> NoDesc] /\ NoRec.td = NoTd
BY DEF NoTd, NoRec, FlagsOver

LEMMA NewTds ==
  ASSUME Inv, NEW v \in Descriptors,
         \/ OfType(v)
         \/ \E s \in Shapes : Create(v, s) \/ OfResults(v, s)
         \/ \E w \in Descriptors : CopyTd(w, v)
  PROVE  Inv'
<1>1. Grown /\ registry' = registry
  BY SameGrown DEF OfType, Create, OfResults, CopyTd
<1>2. registry[1] \in Shapes /\ 1 \in 0..Len(registry) /\ 0 \in 0..Len(registry)
  BY DEF Inv, Typed
<1>3. ASSUME OfType(v) PROVE Inv'
  <2> DEFINE d == [shape |-> registry[1], number |-> 1]
  <2>1. d \in DescsOver(registry') /\ d.number = 1 /\ d.shape = registry[1]
    BY <1>1, <1>2 DEF DescsOver
  <2>2. SetTd(v, Wrapped(New, With(d)), With(d))
    BY <1>3 DEF OfType
  <2> HIDE DEF d
  <2>3. /\ Wrapped(New, With(d)) \in FlagsOver(Variables \cup {New})
        /\ Wrapped(New, With(d)).at = New /\ Wrapped(New, With(d)).blessed
    BY DEF Wrapped, FlagsOver
  <2>4. Good(Wrapped(New, With(d)), d, registry')
    BY <1>1, <1>2, <2>1, <2>3 DEF Good
  <2> QED
    BY <1>1, <2>1, <2>2, <2>3, <2>4, NewTdKeeps
<1>4. ASSUME NEW s \in Shapes, Create(v, s) PROVE Inv'
  <2> DEFINE d == [shape |-> s, number |-> 0]
             t == [at |-> New, blessed |-> FALSE, hearsay |-> FALSE]
  <2>1. /\ d \in DescsOver(registry') /\ d.number = 0 /\ d.shape = s
        /\ t \in FlagsOver(Variables \cup {New}) /\ t.at = New /\ ~t.blessed
    BY <1>1, <1>2 DEF DescsOver, FlagsOver
  <2>2. SetTd(v, t, With(d))
    BY <1>4 DEF Create
  <2> HIDE DEF d, t
  <2>3. Good(t, d, registry')
    BY <2>1 DEF Good
  <2> QED
    BY <1>1, <2>1, <2>2, <2>3, NewTdKeeps
<1>5. ASSUME NEW s \in Shapes, OfResults(v, s) PROVE Inv'
  <2> DEFINE d == [shape |-> s, number |-> 0]
  <2>1. d \in DescsOver(registry') /\ d.number = 0 /\ d.shape = s
    BY <1>1, <1>2 DEF DescsOver
  <2>2. SetTd(v, Wrapped(New, With(d)), With(d))
    BY <1>5 DEF OfResults
  <2> HIDE DEF d
  <2>3. Wrapped(New, With(d)) = [at |-> New, blessed |-> TRUE, hearsay |-> TRUE]
    BY <1>1, <2>1, NewDesc DEF Wrapped
  <2>4. /\ Wrapped(New, With(d)) \in FlagsOver(Variables \cup {New})
        /\ Wrapped(New, With(d)).at = New /\ Good(Wrapped(New, With(d)), d, registry')
    BY <2>1, <2>3 DEF FlagsOver, Good
  <2> QED
    BY <1>1, <2>1, <2>2, <2>4, NewTdKeeps
<1>6. ASSUME NEW w \in Descriptors, CopyTd(w, v) PROVE Inv'
  <2>1. Exists(w) /\ SetTd(v, Copied(td[w]), With(desc[td[w].at]))
    BY <1>6 DEF CopyTd
  <2>2. /\ desc[td[w].at] \in DescsOver(registry')
        /\ Copied(td[w]) \in FlagsOver(Variables \cup {New}) /\ Copied(td[w]).at = New
        /\ Good(Copied(td[w]), desc[td[w].at], registry')
    BY <1>1, <2>1, TdHolder, Copies
  <2> QED
    BY <1>1, <2>1, <2>2, NewTdKeeps
<1> QED
  BY <1>3, <1>4, <1>5, <1>6

LEMMA SharedTds ==
  ASSUME Inv, NEW v \in Descriptors,
         \/ \E w \in Descriptors : ConstCopyTd(w, v)
         \/ \E r \in Records : GetTd(r, v)
         \/ DestroyTd(v)
  PROVE  Inv'
<1>1. Grown /\ registry' = registry
  BY SameGrown DEF ConstCopyTd, GetTd, DestroyTd
<1>2. ASSUME NEW w \in Descriptors, ConstCopyTd(w, v) PROVE Inv'
  <2>1. Exists(w) /\ SetTd(v, ConstCopied(td[w]), desc)
    BY <1>2 DEF ConstCopyTd
  <2> QED
    BY <1>1, <2>1, TdHolder, Copies, SharedTdKeeps
<1>3. ASSUME NEW r \in Records, GetTd(r, v) PROVE Inv'
  <2>1. rec[r] # NoRec /\ SetTd(v, ConstCopied(rec[r].td), desc)
    BY <1>3 DEF GetTd
  <2> QED
    BY <1>1, <2>1, RecHolder, Copies, SharedTdKeeps
<1>4. ASSUME DestroyTd(v) PROVE Inv'
  <2>1. desc \in [Variables -> DescsOver(registry')] /\ Nowhere \notin Variables
    BY <1>1, GrownDescs, DistinctVariables DEF Inv, Typed
  <2>2. SetTd(v, NoTd, desc)
    BY <1>4 DEF DestroyTd
  <2> QED
    BY <1>1, <2>1, <2>2, Empty, SetTdKeeps
<1> QED
  BY <1>2, <1>3, <1>4

LEMMA Moving ==
  ASSUME Inv, NEW v \in Descriptors, NEW w \in Descriptors, MoveTd(v, w)
  PROVE  Inv'
<1> DEFINE tds == [td EXCEPT ![w] = td[v], ![v] = NoTd]
<1>1. v # w /\ Exists(v) /\ After(tds, rec, desc) /\ registry' = registry
  BY DEF MoveTd
<1>2. /\ tds \in [Descriptors -> FlagsOver(Variables)]
      /\ tds[v] = NoTd /\ tds[w] = td[v]
      /\ \A u \in Descriptors : u # v /\ u # w => tds[u] = td[u]
  BY <1>1, Empty DEF Inv, Typed
<1> HIDE DEF tds
<1>3. /\ v \in Variables /\ w \in Variables
      /\ Holder(tds, rec, v) = NoTd /\ Holder(tds, rec, w) = Holder(td, rec, v)
      /\ \A x \in Variables : x # v /\ x # w => Holder(tds, rec, x) = Holder(td, rec, x)
  BY <1>2 DEF Holder, Variables
<1>4. Typed(tds, rec, desc, registry', Variables)
  BY <1>1, <1>2 DEF Inv, Typed
<1>5. \A u \in Descriptors : tds[u].at = Nowhere => tds[u] = NoTd
  BY <1>2 DEF Inv, Held
<1>6. \A x \in Variables : Holder(tds, rec, x).at # Nowhere =>
        Good(Holder(tds, rec, x), desc[Holder(tds, rec, x).at], registry')
  BY <1>1, <1>3, Empty DEF Inv, Held
<1>7. Formed(rec, desc)
  BY DEF Inv, Held
<1>8. Apart(tds, rec)
  <2> SUFFICES ASSUME NEW x \in Variables, NEW y \in Variables, x # y,
                      Holder(tds, rec, x).at = Holder(tds, rec, y).at,
                      Holder(tds, rec, x).at # Nowhere, ~Holder(tds, rec, x).blessed
               PROVE  y \in Descriptors /\ Holder(tds, rec, y).blessed
    BY DEF Apart
  <2>1. x # v /\ y # v
    BY <1>3, Empty
  <2>2. CASE x = w
    BY <1>3, <2>1, <2>2 DEF Inv, Held, Apart
  <2>3. CASE y = w
    <3>1. Holder(td, rec, v).at = Holder(td, rec, x).at /\ ~Holder(td, rec, x).blessed
      BY <1>3, <2>1, <2>3
    <3>2. Holder(td, rec, v).blessed
      BY <1>3, <2>1, <3>1 DEF Inv, Held, Apart
    <3> QED
      BY <1>3, <2>3, <3>2
  <2>4. CASE x # w /\ y # w
    BY <1>3, <2>1, <2>4 DEF Inv, Held, Apart
  <2> QED
    BY <2>2, <2>3, <2>4
<1> QED
  BY <1>1, <1>4, <1>5, <1>6, <1>7, <1>8, Renamed, DistinctVariables DEF Held

LEMMA InPlace ==
  ASSUME Inv, NEW v \in Descriptors,
         ToTupleDesc(v) \/ \E s \in Shapes : SetShape(v, s)
  PROVE  Inv'
<1> DEFINE p == td[v].at
<1>1. /\ Exists(v) /\ td[v] \in FlagsOver(Variables) /\ p # Nowhere /\ p \in Variables
      /\ desc[p] \in DescsOver(registry) /\ Good(td[v], desc[p], registry)
  BY TdHolder DEF ToTupleDesc, SetShape
<1>2. ASSUME NEW s \in Shapes, SetShape(v, s) PROVE Inv'
  <2> DEFINE d == [desc[p] EXCEPT !.shape = s]
  <2>1. /\ ~td[v].blessed /\ registry' = registry /\ Grown
        /\ SetTd(v, td[v], [desc EXCEPT ![td[v].at] = d])
    BY <1>2, SameGrown DEF SetShape
  <2>2. d \in DescsOver(registry') /\ d.shape = s /\ d.number = desc[p].number
    BY <1>1, <2>1 DEF DescsOver
  <2> HIDE DEF d
  <2>3. Good(td[v], d, registry')
    BY <1>1, <2>1, <2>2 DEF Good
  <2> QED
    BY <1>1, <2>1, <2>2, <2>3, SetInPlace
<1>3. ASSUME ToTupleDesc(v) PROVE Inv'
  <2> DEFINE b == Blessed(td[v], desc[p])
  <2>1. SetTd(v, b.td, [desc EXCEPT ![td[v].at] = b.desc]) /\ registry' = b.registry
    BY <1>3 DEF ToTupleDesc
  <2>2. /\ Grown /\ b.td \in FlagsOver(Variables) /\ b.td.at = p /\ b.td.blessed
        /\ b.desc \in DescsOver(registry') /\ Good(b.td, b.desc, registry')
    BY <1>1, <2>1, Blessing
  <2>3. CASE ~td[v].blessed
    BY <1>1, <2>1, <2>2, <2>3, SetInPlace
  <2>4. CASE td[v].blessed
    <3>1. b.td = td[v] /\ b.desc = desc[p]
      BY <2>4 DEF Blessed
    <3>2. [desc EXCEPT ![td[v].at] = b.desc] = desc
      BY <3>1 DEF Inv, Typed
    <3> QED
      BY <1>1, <2>1, <2>2, <3>1, <3>2, SharedTdKeeps
  <2> QED
    BY <2>3, <2>4
<1> QED
  BY <1>2, <1>3

LEMMA NewRecs ==
  ASSUME Inv, NEW r \in Records,
         \/ \E v \in Descriptors : Form(v, r)
         \/ \E i \in 1..Len(registry) : OfDatum(r, i)
         \/ \E q \in Records : AssignRecord(q, r)
  PROVE  Inv'
<1>1. ASSUME NEW v \in Descriptors, Form(v, r) PROVE Inv'
  <2> DEFINE d == desc[td[v].at]
             b == Blessed(Copied(td[v]), d)
  <2>1. /\ Exists(v) /\ registry' = b.registry
        /\ SetRec(r, [td |-> b.td, tuple |-> b.desc], With(b.desc))
    BY <1>1 DEF Form
  <2>2. /\ Copied(td[v]) \in FlagsOver(Variables \cup {New}) /\ Copied(td[v]).at = New
        /\ d \in DescsOver(registry) /\ Good(Copied(td[v]), d, registry)
    BY <2>1, TdHolder, Copies
  <2>3. /\ Grown /\ b.td \in FlagsOver(Variables \cup {New}) /\ b.td.at = New /\ b.td.blessed
        /\ b.desc \in DescsOver(registry') /\ Good(b.td, b.desc, registry')
    BY <2>1, <2>2, Blessing
  <2> HIDE DEF b
  <2> QED
    BY <2>1, <2>3, NewRecKeeps
<1>2. ASSUME NEW i \in 1..Len(registry), OfDatum(r, i) PROVE Inv'
  <2> DEFINE d == [shape |-> registry[i], number |-> i]
             t == Wrapped(New, With(d))
  <2>1. Grown /\ registry' = registry
    BY <1>2, SameGrown DEF OfDatum
  <2>2. registry[i] \in Shapes /\ i \in 0..Len(registry) /\ i # 0
    BY DEF Inv, Typed
  <2>3. d \in DescsOver(registry') /\ d.shape = registry[i] /\ d.number = i
    BY <2>1, <2>2 DEF DescsOver
  <2>4. SetRec(r, [td |-> t, tuple |-> With(d)[New]], With(d))
    BY <1>2 DEF OfDatum
  <2> HIDE DEF d
  <2>5. With(d)[New] = d
    BY <2>1, <2>3, NewDesc
  <2>6. t = [at |-> New, blessed |-> TRUE, hearsay |-> FALSE]
    BY <2>2, <2>3, <2>5 DEF Wrapped
  <2>7. /\ t \in FlagsOver(Variables \cup {New}) /\ t.at = New /\ t.blessed
        /\ Good(t, d, registry')
    BY <2>1, <2>2, <2>3, <2>6 DEF FlagsOver, Good
  <2> HIDE DEF t
  <2> QED
    BY <2>1, <2>3, <2>4, <2>5, <2>7, NewRecKeeps
<1>3. ASSUME NEW q \in Records, AssignRecord(q, r) PROVE Inv'
  <2>1. /\ rec[q] # NoRec /\ Grown /\ registry' = registry
        /\ SetRec(r, [rec[q] EXCEPT !.td = Copied(@)], With(desc[rec[q].td.at]))
    BY <1>3, SameGrown DEF AssignRecord
  <2>2. /\ rec[q].td \in FlagsOver(Variables) /\ rec[q].td.at # Nowhere /\ rec[q].td.blessed
        /\ rec[q].tuple \in DescsOver(registry) /\ desc[rec[q].td.at] = rec[q].tuple
        /\ Good(rec[q].td, rec[q].tuple, registry)
        /\ rec[q] = [td |-> rec[q].td, tuple |-> rec[q].tuple]
    BY <2>1, RecHolder
  <2>3. [rec[q] EXCEPT !.td = Copied(@)] = [td |-> Copied(rec[q].td), tuple |-> rec[q].tuple]
    BY <2>2
  <2>4. /\ Copied(rec[q].td) \in FlagsOver(Variables \cup {New}) /\ Copied(rec[q].td).at = New
        /\ Copied(rec[q].td).blessed /\ Good(Copied(rec[q].td), rec[q].tuple, registry')
    BY <2>1, <2>2, Copies
  <2>5. SetRec(r, [td |-> Copied(rec[q].td), tuple |-> rec[q].tuple], With(rec[q].tuple))
    BY <2>1, <2>2, <2>3
  <2> QED
    BY <2>1, <2>2, <2>4, <2>5, NewRecKeeps
<1> QED
  BY <1>1, <1>2, <1>3

LEMMA SharedRecs ==
  ASSUME Inv, NEW q \in Records,
         \/ \E r \in Records : CopyRecord(r, q) \/ MoveRecord(r, q)
         \/ DestroyRecord(q)
  PROVE  Inv'
<1>1. Grown /\ registry' = registry
  BY SameGrown DEF CopyRecord, MoveRecord, DestroyRecord
<1>2. desc \in [Variables -> DescsOver(registry')] /\ Nowhere \notin Variables
  BY <1>1, GrownDescs, DistinctVariables DEF Inv, Typed
<1>3. ASSUME NEW r \in Records, rec[r] # NoRec,
             NEW t \in FlagsOver(Variables), t.at = rec[r].td.at, t.blessed,
             Good(t, rec[r].tuple, registry),
             SetRec(q, [td |-> t, tuple |-> rec[r].tuple], desc)
      PROVE  Inv'
  <2> DEFINE x == [td |-> t, tuple |-> rec[r].tuple]
  <2>1. x.td = t /\ x.tuple = rec[r].tuple /\ SetRec(q, x, desc)
    BY <1>3
  <2>2. x \in [td : FlagsOver(Variables), tuple : DescsOver(registry')]
    BY <1>1, <1>3, RecHolder
  <2> HIDE DEF x
  <2>3. IF x.td.at = Nowhere THEN x = NoRec
        ELSE /\ Good(x.td, desc[x.td.at], registry') /\ x.td.blessed
             /\ desc[x.td.at] = x.tuple
             /\ x.td.at = New \/ \E z \in Records : rec[z].td.at = x.td.at
    BY <1>1, <1>3, <2>1, RecHolder
  <2> QED
    BY <1>1, <1>2, <2>1, <2>2, <2>3, SetRecKeeps
<1>4. ASSUME NEW r \in Records, CopyRecord(r, q) PROVE Inv'
  <2>1. rec[r] # NoRec /\ SetRec(q, [rec[r] EXCEPT !.td = ConstCopied(@)], desc)
    BY <1>4 DEF CopyRecord
  <2>2. [rec[r] EXCEPT !.td = ConstCopied(@)] =
          [td |-> ConstCopied(rec[r].td), tuple |-> rec[r].tuple]
    <3>1. rec[r] = [td |-> rec[r].td, tuple |-> rec[r].tuple]
      BY <2>1, RecHolder
    <3> QED
      BY <3>1
  <2>3. /\ ConstCopied(rec[r].td) \in FlagsOver(Variables)
        /\ ConstCopied(rec[r].td).at = rec[r].td.at /\ ConstCopied(rec[r].td).blessed
        /\ Good(ConstCopied(rec[r].td), rec[r].tuple, registry)
    BY <2>1, RecHolder, Copies
  <2>4. SetRec(q, [td |-> ConstCopied(rec[r].td), tuple |-> rec[r].tuple], desc)
    BY <2>1, <2>2
  <2> QED
    BY <1>3, <2>1, <2>3, <2>4
<1>5. ASSUME NEW r \in Records, MoveRecord(r, q) PROVE Inv'
  <2>1. rec[r] # NoRec /\ SetRec(q, rec[r], desc)
    BY <1>5 DEF MoveRecord
  <2>2. /\ rec[r].td \in FlagsOver(Variables) /\ rec[r].td.blessed
        /\ Good(rec[r].td, rec[r].tuple, registry)
        /\ rec[r] = [td |-> rec[r].td, tuple |-> rec[r].tuple]
    BY <2>1, RecHolder
  <2>3. SetRec(q, [td |-> rec[r].td, tuple |-> rec[r].tuple], desc)
    BY <2>1, <2>2
  <2> QED
    BY <1>3, <2>1, <2>2, <2>3
<1>6. ASSUME DestroyRecord(q) PROVE Inv'
  <2>1. SetRec(q, NoRec, desc)
    BY <1>6 DEF DestroyRecord
  <2>2. NoRec \in [td : FlagsOver(Variables), tuple : DescsOver(registry')]
    <3>1. NoDesc \in DescsOver(registry')
      BY <1>1, GrownDescs DEF NoDesc, DescsOver
    <3> QED
      BY <3>1, Empty
  <2> QED
    BY <1>1, <1>2, <2>1, <2>2, Empty, SetRecKeeps
<1> QED
  BY <1>4, <1>5, <1>6

LEMMA InvInit == Init => Inv
<1> SUFFICES ASSUME Init PROVE Inv
  OBVIOUS
<1>1. PICK s \in Shapes : registry = <<s>>
  BY DEF Init
<1>2. registry \in Seq(Shapes) /\ registry # <<>> /\ Len(registry) = 1
  BY <1>1
<1>3. NoDesc \in DescsOver(registry)
  BY <1>2 DEF NoDesc, DescsOver
<1>4. \A x \in Variables : Holder(td, rec, x) = NoTd
  BY Empty DEF Init, Holder, Variables
<1>5. Typed(td, rec, desc, registry, Variables)
  BY <1>2, <1>3, Empty DEF Init, Typed
<1>6. Held(td, rec, desc, registry)
  BY <1>4, Empty DEF Init, Held, Formed, Apart
<1> QED
  BY <1>5, <1>6 DEF Inv

LEMMA InvNext == Inv /\ [Next]_vars => Inv'
<1> SUFFICES ASSUME Inv, [Next]_vars PROVE Inv'
  OBVIOUS
<1>1. CASE UNCHANGED vars
  BY <1>1 DEF vars, Inv, Typed, Held, Formed, Apart, Holder, Good, DescsOver
<1>2. CASE \E v \in Descriptors :
             \/ OfType(v)
             \/ \E s \in Shapes : Create(v, s) \/ OfResults(v, s)
             \/ \E w \in Descriptors : CopyTd(w, v)
  BY <1>2, NewTds
<1>3. CASE \E v \in Descriptors :
             \/ \E w \in Descriptors : ConstCopyTd(w, v)
             \/ \E r \in Records : GetTd(r, v)
             \/ DestroyTd(v)
  BY <1>3, SharedTds
<1>4. CASE \E v, w \in Descriptors : MoveTd(v, w)
  BY <1>4, Moving
<1>5. CASE \E v \in Descriptors : ToTupleDesc(v) \/ \E s \in Shapes : SetShape(v, s)
  BY <1>5, InPlace
<1>6. CASE \E r \in Records :
             \/ \E v \in Descriptors : Form(v, r)
             \/ \E i \in 1..Len(registry) : OfDatum(r, i)
             \/ \E q \in Records : AssignRecord(q, r)
  BY <1>6, NewRecs
<1>7. CASE \E q \in Records :
             \/ \E r \in Records : CopyRecord(r, q) \/ MoveRecord(r, q)
             \/ DestroyRecord(q)
  BY <1>7, SharedRecs
<1> QED
  BY <1>1, <1>2, <1>3, <1>4, <1>5, <1>6, <1>7 DEF Next
------------------------------------------------------------------------------
LEMMA Invariance == Spec => []Inv
BY InvInit, InvNext, PTL DEF Spec

\* No number that Postgres has not given out is ever in a TupleDesc or a tuple.
THEOREM RecordTypes == Spec => []TypeOK
<1>1. Inv => TypeOK
  BY DEF Inv, Typed, TypeOK, DescsOver, FlagsOver, TupleDescs, Numbers, Flags
<1> QED
  BY <1>1, Invariance, PTL

\* However descriptors and records are shared, copied, moved and assigned, a record
\* reads its tuple by the descriptor the tuple was formed with (record.hpp:136, 291).
THEOREM ReadsAsFormed == Spec => []ReadAsFormed
<1>1. Inv => ReadAsFormed
  BY Existing DEF ReadAsFormed
<1> QED
  BY <1>1, Invariance, PTL

\* The row type a tuple names is the one it was formed with; a tuple names none only
\* where a descriptor was called blessed by hearsay (record.hpp:117, 161).
THEOREM RowTypesAreRegistered == Spec => []RowTypesRegistered
<1>1. Inv => RowTypesRegistered
  <2> SUFFICES ASSUME Inv, NEW r \in Records, rec[r] # NoRec
               PROVE  IF rec[r].tuple.number = 0 THEN rec[r].td.hearsay
                      ELSE registry[rec[r].tuple.number] = rec[r].tuple.shape
    BY DEF RowTypesRegistered
  <2> QED
    BY RecHolder DEF Good
<1> QED
  BY <1>1, Invariance, PTL
=================================================================================
