---------------------------- MODULE AggregateProofs ----------------------------
(****************************************************************************)
(* Theorems about Aggregate, for any number of processes and rows.            *)
(****************************************************************************)
EXTENDS Aggregate, SequenceTheorems, TLAPS

\* What the transition state of process p has seen.
Contents(p) ==
  IF kind = "object" /\ state[p].at # 0 THEN made[p][state[p].at].contents ELSE state[p].is

\* Where a row of the query may be: still to be scanned, in a transition state, or in
\* a message.
Places == {"todo", "state", "sent"} \X Processes
Holds(k, r) ==
  \/ k[1] = "todo" /\ r \in todo[k[2]]
  \/ k[1] = "state" /\ Contents(k[2])[r] = 1
  \/ k[1] = "sent" /\ k[2] \in Workers /\ sent[k[2]].state.is[r] = 1

\* While the query runs, every row it aggregates is in one place, and no other is in any.
OnePlace ==
  /\ \A r \in asked : \E k \in Places : Holds(k, r)
  /\ \A r \in Rows, k, l \in Places : Holds(k, r) /\ Holds(l, r) => k = l
  /\ \A r \in Rows, k \in Places : Holds(k, r) => r \in asked

\* A row with a null argument is never in a state.
NullsStay == \A r \in nulls, k \in Places : Holds(k, r) => k[1] = "todo"

\* States and messages: a pointer is to a live object and carries no contents of its
\* own, null has none; a process that has sent its state is through with its rows.
Shape ==
  /\ \A p \in Processes :
       /\ kind = "object" => state[p].is = Empty
       /\ kind = "object" /\ state[p].at # 0 =>
            state[p].at \in 1..Len(made[p]) /\ made[p][state[p].at].live
       /\ state[p].at = 0 => state[p].is = Empty
  /\ \A w \in Workers :
       /\ sent[w].is # "sent" => sent[w].state = Null
       /\ sent[w].state.at = 0 => sent[w].state.is = Empty
       /\ sent[w].is # "not sent" => todo[w] = {} /\ state[w] = Null

Inv ==
  /\ TypeOK /\ Shape /\ QueryOutcome
  /\ Running => OnePlace /\ NullsStay
------------------------------------------------------------------------------
Object == [contents : Seen, live : BOOLEAN]

LEMMA Bags ==
  /\ Empty \in Seen /\ \A r \in Rows : Empty[r] = 0
  /\ \A r \in Rows : One(r) \in Seen /\ \A x \in Rows : One(r)[x] = 1 <=> x = r
BY DEF Empty, One, Seen

\* The sum of two bags without a common row holds the rows of both.
LEMMA Disjoint ==
  ASSUME NEW a \in Seen, NEW b \in Seen, \A r \in Rows : ~(a[r] = 1 /\ b[r] = 1)
  PROVE  /\ Sum2(a, b) \in Seen
         /\ \A r \in Rows : Sum2(a, b)[r] = 1 <=> a[r] = 1 \/ b[r] = 1
<1>1. \A r \in Rows : a[r] \in {0, 1} /\ b[r] \in {0, 1}
  BY DEF Seen
<1>2. \A r \in Rows : a[r] + b[r] \in {0, 1} /\ (a[r] + b[r] = 1 <=> a[r] = 1 \/ b[r] = 1)
  BY <1>1
<1> QED
  BY <1>2 DEF Sum2, Seen

LEMMA Parts ==
  /\ Null \in States /\ Null.at = 0 /\ Null.is = Empty
  /\ \A i \in Nat : Pointer(i) \in States /\ Pointer(i).at = i /\ Pointer(i).is = Empty
  /\ \A c \in Seen : Datum(c) \in States /\ Datum(c).at = 1 /\ Datum(c).is = c
  /\ "final" \in Processes /\ \A w \in Workers : w \in Processes /\ w # "final"
BY Bags, FinalAssumption DEF Null, Pointer, Datum, States, Processes

LEMMA Pushed ==
  ASSUME NEW S, NEW s \in Seq(S), NEW e \in S
  PROVE  /\ Append(s, e) \in Seq(S) /\ Len(Append(s, e)) = Len(s) + 1
         /\ Len(s) \in Nat
         /\ Append(s, e)[Len(s) + 1] = e
         /\ \A i \in 1..Len(s) : Append(s, e)[i] = s[i]
OBVIOUS

LEMMA ContentsSeen ==
  ASSUME Inv, NEW p \in Processes
  PROVE  Contents(p) \in Seen /\ \A r \in Rows : Contents(p)[r] \in {0, 1}
<1>1. made[p] \in Seq([contents : Seen, live : BOOLEAN]) /\ state[p] \in States
  BY DEF Inv, TypeOK
<1>2. CASE kind = "object" /\ state[p].at # 0
  <2>1. state[p].at \in 1..Len(made[p])
    BY <1>2 DEF Inv, Shape
  <2>2. made[p][state[p].at] \in [contents : Seen, live : BOOLEAN]
    BY <1>1, <2>1, ElementOfSeq
  <2> QED
    BY <1>2, <2>2 DEF Contents, Seen
<1>3. CASE ~(kind = "object" /\ state[p].at # 0)
  BY <1>1, <1>3 DEF Contents, States, Seen
<1> QED
  BY <1>2, <1>3

\* The state of process p is in the places of the rows.
LEMMA PlacesAre ==
  /\ \A k \in Places : k[1] \in {"todo", "state", "sent"} /\ k[2] \in Processes
                       /\ k = <<k[1], k[2]>>
  /\ \A c \in {"todo", "state", "sent"}, p \in Processes :
       <<c, p>> \in Places /\ <<c, p>>[1] = c /\ <<c, p>>[2] = p
BY DEF Places

\* The rows R go from place a to place b, and no other row moves.
Moves(R, a, b) ==
  /\ \A r \in R : Holds(a, r) /\ r \in Rows \ nulls
  /\ \A r \in Rows, p \in Processes :
       /\ r \in todo'[p] <=> IF r \in R THEN b = <<"todo", p>> ELSE r \in todo[p]
       /\ Contents(p)'[r] = 1 <=> IF r \in R THEN b = <<"state", p>> ELSE Contents(p)[r] = 1
  /\ \A r \in Rows, w \in Workers :
       sent'[w].state.is[r] = 1 <=>
         IF r \in R THEN b = <<"sent", w>> ELSE sent[w].state.is[r] = 1

LEMMA Moved ==
  ASSUME Inv, Running, UNCHANGED <<asked, nulls>>, NEW R, NEW a \in Places, NEW b \in Places,
         b[1] = "sent" => b[2] \in Workers, Moves(R, a, b)
  PROVE  OnePlace' /\ NullsStay'
<1>1. ASSUME NEW r \in Rows, NEW k \in Places
      PROVE  Holds(k, r)' <=> IF r \in R THEN k = b ELSE Holds(k, r)
  <2>1. CASE k[1] = "todo"
    <3>1. k = <<"todo", k[2]>> /\ k[2] \in Processes
      BY <2>1, PlacesAre
    <3>2. Holds(k, r)' <=> r \in todo'[k[2]]
      BY <2>1 DEF Holds
    <3>3. Holds(k, r) <=> r \in todo[k[2]]
      BY <2>1 DEF Holds
    <3> QED
      BY <3>1, <3>2, <3>3 DEF Moves
  <2>2. CASE k[1] = "state"
    <3>1. k = <<"state", k[2]>> /\ k[2] \in Processes
      BY <2>2, PlacesAre
    <3>2. Holds(k, r)' <=> Contents(k[2])'[r] = 1
      BY <2>2 DEF Holds
    <3>3. Holds(k, r) <=> Contents(k[2])[r] = 1
      BY <2>2 DEF Holds
    <3> QED
      BY <3>1, <3>2, <3>3 DEF Moves
  <2>3. CASE k[1] = "sent"
    <3>1. k = <<"sent", k[2]>> /\ k[2] \in Processes
      BY <2>3, PlacesAre
    <3>2. Holds(k, r)' <=> k[2] \in Workers /\ sent'[k[2]].state.is[r] = 1
      BY <2>3 DEF Holds
    <3>3. Holds(k, r) <=> k[2] \in Workers /\ sent[k[2]].state.is[r] = 1
      BY <2>3 DEF Holds
    <3> QED
      BY <2>3, <3>1, <3>2, <3>3 DEF Moves
  <2> QED
    BY <2>1, <2>2, <2>3, PlacesAre
<1>2. asked \subseteq Rows /\ nulls \subseteq Rows
  BY DEF Inv, TypeOK
<1>3. OnePlace /\ NullsStay /\ \A r \in R : r \in Rows /\ Holds(a, r) /\ r \notin nulls
  BY DEF Inv, Moves
<1>4. \A r \in R : r \in asked
  BY <1>3 DEF OnePlace
<1>5. ASSUME NEW r \in asked PROVE \E k \in Places : Holds(k, r)'
  BY <1>1, <1>2, <1>3 DEF OnePlace
<1>6. ASSUME NEW r \in Rows, NEW k \in Places, NEW l \in Places, Holds(k, r)', Holds(l, r)'
      PROVE  k = l
  BY <1>1, <1>3, <1>6 DEF OnePlace
<1>7. ASSUME NEW r \in Rows, NEW k \in Places, Holds(k, r)' PROVE r \in asked
  BY <1>1, <1>3, <1>4, <1>7 DEF OnePlace
<1>8. ASSUME NEW r \in nulls, NEW k \in Places, Holds(k, r)' PROVE k[1] = "todo"
  BY <1>1, <1>2, <1>3, <1>8 DEF NullsStay
<1> QED
  BY <1>5, <1>6, <1>7, <1>8 DEF OnePlace, NullsStay

\* The query ends: nothing is left in any process.
LEMMA Ended ==
  ASSUME Inv, NEW k \in {"value", "null", "null error", "cancelled"}, NEW c \in Seen,
         EndsWith(k, c), UNCHANGED <<query, todo, sent>>, QueryOutcome'
  PROVE  Inv'
<1>1. /\ result' = [is |-> k, of |-> c] /\ made' = [p \in Processes |-> <<>>]
      /\ state' = [p \in Processes |-> Null]
  BY DEF EndsWith
<1>2. TypeOK'
  <2>1. made' \in [Processes -> Seq([contents : Seen, live : BOOLEAN])]
    <3>1. <<>> \in Seq(Object)
      BY EmptySeq
    <3> QED
      BY <1>1, <3>1 DEF Object
  <2>2. state' \in [Processes -> States]
    BY <1>1, Parts
  <2>3. result' \in [is : {"none", "value", "null", "null error", "cancelled"}, of : Seen]
    BY <1>1
  <2> QED
    BY <2>1, <2>2, <2>3 DEF Inv, TypeOK, query
<1>3. Shape'
  BY <1>1, Parts DEF Inv, Shape, query
<1>4. ~Running'
  BY <1>1 DEF Running
<1> QED
  BY <1>2, <1>3, <1>4 DEF Inv

\* The object of a state: the one it points to, or a new one.
LEMMA TheObject ==
  ASSUME Inv, kind = "object", NEW p \in Processes, NEW ms \in Seq(Object),
         Len(made[p]) <= Len(ms), \A i \in 1..Len(made[p]) : ms[i] = made[p][i]
  PROVE  LET o == ObjectOf(ms, state[p])
         IN  /\ o.objects \in Seq(Object) /\ Len(ms) <= Len(o.objects)
             /\ o.at \in 1..Len(o.objects) /\ o.objects[o.at].contents = Contents(p)
             /\ o.objects[o.at].live
             /\ \A i \in 1..Len(ms) : o.objects[i] = ms[i] 
             /\ \A i \in 1..Len(o.objects) : o.objects[i] \in Object
<1> DEFINE o == ObjectOf(ms, state[p])
<1>1. state[p] \in States /\ state[p].is = Empty /\ made[p] \in Seq(Object) /\ Len(ms) \in Nat
  <2>1. made[p] \in Seq(Object) /\ state[p] \in States
    BY DEF Inv, TypeOK, Object
  <2>2. state[p].is = Empty
    BY DEF Inv, Shape
  <2> QED
    BY <2>1, <2>2
<1>2. CASE state[p].at = 0
  <2> DEFINE e == [contents |-> Empty, live |-> TRUE]
  <2>1. o = [at |-> Len(ms) + 1, objects |-> Append(ms, e)]
    BY <1>2 DEF ObjectOf, Constructed
  <2>2. e \in Object /\ e.contents = Empty /\ e.live
    BY Bags DEF Object
  <2>3. Contents(p) = Empty
    BY <1>1, <1>2 DEF Contents
  <2> HIDE DEF e
  <2>4. /\ Append(ms, e) \in Seq(Object) /\ Len(Append(ms, e)) = Len(ms) + 1
        /\ Append(ms, e)[Len(ms) + 1] = e
        /\ \A i \in 1..Len(ms) : Append(ms, e)[i] = ms[i]
    BY <2>2
  <2> QED
    BY <1>1, <2>1, <2>2, <2>3, <2>4
<1>3. CASE state[p].at # 0
  <2>1. o = [at |-> state[p].at, objects |-> ms]
    BY <1>3 DEF ObjectOf
  <2>2. /\ state[p].at \in 1..Len(made[p]) /\ made[p][state[p].at].live
        /\ Contents(p) = made[p][state[p].at].contents
    BY <1>3 DEF Inv, Shape, Contents
  <2>3. state[p].at \in 1..Len(ms) /\ ms[state[p].at] = made[p][state[p].at]
    BY <1>1, <2>2
  <2> QED
    BY <1>1, <2>1, <2>2, <2>3
<1> QED
  BY <1>2, <1>3

\* One process works on its rows; what it knows of others and of messages stays.
LEMMA Contained ==
  ASSUME Inv, NEW p \in Processes, NEW q \in Processes, q # p, UNCHANGED kind,
         made'[q] = made[q], state'[q] = state[q]
  PROVE  Contents(q)' = Contents(q)
BY DEF Contents

LEMMA RowHeld ==
  ASSUME Inv, Running, NEW p \in Processes, NEW r \in todo[p]
  PROVE  /\ r \in Rows /\ r \in asked
         /\ \A q \in Processes : Contents(q)[r] # 1 /\ (q # p => r \notin todo[q])
         /\ \A w \in Workers : sent[w].state.is[r] # 1
<1>1. r \in Rows
  BY DEF Inv, TypeOK
<1>2. Holds(<<"todo", p>>, r)
  BY PlacesAre DEF Holds
<1>3. \A k \in Places : Holds(k, r) => k = <<"todo", p>>
  BY <1>1, <1>2, PlacesAre DEF Inv, OnePlace
<1>4. r \in asked
  BY <1>1, <1>2, PlacesAre DEF Inv, OnePlace
<1>5. ASSUME NEW q \in Processes, Contents(q)[r] = 1 PROVE FALSE
  <2>1. Holds(<<"state", q>>, r)
    BY <1>5, PlacesAre DEF Holds
  <2> QED
    BY <1>3, <2>1, PlacesAre
<1>6. ASSUME NEW q \in Processes, r \in todo[q] PROVE q = p
  <2>1. Holds(<<"todo", q>>, r)
    BY <1>6, PlacesAre DEF Holds
  <2> QED
    BY <1>3, <2>1, PlacesAre
<1>7. ASSUME NEW w \in Workers, sent[w].state.is[r] = 1 PROVE FALSE
  <2>1. Holds(<<"sent", w>>, r)
    BY <1>7, PlacesAre, Parts DEF Holds
  <2> QED
    BY <1>3, <2>1, PlacesAre, Parts
<1> QED
  BY <1>1, <1>4, <1>5, <1>6, <1>7

\* Row r goes from the rows to scan into the state of p.
LEMMA Scanned ==
  ASSUME Inv, Running, NEW p \in Processes, NEW r \in todo[p] \ nulls,
         UNCHANGED <<query, sent, result>>,
         todo' = [todo EXCEPT ![p] = @ \ {r}],
         \A q \in Processes : q # p => made'[q] = made[q] /\ state'[q] = state[q],
         \A x \in Rows : Contents(p)'[x] = 1 <=> x = r \/ Contents(p)[x] = 1
  PROVE  OnePlace' /\ NullsStay'
<1> DEFINE a == <<"todo", p>>
           b == <<"state", p>>
<1>1. r \in todo[p] /\ r \notin nulls /\ r \in Rows
  BY RowHeld
<1>2. /\ UNCHANGED <<kind, asked, nulls, sent>>
      /\ \A q \in Processes : todo'[q] = IF q = p THEN todo[p] \ {r} ELSE todo[q]
      /\ \A q \in Processes : q # p => Contents(q)' = Contents(q)
  BY Contained DEF query, Inv, TypeOK
<1>3. Moves({r}, a, b)
  <2>1. Holds(a, r)
    BY <1>1, PlacesAre DEF Holds
  <2>2. ASSUME NEW x \in Rows, NEW q \in Processes
        PROVE  /\ x \in todo'[q] <=> IF x \in {r} THEN b = <<"todo", q>> ELSE x \in todo[q]
               /\ Contents(q)'[x] = 1 <=>
                    IF x \in {r} THEN b = <<"state", q>> ELSE Contents(q)[x] = 1
    <3>1. b # <<"todo", q>> /\ (b = <<"state", q>> <=> q = p)
      OBVIOUS
    <3>2. CASE q = p
      BY <1>2, <3>1, <3>2
    <3>3. CASE q # p
      BY <1>1, <1>2, <3>1, <3>3, RowHeld
    <3> QED
      BY <3>2, <3>3
  <2>3. ASSUME NEW x \in Rows, NEW w \in Workers
        PROVE  sent'[w].state.is[x] = 1 <=>
                 IF x \in {r} THEN b = <<"sent", w>> ELSE sent[w].state.is[x] = 1
    <3>1. b # <<"sent", w>>
      OBVIOUS
    <3> QED
      BY <1>1, <1>2, <3>1, RowHeld
  <2> QED
    BY <1>1, <2>1, <2>2, <2>3 DEF Moves
<1>4. a \in Places /\ b \in Places /\ b[1] # "sent"
  BY PlacesAre
<1> HIDE DEF a, b
<1> QED
  BY <1>2, <1>3, <1>4, Moved

LEMMA SfuncObjectKeeps ==
  ASSUME Inv, NEW p \in Processes, NEW r \in Rows, SfuncObject(p, r)
  PROVE  Inv'
<1> DEFINE o == ObjectOf(made[p], state[p])
           e == [o.objects[o.at] EXCEPT !.contents = Sum2(o.objects[o.at].contents, One(r))]
           ms == [o.objects EXCEPT ![o.at] = e]
<1>1. /\ Running /\ kind = "object" /\ r \in todo[p] \ nulls
      /\ made' = [made EXCEPT ![p] = ms]
      /\ state' = [state EXCEPT ![p] = Pointer(o.at)]
      /\ todo' = [todo EXCEPT ![p] = @ \ {r}]
      /\ UNCHANGED <<query, sent, result>>
  BY DEF SfuncObject
<1>2. /\ made[p] \in Seq(Object) /\ made \in [Processes -> Seq(Object)]
      /\ state \in [Processes -> States]
  BY DEF Inv, TypeOK, Object
<1>3. /\ o.objects \in Seq(Object) /\ o.at \in 1..Len(o.objects)
      /\ o.objects[o.at].contents = Contents(p) /\ o.objects[o.at].live
      /\ o.objects[o.at] \in Object
  <2>1. Len(made[p]) <= Len(made[p])
    BY <1>2
  <2> QED
    BY <1>1, <1>2, <2>1, TheObject
<1> HIDE DEF o
<1>4. /\ Sum2(Contents(p), One(r)) \in Seen
      /\ \A x \in Rows : Sum2(Contents(p), One(r))[x] = 1 <=> x = r \/ Contents(p)[x] = 1
  <2>1. \A x \in Rows : ~(Contents(p)[x] = 1 /\ One(r)[x] = 1)
    BY <1>1, Bags, RowHeld
  <2>2. Contents(p) \in Seen /\ One(r) \in Seen
    BY Bags, ContentsSeen
  <2> QED
    BY <2>1, <2>2, Bags, Disjoint
<1>5. e \in Object /\ e.contents = Sum2(Contents(p), One(r)) /\ e.live
  BY <1>3, <1>4 DEF Object
<1> HIDE DEF e
<1>6. ms \in Seq(Object) /\ Len(ms) = Len(o.objects) /\ ms[o.at] = e
  BY <1>3, <1>5, ExceptSeq
<1>7. o.at \in Nat /\ o.at # 0 /\ o.at \in 1..Len(ms)
  BY <1>3, <1>6
<1> HIDE DEF ms
<1>8. /\ \A q \in Processes : made'[q] = IF q = p THEN ms ELSE made[q]
      /\ \A q \in Processes : state'[q] = IF q = p THEN Pointer(o.at) ELSE state[q]
      /\ \A q \in Processes : todo'[q] = IF q = p THEN todo[p] \ {r} ELSE todo[q]
      /\ kind' = kind
  BY <1>1, <1>2 DEF query, Inv, TypeOK
<1>9. Contents(p)' = Sum2(Contents(p), One(r))
  BY <1>1, <1>5, <1>6, <1>7, <1>8, Parts DEF Contents
<1>10. OnePlace' /\ NullsStay'
  <2>1. \A q \in Processes : q # p => made'[q] = made[q] /\ state'[q] = state[q]
    BY <1>8
  <2>2. \A x \in Rows : Contents(p)'[x] = 1 <=> x = r \/ Contents(p)[x] = 1
    BY <1>4, <1>9
  <2> QED
    BY <1>1, <2>1, <2>2, Scanned
<1>11. TypeOK'
  <2>1. made' \in [Processes -> Seq(Object)]
    BY <1>1, <1>2, <1>6
  <2>2. state' \in [Processes -> States]
    BY <1>1, <1>2, <1>7, Parts
  <2>3. todo' \in [Processes -> SUBSET Rows]
    BY <1>1 DEF Inv, TypeOK
  <2> QED
    BY <1>1, <2>1, <2>2, <2>3 DEF Inv, TypeOK, query, Object
<1>12. Shape'
  <2>1. ASSUME NEW q \in Processes
        PROVE  /\ kind' = "object" => state'[q].is = Empty
               /\ kind' = "object" /\ state'[q].at # 0 =>
                    state'[q].at \in 1..Len(made'[q]) /\ made'[q][state'[q].at].live
               /\ state'[q].at = 0 => state'[q].is = Empty
    <3>1. CASE q = p
      BY <1>5, <1>6, <1>7, <1>8, <3>1, Parts
    <3>2. CASE q # p
      BY <1>8, <3>2 DEF Inv, Shape
    <3> QED
      BY <3>1, <3>2
  <2>2. ASSUME NEW w \in Workers
        PROVE  /\ sent'[w].is # "sent" => sent'[w].state = Null
               /\ sent'[w].state.at = 0 => sent'[w].state.is = Empty
               /\ sent'[w].is # "not sent" => todo'[w] = {} /\ state'[w] = Null
    <3>1. sent'[w] = sent[w] /\ w \in Processes
      BY <1>1, Parts
    <3>2. sent[w].is # "not sent" => todo[w] = {} /\ state[w] = Null
      BY DEF Inv, Shape
    <3>3. sent[w].is # "not sent" => w # p
      BY <1>1, <3>2
    <3> QED
      BY <1>8, <3>1, <3>2, <3>3 DEF Inv, Shape
  <2> QED
    BY <2>1, <2>2 DEF Shape
<1>13. QueryOutcome'
  BY <1>1 DEF Inv, QueryOutcome, query
<1> QED
  BY <1>10, <1>11, <1>12, <1>13 DEF Inv

LEMMA SfuncDatumKeeps ==
  ASSUME Inv, NEW p \in Processes, NEW r \in Rows, SfuncDatum(p, r)
  PROVE  Inv'
<1> DEFINE c == Sum2(state[p].is, One(r))
<1>1. /\ Running /\ kind = "datum" /\ r \in todo[p] \ nulls
      /\ state' = [state EXCEPT ![p] = Datum(c)]
      /\ todo' = [todo EXCEPT ![p] = @ \ {r}]
      /\ UNCHANGED <<query, made, sent, result>>
  BY DEF SfuncDatum, FromDatum
<1>2. Contents(p) = state[p].is
  BY <1>1 DEF Contents
<1>3. c \in Seen /\ \A x \in Rows : c[x] = 1 <=> x = r \/ Contents(p)[x] = 1
  <2>1. \A x \in Rows : ~(Contents(p)[x] = 1 /\ One(r)[x] = 1)
    BY <1>1, Bags, RowHeld
  <2>2. Contents(p) \in Seen /\ One(r) \in Seen
    BY Bags, ContentsSeen
  <2> QED
    BY <1>2, <2>1, <2>2, Bags, Disjoint
<1> HIDE DEF c
<1>4. /\ \A q \in Processes : state'[q] = IF q = p THEN Datum(c) ELSE state[q]
      /\ \A q \in Processes : todo'[q] = IF q = p THEN todo[p] \ {r} ELSE todo[q]
      /\ kind' = kind
  BY <1>1 DEF query, Inv, TypeOK
<1>5. Contents(p)' = c
  BY <1>1, <1>3, <1>4, Parts DEF Contents
<1>6. OnePlace' /\ NullsStay'
  <2>1. \A q \in Processes : q # p => made'[q] = made[q] /\ state'[q] = state[q]
    BY <1>1, <1>4
  <2>2. \A x \in Rows : Contents(p)'[x] = 1 <=> x = r \/ Contents(p)[x] = 1
    BY <1>3, <1>5
  <2> QED
    BY <1>1, <2>1, <2>2, Scanned
<1>7. TypeOK'
  <2>1. state' \in [Processes -> States]
    BY <1>1, <1>3, Parts DEF Inv, TypeOK
  <2>2. todo' \in [Processes -> SUBSET Rows]
    BY <1>1 DEF Inv, TypeOK
  <2> QED
    BY <1>1, <2>1, <2>2 DEF Inv, TypeOK, query
<1>8. Shape'
  <2>1. ASSUME NEW q \in Processes
        PROVE  state'[q].at = 0 => state'[q].is = Empty
    <3>1. CASE q = p
      BY <1>3, <1>4, <3>1, Parts
    <3>2. CASE q # p
      BY <1>4, <3>2 DEF Inv, Shape
    <3> QED
      BY <3>1, <3>2
  <2>2. ASSUME NEW w \in Workers
        PROVE  /\ sent'[w].is # "sent" => sent'[w].state = Null
               /\ sent'[w].state.at = 0 => sent'[w].state.is = Empty
               /\ sent'[w].is # "not sent" => todo'[w] = {} /\ state'[w] = Null
    <3>1. sent'[w] = sent[w] /\ w \in Processes
      BY <1>1, Parts
    <3>2. sent[w].is # "not sent" => todo[w] = {} /\ state[w] = Null
      BY DEF Inv, Shape
    <3>3. sent[w].is # "not sent" => w # p
      BY <1>1, <3>2
    <3> QED
      BY <1>4, <3>1, <3>2, <3>3 DEF Inv, Shape
  <2> QED
    BY <1>1, <1>4, <2>1, <2>2 DEF Shape
<1>9. QueryOutcome'
  BY <1>1 DEF Inv, QueryOutcome, query
<1> QED
  BY <1>6, <1>7, <1>8, <1>9 DEF Inv
------------------------------------------------------------------------------
\* A process sends what it has come to, and ends.

LEMMA SendKeeps ==
  ASSUME Inv, NEW w \in Workers, Send(w)
  PROVE  Inv'
<1> DEFINE m == IF kind = "object" /\ state[w] # Null
                THEN Datum(made[w][state[w].at].contents) ELSE state[w]
           x == [is |-> "sent", state |-> m]
           R == {r \in Rows : Contents(w)[r] = 1}
           a == <<"state", w>>
           b == <<"sent", w>>
<1>1. /\ Running /\ todo[w] = {} /\ sent[w].is = "not sent"
      /\ sent' = [sent EXCEPT ![w] = x]
      /\ made' = [made EXCEPT ![w] = <<>>]
      /\ state' = [state EXCEPT ![w] = Null]
      /\ UNCHANGED <<query, todo, result>>
  BY DEF Send, Through
<1>2. w \in Processes /\ state[w] \in States /\ sent[w].state = Null
  <2>1. w \in Processes
    BY Parts
  <2> QED
    BY <1>1, <2>1 DEF Inv, TypeOK, Shape
<1>3. m \in States /\ m.is = Contents(w) /\ (m.at = 0 => m.is = Empty)
  <2>1. CASE kind = "object" /\ state[w] # Null
    <3>1. state[w].at # 0
      <4>1. state[w].is = Empty /\ state[w] = [at |-> state[w].at, is |-> state[w].is]
        BY <1>2, <2>1 DEF Inv, Shape, States
      <4> QED
        BY <2>1, <4>1 DEF Null
    <3>2. m = Datum(Contents(w))
      BY <2>1, <3>1 DEF Contents
    <3> QED
      BY <1>2, <3>2, ContentsSeen, Parts
  <2>2. CASE kind # "object" \/ state[w] = Null
    BY <1>2, <2>2, Parts DEF Contents, Inv, Shape
  <2> QED
    BY <2>1, <2>2
<1> HIDE DEF m
<1>4. x.is = "sent" /\ x.state = m
  OBVIOUS
<1> HIDE DEF x
<1>5. /\ \A v \in Workers : sent'[v] = IF v = w THEN x ELSE sent[v]
      /\ \A p \in Processes : made'[p] = IF p = w THEN <<>> ELSE made[p]
      /\ \A p \in Processes : state'[p] = IF p = w THEN Null ELSE state[p]
      /\ UNCHANGED <<kind, asked, nulls>>
  BY <1>1 DEF query, Inv, TypeOK
<1>6. /\ Contents(w)' = Empty
      /\ \A p \in Processes : p # w => Contents(p)' = Contents(p)
  BY <1>2, <1>5, Contained, Parts DEF Contents
<1>7. Moves(R, a, b)
  <2>1. ASSUME NEW r \in R PROVE Holds(a, r) /\ r \in Rows \ nulls
    <3>1. r \in Rows /\ Holds(a, r)
      BY <1>2, PlacesAre DEF Holds
    <3>2. a \in Places /\ a[1] # "todo"
      BY <1>2, PlacesAre
    <3> QED
      BY <1>1, <3>1, <3>2 DEF Inv, NullsStay
  <2>2. ASSUME NEW r \in R, NEW p \in Processes
        PROVE  r \notin todo[p] /\ (p # w => Contents(p)[r] # 1)
    <3>1. \A k \in Places : Holds(k, r) => k = a
      BY <1>1, <1>2, <2>1, PlacesAre DEF Inv, OnePlace
    <3>2. Holds(<<"todo", p>>, r) <=> r \in todo[p]
      BY PlacesAre DEF Holds
    <3>3. Holds(<<"state", p>>, r) <=> Contents(p)[r] = 1
      BY PlacesAre DEF Holds
    <3> QED
      BY <3>1, <3>2, <3>3, PlacesAre
  <2>3. ASSUME NEW r \in R, NEW v \in Workers, v # w PROVE sent[v].state.is[r] # 1
    <3>1. \A k \in Places : Holds(k, r) => k = a
      BY <1>1, <1>2, <2>1, PlacesAre DEF Inv, OnePlace
    <3>2. Holds(<<"sent", v>>, r) <=> sent[v].state.is[r] = 1
      BY PlacesAre, Parts DEF Holds
    <3> QED
      BY <3>1, <3>2, PlacesAre, Parts
  <2>4. ASSUME NEW r \in Rows, NEW p \in Processes
        PROVE  /\ r \in todo'[p] <=> IF r \in R THEN b = <<"todo", p>> ELSE r \in todo[p]
               /\ Contents(p)'[r] = 1 <=>
                    IF r \in R THEN b = <<"state", p>> ELSE Contents(p)[r] = 1
    <3>1. b # <<"todo", p>> /\ b # <<"state", p>>
      OBVIOUS
    <3>2. r \in todo'[p] <=> IF r \in R THEN b = <<"todo", p>> ELSE r \in todo[p]
      BY <1>1, <2>2, <3>1
    <3>3. Contents(p)'[r] = 1 <=> IF r \in R THEN b = <<"state", p>> ELSE Contents(p)[r] = 1
      <4>1. CASE p = w
        BY <1>6, <3>1, <4>1, Bags
      <4>2. CASE p # w
        BY <1>6, <2>2, <3>1, <4>2
      <4> QED
        BY <4>1, <4>2
    <3> QED
      BY <3>2, <3>3
  <2>5. ASSUME NEW r \in Rows, NEW v \in Workers
        PROVE  sent'[v].state.is[r] = 1 <=>
                 IF r \in R THEN b = <<"sent", v>> ELSE sent[v].state.is[r] = 1
    <3>1. b = <<"sent", v>> <=> v = w
      OBVIOUS
    <3>2. CASE v = w
      <4>1. sent'[v].state.is = Contents(w) /\ sent[v].state.is = Empty
        BY <1>2, <1>3, <1>4, <1>5, <3>2, Parts
      <4> QED
        BY <3>1, <3>2, <4>1, Bags
    <3>3. CASE v # w
      BY <1>5, <2>3, <3>1, <3>3
    <3> QED
      BY <3>2, <3>3
  <2> QED
    BY <2>1, <2>4, <2>5 DEF Moves
<1>8. OnePlace' /\ NullsStay'
  <2>1. a \in Places /\ b \in Places /\ b[2] \in Workers
    BY <1>2, PlacesAre
  <2> HIDE DEF a, b, R
  <2> QED
    BY <1>1, <1>5, <1>7, <2>1, Moved
<1>9. TypeOK'
  <2>1. made' \in [Processes -> Seq(Object)]
    <3>1. made \in [Processes -> Seq(Object)] /\ <<>> \in Seq(Object)
      BY EmptySeq DEF Inv, TypeOK, Object
    <3> QED
      BY <1>1, <3>1
  <2>2. state' \in [Processes -> States]
    BY <1>1, Parts DEF Inv, TypeOK
  <2>3. sent' \in [Workers -> [is : {"not sent", "sent", "gone"}, state : States]]
    <3>1. x \in [is : {"not sent", "sent", "gone"}, state : States]
      BY <1>3 DEF x
    <3> QED
      BY <1>1, <3>1 DEF Inv, TypeOK
  <2> QED
    BY <1>1, <2>1, <2>2, <2>3 DEF Inv, TypeOK, query, Object
<1>10. Shape'
  <2>1. ASSUME NEW p \in Processes
        PROVE  /\ kind' = "object" => state'[p].is = Empty
               /\ kind' = "object" /\ state'[p].at # 0 =>
                    state'[p].at \in 1..Len(made'[p]) /\ made'[p][state'[p].at].live
               /\ state'[p].at = 0 => state'[p].is = Empty
    BY <1>5, Parts, ZenonT(30) DEF Inv, Shape
  <2>2. ASSUME NEW v \in Workers
        PROVE  /\ sent'[v].is # "sent" => sent'[v].state = Null
               /\ sent'[v].state.at = 0 => sent'[v].state.is = Empty
               /\ sent'[v].is # "not sent" => todo'[v] = {} /\ state'[v] = Null
    <3>1. CASE v = w
      BY <1>1, <1>2, <1>3, <1>4, <1>5, <3>1
    <3>2. CASE v # w
      <4>1. sent'[v] = sent[v] /\ state'[v] = state[v] /\ todo'[v] = todo[v]
        BY <1>1, <1>5, <3>2, Parts
      <4> QED
        BY <4>1 DEF Inv, Shape
    <3> QED
      BY <3>1, <3>2
  <2> QED
    BY <2>1, <2>2 DEF Shape
<1>11. QueryOutcome'
  BY <1>1 DEF Inv, QueryOutcome, query
<1> QED
  BY <1>8, <1>9, <1>10, <1>11 DEF Inv

\* A message that is taken is gone.
LEMMA Taken ==
  ASSUME Inv, NEW w \in Workers, Take(w)
  PROVE  /\ Running /\ sent[w].is = "sent" /\ w \in Processes /\ w # "final"
         /\ sent'[w].is = "gone" /\ sent'[w].state = Null
         /\ \A v \in Workers : v # w => sent'[v] = sent[v]
         /\ sent' \in [Workers -> [is : {"not sent", "sent", "gone"}, state : States]]
         /\ sent[w].state \in States /\ sent[w].state.is \in Seen
<1> DEFINE S == [is : {"not sent", "sent", "gone"}, state : States]
           x == [sent[w] EXCEPT !.is = "gone"]
           y == [x EXCEPT !.state = Null]
<1>1. Running /\ sent[w].is = "sent" /\ sent' = [sent EXCEPT ![w].is = "gone", ![w].state = Null]
  BY DEF Take
<1>2. sent \in [Workers -> S] /\ sent[w] \in S
  BY DEF Inv, TypeOK
<1>3. x \in S /\ x.is = "gone"
  BY <1>2
<1>4. sent' = [sent EXCEPT ![w] = y]
  BY <1>1, <1>2
<1> HIDE DEF x
<1>5. y \in S /\ y.is = "gone" /\ y.state = Null
  BY <1>3, Parts
<1> HIDE DEF y
<1>6. /\ sent'[w] = y /\ \A v \in Workers : v # w => sent'[v] = sent[v]
      /\ sent' \in [Workers -> S]
  BY <1>2, <1>4, <1>5
<1> QED
  BY <1>1, <1>2, <1>5, <1>6, Parts DEF States

\* The rows of the message of w go into the state of the final process.
LEMMA Combining ==
  ASSUME Inv, NEW w \in Workers, Take(w), UNCHANGED <<query, todo, result>>,
         \A q \in Processes : q # "final" => made'[q] = made[q] /\ state'[q] = state[q],
         \A x \in Rows : Contents("final")'[x] = 1 <=>
                           sent[w].state.is[x] = 1 \/ Contents("final")[x] = 1
  PROVE  OnePlace' /\ NullsStay'
<1> DEFINE R == {r \in Rows : sent[w].state.is[r] = 1}
           a == <<"sent", w>>
           b == <<"state", "final">>
<1>1. /\ Running /\ w \in Processes /\ w # "final" /\ "final" \in Processes
      /\ sent'[w].is = "gone" /\ sent'[w].state = Null
      /\ \A v \in Workers : v # w => sent'[v] = sent[v]
      /\ UNCHANGED <<kind, asked, nulls, todo>>
  BY Taken, Parts DEF query
<1>2. \A p \in Processes : p # "final" => Contents(p)' = Contents(p)
  BY <1>1, Contained
<1>3. ASSUME NEW r \in R
      PROVE  /\ Holds(a, r) /\ r \in Rows \ nulls
             /\ \A p \in Processes : r \notin todo[p] /\ Contents(p)[r] # 1
             /\ \A v \in Workers : v # w => sent[v].state.is[r] # 1
  <2>1. r \in Rows /\ Holds(a, r) /\ a \in Places /\ a[1] # "todo"
    BY <1>1, PlacesAre DEF Holds
  <2>2. \A k \in Places : Holds(k, r) => k = a
    BY <1>1, <2>1 DEF Inv, OnePlace
  <2>3. ASSUME NEW p \in Processes PROVE r \notin todo[p] /\ Contents(p)[r] # 1
    <3>1. Holds(<<"todo", p>>, r) <=> r \in todo[p]
      BY PlacesAre DEF Holds
    <3>2. Holds(<<"state", p>>, r) <=> Contents(p)[r] = 1
      BY PlacesAre DEF Holds
    <3> QED
      BY <2>2, <3>1, <3>2, PlacesAre
  <2>4. ASSUME NEW v \in Workers, v # w PROVE sent[v].state.is[r] # 1
    <3>1. Holds(<<"sent", v>>, r) <=> sent[v].state.is[r] = 1
      BY PlacesAre, Parts DEF Holds
    <3> QED
      BY <2>2, <2>4, <3>1, PlacesAre, Parts
  <2> QED
    BY <1>1, <2>1, <2>3, <2>4 DEF Inv, NullsStay
<1>4. ASSUME NEW r \in Rows, NEW p \in Processes
      PROVE  /\ r \in todo'[p] <=> IF r \in R THEN b = <<"todo", p>> ELSE r \in todo[p]
             /\ Contents(p)'[r] = 1 <=>
                  IF r \in R THEN b = <<"state", p>> ELSE Contents(p)[r] = 1
  <2>1. b # <<"todo", p>> /\ (b = <<"state", p>> <=> p = "final")
    OBVIOUS
  <2>2. r \in todo'[p] <=> IF r \in R THEN b = <<"todo", p>> ELSE r \in todo[p]
    BY <1>1, <1>3, <2>1
  <2>3. CASE p = "final"
    BY <2>1, <2>2, <2>3
  <2>4. CASE p # "final"
    BY <1>2, <1>3, <2>1, <2>2, <2>4
  <2> QED
    BY <2>3, <2>4
<1>5. ASSUME NEW r \in Rows, NEW v \in Workers
      PROVE  sent'[v].state.is[r] = 1 <=>
               IF r \in R THEN b = <<"sent", v>> ELSE sent[v].state.is[r] = 1
  <2>1. b # <<"sent", v>>
    OBVIOUS
  <2>2. CASE v = w
    <3>1. sent'[v].state.is = Empty
      BY <1>1, <2>2, Parts
    <3> QED
      BY <2>1, <2>2, <3>1, Bags
  <2>3. CASE v # w
    BY <1>1, <1>3, <2>1, <2>3
  <2> QED
    BY <2>2, <2>3
<1>6. Moves(R, a, b)
  BY <1>3, <1>4, <1>5 DEF Moves
<1>7. a \in Places /\ b \in Places /\ b[1] # "sent"
  BY <1>1, PlacesAre
<1> HIDE DEF a, b, R
<1> QED
  BY <1>1, <1>6, <1>7, Moved

LEMMA CombineObjectKeeps ==
  ASSUME Inv, NEW w \in Workers, CombineObject(w)
  PROVE  Inv'
<1> DEFINE c == sent[w].state.is
           other == Constructed(made["final"], c)
           a == ObjectOf(other, state["final"])
           d == Combined(a.objects[a.at].contents, a.objects[Len(other)].contents)
           both == Constructed(a.objects, d)
           n == Len(other)
           f == Contents("final")
<1>1. /\ kind = "object" /\ Take(w) /\ UNCHANGED <<query, todo, result>>
      /\ made' = [made EXCEPT !["final"] = both]
      /\ state' = [state EXCEPT !["final"] = Pointer(Len(both))]
  BY DEF CombineObject
<1>2. /\ Running /\ sent[w].is = "sent" /\ w \in Processes /\ w # "final"
      /\ sent'[w].is = "gone" /\ sent'[w].state = Null
      /\ \A v \in Workers : v # w => sent'[v] = sent[v]
      /\ sent' \in [Workers -> [is : {"not sent", "sent", "gone"}, state : States]]
      /\ c \in Seen /\ "final" \in Processes
  BY <1>1, Taken, Parts
<1>3. /\ made["final"] \in Seq(Object) /\ made \in [Processes -> Seq(Object)]
      /\ state \in [Processes -> States]
  BY <1>2 DEF Inv, TypeOK, Object
<1> HIDE DEF c
<1>4. /\ other \in Seq(Object) /\ n = Len(made["final"]) + 1 /\ n \in Nat \ {0}
      /\ Len(made["final"]) <= n /\ other[n].contents = c
      /\ \A i \in 1..Len(made["final"]) : other[i] = made["final"][i]
  <2> DEFINE e == [contents |-> c, live |-> TRUE]
  <2>1. e \in Object /\ e.contents = c
    BY <1>2 DEF Object
  <2>2. other = Append(made["final"], e)
    BY DEF Constructed
  <2> HIDE DEF e, other
  <2> QED
    BY <1>3, <2>1, <2>2, Pushed
<1> HIDE DEF other
<1>5. /\ a.objects \in Seq(Object) /\ n <= Len(a.objects) /\ a.at \in 1..Len(a.objects)
      /\ a.objects[a.at].contents = f
      /\ \A i \in 1..n : a.objects[i] = other[i]
  BY <1>1, <1>2, <1>4, TheObject
<1> HIDE DEF a
<1>6. a.objects[n].contents = c
  BY <1>4, <1>5
<1>7. /\ d = Sum2(f, c) /\ d \in Seen
      /\ \A x \in Rows : d[x] = 1 <=> f[x] = 1 \/ c[x] = 1
  <2>1. d = Sum2(f, c)
    BY <1>5, <1>6 DEF Combined
  <2>2. ASSUME NEW x \in Rows, f[x] = 1, c[x] = 1 PROVE FALSE
    <3>1. Holds(<<"state", "final">>, x) /\ Holds(<<"sent", w>>, x)
      BY <1>2, <2>2, PlacesAre DEF Holds, c
    <3>2. <<"state", "final">> \in Places /\ <<"sent", w>> \in Places
      BY <1>2, PlacesAre
    <3>3. <<"state", "final">> = <<"sent", w>>
      BY <1>2, <3>1, <3>2 DEF Inv, OnePlace
    <3> QED
      BY <3>3
  <2>3. f \in Seen
    BY <1>2, ContentsSeen
  <2> HIDE DEF f, d
  <2> QED
    BY <1>2, <2>1, <2>2, <2>3, Disjoint
<1> HIDE DEF d
<1>8. /\ both \in Seq(Object) /\ Len(both) \in Nat \ {0} /\ Len(both) \in 1..Len(both)
      /\ both[Len(both)].contents = d /\ both[Len(both)].live
  <2> DEFINE e == [contents |-> d, live |-> TRUE]
  <2>1. e \in Object /\ e.contents = d /\ e.live
    BY <1>7 DEF Object
  <2>2. both = Append(a.objects, e)
    BY DEF Constructed
  <2> HIDE DEF e, both
  <2>3. /\ both \in Seq(Object) /\ Len(both) = Len(a.objects) + 1 /\ Len(a.objects) \in Nat
        /\ both[Len(a.objects) + 1] = e
    BY <1>5, <2>1, <2>2, Pushed
  <2> QED
    BY <2>1, <2>3
<1> HIDE DEF both
<1>9. /\ \A q \in Processes : made'[q] = IF q = "final" THEN both ELSE made[q]
      /\ \A q \in Processes : state'[q] = IF q = "final" THEN Pointer(Len(both)) ELSE state[q]
      /\ kind' = kind
  BY <1>1, <1>3 DEF query
<1>10. Contents("final")' = d
  <2>1. state'["final"].at = Len(both) /\ Len(both) # 0 /\ made'["final"] = both
    BY <1>2, <1>8, <1>9, Parts
  <2> QED
    BY <1>1, <1>8, <1>9, <2>1 DEF Contents
<1>11. OnePlace' /\ NullsStay'
  <2>1. \A q \in Processes : q # "final" => made'[q] = made[q] /\ state'[q] = state[q]
    BY <1>9
  <2>2. \A x \in Rows : Contents("final")'[x] = 1 <=>
                          sent[w].state.is[x] = 1 \/ Contents("final")[x] = 1
    BY <1>7, <1>10 DEF c
  <2> QED
    BY <1>1, <2>1, <2>2, Combining
<1>12. TypeOK'
  <2>1. made' \in [Processes -> Seq(Object)]
    BY <1>1, <1>3, <1>8
  <2>2. state' \in [Processes -> States]
    BY <1>1, <1>3, <1>8, Parts
  <2> QED
    BY <1>1, <1>2, <2>1, <2>2 DEF Inv, TypeOK, query, Object
<1>13. Shape'
  <2>1. ASSUME NEW q \in Processes
        PROVE  /\ kind' = "object" => state'[q].is = Empty
               /\ kind' = "object" /\ state'[q].at # 0 =>
                    state'[q].at \in 1..Len(made'[q]) /\ made'[q][state'[q].at].live
               /\ state'[q].at = 0 => state'[q].is = Empty
    <3>1. CASE q = "final"
      BY <1>8, <1>9, <3>1, Parts
    <3>2. CASE q # "final"
      BY <1>9, <3>2 DEF Inv, Shape
    <3> QED
      BY <3>1, <3>2
  <2>2. ASSUME NEW v \in Workers
        PROVE  /\ sent'[v].is # "sent" => sent'[v].state = Null
               /\ sent'[v].state.at = 0 => sent'[v].state.is = Empty
               /\ sent'[v].is # "not sent" => todo'[v] = {} /\ state'[v] = Null
    <3>1. state'[v] = state[v] /\ todo'[v] = todo[v]
      BY <1>1, <1>9, Parts
    <3>2. CASE v = w
      <4>1. sent[v].is # "not sent"
        BY <1>2, <3>2
      <4>2. sent'[v].state = Null
        BY <1>2, <3>2
      <4> QED
        BY <3>1, <4>1, <4>2, Parts DEF Inv, Shape
    <3>3. CASE v # w
      <4>1. sent'[v] = sent[v]
        BY <1>2, <3>3
      <4> QED
        BY <3>1, <4>1 DEF Inv, Shape
    <3> QED
      BY <3>2, <3>3
  <2> QED
    BY <2>1, <2>2 DEF Shape
<1>14. QueryOutcome'
  BY <1>1 DEF Inv, QueryOutcome, query
<1> QED
  BY <1>11, <1>12, <1>13, <1>14 DEF Inv

LEMMA CombineDatumKeeps ==
  ASSUME Inv, NEW w \in Workers, CombineDatum(w)
  PROVE  Inv'
<1> DEFINE c == sent[w].state.is
           f == state["final"].is
           d == Sum2(f, c)
<1>1. /\ kind = "datum" /\ Take(w) /\ UNCHANGED <<query, todo, made, result>>
      /\ state' = [state EXCEPT !["final"] = Datum(d)]
  BY DEF CombineDatum, Combined, FromDatum
<1>2. /\ Running /\ sent[w].is = "sent" /\ w \in Processes /\ w # "final"
      /\ sent'[w].is = "gone" /\ sent'[w].state = Null
      /\ \A v \in Workers : v # w => sent'[v] = sent[v]
      /\ sent' \in [Workers -> [is : {"not sent", "sent", "gone"}, state : States]]
      /\ c \in Seen /\ "final" \in Processes
  BY <1>1, Taken, Parts
<1>3. Contents("final") = f
  BY <1>1 DEF Contents
<1>4. d \in Seen /\ \A x \in Rows : d[x] = 1 <=> f[x] = 1 \/ c[x] = 1
  <2>1. ASSUME NEW x \in Rows, f[x] = 1, c[x] = 1 PROVE FALSE
    <3>1. Holds(<<"state", "final">>, x) /\ Holds(<<"sent", w>>, x)
      BY <1>2, <1>3, <2>1, PlacesAre DEF Holds
    <3>2. <<"state", "final">> \in Places /\ <<"sent", w>> \in Places
      BY <1>2, PlacesAre
    <3>3. <<"state", "final">> = <<"sent", w>>
      BY <1>2, <3>1, <3>2 DEF Inv, OnePlace
    <3> QED
      BY <3>3
  <2>2. f \in Seen
    BY <1>2, <1>3, ContentsSeen
  <2> HIDE DEF f, c
  <2> QED
    BY <1>2, <2>1, <2>2, Disjoint
<1> HIDE DEF d
<1>5. /\ \A q \in Processes : state'[q] = IF q = "final" THEN Datum(d) ELSE state[q]
      /\ kind' = kind
  BY <1>1 DEF query, Inv, TypeOK
<1>6. Contents("final")' = d
  <2>1. state'["final"].is = d
    BY <1>2, <1>4, <1>5, Parts
  <2> QED
    BY <1>1, <1>5, <2>1 DEF Contents
<1>7. OnePlace' /\ NullsStay'
  <2>1. \A q \in Processes : q # "final" => made'[q] = made[q] /\ state'[q] = state[q]
    BY <1>1, <1>5
  <2>2. \A x \in Rows : Contents("final")'[x] = 1 <=>
                          sent[w].state.is[x] = 1 \/ Contents("final")[x] = 1
    BY <1>3, <1>4, <1>6
  <2> QED
    BY <1>1, <2>1, <2>2, Combining
<1>8. TypeOK'
  <2>1. state' \in [Processes -> States]
    BY <1>1, <1>4, Parts DEF Inv, TypeOK
  <2> QED
    BY <1>1, <1>2, <2>1 DEF Inv, TypeOK, query
<1>9. Shape'
  <2>1. ASSUME NEW q \in Processes
        PROVE  state'[q].at = 0 => state'[q].is = Empty
    <3>1. CASE q = "final"
      BY <1>4, <1>5, <3>1, Parts
    <3>2. CASE q # "final"
      BY <1>5, <3>2 DEF Inv, Shape
    <3> QED
      BY <3>1, <3>2
  <2>2. ASSUME NEW v \in Workers
        PROVE  /\ sent'[v].is # "sent" => sent'[v].state = Null
               /\ sent'[v].state.at = 0 => sent'[v].state.is = Empty
               /\ sent'[v].is # "not sent" => todo'[v] = {} /\ state'[v] = Null
    <3>1. state'[v] = state[v] /\ todo'[v] = todo[v]
      BY <1>1, <1>5, Parts
    <3>2. CASE v = w
      <4>1. sent[v].is # "not sent"
        BY <1>2, <3>2
      <4>2. sent'[v].state = Null
        BY <1>2, <3>2
      <4> QED
        BY <3>1, <4>1, <4>2, Parts DEF Inv, Shape
    <3>3. CASE v # w
      <4>1. sent'[v] = sent[v]
        BY <1>2, <3>3
      <4> QED
        BY <3>1, <4>1 DEF Inv, Shape
    <3> QED
      BY <3>2, <3>3
  <2> QED
    BY <1>1, <1>5, <2>1, <2>2 DEF Shape
<1>10. QueryOutcome'
  BY <1>1 DEF Inv, QueryOutcome, query
<1> QED
  BY <1>7, <1>8, <1>9, <1>10 DEF Inv

LEMMA SkipKeeps ==
  ASSUME Inv, NEW w \in Workers, Skip(w)
  PROVE  Inv'
<1>1. /\ Take(w) /\ sent[w].state = Null /\ UNCHANGED <<query, todo, made, state, result>>
  BY DEF Skip
<1>2. /\ Running /\ sent[w].is = "sent"
      /\ sent'[w].is = "gone" /\ sent'[w].state = Null
      /\ \A v \in Workers : v # w => sent'[v] = sent[v]
      /\ sent' \in [Workers -> [is : {"not sent", "sent", "gone"}, state : States]]
  BY <1>1, Taken
<1>3. \A v \in Workers : sent'[v].state = sent[v].state
  BY <1>1, <1>2
<1>4. \A k \in Places, r \in Rows : Holds(k, r)' <=> Holds(k, r)
  BY <1>1, <1>3 DEF Holds, Contents, query
<1>5. OnePlace' /\ NullsStay'
  <2>1. UNCHANGED <<asked, nulls>> /\ asked \subseteq Rows /\ nulls \subseteq Rows
    BY <1>1 DEF Inv, TypeOK, query
  <2> QED
    BY <1>2, <1>4, <2>1 DEF Inv, OnePlace, NullsStay
<1>6. TypeOK'
  <2>1. UNCHANGED <<kind, strict, asked, nulls, todo, made, state, result>>
    BY <1>1 DEF query
  <2> QED
    BY <1>2, <2>1 DEF Inv, TypeOK
<1>7. Shape'
  <2>1. UNCHANGED <<kind, todo, made, state>>
    BY <1>1 DEF query
  <2>2. ASSUME NEW v \in Workers
        PROVE  /\ sent'[v].is # "sent" => sent'[v].state = Null
               /\ sent'[v].state.at = 0 => sent'[v].state.is = Empty
               /\ sent'[v].is # "not sent" => todo'[v] = {} /\ state'[v] = Null
    <3>1. CASE v = w
      BY <1>2, <2>1, <3>1, Parts DEF Inv, Shape
    <3>2. CASE v # w
      BY <1>2, <2>1, <3>2 DEF Inv, Shape
    <3> QED
      BY <3>1, <3>2
  <2> QED
    BY <2>1, <2>2 DEF Inv, Shape
<1>8. QueryOutcome'
  BY <1>1 DEF Inv, QueryOutcome, query
<1> QED
  BY <1>5, <1>6, <1>7, <1>8 DEF Inv
------------------------------------------------------------------------------
\* The ways a query ends.

LEMMA FinishKeeps == Inv /\ Finish => Inv'
<1> SUFFICES ASSUME Inv, Finish PROVE Inv'
  OBVIOUS
<1> DEFINE s == state["final"]
           c == IF s.at = 0 THEN Empty
                ELSE IF kind = "datum" THEN s.is ELSE made["final"][s.at].contents
<1>1. /\ Running /\ todo["final"] = {} /\ \A w \in Workers : sent[w].is = "gone"
      /\ UNCHANGED <<query, todo, sent>>
      /\ IF s.at = 0 /\ (kind = "datum" \/ "final" \in strict) THEN EndsWith("null", Empty)
         ELSE EndsWith("value", c)
  BY DEF Finish
<1>2. "final" \in Processes /\ kind \in {"object", "datum"} /\ asked \subseteq Rows /\ nulls \subseteq asked
  BY Parts DEF Inv, TypeOK
<1>3. c = Contents("final") /\ c \in Seen
  BY <1>2, ContentsSeen DEF Contents, Inv, Shape
<1>4. \A r \in Rows, k \in Places : Holds(k, r) => k = <<"state", "final">>
  <2> SUFFICES ASSUME NEW r \in Rows, NEW k \in Places, Holds(k, r)
               PROVE  k = <<"state", "final">>
    OBVIOUS
  <2>1. \A p \in Processes : todo[p] = {} /\ (p # "final" => Contents(p) = Empty)
    BY <1>1, Parts DEF Inv, Shape, Contents, Processes
  <2>2. \A w \in Workers : sent[w].state.is = Empty
    BY <1>1, Parts DEF Inv, Shape
  <2>3. k[1] = "state" /\ k[2] = "final"
    BY <2>1, <2>2, PlacesAre, Bags DEF Holds
  <2> QED
    BY <2>3, PlacesAre
<1>5. \A r \in Rows : c[r] = 1 <=> r \in asked
  <2> SUFFICES ASSUME NEW r \in Rows PROVE c[r] = 1 <=> r \in asked
    OBVIOUS
  <2>1. Holds(<<"state", "final">>, r) <=> c[r] = 1
    BY <1>2, <1>3, PlacesAre DEF Holds
  <2> QED
    BY <1>1, <1>2, <1>4, <2>1, PlacesAre DEF Inv, OnePlace
<1>6. nulls = {}
  <2> SUFFICES ASSUME NEW r \in nulls PROVE FALSE
    OBVIOUS
  <2>1. PICK k \in Places : Holds(k, r)
    BY <1>1, <1>2 DEF Inv, OnePlace
  <2>2. k[1] = "todo" /\ k = <<"state", "final">>
    BY <1>1, <1>2, <1>4, <2>1 DEF Inv, NullsStay
  <2> QED
    BY <2>2
<1>7. c = Exactly(asked)
  <2>1. \A r \in Rows : c[r] = IF r \in asked THEN 1 ELSE 0
    BY <1>2, <1>3, <1>5, ContentsSeen
  <2> QED
    BY <1>3, <2>1 DEF Seen, Exactly
<1> HIDE DEF c
<1>8. CASE s.at = 0 /\ (kind = "datum" \/ "final" \in strict)
  <2>1. EndsWith("null", Empty) /\ result' = [is |-> "null", of |-> Empty]
    BY <1>1, <1>8 DEF EndsWith
  <2>2. asked = {}
    <3>1. c = Empty
      BY <1>8 DEF c
    <3> QED
      BY <1>2, <1>5, <3>1, Bags
  <2>3. QueryOutcome'
    BY <1>1, <1>8, <2>1, <2>2 DEF QueryOutcome, query
  <2> QED
    BY <1>1, <2>1, <2>3, Bags, Ended
<1>9. CASE ~(s.at = 0 /\ (kind = "datum" \/ "final" \in strict))
  <2>1. EndsWith("value", c) /\ result' = [is |-> "value", of |-> c]
    BY <1>1, <1>9 DEF EndsWith
  <2>2. QueryOutcome'
    BY <1>1, <1>6, <1>7, <2>1 DEF QueryOutcome, query, Exactly
  <2> QED
    BY <1>1, <1>3, <2>1, <2>2, Ended
<1> QED
  BY <1>8, <1>9

LEMMA ErrorKeeps ==
  ASSUME Inv,
         \/ \E p \in Processes : SfuncNull(p)
         \/ \E w \in Workers : SerialOfNull(w) \/ DeserialOfNull(w)
         \/ Cancel
  PROVE  Inv'
<1>1. CASE Cancel
  <2>1. result'.is = "cancelled" /\ EndsWith("cancelled", Empty) /\ UNCHANGED <<query, todo, sent>>
    BY <1>1 DEF Cancel, EndsWith
  <2> QED
    BY <2>1, Bags, Ended DEF QueryOutcome
<1>2. CASE ~Cancel
  <2>1. NullError
    BY <1>2 DEF SfuncNull, SerialOfNull, DeserialOfNull
  <2>2. /\ nulls # {} \/ (kind = "object" /\ ~({"serial", "deserial"} \subseteq strict))
    BY <1>2 DEF SfuncNull, SerialOfNull, DeserialOfNull
  <2>3. /\ EndsWith("null error", Empty) /\ UNCHANGED <<query, todo, sent>>
        /\ result'.is = "null error"
    BY <2>1 DEF NullError, EndsWith
  <2>4. QueryOutcome'
    BY <2>2, <2>3 DEF QueryOutcome, query
  <2> QED
    BY <2>3, <2>4, Bags, Ended
<1> QED
  BY <1>1, <1>2

LEMMA InvInit == Init => Inv
<1> SUFFICES ASSUME Init PROVE Inv
  OBVIOUS
<1>1. PICK parallel \in BOOLEAN, who \in [Rows -> Workers] :
        /\ asked \in SUBSET Rows
        /\ kind \in {"object", "datum"}
        /\ strict \in SUBSET {"serial", "deserial", "final"}
        /\ nulls \in SUBSET asked
        /\ todo = [p \in Processes |->
             IF p = "final" THEN IF parallel THEN {} ELSE asked
             ELSE IF parallel THEN {r \in asked : who[r] = p} ELSE {}]
        /\ made = [p \in Processes |-> <<>>]
        /\ state = [p \in Processes |-> Null]
        /\ sent = [w \in Workers |->
             IF parallel THEN NotSent ELSE [NotSent EXCEPT !.is = "gone"]]
        /\ result = [is |-> "none", of |-> Empty]
  BY DEF Init
<1> DEFINE S == [is : {"not sent", "sent", "gone"}, state : States]
           gone == [NotSent EXCEPT !.is = "gone"]
<1>2. /\ NotSent \in S /\ NotSent.is = "not sent" /\ NotSent.state = Null
      /\ gone \in S /\ gone.is = "gone" /\ gone.state = Null
  <2>1. NotSent \in S /\ NotSent.is = "not sent" /\ NotSent.state = Null
    BY Parts DEF NotSent
  <2> QED
    BY <2>1
<1> HIDE DEF gone
<1>3. \A w \in Workers :
        /\ sent[w] \in S /\ sent[w].state = Null
        /\ sent[w].is = IF parallel THEN "not sent" ELSE "gone"
  <2>1. \A w \in Workers : sent[w] = IF parallel THEN NotSent ELSE gone
    BY <1>1 DEF gone
  <2> QED
    BY <1>2, <2>1
<1>4. TypeOK
  <2>1. made \in [Processes -> Seq(Object)]
    <3>1. <<>> \in Seq(Object)
      BY EmptySeq
    <3> QED
      BY <1>1, <3>1
  <2>2. sent \in [Workers -> [is : {"not sent", "sent", "gone"}, state : States]]
    <3>1. sent = [w \in Workers |-> IF parallel THEN NotSent ELSE gone]
      BY <1>1 DEF gone
    <3> QED
      BY <1>2, <3>1
  <2>3. todo \in [Processes -> SUBSET Rows] /\ state \in [Processes -> States]
    BY <1>1, Parts
  <2>4. result \in [is : {"none", "value", "null", "null error", "cancelled"}, of : Seen]
    BY <1>1, Bags
  <2> QED
    BY <1>1, <2>1, <2>2, <2>3, <2>4 DEF TypeOK, Object
<1>5. Shape
  BY <1>1, <1>3, Parts DEF Shape
<1>6. QueryOutcome
  BY <1>1 DEF QueryOutcome
<1>7. \A k \in Places, r \in Rows : Holds(k, r) <=> k[1] = "todo" /\ r \in todo[k[2]]
  <2>1. \A p \in Processes : Contents(p) = Empty
    BY <1>1, Parts DEF Contents
  <2>2. \A w \in Workers : sent[w].state.is = Empty
    BY <1>3, Parts
  <2> QED
    BY <2>1, <2>2, Bags, PlacesAre DEF Holds
<1>8. \A r \in asked : \E p \in Processes :
        r \in todo[p] /\ \A q \in Processes : r \in todo[q] => q = p
  <2> SUFFICES ASSUME NEW r \in asked
               PROVE  \E p \in Processes :
                        r \in todo[p] /\ \A q \in Processes : r \in todo[q] => q = p
    OBVIOUS
  <2>1. who[r] \in Workers /\ who[r] # "final" /\ who[r] \in Processes /\ "final" \in Processes
    BY <1>1, Parts
  <2>2. CASE parallel
    <3>1. r \in todo[who[r]] /\ \A q \in Processes : r \in todo[q] => q = who[r]
      BY <1>1, <2>1, <2>2
    <3> QED
      BY <2>1, <3>1
  <2>3. CASE ~parallel
    <3>1. r \in todo["final"] /\ \A q \in Processes : r \in todo[q] => q = "final"
      BY <1>1, <2>1, <2>3
    <3> QED
      BY <2>1, <3>1
  <2> QED
    BY <2>2, <2>3
<1>9. \A p \in Processes : todo[p] \subseteq asked
  BY <1>1
<1>10. OnePlace
  <2>1. ASSUME NEW r \in asked PROVE \E k \in Places : Holds(k, r)
    <3>1. PICK p \in Processes : r \in todo[p]
      BY <1>8
    <3>2. Holds(<<"todo", p>>, r)
      BY <3>1, PlacesAre DEF Holds
    <3> QED
      BY <3>2, PlacesAre
  <2>2. ASSUME NEW r \in Rows, NEW k \in Places, NEW l \in Places, Holds(k, r), Holds(l, r)
        PROVE  k = l
    <3>1. k[1] = "todo" /\ r \in todo[k[2]] /\ l[1] = "todo" /\ r \in todo[l[2]]
      BY <1>7, <2>2
    <3>2. k[2] = l[2]
      BY <1>8, <1>9, <3>1, PlacesAre
    <3> QED
      BY <3>1, <3>2, PlacesAre
  <2>3. ASSUME NEW r \in Rows, NEW k \in Places, Holds(k, r) PROVE r \in asked
    BY <1>7, <1>9, <2>3, PlacesAre
  <2> QED
    BY <2>1, <2>2, <2>3 DEF OnePlace
<1>11. NullsStay
  <2>1. nulls \subseteq Rows
    BY <1>1
  <2> QED
    BY <1>7, <2>1 DEF NullsStay
<1> QED
  BY <1>4, <1>5, <1>6, <1>10, <1>11 DEF Inv

LEMMA InvNext == Inv /\ [Next]_vars => Inv'
<1> SUFFICES ASSUME Inv, [Next]_vars PROVE Inv'
  OBVIOUS
<1>1. CASE UNCHANGED vars
  <2>1. UNCHANGED <<kind, strict, asked, nulls, todo, made, state, sent, result>>
    BY <1>1 DEF vars
  <2>2. TypeOK'
    BY <2>1 DEF Inv, TypeOK
  <2>3. Shape' /\ QueryOutcome'
    BY <2>1 DEF Inv, Shape, QueryOutcome
  <2>4. \A k \in Places, r \in Rows : Holds(k, r)' <=> Holds(k, r)
    BY <2>1 DEF Holds, Contents
  <2>5. asked \subseteq Rows /\ nulls \subseteq Rows
    BY DEF Inv, TypeOK
  <2>6. Running' => OnePlace' /\ NullsStay'
    BY <2>1, <2>4, <2>5 DEF Inv, Running, OnePlace, NullsStay
  <2> QED
    BY <2>2, <2>3, <2>6 DEF Inv
<1>2. CASE \E p \in Processes, r \in Rows : SfuncObject(p, r) \/ SfuncDatum(p, r)
  BY <1>2, SfuncObjectKeeps, SfuncDatumKeeps
<1>3. CASE \E w \in Workers : Send(w) \/ CombineObject(w) \/ Skip(w) \/ CombineDatum(w)
  BY <1>3, SendKeeps, CombineObjectKeeps, SkipKeeps, CombineDatumKeeps
<1>4. CASE \/ \E p \in Processes : SfuncNull(p)
           \/ \E w \in Workers : SerialOfNull(w) \/ DeserialOfNull(w)
           \/ Cancel
  BY <1>4, ErrorKeeps
<1>5. CASE Finish
  BY <1>5, FinishKeeps
<1> QED
  BY <1>1, <1>2, <1>3, <1>4, <1>5 DEF Next
------------------------------------------------------------------------------
LEMMA Invariance == Spec => []Inv
BY InvInit, InvNext, PTL DEF Spec

\* For any number of processes and rows, no state and no result holds a row twice.
THEOREM AggregateTypes == Spec => []TypeOK
<1>1. Inv => TypeOK
  BY DEF Inv
<1> QED
  BY <1>1, Invariance, PTL

\* However the rows are split over processes and their states are combined, the value
\* is that of every row once, a null is of no rows, and an error about a null has a
\* null to blame (aggregate.hpp:36-139).
THEOREM EveryRowOnce == Spec => []QueryOutcome
<1>1. Inv => QueryOutcome
  BY DEF Inv
<1> QED
  BY <1>1, Invariance, PTL

\* A state always points to a live object of its process (aggregate.hpp:50, 120).
THEOREM StatesAreLive == Spec => []StatesLive
<1>1. Inv => StatesLive
  BY DEF Inv, Shape, StatesLive
<1> QED
  BY <1>1, Invariance, PTL
================================================================================
