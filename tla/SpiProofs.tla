------------------------------- MODULE SpiProofs -------------------------------
(****************************************************************************)
(* Theorems about Spi: for any nesting of executors, subtransactions and    *)
(* try blocks, and any plans and results.  What is said of the stacks and   *)
(* of results supposes the duties that the code outside is to take care of; *)
(* what is said of plans does not.                                          *)
(****************************************************************************)
EXTENDS Spi, FiniteSetTheorems, SequenceTheorems, TLAPS

ExecutorsIn(sc) == {i \in DOMAIN sc : IsExecutor(sc[i])}

\* The place of i in the order of H.
PlaceIn(H, i) == Cardinality({j \in H : j <= i})

\* A subtransaction not finished yet, as the connections made in it know it.
OpenSub(s, id) == s.kind = "sub" /\ ~s.finished /\ s.id = id

\* Executors ex and connections co are those of the scopes sc, level by level, and
\* each connection was made outside of any subtransaction or in one opened below it
\* that is not finished.
Aligned(sc, ex, co) ==
  LET H == ExecutorsIn(sc)
      b == Len(co) - Len(ex)
  IN  /\ Len(ex) = Cardinality(H)
      /\ \A k \in 1 .. Len(ex) : \E i \in H : PlaceIn(H, i) = k
      /\ \A i \in H :
           /\ ex[PlaceIn(H, i)] = sc[i].id
           /\ co[b + PlaceIn(H, i)].id = sc[i].id
           /\ co[b + PlaceIn(H, i)].sub # 0
                => \E g \in DOMAIN sc : g < i /\ OpenSub(sc[g], co[b + PlaceIn(H, i)].sub)
      /\ b = 0 \/ (b = 1 /\ co[1].id = 0 /\ co[1].sub = 0)

LEMMA PlaceType ==
  ASSUME NEW H, IsFiniteSet(H), H \subseteq Nat, NEW i \in H
  PROVE  PlaceIn(H, i) \in 1 .. Cardinality(H)
<1> DEFINE B == {j \in H : j <= i}
<1>1. B \in SUBSET H /\ i \in B
  OBVIOUS
<1> HIDE DEF B
<1>2. IsFiniteSet(B) /\ Cardinality(B) <= Cardinality(H)
  BY <1>1, FS_Subset
<1>3. Cardinality(B) \in Nat /\ Cardinality(H) \in Nat
  BY <1>2, FS_CardinalityType
<1>4. Cardinality(B) # 0
  BY <1>1, <1>2, FS_EmptySet
<1> QED
  BY <1>2, <1>3, <1>4 DEF PlaceIn, B

\* One more element above all others takes the next place and moves none.
LEMMA PlaceAbove ==
  ASSUME NEW H, IsFiniteSet(H), H \subseteq Nat, NEW n \in Nat, \A j \in H : j < n
  PROVE  /\ n \notin H /\ Cardinality(H \cup {n}) = Cardinality(H) + 1
         /\ \A i \in H : PlaceIn(H \cup {n}, i) = PlaceIn(H, i)
         /\ PlaceIn(H \cup {n}, n) = Cardinality(H) + 1
<1>1. n \notin H
  OBVIOUS
<1>2. Cardinality(H \cup {n}) = Cardinality(H) + 1
  BY <1>1, FS_AddElement
<1>3. ASSUME NEW i \in H PROVE {j \in H \cup {n} : j <= i} = {j \in H : j <= i}
  OBVIOUS
<1>4. {j \in H \cup {n} : j <= n} = H \cup {n}
  <2>1. \A j \in H \cup {n} : j <= n
    OBVIOUS
  <2> QED
    BY <2>1
<1> QED
  BY <1>1, <1>2, <1>3, <1>4 DEF PlaceIn

LEMMA ExecutorsFinite ==
  ASSUME NEW sc \in Seq(Scope)
  PROVE  /\ IsFiniteSet(ExecutorsIn(sc)) /\ ExecutorsIn(sc) \subseteq Nat
         /\ ExecutorsIn(sc) \subseteq 1 .. Len(sc)
         /\ Cardinality(ExecutorsIn(sc)) \in Nat
         /\ \A i \in ExecutorsIn(sc) :
              PlaceIn(ExecutorsIn(sc), i) \in 1 .. Cardinality(ExecutorsIn(sc))
<1>1. PICK n \in Nat : n = Len(sc)
  OBVIOUS
<1>2. ExecutorsIn(sc) \in SUBSET (1 .. n) /\ IsFiniteSet(1 .. n)
  BY <1>1, FS_Interval DEF ExecutorsIn
<1>3. IsFiniteSet(ExecutorsIn(sc))
  BY <1>2, FS_Subset
<1>4. Cardinality(ExecutorsIn(sc)) \in Nat
  BY <1>3, FS_CardinalityType
<1>5. ExecutorsIn(sc) \subseteq Nat
  BY <1>2
<1> QED
  BY <1>1, <1>2, <1>3, <1>4, <1>5, PlaceType

\* Opening an executor.
LEMMA AlignedPush ==
  ASSUME NEW sc \in Seq(Scope), NEW ex \in Seq(Executors), NEW co \in Seq(Connection),
         Aligned(sc, ex, co),
         NEW x \in Scope, IsExecutor(x), x.id \in Executors,
         NEW c \in Connection, c.id = x.id,
         c.sub # 0 => \E g \in DOMAIN sc : OpenSub(sc[g], c.sub)
  PROVE  Aligned(Append(sc, x), Append(ex, x.id), Append(co, c))
<1> DEFINE H == ExecutorsIn(sc)
           b == Len(co) - Len(ex)
           t == Append(sc, x)
           e == Append(ex, x.id)
           d == Append(co, c)
<1>1. PICK n \in Nat, l \in Nat, m \in Nat : n = Len(sc) /\ l = Len(ex) /\ m = Len(co)
  OBVIOUS
<1>2. /\ Len(t) = n + 1 /\ DOMAIN t = 1 .. n + 1 /\ DOMAIN sc = 1 .. n /\ t[n + 1] = x
      /\ \A i \in 1 .. n : t[i] = sc[i]
  BY <1>1
<1>3. Len(e) = l + 1 /\ e[l + 1] = x.id /\ \A k \in 1 .. l : e[k] = ex[k]
  BY <1>1
<1>4. Len(d) = m + 1 /\ d[m + 1] = c /\ \A k \in 1 .. m : d[k] = co[k]
  BY <1>1
<1>5. /\ l = Cardinality(H) /\ (b = 0 \/ (b = 1 /\ co[1].id = 0 /\ co[1].sub = 0))
      /\ \A k \in 1 .. l : \E i \in H : PlaceIn(H, i) = k
      /\ \A i \in H :
           /\ ex[PlaceIn(H, i)] = sc[i].id
           /\ co[b + PlaceIn(H, i)].id = sc[i].id
           /\ co[b + PlaceIn(H, i)].sub # 0
                => \E g \in DOMAIN sc : g < i /\ OpenSub(sc[g], co[b + PlaceIn(H, i)].sub)
  BY <1>1 DEF Aligned
<1>6. /\ IsFiniteSet(H) /\ H \subseteq Nat /\ H \subseteq 1 .. n
      /\ \A i \in H : PlaceIn(H, i) \in 1 .. l
  BY <1>1, <1>5, ExecutorsFinite
<1>7. b = m - l /\ b \in {0, 1} /\ Len(d) - Len(e) = b /\ b + l = m
  BY <1>1, <1>3, <1>4, <1>5
<1>8. ExecutorsIn(t) = H \cup {n + 1}
  BY <1>2 DEF ExecutorsIn
<1> HIDE DEF b, t, e, d, H
<1> DEFINE G == H \cup {n + 1}
<1>9. /\ n + 1 \notin H /\ Cardinality(G) = l + 1 /\ PlaceIn(G, n + 1) = l + 1
      /\ \A i \in H : PlaceIn(G, i) = PlaceIn(H, i)
  <2>1. \A j \in H : j < n + 1
    BY <1>6
  <2>2. n + 1 \in Nat /\ IsFiniteSet(H) /\ H \subseteq Nat
    BY <1>1, <1>6
  <2>3. PICK p : p = n + 1
    OBVIOUS
  <2>4. /\ p \notin H /\ Cardinality(H \cup {p}) = Cardinality(H) + 1
        /\ \A i \in H : PlaceIn(H \cup {p}, i) = PlaceIn(H, i)
        /\ PlaceIn(H \cup {p}, p) = Cardinality(H) + 1
    <3>1. p \in Nat /\ \A j \in H : j < p
      BY <2>1, <2>2, <2>3
    <3> HIDE <2>3
    <3> QED
      BY <2>2, <3>1, PlaceAbove
  <2> QED
    BY <1>5, <2>3, <2>4
<1> HIDE DEF G
<1>10. \A i \in G : i \in H \/ i = n + 1
  BY DEF G
<1>11. n + 1 \in G /\ \A i \in H : i \in G
  BY DEF G
<1>12. \A k \in 1 .. l + 1 : \E i \in G : PlaceIn(G, i) = k
  <2>1. \A k \in 1 .. l + 1 : k \in 1 .. l \/ k = l + 1
    BY <1>1
  <2> QED
    BY <1>5, <1>9, <1>11, <2>1
<1>13. ASSUME NEW i \in H
       PROVE  /\ e[PlaceIn(G, i)] = t[i].id
              /\ d[b + PlaceIn(G, i)].id = t[i].id
              /\ d[b + PlaceIn(G, i)].sub # 0
                   => \E g \in DOMAIN t : g < i /\ OpenSub(t[g], d[b + PlaceIn(G, i)].sub)
  <2>1. PICK k \in 1 .. l : k = PlaceIn(H, i) /\ PlaceIn(G, i) = k
    BY <1>6, <1>9
  <2>2. b + k \in 1 .. m
    BY <1>7, <2>1
  <2>3. e[k] = ex[k] /\ d[b + k] = co[b + k] /\ t[i] = sc[i]
    BY <1>2, <1>3, <1>4, <1>6, <2>1, <2>2
  <2>4. \A g \in DOMAIN sc : g \in DOMAIN t /\ t[g] = sc[g]
    BY <1>2
  <2> QED
    BY <1>5, <2>1, <2>3, <2>4
<1>14. /\ e[l + 1] = t[n + 1].id /\ d[b + (l + 1)].id = t[n + 1].id
       /\ d[b + (l + 1)].sub # 0
            => \E g \in DOMAIN t : g < n + 1 /\ OpenSub(t[g], d[b + (l + 1)].sub)
  <2>1. b + (l + 1) = m + 1
    BY <1>7
  <2>2. \A g \in DOMAIN sc : g \in DOMAIN t /\ t[g] = sc[g] /\ g < n + 1
    BY <1>2
  <2> QED
    BY <1>2, <1>3, <1>4, <2>1, <2>2
<1>15. b = 0 \/ (b = 1 /\ d[1].id = 0 /\ d[1].sub = 0)
  <2>1. b = 1 => 1 \in 1 .. m
    BY <1>7
  <2> QED
    BY <1>4, <1>5, <2>1
<1>16. \A i \in G :
         /\ e[PlaceIn(G, i)] = t[i].id
         /\ d[b + PlaceIn(G, i)].id = t[i].id
         /\ d[b + PlaceIn(G, i)].sub # 0
              => \E g \in DOMAIN t : g < i /\ OpenSub(t[g], d[b + PlaceIn(G, i)].sub)
  BY <1>9, <1>10, <1>13, <1>14
<1>17. Aligned(t, e, d)
  BY <1>3, <1>7, <1>8, <1>9, <1>12, <1>15, <1>16 DEF Aligned, G
<1> QED
  BY <1>17 DEF t, e, d

\* Closing the executor on top.
LEMMA AlignedPop ==
  ASSUME NEW sc \in Seq(Scope), NEW ex \in Seq(Executors), NEW co \in Seq(Connection),
         Aligned(sc, ex, co), sc # <<>>, IsExecutor(Last(sc))
  PROVE  /\ Aligned(Pop(sc), Pop(ex), Pop(co))
         /\ ex # <<>> /\ co # <<>> /\ Last(co).id = Last(sc).id
<1> DEFINE H == ExecutorsIn(sc)
           b == Len(co) - Len(ex)
           t == Pop(sc)
           e == Pop(ex)
           d == Pop(co)
<1>1. PICK n \in Nat, l \in Nat, m \in Nat : n = Len(sc) /\ l = Len(ex) /\ m = Len(co) /\ n > 0
  BY EmptySeq
<1>2. /\ DOMAIN t = 1 .. n - 1 /\ DOMAIN sc = 1 .. n
      /\ \A i \in 1 .. n - 1 : t[i] = sc[i]
  BY <1>1 DEF Pop
<1>3. /\ l = Cardinality(H) /\ (b = 0 \/ (b = 1 /\ co[1].id = 0 /\ co[1].sub = 0))
      /\ \A k \in 1 .. l : \E i \in H : PlaceIn(H, i) = k
      /\ \A i \in H :
           /\ ex[PlaceIn(H, i)] = sc[i].id
           /\ co[b + PlaceIn(H, i)].id = sc[i].id
           /\ co[b + PlaceIn(H, i)].sub # 0
                => \E g \in DOMAIN sc : g < i /\ OpenSub(sc[g], co[b + PlaceIn(H, i)].sub)
  BY <1>1 DEF Aligned
<1>4. /\ IsFiniteSet(H) /\ H \subseteq Nat /\ H \subseteq 1 .. n
      /\ \A i \in H : PlaceIn(H, i) \in 1 .. l
  BY <1>1, <1>3, ExecutorsFinite
<1>5. n \in H
  BY <1>1, <1>2 DEF ExecutorsIn, Last
<1>6. ExecutorsIn(t) = H \ {n}
  <2>1. \A i \in 1 .. n : (i \in 1 .. n - 1 <=> i # n)
    BY <1>1
  <2> QED
    BY <1>2, <2>1 DEF ExecutorsIn
<1> HIDE DEF t, H
<1> DEFINE G == H \ {n}
<1>7. /\ IsFiniteSet(G) /\ H = G \cup {n}
      /\ Cardinality(H) = Cardinality(G) + 1 /\ PlaceIn(H, n) = Cardinality(G) + 1
      /\ \A i \in G : PlaceIn(H, i) = PlaceIn(G, i)
      /\ Cardinality(G) \in Nat
  <2>1. G \in SUBSET H
    OBVIOUS
  <2>2. IsFiniteSet(G) /\ H = G \cup {n}
    BY <1>4, <1>5, <2>1, FS_Subset
  <2>3. G \subseteq Nat /\ \A j \in G : j < n
    <3>1. \A j \in 1 .. n : j \in Nat /\ (j # n => j < n)
      OBVIOUS
    <3> QED
      BY <1>4, <3>1
  <2> HIDE DEF G
  <2>4. Cardinality(G) \in Nat
    BY <2>2, FS_CardinalityType
  <2> QED
    BY <2>2, <2>3, <2>4, PlaceAbove
<1>8. l > 0 /\ l - 1 = Cardinality(G) /\ PlaceIn(H, n) = l
  BY <1>3, <1>7
<1>9. b = m - l /\ b \in {0, 1} /\ b + l = m /\ m > 0
  BY <1>1, <1>3, <1>8
<1>10. Len(e) = l - 1 /\ \A k \in 1 .. l - 1 : e[k] = ex[k]
  BY <1>1, <1>8 DEF Pop
<1>11. Len(d) = m - 1 /\ \A k \in 1 .. m - 1 : d[k] = co[k]
  BY <1>1, <1>9 DEF Pop
<1>12. Len(d) - Len(e) = b
  BY <1>9, <1>10, <1>11
<1> HIDE DEF b, e, d, G
<1>13. \A i \in G : i \in H /\ i \in 1 .. n - 1
  <2>1. \A i \in 1 .. n : i # n => i \in 1 .. n - 1
    BY <1>1
  <2> QED
    BY <1>4, <2>1 DEF G
<1>14. \A k \in 1 .. l - 1 : \E i \in G : PlaceIn(G, i) = k
  <2> SUFFICES ASSUME NEW k \in 1 .. l - 1 PROVE \E i \in G : PlaceIn(G, i) = k
    OBVIOUS
  <2>1. k \in 1 .. l /\ k # l
    BY <1>1
  <2>2. PICK i \in H : PlaceIn(H, i) = k
    BY <1>3, <2>1
  <2>3. i \in G
    BY <1>8, <2>1, <2>2 DEF G
  <2> QED
    BY <1>7, <2>2, <2>3
<1>15. ASSUME NEW i \in G
       PROVE  /\ e[PlaceIn(G, i)] = t[i].id
              /\ d[b + PlaceIn(G, i)].id = t[i].id
              /\ d[b + PlaceIn(G, i)].sub # 0
                   => \E g \in DOMAIN t : g < i /\ OpenSub(t[g], d[b + PlaceIn(G, i)].sub)
  <2>1. i \in H /\ i \in 1 .. n - 1 /\ t[i] = sc[i]
    BY <1>2, <1>13
  <2>2. PlaceIn(G, i) \in 1 .. Cardinality(G)
    BY <1>4, <1>7, <1>13, PlaceType
  <2>3. PICK k \in 1 .. l - 1 : k = PlaceIn(H, i) /\ PlaceIn(G, i) = k
    BY <1>7, <1>8, <2>2
  <2>4. b + k \in 1 .. m - 1
    BY <1>9, <2>3
  <2>5. e[k] = ex[k] /\ d[b + k] = co[b + k]
    BY <1>10, <1>11, <2>3, <2>4
  <2>6. \A g \in DOMAIN sc : g < i => g \in DOMAIN t /\ t[g] = sc[g]
    BY <1>2, <2>1
  <2> QED
    BY <1>3, <2>1, <2>3, <2>5, <2>6
<1>16. b = 0 \/ (b = 1 /\ d[1].id = 0 /\ d[1].sub = 0)
  <2>1. b = 1 => 1 \in 1 .. m - 1
    BY <1>8, <1>9
  <2> QED
    BY <1>3, <1>11, <2>1
<1>17. Aligned(t, e, d)
  BY <1>6, <1>8, <1>10, <1>12, <1>14, <1>15, <1>16 DEF Aligned, G
<1>18. co[m].id = sc[n].id
  BY <1>3, <1>5, <1>8, <1>9
<1>19. ex # <<>> /\ co # <<>>
  BY <1>1, <1>8, <1>9, EmptySeq
<1> QED
  BY <1>1, <1>17, <1>18, <1>19 DEF t, e, d, Last

\* Scopes that are no executors come, go and finish without the executors noticing,
\* so long as the subtransactions below executors stay as they are.
LEMMA AlignedSame ==
  ASSUME NEW sc \in Seq(Scope), NEW t \in Seq(Scope), NEW ex \in Seq(Executors),
         NEW co \in Seq(Connection), Aligned(sc, ex, co),
         ExecutorsIn(t) = ExecutorsIn(sc),
         \A i \in ExecutorsIn(sc) : t[i].id = sc[i].id,
         \A i \in ExecutorsIn(sc), g \in DOMAIN sc : \A s :
           g < i /\ OpenSub(sc[g], s) => g \in DOMAIN t /\ OpenSub(t[g], s)
  PROVE  Aligned(t, ex, co)
BY DEF Aligned
------------------------------------------------------------------------------
\* Subtransactions.

\* nest lists the subtransactions of the scopes sc that are not finished, outermost
\* first.
NestOf(sc, ns) ==
  /\ \A i \in DOMAIN sc : sc[i].kind = "sub" => sc[i].id \in Subs
  /\ \A i, j \in DOMAIN sc :
       i < j /\ sc[i].kind = "sub" /\ sc[j].kind = "sub" => sc[i].id < sc[j].id
  /\ \A k \in DOMAIN ns : \E i \in DOMAIN sc : OpenSub(sc[i], ns[k])
  /\ \A i \in DOMAIN sc : \A s : OpenSub(sc[i], s) => \E k \in DOMAIN ns : ns[k] = s
  /\ \A k, l \in DOMAIN ns : k < l => ns[k] < ns[l]

StackInv ==
  /\ scopes \in Seq(Scope) /\ executors \in Seq(Executors)
  /\ connections \in Seq(Connection) /\ nest \in Seq(Subs)
  /\ mode \in {"run", "unwind"} /\ atomic \in BOOLEAN /\ CurrentMemoryContext = 0
  /\ Aligned(scopes, executors, connections)
  /\ NestOf(scopes, nest)

\* Two scopes are never the same subtransaction.
LEMMA SubsDiffer ==
  ASSUME NEW sc \in Seq(Scope), NEW ns \in Seq(Subs), NestOf(sc, ns),
         NEW i \in DOMAIN sc, NEW j \in DOMAIN sc, NEW s, OpenSub(sc[i], s), OpenSub(sc[j], s)
  PROVE  i = j
<1>1. sc[i].id = s /\ sc[j].id = s /\ sc[i].kind = "sub" /\ sc[j].kind = "sub"
  BY DEF OpenSub
<1>2. s \in Nat
  BY <1>1, BoundsAssumption DEF NestOf, Subs
<1>3. \A n \in Nat : ~(n < n)
  OBVIOUS
<1>4. ~(i < j) /\ ~(j < i)
  BY <1>1, <1>2, <1>3 DEF NestOf
<1>5. i \in Nat /\ j \in Nat
  OBVIOUS
<1> QED
  BY <1>4, <1>5

\* Scopes that are no subtransaction, or one that is over, do not matter to nest.
LEMMA NestPush ==
  ASSUME NEW sc \in Seq(Scope), NEW ns \in Seq(Subs), NestOf(sc, ns),
         NEW x \in Scope, x.kind # "sub"
  PROVE  NestOf(Append(sc, x), ns)
<1> DEFINE t == Append(sc, x)
<1>1. PICK n \in Nat : n = Len(sc)
  OBVIOUS
<1>2. /\ DOMAIN sc = 1 .. n /\ DOMAIN t = 1 .. n + 1 /\ t[n + 1] = x
      /\ \A i \in 1 .. n : t[i] = sc[i]
  BY <1>1
<1> HIDE DEF t
<1>3. \A i \in DOMAIN t : t[i].kind = "sub" => i \in DOMAIN sc /\ t[i] = sc[i]
  BY <1>2
<1>4. \A i \in DOMAIN sc : i \in DOMAIN t /\ t[i] = sc[i]
  BY <1>2
<1>5. /\ \A i \in DOMAIN t : t[i].kind = "sub" => t[i].id \in Subs
      /\ \A i, j \in DOMAIN t :
           i < j /\ t[i].kind = "sub" /\ t[j].kind = "sub" => t[i].id < t[j].id
  BY <1>3 DEF NestOf
<1>6. \A k \in DOMAIN ns : \E i \in DOMAIN t : OpenSub(t[i], ns[k])
  BY <1>4 DEF NestOf
<1>7. \A i \in DOMAIN t : \A s : OpenSub(t[i], s) => \E k \in DOMAIN ns : ns[k] = s
  BY <1>3 DEF NestOf, OpenSub
<1>8. NestOf(t, ns)
  BY <1>5, <1>6, <1>7 DEF NestOf
<1> QED
  BY <1>8 DEF t

LEMMA NestPop ==
  ASSUME NEW sc \in Seq(Scope), NEW ns \in Seq(Subs), NestOf(sc, ns), sc # <<>>,
         Last(sc).kind # "sub" \/ Last(sc).finished
  PROVE  NestOf(Pop(sc), ns)
<1> DEFINE t == Pop(sc)
<1>1. PICK n \in Nat : n = Len(sc) /\ n > 0
  BY EmptySeq
<1>2. /\ DOMAIN sc = 1 .. n /\ DOMAIN t = 1 .. n - 1
      /\ \A i \in 1 .. n - 1 : t[i] = sc[i]
  BY <1>1 DEF Pop
<1> HIDE DEF t
<1>3. \A i \in DOMAIN t : i \in DOMAIN sc /\ t[i] = sc[i]
  BY <1>1, <1>2
<1>4. \A i \in DOMAIN sc : \A s : OpenSub(sc[i], s) => i \in DOMAIN t /\ OpenSub(t[i], s)
  <2> SUFFICES ASSUME NEW i \in DOMAIN sc, NEW s, OpenSub(sc[i], s)
               PROVE  i \in DOMAIN t /\ OpenSub(t[i], s)
    OBVIOUS
  <2>1. i # n
    BY <1>1 DEF OpenSub, Last
  <2>2. i \in 1 .. n - 1
    BY <1>1, <1>2, <2>1
  <2> QED
    BY <1>2, <2>2
<1>5. /\ \A i \in DOMAIN t : t[i].kind = "sub" => t[i].id \in Subs
      /\ \A i, j \in DOMAIN t :
           i < j /\ t[i].kind = "sub" /\ t[j].kind = "sub" => t[i].id < t[j].id
  BY <1>3 DEF NestOf
<1>6. \A k \in DOMAIN ns : \E i \in DOMAIN t : OpenSub(t[i], ns[k])
  BY <1>4 DEF NestOf
<1>7. \A i \in DOMAIN t : \A s : OpenSub(t[i], s) => \E k \in DOMAIN ns : ns[k] = s
  BY <1>3 DEF NestOf
<1>8. NestOf(t, ns)
  BY <1>5, <1>6, <1>7 DEF NestOf
<1> QED
  BY <1>8 DEF t

\* A subtransaction begins inside of all others.
LEMMA NestBegin ==
  ASSUME NEW sc \in Seq(Scope), NEW ns \in Seq(Subs), NestOf(sc, ns),
         NEW x \in Scope, x.kind = "sub", ~x.finished, x.id \in Subs,
         \A i \in DOMAIN sc : sc[i].kind = "sub" => sc[i].id < x.id
  PROVE  NestOf(Append(sc, x), Append(ns, x.id))
<1> DEFINE t == Append(sc, x)
           ms == Append(ns, x.id)
<1>1. PICK n \in Nat, o \in Nat : n = Len(sc) /\ o = Len(ns)
  OBVIOUS
<1>2. /\ DOMAIN sc = 1 .. n /\ DOMAIN t = 1 .. n + 1 /\ t[n + 1] = x
      /\ \A i \in 1 .. n : t[i] = sc[i]
  BY <1>1
<1>3. /\ DOMAIN ns = 1 .. o /\ DOMAIN ms = 1 .. o + 1 /\ ms[o + 1] = x.id
      /\ \A k \in 1 .. o : ms[k] = ns[k]
  BY <1>1
<1> HIDE DEF t, ms
<1>4. \A i \in 1 .. n + 1 : i \in 1 .. n \/ i = n + 1
  BY <1>1
<1>5. \A k \in 1 .. o + 1 : k \in 1 .. o \/ k = o + 1
  BY <1>1
<1>6. n + 1 \in 1 .. n + 1 /\ o + 1 \in 1 .. o + 1
      /\ (\A i \in 1 .. n : i \in 1 .. n + 1 /\ ~(n + 1 < i) /\ ~(n + 1 < n + 1))
      /\ (\A k \in 1 .. o : k \in 1 .. o + 1 /\ ~(o + 1 < k) /\ ~(o + 1 < o + 1))
  BY <1>1
<1>7. \A i \in DOMAIN t : t[i].kind = "sub" => t[i].id \in Subs
  BY <1>2, <1>4 DEF NestOf
<1>8. \A i, j \in DOMAIN t :
        i < j /\ t[i].kind = "sub" /\ t[j].kind = "sub" => t[i].id < t[j].id
  <2> SUFFICES ASSUME NEW i \in 1 .. n + 1, NEW j \in 1 .. n + 1, i < j,
                      t[i].kind = "sub", t[j].kind = "sub"
               PROVE  t[i].id < t[j].id
    BY <1>2
  <2>1. i \in 1 .. n
    BY <1>1
  <2>2. CASE j \in 1 .. n
    BY <1>2, <2>1, <2>2 DEF NestOf
  <2>3. CASE j = n + 1
    BY <1>2, <2>1, <2>3
  <2> QED
    BY <1>4, <2>2, <2>3
<1>9. \A k \in DOMAIN ms : \E i \in DOMAIN t : OpenSub(t[i], ms[k])
  <2>1. OpenSub(t[n + 1], ms[o + 1])
    BY <1>2, <1>3 DEF OpenSub
  <2>2. ASSUME NEW k \in 1 .. o PROVE \E i \in DOMAIN t : OpenSub(t[i], ms[k])
    <3>1. PICK i \in 1 .. n : OpenSub(sc[i], ns[k])
      BY <1>2, <1>3 DEF NestOf
    <3> QED
      BY <1>2, <1>3, <1>6, <3>1
  <2> QED
    BY <1>2, <1>3, <1>5, <1>6, <2>1, <2>2
<1>10. \A i \in DOMAIN t : \A s : OpenSub(t[i], s) => \E k \in DOMAIN ms : ms[k] = s
  <2> SUFFICES ASSUME NEW i \in 1 .. n + 1, NEW s, OpenSub(t[i], s)
               PROVE  \E k \in DOMAIN ms : ms[k] = s
    BY <1>2
  <2>1. CASE i = n + 1
    BY <1>2, <1>3, <1>6, <2>1 DEF OpenSub
  <2>2. CASE i \in 1 .. n
    <3>1. PICK k \in 1 .. o : ns[k] = s
      BY <1>2, <1>3, <2>2 DEF NestOf
    <3> QED
      BY <1>3, <1>6, <3>1
  <2> QED
    BY <1>4, <2>1, <2>2
<1>11. \A k, l \in DOMAIN ms : k < l => ms[k] < ms[l]
  <2> SUFFICES ASSUME NEW k \in 1 .. o + 1, NEW l \in 1 .. o + 1, k < l PROVE ms[k] < ms[l]
    BY <1>3
  <2>1. k \in 1 .. o
    BY <1>1
  <2>2. CASE l \in 1 .. o
    BY <1>3, <2>1, <2>2 DEF NestOf
  <2>3. CASE l = o + 1
    <3>1. PICK i \in DOMAIN sc : OpenSub(sc[i], ns[k])
      BY <1>3, <2>1 DEF NestOf
    <3> QED
      BY <1>3, <2>1, <2>3, <3>1 DEF OpenSub
  <2> QED
    BY <1>5, <2>2, <2>3
<1>12. NestOf(t, ms)
  BY <1>7, <1>8, <1>9, <1>10, <1>11 DEF NestOf
<1> QED
  BY <1>12 DEF t, ms

\* The innermost one ends: in t it is gone, or finished.
LEMMA NestEnd ==
  ASSUME NEW sc \in Seq(Scope), NEW ns \in Seq(Subs), NestOf(sc, ns), ns # <<>>,
         NEW t \in Seq(Scope),
         \A i \in DOMAIN t : i \in DOMAIN sc /\ t[i].kind = sc[i].kind /\ t[i].id = sc[i].id,
         \A i \in DOMAIN t : \A s : OpenSub(t[i], s) => OpenSub(sc[i], s) /\ s # Last(ns),
         \A i \in DOMAIN sc : \A s :
           OpenSub(sc[i], s) /\ s # Last(ns) => i \in DOMAIN t /\ OpenSub(t[i], s)
  PROVE  NestOf(t, Pop(ns))
<1> DEFINE ms == Pop(ns)
<1>1. PICK o \in Nat : o = Len(ns) /\ o > 0
  BY EmptySeq
<1>2. /\ DOMAIN ns = 1 .. o /\ DOMAIN ms = 1 .. o - 1 /\ Last(ns) = ns[o]
      /\ \A k \in 1 .. o - 1 : ms[k] = ns[k]
  BY <1>1 DEF Pop, Last
<1> HIDE DEF ms
<1>3. \A k \in 1 .. o - 1 : k \in 1 .. o /\ k < o /\ o \in 1 .. o
  BY <1>1
<1>4. /\ \A i \in DOMAIN t : t[i].kind = "sub" => t[i].id \in Subs
      /\ \A i, j \in DOMAIN t :
           i < j /\ t[i].kind = "sub" /\ t[j].kind = "sub" => t[i].id < t[j].id
  BY DEF NestOf
<1>5. ASSUME NEW k \in DOMAIN ms PROVE \E i \in DOMAIN t : OpenSub(t[i], ms[k])
  <2>1. k \in DOMAIN ns /\ ms[k] = ns[k] /\ ns[k] < ns[o] /\ ns[k] \in Nat
    BY <1>2, <1>3, BoundsAssumption, SMTT(30) DEF NestOf, Subs
  <2>2. ns[k] # Last(ns)
    BY <1>2, <2>1
  <2>3. PICK i \in DOMAIN sc : OpenSub(sc[i], ns[k])
    BY <2>1 DEF NestOf
  <2> QED
    BY <2>1, <2>2, <2>3
<1>6. ASSUME NEW i \in DOMAIN t, NEW s, OpenSub(t[i], s)
      PROVE  \E k \in DOMAIN ms : ms[k] = s
  <2>1. OpenSub(sc[i], s) /\ s # ns[o] /\ i \in DOMAIN sc
    BY <1>2, <1>6
  <2>2. PICK k \in 1 .. o : ns[k] = s
    BY <1>2, <2>1 DEF NestOf
  <2>3. k \in 1 .. o - 1
    BY <1>1, <2>1, <2>2
  <2> QED
    BY <1>2, <2>2, <2>3
<1>7. \A k, l \in DOMAIN ms : k < l => ms[k] < ms[l]
  BY <1>2, <1>3 DEF NestOf
<1>8. NestOf(t, ms)
  BY <1>4, <1>5, <1>6, <1>7 DEF NestOf
<1> QED
  BY <1>8 DEF ms

\* A subtransaction not finished that nothing is opened in is the innermost one.
LEMMA LastIsInnermost ==
  ASSUME NEW sc \in Seq(Scope), NEW ns \in Seq(Subs), NestOf(sc, ns), sc # <<>>,
         Last(sc).kind = "sub", ~Last(sc).finished
  PROVE  ns # <<>> /\ OpenSub(Last(sc), Last(ns))
<1>1. PICK n \in Nat : n = Len(sc) /\ n > 0
  BY EmptySeq
<1>2. n \in DOMAIN sc /\ Last(sc) = sc[n] /\ OpenSub(sc[n], sc[n].id)
  BY <1>1 DEF Last, OpenSub
<1>3. PICK k \in DOMAIN ns : ns[k] = sc[n].id
  BY <1>2 DEF NestOf
<1>4. PICK o \in Nat : o = Len(ns) /\ o > 0 /\ k \in 1 .. o
  <2>1. k \in 1 .. Len(ns) /\ Len(ns) \in Nat
    OBVIOUS
  <2> QED
    BY <2>1
<1>5. o \in DOMAIN ns /\ Last(ns) = ns[o] /\ ns[o] \in Nat /\ ns[k] \in Nat
  BY <1>4, BoundsAssumption DEF Last, Subs
<1>6. PICK i \in DOMAIN sc : OpenSub(sc[i], ns[o])
  BY <1>5 DEF NestOf
<1>7. i = n \/ i < n
  BY <1>1
<1>8. i < n => ns[o] < ns[k]
  BY <1>2, <1>3, <1>6 DEF NestOf, OpenSub
<1>9. k = o \/ ns[k] < ns[o]
  BY <1>4, <1>5 DEF NestOf
<1>10. OpenSub(sc[n], ns[o])
  BY <1>2, <1>3, <1>5, <1>6, <1>7, <1>8, <1>9
<1>11. ns # <<>>
  BY <1>4, EmptySeq
<1> QED
  BY <1>2, <1>5, <1>10, <1>11
------------------------------------------------------------------------------
\* The stacks, step by step.

\* Whatever is opened in the scope g on, there is no connection above the
\* subtransaction g unless there is an executor.
LEMMA NoneMadeInside ==
  ASSUME StackInv, NEW g \in DOMAIN scopes, NEW s, s # 0, OpenSub(scopes[g], s),
         \A i \in g .. Len(scopes) : ~IsExecutor(scopes[i]), connections # <<>>
  PROVE  connections[Len(connections)].sub # s
<1> DEFINE H == ExecutorsIn(scopes)
<1>1. PICK m \in Nat, l \in Nat : m = Len(connections) /\ l = Len(executors) /\ m > 0
  BY EmptySeq DEF StackInv
<1>2. /\ m - l = 0 \/ (m - l = 1 /\ connections[1].sub = 0)
      /\ \A k \in 1 .. l : \E i \in H : PlaceIn(H, i) = k
      /\ \A i \in H :
           connections[(m - l) + PlaceIn(H, i)].sub # 0
             => \E f \in DOMAIN scopes :
                  f < i /\ OpenSub(scopes[f], connections[(m - l) + PlaceIn(H, i)].sub)
  BY <1>1 DEF StackInv, Aligned
<1> HIDE DEF H
<1>3. CASE l = 0
  BY <1>1, <1>2, <1>3
<1>4. CASE l > 0
  <2>1. PICK i \in H : PlaceIn(H, i) = l
    BY <1>1, <1>2, <1>4
  <2>2. (m - l) + l = m
    BY <1>1
  <2>3. SUFFICES ASSUME connections[m].sub = s PROVE FALSE
    BY <1>1
  <2>4. PICK f \in DOMAIN scopes : f < i /\ OpenSub(scopes[f], s)
    BY <1>2, <2>1, <2>2, <2>3
  <2>5. f = g
    BY <2>4, SubsDiffer DEF StackInv
  <2>6. i \in DOMAIN scopes /\ IsExecutor(scopes[i])
    BY <2>1 DEF H, ExecutorsIn
  <2>7. i \in g .. Len(scopes)
    BY <2>4, <2>5, <2>6 DEF StackInv
  <2> QED
    BY <2>6, <2>7
<1> QED
  BY <1>1, <1>3, <1>4

\* The end of a subtransaction that no executor is open in.
LEMMA EndSubSteps ==
  ASSUME StackInv, NEW g \in DOMAIN scopes, OpenSub(scopes[g], Innermost(nest)),
         \A i \in g .. Len(scopes) : ~IsExecutor(scopes[i]), NEW how, EndSub(how)
  PROVE  /\ nest # <<>> /\ Innermost(nest) = Last(nest)
         /\ nest' = Pop(nest) /\ connections' = connections
         /\ FreePlans({}, plan)
         /\ \E done \in [Tables -> BOOLEAN] : table' = [r \in Tables |->
              IF table[r].by = 0 THEN NoTable
              ELSE [table[r] EXCEPT
                !.gone = @ \/ done[r], !.undone = @ \/ done[r],
                !.sub = IF @ = Last(nest) THEN Innermost(Pop(nest)) ELSE @]]
<1> DEFINE s == Innermost(nest)
<1>1. s = Innermost(nest)
  OBVIOUS
<1>2. nest # <<>> /\ nest' = Pop(nest) /\ s = Last(nest)
  BY <1>1 DEF EndSub, Innermost
<1>3. s # 0
  BY <1>1, BoundsAssumption DEF StackInv, NestOf, OpenSub, Subs
<1>4. PICK n \in 0 .. Len(connections) :
        LET C == {connections[i].id : i \in n + 1 .. Len(connections)}
        IN  /\ \A i \in n + 1 .. Len(connections) : connections[i].sub = s
            /\ connections' = SubSeq(connections, 1, n)
            /\ FreePlans(PlansIn(C), plan)
            /\ table' = [r \in Tables |->
                IF table[r].by = 0 THEN NoTable
                ELSE [table[r] EXCEPT
                  !.gone = @ \/ (how = "aborted" /\ table[r].sub = s) \/ table[r].conn \in C,
                  !.undone = @ \/ (how = "aborted" /\ table[r].sub = s),
                  !.sub = IF @ = s THEN Innermost(Pop(nest)) ELSE @]]
  BY DEF EndSub
<1> HIDE DEF s
<1>5. n = Len(connections)
  <2>1. PICK m \in Nat : m = Len(connections)
    BY DEF StackInv
  <2>2. SUFFICES ASSUME n # m PROVE FALSE
    BY <2>1
  <2>3. m \in n + 1 .. m /\ m > 0
    BY <2>1, <2>2
  <2>4. connections # <<>>
    BY <2>1, <2>3, EmptySeq
  <2>5. connections[m].sub = s
    <3>1. \A i \in n + 1 .. Len(connections) : connections[i].sub = s
      BY <1>4
    <3> QED
      BY <2>1, <2>3, <3>1
  <2> QED
    BY <1>1, <1>3, <2>1, <2>4, <2>5, NoneMadeInside
<1>6. connections' = connections
  <2>1. connections' = SubSeq(connections, 1, Len(connections))
    BY <1>4, <1>5
  <2> QED
    BY <2>1, SubSeqFull DEF StackInv
<1>7. {connections[i].id : i \in n + 1 .. Len(connections)} = {}
  <2>1. PICK m \in Nat : m = Len(connections)
    BY DEF StackInv
  <2>2. m + 1 .. m = {}
    BY <2>1
  <2> QED
    BY <1>5, <2>1, <2>2
<1>8. PlansIn({}) = {}
  BY DEF PlansIn
<1>9. FreePlans({}, plan)
  BY <1>4, <1>7, <1>8
<1>10. \E done \in [Tables -> BOOLEAN] : table' = [r \in Tables |->
         IF table[r].by = 0 THEN NoTable
         ELSE [table[r] EXCEPT
           !.gone = @ \/ done[r], !.undone = @ \/ done[r],
           !.sub = IF @ = Last(nest) THEN Innermost(Pop(nest)) ELSE @]]
  <2> DEFINE done == [r \in Tables |-> how = "aborted" /\ table[r].sub = s]
  <2>1. table' = [r \in Tables |->
          IF table[r].by = 0 THEN NoTable
          ELSE [table[r] EXCEPT
            !.gone = @ \/ done[r], !.undone = @ \/ done[r],
            !.sub = IF @ = Last(nest) THEN Innermost(Pop(nest)) ELSE @]]
    BY <1>2, <1>4, <1>7
  <2>2. done \in [Tables -> BOOLEAN]
    OBVIOUS
  <2> HIDE DEF done
  <2> QED
    BY <2>1, <2>2
<1> QED
  BY <1>1, <1>2, <1>6, <1>9, <1>10

\* Scopes that are no executors, pushed and popped.
LEMMA PushOther ==
  ASSUME NEW sc \in Seq(Scope), NEW x \in Scope, ~IsExecutor(x)
  PROVE  /\ ExecutorsIn(Append(sc, x)) = ExecutorsIn(sc)
         /\ \A i \in DOMAIN sc : i \in DOMAIN Append(sc, x) /\ Append(sc, x)[i] = sc[i]
<1> DEFINE t == Append(sc, x)
<1>1. PICK n \in Nat : n = Len(sc)
  OBVIOUS
<1>2. /\ DOMAIN sc = 1 .. n /\ DOMAIN t = 1 .. n + 1 /\ t[n + 1] = x
      /\ \A i \in 1 .. n : t[i] = sc[i]
  BY <1>1
<1> HIDE DEF t
<1>3. \A i \in 1 .. n + 1 : i \in 1 .. n \/ i = n + 1
  BY <1>1
<1>4. \A i \in 1 .. n : i \in 1 .. n + 1
  BY <1>1
<1>5. ExecutorsIn(t) = ExecutorsIn(sc)
  BY <1>2, <1>3, <1>4 DEF ExecutorsIn
<1> QED
  BY <1>2, <1>4, <1>5 DEF t

LEMMA PopOther ==
  ASSUME NEW sc \in Seq(Scope), sc # <<>>, ~IsExecutor(Last(sc))
  PROVE  /\ ExecutorsIn(Pop(sc)) = ExecutorsIn(sc) /\ Pop(sc) \in Seq(Scope)
         /\ \A i \in DOMAIN Pop(sc) : i \in DOMAIN sc /\ Pop(sc)[i] = sc[i]
         /\ \A i \in DOMAIN sc : i = Len(sc) \/ i \in DOMAIN Pop(sc)
         /\ Len(sc) \in DOMAIN sc /\ Len(sc) \notin DOMAIN Pop(sc)
<1> DEFINE t == Pop(sc)
<1>1. PICK n \in Nat : n = Len(sc) /\ n > 0
  BY EmptySeq
<1>2. /\ DOMAIN sc = 1 .. n /\ DOMAIN t = 1 .. n - 1 /\ t \in Seq(Scope)
      /\ \A i \in 1 .. n - 1 : t[i] = sc[i]
  BY <1>1 DEF Pop
<1> HIDE DEF t
<1>3. \A i \in 1 .. n : i \in 1 .. n - 1 \/ i = n
  BY <1>1
<1>4. (\A i \in 1 .. n - 1 : i \in 1 .. n) /\ n \notin 1 .. n - 1 /\ n \in 1 .. n
  BY <1>1
<1>5. ExecutorsIn(t) = ExecutorsIn(sc)
  <2>1. ~IsExecutor(sc[n])
    BY <1>1 DEF Last
  <2> QED
    BY <1>2, <1>3, <1>4, <2>1 DEF ExecutorsIn
<1> QED
  BY <1>1, <1>2, <1>3, <1>4, <1>5 DEF t

\* A scope that is no executor and no subtransaction.
LEMMA StackEnter ==
  ASSUME StackInv, Enter
  PROVE  StackInv'
<1> DEFINE x == [kind |-> "try", id |-> 0, finished |-> TRUE]
<1>1. /\ scopes' = Append(scopes, x)
      /\ UNCHANGED <<mode, atomic, executors, connections, nest, CurrentMemoryContext>>
  BY DEF Enter, spi
<1>2. x \in Scope /\ x.kind = "try"
  BY BoundsAssumption DEF Scope
<1> HIDE DEF x
<1>3. scopes' \in Seq(Scope) /\ NestOf(scopes', nest)
  BY <1>1, <1>2, NestPush DEF StackInv
<1>4. ExecutorsIn(scopes') = ExecutorsIn(scopes) /\ \A i \in DOMAIN scopes : scopes'[i] = scopes[i]
  BY <1>1, <1>2, PushOther DEF StackInv, IsExecutor
<1>5. Aligned(scopes', executors, connections)
  <2>1. \A i \in ExecutorsIn(scopes) : i \in DOMAIN scopes
    BY DEF ExecutorsIn
  <2>2. \A g \in DOMAIN scopes : g \in DOMAIN scopes'
    BY <1>1, <1>2 DEF StackInv
  <2> QED
    BY <1>3, <1>4, <2>1, <2>2, AlignedSame DEF StackInv
<1> QED
  BY <1>1, <1>3, <1>5 DEF StackInv

LEMMA AlignedUnder ==
  ASSUME NEW sc \in Seq(Scope), NEW ex \in Seq(Executors), NEW co \in Seq(Connection),
         Aligned(sc, ex, co), sc # <<>>, ~IsExecutor(Last(sc))
  PROVE  Aligned(Pop(sc), ex, co) /\ Pop(sc) \in Seq(Scope)
<1>1. PICK n \in Nat : n = Len(sc) /\ DOMAIN sc = 1 .. n
  OBVIOUS
<1>2. /\ ExecutorsIn(Pop(sc)) = ExecutorsIn(sc) /\ Pop(sc) \in Seq(Scope)
      /\ \A i \in DOMAIN Pop(sc) : i \in DOMAIN sc /\ Pop(sc)[i] = sc[i]
      /\ \A i \in DOMAIN sc : i = n \/ i \in DOMAIN Pop(sc)
  BY <1>1, PopOther
<1>3. \A i \in ExecutorsIn(sc) : i \in DOMAIN Pop(sc) /\ i \in DOMAIN sc
  BY <1>2 DEF ExecutorsIn
<1>4. \A i \in ExecutorsIn(sc), g \in DOMAIN sc : g < i => g # n
  BY <1>1, <1>3
<1> QED
  BY <1>2, <1>3, <1>4, AlignedSame

LEMMA PopSeq ==
  ASSUME NEW S, NEW q \in Seq(S), q # <<>>
  PROVE  Pop(q) \in Seq(S)
<1>1. PICK n \in Nat : n = Len(q) /\ n > 0
  BY EmptySeq
<1> QED
  BY <1>1 DEF Pop

LEMMA StackLeaveTry ==
  ASSUME StackInv, LeaveTry
  PROVE  StackInv'
<1>1. /\ scopes # <<>> /\ Last(scopes).kind = "try" /\ scopes' = Pop(scopes) /\ mode' = "run"
      /\ UNCHANGED <<atomic, executors, connections, nest, CurrentMemoryContext>>
  BY DEF LeaveTry, Inside, Top, spi
<1>2. ~IsExecutor(Last(scopes))
  BY <1>1 DEF IsExecutor
<1>3. NestOf(scopes', nest)
  BY <1>1, NestPop DEF StackInv
<1>4. Aligned(scopes', executors, connections) /\ scopes' \in Seq(Scope)
  BY <1>1, <1>2, AlignedUnder DEF StackInv
<1> QED
  BY <1>1, <1>3, <1>4 DEF StackInv

LEMMA StackBeginSub ==
  ASSUME StackInv, NEW s \in Subs, BeginSub(s)
  PROVE  StackInv'
<1> DEFINE x == [kind |-> "sub", id |-> s, finished |-> FALSE]
<1>1. /\ scopes' = Append(scopes, x) /\ nest' = Append(nest, s)
      /\ \A i \in DOMAIN scopes : scopes[i].kind = "sub" => scopes[i].id < s
      /\ UNCHANGED <<mode, atomic, executors, connections, CurrentMemoryContext>>
  BY DEF BeginSub
<1>2. x \in Scope /\ x.kind = "sub" /\ x.id = s /\ ~x.finished
  BY BoundsAssumption DEF Scope, Subs
<1> HIDE DEF x
<1>3. scopes' \in Seq(Scope) /\ nest' \in Seq(Subs) /\ NestOf(scopes', nest')
  <2>1. nest' = Append(nest, x.id) /\ x.id \in Subs
        /\ \A i \in DOMAIN scopes : scopes[i].kind = "sub" => scopes[i].id < x.id
    BY <1>1, <1>2
  <2>2. scopes' \in Seq(Scope) /\ nest' \in Seq(Subs)
    BY <1>1, <1>2 DEF StackInv
  <2>3. NestOf(Append(scopes, x), Append(nest, x.id))
    BY <1>2, <2>1, NestBegin DEF StackInv
  <2> QED
    BY <1>1, <2>1, <2>2, <2>3
<1>4. /\ ExecutorsIn(scopes') = ExecutorsIn(scopes)
      /\ \A i \in DOMAIN scopes : i \in DOMAIN scopes' /\ scopes'[i] = scopes[i]
  BY <1>1, <1>2, PushOther DEF StackInv, IsExecutor
<1>5. \A i \in ExecutorsIn(scopes) : i \in DOMAIN scopes
  BY DEF ExecutorsIn
<1>6. Aligned(scopes', executors, connections)
  BY <1>3, <1>4, <1>5, AlignedSame DEF StackInv
<1> QED
  BY <1>1, <1>3, <1>6 DEF StackInv

\* A scope that is finished.
LEMMA FinishScope ==
  ASSUME NEW sc \in Seq(Scope), NEW g \in DOMAIN sc
  PROVE  LET t == [sc EXCEPT ![g].finished = TRUE] IN
         /\ t \in Seq(Scope) /\ DOMAIN t = DOMAIN sc
         /\ t[g].kind = sc[g].kind /\ t[g].id = sc[g].id /\ t[g].finished
         /\ \A i \in DOMAIN sc : i # g => t[i] = sc[i]
         /\ ExecutorsIn(t) = ExecutorsIn(sc)
<1> DEFINE x == [sc[g] EXCEPT !.finished = TRUE]
           t == [sc EXCEPT ![g].finished = TRUE]
<1>1. sc[g] \in Scope
  OBVIOUS
<1>2. x \in Scope /\ x.kind = sc[g].kind /\ x.id = sc[g].id /\ x.finished
  BY <1>1 DEF Scope
<1>3. t = [sc EXCEPT ![g] = x]
  OBVIOUS
<1> HIDE DEF x, t
<1>4. t \in Seq(Scope) /\ DOMAIN t = DOMAIN sc /\ t[g] = x
      /\ \A i \in DOMAIN sc : i # g => t[i] = sc[i]
  BY <1>2, <1>3, ExceptSeq
<1>5. ExecutorsIn(t) = ExecutorsIn(sc)
  BY <1>2, <1>4 DEF ExecutorsIn, IsExecutor
<1> QED
  BY <1>2, <1>4, <1>5 DEF t

LEMMA ExecutorBelow ==
  ASSUME NEW sc \in Seq(Scope), NEW g \in DOMAIN sc,
         \A i \in g .. Len(sc) : ~IsExecutor(sc[i]), NEW i \in ExecutorsIn(sc)
  PROVE  i < g /\ \A f \in DOMAIN sc : f < i => f # g
<1>1. PICK n \in Nat : n = Len(sc)
  OBVIOUS
<1>2. i \in DOMAIN sc /\ IsExecutor(sc[i])
  BY DEF ExecutorsIn
<1>3. i \in 1 .. n /\ g \in 1 .. n
  BY <1>1, <1>2
<1>4. i \notin g .. n
  BY <1>1, <1>2
<1>5. i < g
  BY <1>3, <1>4
<1> QED
  BY <1>3, <1>5

\* commit() or rollback() by hand.
LEMMA StackFinishSub ==
  ASSUME StackInv, "finish late" \in Duties, NEW g \in DOMAIN scopes, NEW how,
         FinishSub(g, how)
  PROVE  /\ StackInv' /\ OpenSub(scopes[g], Innermost(nest))
         /\ \A i \in g .. Len(scopes) : ~IsExecutor(scopes[i])
<1>1. /\ OpenSub(scopes[g], Innermost(nest)) /\ EndSub(how)
      /\ \A i \in g .. Len(scopes) : ~IsExecutor(scopes[i])
      /\ scopes' = [scopes EXCEPT ![g].finished = TRUE]
      /\ UNCHANGED <<mode, atomic, executors, CurrentMemoryContext>>
  BY DEF FinishSub, OpenSub
<1>2. nest # <<>> /\ nest' = Pop(nest) /\ connections' = connections
      /\ Innermost(nest) = Last(nest)
  BY <1>1, EndSubSteps
<1>4. scopes \in Seq(Scope)
  BY DEF StackInv
<1>6. /\ scopes' \in Seq(Scope) /\ DOMAIN scopes' = DOMAIN scopes
      /\ scopes'[g].kind = scopes[g].kind /\ scopes'[g].id = scopes[g].id
      /\ scopes'[g].finished
      /\ \A i \in DOMAIN scopes : i # g => scopes'[i] = scopes[i]
      /\ ExecutorsIn(scopes') = ExecutorsIn(scopes)
  BY <1>1, <1>4, FinishScope
<1>7. /\ ExecutorsIn(scopes') = ExecutorsIn(scopes)
      /\ \A i \in ExecutorsIn(scopes) : i \in DOMAIN scopes
      /\ \A i \in DOMAIN scopes :
           scopes'[i].id = scopes[i].id /\ scopes'[i].kind = scopes[i].kind
  BY <1>6 DEF ExecutorsIn
<1>8. Aligned(scopes', executors, connections)
  <2>1. ASSUME NEW i \in ExecutorsIn(scopes), NEW f \in DOMAIN scopes, NEW s, f < i,
               OpenSub(scopes[f], s)
        PROVE  f \in DOMAIN scopes' /\ OpenSub(scopes'[f], s)
    <3>1. f # g
      BY <1>1, <1>4, <2>1, ExecutorBelow
    <3> QED
      BY <1>6, <2>1, <3>1
  <2> QED
    BY <1>6, <1>7, <2>1, AlignedSame DEF StackInv
<1>9. NestOf(scopes', nest')
  <2>1. \A i \in DOMAIN scopes' : \A s :
          OpenSub(scopes'[i], s) => OpenSub(scopes[i], s) /\ s # Last(nest)
    <3> SUFFICES ASSUME NEW i \in DOMAIN scopes, NEW s, OpenSub(scopes'[i], s)
                 PROVE  OpenSub(scopes[i], s) /\ s # Last(nest)
      BY <1>6
    <3>1. i # g
      BY <1>6 DEF OpenSub
    <3>2. OpenSub(scopes[i], s)
      BY <1>6, <3>1
    <3>3. s # Last(nest)
      BY <1>1, <1>2, <3>1, <3>2, SubsDiffer DEF StackInv
    <3> QED
      BY <3>2, <3>3
  <2>2. \A i \in DOMAIN scopes : \A s :
          OpenSub(scopes[i], s) /\ s # Last(nest) => i \in DOMAIN scopes' /\ OpenSub(scopes'[i], s)
    BY <1>1, <1>2, <1>6 DEF OpenSub
  <2> QED
    BY <1>2, <1>6, <1>7, <2>1, <2>2, NestEnd DEF StackInv
<1>10. nest' \in Seq(Subs)
  BY <1>2, PopSeq DEF StackInv
<1> QED
  BY <1>1, <1>2, <1>6, <1>8, <1>9, <1>10 DEF StackInv

\* The destructor of internal_subtransaction.
LEMMA StackLeaveSub ==
  ASSUME StackInv, NEW how, LeaveSub(how)
  PROVE  /\ StackInv'
         /\ \/ UNCHANGED <<prepared, table>>
            \/ /\ EndSub(how) /\ Len(scopes) \in DOMAIN scopes
               /\ OpenSub(scopes[Len(scopes)], Innermost(nest))
               /\ \A i \in Len(scopes) .. Len(scopes) : ~IsExecutor(scopes[i])
<1>1. /\ scopes # <<>> /\ Last(scopes).kind = "sub" /\ scopes' = Pop(scopes)
      /\ UNCHANGED <<mode, atomic, executors, CurrentMemoryContext>>
      /\ IF Last(scopes).finished THEN UNCHANGED <<connections, nest, prepared, table>>
         ELSE EndSub(how)
  BY DEF LeaveSub, Inside, Top, spi
<1>2. ~IsExecutor(Last(scopes))
  BY <1>1 DEF IsExecutor
<1>3. Aligned(scopes', executors, connections) /\ scopes' \in Seq(Scope)
  BY <1>1, <1>2, AlignedUnder DEF StackInv
<1>4. CASE Last(scopes).finished
  <2>1. NestOf(scopes', nest)
    BY <1>1, <1>4, NestPop DEF StackInv
  <2> QED
    BY <1>1, <1>3, <1>4, <2>1 DEF StackInv
<1>5. CASE ~Last(scopes).finished
  <2>1. nest # <<>> /\ OpenSub(Last(scopes), Last(nest)) /\ EndSub(how)
    BY <1>1, <1>5, LastIsInnermost DEF StackInv
  <2>2. PICK n : n = Len(scopes)
    OBVIOUS
  <2>3. /\ n \in DOMAIN scopes /\ Last(scopes) = scopes[n]
        /\ \A i \in DOMAIN scopes' : i \in DOMAIN scopes /\ scopes'[i] = scopes[i]
        /\ \A i \in DOMAIN scopes : i = n \/ i \in DOMAIN scopes'
        /\ n \notin DOMAIN scopes'
    BY <1>1, <1>2, <2>2, PopOther DEF StackInv, Last
  <2>4. OpenSub(scopes[n], Last(nest)) /\ Innermost(nest) = Last(nest)
    BY <2>1, <2>3 DEF Innermost
  <2>5. \A i \in n .. n : ~IsExecutor(scopes[i])
    <3>1. n .. n = {n}
      BY <2>3
    <3> QED
      BY <1>2, <2>3, <3>1
  <2>6. nest' = Pop(nest) /\ connections' = connections
    BY <2>1, <2>2, <2>3, <2>4, <2>5, EndSubSteps
  <2>7. NestOf(scopes', nest')
    <3>1. \A i \in DOMAIN scopes' : \A s :
            OpenSub(scopes'[i], s) => OpenSub(scopes[i], s) /\ s # Last(nest)
      BY <2>3, <2>4, SubsDiffer DEF StackInv
    <3>2. \A i \in DOMAIN scopes : \A s :
            OpenSub(scopes[i], s) /\ s # Last(nest)
              => i \in DOMAIN scopes' /\ OpenSub(scopes'[i], s)
      BY <2>3, <2>4 DEF OpenSub
    <3> QED
      BY <1>3, <2>1, <2>3, <2>6, <3>1, <3>2, NestEnd DEF StackInv
  <2>8. nest' \in Seq(Subs)
    BY <2>1, <2>6, PopSeq DEF StackInv
  <2>9. StackInv'
    BY <1>1, <1>3, <2>6, <2>7, <2>8 DEF StackInv
  <2> QED
    BY <2>1, <2>2, <2>3, <2>4, <2>5, <2>9
<1> QED
  BY <1>4, <1>5

\* spi_executor's constructor: the connection knows the subtransaction it is in.
LEMMA StackOpen ==
  ASSUME StackInv, NEW e \in Executors, NEW kind \in {"executor", "nonatomic"},
         NEW isAtomic \in BOOLEAN, Open(e, kind, isAtomic)
  PROVE  StackInv'
<1> DEFINE x == [kind |-> kind, id |-> e, finished |-> kind = "executor"]
           c == [id |-> e, sub |-> Innermost(nest), atomic |-> isAtomic]
<1>1. /\ scopes' = Append(scopes, x) /\ connections' = Append(connections, c)
      /\ executors' = Append(executors, e)
      /\ UNCHANGED <<mode, atomic, nest, CurrentMemoryContext>>
  BY DEF Open, Connect
<1>2. x \in Scope /\ IsExecutor(x) /\ x.id = e /\ x.kind # "sub"
  <2>1. e \in 0 .. MaxExecutors + MaxSubs /\ (kind = "executor") \in BOOLEAN
    BY BoundsAssumption DEF Executors
  <2> QED
    BY <2>1 DEF Scope, IsExecutor
<1>3. Innermost(nest) \in 0 .. MaxSubs
      /\ (Innermost(nest) # 0 => \E g \in DOMAIN scopes : OpenSub(scopes[g], Innermost(nest)))
  <2>1. CASE nest = <<>>
    BY <2>1, BoundsAssumption DEF Innermost
  <2>2. CASE nest # <<>>
    <3>1. PICK k \in Nat : k = Len(nest) /\ k > 0
      BY <2>2, EmptySeq DEF StackInv
    <3>2. k \in DOMAIN nest /\ Innermost(nest) = nest[k] /\ nest[k] \in Subs
      BY <2>2, <3>1 DEF StackInv, Innermost, Last
    <3> QED
      BY <3>2, BoundsAssumption DEF StackInv, NestOf, Subs
  <2> QED
    BY <2>1, <2>2
<1>4. c \in Connection /\ c.id = e /\ c.sub = Innermost(nest)
  <2>1. e \in 0 .. MaxExecutors
    BY BoundsAssumption DEF Executors
  <2> QED
    BY <1>3, <2>1 DEF Connection
<1> HIDE DEF x, c
<1>5. scopes' \in Seq(Scope) /\ connections' \in Seq(Connection) /\ executors' \in Seq(Executors)
  BY <1>1, <1>2, <1>4 DEF StackInv
<1>6. Aligned(Append(scopes, x), Append(executors, e), Append(connections, c))
  <2>1. /\ x.id \in Executors /\ c.id = x.id
        /\ (c.sub # 0 => \E g \in DOMAIN scopes : OpenSub(scopes[g], c.sub))
    BY <1>2, <1>3, <1>4
  <2>2. Aligned(Append(scopes, x), Append(executors, x.id), Append(connections, c))
    BY <1>2, <1>4, <2>1, AlignedPush DEF StackInv
  <2> QED
    BY <1>2, <2>2
<1>7. NestOf(scopes', nest)
  BY <1>1, <1>2, NestPush DEF StackInv
<1> QED
  BY <1>1, <1>5, <1>6, <1>7 DEF StackInv

\* The executor that checks whether the function is atomic is on top.
LEMMA StackCheckAtomic ==
  ASSUME StackInv, CheckAtomic
  PROVE  StackInv'
<1>1. /\ scopes # <<>> /\ IsExecutor(Last(scopes)) /\ ~Last(scopes).finished
      /\ UNCHANGED <<atomic, executors, connections, nest, CurrentMemoryContext>>
      /\ \/ mode' = "unwind" /\ scopes' = scopes
         \/ scopes' = [scopes EXCEPT ![Len(scopes)].finished = TRUE] /\ mode' = mode
  BY DEF CheckAtomic, Built, Inside, Top, Raise, spi
<1>2. CASE scopes' = scopes
  BY <1>1, <1>2 DEF StackInv
<1>3. CASE scopes' = [scopes EXCEPT ![Len(scopes)].finished = TRUE] /\ mode' = mode
  <2>1. PICK n : n = Len(scopes)
    OBVIOUS
  <2>2. n \in DOMAIN scopes
    <3>1. Len(scopes) \in Nat /\ Len(scopes) > 0
      BY <1>1, EmptySeq DEF StackInv
    <3> QED
      BY <2>1, <3>1 DEF StackInv
  <2>3. scopes \in Seq(Scope) /\ scopes' = [scopes EXCEPT ![n].finished = TRUE]
    BY <1>3, <2>1 DEF StackInv
  <2>4. /\ scopes' \in Seq(Scope) /\ DOMAIN scopes' = DOMAIN scopes
        /\ scopes'[n].kind = scopes[n].kind /\ scopes'[n].id = scopes[n].id
        /\ \A i \in DOMAIN scopes : i # n => scopes'[i] = scopes[i]
        /\ ExecutorsIn(scopes') = ExecutorsIn(scopes)
    BY <2>2, <2>3, FinishScope
  <2>5. scopes[n].kind # "sub"
    BY <1>1, <2>1 DEF IsExecutor, Last
  <2>6. /\ \A i \in DOMAIN scopes : scopes'[i].kind = scopes[i].kind
                                    /\ scopes'[i].id = scopes[i].id
        /\ \A i \in DOMAIN scopes : \A s : OpenSub(scopes'[i], s) <=> OpenSub(scopes[i], s)
    BY <2>4, <2>5 DEF OpenSub
  <2>7. \A i \in ExecutorsIn(scopes) : i \in DOMAIN scopes
    BY DEF ExecutorsIn
  <2>8. Aligned(scopes', executors, connections)
    BY <2>4, <2>6, <2>7, AlignedSame DEF StackInv
  <2>9. NestOf(scopes', nest)
    BY <2>4, <2>6 DEF StackInv, NestOf
  <2> QED
    BY <1>1, <1>3, <2>4, <2>8, <2>9 DEF StackInv
<1> QED
  BY <1>1, <1>2, <1>3

\* The destructor of an executor finishes its own connection.
LEMMA StackClose ==
  ASSUME StackInv, Close
  PROVE  StackInv' /\ Finished = {Top.id}
<1>1. /\ scopes # <<>> /\ IsExecutor(Last(scopes))
      /\ connections' = IF Finished = {} THEN <<>> ELSE Pop(connections)
      /\ CurrentMemoryContext' = IF Finished = {} THEN CurrentMemoryContext ELSE 0
      /\ executors' = Pop(executors) /\ scopes' = Pop(scopes)
      /\ UNCHANGED <<mode, atomic, nest>>
  BY DEF Close, Inside, Top
<1>2. /\ Aligned(Pop(scopes), Pop(executors), Pop(connections))
      /\ executors # <<>> /\ connections # <<>> /\ Last(connections).id = Last(scopes).id
  BY <1>1, AlignedPop DEF StackInv
<1>3. Finished = {Top.id}
  BY <1>2 DEF Finished, Top
<1>4. NestOf(scopes', nest)
  BY <1>1, NestPop DEF StackInv, IsExecutor
<1>5. connections' = Pop(connections) /\ CurrentMemoryContext' = 0
  BY <1>1, <1>3
<1>6. scopes' \in Seq(Scope) /\ executors' \in Seq(Executors) /\ connections' \in Seq(Connection)
  BY <1>1, <1>2, <1>5, PopSeq DEF StackInv
<1> QED
  BY <1>1, <1>2, <1>3, <1>4, <1>5, <1>6 DEF StackInv

\* The other steps leave the stacks alone.
LEMMA StackSame ==
  ASSUME StackInv, mode' \in {"run", "unwind"},
         UNCHANGED <<scopes, atomic, executors, connections, nest, CurrentMemoryContext>>
  PROVE  StackInv'
BY DEF StackInv

LEMMA StackInit ==
  ASSUME Init
  PROVE  StackInv
<1>1. scopes = <<>> /\ executors = <<>> /\ nest = <<>> /\ mode = "run" /\ atomic \in BOOLEAN
      /\ CurrentMemoryContext = 0
  BY DEF Init
<1>2. /\ connections \in Seq(Connection)
      /\ \/ Len(connections) = 0
         \/ Len(connections) = 1 /\ connections[1].id = 0 /\ connections[1].sub = 0
  <2> DEFINE c == [id |-> 0, sub |-> 0, atomic |-> atomic]
  <2>1. connections = <<>> \/ connections = <<c>>
    BY DEF Init
  <2>2. c \in Connection /\ c.id = 0 /\ c.sub = 0
    BY <1>1, BoundsAssumption DEF Connection
  <2> HIDE DEF c
  <2>3. <<c>> \in Seq(Connection) /\ Len(<<c>>) = 1 /\ <<c>>[1] = c
    BY <2>2
  <2>4. <<>> \in Seq(Connection) /\ Len(<<>>) = 0
    OBVIOUS
  <2>5. CASE connections = <<>>
    BY <2>4, <2>5
  <2>6. CASE connections = <<c>>
    BY <2>2, <2>3, <2>6
  <2> QED
    BY <2>1, <2>5, <2>6
<1>3. ExecutorsIn(scopes) = {} /\ Cardinality(ExecutorsIn(scopes)) = 0
  <2>1. ExecutorsIn(scopes) = {}
    BY <1>1 DEF ExecutorsIn
  <2> QED
    BY <2>1, FS_EmptySet
<1>4. Len(executors) = 0
  BY <1>1
<1>5. Aligned(scopes, executors, connections)
  BY <1>2, <1>3, <1>4 DEF Aligned
<1>6. NestOf(scopes, nest)
  BY <1>1 DEF NestOf
<1> QED
  BY <1>1, <1>2, <1>5, <1>6 DEF StackInv

LEMMA StackNext ==
  ASSUME StackInv, "finish late" \in Duties, [Next]_vars
  PROVE  StackInv'
<1>1. CASE Enter
  BY <1>1, StackEnter
<1>2. CASE LeaveTry
  BY <1>2, StackLeaveTry
<1>3. CASE Caught
  BY <1>3, StackSame DEF Caught, spi
<1>4. CASE Throw
  BY <1>4, StackSame DEF Throw, Raise, spi
<1>5. CASE \E s \in Subs : BeginSub(s)
  BY <1>5, StackBeginSub
<1>6. CASE \E how \in {"committed", "aborted"} : LeaveSub(how)
  BY <1>6, StackLeaveSub
<1>7. CASE \E how \in {"committed", "aborted"} : \E g \in DOMAIN scopes : FinishSub(g, how)
  BY <1>7, StackFinishSub
<1>8. CASE \E e \in Executors, kind \in {"executor", "nonatomic"}, isAtomic \in BOOLEAN :
             Open(e, kind, isAtomic)
  BY <1>8, StackOpen
<1>9. CASE \E e \in Executors : OpenFails(e)
  BY <1>9, StackSame DEF OpenFails, Raise, spi
<1>10. CASE CheckAtomic
  BY <1>10, StackCheckAtomic
<1>11. CASE Close
  BY <1>11, StackClose
<1>12. CASE \E e \in Executors : Refused(e)
  BY <1>12, StackSame DEF Refused, Raise, spi
<1> DEFINE Quiet == UNCHANGED <<scopes, mode, atomic, executors, connections, nest,
                                CurrentMemoryContext>>
<1>13. Quiet => StackInv'
  BY StackSame DEF StackInv
<1>14. CASE \E e \in Executors : EndTransaction(e) \/ \E r \in Tables : Query(e, r)
  <2>1. Quiet
    BY <1>14 DEF EndTransaction, Query, spi
  <2> QED
    BY <1>13, <2>1
<1>15. CASE \E r \in Tables : DropTable(r)
  <2>1. Quiet
    BY <1>15 DEF DropTable, spi
  <2> QED
    BY <1>13, <2>1
<1>16. CASE \E e \in Executors, p \in Plans, m \in Prepared : Prepare(e, p, m)
  <2>1. Quiet
    BY <1>16 DEF Prepare, spi
  <2> QED
    BY <1>13, <2>1
<1>17. CASE \E p \in Plans : Keep(p) \/ Release(p) \/ DestroyPlan(p)
  <2>1. Quiet
    BY <1>17 DEF Keep, Release, DestroyPlan, spi
  <2> QED
    BY <1>13, <2>1
<1>18. CASE \E p \in Plans : UseGone(p)
  BY <1>18, StackSame DEF UseGone, Raise, spi
<1>19. CASE \E p, q \in Plans : MovePlan(p, q)
  <2>1. Quiet
    BY <1>19 DEF MovePlan, spi
  <2> QED
    BY <1>13, <2>1
<1>20. CASE \E e \in Executors, p \in Plans, r \in Tables : QueryPlan(e, p, r)
  <2>1. Quiet
    BY <1>20 DEF QueryPlan, Query, spi
  <2> QED
    BY <1>13, <2>1
<1>21. CASE \E m \in Prepared : FreeReleased(m)
  <2>1. Quiet
    BY <1>21 DEF FreeReleased, spi
  <2> QED
    BY <1>13, <2>1
<1>22. CASE UNCHANGED vars
  <2>1. Quiet
    BY <1>22 DEF vars
  <2> QED
    BY <1>13, <2>1
<1> HIDE DEF Quiet
<1> QED
  BY <1>1, <1>2, <1>3, <1>4, <1>5, <1>6, <1>7, <1>8, <1>9, <1>10, <1>11, <1>12, <1>14, <1>15,
     <1>16, <1>17, <1>18, <1>19, <1>20, <1>21, <1>22 DEF Next

\* An executor's check that it is the current one (executor.hpp:431) speaks for the
\* connection SPI will use, on every level: the end of a scope, or of the subtransaction
\* it was opened in, and an exception out of any of them leave the stack of SPI and
\* that of executor.hpp:103-106 in step.
THEOREM ExecutorsMatchConnections ==
  ASSUME "finish late" \in Duties
  PROVE  Spec => []ConnectionsAreExecutors
<1>1. Init => StackInv
  BY StackInit
<1>2. StackInv /\ [Next]_vars => StackInv'
  BY StackNext
<1>3. StackInv => ConnectionsAreExecutors
  <2> SUFFICES ASSUME StackInv PROVE ConnectionsAreExecutors
    OBVIOUS
  <2>1. InScope = ExecutorsIn(scopes)
    BY DEF InScope, ExecutorsIn
  <2>2. \A i : PlaceIn(InScope, i) = Cardinality({j \in InScope : j <= i})
    BY DEF PlaceIn
  <2> QED
    BY <2>1, <2>2 DEF StackInv, Aligned, ConnectionsAreExecutors
<1> QED
  BY <1>1, <1>2, <1>3, PTL DEF Spec
------------------------------------------------------------------------------
\* Results.

Rows == [by : 0 .. MaxExecutors, conn : 0 .. MaxExecutors, sub : 0 .. MaxSubs,
         gone : BOOLEAN, undone : BOOLEAN]

\* A table is part of the connection of the executor that was asked for it, and only
\* a rollback of its subtransaction has freed it.
Read(t) ==
  /\ t \in [Tables -> Rows]
  /\ \A r \in Tables : t[r].conn = t[r].by /\ (t[r].gone => t[r].undone)

LEMMA InnermostType ==
  ASSUME NEW ns \in Seq(Subs)
  PROVE  Innermost(ns) \in 0 .. MaxSubs
<1>1. CASE ns = <<>>
  BY <1>1, BoundsAssumption DEF Innermost
<1>2. CASE ns # <<>>
  <2>1. PICK k \in Nat : k = Len(ns) /\ k > 0
    BY <1>2, EmptySeq
  <2>2. Innermost(ns) = ns[k] /\ ns[k] \in Subs
    BY <1>2, <2>1 DEF Innermost, Last
  <2> QED
    BY <2>2, BoundsAssumption DEF Subs
<1> QED
  BY <1>1, <1>2

\* The executor on top of its stack has the connection on top of SPI's.
LEMMA TopsMatch ==
  ASSUME StackInv, executors # <<>>
  PROVE  /\ connections # <<>> /\ Last(connections).id = Last(executors)
         /\ Last(executors) \in Executors
<1> DEFINE H == ExecutorsIn(scopes)
<1>1. PICK l \in Nat, m \in Nat : l = Len(executors) /\ m = Len(connections) /\ l > 0
  BY EmptySeq DEF StackInv
<1>2. /\ m - l = 0 \/ m - l = 1
      /\ \A k \in 1 .. l : \E i \in H : PlaceIn(H, i) = k
      /\ \A i \in H : /\ executors[PlaceIn(H, i)] = scopes[i].id
                      /\ connections[(m - l) + PlaceIn(H, i)].id = scopes[i].id
  BY <1>1 DEF StackInv, Aligned
<1>3. PICK i \in H : PlaceIn(H, i) = l
  BY <1>1, <1>2
<1>4. (m - l) + l = m /\ m > 0
  BY <1>1, <1>2
<1>5. executors[l] = connections[m].id
  BY <1>2, <1>3, <1>4
<1>6. connections # <<>> /\ executors[l] \in Executors
  BY <1>1, <1>4, EmptySeq DEF StackInv
<1> QED
  BY <1>1, <1>5, <1>6 DEF Last

LEMMA NoTableRead ==
  NoTable \in Rows /\ NoTable.conn = NoTable.by /\ ~NoTable.gone
BY BoundsAssumption DEF NoTable, Rows

\* The end of a subtransaction no executor is open in.
LEMMA ReadEndSub ==
  ASSUME Read(table), StackInv, NEW g \in DOMAIN scopes, OpenSub(scopes[g], Innermost(nest)),
         \A i \in g .. Len(scopes) : ~IsExecutor(scopes[i]), NEW how, EndSub(how)
  PROVE  Read(table')
<1>1. PICK done \in [Tables -> BOOLEAN] : table' = [r \in Tables |->
        IF table[r].by = 0 THEN NoTable
        ELSE [table[r] EXCEPT
          !.gone = @ \/ done[r], !.undone = @ \/ done[r],
          !.sub = IF @ = Last(nest) THEN Innermost(Pop(nest)) ELSE @]]
  BY EndSubSteps
<1>2. PICK inner \in 0 .. MaxSubs : inner = Innermost(Pop(nest))
  <2>1. nest # <<>>
    BY DEF EndSub
  <2> QED
    BY <2>1, PopSeq, InnermostType DEF StackInv
<1>3. ASSUME NEW r \in Tables
      PROVE  /\ table'[r] \in Rows /\ table'[r].conn = table'[r].by
             /\ table'[r].gone => table'[r].undone
  <2>1. CASE table[r].by = 0
    BY <1>1, <2>1, NoTableRead
  <2>2. CASE table[r].by # 0
    <3>1. table'[r] = [table[r] EXCEPT
            !.gone = @ \/ done[r], !.undone = @ \/ done[r],
            !.sub = IF @ = Last(nest) THEN Innermost(Pop(nest)) ELSE @]
      BY <1>1, <2>2
    <3>2. table[r] \in Rows /\ table[r].conn = table[r].by /\ (table[r].gone => table[r].undone)
      BY DEF Read
    <3> QED
      BY <1>2, <3>1, <3>2 DEF Rows
  <2> QED
    BY <2>1, <2>2
<1>4. table' = [r \in Tables |-> table'[r]]
  BY <1>1
<1> QED
  BY <1>3, <1>4 DEF Read

LEMMA ReadClose ==
  ASSUME Read(table), StackInv, Close
  PROVE  Read(table')
<1>1. table' = [r \in Tables |->
        IF table[r].by \in {0, Top.id} THEN NoTable
        ELSE [table[r] EXCEPT !.gone = @ \/ table[r].conn \in {Top.id}]]
  BY StackClose DEF Close
<1>2. ASSUME NEW r \in Tables
      PROVE  /\ table'[r] \in Rows /\ table'[r].conn = table'[r].by
             /\ table'[r].gone => table'[r].undone
  <2>1. CASE table[r].by \in {0, Top.id}
    BY <1>1, <2>1, NoTableRead
  <2>2. CASE table[r].by \notin {0, Top.id}
    <3>1. table[r] \in Rows /\ table[r].conn = table[r].by /\ (table[r].gone => table[r].undone)
      BY DEF Read
    <3>2. table'[r] = [table[r] EXCEPT !.gone = @ \/ FALSE]
      BY <1>1, <2>2, <3>1
    <3> QED
      BY <3>1, <3>2 DEF Rows
  <2> QED
    BY <2>1, <2>2
<1>3. table' = [r \in Tables |-> table'[r]]
  BY <1>1
<1> QED
  BY <1>2, <1>3 DEF Read

LEMMA ReadQuery ==
  ASSUME Read(table), StackInv, NEW e \in Executors, NEW r \in Tables, Query(e, r)
  PROVE  Read(table')
<1> DEFINE x == [by |-> e, conn |-> Last(connections).id, sub |-> Innermost(nest),
                 gone |-> FALSE, undone |-> FALSE]
<1>1. table' = [table EXCEPT ![r] = x] /\ executors # <<>> /\ Last(executors) = e
  BY DEF Query, IsCurrent
<1>2. Last(connections).id = e
  BY <1>1, TopsMatch
<1>3. e \in 0 .. MaxExecutors
  BY BoundsAssumption DEF Executors
<1>4. x \in Rows /\ x.conn = x.by /\ ~x.gone
  BY <1>2, <1>3, InnermostType DEF StackInv, Rows
<1> HIDE DEF x
<1> QED
  BY <1>1, <1>4 DEF Read

LEMMA ReadEndTransaction ==
  ASSUME Read(table), "commit alone" \in Duties, NEW e, EndTransaction(e)
  PROVE  Read(table')
<1>1. table' = [r \in Tables |-> [table[r] EXCEPT !.gone = @ \/ FALSE]]
  <2>1. PICK C : /\ C = {}
                 /\ table' = [r \in Tables |-> [table[r] EXCEPT !.gone =
                      @ \/ (table[r].by # 0 /\ table[r].conn \in C)]]
    BY DEF EndTransaction
  <2> QED
    BY <2>1
<1> QED
  BY <1>1 DEF Read, Rows

LEMMA ReadNext ==
  ASSUME Read(table), StackInv, "finish late" \in Duties, "commit alone" \in Duties,
         [Next]_vars
  PROVE  Read(table')
<1>1. CASE UNCHANGED table
  BY <1>1
<1>2. CASE \E how \in {"committed", "aborted"} : LeaveSub(how)
  <2>1. PICK how \in {"committed", "aborted"} : LeaveSub(how)
    BY <1>2
  <2> QED
    BY <1>1, <2>1, StackLeaveSub, ReadEndSub
<1>3. CASE \E how \in {"committed", "aborted"} : \E g \in DOMAIN scopes : FinishSub(g, how)
  <2>1. PICK how \in {"committed", "aborted"}, g \in DOMAIN scopes : FinishSub(g, how)
    BY <1>3
  <2>2. EndSub(how)
    BY <2>1 DEF FinishSub
  <2> QED
    BY <2>1, <2>2, StackFinishSub, ReadEndSub
<1>4. CASE Close
  BY <1>4, ReadClose
<1>5. CASE \E e \in Executors : EndTransaction(e)
  BY <1>5, ReadEndTransaction
<1>6. CASE \E e \in Executors, r \in Tables : Query(e, r)
  BY <1>6, ReadQuery
<1>7. CASE \E e \in Executors, p \in Plans, r \in Tables : QueryPlan(e, p, r)
  BY <1>6, <1>7 DEF QueryPlan
<1>8. CASE \E r \in Tables : DropTable(r)
  BY <1>8, NoTableRead DEF DropTable, Read
<1>9. \/ UNCHANGED table
      \/ \E how \in {"committed", "aborted"} : LeaveSub(how)
      \/ \E how \in {"committed", "aborted"} : \E g \in DOMAIN scopes : FinishSub(g, how)
      \/ Close
      \/ \E e \in Executors : EndTransaction(e)
      \/ \E e \in Executors, r \in Tables : Query(e, r)
      \/ \E e \in Executors, p \in Plans, r \in Tables : QueryPlan(e, p, r)
      \/ \E r \in Tables : DropTable(r)
  BY DEF Next, vars, data, Enter, LeaveTry, Caught, Throw, BeginSub, Open, OpenFails, CheckAtomic,
     Refused, Prepare, Keep, UseGone, Release, DestroyPlan, MovePlan, FreeReleased
<1> QED
  BY <1>1, <1>2, <1>3, <1>4, <1>5, <1>6, <1>7, <1>8, <1>9

LEMMA ReadInit ==
  ASSUME Init
  PROVE  Read(table)
BY NoTableRead DEF Init, Read

\* What an executor returned (executor.hpp:352-384) stays readable while it is in scope,
\* whatever else is opened, closed, committed and thrown, unless the subtransaction that
\* asked for it is rolled back.
THEOREM ResultsStayLive ==
  ASSUME "finish late" \in Duties, "commit alone" \in Duties
  PROVE  Spec => []ResultsLive
<1> DEFINE I == StackInv /\ Read(table)
<1>1. Init => I
  BY StackInit, ReadInit
<1>2. I /\ [Next]_vars => I'
  BY StackNext, ReadNext
<1>3. I => ResultsLive
  BY DEF Read, ResultsLive
<1> HIDE DEF I
<1> QED
  BY <1>1, <1>2, <1>3, PTL DEF Spec
------------------------------------------------------------------------------
\* Plans.

Variable == [made : BOOLEAN, of : 0 .. MaxPrepared, kept : BOOLEAN, tracked : BOOLEAN,
             released : BOOLEAN]
Allocation == [life : {"none", "live", "gone"}, conn : 0 .. MaxExecutors,
               saved : BOOLEAN, raw : BOOLEAN]

\* What a variable says of its plan: a variable that frees it tracks it and was not
\* released, and the plan is there, saved and nobody else's.
VariableOK(v, pr) ==
  /\ v.made => v.of \in Prepared /\ pr[v.of].life # "none"
  /\ ~v.made => v = NoPlan
  /\ v.kept => /\ v.tracked /\ ~v.released
               /\ pr[v.of].life = "live" /\ pr[v.of].saved /\ ~pr[v.of].raw

\* Variables pl and allocations pr.  Two variables never track one plan; a raw
\* pointer is out only when the variable that tracks the plan was released; and a
\* saved plan that is live is somebody's.
Owned(pl, pr) ==
  /\ pl \in [Plans -> Variable] /\ pr \in [Prepared -> Allocation]
  /\ \A p \in Plans : VariableOK(pl[p], pr)
  /\ \A p, q \in Plans : pl[p].tracked /\ pl[q].tracked /\ pl[p].of = pl[q].of => p = q
  /\ \A m \in Prepared :
       /\ pr[m].life = "none" => ~pr[m].saved /\ ~pr[m].raw
       /\ pr[m].raw => pr[m].saved
       /\ pr[m].raw => \A p \in Plans : pl[p].tracked /\ pl[p].of = m => pl[p].released
       /\ pr[m].life = "live" /\ pr[m].saved /\ ~pr[m].raw
            => \E p \in Plans : pl[p].kept /\ pl[p].of = m

LEMMA PlanConstants ==
  /\ NoPlan \in Variable /\ ~NoPlan.made /\ NoPlan.of = 0 /\ ~NoPlan.kept /\ ~NoPlan.tracked
  /\ NotPrepared \in Allocation /\ NotPrepared.life = "none"
  /\ ~NotPrepared.saved /\ ~NotPrepared.raw
  /\ 0 \notin Prepared /\ Prepared \subseteq 0 .. MaxPrepared
BY BoundsAssumption DEF NoPlan, NotPrepared, Variable, Allocation, Prepared

\* Plans M are freed: one that is gone is forgotten once no variable in ql is of it.
Freed(pr, qr, ql, M) ==
  \A m \in Prepared :
    \/ /\ qr[m] = NotPrepared /\ (m \in M \/ pr[m].life = "gone")
       /\ \A p \in Plans : ql[p].of # m
    \/ /\ qr[m].life = (IF m \in M THEN "gone" ELSE pr[m].life)
       /\ qr[m].saved = pr[m].saved /\ qr[m].raw = pr[m].raw

LEMMA FreePlansFreed ==
  ASSUME prepared \in [Prepared -> Allocation], NEW ql, NEW M,
         \A m \in M : m \in Prepared /\ prepared[m].life = "live", FreePlans(M, ql)
  PROVE  prepared' \in [Prepared -> Allocation] /\ Freed(prepared, prepared', ql, M)
<1> DEFINE life(m) == IF m \notin M THEN prepared[m].life
                      ELSE IF prepared[m].life = "live" THEN "gone" ELSE "freed twice"
           none(m) == life(m) = "gone" /\ \A p \in Plans : ql[p].of # m
           left(m) == [prepared[m] EXCEPT
             !.life = life(m), !.conn = IF life(m) = "live" THEN @ ELSE 0]
<1>1. prepared' = [m \in Prepared |-> IF none(m) THEN NotPrepared ELSE left(m)]
  BY DEF FreePlans
<1>2. ASSUME NEW m \in Prepared
      PROVE  /\ life(m) = (IF m \in M THEN "gone" ELSE prepared[m].life)
             /\ left(m) \in Allocation /\ left(m).life = life(m)
             /\ left(m).saved = prepared[m].saved /\ left(m).raw = prepared[m].raw
  <2>1. prepared[m] \in Allocation
    OBVIOUS
  <2>2. /\ life(m) = (IF m \in M THEN "gone" ELSE prepared[m].life)
        /\ life(m) \in {"none", "live", "gone"}
    BY <2>1 DEF Allocation
  <2> HIDE DEF life
  <2>3. 0 \in 0 .. MaxExecutors
    BY BoundsAssumption
  <2> QED
    BY <2>1, <2>2, <2>3 DEF Allocation
<1>3. ASSUME NEW m \in Prepared, none(m)
      PROVE  (m \in M \/ prepared[m].life = "gone") /\ \A p \in Plans : ql[p].of # m
  BY <1>3
<1> HIDE DEF life, none, left
<1>4. prepared' \in [Prepared -> Allocation]
  BY <1>1, <1>2, PlanConstants
<1>5. Freed(prepared, prepared', ql, M)
  <2> SUFFICES ASSUME NEW m \in Prepared
               PROVE  \/ /\ prepared'[m] = NotPrepared /\ (m \in M \/ prepared[m].life = "gone")
                         /\ \A p \in Plans : ql[p].of # m
                      \/ /\ prepared'[m].life = (IF m \in M THEN "gone" ELSE prepared[m].life)
                         /\ prepared'[m].saved = prepared[m].saved
                         /\ prepared'[m].raw = prepared[m].raw
    BY DEF Freed
  <2>1. CASE none(m)
    BY <1>1, <1>3, <2>1
  <2>2. CASE ~none(m)
    <3>1. prepared'[m] = left(m)
      BY <1>1, <2>2
    <3> QED
      BY <1>2, <3>1
  <2> QED
    BY <2>1, <2>2
<1> QED
  BY <1>4, <1>5

\* Freeing plans, while variables end: nobody's plan is freed but that of a variable
\* that ends, and that one is.
LEMMA OwnedFree ==
  ASSUME NEW pl, NEW pr, Owned(pl, pr),
         NEW ql \in [Plans -> Variable], NEW qr \in [Prepared -> Allocation], NEW M,
         \A m \in M : m \in Prepared /\ pr[m].life = "live", Freed(pr, qr, ql, M),
         \A p \in Plans : ql[p] = pl[p] \/ ql[p] = NoPlan,
         \A p \in Plans : ql[p].kept => ql[p].of \notin M,
         \A p \in Plans : pl[p].kept /\ ~ql[p].kept => pl[p].of \in M
  PROVE  Owned(ql, qr)
<1>1. ASSUME NEW p \in Plans PROVE VariableOK(ql[p], qr)
  <2>1. CASE ql[p] = NoPlan
    BY <2>1, PlanConstants DEF VariableOK
  <2>2. CASE ql[p] = pl[p] /\ ql[p] # NoPlan
    <3>1. ql[p].made /\ ql[p].of \in Prepared /\ pr[ql[p].of].life # "none"
      BY <2>2 DEF Owned, VariableOK
    <3>2. /\ qr[ql[p].of].life = IF ql[p].of \in M THEN "gone" ELSE pr[ql[p].of].life
          /\ qr[ql[p].of].saved = pr[ql[p].of].saved /\ qr[ql[p].of].raw = pr[ql[p].of].raw
      BY <3>1 DEF Freed
    <3>3. ql[p].kept => /\ ql[p].tracked /\ ~ql[p].released
                        /\ pr[ql[p].of].life = "live" /\ pr[ql[p].of].saved
                        /\ ~pr[ql[p].of].raw /\ ql[p].of \notin M
      BY <2>2 DEF Owned, VariableOK
    <3> QED
      BY <3>1, <3>2, <3>3 DEF VariableOK
  <2> QED
    BY <2>1, <2>2
<1>2. \A p \in Plans : ql[p].tracked => ql[p] = pl[p]
  BY PlanConstants
<1>3. \A p, q \in Plans : ql[p].tracked /\ ql[q].tracked /\ ql[p].of = ql[q].of => p = q
  BY <1>2 DEF Owned
<1>4. ASSUME NEW m \in Prepared
      PROVE  /\ qr[m].life = "none" => ~qr[m].saved /\ ~qr[m].raw
             /\ qr[m].raw => qr[m].saved
             /\ qr[m].raw => \A p \in Plans : ql[p].tracked /\ ql[p].of = m => ql[p].released
             /\ qr[m].life = "live" /\ qr[m].saved /\ ~qr[m].raw
                  => \E p \in Plans : ql[p].kept /\ ql[p].of = m
  <2>1. CASE qr[m] = NotPrepared
    BY <2>1, PlanConstants
  <2>2. CASE /\ qr[m].life = (IF m \in M THEN "gone" ELSE pr[m].life)
             /\ qr[m].saved = pr[m].saved /\ qr[m].raw = pr[m].raw
    <3>1. qr[m].life = "none" => ~qr[m].saved /\ ~qr[m].raw
      BY <2>2 DEF Owned
    <3>2. qr[m].raw => qr[m].saved
      BY <2>2 DEF Owned
    <3>3. qr[m].raw => \A p \in Plans : ql[p].tracked /\ ql[p].of = m => ql[p].released
      BY <1>2, <2>2 DEF Owned
    <3>4. ASSUME qr[m].life = "live", qr[m].saved, ~qr[m].raw
          PROVE  \E p \in Plans : ql[p].kept /\ ql[p].of = m
      <4>1. m \notin M /\ pr[m].life = "live" /\ pr[m].saved /\ ~pr[m].raw
        BY <2>2, <3>4
      <4>2. PICK p \in Plans : pl[p].kept /\ pl[p].of = m
        BY <4>1 DEF Owned
      <4>3. ql[p].kept
        BY <4>1, <4>2
      <4> QED
        BY <4>2, <4>3, PlanConstants
    <3> QED
      BY <3>1, <3>2, <3>3, <3>4
  <2> QED
    BY <2>1, <2>2 DEF Freed
<1> QED
  BY <1>1, <1>3, <1>4 DEF Owned

\* The plans of connections that end are nobody's: they are not saved.
LEMMA OwnedPlansIn ==
  ASSUME Owned(plan, prepared), NEW C, FreePlans(PlansIn(C), plan), plan' = plan
  PROVE  Owned(plan', prepared')
<1> DEFINE M == PlansIn(C)
<1>1. \A m \in M : m \in Prepared /\ prepared[m].life = "live" /\ ~prepared[m].saved
  BY DEF PlansIn
<1> HIDE DEF M
<1>2. FreePlans(M, plan)
  BY DEF M
<1>3. prepared' \in [Prepared -> Allocation] /\ Freed(prepared, prepared', plan, M)
  BY <1>1, <1>2, FreePlansFreed DEF Owned
<1>4. \A p \in Plans : plan[p].kept => plan[p].of \notin M
  BY <1>1 DEF Owned, VariableOK
<1>5. plan \in [Plans -> Variable]
  BY DEF Owned
<1>6. Owned(plan, prepared')
  BY <1>1, <1>3, <1>4, <1>5, OwnedFree
<1> QED
  BY <1>6

LEMMA OwnedDestroyPlan ==
  ASSUME Owned(plan, prepared), NEW p \in Plans, DestroyPlan(p)
  PROVE  Owned(plan', prepared')
<1> DEFINE M == IF plan[p].kept THEN {plan[p].of} ELSE {}
<1>1. plan' = [plan EXCEPT ![p] = NoPlan] /\ plan[p].made
  BY DEF DestroyPlan
<1>2. \A q \in Plans : VariableOK(plan[q], prepared)
  BY DEF Owned
<1>3. \A m \in M : m \in Prepared /\ prepared[m].life = "live" /\ plan[p].kept /\ m = plan[p].of
  BY <1>1, <1>2 DEF VariableOK
<1>4. plan[p].kept => plan[p].of \in M
  OBVIOUS
<1>5. FreePlans(M, plan')
  BY DEF DestroyPlan
<1> HIDE DEF M
<1>6. /\ plan' \in [Plans -> Variable] /\ plan'[p] = NoPlan
      /\ \A q \in Plans : q # p => plan'[q] = plan[q]
  BY <1>1, PlanConstants DEF Owned
<1>7. prepared' \in [Prepared -> Allocation] /\ Freed(prepared, prepared', plan', M)
  BY <1>3, <1>5, FreePlansFreed DEF Owned
<1>8. ASSUME NEW q \in Plans, plan'[q].kept
      PROVE  plan'[q].of \notin M
  <2>1. q # p /\ plan'[q] = plan[q]
    BY <1>6, <1>8, PlanConstants
  <2>2. plan[q].tracked
    BY <1>2, <1>8, <2>1 DEF VariableOK
  <2>3. plan[p].kept => plan[p].tracked
    BY <1>2 DEF VariableOK
  <2> QED
    BY <1>3, <2>1, <2>2, <2>3 DEF Owned
<1>9. \A q \in Plans : plan[q].kept /\ ~plan'[q].kept => plan[q].of \in M
  BY <1>4, <1>6
<1>10. \A q \in Plans : plan'[q] = plan[q] \/ plan'[q] = NoPlan
  BY <1>6
<1>11. \A m \in M : m \in Prepared /\ prepared[m].life = "live"
  BY <1>3
<1>12. \A q \in Plans : plan'[q].kept => plan'[q].of \notin M
  BY <1>8
<1> QED
  BY <1>6, <1>7, <1>9, <1>10, <1>11, <1>12, OwnedFree

LEMMA OwnedFreeReleased ==
  ASSUME Owned(plan, prepared), NEW m \in Prepared, FreeReleased(m)
  PROVE  Owned(plan', prepared')
<1>1. prepared[m].raw /\ prepared[m].life = "live" /\ FreePlans({m}, plan) /\ plan' = plan
  BY DEF FreeReleased
<1>2. \A n \in {m} : n \in Prepared /\ prepared[n].life = "live"
  BY <1>1
<1>3. prepared' \in [Prepared -> Allocation] /\ Freed(prepared, prepared', plan, {m})
  BY <1>1, <1>2, FreePlansFreed DEF Owned
<1>4. \A p \in Plans : plan[p].kept => plan[p].of \notin {m}
  BY <1>1 DEF Owned, VariableOK
<1>5. plan \in [Plans -> Variable]
  BY DEF Owned
<1>6. Owned(plan, prepared')
  BY <1>2, <1>3, <1>4, <1>5, OwnedFree
<1> QED
  BY <1>1, <1>6

LEMMA OwnedPrepare ==
  ASSUME Owned(plan, prepared), connections \in Seq(Connection),
         NEW e, NEW p \in Plans, NEW m \in Prepared, Prepare(e, p, m)
  PROVE  Owned(plan', prepared')
<1> DEFINE a == [NotPrepared EXCEPT !.life = "live", !.conn = Last(connections).id]
           v == [made |-> TRUE, of |-> m, kept |-> FALSE, tracked |-> TRUE, released |-> FALSE]
<1>1. /\ prepared' = [prepared EXCEPT ![m] = a] /\ plan' = [plan EXCEPT ![p] = v]
      /\ connections # <<>> /\ ~plan[p].made /\ prepared[m].life = "none"
  BY DEF Prepare, Connected, FreePrepared
<1>2. Last(connections).id \in 0 .. MaxExecutors
  <2>1. PICK k \in Nat : k = Len(connections) /\ k > 0
    BY <1>1, EmptySeq
  <2>2. connections[k] \in Connection
    BY <2>1
  <2> QED
    BY <2>1, <2>2 DEF Last, Connection
<1>3. a \in Allocation /\ a.life = "live" /\ ~a.saved /\ ~a.raw
  BY <1>2 DEF Allocation, NotPrepared
<1>4. v \in Variable /\ v.made /\ v.of = m /\ ~v.kept /\ v.tracked /\ ~v.released
  BY PlanConstants DEF Variable
<1> HIDE DEF a, v
<1>5. /\ prepared' \in [Prepared -> Allocation] /\ plan' \in [Plans -> Variable]
      /\ prepared'[m] = a /\ plan'[p] = v
      /\ \A n \in Prepared : n # m => prepared'[n] = prepared[n]
      /\ \A q \in Plans : q # p => plan'[q] = plan[q]
  BY <1>1, <1>3, <1>4 DEF Owned
<1>6. \A q \in Plans : plan[q].of # m
  BY <1>1, PlanConstants DEF Owned, VariableOK
<1>7. ASSUME NEW q \in Plans PROVE VariableOK(plan'[q], prepared')
  <2>1. CASE q = p
    BY <1>3, <1>4, <1>5, <2>1 DEF VariableOK
  <2>2. CASE q # p
    <3>1. plan'[q] = plan[q] /\ VariableOK(plan[q], prepared)
      BY <1>5, <2>2 DEF Owned
    <3>2. CASE ~plan[q].made
      BY <3>1, <3>2, PlanConstants DEF VariableOK
    <3>3. CASE plan[q].made
      <4>1. plan[q].of \in Prepared /\ plan[q].of # m
        BY <1>6, <3>1, <3>3 DEF VariableOK
      <4>2. prepared'[plan[q].of] = prepared[plan[q].of]
        BY <1>5, <4>1
      <4> QED
        BY <3>1, <3>3, <4>2 DEF VariableOK
    <3> QED
      BY <3>2, <3>3
  <2> QED
    BY <2>1, <2>2
<1>8. \A q, r \in Plans : plan'[q].tracked /\ plan'[r].tracked /\ plan'[q].of = plan'[r].of => q = r
  BY <1>4, <1>5, <1>6 DEF Owned
<1>9. ASSUME NEW n \in Prepared
      PROVE  /\ prepared'[n].life = "none" => ~prepared'[n].saved /\ ~prepared'[n].raw
             /\ prepared'[n].raw => prepared'[n].saved
             /\ prepared'[n].raw => \A q \in Plans :
                  plan'[q].tracked /\ plan'[q].of = n => plan'[q].released
             /\ prepared'[n].life = "live" /\ prepared'[n].saved /\ ~prepared'[n].raw
                  => \E q \in Plans : plan'[q].kept /\ plan'[q].of = n
  <2>1. CASE n = m
    BY <1>3, <1>5, <2>1
  <2>2. CASE n # m
    <3>1. prepared'[n] = prepared[n]
      BY <1>5, <2>2
    <3>2. \A q \in Plans : plan[q].kept => q # p
      BY <1>1, PlanConstants DEF Owned, VariableOK
    <3>3. prepared[n].life = "live" /\ prepared[n].saved /\ ~prepared[n].raw
            => \E q \in Plans : plan'[q].kept /\ plan'[q].of = n
      BY <1>5, <3>2 DEF Owned
    <3>4. \A q \in Plans : plan'[q].of = n => plan'[q] = plan[q]
      BY <1>4, <1>5, <2>2
    <3> QED
      BY <3>1, <3>3, <3>4 DEF Owned
  <2> QED
    BY <2>1, <2>2
<1> QED
  BY <1>5, <1>7, <1>8, <1>9 DEF Owned

LEMMA OwnedKeep ==
  ASSUME Owned(plan, prepared), NEW p \in Plans, Keep(p)
  PROVE  Owned(plan', prepared')
<1> DEFINE m == plan[p].of
<1>1. /\ plan[p].made /\ plan[p].tracked /\ ~plan[p].released /\ prepared[m].life # "gone"
      /\ prepared' = [prepared EXCEPT ![m].saved = TRUE, ![m].conn = 0]
      /\ plan' = [plan EXCEPT ![p].kept = TRUE]
  BY DEF Keep, MayUse, Gone
<1>2. m \in Prepared /\ prepared[m].life # "none"
  BY <1>1 DEF Owned, VariableOK
<1>3. /\ prepared \in [Prepared -> Allocation] /\ plan \in [Plans -> Variable]
      /\ prepared[m] \in Allocation /\ plan[p] \in Variable
  BY <1>2 DEF Owned
<1>4. prepared[m].life = "live"
  BY <1>1, <1>2, <1>3 DEF Allocation
<1>5. ~prepared[m].raw
  BY <1>1, <1>2 DEF Owned
<1> HIDE DEF m
<1>6. /\ prepared' \in [Prepared -> Allocation]
      /\ prepared'[m].life = "live" /\ prepared'[m].saved /\ ~prepared'[m].raw
      /\ \A n \in Prepared : n # m => prepared'[n] = prepared[n]
  <2> DEFINE a == [prepared[m] EXCEPT !.saved = TRUE, !.conn = 0]
  <2>1. a \in Allocation /\ a.life = prepared[m].life /\ a.saved /\ a.raw = prepared[m].raw
    <3>1. 0 \in 0 .. MaxExecutors
      BY BoundsAssumption
    <3>2. PICK b \in Allocation : b = prepared[m]
      BY <1>3
    <3> QED
      BY <3>1, <3>2 DEF Allocation
  <2>2. prepared' = [prepared EXCEPT ![m] = a]
    BY <1>1, <1>2, <1>3
  <2> HIDE DEF a
  <2> QED
    BY <1>2, <1>3, <1>4, <1>5, <2>1, <2>2
<1>7. /\ plan' \in [Plans -> Variable]
      /\ plan'[p].made /\ plan'[p].of = m /\ plan'[p].kept
      /\ plan'[p].tracked /\ ~plan'[p].released
      /\ \A q \in Plans : q # p => plan'[q] = plan[q]
  BY <1>1, <1>3 DEF Variable, m
<1>8. ASSUME NEW q \in Plans PROVE VariableOK(plan'[q], prepared')
  <2>1. CASE q = p
    BY <1>2, <1>6, <1>7, <2>1 DEF VariableOK
  <2>2. CASE q # p
    <3>1. plan'[q] = plan[q] /\ VariableOK(plan[q], prepared)
      BY <1>7, <2>2 DEF Owned
    <3>2. CASE ~plan[q].made
      BY <3>1, <3>2, PlanConstants DEF VariableOK
    <3>3. CASE plan[q].made
      <4>1. plan[q].of \in Prepared
        BY <3>1, <3>3 DEF VariableOK
      <4>2. prepared'[plan[q].of].life = prepared[plan[q].of].life
            /\ (plan[q].of # m => prepared'[plan[q].of] = prepared[plan[q].of])
        BY <1>4, <1>6, <4>1
      <4> QED
        BY <1>6, <3>1, <3>3, <4>1, <4>2 DEF VariableOK
    <3> QED
      BY <3>2, <3>3
  <2> QED
    BY <2>1, <2>2
<1>9. \A q \in Plans : plan'[q].tracked = plan[q].tracked /\ plan'[q].of = plan[q].of
                       /\ plan'[q].released = plan[q].released /\ (plan[q].kept => plan'[q].kept)
  BY <1>1, <1>7 DEF m
<1>10. \A q, r \in Plans :
         plan'[q].tracked /\ plan'[r].tracked /\ plan'[q].of = plan'[r].of => q = r
  BY <1>9 DEF Owned
<1>11. ASSUME NEW n \in Prepared
       PROVE  /\ prepared'[n].life = "none" => ~prepared'[n].saved /\ ~prepared'[n].raw
              /\ prepared'[n].raw => prepared'[n].saved
              /\ prepared'[n].raw => \A q \in Plans :
                   plan'[q].tracked /\ plan'[q].of = n => plan'[q].released
              /\ prepared'[n].life = "live" /\ prepared'[n].saved /\ ~prepared'[n].raw
                   => \E q \in Plans : plan'[q].kept /\ plan'[q].of = n
  <2>1. CASE n = m
    BY <1>6, <1>7, <2>1
  <2>2. CASE n # m
    <3>1. prepared'[n] = prepared[n]
      BY <1>6, <2>2
    <3> QED
      BY <1>9, <3>1 DEF Owned
  <2> QED
    BY <2>1, <2>2
<1> QED
  BY <1>6, <1>7, <1>8, <1>10, <1>11 DEF Owned

LEMMA OwnedMovePlan ==
  ASSUME Owned(plan, prepared), NEW p \in Plans, NEW q \in Plans, MovePlan(p, q)
  PROVE  Owned(plan', prepared')
<1>1. /\ plan[p].made /\ plan[p].tracked /\ ~plan[p].released /\ ~plan[q].made
      /\ plan' = [plan EXCEPT ![q] = plan[p], ![p].tracked = FALSE, ![p].kept = FALSE]
      /\ prepared' = prepared
  BY DEF MovePlan, MayUse
<1>2. plan \in [Plans -> Variable] /\ plan[p] \in Variable /\ p # q
  BY <1>1 DEF Owned
<1>3. /\ plan' \in [Plans -> Variable] /\ plan'[q] = plan[p]
      /\ plan'[p].made /\ plan'[p].of = plan[p].of /\ ~plan'[p].kept /\ ~plan'[p].tracked
      /\ \A r \in Plans : r # p /\ r # q => plan'[r] = plan[r]
  BY <1>1, <1>2 DEF Variable
<1>4. \A r \in Plans : VariableOK(plan[r], prepared)
  BY DEF Owned
<1>5. ASSUME NEW r \in Plans PROVE VariableOK(plan'[r], prepared')
  <2>1. CASE r = p
    BY <1>1, <1>3, <1>4, <2>1 DEF VariableOK
  <2>2. CASE r = q
    BY <1>1, <1>3, <1>4, <2>2
  <2>3. CASE r # p /\ r # q
    BY <1>1, <1>3, <1>4, <2>3
  <2> QED
    BY <2>1, <2>2, <2>3
<1>6. ~plan[q].tracked /\ ~plan[q].kept
  BY <1>1, <1>4, PlanConstants DEF VariableOK
<1>7. ASSUME NEW r \in Plans, NEW s \in Plans, plan'[r].tracked, plan'[s].tracked,
             plan'[r].of = plan'[s].of
      PROVE  r = s
  <2>1. r # p /\ s # p
    BY <1>3, <1>7
  <2>2. \A t \in Plans : t # p /\ plan'[t].tracked /\ t # q
          => plan'[t] = plan[t] /\ t # p
    BY <1>3
  <2> QED
    BY <1>1, <1>3, <1>7, <2>1, <2>2 DEF Owned
<1>8. \A m \in Prepared :
        prepared[m].raw => \A r \in Plans : plan'[r].tracked /\ plan'[r].of = m => plan'[r].released
  <2> SUFFICES ASSUME NEW m \in Prepared, prepared[m].raw, NEW r \in Plans, plan'[r].tracked,
                      plan'[r].of = m
               PROVE  plan'[r].released
    OBVIOUS
  <2>1. r # p
    BY <1>3
  <2> QED
    BY <1>1, <1>3, <2>1 DEF Owned
<1>9. \A m \in Prepared :
        (\E r \in Plans : plan[r].kept /\ plan[r].of = m)
          => \E r \in Plans : plan'[r].kept /\ plan'[r].of = m
  <2> SUFFICES ASSUME NEW m \in Prepared, NEW r \in Plans, plan[r].kept, plan[r].of = m
               PROVE  \E s \in Plans : plan'[s].kept /\ plan'[s].of = m
    OBVIOUS
  <2>1. CASE r = p
    BY <1>3, <2>1
  <2>2. CASE r # p
    BY <1>3, <1>6, <2>2
  <2> QED
    BY <2>1, <2>2
<1> QED
  BY <1>1, <1>3, <1>5, <1>7, <1>8, <1>9 DEF Owned

LEMMA OwnedRelease ==
  ASSUME Owned(plan, prepared), NEW p \in Plans, Release(p)
  PROVE  Owned(plan', prepared')
<1> DEFINE m == plan[p].of
<1>1. /\ plan[p].made /\ plan[p].tracked /\ ~plan[p].released
      /\ prepared' = [prepared EXCEPT ![m].raw = plan[p].kept]
      /\ plan' = [plan EXCEPT ![p].released = TRUE, ![p].kept = FALSE]
  BY DEF Release, MayUse
<1>2. m \in Prepared /\ prepared[m].life # "none"
  BY <1>1 DEF Owned, VariableOK
<1>3. /\ prepared \in [Prepared -> Allocation] /\ plan \in [Plans -> Variable]
      /\ prepared[m] \in Allocation /\ plan[p] \in Variable
  BY <1>2 DEF Owned
<1>4. ~prepared[m].raw
  BY <1>1, <1>2 DEF Owned
<1>5. plan[p].kept => prepared[m].saved
  BY <1>1 DEF Owned, VariableOK
<1>6. prepared[m].life = "live" /\ prepared[m].saved => plan[p].kept
  <2> SUFFICES ASSUME prepared[m].life = "live", prepared[m].saved PROVE plan[p].kept
    OBVIOUS
  <2>1. PICK q \in Plans : plan[q].kept /\ plan[q].of = m
    BY <1>2, <1>4 DEF Owned
  <2>2. plan[q].tracked
    BY <2>1 DEF Owned, VariableOK
  <2>3. q = p
    BY <1>1, <2>1, <2>2 DEF Owned
  <2> QED
    BY <2>1, <2>3
<1>7. \A q \in Plans : plan[q].tracked /\ plan[q].of = m => q = p
  BY <1>1 DEF Owned
<1> HIDE DEF m
<1>8. /\ prepared' \in [Prepared -> Allocation]
      /\ prepared'[m].life = prepared[m].life /\ prepared'[m].saved = prepared[m].saved
      /\ prepared'[m].raw = plan[p].kept
      /\ \A n \in Prepared : n # m => prepared'[n] = prepared[n]
  BY <1>1, <1>2, <1>3 DEF Allocation, Variable
<1>9. /\ plan' \in [Plans -> Variable]
      /\ plan'[p].made /\ plan'[p].of = m /\ ~plan'[p].kept
      /\ plan'[p].tracked /\ plan'[p].released
      /\ \A q \in Plans : q # p => plan'[q] = plan[q]
  BY <1>1, <1>3 DEF Variable, m
<1>10. ASSUME NEW q \in Plans PROVE VariableOK(plan'[q], prepared')
  <2>1. CASE q = p
    BY <1>2, <1>8, <1>9, <2>1 DEF VariableOK
  <2>2. CASE q # p
    <3>1. plan'[q] = plan[q] /\ VariableOK(plan[q], prepared)
      BY <1>9, <2>2 DEF Owned
    <3>2. CASE ~plan[q].made
      BY <3>1, <3>2, PlanConstants DEF VariableOK
    <3>3. CASE plan[q].made
      <4>1. plan[q].of \in Prepared
        BY <3>1, <3>3 DEF VariableOK
      <4>2. prepared'[plan[q].of].life = prepared[plan[q].of].life
            /\ (plan[q].of # m => prepared'[plan[q].of] = prepared[plan[q].of])
        BY <1>8, <4>1
      <4>3. plan[q].kept => plan[q].of # m
        BY <1>7, <2>2, <3>1 DEF VariableOK
      <4> QED
        BY <3>1, <3>3, <4>1, <4>2, <4>3 DEF VariableOK
    <3> QED
      BY <3>2, <3>3
  <2> QED
    BY <2>1, <2>2
<1>11. \A q \in Plans : plan'[q].tracked = plan[q].tracked /\ plan'[q].of = plan[q].of
                        /\ (plan[q].released => plan'[q].released)
                        /\ (q # p => plan'[q].kept = plan[q].kept)
  BY <1>1, <1>9 DEF m
<1>12. \A q, r \in Plans :
         plan'[q].tracked /\ plan'[r].tracked /\ plan'[q].of = plan'[r].of => q = r
  BY <1>11 DEF Owned
<1>13. ASSUME NEW n \in Prepared
       PROVE  /\ prepared'[n].life = "none" => ~prepared'[n].saved /\ ~prepared'[n].raw
              /\ prepared'[n].raw => prepared'[n].saved
              /\ prepared'[n].raw => \A q \in Plans :
                   plan'[q].tracked /\ plan'[q].of = n => plan'[q].released
              /\ prepared'[n].life = "live" /\ prepared'[n].saved /\ ~prepared'[n].raw
                   => \E q \in Plans : plan'[q].kept /\ plan'[q].of = n
  <2>1. CASE n = m
    BY <1>2, <1>5, <1>6, <1>7, <1>8, <1>9, <1>11, <2>1
  <2>2. CASE n # m
    <3>1. prepared'[n] = prepared[n]
      BY <1>8, <2>2
    <3>2. \A q \in Plans : plan[q].of = n => q # p
      BY <2>2 DEF m
    <3> QED
      BY <1>11, <3>1, <3>2 DEF Owned
  <2> QED
    BY <2>1, <2>2
<1> QED
  BY <1>8, <1>9, <1>10, <1>12, <1>13 DEF Owned

\* Plans are looked after whatever becomes of the stacks, with or without the duties.
LEMMA OwnedEndSub ==
  ASSUME Owned(plan, prepared), NEW how, EndSub(how), plan' = plan
  PROVE  Owned(plan', prepared')
<1>1. PICK C : FreePlans(PlansIn(C), plan)
  BY DEF EndSub
<1> QED
  BY <1>1, OwnedPlansIn

LEMMA OwnedNext ==
  ASSUME Owned(plan, prepared), connections \in Seq(Connection), [Next]_vars
  PROVE  Owned(plan', prepared')
<1>1. CASE UNCHANGED <<plan, prepared>>
  BY <1>1
<1>2. CASE \E how \in {"committed", "aborted"} : LeaveSub(how)
  <2>1. PICK how \in {"committed", "aborted"} : LeaveSub(how)
    BY <1>2
  <2>2. plan' = plan /\ (prepared' = prepared \/ EndSub(how))
    BY <2>1 DEF LeaveSub
  <2> QED
    BY <2>2, OwnedEndSub
<1>3. CASE \E how \in {"committed", "aborted"} : \E g \in DOMAIN scopes : FinishSub(g, how)
  <2>1. PICK how \in {"committed", "aborted"}, g \in DOMAIN scopes : FinishSub(g, how)
    BY <1>3
  <2>2. plan' = plan /\ EndSub(how)
    BY <2>1 DEF FinishSub
  <2> QED
    BY <2>2, OwnedEndSub
<1>4. CASE Close
  BY <1>4, OwnedPlansIn DEF Close
<1>5. CASE \E e \in Executors : EndTransaction(e)
  <2>1. PICK C : FreePlans(PlansIn(C), plan) /\ plan' = plan
    BY <1>5 DEF EndTransaction
  <2> QED
    BY <2>1, OwnedPlansIn
<1>6. CASE \E e \in Executors, p \in Plans, m \in Prepared : Prepare(e, p, m)
  BY <1>6, OwnedPrepare
<1>7. CASE \E p \in Plans : Keep(p)
  BY <1>7, OwnedKeep
<1>8. CASE \E p \in Plans : Release(p)
  BY <1>8, OwnedRelease
<1>9. CASE \E p \in Plans : DestroyPlan(p)
  BY <1>9, OwnedDestroyPlan
<1>10. CASE \E p, q \in Plans : MovePlan(p, q)
  BY <1>10, OwnedMovePlan
<1>11. CASE \E m \in Prepared : FreeReleased(m)
  BY <1>11, OwnedFreeReleased
<1>12. \/ UNCHANGED <<plan, prepared>>
       \/ \E how \in {"committed", "aborted"} : LeaveSub(how)
       \/ \E how \in {"committed", "aborted"} : \E g \in DOMAIN scopes : FinishSub(g, how)
       \/ Close
       \/ \E e \in Executors : EndTransaction(e)
       \/ \E e \in Executors, p \in Plans, m \in Prepared : Prepare(e, p, m)
       \/ \E p \in Plans : Keep(p) \/ Release(p) \/ DestroyPlan(p)
       \/ \E p, q \in Plans : MovePlan(p, q)
       \/ \E m \in Prepared : FreeReleased(m)
  BY DEF Next, vars, data, Enter, LeaveTry, Caught, Throw, BeginSub, Open, OpenFails, CheckAtomic,
     Refused, Query, QueryPlan, DropTable, UseGone
<1> QED
  BY <1>1, <1>2, <1>3, <1>4, <1>5, <1>6, <1>7, <1>8, <1>9, <1>10, <1>11, <1>12

LEMMA OwnedInit ==
  ASSUME Init
  PROVE  Owned(plan, prepared)
<1>1. plan = [p \in Plans |-> NoPlan] /\ prepared = [m \in Prepared |-> NotPrepared]
  BY DEF Init
<1>2. \A p \in Plans : plan[p] = NoPlan
  BY <1>1
<1>3. \A m \in Prepared : prepared[m] = NotPrepared
  BY <1>1
<1>4. plan \in [Plans -> Variable] /\ prepared \in [Prepared -> Allocation]
  BY <1>1, PlanConstants
<1>5. \A p \in Plans : VariableOK(plan[p], prepared)
  BY <1>2, PlanConstants DEF VariableOK
<1> QED
  BY <1>2, <1>3, <1>4, <1>5, PlanConstants DEF Owned

\* Types of the other variables.
Stacks ==
  /\ scopes \in Seq(Scope) /\ executors \in Seq(Executors)
  /\ connections \in Seq(Connection) /\ nest \in Seq(Subs)
  /\ mode \in {"run", "unwind"} /\ atomic \in BOOLEAN
  /\ CurrentMemoryContext \in 0 .. MaxExecutors /\ table \in [Tables -> Rows]

LEMMA PopAny ==
  ASSUME NEW S, NEW q \in Seq(S)
  PROVE  Pop(q) \in Seq(S)
<1>1. CASE q # <<>>
  BY <1>1, PopSeq
<1>2. CASE q = <<>>
  BY <1>2 DEF Pop
<1> QED
  BY <1>1, <1>2

LEMMA StacksEndSub ==
  ASSUME Stacks, NEW how, EndSub(how)
  PROVE  nest' \in Seq(Subs) /\ connections' \in Seq(Connection) /\ table' \in [Tables -> Rows]
<1>1. nest' = Pop(nest) /\ nest' \in Seq(Subs)
  BY PopAny DEF EndSub, Stacks
<1>2. PICK n \in 0 .. Len(connections) : \E C :
        /\ connections' = SubSeq(connections, 1, n)
        /\ table' = [r \in Tables |->
             IF table[r].by = 0 THEN NoTable
             ELSE [table[r] EXCEPT
               !.gone = @ \/ (how = "aborted" /\ table[r].sub = Innermost(nest))
                          \/ table[r].conn \in C,
               !.undone = @ \/ (how = "aborted" /\ table[r].sub = Innermost(nest)),
               !.sub = IF @ = Innermost(nest) THEN Innermost(Pop(nest)) ELSE @]]
  BY DEF EndSub
<1>3. connections' \in Seq(Connection)
  <2>1. n \in Nat /\ n <= Len(connections) /\ connections \in Seq(Connection)
    BY DEF Stacks
  <2>2. PICK c : c = SubSeq(connections, 1, n)
    OBVIOUS
  <2>3. c \in Seq(Connection)
    BY <2>1, <2>2
  <2> QED
    BY <1>2, <2>2, <2>3
<1>4. PICK inner \in 0 .. MaxSubs : inner = Innermost(Pop(nest))
  BY <1>1, InnermostType
<1>5. PICK C :
        table' = [r \in Tables |->
             IF table[r].by = 0 THEN NoTable
             ELSE [table[r] EXCEPT
               !.gone = @ \/ (how = "aborted" /\ table[r].sub = Innermost(nest))
                          \/ table[r].conn \in C,
               !.undone = @ \/ (how = "aborted" /\ table[r].sub = Innermost(nest)),
               !.sub = IF @ = Innermost(nest) THEN Innermost(Pop(nest)) ELSE @]]
  BY <1>2
<1>6. ASSUME NEW r \in Tables PROVE table'[r] \in Rows
  <2>1. CASE table[r].by = 0
    BY <1>5, <2>1, NoTableRead
  <2>2. CASE table[r].by # 0
    <3>1. table[r] \in Rows
      BY DEF Stacks
    <3> QED
      BY <1>4, <1>5, <2>2, <3>1 DEF Rows
  <2> QED
    BY <2>1, <2>2
<1>7. table' = [r \in Tables |-> table'[r]]
  BY <1>5
<1> QED
  BY <1>1, <1>3, <1>6, <1>7

LEMMA StacksClose ==
  ASSUME Stacks, Close
  PROVE  Stacks'
<1>1. /\ scopes' = Pop(scopes) /\ executors' = Pop(executors)
      /\ connections' = (IF Finished = {} THEN <<>> ELSE Pop(connections))
      /\ UNCHANGED <<mode, atomic, nest>>
      /\ table' = [r \in Tables |->
           IF table[r].by \in {0, Top.id} THEN NoTable
           ELSE [table[r] EXCEPT !.gone = @ \/ table[r].conn \in Finished]]
  BY DEF Close
<1>2. scopes' \in Seq(Scope) /\ executors' \in Seq(Executors) /\ connections' \in Seq(Connection)
  BY <1>1, PopAny DEF Stacks
<1>3. CurrentMemoryContext' \in 0 .. MaxExecutors
  BY BoundsAssumption DEF Close, Stacks
<1>4. ASSUME NEW r \in Tables PROVE table'[r] \in Rows
  <2>1. CASE table[r].by \in {0, Top.id}
    BY <1>1, <2>1, NoTableRead
  <2>2. CASE table[r].by \notin {0, Top.id}
    <3>1. table[r] \in Rows
      BY DEF Stacks
    <3> QED
      BY <1>1, <2>2, <3>1 DEF Rows
  <2> QED
    BY <2>1, <2>2
<1>5. table' \in [Tables -> Rows]
  BY <1>1, <1>4
<1> QED
  BY <1>1, <1>2, <1>3, <1>5 DEF Stacks

LEMMA StacksOpen ==
  ASSUME Stacks, NEW e \in Executors, NEW kind \in {"executor", "nonatomic"},
         NEW isAtomic \in BOOLEAN, Open(e, kind, isAtomic)
  PROVE  Stacks'
<1> DEFINE x == [kind |-> kind, id |-> e, finished |-> kind = "executor"]
           c == [id |-> e, sub |-> Innermost(nest), atomic |-> isAtomic]
<1>1. /\ scopes' = Append(scopes, x) /\ connections' = Append(connections, c)
      /\ executors' = Append(executors, e)
      /\ UNCHANGED <<mode, atomic, nest, table, CurrentMemoryContext>>
  BY DEF Open, Connect, data
<1>2. /\ e \in 0 .. MaxExecutors + MaxSubs /\ e \in 0 .. MaxExecutors
      /\ (kind = "executor") \in BOOLEAN
  BY BoundsAssumption DEF Executors
<1>3. x \in Scope
  BY <1>2 DEF Scope
<1>4. c \in Connection
  BY <1>2, InnermostType DEF Connection, Stacks
<1> HIDE DEF x, c
<1> QED
  BY <1>1, <1>3, <1>4 DEF Stacks

LEMMA StacksQuery ==
  ASSUME Stacks, NEW e \in Executors, NEW r \in Tables, Query(e, r)
  PROVE  Stacks'
<1> DEFINE x == [by |-> e, conn |-> Last(connections).id, sub |-> Innermost(nest),
                 gone |-> FALSE, undone |-> FALSE]
<1>1. /\ table' = [table EXCEPT ![r] = x] /\ connections # <<>>
      /\ UNCHANGED <<scopes, mode, atomic, executors, connections, nest, CurrentMemoryContext>>
  BY DEF Query, Connected, spi
<1>2. Last(connections).id \in 0 .. MaxExecutors
  <2>1. PICK k \in Nat : k = Len(connections) /\ k > 0
    BY <1>1, EmptySeq DEF Stacks
  <2>2. connections[k] \in Connection
    BY <2>1 DEF Stacks
  <2> QED
    BY <2>1, <2>2 DEF Last, Connection
<1>3. e \in 0 .. MaxExecutors
  BY BoundsAssumption DEF Executors
<1>4. x \in Rows
  BY <1>2, <1>3, InnermostType DEF Stacks, Rows
<1> HIDE DEF x
<1> QED
  BY <1>1, <1>4 DEF Stacks

LEMMA StacksFinishSub ==
  ASSUME Stacks, NEW g \in DOMAIN scopes, NEW how, FinishSub(g, how)
  PROVE  Stacks'
<1>1. /\ EndSub(how) /\ scopes' = [scopes EXCEPT ![g].finished = TRUE]
      /\ UNCHANGED <<mode, atomic, executors, CurrentMemoryContext>>
  BY DEF FinishSub
<1>2. scopes \in Seq(Scope)
  BY DEF Stacks
<1>3. scopes' \in Seq(Scope)
  BY <1>1, <1>2, FinishScope
<1> QED
  BY <1>1, <1>3, StacksEndSub DEF Stacks

LEMMA StacksCheckAtomic ==
  ASSUME Stacks, CheckAtomic
  PROVE  Stacks'
<1>1. /\ scopes # <<>>
      /\ UNCHANGED <<atomic, executors, connections, nest, table, CurrentMemoryContext>>
      /\ \/ mode' = "unwind" /\ scopes' = scopes
         \/ scopes' = [scopes EXCEPT ![Len(scopes)].finished = TRUE] /\ mode' = mode
  BY DEF CheckAtomic, Built, Inside, Raise, spi, data
<1>2. PICK n : n = Len(scopes)
  OBVIOUS
<1>3. n \in DOMAIN scopes
  <2>1. Len(scopes) \in Nat /\ Len(scopes) > 0
    BY <1>1, EmptySeq DEF Stacks
  <2> QED
    BY <1>2, <2>1 DEF Stacks
<1>4. scopes \in Seq(Scope)
  BY DEF Stacks
<1>5. scopes' \in Seq(Scope)
  <2>1. [scopes EXCEPT ![n].finished = TRUE] \in Seq(Scope)
    BY <1>3, <1>4, FinishScope
  <2> QED
    BY <1>1, <1>2, <1>4, <2>1
<1> QED
  BY <1>1, <1>5 DEF Stacks

LEMMA StacksNext ==
  ASSUME Stacks, [Next]_vars
  PROVE  Stacks'
<1>1. CASE UNCHANGED <<scopes, executors, connections, nest, atomic, table, CurrentMemoryContext>>
           /\ mode' \in {"run", "unwind"}
  BY <1>1 DEF Stacks
<1>2. CASE Enter
  <2>1. [kind |-> "try", id |-> 0, finished |-> TRUE] \in Scope
    BY BoundsAssumption DEF Scope
  <2> QED
    BY <1>2, <2>1 DEF Enter, Stacks, spi, data
<1>3. CASE LeaveTry
  BY <1>3, PopAny DEF LeaveTry, Stacks, spi, data
<1>4. CASE \E s \in Subs : BeginSub(s)
  <2>1. PICK s \in Subs : BeginSub(s)
    BY <1>4
  <2>2. [kind |-> "sub", id |-> s, finished |-> FALSE] \in Scope
    BY BoundsAssumption DEF Scope, Subs
  <2> QED
    BY <2>1, <2>2 DEF BeginSub, Stacks, data
<1>5. CASE \E how \in {"committed", "aborted"} : LeaveSub(how)
  <2>1. PICK how \in {"committed", "aborted"} : LeaveSub(how)
    BY <1>5
  <2>2. /\ scopes' = Pop(scopes) /\ UNCHANGED <<mode, atomic, executors, CurrentMemoryContext>>
        /\ EndSub(how) \/ UNCHANGED <<connections, nest, table>>
    BY <2>1 DEF LeaveSub, spi
  <2>3. nest' \in Seq(Subs) /\ connections' \in Seq(Connection) /\ table' \in [Tables -> Rows]
    BY <2>2, StacksEndSub DEF Stacks
  <2> QED
    BY <2>2, <2>3, PopAny DEF Stacks
<1>6. CASE \E how \in {"committed", "aborted"} : \E g \in DOMAIN scopes : FinishSub(g, how)
  BY <1>6, StacksFinishSub
<1>7. CASE \E e \in Executors, kind \in {"executor", "nonatomic"}, isAtomic \in BOOLEAN :
             Open(e, kind, isAtomic)
  BY <1>7, StacksOpen
<1>8. CASE CheckAtomic
  BY <1>8, StacksCheckAtomic
<1>9. CASE Close
  BY <1>9, StacksClose
<1>10. CASE \E e \in Executors : EndTransaction(e)
  <2>1. PICK C :
          /\ table' = [r \in Tables |-> [table[r] EXCEPT !.gone =
               @ \/ (table[r].by # 0 /\ table[r].conn \in C)]]
          /\ UNCHANGED <<scopes, mode, atomic, executors, connections, nest, CurrentMemoryContext>>
    BY <1>10 DEF EndTransaction, spi
  <2>2. \A r \in Tables : table'[r] \in Rows
    BY <2>1 DEF Stacks, Rows
  <2>3. table' \in [Tables -> Rows]
    BY <2>1, <2>2
  <2> QED
    BY <2>1, <2>3 DEF Stacks
<1>11. CASE \E e \in Executors, r \in Tables : Query(e, r)
  BY <1>11, StacksQuery
<1>12. CASE \E e \in Executors, p \in Plans, r \in Tables : QueryPlan(e, p, r)
  BY <1>11, <1>12 DEF QueryPlan
<1>13. CASE \E r \in Tables : DropTable(r)
  BY <1>13, NoTableRead DEF DropTable, Stacks, spi
<1>14. CASE Caught \/ Throw \/ (\E e \in Executors : OpenFails(e) \/ Refused(e))
            \/ (\E p \in Plans : UseGone(p))
  <2>1. UNCHANGED <<scopes, executors, connections, nest, atomic, table, CurrentMemoryContext>>
        /\ mode' \in {"run", "unwind"}
    BY <1>14 DEF Caught, Throw, OpenFails, Refused, UseGone, Raise, spi, data
  <2> QED
    BY <1>1, <2>1
<1>15. CASE \/ \E e \in Executors, p \in Plans, m \in Prepared : Prepare(e, p, m)
            \/ \E p \in Plans : Keep(p) \/ Release(p) \/ DestroyPlan(p)
            \/ \E p, q \in Plans : MovePlan(p, q)
            \/ \E m \in Prepared : FreeReleased(m)
            \/ UNCHANGED vars
  <2>1. UNCHANGED <<scopes, executors, connections, nest, atomic, table, CurrentMemoryContext>>
        /\ mode' = mode
    BY <1>15 DEF Prepare, Keep, Release, DestroyPlan, MovePlan, FreeReleased, vars, spi
  <2> QED
    BY <1>1, <2>1 DEF Stacks
<1> QED
  BY <1>2, <1>3, <1>4, <1>5, <1>6, <1>7, <1>8, <1>9, <1>10, <1>11, <1>12, <1>13, <1>14, <1>15
     DEF Next

LEMMA StacksInit ==
  ASSUME Init
  PROVE  Stacks
<1>1. StackInv /\ Read(table)
  BY StackInit, ReadInit
<1>2. 0 \in 0 .. MaxExecutors
  BY BoundsAssumption
<1> QED
  BY <1>1, <1>2 DEF Stacks, StackInv, Read

\* Every variable of Spi keeps its type, with or without the duties; in particular no
\* plan is freed twice (executor.hpp:53-57).
THEOREM SpiTypes == Spec => []TypeOK
<1> DEFINE I == Stacks /\ Owned(plan, prepared)
<1>1. Init => I
  BY StacksInit, OwnedInit
<1>2. I /\ [Next]_vars => I'
  BY StacksNext, OwnedNext DEF Stacks
<1>3. I => TypeOK
  BY DEF Stacks, Owned, TypeOK, Rows, Variable, Allocation
<1> HIDE DEF I
<1> QED
  BY <1>1, <1>2, <1>3, PTL DEF Spec

\* A plan that keep() saved (executor.hpp:36) and that is still there is one variable's
\* to free, or else that of the caller of release(), and nobody is to free one that is
\* gone, however plans are moved, released and outlive their executors.  This needs none
\* of the duties.
THEOREM SavedPlansAreOwned == Spec => []SavedPlanHasOneOwner
<1> DEFINE I == Stacks /\ Owned(plan, prepared)
<1>1. Init => I
  BY StacksInit, OwnedInit
<1>2. I /\ [Next]_vars => I'
  BY StacksNext, OwnedNext DEF Stacks
<1>3. I => SavedPlanHasOneOwner
  <2> DEFINE keepers(m) == {p \in Plans : plan[p].of = m /\ plan[p].kept}
  <2> SUFFICES ASSUME I, NEW m \in Prepared
               PROVE  IF prepared[m].life = "live" /\ prepared[m].saved
                      THEN IF prepared[m].raw THEN keepers(m) = {}
                           ELSE Cardinality(keepers(m)) = 1
                      ELSE keepers(m) = {}
    BY DEF SavedPlanHasOneOwner
  <2>1. \A p \in keepers(m) : plan[p].tracked /\ prepared[m].life = "live" /\ prepared[m].saved
                              /\ ~prepared[m].raw
    BY DEF Owned, VariableOK
  <2>2. ASSUME prepared[m].life = "live", prepared[m].saved, ~prepared[m].raw
        PROVE  Cardinality(keepers(m)) = 1
    <3>1. PICK p \in Plans : p \in keepers(m)
      BY <2>2 DEF Owned
    <3>2. \A q \in keepers(m) : q = p
      BY <2>1, <3>1 DEF Owned
    <3>3. keepers(m) = {p}
      BY <3>1, <3>2
    <3> QED
      BY <3>3, FS_Singleton
  <2> QED
    BY <2>1, <2>2
<1> HIDE DEF I
<1> QED
  BY <1>1, <1>2, <1>3, PTL DEF Spec
================================================================================
