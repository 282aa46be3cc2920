------------------------------ MODULE MemoryProofs ------------------------------
(****************************************************************************)
(* Theorems about Memory, for any number of contexts, states, objects and     *)
(* variables.                                                                *)
(****************************************************************************)
EXTENDS Memory, SequenceTheorems, FiniteSetTheorems, TLAPS

Struct == ({"state"} \X States) \cup ({"object"} \X Objects) \cup {<<"dangling", 0>>}

\* A list of reset callbacks has every struct once; the dangling ones look the same.
NoDup(s) == \A i, j \in DOMAIN s : s[i] = s[j] /\ s[i][1] # "dangling" => i = j

\* A struct is in the list of one context, and a context that is gone has none.
Lists ==
  /\ callbacks \in [Contexts -> Seq(Struct)]
  /\ \A c \in Contexts : NoDup(callbacks[c])
  /\ \A c, d \in Contexts, x \in Struct :
       x \in Structs(c) /\ x \in Structs(d) /\ x[1] # "dangling" => c = d
  /\ \A c \in Contexts : context[c].life = "none" => callbacks[c] = <<>>

\* Trackers: one that has not counted a reset still has its callback, in the context
\* of every pointer it guards.
Used(s) == \E v \in Values, p \in Parts : value[v][p].state = s

Guarded ==
  /\ \A s \in States : Used(s) => (state[s].callback <=> state[s].counter = 0)
  /\ \A v \in Values, p \in Parts : value[v][p].state # 0 =>
       \/ state[value[v][p].state].counter > 0
       \/ <<"state", value[v][p].state>> \in Structs(value[v][p].context)

Trackers == CallbacksPaired /\ GoneIsKnown /\ Guarded

\* A variable without a datum is as good as none.
Variables == ObjectsGoWithContext /\ \A v \in Values : ~Exists(v) => value[v] = NoValue

Typed == TypeOK /\ cleaning \in Seq(Made)

Inv == Typed /\ Lists /\ OneOwner /\ Trackers /\ Variables
-------------------------------------------------------------------------------
\* Lists.

LEMMA SetInduction ==
  ASSUME NEW S, 0 \in S, \A n \in Nat : n \in S => n + 1 \in S
  PROVE  Nat \subseteq S
<1> DEFINE T == Nat \ S
<1> SUFFICES ASSUME T # {} PROVE FALSE
  OBVIOUS
<1>1. PICK n \in T : \A m \in T : <<m, n>> \notin OpToRel(<, Nat)
  <2>1. IsWellFoundedOn(OpToRel(<, Nat), Nat)
    BY NatLessThanWellFounded
  <2> QED
    BY <2>1, WFMin
<1>2. n \in Nat /\ n # 0 /\ n - 1 \in Nat /\ n - 1 < n
  OBVIOUS
<1>3. <<n - 1, n>> \in OpToRel(<, Nat)
  BY <1>2 DEF OpToRel
<1>4. n - 1 \notin T
  BY <1>1, <1>3
<1> QED
  BY <1>2, <1>4

LEMMA PushedList ==
  ASSUME NEW s \in Seq(Struct), NEW x \in Struct
  PROVE  /\ <<x>> \o s \in Seq(Struct)
         /\ Range(<<x>> \o s) = Range(s) \cup {x}
         /\ NoDup(s) /\ x \notin Range(s) => NoDup(<<x>> \o s)
<1> DEFINE t == <<x>> \o s
<1>1. PICK n \in Nat : n = Len(s)
  OBVIOUS
<1>2. /\ t \in Seq(Struct) /\ DOMAIN t = 1..(n + 1) /\ t[1] = x
      /\ \A i \in 1..(n + 1) : i # 1 => i - 1 \in 1..n /\ t[i] = s[i - 1]
  BY <1>1
<1>3. DOMAIN s = 1..n
  BY <1>1
<1> HIDE DEF t
<1>4. Range(t) = Range(s) \cup {x}
  <2>1. ASSUME NEW y \in Range(t) PROVE y \in Range(s) \cup {x}
    <3>1. PICK i \in 1..(n + 1) : y = t[i]
      BY <1>2 DEF Range
    <3>2. i # 1 => i - 1 \in DOMAIN s /\ y = s[i - 1]
      BY <1>2, <1>3, <3>1
    <3>3. i = 1 => y = x
      BY <1>2, <3>1
    <3> QED
      BY <3>2, <3>3 DEF Range
  <2>2. ASSUME NEW i \in 1..n PROVE s[i] \in Range(t)
    <3>1. i + 1 \in 1..(n + 1) /\ i + 1 # 1 /\ (i + 1) - 1 = i
      BY <1>1
    <3>2. t[i + 1] = s[i]
      BY <1>2, <3>1
    <3> QED
      BY <1>2, <3>1, <3>2 DEF Range
  <2>3. x \in Range(t)
    BY <1>1, <1>2 DEF Range
  <2> QED
    BY <1>3, <2>1, <2>2, <2>3 DEF Range
<1>5. ASSUME NoDup(s), x \notin Range(s) PROVE NoDup(t)
  <2> SUFFICES ASSUME NEW i \in 1..(n + 1), NEW j \in 1..(n + 1), t[i] = t[j], t[i][1] # "dangling"
               PROVE  i = j
    BY <1>2 DEF NoDup
  <2>1. \A k \in 1..n : s[k] # x
    BY <1>3, <1>5 DEF Range
  <2>2. CASE i = 1 \/ j = 1
    BY <1>2, <2>1, <2>2
  <2>3. CASE i # 1 /\ j # 1
    <3>1. i - 1 \in DOMAIN s /\ j - 1 \in DOMAIN s
      BY <1>2, <1>3, <2>3
    <3>2. s[i - 1] = s[j - 1] /\ s[i - 1][1] # "dangling"
      BY <1>2, <2>3
    <3>3. i - 1 = j - 1
      BY <1>5, <3>1, <3>2 DEF NoDup
    <3> QED
      BY <3>3
  <2> QED
    BY <2>2, <2>3
<1> QED
  BY <1>2, <1>4, <1>5 DEF t

LEMMA PoppedList ==
  ASSUME NEW s \in Seq(Struct), s # <<>>, NoDup(s)
  PROVE  /\ s[1] \in Struct /\ s[1] \in Range(s)
         /\ Tail(s) \in Seq(Struct) /\ NoDup(Tail(s))
         /\ Range(s) = Range(Tail(s)) \cup {s[1]}
         /\ s[1][1] # "dangling" => s[1] \notin Range(Tail(s))
<1> DEFINE t == Tail(s)
<1>1. PICK n \in Nat : Len(s) = n + 1
  <2>1. Len(s) \in Nat /\ Len(s) # 0
    BY EmptySeq
  <2>2. Len(s) - 1 \in Nat /\ Len(s) = (Len(s) - 1) + 1
    BY <2>1
  <2> QED
    BY <2>2
<1>2. DOMAIN s = 1..(n + 1) /\ \A i \in 1..(n + 1) : s[i] \in Struct
  BY <1>1
<1>3. t \in Seq(Struct) /\ DOMAIN t = 1..n /\ \A i \in 1..n : i + 1 \in 1..(n + 1) /\ t[i] = s[i + 1]
  BY <1>1, HeadTailProperties
<1> HIDE DEF t
<1>4. s[1] \in Struct /\ s[1] \in Range(s)
  BY <1>2 DEF Range
<1>5. NoDup(t)
  <2> SUFFICES ASSUME NEW i \in 1..n, NEW j \in 1..n, t[i] = t[j], t[i][1] # "dangling"
               PROVE  i = j
    BY <1>3 DEF NoDup
  <2>1. i + 1 \in DOMAIN s /\ j + 1 \in DOMAIN s
    BY <1>2, <1>3
  <2>2. s[i + 1] = s[j + 1] /\ s[i + 1][1] # "dangling"
    BY <1>3
  <2>3. i + 1 = j + 1
    BY <2>1, <2>2 DEF NoDup
  <2> QED
    BY <2>3
<1>6. Range(s) = Range(t) \cup {s[1]}
  <2>1. ASSUME NEW i \in 1..(n + 1) PROVE s[i] \in Range(t) \cup {s[1]}
    <3>1. CASE i # 1
      <4>1. i - 1 \in 1..n /\ (i - 1) + 1 = i
        BY <1>1, <3>1
      <4>2. t[i - 1] = s[i]
        BY <1>3, <4>1
      <4> QED
        BY <1>3, <4>1, <4>2 DEF Range
    <3> QED
      BY <3>1
  <2>2. ASSUME NEW i \in 1..n PROVE t[i] \in Range(s)
    BY <1>2, <1>3 DEF Range
  <2> QED
    BY <1>2, <1>3, <1>4, <2>1, <2>2 DEF Range
<1>7. ASSUME s[1][1] # "dangling" PROVE s[1] \notin Range(t)
  <2> SUFFICES ASSUME NEW i \in 1..n, t[i] = s[1] PROVE FALSE
    BY <1>3 DEF Range
  <2>1. i + 1 \in 1..(n + 1) /\ s[i + 1] = s[1] /\ 1 \in 1..(n + 1)
    BY <1>3
  <2>2. i + 1 = 1
    BY <1>2, <1>7, <2>1 DEF NoDup
  <2> QED
    BY <2>2
<1> QED
  BY <1>3, <1>4, <1>5, <1>6, <1>7 DEF t

\* The struct of a list that is left dangling, one for each element of X.
LEMMA DanglingList ==
  ASSUME NEW s \in Seq(Struct), NEW t, NEW X, NoDup(s), DOMAIN t = DOMAIN s,
         t = [i \in DOMAIN s |-> t[i]],
         \A i \in DOMAIN s : t[i] = IF s[i] \in X THEN <<"dangling", 0>> ELSE s[i]
  PROVE  /\ t \in Seq(Struct) /\ NoDup(t)
         /\ Range(s) \ X \subseteq Range(t)
         /\ Range(t) \subseteq (Range(s) \ X) \cup {<<"dangling", 0>>}
<1>1. PICK n \in Nat : n = Len(s)
  OBVIOUS
<1>2. DOMAIN s = 1..n /\ \A i \in 1..n : s[i] \in Struct
  BY <1>1
<1>3. \A i \in 1..n : t[i] \in Struct
  BY <1>2 DEF Struct
<1>4. t \in Seq(Struct)
  <2>1. t \in [1..n -> Struct]
    BY <1>2, <1>3
  <2> QED
    BY <2>1
<1>5. NoDup(t)
  BY DEF NoDup
<1>6. Range(s) \ X \subseteq Range(t) /\ Range(t) \subseteq (Range(s) \ X) \cup {<<"dangling", 0>>}
  BY DEF Range
<1> QED
  BY <1>4, <1>5, <1>6

\* What Without computes, element by element.
Builds(g, s, X, n) ==
  /\ g \in [0..n -> Seq(Struct)]
  /\ \A i \in 0..n :
       g[i] = IF i = 0 THEN <<>> ELSE IF s[i] \in X THEN g[i - 1] ELSE Append(g[i - 1], s[i])

LEMMA BuildsExist ==
  ASSUME NEW s \in Seq(Struct), NEW X
  PROVE  \E g : Builds(g, s, X, Len(s))
<1>1. PICK l \in Nat : l = Len(s)
  OBVIOUS
<1> DEFINE T == {n \in Nat : n <= l => \E g : Builds(g, s, X, n)}
<1>2. 0 \in T
  <2> DEFINE g == [i \in 0..0 |-> <<>>]
  <2>1. <<>> \in Seq(Struct)
    BY EmptySeq
  <2>2. g \in [0..0 -> Seq(Struct)] /\ \A i \in 0..0 : i = 0 /\ g[i] = <<>>
    BY <2>1
  <2>3. Builds(g, s, X, 0)
    BY <2>2 DEF Builds
  <2> QED
    BY <2>3
<1>3. ASSUME NEW n \in Nat, n \in T PROVE n + 1 \in T
  <2> SUFFICES ASSUME n + 1 <= l PROVE \E g : Builds(g, s, X, n + 1)
    OBVIOUS
  <2>1. PICK g : Builds(g, s, X, n)
    BY <1>1, <1>3
  <2> DEFINE last == IF s[n + 1] \in X THEN g[n] ELSE Append(g[n], s[n + 1])
             h == [i \in 0..(n + 1) |-> IF i = n + 1 THEN last ELSE g[i]]
  <2>2. s[n + 1] \in Struct /\ g[n] \in Seq(Struct)
    BY <1>1, <2>1 DEF Builds
  <2>3. last \in Seq(Struct)
    BY <2>2, AppendProperties
  <2> HIDE DEF last
  <2>4. \A i \in 0..(n + 1) : i = n + 1 \/ i \in 0..n
    OBVIOUS
  <2>5. h \in [0..(n + 1) -> Seq(Struct)]
    BY <2>1, <2>3, <2>4 DEF Builds
  <2>6. ASSUME NEW i \in 0..(n + 1)
        PROVE  h[i] = IF i = 0 THEN <<>>
                      ELSE IF s[i] \in X THEN h[i - 1] ELSE Append(h[i - 1], s[i])
    <3>1. CASE i = n + 1
      <4>1. i # 0 /\ i - 1 = n /\ h[i] = last /\ h[i - 1] = g[n]
        BY <3>1
      <4> QED
        BY <3>1, <4>1 DEF last
    <3>2. CASE i \in 0..n
      <4>1. h[i] = g[i] /\ (i # 0 => i - 1 \in 0..(n + 1) /\ h[i - 1] = g[i - 1])
        BY <3>2
      <4>2. g[i] = IF i = 0 THEN <<>> ELSE IF s[i] \in X THEN g[i - 1] ELSE Append(g[i - 1], s[i])
        BY <2>1, <3>2 DEF Builds
      <4> QED
        BY <4>1, <4>2
    <3> QED
      BY <2>4, <3>1, <3>2
  <2> HIDE DEF h
  <2>7. Builds(h, s, X, n + 1)
    BY <2>5, <2>6 DEF Builds
  <2> QED
    BY <2>7
<1> HIDE DEF T
<1>4. l \in T
  BY <1>2, <1>3, SetInduction
<1> QED
  BY <1>1, <1>4 DEF T

LEMMA WithoutIsBuilt ==
  ASSUME NEW s \in Seq(Struct), NEW X
  PROVE  \E g : Builds(g, s, X, Len(s)) /\ Without(s, X) = g[Len(s)]
<1>1. PICK g : Builds(g, s, X, Len(s))
  BY BuildsExist
<1> DEFINE Def(h) == [i \in 0..Len(s) |->
                   IF i = 0 THEN <<>> ELSE IF s[i] \in X THEN h[i - 1] ELSE Append(h[i - 1], s[i])]
           f == CHOOSE h : h = Def(h)
<1>2. g = Def(g)
  BY <1>1 DEF Builds
<1>3. f = Def(f)
  BY <1>2
<1>4. Without(s, X) = f[Len(s)]
  BY DEF Without
<1>5. PICK l \in Nat : l = Len(s)
  OBVIOUS
<1>6. \A i \in 0..l : f[i] = IF i = 0 THEN <<>>
                       ELSE IF s[i] \in X THEN f[i - 1] ELSE Append(f[i - 1], s[i])
  BY <1>3, <1>5
<1> HIDE DEF f
<1> DEFINE T == {n \in Nat : n <= l => f[n] = g[n]}
<1>7. 0 \in T
  BY <1>1, <1>5, <1>6 DEF Builds
<1>8. ASSUME NEW n \in Nat, n \in T PROVE n + 1 \in T
  <2> SUFFICES ASSUME n + 1 <= l PROVE f[n + 1] = g[n + 1]
    OBVIOUS
  <2>1. n + 1 \in 0..l /\ n + 1 # 0 /\ (n + 1) - 1 = n /\ f[n] = g[n]
    BY <1>5, <1>8
  <2>2. g[n + 1] = IF s[n + 1] \in X THEN g[n] ELSE Append(g[n], s[n + 1])
    BY <1>1, <1>5, <2>1 DEF Builds
  <2>3. f[n + 1] = IF s[n + 1] \in X THEN f[n] ELSE Append(f[n], s[n + 1])
    BY <1>6, <2>1
  <2> QED
    BY <2>1, <2>2, <2>3
<1> HIDE DEF T
<1>9. l \in T
  BY <1>7, <1>8, SetInduction
<1>10. f[l] = g[l]
  BY <1>9 DEF T
<1> QED
  BY <1>1, <1>4, <1>5, <1>10

\* Without keeps what is not in X, as often as it was there.
LEMMA ShorterList ==
  ASSUME NEW s \in Seq(Struct), NEW X, NoDup(s)
  PROVE  /\ Without(s, X) \in Seq(Struct) /\ NoDup(Without(s, X))
         /\ Range(Without(s, X)) = Range(s) \ X
         /\ s = <<>> => Without(s, X) = <<>>
<1>1. PICK l \in Nat : l = Len(s)
  OBVIOUS
<1>2. PICK g : Builds(g, s, X, l) /\ Without(s, X) = g[l]
  BY <1>1, WithoutIsBuilt
<1>3. DOMAIN s = 1..l /\ \A i \in 1..l : s[i] \in Struct
  BY <1>1
<1> DEFINE Kept(n) == {s[i] : i \in 1..n} \ X
           T == {n \in Nat : n <= l => NoDup(g[n]) /\ Range(g[n]) = Kept(n)}
<1>4. 0 \in T
  <2>1. g[0] = <<>>
    BY <1>1, <1>2 DEF Builds
  <2>2. NoDup(<<>>) /\ Range(<<>>) = {}
    BY EmptySeq DEF NoDup, Range
  <2>3. Kept(0) = {}
    OBVIOUS
  <2> QED
    BY <2>1, <2>2, <2>3
<1>5. ASSUME NEW n \in Nat, n \in T PROVE n + 1 \in T
  <2> SUFFICES ASSUME n + 1 <= l PROVE NoDup(g[n + 1]) /\ Range(g[n + 1]) = Kept(n + 1)
    OBVIOUS
  <2>1. n + 1 \in 0..l /\ n + 1 # 0 /\ (n + 1) - 1 = n /\ n \in 0..l /\ n + 1 \in 1..l
    BY <1>1
  <2>2. NoDup(g[n]) /\ Range(g[n]) = Kept(n)
    BY <1>1, <1>5
  <2>3. g[n] \in Seq(Struct) /\ s[n + 1] \in Struct
    BY <1>2, <1>3, <2>1 DEF Builds
  <2>4. g[n + 1] = IF s[n + 1] \in X THEN g[n] ELSE Append(g[n], s[n + 1])
    BY <1>2, <2>1 DEF Builds
  <2>5. \A i \in 1..(n + 1) : i \in 1..n \/ i = n + 1
    OBVIOUS
  <2>6. {s[i] : i \in 1..(n + 1)} = {s[i] : i \in 1..n} \cup {s[n + 1]}
    BY <2>5
  <2>7. CASE s[n + 1] \in X
    BY <2>2, <2>4, <2>6, <2>7
  <2>8. CASE s[n + 1] \notin X
    <3>1. PICK k \in Nat : k = Len(g[n])
      BY <2>3
    <3>2. /\ g[n + 1] \in Seq(Struct) /\ DOMAIN g[n + 1] = 1..(k + 1) /\ DOMAIN g[n] = 1..k
          /\ g[n + 1][k + 1] = s[n + 1] /\ \A i \in 1..k : g[n + 1][i] = g[n][i]
      BY <2>3, <2>4, <2>8, <3>1, AppendProperties
    <3>3. \A i \in 1..(k + 1) : i \in 1..k \/ i = k + 1
      BY <3>1
    <3>4. Range(g[n + 1]) = Range(g[n]) \cup {s[n + 1]}
      <4>1. k + 1 \in 1..(k + 1) /\ 1..k \subseteq 1..(k + 1)
        BY <3>1
      <4> QED
        BY <3>2, <3>3, <4>1 DEF Range
    <3>5. NoDup(g[n + 1])
      <4> SUFFICES ASSUME NEW i \in 1..(k + 1), NEW j \in 1..(k + 1),
                          g[n + 1][i] = g[n + 1][j], g[n + 1][i][1] # "dangling"
                   PROVE  i = j
        BY <3>2 DEF NoDup
      <4>1. CASE i \in 1..k /\ j \in 1..k
        BY <2>2, <3>2, <4>1 DEF NoDup
      <4>2. ASSUME NEW m \in 1..k, g[n][m] = s[n + 1], s[n + 1][1] # "dangling" PROVE FALSE
        <5>1. g[n][m] \in Range(g[n])
          BY <3>2 DEF Range
        <5>2. PICK h \in 1..n : s[h] = s[n + 1]
          BY <2>2, <4>2, <5>1
        <5>3. h = n + 1
          BY <1>1, <1>3, <2>1, <4>2, <5>2 DEF NoDup
        <5> QED
          BY <5>3
      <4> QED
        BY <3>2, <3>3, <4>1, <4>2
    <3> QED
      BY <2>2, <2>6, <2>8, <3>4, <3>5
  <2> QED
    BY <2>7, <2>8
<1> HIDE DEF T
<1>6. l \in T
  BY <1>4, <1>5, SetInduction
<1>7. NoDup(g[l]) /\ Range(g[l]) = Kept(l)
  BY <1>6 DEF T
<1>8. Range(s) \ X = Kept(l)
  BY <1>3 DEF Range
<1>9. g[l] \in Seq(Struct)
  BY <1>1, <1>2 DEF Builds
<1>10. s = <<>> => g[l] = <<>>
  <2> SUFFICES ASSUME s = <<>> PROVE g[l] = <<>>
    OBVIOUS
  <2>1. l = 0
    BY <1>1
  <2> QED
    BY <1>2, <2>1 DEF Builds
<1> QED
  BY <1>2, <1>7, <1>8, <1>9, <1>10
-------------------------------------------------------------------------------
\* The lists of all contexts.

\* Contexts come and go while their lists stay.
LEMMA ListsStay ==
  ASSUME Lists, UNCHANGED callbacks,
         \A c \in Contexts : context'[c].life = "none" => context[c].life = "none" \/ callbacks[c] = <<>>
  PROVE  Lists'
BY DEF Lists, Structs

\* A struct that is not registered is put in front of the list of c.
LEMMA ListsPushed ==
  ASSUME Lists, NEW c \in Contexts, NEW x \in Struct, ~Registered(x),
         callbacks' = [callbacks EXCEPT ![c] = <<x>> \o @],
         \A d \in Contexts : context'[d].life = "none" => context[d].life = "none" /\ d # c
  PROVE  /\ Lists'
         /\ \A d \in Contexts : Structs(d)' = IF d = c THEN Structs(c) \cup {x} ELSE Structs(d)
<1>1. /\ callbacks'[c] = <<x>> \o callbacks[c]
      /\ \A d \in Contexts : d # c => callbacks'[d] = callbacks[d]
      /\ callbacks[c] \in Seq(Struct) /\ NoDup(callbacks[c]) /\ x \notin Range(callbacks[c])
  BY DEF Lists, Registered, Structs
<1>2. /\ callbacks'[c] \in Seq(Struct) /\ NoDup(callbacks'[c])
      /\ Range(callbacks'[c]) = Range(callbacks[c]) \cup {x}
  BY <1>1, PushedList
<1>3. \A d \in Contexts : Structs(d)' = IF d = c THEN Structs(c) \cup {x} ELSE Structs(d)
  <2>1. Range(callbacks[c])' = Range(callbacks[c]) \cup {x}
    BY <1>2
  <2>2. ASSUME NEW d \in Contexts, d # c PROVE Range(callbacks[d])' = Range(callbacks[d])
    BY <1>1, <2>2 DEF Range
  <2> QED
    BY <2>1, <2>2 DEF Structs
<1>4. callbacks' \in [Contexts -> Seq(Struct)]
  BY <1>1, <1>2 DEF Lists
<1>5. \A d \in Contexts : NoDup(callbacks'[d])
  BY <1>1, <1>2 DEF Lists
<1>6. \A d \in Contexts : x \notin Structs(d)
  BY DEF Registered
<1>7. ASSUME NEW d \in Contexts, NEW e \in Contexts, NEW y \in Struct,
             y \in Structs(d)', y \in Structs(e)', y[1] # "dangling"
      PROVE  d = e
  <2>1. y = x => d = c /\ e = c
    BY <1>3, <1>6, <1>7
  <2>2. y # x => y \in Structs(d) /\ y \in Structs(e)
    BY <1>3, <1>7
  <2> QED
    BY <1>7, <2>1, <2>2 DEF Lists
<1>8. \A d \in Contexts : context'[d].life = "none" => callbacks'[d] = <<>>
  BY <1>1 DEF Lists
<1> QED
  BY <1>3, <1>4, <1>5, <1>7, <1>8 DEF Lists

\* Structs leave lists, or dangle.
LEMMA ListsReduced ==
  ASSUME Lists, UNCHANGED context, callbacks' \in [Contexts -> Seq(Struct)],
         \A c \in Contexts :
           /\ NoDup(callbacks'[c])
           /\ \A x \in Range(callbacks'[c]) : x[1] = "dangling" \/ x \in Range(callbacks[c])
           /\ callbacks[c] = <<>> => callbacks'[c] = <<>>
  PROVE  Lists'
<1>1. ASSUME NEW d \in Contexts, NEW e \in Contexts, NEW y \in Struct,
             y \in Structs(d)', y \in Structs(e)', y[1] # "dangling"
      PROVE  d = e
  <2>1. y \in Structs(d) /\ y \in Structs(e)
    BY <1>1 DEF Structs
  <2> QED
    BY <1>1, <2>1 DEF Lists
<1> QED
  BY <1>1 DEF Lists

\* The structs of some states are disarmed.
LEMMA ListsDisarmed ==
  ASSUME NEW S \in SUBSET States, NEW lists \in [Contexts -> Seq(Struct)],
         \A c \in Contexts : NoDup(lists[c]), NEW c \in Contexts
  PROVE  /\ Disarmed(lists, S) \in [Contexts -> Seq(Struct)]
         /\ NoDup(Disarmed(lists, S)[c])
         /\ Range(Disarmed(lists, S)[c]) =
              Range(lists[c]) \ {<<"state", s>> : s \in {t \in S : state[t].callback}}
         /\ lists[c] = <<>> => Disarmed(lists, S)[c] = <<>>
BY ShorterList DEF Disarmed

LEMMA ListsDangling ==
  ASSUME NEW S \in SUBSET States, NEW lists \in [Contexts -> Seq(Struct)],
         \A c \in Contexts : NoDup(lists[c]), NEW c \in Contexts
  PROVE  /\ Dangling(lists, S) \in [Contexts -> Seq(Struct)]
         /\ NoDup(Dangling(lists, S)[c])
         /\ Range(lists[c]) \ ({"state"} \X S) \subseteq Range(Dangling(lists, S)[c])
         /\ Range(Dangling(lists, S)[c]) \subseteq
              (Range(lists[c]) \ ({"state"} \X S)) \cup {<<"dangling", 0>>}
         /\ lists[c] = <<>> => Dangling(lists, S)[c] = <<>>
<1> DEFINE X == {"state"} \X S
<1>1. ASSUME NEW d \in Contexts
      PROVE  LET s == lists[d]  t == Dangling(lists, S)[d] IN
             /\ s \in Seq(Struct) /\ NoDup(s) /\ DOMAIN t = DOMAIN s /\ t = [i \in DOMAIN s |-> t[i]]
             /\ \A i \in DOMAIN s : t[i] = IF s[i] \in X THEN <<"dangling", 0>> ELSE s[i]
  <2> DEFINE s == lists[d]
             t == Dangling(lists, S)[d]
  <2>1. t = [i \in DOMAIN s |-> LET x == s[i] IN
                IF x[1] = "state" /\ x[2] \in S THEN <<"dangling", 0>> ELSE x]
    BY DEF Dangling
  <2>2. s \in Seq(Struct) /\ NoDup(s)
    OBVIOUS
  <2>3. \A i \in DOMAIN s : s[i] \in Struct
    BY <2>2
  <2>4. \A x \in Struct : x[1] = "state" /\ x[2] \in S <=> x \in X
    BY DEF Struct
  <2> QED
    BY <2>1, <2>2, <2>3, <2>4
<1> HIDE DEF X
<1>2. ASSUME NEW d \in Contexts
      PROVE  LET s == lists[d]  t == Dangling(lists, S)[d] IN
             /\ t \in Seq(Struct) /\ NoDup(t)
             /\ Range(s) \ X \subseteq Range(t)
             /\ Range(t) \subseteq (Range(s) \ X) \cup {<<"dangling", 0>>}
             /\ s = <<>> => t = <<>>
  <2> DEFINE s == lists[d]
             t == Dangling(lists, S)[d]
  <2>1. /\ s \in Seq(Struct) /\ NoDup(s) /\ DOMAIN t = DOMAIN s /\ t = [i \in DOMAIN s |-> t[i]]
        /\ \A i \in DOMAIN s : t[i] = IF s[i] \in X THEN <<"dangling", 0>> ELSE s[i]
    BY <1>1
  <2> HIDE DEF s, t
  <2>2. /\ t \in Seq(Struct) /\ NoDup(t)
        /\ Range(s) \ X \subseteq Range(t)
        /\ Range(t) \subseteq (Range(s) \ X) \cup {<<"dangling", 0>>}
    BY <2>1, DanglingList
  <2>3. s = <<>> => t = <<>>
    BY <2>1
  <2> QED
    BY <2>2, <2>3 DEF s, t
<1>3. Dangling(lists, S) \in [Contexts -> Seq(Struct)]
  <2>1. DOMAIN Dangling(lists, S) = Contexts /\ Dangling(lists, S) = [d \in Contexts |-> Dangling(lists, S)[d]]
    BY DEF Dangling
  <2> QED
    BY <1>2, <2>1
<1> QED
  BY <1>2, <1>3 DEF X
-------------------------------------------------------------------------------
\* Trackers.

LEMMA SomeRef ==
  ASSUME NEW val, NEW s
  PROVE  {r \in Values \X Parts : val[r[1]][r[2]].state = s} # {} <=>
           \E v \in Values, p \in Parts : val[v][p].state = s
<1>1. ASSUME NEW r \in Values \X Parts, val[r[1]][r[2]].state = s
      PROVE  \E v \in Values, p \in Parts : val[v][p].state = s
  BY <1>1
<1>2. ASSUME NEW v \in Values, NEW p \in Parts, val[v][p].state = s
      PROVE  <<v, p>> \in {r \in Values \X Parts : val[r[1]][r[2]].state = s}
  BY <1>2
<1> QED
  BY <1>1, <1>2

LEMMA RefsUsed == (\A s : Refs(s) # {} <=> Used(s)) /\ (\A s : Refs(s)' # {} <=> Used(s)')
BY SomeRef DEF Refs, Used

LEMMA EndsOf ==
  ASSUME NEW V \in SUBSET Values, NEW s \in States
  PROVE  s \in Ends(V \X Parts) <=>
           Used(s) /\ \A v \in Values, p \in Parts : value[v][p].state = s => v \in V
<1>1. Refs(s) \subseteq V \X Parts <=>
        \A v \in Values, p \in Parts : value[v][p].state = s => v \in V
  <2>1. ASSUME Refs(s) \subseteq V \X Parts, NEW v \in Values, NEW p \in Parts, value[v][p].state = s
        PROVE  v \in V
    <3>1. <<v, p>> \in Refs(s)
      BY <2>1 DEF Refs
    <3> QED
      BY <2>1, <3>1
  <2>2. ASSUME \A v \in Values, p \in Parts : value[v][p].state = s => v \in V, NEW r \in Refs(s)
        PROVE  r \in V \X Parts
    <3>1. r \in Values \X Parts /\ value[r[1]][r[2]].state = s
      BY DEF Refs
    <3> QED
      BY <2>2, <3>1
  <2> QED
    BY <2>1, <2>2
<1> QED
  BY <1>1, RefsUsed DEF Ends

\* The shape of pointers, which TypeOK has by name.
LEMMA PtrTyped ==
  ASSUME TypeOK, NEW v \in Values, NEW p \in Parts
  PROVE  value[v][p] \in Ptr
BY DEF TypeOK, Parts

LEMMA StateTyped ==
  ASSUME TypeOK, NEW s \in States
  PROVE  state[s].counter \in 0..1 /\ state[s].callback \in BOOLEAN
BY DEF TypeOK

\* Pointers are copied or dropped, and with the last ones of the states E these go, and
\* their structs.
Drops(E) ==
  /\ \A s \in States : Used(s)' <=> Used(s) /\ s \notin E
  /\ \A v \in Values, p \in Parts :
       \/ value'[v][p] = NoPtr
       \/ \E u \in Values, q \in Parts :
            value'[v][p] = value[u][q] /\ value[u][q].state \notin E
  /\ state' = Forgotten(E)
  /\ \A c \in Contexts, s \in States :
       <<"state", s>> \in Structs(c)' <=> <<"state", s>> \in Structs(c) /\ s \notin E

LEMMA TrackersDropped ==
  ASSUME TypeOK, Trackers, NEW E \in SUBSET States, Drops(E)
  PROVE  Trackers'
<1>1. \A s \in States : state'[s] = IF s \in E THEN NoState ELSE state[s]
  BY DEF Drops, Forgotten
<1>2. CallbacksPaired'
  <2> SUFFICES ASSUME NEW s \in States
               PROVE  (\E c \in Contexts : <<"state", s>> \in Structs(c)') <=>
                        Used(s)' /\ state'[s].callback
    BY RefsUsed DEF CallbacksPaired, Registered
  <2>1. (\E c \in Contexts : <<"state", s>> \in Structs(c)) <=> Used(s) /\ state[s].callback
    BY RefsUsed DEF Trackers, CallbacksPaired, Registered
  <2>2. s \notin E => state'[s] = state[s]
    BY <1>1
  <2> QED
    BY <2>1, <2>2 DEF Drops
<1>3. ASSUME NEW v \in Values, NEW p \in Parts, value'[v][p] # NoPtr
      PROVE  \E u \in Values, q \in Parts :
               /\ value'[v][p] = value[u][q] /\ value[u][q].state \notin E
               /\ value[u][q] \in Ptr
               /\ value[u][q].state # 0 => state'[value[u][q].state] = state[value[u][q].state]
  <2>1. PICK u \in Values, q \in Parts : value'[v][p] = value[u][q] /\ value[u][q].state \notin E
    BY <1>3 DEF Drops
  <2>2. value[u][q] \in Ptr
    BY PtrTyped
  <2>3. value[u][q].state # 0 => value[u][q].state \in States
    BY <2>2 DEF Ptr, States
  <2> QED
    BY <1>1, <2>1, <2>2, <2>3
<1>4. GoneIsKnown'
  <2> SUFFICES ASSUME NEW v \in Values, NEW p \in Parts, value'[v][p].gone
               PROVE  Resets(value[v][p])' > 0
    BY DEF GoneIsKnown
  <2>1. value'[v][p] # NoPtr
    BY DEF NoPtr
  <2>2. PICK u \in Values, q \in Parts :
           /\ value'[v][p] = value[u][q]
           /\ value[u][q].state # 0 => state'[value[u][q].state] = state[value[u][q].state]
    BY <1>3, <2>1
  <2>3. Resets(value[u][q]) > 0
    BY <2>2 DEF Trackers, GoneIsKnown
  <2> QED
    BY <2>2, <2>3 DEF Resets
<1>5. ASSUME NEW s \in States, Used(s)' PROVE state'[s].callback <=> state'[s].counter = 0
  BY <1>1, <1>5 DEF Drops, Trackers, Guarded
<1>6. ASSUME NEW v \in Values, NEW p \in Parts, value'[v][p].state # 0
      PROVE  \/ state'[value'[v][p].state].counter > 0
             \/ <<"state", value'[v][p].state>> \in Range(callbacks'[value'[v][p].context])
  <2>1. value'[v][p] # NoPtr
    BY <1>6 DEF NoPtr
  <2>2. PICK u \in Values, q \in Parts :
               /\ value'[v][p] = value[u][q] /\ value[u][q].state \notin E
               /\ value[u][q] \in Ptr
               /\ value[u][q].state # 0 => state'[value[u][q].state] = state[value[u][q].state]
    BY <1>3, <2>1
  <2>3. PICK s \in States, c \in Contexts : s = value[u][q].state /\ c = value[u][q].context
    BY <1>6, <2>2 DEF Ptr, States
  <2>4. s # 0 /\ s \notin E
    BY <2>2, <2>3 DEF States
  <2>5. state[s].counter > 0 \/ <<"state", s>> \in Structs(c)
    BY <2>3, <2>4 DEF Trackers, Guarded
  <2>6. <<"state", s>> \in Structs(c) => <<"state", s>> \in Structs(c)'
    BY <2>4 DEF Drops
  <2>7. state'[s] = state[s]
    BY <2>2, <2>3, <2>4
  <2>8. state'[s].counter > 0 \/ <<"state", s>> \in Range(callbacks'[c])
    BY <2>5, <2>6, <2>7 DEF Structs
  <2> QED
    BY <2>2, <2>3, <2>8
<1>7. Guarded'
  BY <1>5, <1>6 DEF Guarded, Structs
<1> QED
  BY <1>2, <1>4, <1>7 DEF Trackers

\* One more tracker, of c by the state s, guards a pointer.
Tracks(s, c) ==
  /\ state' = [state EXCEPT ![s] = Tracking]
  /\ \A t \in States : Used(t)' <=> Used(t) \/ t = s
  /\ \A v \in Values, p \in Parts :
       \/ value'[v][p] \in {NoPtr, value[v][p]}
       \/ value'[v][p] = [context |-> c, state |-> s, gone |-> FALSE]
  /\ \A d \in Contexts, t \in States :
       <<"state", t>> \in Structs(d)' <=> <<"state", t>> \in Structs(d) \/ (d = c /\ t = s)

LEMMA TrackersTracked ==
  ASSUME TypeOK, Trackers, NEW s \in States, NEW c \in Contexts,
         ~Used(s), ~Registered(<<"state", s>>), Tracks(s, c)
  PROVE  Trackers'
<1>1. state'[s] = Tracking /\ \A t \in States : t # s => state'[t] = state[t]
  BY DEF Tracks, TypeOK
<1>2. CallbacksPaired'
  <2> SUFFICES ASSUME NEW t \in States
               PROVE  (\E d \in Contexts : <<"state", t>> \in Structs(d)') <=>
                        Used(t)' /\ state'[t].callback
    BY RefsUsed DEF CallbacksPaired, Registered
  <2>1. (\E d \in Contexts : <<"state", t>> \in Structs(d)) <=> Used(t) /\ state[t].callback
    BY RefsUsed DEF Trackers, CallbacksPaired, Registered
  <2>2. CASE t = s
    BY <1>1, <2>2 DEF Tracks, Tracking
  <2>3. CASE t # s
    BY <1>1, <2>1, <2>3 DEF Tracks
  <2> QED
    BY <2>2, <2>3
<1>3. ASSUME NEW v \in Values, NEW p \in Parts, value'[v][p] = value[v][p], value[v][p].state # 0
      PROVE  value[v][p].state \in States \ {s} /\ state'[value[v][p].state] = state[value[v][p].state]
  <2>1. value[v][p].state \in States
    BY <1>3, PtrTyped DEF Ptr, States
  <2> QED
    BY <1>1, <2>1 DEF Used
<1>4. GoneIsKnown'
  <2> SUFFICES ASSUME NEW v \in Values, NEW p \in Parts, value'[v][p].gone
               PROVE  Resets(value[v][p])' > 0
    BY DEF GoneIsKnown
  <2>1. value'[v][p] = value[v][p]
    BY DEF Tracks, NoPtr
  <2>2. Resets(value[v][p]) > 0
    BY <2>1 DEF Trackers, GoneIsKnown
  <2> QED
    BY <1>3, <2>1, <2>2 DEF Resets
<1>5. ASSUME NEW t \in States, Used(t)' PROVE state'[t].callback <=> state'[t].counter = 0
  <2>1. CASE t = s
    BY <1>1, <2>1 DEF Tracking
  <2>2. CASE t # s
    BY <1>1, <1>5, <2>2 DEF Tracks, Trackers, Guarded
  <2> QED
    BY <2>1, <2>2
<1>6. ASSUME NEW v \in Values, NEW p \in Parts, value'[v][p].state # 0
      PROVE  \/ state'[value'[v][p].state].counter > 0
             \/ <<"state", value'[v][p].state>> \in Range(callbacks'[value'[v][p].context])
  <2>1. CASE value'[v][p] = value[v][p]
    <3>1. PICK t \in States, d \in Contexts : t = value[v][p].state /\ d = value[v][p].context
      BY <1>6, <2>1, PtrTyped DEF Ptr, States
    <3>2. state[t].counter > 0 \/ <<"state", t>> \in Structs(d)
      BY <1>6, <2>1, <3>1 DEF Trackers, Guarded
    <3>3. <<"state", t>> \in Structs(d) => <<"state", t>> \in Structs(d)'
      BY DEF Tracks
    <3>4. state'[t] = state[t]
      BY <1>3, <1>6, <2>1, <3>1
    <3> QED
      BY <2>1, <3>1, <3>2, <3>3, <3>4 DEF Structs
  <2>2. CASE value'[v][p] = [context |-> c, state |-> s, gone |-> FALSE]
    <3>1. <<"state", s>> \in Structs(c)'
      BY DEF Tracks
    <3> QED
      BY <2>2, <3>1 DEF Structs
  <2>3. CASE value'[v][p] = NoPtr
    BY <1>6, <2>3 DEF NoPtr
  <2> QED
    BY <2>1, <2>2, <2>3 DEF Tracks
<1>7. Guarded'
  BY <1>5, <1>6 DEF Guarded, Structs
<1> QED
  BY <1>2, <1>4, <1>7 DEF Trackers

\* Nothing that trackers are made of changes.
LEMMA TrackersStay ==
  ASSUME Trackers, UNCHANGED <<callbacks, state, value>>
  PROVE  Trackers'
BY DEF Trackers, CallbacksPaired, GoneIsKnown, Guarded, Registered, Structs, Refs, Used, Resets
-------------------------------------------------------------------------------
\* Contexts and their owners.

LEMMA CleanIsSeq == ASSUME NEW D \in SUBSET Made PROVE Clean(D) \subseteq Seq(Made)
<1>1. IsFiniteSet(Made)
  BY BoundsAssumption, FS_Interval DEF Made
<1>2. PICK n \in Nat : n = Cardinality(D)
  BY <1>1, FS_Subset, FS_CardinalityType
<1> QED
  BY <1>2 DEF Clean

LEMMA Numbers ==
  /\ MaxContexts \in Nat /\ MaxStates \in Nat /\ MaxObjects \in Nat
  /\ 0 \in Contexts /\ Made \subseteq Contexts /\ 0 \notin Made
  /\ 0 \notin States /\ 0 \notin Objects
BY BoundsAssumption DEF Made, Contexts, States, Objects

LEMMA TreeKeeps ==
  ASSUME Inv, UNCHANGED <<callbacks, state, value, object>>,
         context' \in [Contexts -> [life : {"none", "live", "deleting"}, parent : Contexts]],
         \A c \in Contexts : context'[c].life = "none" => context[c].life = "none",
         owner' \in [Owners -> Contexts], OneOwner',
         cleaning' \in Seq(Made), CurrentMemoryContext' \in Contexts
  PROVE  Inv'
<1>1. Lists'
  BY ListsStay DEF Inv
<1>2. Trackers'
  BY TrackersStay DEF Inv
<1>3. Variables'
  BY DEF Inv, Variables, ObjectsGoWithContext, Registered, Structs, Exists
<1>4. Typed'
  BY DEF Inv, Typed, TypeOK, Structs
<1> QED
  BY <1>1, <1>2, <1>3, <1>4 DEF Inv

LEMMA Deleted ==
  ASSUME TypeOK, NEW D \in SUBSET Made, DeleteAll(D)
  PROVE  /\ context' \in [Contexts -> [life : {"none", "live", "deleting"}, parent : Contexts]]
         /\ \A c \in Contexts : context'[c].life = "none" => context[c].life = "none"
         /\ \A c \in Contexts \ D : context'[c] = context[c]
         /\ cleaning' \in Seq(Made)
<1>1. \A c \in Contexts : context'[c] =
        IF c \in D THEN [context[c] EXCEPT !.life = "deleting"] ELSE context[c]
  BY DEF DeleteAll
<1>2. \A c \in Contexts :
        /\ context[c] \in [life : {"none", "live", "deleting"}, parent : Contexts]
        /\ context'[c] \in [life : {"none", "live", "deleting"}, parent : Contexts]
  BY <1>1, ZenonT(30) DEF TypeOK
<1>3. \A c \in Contexts : context'[c].life = "none" => context[c].life = "none"
  BY <1>1, <1>2
<1>4. context' \in [Contexts -> [life : {"none", "live", "deleting"}, parent : Contexts]]
  BY <1>2 DEF DeleteAll
<1> QED
  BY <1>1, <1>3, <1>4, CleanIsSeq DEF DeleteAll

LEMMA Created ==
  ASSUME TypeOK, NEW c \in Made, Create(c)
  PROVE  /\ context' \in [Contexts -> [life : {"none", "live", "deleting"}, parent : Contexts]]
         /\ context[c].life = "none" /\ context'[c].life = "live"
         /\ \A d \in Contexts \ {c} : context'[d] = context[d]
<1>1. c \in Contexts /\ context[c].life = "none"
  BY Numbers DEF Create, FreeContext, Next1
<1>2. context' = [context EXCEPT ![c] = [life |-> "live", parent |-> CurrentMemoryContext]]
  BY DEF Create
<1> QED
  BY <1>1, <1>2 DEF TypeOK

LEMMA BelowMade == \A c : Below(c) \subseteq Made
BY DEF Below

\* Contexts that nobody owns change, if any.
LEMMA OwnersKeep ==
  ASSUME OneOwner, TypeOK, UNCHANGED owner,
         \A o \in Owners : owner[o] # 0 => context'[owner[o]] = context[owner[o]]
  PROVE  OneOwner'
BY DEF OneOwner, Live

LEMMA NewOwnerKeeps ==
  ASSUME Inv, NEW o \in Owners, NEW c \in Made, NewOwner(o, c) PROVE Inv'
<1>1. TypeOK /\ OneOwner /\ cleaning \in Seq(Made)
  BY DEF Inv, Typed
<1>2. /\ owner' = [owner EXCEPT ![o] = c] /\ Create(c)
      /\ UNCHANGED <<callbacks, state, value, object, cleaning, CurrentMemoryContext>>
  BY DEF NewOwner
<1>3. owner \in [Owners -> Contexts] /\ owner'[o] = c /\ \A p \in Owners \ {o} : owner'[p] = owner[p]
  BY <1>1, <1>2 DEF TypeOK
<1>4. owner' \in [Owners -> Contexts]
  BY <1>2, <1>3, Numbers
<1>5. OneOwner'
  <2>1. \A p \in Owners : owner[p] # 0 => owner[p] # c /\ context'[owner[p]] = context[owner[p]]
    BY <1>1, <1>2, <1>3, Created DEF OneOwner, Live
  <2> QED
    BY <1>1, <1>2, <1>3, <2>1, Created DEF OneOwner, Live
<1> QED
  BY <1>1, <1>2, <1>4, <1>5, Created, TreeKeeps DEF TypeOK

LEMMA OwnedMade == ASSUME TypeOK, NEW o \in Owners PROVE Owned(o) \in SUBSET Made
BY BelowMade DEF TypeOK, Owned, Contexts, Made

\* Only p owned a context of those that go with it.
LEMMA OthersLive ==
  ASSUME OneOwner, TypeOK, NEW p \in Owners, OwnsAll(p)
  PROVE  \A q \in Owners \ {p} : owner[q] # 0 => owner[q] \notin Owned(p)
BY DEF OneOwner, OwnsAll, Owned, MayGo

LEMMA MoveOwnerKeeps ==
  ASSUME Inv, NEW o \in Owners, NEW p \in Owners, MoveOwner(o, p) PROVE Inv'
<1>1. TypeOK /\ OneOwner
  BY DEF Inv, Typed
<1>2. /\ o # p /\ owner[o] # 0 /\ OwnsAll(p) /\ DeleteAll(Owned(p))
      /\ owner' = [owner EXCEPT ![p] = owner[o], ![o] = 0]
      /\ UNCHANGED <<callbacks, state, value, object, CurrentMemoryContext>>
  BY DEF MoveOwner
<1>3. /\ owner \in [Owners -> Contexts] /\ owner'[p] = owner[o] /\ owner'[o] = 0
      /\ \A q \in Owners \ {o, p} : owner'[q] = owner[q]
  BY <1>1, <1>2 DEF TypeOK
<1>4. owner' \in [Owners -> Contexts]
  BY <1>2, <1>3, Numbers
<1>5. \A q \in Owners \ {p} : owner[q] # 0 => context'[owner[q]] = context[owner[q]]
  BY <1>1, <1>2, <1>3, OthersLive, OwnedMade, Deleted
<1>6. OneOwner'
  BY <1>1, <1>2, <1>3, <1>5 DEF OneOwner, Live
<1> QED
  BY <1>1, <1>2, <1>4, <1>6, OwnedMade, Deleted, TreeKeeps DEF TypeOK

LEMMA DestroyOwnerKeeps ==
  ASSUME Inv, NEW o \in Owners, DestroyOwner(o) PROVE Inv'
<1>1. TypeOK /\ OneOwner
  BY DEF Inv, Typed
<1>2. /\ OwnsAll(o) /\ DeleteAll(Owned(o)) /\ owner' = [owner EXCEPT ![o] = 0]
      /\ UNCHANGED <<callbacks, state, value, object, CurrentMemoryContext>>
  BY DEF DestroyOwner
<1>3. owner \in [Owners -> Contexts] /\ owner'[o] = 0 /\ \A q \in Owners \ {o} : owner'[q] = owner[q]
  BY <1>1, <1>2 DEF TypeOK
<1>4. owner' \in [Owners -> Contexts]
  BY <1>2, <1>3, Numbers
<1>5. \A q \in Owners \ {o} : owner[q] # 0 => context'[owner[q]] = context[owner[q]]
  BY <1>1, <1>2, <1>3, OthersLive, OwnedMade, Deleted
<1>6. OneOwner'
  BY <1>1, <1>3, <1>5 DEF OneOwner, Live
<1> QED
  BY <1>1, <1>2, <1>4, <1>6, OwnedMade, Deleted, TreeKeeps DEF TypeOK

LEMMA ReleaseKeeps ==
  ASSUME Inv, NEW o \in Owners, Release(o) PROVE Inv'
<1>1. TypeOK /\ OneOwner /\ cleaning \in Seq(Made)
  BY DEF Inv, Typed
<1>2. /\ owner' = [owner EXCEPT ![o] = 0]
      /\ UNCHANGED <<context, callbacks, state, value, object, cleaning, CurrentMemoryContext>>
  BY DEF Release
<1>3. owner \in [Owners -> Contexts] /\ owner'[o] = 0 /\ \A q \in Owners \ {o} : owner'[q] = owner[q]
  BY <1>1, <1>2 DEF TypeOK
<1>4. owner' \in [Owners -> Contexts] /\ OneOwner'
  BY <1>1, <1>2, <1>3, Numbers DEF OneOwner, Live
<1> QED
  BY <1>1, <1>2, <1>4, TreeKeeps DEF TypeOK

LEMMA DeleteContextKeeps ==
  ASSUME Inv, NEW c \in Contexts, DeleteContext(c) PROVE Inv'
<1>1. TypeOK /\ OneOwner
  BY DEF Inv, Typed
<1> DEFINE D == {c} \cup Below(c)
<1>2. /\ c # 0 /\ MayGo(D) /\ DeleteAll(D)
      /\ UNCHANGED <<owner, callbacks, state, value, object, CurrentMemoryContext>>
  BY DEF DeleteContext
<1>3. D \in SUBSET Made
  BY <1>2, BelowMade DEF Contexts, Made
<1> HIDE DEF D
<1>4. OneOwner'
  BY <1>1, <1>2, <1>3, Deleted, OwnersKeep DEF MayGo, TypeOK
<1> QED
  BY <1>1, <1>2, <1>3, <1>4, Deleted, TreeKeeps DEF TypeOK

LEMMA ResetKeeps ==
  ASSUME Inv, NEW c \in Contexts, Reset(c) PROVE Inv'
<1>1. TypeOK /\ OneOwner
  BY DEF Inv, Typed
<1> DEFINE D == Below(c)
<1>2. /\ c # 0 /\ MayGo(D) /\ cleaning' \in Clean({c} \cup D)
      /\ UNCHANGED <<owner, callbacks, state, value, object, CurrentMemoryContext>>
      /\ context' = [d \in Contexts |->
           IF d \in D THEN [context[d] EXCEPT !.life = "deleting"] ELSE context[d]]
  BY DEF Reset
<1>3. D \in SUBSET Made /\ {c} \cup D \in SUBSET Made
  BY <1>2, BelowMade DEF Contexts, Made
<1> HIDE DEF D
<1>4. cleaning' \in Seq(Made)
  BY <1>2, <1>3, CleanIsSeq
<1>5. \A d \in Contexts :
        /\ context'[d] = IF d \in D THEN [context[d] EXCEPT !.life = "deleting"] ELSE context[d]
        /\ context[d] \in [life : {"none", "live", "deleting"}, parent : Contexts]
        /\ context'[d] \in [life : {"none", "live", "deleting"}, parent : Contexts]
  BY <1>1, <1>2 DEF TypeOK
<1>6. \A d \in Contexts : context'[d].life = "none" => context[d].life = "none"
  BY <1>5
<1>7. context' \in [Contexts -> [life : {"none", "live", "deleting"}, parent : Contexts]]
  BY <1>2, <1>5
<1>8. OneOwner'
  BY <1>1, <1>2, <1>5, OwnersKeep DEF MayGo, TypeOK
<1> QED
  BY <1>1, <1>2, <1>4, <1>6, <1>7, <1>8, TreeKeeps DEF TypeOK

LEMMA SwitchKeeps ==
  ASSUME Inv, NEW c \in Contexts, Switch(c) PROVE Inv'
<1>1. TypeOK /\ OneOwner /\ cleaning \in Seq(Made)
  BY DEF Inv, Typed
<1>2. /\ CurrentMemoryContext' = c
      /\ UNCHANGED <<context, owner, callbacks, state, value, object, cleaning>>
  BY DEF Switch
<1>3. OneOwner'
  BY <1>1, <1>2, OwnersKeep
<1> QED
  BY <1>1, <1>2, <1>3, TreeKeeps DEF TypeOK
-------------------------------------------------------------------------------
\* Values.

ValueType == [datum : Ptr, detoasted : Ptr, expanded : BOOLEAN, holder : 0 .. MaxObjects]

\* What is left of the invariant for a step of values, trackers and objects.
LEMMA ValueStep ==
  ASSUME Inv, UNCHANGED <<owner, cleaning, CurrentMemoryContext>>,
         UNCHANGED context \/ \E c \in Made : Create(c),
         Lists', Trackers', Variables',
         state' \in [States -> [counter : 0 .. 1, callback : BOOLEAN]],
         value' \in [Values -> ValueType],
         object' \in [Objects -> [life : {"none", "live"}, context : Contexts]]
  PROVE  Inv'
<1>1. TypeOK /\ OneOwner /\ cleaning \in Seq(Made)
  BY DEF Inv, Typed
<1>2. /\ context' \in [Contexts -> [life : {"none", "live", "deleting"}, parent : Contexts]]
      /\ OneOwner'
  <2>1. CASE UNCHANGED context
    BY <1>1, <2>1, OwnersKeep DEF TypeOK
  <2>2. ASSUME NEW c \in Made, Create(c)
        PROVE  \A o \in Owners : owner[o] # 0 => context'[owner[o]] = context[owner[o]]
    BY <1>1, <2>2, Created DEF OneOwner, Live, TypeOK
  <2> QED
    BY <1>1, <2>1, <2>2, Created, OwnersKeep
<1>3. \A c \in Contexts : Structs(c)' \subseteq Struct
  BY DEF Lists, Structs, Range
<1>4. TypeOK'
  BY <1>1, <1>2, <1>3 DEF TypeOK, Struct, ValueType
<1> QED
  BY <1>1, <1>2, <1>4 DEF Inv, Typed

LEMMA ForgottenTyped ==
  ASSUME TypeOK, NEW E PROVE Forgotten(E) \in [States -> [counter : 0 .. 1, callback : BOOLEAN]]
BY DEF TypeOK, Forgotten, NoState

LEMMA NoneForgotten == ASSUME TypeOK PROVE Forgotten({}) = state
BY DEF TypeOK, Forgotten

LEMMA ValueFields ==
  ASSUME TypeOK, NEW v \in Values
  PROVE  /\ value[v] \in ValueType
         /\ value[v].datum \in Ptr /\ value[v].detoasted \in Ptr
         /\ NoValue \in ValueType /\ NoPtr \in Ptr
         /\ \A p \in Parts : NoValue[p] = NoPtr
BY Numbers DEF TypeOK, ValueType, NoValue, NoPtr, Ptr, Parts

\* Objects stay as they are registered, and no variable becomes the member of one.
LEMMA VariablesKeep ==
  ASSUME Variables, UNCHANGED object,
         \A i \in Objects, c \in Contexts :
           <<"object", i>> \in Structs(c)' <=> <<"object", i>> \in Structs(c),
         \A v \in Values : value'[v].holder # 0 => \E u \in Values : value'[v].holder = value[u].holder,
         \A v \in Values : value'[v] = NoValue \/ value'[v].datum.state # 0
  PROVE  Variables'
<1>1. \A i \in Objects : Registered(<<"object", i>>)' <=> Registered(<<"object", i>>)
  BY DEF Registered
<1>2. (\A i \in Objects : object[i].life = "live" <=> Registered(<<"object", i>>))'
  BY <1>1 DEF Variables, ObjectsGoWithContext
<1>3. (\A v \in Values : value[v].holder # 0 => object[value[v].holder].life = "live")'
  BY DEF Variables, ObjectsGoWithContext
<1>4. (\A v \in Values : ~Exists(v) => value[v] = NoValue)'
  BY DEF Exists
<1> QED
  BY <1>2, <1>3, <1>4 DEF Variables, ObjectsGoWithContext

LEMMA CopyKeeps ==
  ASSUME Inv, NEW v \in Values, NEW w \in Values, Copy(v, w) PROVE Inv'
<1>1. TypeOK /\ Trackers /\ Variables /\ Lists
  BY DEF Inv, Typed
<1>2. /\ Exists(v) /\ ~Exists(w) /\ value[w] = NoValue
      /\ value' = [value EXCEPT ![w] = [value[v] EXCEPT !.holder = 0]]
      /\ UNCHANGED <<context, owner, callbacks, state, object, cleaning, CurrentMemoryContext>>
  BY <1>1 DEF Copy, Variables
<1>3. /\ value'[w] \in ValueType /\ value'[w].holder = 0 /\ value'[w].datum.state # 0
      /\ \A p \in Parts : value'[w][p] = value[v][p]
      /\ \A u \in Values \ {w} : value'[u] = value[u]
  BY <1>1, <1>2, ValueFields, Numbers DEF TypeOK, ValueType, Exists, Parts
<1>4. value' \in [Values -> ValueType]
  BY <1>1, <1>2, <1>3, ValueFields DEF TypeOK, ValueType
<1>5. \A p \in Parts : value[w][p].state = 0
  BY <1>1, <1>2, ValueFields DEF NoPtr
<1>6. Drops({})
  <2>1. \A s \in States : Used(s)' <=> Used(s)
    BY <1>2, <1>3, <1>5, Numbers DEF Used
  <2>2. \A c \in Contexts : Structs(c)' = Structs(c)
    BY <1>2 DEF Structs
  <2> QED
    BY <1>1, <1>2, <1>3, <2>1, <2>2, NoneForgotten DEF Drops
<1>7. Trackers'
  BY <1>1, <1>6, TrackersDropped
<1>8. Lists'
  BY <1>1, <1>2, ListsStay
<1>9. Variables'
  BY <1>1, <1>2, <1>3, VariablesKeep DEF Structs, Variables, Exists
<1> QED
  BY <1>1, <1>2, <1>4, <1>7, <1>8, <1>9, ValueStep DEF TypeOK

LEMMA MoveKeeps ==
  ASSUME Inv, NEW v \in Values, NEW w \in Values, Move(v, w) PROVE Inv'
<1>1. TypeOK /\ Trackers /\ Variables /\ Lists
  BY DEF Inv, Typed
<1>2. /\ Local(v) /\ Exists(v) /\ ~Exists(w) /\ value[w] = NoValue /\ v # w
      /\ value' = [value EXCEPT ![w] = value[v], ![v] = NoValue]
      /\ UNCHANGED <<context, owner, callbacks, state, object, cleaning, CurrentMemoryContext>>
  BY <1>1 DEF Move, Variables, Local
<1>3. /\ value'[w] = value[v] /\ value'[v] = NoValue
      /\ \A u \in Values \ {v, w} : value'[u] = value[u]
  BY <1>1, <1>2 DEF TypeOK
<1>4. value' \in [Values -> ValueType]
  BY <1>1, <1>2, <1>3, ValueFields DEF TypeOK, ValueType
<1>5. \A p \in Parts : value[w][p].state = 0 /\ value'[v][p] = NoPtr /\ NoPtr.state = 0
  BY <1>1, <1>2, <1>3, ValueFields DEF NoPtr
<1>6. Drops({})
  <2>1. ASSUME NEW s \in States PROVE Used(s)' <=> Used(s)
    <3>1. s # 0
      BY Numbers
    <3>2. ASSUME NEW u \in Values, NEW p \in Parts, value[u][p].state = s PROVE Used(s)'
      <4>1. u # w
        BY <1>5, <3>1, <3>2
      <4>2. value'[IF u = v THEN w ELSE u][p].state = s
        BY <1>3, <3>2, <4>1
      <4> QED
        BY <4>2 DEF Used
    <3>3. ASSUME NEW u \in Values, NEW p \in Parts, value'[u][p].state = s PROVE Used(s)
      <4>1. u # v
        BY <1>5, <3>1, <3>3
      <4>2. value[IF u = w THEN v ELSE u][p].state = s
        BY <1>3, <3>3, <4>1
      <4> QED
        BY <4>2 DEF Used
    <3> QED
      BY <3>2, <3>3 DEF Used
  <2>2. \A c \in Contexts : Structs(c)' = Structs(c)
    BY <1>2 DEF Structs
  <2> QED
    BY <1>1, <1>2, <1>3, <1>5, <2>1, <2>2, NoneForgotten DEF Drops
<1>7. Trackers'
  BY <1>1, <1>6, TrackersDropped
<1>8. Lists'
  BY <1>1, <1>2, ListsStay
<1>9. Variables'
  BY <1>1, <1>2, <1>3, VariablesKeep DEF Structs, Variables, Exists, NoValue
<1> QED
  BY <1>1, <1>2, <1>4, <1>7, <1>8, <1>9, ValueStep DEF TypeOK

LEMMA DetoastInPlaceKeeps ==
  ASSUME Inv, NEW v \in Values, DetoastInPlace(v) PROVE Inv'
<1>1. TypeOK /\ Trackers /\ Variables /\ Lists
  BY DEF Inv, Typed
<1>2. /\ Exists(v) /\ value[v].detoasted = NoPtr
      /\ value' = [value EXCEPT ![v].detoasted = value[v].datum]
      /\ UNCHANGED <<context, owner, callbacks, state, object, cleaning, CurrentMemoryContext>>
  BY <1>1 DEF DetoastInPlace, Undetoasted
<1>3. /\ value'[v] \in ValueType /\ value'[v].holder = value[v].holder
      /\ value'[v].datum = value[v].datum
      /\ \A p \in Parts : value'[v][p] = value[v].datum
      /\ \A u \in Values \ {v} : value'[u] = value[u]
  BY <1>1, <1>2, ValueFields DEF TypeOK, ValueType, Parts
<1>4. value' \in [Values -> ValueType]
  BY <1>1, <1>2, <1>3, ValueFields DEF TypeOK, ValueType
<1>5. Drops({})
  <2>1. \A p \in Parts : p = "datum" \/ p = "detoasted"
    BY DEF Parts
  <2>2. value[v]["detoasted"] = NoPtr /\ NoPtr.state = 0 /\ value[v]["datum"] = value[v].datum
    BY <1>2 DEF NoPtr
  <2>3. \A s \in States : Used(s)' <=> Used(s)
    BY <1>2, <1>3, <2>1, <2>2, Numbers DEF Used, Parts
  <2>4. \A c \in Contexts : Structs(c)' = Structs(c)
    BY <1>2 DEF Structs
  <2>5. \A u \in Values, p \in Parts : \E x \in Values, q \in Parts : value'[u][p] = value[x][q]
    BY <1>3, <2>2 DEF Parts
  <2> QED
    BY <1>1, <1>2, <2>3, <2>4, <2>5, NoneForgotten, ZenonT(30) DEF Drops
<1>6. Trackers'
  BY <1>1, <1>5, TrackersDropped
<1>7. Lists'
  BY <1>1, <1>2, ListsStay
<1>8. Variables'
  BY <1>1, <1>2, <1>3, VariablesKeep DEF Structs, Variables, Exists
<1> QED
  BY <1>1, <1>2, <1>4, <1>6, <1>7, <1>8, ValueStep DEF TypeOK

\* A struct of a state that is used and registered is armed.
LEMMA RegisteredArmed ==
  ASSUME Trackers, NEW s \in States, NEW c \in Contexts, <<"state", s>> \in Structs(c)
  PROVE  Used(s) /\ state[s].callback /\ state[s].counter = 0
BY RefsUsed DEF Trackers, CallbacksPaired, Registered, Guarded

\* The structs of E are disarmed.
LEMMA DisarmedStructs ==
  ASSUME Lists, Trackers, NEW E \in SUBSET States, callbacks' = Disarmed(callbacks, E), UNCHANGED context
  PROVE  /\ Lists'
         /\ \A c \in Contexts : Structs(c)' = Structs(c) \ ({"state"} \X E)
<1> DEFINE X == {<<"state", s>> : s \in {t \in E : state[t].callback}}
<1>1. ASSUME NEW c \in Contexts
      PROVE  /\ NoDup(callbacks'[c])
             /\ Range(callbacks'[c]) = Range(callbacks[c]) \ X
             /\ callbacks[c] = <<>> => callbacks'[c] = <<>>
  BY ListsDisarmed DEF Lists
<1>2. callbacks' \in [Contexts -> Seq(Struct)]
  BY ListsDisarmed, Numbers DEF Lists
<1>3. Lists'
  BY <1>1, <1>2, ListsReduced
<1>4. ASSUME NEW c \in Contexts
      PROVE  Range(callbacks[c]) \ X = Range(callbacks[c]) \ ({"state"} \X E)
  BY RegisteredArmed DEF Structs
<1> QED
  BY <1>1, <1>3, <1>4 DEF Structs

LEMMA DestroyValueKeeps ==
  ASSUME Inv, NEW v \in Values, DestroyValue(v) PROVE Inv'
<1> DEFINE E == Ends(Both(v))
<1>1. TypeOK /\ Trackers /\ Variables /\ Lists
  BY DEF Inv, Typed
<1>2. /\ state' = Forgotten(E) /\ callbacks' = Disarmed(callbacks, E)
      /\ value' = [value EXCEPT ![v] = NoValue]
      /\ UNCHANGED <<context, owner, object, cleaning, CurrentMemoryContext>>
  BY DEF DestroyValue
<1>3. /\ value'[v] = NoValue /\ \A u \in Values \ {v} : value'[u] = value[u]
      /\ \A p \in Parts : value'[v][p] = NoPtr /\ NoPtr.state = 0
  BY <1>1, <1>2, ValueFields DEF TypeOK, NoPtr
<1>4. value' \in [Values -> ValueType]
  BY <1>1, <1>2, <1>3, ValueFields DEF TypeOK, ValueType
<1>5. /\ E \in SUBSET States
      /\ \A s \in States : s \in E <=>
           Used(s) /\ \A u \in Values, p \in Parts : value[u][p].state = s => u = v
  <2>1. \A s \in States : s \in E <=>
           Used(s) /\ \A u \in Values, p \in Parts : value[u][p].state = s => u \in {v}
    BY EndsOf DEF Both
  <2> QED
    BY <2>1 DEF Ends
<1> HIDE DEF E
<1>6. Lists' /\ \A c \in Contexts : Structs(c)' = Structs(c) \ ({"state"} \X E)
  BY <1>1, <1>2, <1>5, DisarmedStructs
<1>7. Drops(E)
  <2>1. ASSUME NEW s \in States PROVE Used(s)' <=> Used(s) /\ s \notin E
    <3>1. s # 0
      BY Numbers
    <3>2. Used(s)' <=> \E u \in Values \ {v}, p \in Parts : value[u][p].state = s
      BY <1>3, <3>1 DEF Used
    <3> QED
      BY <1>5, <3>2 DEF Used
  <2>2. ASSUME NEW u \in Values, NEW p \in Parts, u # v
        PROVE  value'[u][p] = value[u][p] /\ value[u][p].state \notin E
    BY <1>3, <1>5, <2>2
  <2>3. \A c \in Contexts, s \in States :
       <<"state", s>> \in Structs(c)' <=> <<"state", s>> \in Structs(c) /\ s \notin E
    BY <1>6
  <2> QED
    BY <1>2, <1>3, <2>1, <2>2, <2>3 DEF Drops
<1>8. Trackers'
  BY <1>1, <1>5, <1>7, TrackersDropped
<1>9. Variables'
  <2>1. \A i \in Objects, c \in Contexts :
           <<"object", i>> \in Structs(c)' <=> <<"object", i>> \in Structs(c)
    BY <1>6
  <2>2. \A u \in Values : value'[u].holder # 0 => \E x \in Values : value'[u].holder = value[x].holder
    BY <1>3 DEF NoValue
  <2>3. \A u \in Values : value'[u] = NoValue \/ value'[u].datum.state # 0
    BY <1>1, <1>3 DEF Variables, Exists
  <2> QED
    BY <1>1, <1>2, <2>1, <2>2, <2>3, VariablesKeep
<1> QED
  BY <1>1, <1>2, <1>4, <1>6, <1>8, <1>9, ForgottenTyped, ValueStep DEF TypeOK

LEMMA AssignKeeps ==
  ASSUME Inv, NEW v \in Values, NEW w \in Values, Assign(v, w) PROVE Inv'
<1> DEFINE E == Ends(Both(w))
           destroyed == IF value[v].detoasted = NoPtr THEN {value[w].detoasted.state} ELSE {}
<1>1. TypeOK /\ Trackers /\ Variables /\ Lists
  BY DEF Inv, Typed
<1>2. /\ v # w /\ Exists(v) /\ Exists(w) /\ value[v].holder = 0
      /\ state' = Forgotten(E)
      /\ callbacks' = Dangling(Disarmed(callbacks, E \cap destroyed), E \ destroyed)
      /\ value' = [value EXCEPT ![w] = [value[v] EXCEPT !.holder = value[w].holder], ![v] = NoValue]
      /\ UNCHANGED <<context, owner, object, cleaning, CurrentMemoryContext>>
  BY DEF Assign, Local
<1>3. /\ value'[v] = NoValue /\ \A u \in Values \ {v, w} : value'[u] = value[u]
      /\ \A p \in Parts : value'[v][p] = NoPtr /\ NoPtr.state = 0
      /\ \A p \in Parts : value'[w][p] = value[v][p]
      /\ value'[w] \in ValueType /\ value'[w].holder = value[w].holder /\ value'[w].datum.state # 0
  <2>1. value'[w] = [value[v] EXCEPT !.holder = value[w].holder] /\ value'[v] = NoValue
        /\ \A u \in Values \ {v, w} : value'[u] = value[u]
    BY <1>1, <1>2 DEF TypeOK
  <2>2. value'[w] \in ValueType /\ value'[w].holder = value[w].holder /\ value'[w].datum.state # 0
        /\ \A p \in Parts : value'[w][p] = value[v][p]
    <3>1. value[v] \in ValueType /\ value[w] \in ValueType
      BY <1>1, ValueFields
    <3> QED
      BY <1>2, <2>1, <3>1 DEF ValueType, Exists, Parts
  <2>3. \A p \in Parts : value'[v][p] = NoPtr /\ NoPtr.state = 0
    BY <1>1, <2>1, ValueFields DEF NoPtr
  <2> QED
    BY <2>1, <2>2, <2>3
<1>4. value' \in [Values -> ValueType]
  BY <1>1, <1>2, <1>3, ValueFields DEF TypeOK, ValueType
<1>5. /\ E \in SUBSET States
      /\ \A s \in States : s \in E <=>
           Used(s) /\ \A u \in Values, p \in Parts : value[u][p].state = s => u = w
  <2>1. \A s \in States : s \in E <=>
           Used(s) /\ \A u \in Values, p \in Parts : value[u][p].state = s => u \in {w}
    BY EndsOf DEF Both
  <2> QED
    BY <2>1 DEF Ends
<1> HIDE DEF E, destroyed
<1>6. /\ Lists'
      /\ \A c \in Contexts :
           /\ Structs(c) \ ({"state"} \X E) \subseteq Structs(c)'
           /\ Structs(c)' \subseteq (Structs(c) \ ({"state"} \X E)) \cup {<<"dangling", 0>>}
  <2> DEFINE lists == Disarmed(callbacks, E \cap destroyed)
             X == {<<"state", s>> : s \in {t \in E \cap destroyed : state[t].callback}}
             Y == {"state"} \X (E \ destroyed)
  <2>1. E \cap destroyed \in SUBSET States /\ E \ destroyed \in SUBSET States
    BY <1>5
  <2>2. \A c \in Contexts :
          /\ NoDup(lists[c]) /\ Range(lists[c]) = Range(callbacks[c]) \ X
          /\ callbacks[c] = <<>> => lists[c] = <<>>
    BY <1>1, <2>1, ListsDisarmed DEF Lists
  <2>3. lists \in [Contexts -> Seq(Struct)]
    BY <1>1, <2>1, ListsDisarmed, Numbers DEF Lists
  <2> HIDE DEF lists, X
  <2>4. callbacks' = Dangling(lists, E \ destroyed)
    BY <1>2 DEF lists
  <2>5. \A c \in Contexts :
          /\ NoDup(callbacks'[c]) /\ (lists[c] = <<>> => callbacks'[c] = <<>>)
          /\ Range(lists[c]) \ Y \subseteq Range(callbacks'[c])
          /\ Range(callbacks'[c]) \subseteq (Range(lists[c]) \ Y) \cup {<<"dangling", 0>>}
    BY <2>1, <2>2, <2>3, <2>4, ListsDangling
  <2>6. callbacks' \in [Contexts -> Seq(Struct)]
    BY <2>1, <2>2, <2>3, <2>4, ListsDangling, Numbers
  <2>7. Lists'
    <3>1. \A c \in Contexts : \A x \in Range(callbacks'[c]) : x[1] = "dangling" \/ x \in Range(callbacks[c])
      BY <2>2, <2>5
    <3> QED
      BY <1>1, <1>2, <2>2, <2>5, <2>6, <3>1, ListsReduced
  <2>8. ASSUME NEW c \in Contexts
        PROVE  (Range(callbacks[c]) \ X) \ Y = Range(callbacks[c]) \ ({"state"} \X E)
    <3>1. X \cup Y \subseteq {"state"} \X E
      BY DEF X
    <3>2. ASSUME NEW s \in E, <<"state", s>> \in Range(callbacks[c]) PROVE <<"state", s>> \in X \cup Y
      <4>1. state[s].callback
        BY <1>1, <1>5, <3>2, RegisteredArmed DEF Structs
      <4> QED
        BY <4>1 DEF X
    <3> QED
      BY <3>1, <3>2
  <2> QED
    BY <2>2, <2>5, <2>7, <2>8 DEF Structs
<1>7. Drops(E)
  <2>1. ASSUME NEW s \in States PROVE Used(s)' <=> Used(s) /\ s \notin E
    <3>1. s # 0
      BY Numbers
    <3>2. ASSUME NEW u \in Values, NEW p \in Parts, value'[u][p].state = s
          PROVE  \E x \in Values \ {w} : value[x][p].state = s
      <4>1. u # v
        BY <1>3, <3>1, <3>2
      <4>2. (IF u = w THEN v ELSE u) \in Values \ {w}
        BY <1>2
      <4>3. value[IF u = w THEN v ELSE u][p].state = s
        BY <1>3, <3>2, <4>1
      <4> QED
        BY <4>2, <4>3
    <3>3. ASSUME NEW x \in Values \ {w}, NEW p \in Parts, value[x][p].state = s
          PROVE  \E u \in Values : value'[u][p].state = s
      BY <1>2, <1>3, <3>3
    <3> QED
      BY <1>5, <3>2, <3>3 DEF Used
  <2>2. ASSUME NEW u \in Values, NEW p \in Parts
        PROVE  value'[u][p] = NoPtr \/ \E x \in Values, q \in Parts :
                 value'[u][p] = value[x][q] /\ value[x][q].state \notin E
    <3>1. \A x \in Values \ {w} : value[x][p].state \notin E
      BY <1>5
    <3> QED
      BY <1>2, <1>3, <3>1, ZenonT(30)
  <2>3. \A c \in Contexts, s \in States :
       <<"state", s>> \in Structs(c)' <=> <<"state", s>> \in Structs(c) /\ s \notin E
    BY <1>6
  <2> QED
    BY <1>2, <2>1, <2>2, <2>3 DEF Drops
<1>8. Trackers'
  BY <1>1, <1>5, <1>7, TrackersDropped
<1>9. Variables'
  <2>1. \A i \in Objects, c \in Contexts :
           <<"object", i>> \in Structs(c)' <=> <<"object", i>> \in Structs(c)
    BY <1>6
  <2>2. \A u \in Values : value'[u].holder # 0 => \E x \in Values : value'[u].holder = value[x].holder
    BY <1>3 DEF NoValue
  <2>3. \A u \in Values : value'[u] = NoValue \/ value'[u].datum.state # 0
    BY <1>1, <1>3 DEF Variables, Exists
  <2> QED
    BY <1>1, <1>2, <2>1, <2>2, <2>3, VariablesKeep
<1> QED
  BY <1>1, <1>2, <1>4, <1>6, <1>8, <1>9, ForgottenTyped, ValueStep DEF TypeOK

\* A number that is free for a state.
LEMMA FreeStates ==
  ASSUME NEW s \in States, FreeState(s) PROVE ~Used(s) /\ ~Registered(<<"state", s>>)
BY RefsUsed DEF FreeState, Next1

\* A tracker of c by the state s is made, and guards a pointer of v.
LEMMA TrackStep ==
  ASSUME TypeOK, Trackers, Variables, Lists, NEW v \in Values, NEW s \in States, NEW c \in Contexts,
         FreeState(s), state' = [state EXCEPT ![s] = Tracking],
         \A d \in Contexts, t \in States :
           <<"state", t>> \in Structs(d)' <=> <<"state", t>> \in Structs(d) \/ (d = c /\ t = s),
         \A u \in Values \ {v} : value'[u] = value[u],
         \A p \in Parts :
           \/ value'[v][p] = value[v][p]
           \/ value[v][p] = NoPtr /\ value'[v][p] = [context |-> c, state |-> s, gone |-> FALSE],
         \E p \in Parts : value'[v][p].state = s
  PROVE  Trackers' /\ state' \in [States -> [counter : 0 .. 1, callback : BOOLEAN]]
<1>1. ~Used(s) /\ ~Registered(<<"state", s>>)
  BY FreeStates
<1>2. ASSUME NEW t \in States PROVE Used(t)' <=> Used(t) \/ t = s
  <2>1. t # 0 /\ s # 0
    BY Numbers
  <2>2. \A u \in Values, p \in Parts : value[u][p].state = t => value'[u][p].state = t
    BY <2>1 DEF NoPtr
  <2>3. \A u \in Values, p \in Parts : value'[u][p].state = t => value[u][p].state = t \/ t = s
    OBVIOUS
  <2> QED
    BY <2>2, <2>3 DEF Used
<1>3. \A u \in Values, p \in Parts :
       \/ value'[u][p] \in {NoPtr, value[u][p]}
       \/ value'[u][p] = [context |-> c, state |-> s, gone |-> FALSE]
  OBVIOUS
<1>4. Tracks(s, c)
  BY <1>2, <1>3 DEF Tracks
<1>5. state' \in [States -> [counter : 0 .. 1, callback : BOOLEAN]]
  BY DEF TypeOK, Tracking
<1> QED
  BY <1>1, <1>4, <1>5, TrackersTracked

\* A state's struct is put in front of the list of a context that is live.
LEMMA TrackPushes ==
  ASSUME Lists, NEW s \in States, NEW c \in Contexts, Track(s, c), UNCHANGED context
  PROVE  /\ Lists'
         /\ \A d \in Contexts :
              Structs(d)' = IF d = c THEN Structs(c) \cup {<<"state", s>>} ELSE Structs(d)
<1>1. /\ ~Registered(<<"state", s>>) /\ <<"state", s>> \in Struct
      /\ callbacks' = [callbacks EXCEPT ![c] = <<<<"state", s>>>> \o @]
      /\ context[c].life = "live"
  BY FreeStates DEF Track, Live, Struct
<1>2. \A d \in Contexts : context'[d].life = "none" => context[d].life = "none" /\ d # c
  BY <1>1
<1> QED
  BY <1>1, <1>2, ListsPushed

LEMMA NewValueKeeps ==
  ASSUME Inv, NEW v \in Values, NEW s \in States, NEW c \in Contexts, NewValue(v, s, c) PROVE Inv'
<1> DEFINE new == [context |-> c, state |-> s, gone |-> FALSE]
<1>1. TypeOK /\ Trackers /\ Variables /\ Lists
  BY DEF Inv, Typed
<1>2. /\ ~Exists(v) /\ value[v] = NoValue /\ Track(s, c) /\ FreeState(s)
      /\ state' = [state EXCEPT ![s] = Tracking]
      /\ value' = [value EXCEPT ![v].datum = new]
      /\ UNCHANGED <<context, owner, object, cleaning, CurrentMemoryContext>>
  BY <1>1 DEF NewValue, Variables, Track
<1>3. new \in Ptr /\ new.state = s /\ s # 0
  BY Numbers DEF Ptr, States
<1> HIDE DEF new
<1>4. /\ value'[v] \in ValueType /\ value'[v].datum = new
      /\ value'[v].holder = 0 /\ value'[v].detoasted = value[v].detoasted
      /\ \A u \in Values \ {v} : value'[u] = value[u]
  <2>1. /\ value'[v] = [value[v] EXCEPT !.datum = new] /\ value[v] \in ValueType
        /\ \A u \in Values \ {v} : value'[u] = value[u]
    BY <1>1, <1>2, ValueFields DEF TypeOK
  <2>2. value[v].holder = 0
    BY <1>2 DEF NoValue
  <2> QED
    BY <1>3, <2>1, <2>2 DEF ValueType
<1>5. value' \in [Values -> ValueType]
  BY <1>1, <1>2, <1>4, ValueFields DEF TypeOK, ValueType
<1>6. Lists' /\ \A d \in Contexts :
              Structs(d)' = IF d = c THEN Structs(c) \cup {<<"state", s>>} ELSE Structs(d)
  BY <1>1, <1>2, TrackPushes
<1>7. Trackers' /\ state' \in [States -> [counter : 0 .. 1, callback : BOOLEAN]]
  <2>1. \A d \in Contexts, t \in States :
           <<"state", t>> \in Structs(d)' <=> <<"state", t>> \in Structs(d) \/ (d = c /\ t = s)
    BY <1>6
  <2>2. \A p \in Parts : value'[v][p] = value[v][p] \/ (value[v][p] = NoPtr /\ value'[v][p] = new)
    BY <1>1, <1>2, <1>4, ValueFields DEF Parts
  <2>3. value'[v]["datum"].state = s
    BY <1>3, <1>4
  <2>4. \E p \in Parts : value'[v][p].state = s
    BY <2>3 DEF Parts
  <2> QED
    BY <1>1, <1>2, <1>4, <2>1, <2>2, <2>4, TrackStep DEF new
<1>8. Variables'
  <2>1. \A i \in Objects, d \in Contexts :
           <<"object", i>> \in Structs(d)' <=> <<"object", i>> \in Structs(d)
    BY <1>6
  <2>2. \A u \in Values : value'[u].holder # 0 => \E x \in Values : value'[u].holder = value[x].holder
    BY <1>4
  <2>3. \A u \in Values : value'[u] = NoValue \/ value'[u].datum.state # 0
    BY <1>1, <1>3, <1>4 DEF Variables, Exists
  <2> QED
    BY <1>1, <1>2, <2>1, <2>2, <2>3, VariablesKeep
<1> QED
  BY <1>1, <1>2, <1>5, <1>6, <1>7, <1>8, ValueStep DEF TypeOK

LEMMA DetoastCopyKeeps ==
  ASSUME Inv, NEW v \in Values, NEW s \in States, DetoastCopy(v, s) PROVE Inv'
<1> DEFINE c == CurrentMemoryContext
           new == [context |-> c, state |-> s, gone |-> FALSE]
<1>1. TypeOK /\ Trackers /\ Variables /\ Lists /\ c \in Contexts
  BY DEF Inv, Typed, TypeOK
<1>2. /\ Exists(v) /\ value[v].detoasted = NoPtr /\ Track(s, c) /\ FreeState(s)
      /\ state' = [state EXCEPT ![s] = Tracking]
      /\ value' = [value EXCEPT ![v].detoasted = new]
      /\ UNCHANGED <<context, owner, object, cleaning, CurrentMemoryContext>>
  BY <1>1 DEF DetoastCopy, Undetoasted, Track
<1>3. new \in Ptr /\ new.state = s /\ s # 0
  BY <1>1, Numbers DEF Ptr, States
<1> HIDE DEF new
<1>4. /\ value'[v] \in ValueType /\ value'[v].detoasted = new
      /\ value'[v].holder = value[v].holder /\ value'[v].datum = value[v].datum
      /\ \A u \in Values \ {v} : value'[u] = value[u]
  BY <1>1, <1>2, <1>3, ValueFields DEF TypeOK, ValueType
<1>5. value' \in [Values -> ValueType]
  BY <1>1, <1>2, <1>4, ValueFields DEF TypeOK, ValueType
<1>6. PICK d \in Contexts : d = c
  BY <1>1
<1>7. Lists' /\ \A e \in Contexts :
              Structs(e)' = IF e = d THEN Structs(d) \cup {<<"state", s>>} ELSE Structs(e)
  BY <1>1, <1>2, <1>6, TrackPushes
<1>8. Trackers' /\ state' \in [States -> [counter : 0 .. 1, callback : BOOLEAN]]
  <2>1. \A e \in Contexts, t \in States :
           <<"state", t>> \in Structs(e)' <=> <<"state", t>> \in Structs(e) \/ (e = d /\ t = s)
    BY <1>7
  <2>2. \A p \in Parts : value'[v][p] = value[v][p] \/ (value[v][p] = NoPtr /\ value'[v][p] = new)
    BY <1>1, <1>2, <1>4, ValueFields DEF Parts
  <2>3. value'[v]["detoasted"].state = s
    BY <1>3, <1>4
  <2>4. \E p \in Parts : value'[v][p].state = s
    BY <2>3 DEF Parts
  <2>5. new = [context |-> d, state |-> s, gone |-> FALSE]
    BY <1>6 DEF new
  <2>6. \A p \in Parts :
           \/ value'[v][p] = value[v][p]
           \/ value[v][p] = NoPtr /\ value'[v][p] = [context |-> d, state |-> s, gone |-> FALSE]
    BY <2>2, <2>5
  <2>7. /\ FreeState(s) /\ state' = [state EXCEPT ![s] = Tracking]
        /\ \A u \in Values \ {v} : value'[u] = value[u]
    BY <1>2, <1>4
  <2> HIDE DEF c
  <2> QED
    BY <1>1, <2>1, <2>4, <2>6, <2>7, TrackStep
<1>9. Variables'
  <2>1. \A i \in Objects, e \in Contexts :
           <<"object", i>> \in Structs(e)' <=> <<"object", i>> \in Structs(e)
    BY <1>7
  <2>2. \A u \in Values : value'[u].holder # 0 => \E x \in Values : value'[u].holder = value[x].holder
    BY <1>4
  <2>3. \A u \in Values : value'[u] = NoValue \/ value'[u].datum.state # 0
    BY <1>1, <1>2, <1>4 DEF Variables, Exists
  <2> QED
    BY <1>1, <1>2, <2>1, <2>2, <2>3, VariablesKeep
<1> QED
  BY <1>1, <1>2, <1>5, <1>7, <1>8, <1>9, ValueStep DEF TypeOK
-------------------------------------------------------------------------------
\* Objects.

\* An object is built in c and registered there; of the variables, those of V become
\* its members.
LEMMA ObjectBuilt ==
  ASSUME TypeOK, Variables, NEW i \in Objects, NEW c \in Contexts, FreeObject(i), Build(i, c),
         \A j \in Objects, d \in Contexts :
           <<"object", j>> \in Structs(d)' <=> <<"object", j>> \in Structs(d) \/ (d = c /\ j = i),
         \A v \in Values :
           value'[v].holder \in {0, i} \/ \E u \in Values : value'[v].holder = value[u].holder,
         \A v \in Values : value'[v] = NoValue \/ value'[v].datum.state # 0
  PROVE  Variables' /\ object' \in [Objects -> [life : {"none", "live"}, context : Contexts]]
<1>1. object[i].life = "none"
  BY DEF FreeObject, Next1
<1>2. /\ object'[i] = [life |-> "live", context |-> c]
      /\ \A j \in Objects \ {i} : object'[j] = object[j]
      /\ object' \in [Objects -> [life : {"none", "live"}, context : Contexts]]
  BY DEF Build, TypeOK
<1>3. ASSUME NEW j \in Objects
      PROVE  object'[j].life = "live" <=> \E d \in Contexts : <<"object", j>> \in Structs(d)'
  <2>1. CASE j = i
    BY <1>2, <2>1
  <2>2. CASE j # i
    <3>1. object[j].life = "live" <=> \E d \in Contexts : <<"object", j>> \in Structs(d)
      BY DEF Variables, ObjectsGoWithContext, Registered
    <3> QED
      BY <1>2, <2>2, <3>1
  <2> QED
    BY <2>1, <2>2
<1>4. ASSUME NEW v \in Values, value'[v].holder # 0 PROVE object'[value'[v].holder].life = "live"
  <2>1. CASE value'[v].holder = i
    BY <1>2, <2>1
  <2>2. CASE value'[v].holder # i
    <3>1. PICK u \in Values : value'[v].holder = value[u].holder
      BY <1>4, <2>2
    <3>2. value[u].holder \in Objects /\ object[value[u].holder].life = "live"
      BY <1>4, <3>1 DEF TypeOK, Objects, Variables, ObjectsGoWithContext
    <3> QED
      BY <1>2, <2>2, <3>1, <3>2
  <2> QED
    BY <2>1, <2>2
<1> QED
  BY <1>2, <1>3, <1>4 DEF Variables, ObjectsGoWithContext, Registered, Exists

\* Its struct was not in use.
LEMMA FreeObjects ==
  ASSUME Variables, NEW i \in Objects, FreeObject(i)
  PROVE  ~Registered(<<"object", i>>) /\ <<"object", i>> \in Struct /\ <<"object", i>>[1] # "dangling"
BY DEF FreeObject, Next1, Variables, ObjectsGoWithContext, Struct

LEMMA ConstructKeeps ==
  ASSUME Inv, NEW i \in Objects, NEW c \in Contexts, NEW V \in SUBSET Values, Construct(i, c, V)
  PROVE  Inv'
<1>1. TypeOK /\ Trackers /\ Variables /\ Lists
  BY DEF Inv, Typed
<1>2. /\ FreeObject(i) /\ Live(c) /\ Build(i, c) /\ \A v \in V : Exists(v)
      /\ value' = [v \in Values |-> IF v \in V THEN [value[v] EXCEPT !.holder = i] ELSE value[v]]
      /\ callbacks' = [callbacks EXCEPT ![c] = <<<<"object", i>>>> \o @]
      /\ UNCHANGED <<context, owner, state, cleaning, CurrentMemoryContext>>
  BY DEF Construct, Register, Local
<1>3. ASSUME NEW v \in Values
      PROVE  /\ value'[v] \in ValueType /\ value'[v].datum = value[v].datum
             /\ \A p \in Parts : value'[v][p] = value[v][p]
             /\ value'[v].holder = IF v \in V THEN i ELSE value[v].holder
             /\ v \notin V => value'[v] = value[v]
  <2>1. value[v] \in ValueType /\ value'[v] = IF v \in V THEN [value[v] EXCEPT !.holder = i] ELSE value[v]
    BY <1>1, <1>2, ValueFields
  <2>2. i \in 0..MaxObjects
    BY DEF Objects
  <2> QED
    BY <2>1, <2>2 DEF ValueType, Parts
<1>4. value' \in [Values -> ValueType]
  BY <1>2, <1>3
<1>5. Lists' /\ \A d \in Contexts :
         Structs(d)' = IF d = c THEN Structs(c) \cup {<<"object", i>>} ELSE Structs(d)
  <2>1. \A d \in Contexts : context'[d].life = "none" => context[d].life = "none" /\ d # c
    BY <1>2 DEF Live
  <2> QED
    BY <1>1, <1>2, <2>1, FreeObjects, ListsPushed
<1>6. Drops({})
  <2>1. \A s \in States : Used(s)' <=> Used(s)
    BY <1>3 DEF Used
  <2>2. \A d \in Contexts, s \in States :
       <<"state", s>> \in Structs(d)' <=> <<"state", s>> \in Structs(d)
    BY <1>5
  <2> QED
    BY <1>1, <1>2, <1>3, <2>1, <2>2, NoneForgotten DEF Drops
<1>7. Trackers'
  BY <1>1, <1>6, TrackersDropped
<1>8. Variables' /\ object' \in [Objects -> [life : {"none", "live"}, context : Contexts]]
  <2>1. \A j \in Objects, d \in Contexts :
           <<"object", j>> \in Structs(d)' <=> <<"object", j>> \in Structs(d) \/ (d = c /\ j = i)
    BY <1>5
  <2>2. \A v \in Values :
           value'[v].holder \in {0, i} \/ \E u \in Values : value'[v].holder = value[u].holder
    BY <1>3
  <2>3. \A v \in Values : value'[v] = NoValue \/ value'[v].datum.state # 0
    BY <1>1, <1>2, <1>3 DEF Variables, Exists
  <2> QED
    BY <1>1, <1>2, <2>1, <2>2, <2>3, ObjectBuilt
<1> QED
  BY <1>1, <1>2, <1>4, <1>5, <1>7, <1>8, ValueStep DEF TypeOK

LEMMA ExpandKeeps ==
  ASSUME Inv, NEW v \in Values, NEW i \in Objects, NEW c \in Made, Expand(v, i, c) PROVE Inv'
<1>1. TypeOK /\ Trackers /\ Variables /\ Lists /\ c \in Contexts
  BY Numbers DEF Inv, Typed
<1>2. /\ Exists(v) /\ FreeObject(i) /\ Create(c) /\ Build(i, c)
      /\ value' = [value EXCEPT ![v].expanded = TRUE,
                     ![v].detoasted = IF @ = NoPtr THEN value[v].datum ELSE @]
      /\ callbacks' = [callbacks EXCEPT ![c] = <<<<"object", i>>>> \o @]
      /\ UNCHANGED <<owner, state, cleaning, CurrentMemoryContext>>
  BY DEF Expand, Register
<1>3. /\ value'[v] \in ValueType /\ value'[v].datum = value[v].datum
      /\ value'[v].holder = value[v].holder
      /\ value'[v].detoasted \in {value[v].datum, value[v].detoasted}
      /\ value[v].detoasted # NoPtr => value'[v].detoasted = value[v].detoasted
      /\ \A u \in Values \ {v} : value'[u] = value[u]
  BY <1>1, <1>2, ValueFields DEF TypeOK, ValueType
<1>4. value' \in [Values -> ValueType]
  BY <1>1, <1>2, <1>3, ValueFields DEF TypeOK, ValueType
<1>5. Lists' /\ \A d \in Contexts :
         Structs(d)' = IF d = c THEN Structs(c) \cup {<<"object", i>>} ELSE Structs(d)
  <2>1. \A d \in Contexts : context'[d].life = "none" => context[d].life = "none" /\ d # c
    BY <1>1, <1>2, Created
  <2> QED
    BY <1>1, <1>2, <2>1, FreeObjects, ListsPushed
<1>6. Drops({})
  <2>1. \A p \in Parts : p = "datum" \/ p = "detoasted"
    BY DEF Parts
  <2>2. value[v]["datum"] = value[v].datum /\ value[v]["detoasted"] = value[v].detoasted
    OBVIOUS
  <2>3. ASSUME NEW s \in States PROVE Used(s)' <=> Used(s)
    <3>1. s # 0
      BY Numbers
    <3>2. \A u \in Values, p \in Parts : value[u][p].state = s => value'[u][p].state = s
      BY <1>3, <2>1, <3>1 DEF NoPtr
    <3>3. \A u \in Values, p \in Parts : value'[u][p].state = s => Used(s)
      BY <1>3, <2>1, <2>2 DEF Used, Parts
    <3> QED
      BY <3>2, <3>3 DEF Used
  <2>4. \A d \in Contexts, s \in States :
       <<"state", s>> \in Structs(d)' <=> <<"state", s>> \in Structs(d)
    BY <1>5
  <2>5. \A u \in Values, p \in Parts : \E x \in Values, q \in Parts : value'[u][p] = value[x][q]
    BY <1>3, <2>1, <2>2 DEF Parts
  <2> QED
    BY <1>1, <1>2, <2>3, <2>4, <2>5, NoneForgotten, ZenonT(30) DEF Drops
<1>7. Trackers'
  BY <1>1, <1>6, TrackersDropped
<1>8. Variables' /\ object' \in [Objects -> [life : {"none", "live"}, context : Contexts]]
  <2>1. \A j \in Objects, d \in Contexts :
           <<"object", j>> \in Structs(d)' <=> <<"object", j>> \in Structs(d) \/ (d = c /\ j = i)
    BY <1>5
  <2>2. \A u \in Values : \E x \in Values : value'[u].holder = value[x].holder
    BY <1>3
  <2>3. \A u \in Values : value'[u] = NoValue \/ value'[u].datum.state # 0
    BY <1>1, <1>2, <1>3 DEF Variables, Exists
  <2> QED
    BY <1>1, <1>2, <2>1, <2>2, <2>3, ObjectBuilt
<1> QED
  BY <1>1, <1>2, <1>4, <1>5, <1>7, <1>8, ValueStep DEF TypeOK

LEMMA NewExpandedKeeps ==
  ASSUME Inv, NEW v \in Values, NEW s \in States, NEW i \in Objects, NEW c \in Made,
         NewExpanded(v, s, i, c)
  PROVE  Inv'
<1> DEFINE new == [context |-> c, state |-> s, gone |-> FALSE]
<1>1. TypeOK /\ Trackers /\ Variables /\ Lists /\ c \in Contexts
  BY Numbers DEF Inv, Typed
<1>2. /\ ~Exists(v) /\ value[v] = NoValue /\ FreeState(s) /\ FreeObject(i) /\ Create(c) /\ Build(i, c)
      /\ state' = [state EXCEPT ![s] = Tracking]
      /\ callbacks' = [callbacks EXCEPT ![c] = <<<<"state", s>>, <<"object", i>>>>]
      /\ value' = [value EXCEPT ![v] = [NoValue EXCEPT !.expanded = TRUE, !.datum = new]]
      /\ UNCHANGED <<owner, cleaning, CurrentMemoryContext>>
  BY <1>1 DEF NewExpanded, Variables
<1>3. new \in Ptr /\ new.state = s /\ s # 0
  BY <1>1, Numbers DEF Ptr, States
<1> HIDE DEF new
<1>4. /\ value'[v] \in ValueType /\ value'[v].datum = new
      /\ value'[v].holder = 0 /\ value'[v].detoasted = NoPtr
      /\ \A u \in Values \ {v} : value'[u] = value[u]
  <2>1. /\ value'[v] = [NoValue EXCEPT !.expanded = TRUE, !.datum = new] /\ NoValue \in ValueType
        /\ \A u \in Values \ {v} : value'[u] = value[u]
    BY <1>1, <1>2, ValueFields DEF TypeOK
  <2>2. NoValue.holder = 0 /\ NoValue.detoasted = NoPtr
    BY DEF NoValue
  <2> QED
    BY <1>3, <2>1, <2>2 DEF ValueType
<1>5. value' \in [Values -> ValueType]
  BY <1>1, <1>2, <1>4, ValueFields DEF TypeOK, ValueType
<1>6. /\ ~Registered(<<"state", s>>) /\ <<"state", s>> \in Struct
      /\ ~Registered(<<"object", i>>) /\ <<"object", i>> \in Struct
  BY <1>1, <1>2, FreeStates, FreeObjects DEF Struct
<1>7. /\ Lists'
      /\ \A d \in Contexts :
           Structs(d)' = IF d = c THEN {<<"state", s>>, <<"object", i>>} ELSE Structs(d)
  <2> DEFINE list == <<<<"state", s>>, <<"object", i>>>>
  <2>1. list \in Seq(Struct) /\ DOMAIN list = 1..2 /\ list[1] = <<"state", s>> /\ list[2] = <<"object", i>>
    BY <1>6
  <2>2. NoDup(list) /\ Range(list) = {<<"state", s>>, <<"object", i>>}
    <3>1. 1..2 = {1, 2}
      OBVIOUS
    <3>2. list[1] # list[2]
      OBVIOUS
    <3> QED
      BY <2>1, <3>1, <3>2 DEF NoDup, Range
  <2> HIDE DEF list
  <2>3. callbacks'[c] = list /\ \A d \in Contexts \ {c} : callbacks'[d] = callbacks[d]
    BY <1>1, <1>2 DEF list, Lists
  <2>4. \A d \in Contexts :
           Structs(d)' = IF d = c THEN {<<"state", s>>, <<"object", i>>} ELSE Structs(d)
    BY <2>2, <2>3 DEF Structs
  <2>5. callbacks' \in [Contexts -> Seq(Struct)]
    BY <1>1, <1>2, <2>1 DEF Lists, list
  <2>6. \A d \in Contexts : NoDup(callbacks'[d])
    BY <1>1, <2>2, <2>3 DEF Lists
  <2>7. ASSUME NEW d \in Contexts, NEW e \in Contexts, NEW y \in Struct,
               y \in Structs(d)', y \in Structs(e)', y[1] # "dangling"
        PROVE  d = e
    <3>1. CASE y \in {<<"state", s>>, <<"object", i>>}
      BY <1>6, <2>4, <2>7, <3>1 DEF Registered
    <3>2. CASE y \notin {<<"state", s>>, <<"object", i>>}
      BY <1>1, <2>4, <2>7, <3>2, SMTT(30) DEF Lists
    <3> QED
      BY <3>1, <3>2
  <2>8. \A d \in Contexts : context'[d].life = "none" => callbacks'[d] = <<>>
    BY <1>1, <1>2, <2>3, Created DEF Lists
  <2> QED
    BY <2>4, <2>5, <2>6, <2>7, <2>8 DEF Lists
<1>8. Structs(c) = {}
  <2>1. callbacks[c] = <<>>
    BY <1>1, <1>2, Created DEF Lists
  <2>2. Range(<<>>) = {}
    BY EmptySeq DEF Range
  <2> QED
    BY <2>1, <2>2 DEF Structs
<1>9. Trackers' /\ state' \in [States -> [counter : 0 .. 1, callback : BOOLEAN]]
  <2>1. \A d \in Contexts, t \in States :
           <<"state", t>> \in Structs(d)' <=> <<"state", t>> \in Structs(d) \/ (d = c /\ t = s)
    BY <1>7, <1>8
  <2>2. \A p \in Parts : value[v][p] = NoPtr /\ value'[v][p] \in {NoPtr, new}
    BY <1>1, <1>2, <1>4, ValueFields DEF Parts
  <2>3. value'[v]["datum"].state = s
    BY <1>3, <1>4
  <2>4. \E p \in Parts : value'[v][p].state = s
    BY <2>3 DEF Parts
  <2>5. \A p \in Parts : value'[v][p] = value[v][p] \/ (value[v][p] = NoPtr /\ value'[v][p] = new)
    BY <2>2
  <2> QED
    BY <1>1, <1>2, <1>4, <2>1, <2>4, <2>5, TrackStep DEF new
<1>10. Variables' /\ object' \in [Objects -> [life : {"none", "live"}, context : Contexts]]
  <2>1. \A j \in Objects, d \in Contexts :
           <<"object", j>> \in Structs(d)' <=> <<"object", j>> \in Structs(d) \/ (d = c /\ j = i)
    BY <1>7, <1>8
  <2>2. \A u \in Values :
           value'[u].holder \in {0, i} \/ \E x \in Values : value'[u].holder = value[x].holder
    BY <1>4
  <2>3. \A u \in Values : value'[u] = NoValue \/ value'[u].datum.state # 0
    BY <1>1, <1>3, <1>4 DEF Variables, Exists
  <2> QED
    BY <1>1, <1>2, <2>1, <2>2, <2>3, ObjectBuilt
<1> QED
  BY <1>1, <1>2, <1>5, <1>7, <1>9, <1>10, ValueStep DEF TypeOK
-------------------------------------------------------------------------------
\* A reset or a deletion goes on.

\* The context to clean, its list and the first struct of that.
LEMMA CleaningTyped ==
  ASSUME Inv, ~Running
  PROVE  /\ Ahead \in Made /\ Ahead \in Contexts /\ callbacks[Ahead] \in Seq(Struct)
         /\ NoDup(callbacks[Ahead]) /\ Tail(cleaning) \in Seq(Made)
<1>1. cleaning \in Seq(Made) /\ cleaning # <<>>
  BY DEF Inv, Typed, Running
<1>2. Ahead \in Made /\ Tail(cleaning) \in Seq(Made)
  <2>1. Len(cleaning) \in Nat \ {0} /\ Tail(cleaning) \in Seq(Made)
    BY <1>1, EmptySeq, HeadTailProperties
  <2> QED
    BY <1>1, <2>1, ElementOfSeq DEF Ahead
<1> QED
  BY <1>2, Numbers DEF Inv, Lists

\* The first struct is taken off the list.
LEMMA PopsFirst ==
  ASSUME Inv, ~Running, callbacks[Ahead] # <<>>, NEW lists, lists = Popped
  PROVE  /\ lists \in [Contexts -> Seq(Struct)]
         /\ First \in Struct /\ First \in Structs(Ahead)
         /\ \A c \in Contexts :
              /\ NoDup(lists[c])
              /\ Range(lists[c]) \subseteq Structs(c)
              /\ Structs(c) \subseteq Range(lists[c]) \cup {First}
              /\ callbacks[c] = <<>> => lists[c] = <<>>
              /\ First[1] # "dangling" => First \notin Range(lists[c])
<1>1. /\ Ahead \in Contexts /\ callbacks[Ahead] \in Seq(Struct) /\ NoDup(callbacks[Ahead])
      /\ callbacks \in [Contexts -> Seq(Struct)] /\ Lists
  BY CleaningTyped DEF Inv, Lists
<1>2. /\ lists[Ahead] = Tail(callbacks[Ahead])
      /\ \A c \in Contexts \ {Ahead} : lists[c] = callbacks[c]
  BY <1>1 DEF Popped
<1>3. /\ First \in Struct /\ First \in Range(callbacks[Ahead])
      /\ lists[Ahead] \in Seq(Struct) /\ NoDup(lists[Ahead])
      /\ Range(callbacks[Ahead]) = Range(lists[Ahead]) \cup {First}
      /\ First[1] # "dangling" => First \notin Range(lists[Ahead])
  BY <1>1, <1>2, PoppedList DEF First
<1>4. lists \in [Contexts -> Seq(Struct)]
  BY <1>1, <1>2, <1>3 DEF Popped
<1>5. ASSUME NEW c \in Contexts \ {Ahead}, First[1] # "dangling" PROVE First \notin Range(lists[c])
  BY <1>1, <1>2, <1>3, <1>5 DEF Lists, Structs
<1> QED
  BY <1>1, <1>2, <1>3, <1>4, <1>5 DEF Structs, Lists

LEMMA TrackResetKeeps == ASSUME Inv, TrackReset PROVE Inv'
<1>1. TypeOK /\ Trackers /\ Variables /\ Lists
  BY DEF Inv, Typed
<1>2. /\ ~Running /\ callbacks[Ahead] # <<>> /\ First[1] # "object" /\ callbacks' = Popped
      /\ state' = IF First[1] = "state" THEN Called(First[2]) ELSE state
      /\ UNCHANGED <<context, owner, value, object, cleaning, CurrentMemoryContext>>
  BY DEF TrackReset
<1>3. PICK lists : lists = Popped
  OBVIOUS
<1>4. /\ lists \in [Contexts -> Seq(Struct)]
      /\ First \in Struct /\ First \in Structs(Ahead) /\ Ahead \in Contexts
      /\ \A c \in Contexts :
           /\ NoDup(lists[c])
           /\ Range(lists[c]) \subseteq Structs(c)
           /\ Structs(c) \subseteq Range(lists[c]) \cup {First}
           /\ callbacks[c] = <<>> => lists[c] = <<>>
           /\ First[1] # "dangling" => First \notin Range(lists[c])
  BY <1>2, <1>3, PopsFirst, CleaningTyped
<1>5. PICK x \in Struct : x = First
  BY <1>4
<1>6. \A c \in Contexts : Range(callbacks'[c]) = Range(lists[c])
  BY <1>2, <1>3
<1>7. \A c \in Contexts, t \in States :
        <<"state", t>> \in Structs(c)' <=> <<"state", t>> \in Structs(c) /\ <<"state", t>> # x
  <2>1. \A c \in Contexts, t \in States :
          <<"state", t>> \in Range(lists[c]) <=> <<"state", t>> \in Structs(c) /\ <<"state", t>> # x
    BY <1>4, <1>5
  <2> QED
    BY <1>6, <2>1 DEF Structs
<1>8. \A t \in States : state'[t] =
        IF <<"state", t>> = x THEN [counter |-> state[t].counter + 1, callback |-> FALSE] ELSE state[t]
  <2>1. CASE x[1] = "state"
    <3>1. PICK s \in States : x = <<"state", s>>
      BY <2>1 DEF Struct
    <3>2. state' = [state EXCEPT ![s].counter = @ + 1, ![s].callback = FALSE]
      BY <1>2, <1>5, <3>1 DEF Called
    <3>3. state[s] \in [counter : 0 .. 1, callback : BOOLEAN]
      BY <1>1 DEF TypeOK
    <3>4. state'[s] = [counter |-> state[s].counter + 1, callback |-> FALSE]
      BY <1>1, <3>2, <3>3 DEF TypeOK
    <3>5. \A t \in States \ {s} : state'[t] = state[t]
      BY <1>1, <3>2 DEF TypeOK
    <3> QED
      BY <3>1, <3>4, <3>5
  <2>2. CASE x[1] # "state"
    BY <1>2, <1>5, <2>2
  <2> QED
    BY <2>1, <2>2
<1>9. ASSUME NEW t \in States, <<"state", t>> = x
      PROVE  Used(t) /\ state[t].callback /\ state[t].counter = 0
  BY <1>1, <1>4, <1>5, <1>9, RegisteredArmed
<1>10. \A t \in States : /\ state'[t] \in [counter : 0 .. 1, callback : BOOLEAN]
                         /\ state'[t].counter >= state[t].counter
                         /\ <<"state", t>> = x => state'[t].counter = 1 /\ ~state'[t].callback
                         /\ <<"state", t>> # x => state'[t] = state[t]
  <2>1. \A t \in States : /\ state[t] \in [counter : 0 .. 1, callback : BOOLEAN]
                          /\ state[t].counter \in 0 .. 1
    BY <1>1 DEF TypeOK
  <2>2. ASSUME NEW t \in States, <<"state", t>> = x
        PROVE  state'[t] = [counter |-> 1, callback |-> FALSE] /\ state[t].counter = 0
    BY <1>8, <1>9, <2>2
  <2>3. \A t \in States : <<"state", t>> # x => state'[t] = state[t]
    BY <1>8
  <2>4. ASSUME NEW t \in States, <<"state", t>> = x
        PROVE  /\ state'[t] \in [counter : 0 .. 1, callback : BOOLEAN]
               /\ state'[t].counter >= state[t].counter
               /\ state'[t].counter = 1 /\ ~state'[t].callback
    <3>1. state'[t] = [counter |-> 1, callback |-> FALSE] /\ state[t].counter = 0
      BY <2>2, <2>4
    <3>2. state'[t].counter = 1 /\ ~state'[t].callback
      BY <3>1
    <3>3. [counter |-> 1, callback |-> FALSE] \in [counter : 0 .. 1, callback : BOOLEAN]
      OBVIOUS
    <3> QED
      BY <3>1, <3>2, <3>3
  <2>5. \A t \in States : state[t].counter >= state[t].counter
    BY <2>1
  <2> QED
    BY <2>1, <2>3, <2>4, <2>5
<1>11. state' \in [States -> [counter : 0 .. 1, callback : BOOLEAN]]
  <2>1. state' = [t \in States |-> state'[t]]
    BY <1>1, <1>2 DEF TypeOK, Called
  <2> QED
    BY <1>10, <2>1
<1>12. Lists'
  <2>1. callbacks' \in [Contexts -> Seq(Struct)] /\ \A c \in Contexts : callbacks'[c] = lists[c]
    BY <1>2, <1>3, <1>4
  <2>2. \A c \in Contexts : \A y \in Range(callbacks'[c]) : y \in Range(callbacks[c])
    BY <1>4, <1>6 DEF Structs
  <2> QED
    BY <1>1, <1>2, <1>4, <2>1, <2>2, ListsReduced
<1>13. Trackers'
  <2>1. \A t : Used(t)' <=> Used(t)
    BY <1>2 DEF Used
  <2>2. CallbacksPaired'
    <3> SUFFICES ASSUME NEW t \in States
                 PROVE  (\E c \in Contexts : <<"state", t>> \in Structs(c)') <=>
                          Used(t)' /\ state'[t].callback
      BY RefsUsed DEF CallbacksPaired, Registered
    <3>1. (\E c \in Contexts : <<"state", t>> \in Structs(c)) <=> Used(t) /\ state[t].callback
      BY <1>1, RefsUsed DEF Trackers, CallbacksPaired, Registered
    <3> QED
      BY <1>7, <1>10, <2>1, <3>1
  <2>3. GoneIsKnown'
    <3> SUFFICES ASSUME NEW v \in Values, NEW p \in Parts, value[v][p].gone
                 PROVE  Resets(value[v][p])' > 0
      BY <1>2 DEF GoneIsKnown
    <3>1. Resets(value[v][p]) > 0
      BY <1>1 DEF Trackers, GoneIsKnown
    <3>2. PICK t \in States : t = value[v][p].state
      BY <1>1, <3>1, PtrTyped DEF Ptr, States, Resets
    <3>3. state[t].counter > 0 /\ t # 0
      BY <3>1, <3>2 DEF Resets
    <3>4. state'[t].counter > 0
      BY <1>9, <1>10, <3>3
    <3> QED
      BY <1>2, <3>2, <3>3, <3>4 DEF Resets
  <2>4. ASSUME NEW t \in States, Used(t) PROVE state'[t].callback <=> state'[t].counter = 0
    BY <1>1, <1>10, <2>4 DEF Trackers, Guarded
  <2>5. ASSUME NEW v \in Values, NEW p \in Parts, value[v][p].state # 0
        PROVE  \/ state'[value[v][p].state].counter > 0
               \/ <<"state", value[v][p].state>> \in Range(callbacks'[value[v][p].context])
    <3>1. PICK t \in States, c \in Contexts : t = value[v][p].state /\ c = value[v][p].context
      BY <1>1, <2>5, PtrTyped DEF Ptr, States
    <3>2. state[t].counter > 0 \/ <<"state", t>> \in Structs(c)
      BY <1>1, <2>5, <3>1 DEF Trackers, Guarded
    <3>3. state'[t].counter > 0 \/ <<"state", t>> \in Structs(c)'
      BY <1>7, <1>10, <3>2
    <3> QED
      BY <3>1, <3>3 DEF Structs
  <2>6. Guarded'
    BY <1>2, <2>1, <2>4, <2>5 DEF Guarded, Structs
  <2> QED
    BY <2>2, <2>3, <2>6 DEF Trackers
<1>14. Variables'
  <2>1. \A i \in Objects, c \in Contexts :
          <<"object", i>> \in Structs(c)' <=> <<"object", i>> \in Structs(c)
    <3>1. \A i \in Objects, c \in Contexts :
            <<"object", i>> \in Range(lists[c]) <=> <<"object", i>> \in Structs(c)
      BY <1>2, <1>4
    <3> QED
      BY <1>6, <3>1 DEF Structs
  <2>2. \A v \in Values : value'[v] = NoValue \/ value'[v].datum.state # 0
    BY <1>1, <1>2 DEF Variables, Exists
  <2> QED
    BY <1>1, <1>2, <2>1, <2>2, VariablesKeep
<1> QED
  BY <1>1, <1>2, <1>11, <1>12, <1>13, <1>14, ValueStep DEF TypeOK, ValueType

LEMMA DestroyObjectKeeps == ASSUME Inv, DestroyObject PROVE Inv'
<1>1. TypeOK /\ Trackers /\ Variables /\ Lists
  BY DEF Inv, Typed
<1>2. ~Running /\ callbacks[Ahead] # <<>> /\ First[1] = "object"
  BY DEF DestroyObject
<1>3. PICK lists : lists = Popped
  OBVIOUS
<1>4. /\ lists \in [Contexts -> Seq(Struct)]
      /\ First \in Struct /\ First \in Structs(Ahead) /\ Ahead \in Contexts
      /\ \A c \in Contexts :
           /\ NoDup(lists[c])
           /\ Range(lists[c]) \subseteq Structs(c)
           /\ Structs(c) \subseteq Range(lists[c]) \cup {First}
           /\ callbacks[c] = <<>> => lists[c] = <<>>
           /\ First[1] # "dangling" => First \notin Range(lists[c])
  BY <1>2, <1>3, PopsFirst, CleaningTyped
<1>5. PICK i \in Objects : First = <<"object", i>>
  BY <1>2, <1>4 DEF Struct
<1>6. PICK V \in SUBSET Values : V = {v \in Values : Exists(v) /\ value[v].holder = i}
  OBVIOUS
<1>7. PICK E \in SUBSET States : E = Ends(V \X Parts)
  BY DEF Ends
<1>8. /\ state' = Forgotten(E) /\ callbacks' = Disarmed(lists, E)
      /\ value' = [v \in Values |-> IF v \in V THEN NoValue ELSE value[v]]
      /\ object' = [object EXCEPT ![i] = IF @.life = "live" THEN [life |-> "none", context |-> 0]
                                         ELSE [@ EXCEPT !.life = "destroyed twice"]]
      /\ UNCHANGED <<context, owner, cleaning, CurrentMemoryContext>>
  BY <1>3, <1>5, <1>6, <1>7 DEF DestroyObject
<1>9. /\ callbacks' \in [Contexts -> Seq(Struct)]
      /\ \A c \in Contexts :
           /\ NoDup(callbacks'[c]) /\ (callbacks[c] = <<>> => callbacks'[c] = <<>>)
           /\ Range(callbacks'[c]) =
                Range(lists[c]) \ {<<"state", s>> : s \in {t \in E : state[t].callback}}
  <2>1. callbacks' \in [Contexts -> Seq(Struct)]
    BY <1>4, <1>8, ListsDisarmed, Numbers
  <2>2. ASSUME NEW c \in Contexts
        PROVE  /\ NoDup(callbacks'[c]) /\ (lists[c] = <<>> => callbacks'[c] = <<>>)
               /\ Range(callbacks'[c]) =
                    Range(lists[c]) \ {<<"state", s>> : s \in {t \in E : state[t].callback}}
    BY <1>4, <1>8, ListsDisarmed
  <2> QED
    BY <1>4, <2>1, <2>2
<1>10. Lists'
  BY <1>1, <1>4, <1>8, <1>9, ListsReduced DEF Structs
<1>11. ASSUME NEW c \in Contexts, NEW s \in States
       PROVE  <<"state", s>> \in Structs(c)' <=> <<"state", s>> \in Structs(c) /\ s \notin E
  <2>1. <<"state", s>> \in Structs(c)' <=>
          <<"state", s>> \in Range(lists[c]) /\ ~(s \in E /\ state[s].callback)
    BY <1>9 DEF Structs
  <2>2. <<"state", s>> \in Range(lists[c]) <=> <<"state", s>> \in Structs(c)
    BY <1>4, <1>5
  <2>3. <<"state", s>> \in Structs(c) => state[s].callback
    BY <1>1, RegisteredArmed
  <2> QED
    BY <2>1, <2>2, <2>3
<1>12. ASSUME NEW c \in Contexts, NEW j \in Objects
       PROVE  <<"object", j>> \in Structs(c)' <=> <<"object", j>> \in Structs(c) /\ j # i
  <2>1. <<"object", j>> \in Structs(c)' <=> <<"object", j>> \in Range(lists[c])
    BY <1>9 DEF Structs
  <2>2. <<"object", j>> \in Range(lists[c]) <=> <<"object", j>> \in Structs(c) /\ j # i
    BY <1>4, <1>5
  <2> QED
    BY <2>1, <2>2
<1>13. ASSUME NEW v \in Values
       PROVE  /\ v \in V => value'[v] = NoValue /\ \A p \in Parts : value'[v][p] = NoPtr
              /\ v \notin V => value'[v] = value[v] /\ value[v].holder # i
              /\ value'[v] \in ValueType
  <2>1. v \notin V => value[v].holder # i
    BY <1>1, <1>6, Numbers DEF Variables, NoValue
  <2> QED
    BY <1>1, <1>8, <2>1, ValueFields
<1>14. value' \in [Values -> ValueType]
  BY <1>8, <1>13
<1>15. Drops(E)
  <2>1. ASSUME NEW s \in States
        PROVE  s \in E <=> Used(s) /\ \A v \in Values, p \in Parts : value[v][p].state = s => v \in V
    BY <1>7, EndsOf
  <2>2. ASSUME NEW s \in States PROVE Used(s)' <=> Used(s) /\ s \notin E
    <3>1. s # 0 /\ NoPtr.state = 0
      BY Numbers DEF NoPtr
    <3>2. Used(s)' <=> \E v \in Values \ V, p \in Parts : value[v][p].state = s
      BY <1>13, <3>1 DEF Used
    <3> QED
      BY <2>1, <3>2 DEF Used
  <2>3. ASSUME NEW v \in Values, NEW p \in Parts
        PROVE  value'[v][p] = NoPtr \/ (value'[v][p] = value[v][p] /\ value[v][p].state \notin E)
    BY <1>13, <2>1
  <2> QED
    BY <1>8, <1>11, <2>2, <2>3 DEF Drops
<1>16. Trackers'
  BY <1>1, <1>15, TrackersDropped
<1>17. object[i].life = "live"
  BY <1>1, <1>4, <1>5 DEF Variables, ObjectsGoWithContext, Registered
<1>18. /\ object'[i] = [life |-> "none", context |-> 0]
       /\ \A j \in Objects \ {i} : object'[j] = object[j]
       /\ object' \in [Objects -> [life : {"none", "live"}, context : Contexts]]
  <2>1. object' = [object EXCEPT ![i] = [life |-> "none", context |-> 0]]
    BY <1>8, <1>17
  <2> QED
    BY <1>1, <2>1, Numbers DEF TypeOK
<1>19. Variables'
  <2>1. ASSUME NEW j \in Objects
        PROVE  object'[j].life = "live" <=> \E c \in Contexts : <<"object", j>> \in Structs(c)'
    <3>1. object[j].life = "live" <=> \E c \in Contexts : <<"object", j>> \in Structs(c)
      BY <1>1 DEF Variables, ObjectsGoWithContext, Registered
    <3> QED
      BY <1>12, <1>18, <3>1
  <2>2. ASSUME NEW v \in Values, value'[v].holder # 0 PROVE object'[value'[v].holder].life = "live"
    <3>1. v \notin V
      BY <1>13, <2>2 DEF NoValue
    <3>2. value'[v].holder = value[v].holder /\ value[v].holder # i /\ value[v].holder # 0
      BY <1>13, <2>2, <3>1
    <3>3. value[v].holder \in Objects /\ object[value[v].holder].life = "live"
      BY <1>1, <3>2 DEF TypeOK, Objects, Variables, ObjectsGoWithContext
    <3> QED
      BY <1>18, <3>2, <3>3
  <2>3. \A v \in Values : value'[v] = NoValue \/ value'[v].datum.state # 0
    BY <1>1, <1>13 DEF Variables, Exists
  <2> QED
    BY <2>1, <2>2, <2>3 DEF Variables, ObjectsGoWithContext, Registered, Exists
<1> QED
  BY <1>1, <1>8, <1>10, <1>14, <1>16, <1>18, <1>19, ForgottenTyped, ValueStep DEF TypeOK

\* A context is gone: every tracker of it has counted that.
LEMMA WipeKeeps == ASSUME Inv, Wipe PROVE Inv'
<1>1. TypeOK /\ Trackers /\ Variables /\ Lists /\ OneOwner /\ cleaning \in Seq(Made)
  BY DEF Inv, Typed
<1>2. /\ ~Running /\ callbacks[Ahead] = <<>>
      /\ context' = [context EXCEPT ![Ahead] =
           IF @.life = "deleting" THEN [life |-> "none", parent |-> 0] ELSE @]
      /\ value' = [v \in Values |-> [value[v] EXCEPT !.datum = Lost(@), !.detoasted = Lost(@)]]
      /\ cleaning' = Tail(cleaning)
      /\ UNCHANGED <<owner, callbacks, state, object, CurrentMemoryContext>>
  BY DEF Wipe
<1>3. PICK a \in Made : a = Ahead
  BY <1>2, CleaningTyped
<1>4. a \in Contexts /\ cleaning' \in Seq(Made) /\ Structs(a) = {}
  <2>1. Range(<<>>) = {}
    BY EmptySeq DEF Range
  <2> QED
    BY <1>2, <1>3, <2>1, CleaningTyped DEF Structs
<1>5. \A c \in Contexts :
        /\ context[c] \in [life : {"none", "live", "deleting"}, parent : Contexts]
        /\ context'[c] = IF c = a /\ context[a].life = "deleting"
                         THEN [life |-> "none", parent |-> 0] ELSE context[c]
  BY <1>1, <1>2, <1>3, <1>4 DEF TypeOK
<1>6. context' \in [Contexts -> [life : {"none", "live", "deleting"}, parent : Contexts]]
  <2>1. [life |-> "none", parent |-> 0] \in [life : {"none", "live", "deleting"}, parent : Contexts]
    BY Numbers
  <2>2. context' = [c \in Contexts |-> context'[c]]
    BY <1>1, <1>2 DEF TypeOK
  <2> QED
    BY <1>5, <2>1, <2>2
<1>7. Lists'
  BY <1>1, <1>2, <1>3, <1>5, ListsStay
<1>8. OneOwner'
  <2>1. \A o \in Owners : owner[o] # 0 => context'[owner[o]] = context[owner[o]]
    BY <1>1, <1>5 DEF OneOwner, Live, TypeOK
  <2> QED
    BY <1>1, <1>2, <2>1, OwnersKeep
<1>9. ASSUME NEW p \in Ptr
      PROVE  /\ Lost(p) \in Ptr /\ Lost(p).state = p.state
             /\ Lost(p) = p \/ (p.state # 0 /\ p.context = a /\ Lost(p).gone)
  BY <1>3, Numbers DEF Lost, Ptr
<1>10. ASSUME NEW v \in Values
       PROVE  /\ value'[v] \in ValueType /\ value'[v].holder = value[v].holder
              /\ \A p \in Parts : value'[v][p] = Lost(value[v][p]) /\ value[v][p] \in Ptr
  <2>1. /\ value[v] \in ValueType
        /\ value'[v] = [value[v] EXCEPT !.datum = Lost(@), !.detoasted = Lost(@)]
    BY <1>1, <1>2, ValueFields
  <2>2. Lost(value[v].datum) \in Ptr /\ Lost(value[v].detoasted) \in Ptr
    BY <1>1, <1>9, ValueFields
  <2>3. /\ value'[v] \in ValueType /\ value'[v].holder = value[v].holder
        /\ value'[v].datum = Lost(value[v].datum) /\ value'[v].detoasted = Lost(value[v].detoasted)
    BY <2>1, <2>2 DEF ValueType
  <2>4. \A p \in Parts : p = "datum" \/ p = "detoasted"
    BY DEF Parts
  <2> QED
    BY <1>1, <2>3, <2>4, PtrTyped
<1>11. value' \in [Values -> ValueType]
  BY <1>2, <1>10
<1>12. \A v \in Values, p \in Parts :
         /\ value'[v][p].state = value[v][p].state
         /\ \/ value'[v][p] = value[v][p]
            \/ value[v][p].state # 0 /\ value[v][p].context = a
  BY <1>9, <1>10
<1>13. ASSUME NEW v \in Values, NEW p \in Parts, value[v][p].state # 0, value[v][p].context = a
       PROVE  state[value[v][p].state].counter > 0
  <2>1. \/ state[value[v][p].state].counter > 0
        \/ <<"state", value[v][p].state>> \in Structs(value[v][p].context)
    BY <1>1, <1>13 DEF Trackers, Guarded
  <2>2. <<"state", value[v][p].state>> \notin Structs(value[v][p].context)
    BY <1>4, <1>13
  <2> QED
    BY <2>1, <2>2
<1>14. \A s : Used(s)' <=> Used(s)
  BY <1>12 DEF Used
<1>15. Trackers'
  <2>1. CallbacksPaired'
    <3>1. \A s \in States : Registered(<<"state", s>>)' <=> Registered(<<"state", s>>)
      BY <1>2 DEF Registered, Structs
    <3> QED
      BY <1>1, <1>2, <1>14, <3>1, RefsUsed DEF Trackers, CallbacksPaired
  <2>2. GoneIsKnown'
    <3> SUFFICES ASSUME NEW v \in Values, NEW p \in Parts, value'[v][p].gone
                 PROVE  Resets(value[v][p])' > 0
      BY DEF GoneIsKnown
    <3>1. CASE value'[v][p] = value[v][p]
      BY <1>1, <1>2, <3>1 DEF Trackers, GoneIsKnown, Resets
    <3>2. CASE value[v][p].state # 0 /\ value[v][p].context = a
      BY <1>2, <1>12, <1>13, <3>2 DEF Resets
    <3> QED
      BY <1>12, <3>1, <3>2
  <2>3. ASSUME NEW v \in Values, NEW p \in Parts, value'[v][p].state # 0
        PROVE  \/ state[value'[v][p].state].counter > 0
               \/ <<"state", value'[v][p].state>> \in Structs(value'[v][p].context)
    <3>1. CASE value'[v][p] = value[v][p]
      BY <1>1, <2>3, <3>1 DEF Trackers, Guarded
    <3>2. CASE value[v][p].state # 0 /\ value[v][p].context = a
      BY <1>12, <1>13, <3>2
    <3> QED
      BY <1>12, <3>1, <3>2
  <2>4. ASSUME NEW s \in States, Used(s)' PROVE state[s].callback <=> state[s].counter = 0
    BY <1>1, <1>14, <2>4 DEF Trackers, Guarded
  <2>5. Guarded'
    BY <1>2, <2>3, <2>4 DEF Guarded, Structs
  <2> QED
    BY <2>1, <2>2, <2>5 DEF Trackers
<1>16. Variables'
  <2>1. \A i \in Objects : Registered(<<"object", i>>)' <=> Registered(<<"object", i>>)
    BY <1>2 DEF Registered, Structs
  <2>2. ObjectsGoWithContext'
    BY <1>1, <1>2, <1>10, <2>1 DEF Variables, ObjectsGoWithContext
  <2>3. ASSUME NEW v \in Values, value'[v].datum.state = 0 PROVE value'[v] = NoValue
    <3>1. value'[v]["datum"].state = value[v]["datum"].state
      BY <1>12 DEF Parts
    <3>2. value[v] = NoValue
      BY <1>1, <2>3, <3>1 DEF Variables, Exists
    <3>3. Lost(NoPtr) = NoPtr
      BY DEF Lost, NoPtr
    <3>4. value'[v] = [NoValue EXCEPT !.datum = Lost(@), !.detoasted = Lost(@)]
      BY <1>2, <3>2
    <3> QED
      BY <3>3, <3>4 DEF NoValue
  <2> QED
    BY <2>2, <2>3 DEF Variables, Exists
<1>17. Typed'
  BY <1>1, <1>2, <1>4, <1>6, <1>11 DEF Typed, TypeOK, Structs, ValueType
<1> QED
  BY <1>7, <1>8, <1>15, <1>16, <1>17 DEF Inv
-------------------------------------------------------------------------------
\* The invariant, and what it says of every run.

LEMMA InvInit == Init => Inv
<1> SUFFICES ASSUME Init PROVE Inv
  OBVIOUS
<1>1. /\ context \in [Contexts -> [life : {"none", "live", "deleting"}, parent : Contexts]]
      /\ owner \in [Owners -> Contexts] /\ CurrentMemoryContext \in Contexts
      /\ callbacks \in [Contexts -> Seq(Struct)] /\ cleaning \in Seq(Made)
      /\ \A c \in Contexts : callbacks[c] = <<>>
  BY Numbers, EmptySeq DEF Init
<1>2. \A c \in Contexts : Structs(c) = {}
  BY <1>1, EmptySeq DEF Structs, Range
<1>3. /\ state \in [States -> [counter : 0 .. 1, callback : BOOLEAN]]
      /\ object \in [Objects -> [life : {"none", "live"}, context : Contexts]]
      /\ \A s \in States : ~state[s].callback
      /\ \A i \in Objects : object[i].life = "none"
  BY Numbers DEF Init, NoState
<1>4. value \in [Values -> ValueType]
      /\ \A v \in Values : value[v] = NoValue /\ \A p \in Parts : value[v][p] = NoPtr
  <2>1. NoPtr \in Ptr
    BY Numbers DEF NoPtr, Ptr
  <2>2. NoValue \in ValueType /\ \A p \in Parts : NoValue[p] = NoPtr
    BY <2>1, Numbers DEF NoValue, ValueType, Parts
  <2> QED
    BY <2>2 DEF Init
<1>5. Typed
  BY <1>1, <1>2, <1>3, <1>4 DEF Typed, TypeOK, ValueType
<1>6. Lists
  BY <1>1, <1>2, EmptySeq DEF Lists, NoDup
<1>7. OneOwner
  BY DEF Init, OneOwner
<1>8. \A s \in States : ~Used(s) /\ ~Registered(<<"state", s>>)
  BY <1>2, <1>4, Numbers DEF Used, Registered, NoPtr
<1>9. Trackers
  <2>1. CallbacksPaired
    BY <1>3, <1>8, RefsUsed DEF CallbacksPaired
  <2>2. GoneIsKnown
    BY <1>4 DEF GoneIsKnown, NoPtr
  <2>3. \A v \in Values, p \in Parts : value[v][p].state = 0
    BY <1>4 DEF NoPtr
  <2>4. Guarded
    BY <1>8, <2>3 DEF Guarded
  <2> QED
    BY <2>1, <2>2, <2>4 DEF Trackers
<1>10. Variables
  BY <1>2, <1>3, <1>4 DEF Variables, ObjectsGoWithContext, Registered, NoValue
<1> QED
  BY <1>5, <1>6, <1>7, <1>9, <1>10 DEF Inv

LEMMA InvNext == Inv /\ [Next]_vars => Inv'
<1> SUFFICES ASSUME Inv, [Next]_vars PROVE Inv'
  OBVIOUS
<1>1. CASE \E o \in Owners : (\E c \in Made : NewOwner(o, c)) \/ DestroyOwner(o) \/ Release(o)
  BY <1>1, NewOwnerKeeps, DestroyOwnerKeeps, ReleaseKeeps
<1>2. CASE \E o, p \in Owners : MoveOwner(o, p)
  BY <1>2, MoveOwnerKeeps
<1>3. CASE \E c \in Contexts : Reset(c) \/ DeleteContext(c) \/ Switch(c)
  BY <1>3, ResetKeeps, DeleteContextKeeps, SwitchKeeps
<1>4. CASE \E v \in Values, s \in States, c \in Contexts : NewValue(v, s, c)
  BY <1>4, NewValueKeeps
<1>5. CASE \E v, w \in Values : Copy(v, w) \/ Move(v, w) \/ Assign(v, w)
  BY <1>5, CopyKeeps, MoveKeeps, AssignKeeps
<1>6. CASE \E v \in Values : DestroyValue(v) \/ DetoastInPlace(v)
  BY <1>6, DestroyValueKeeps, DetoastInPlaceKeeps
<1>7. CASE \E v \in Values, s \in States : DetoastCopy(v, s)
  BY <1>7, DetoastCopyKeeps
<1>8. CASE \E i \in Objects, c \in Contexts, V \in SUBSET Values : Construct(i, c, V)
  BY <1>8, ConstructKeeps
<1>9. CASE \E v \in Values, s \in States, i \in Objects, c \in Made : NewExpanded(v, s, i, c)
  BY <1>9, NewExpandedKeeps
<1>10. CASE \E v \in Values, i \in Objects, c \in Made : Expand(v, i, c)
  BY <1>10, ExpandKeeps
<1>11. CASE TrackReset \/ DestroyObject \/ Wipe
  BY <1>11, TrackResetKeeps, DestroyObjectKeeps, WipeKeeps
<1>12. CASE UNCHANGED vars
  <2>1. /\ UNCHANGED <<callbacks, state, value, object>>
        /\ UNCHANGED <<context, owner, cleaning, CurrentMemoryContext>>
    BY <1>12 DEF vars
  <2>2. TypeOK /\ OneOwner /\ cleaning \in Seq(Made)
    BY DEF Inv, Typed
  <2>3. OneOwner'
    BY <2>1, <2>2, OwnersKeep
  <2> QED
    BY <2>1, <2>2, <2>3, TreeKeeps DEF TypeOK
<1> QED
  BY <1>1, <1>2, <1>3, <1>4, <1>5, <1>6, <1>7, <1>8, <1>9, <1>10, <1>11, <1>12 DEF Next

LEMMA Invariance == Spec => []Inv
BY InvInit, InvNext, PTL DEF Spec

\* Every variable of Memory keeps its type.  In particular no state ever counts a
\* second reset (memory.hpp:220-224: a struct runs once, and is registered once), and
\* no constructed object is destroyed twice (memory.hpp:55-80).
THEOREM MemoryTypes == Spec => []TypeOK
<1>1. Inv => TypeOK
  BY DEF Inv, Typed
<1> QED
  BY <1>1, Invariance, PTL

\* memory.hpp:253-258 writes through the callback pointer of its state, without knowing
\* whether the struct is still there: it is whenever the pointer is not null, and a
\* struct that is still there has trackers.
THEOREM CallbacksArePaired == Spec => []CallbacksPaired
<1>1. Inv => CallbacksPaired
  BY DEF Inv, Trackers
<1> QED
  BY <1>1, Invariance, PTL

\* type.hpp:97 and type.hpp:120 take resets() > 0 for "the memory is gone", and throw
\* pointer_gone_exception: no pointer whose memory is gone passes that test, however
\* its tracker was shared, moved and assigned to before.
THEOREM GoneIsAlwaysKnown == Spec => []GoneIsKnown
<1>1. Inv => GoneIsKnown
  BY DEF Inv, Trackers
<1> QED
  BY <1>1, Invariance, PTL

\* An owned_memory_context that was not moved from owns a context that exists, and is
\* the only one to do so: its destructor deletes no context a second time.
THEOREM ContextsHaveOneOwner == Spec => []OneOwner
<1>1. Inv => OneOwner
  BY DEF Inv
<1> QED
  BY <1>1, Invariance, PTL

\* What construct() builds (memory.hpp:55-80) is there exactly as long as its context
\* is to run its destructor, and outlives none of its members.
THEOREM ObjectsGo == Spec => []ObjectsGoWithContext
<1>1. Inv => ObjectsGoWithContext
  BY DEF Inv, Variables
<1> QED
  BY <1>1, Invariance, PTL
===============================================================================
