------------------------------ MODULE CallProofs ------------------------------
(****************************************************************************)
(* Theorems about Call, for any SQL types and any number of rows.            *)
(****************************************************************************)
EXTENDS Call, SequenceTheorems, TLAPS

Callers ==
  [by : {"sql", "function", "query"}, args : Upto1(CppTypes),
   ret : CppTypes \cup {Sql.ret}, strict : BOOLEAN]

\* A function<> that was not refused keeps the signature of its SQL function.
CallerOK ==
  /\ caller \in Callers
  /\ caller.by = "sql" => caller = Sql
  /\ caller.by = "function" => Matches(caller)

\* What was passed, by a caller that has seen to nulls, is as wide as its type.
Passed ==
  /\ caller.by # "query"
  /\ Len(given) = Len(decl.args)
  /\ \A i \in DOMAIN given : ArgType(i) = Any \/ given[i].v <= Width(ArgType(i))
  /\ (\E i \in DOMAIN given : given[i].v = Null) =>
       ~(IF caller.by = "sql" THEN decl.strict ELSE caller.strict)

\* How far a call is says which parts of its state are there.
Phases ==
  /\ at # "done" => end = "none"
  /\ at = "idle" => caller = Sql
  /\ at = "held" => caller.by = "function"
  /\ at \in {"idle", "held"} => given = <<>>
  /\ at \in {"idle", "held", "called"} =>
       seen = <<>> /\ returned = <<>> /\ arrived = <<>>
  /\ at \in {"called", "body"} => Passed
  /\ at = "body" =>
       /\ ReturnTypeFits
       /\ Len(arrived) = Len(returned)
       /\ body.kind = "value" => returned = <<>>

Inv == TypeOK /\ CallerOK /\ Phases /\ CallIsFaithful
-------------------------------------------------------------------------------
LEMMA WidthInNat == ASSUME NEW t PROVE Width(t) \in 1..3
BY DEF Width

\* A sequence of at most one element, by its length.
LEMMA Upto1IsSeq ==
  ASSUME NEW S, NEW s \in Upto1(S)
  PROVE  s \in Seq(S) /\ Len(s) \in 0..1 /\ DOMAIN s = 1..Len(s) /\ \A i \in DOMAIN s : s[i] \in S
<1>1. CASE s = <<>>
  BY <1>1, EmptySeq
<1>2. CASE \E x \in S : s = <<x>>
  BY <1>2
<1> QED
  BY <1>1, <1>2 DEF Upto1

\* A function on the domain of such a sequence is one as well.
LEMMA Upto1Mapped ==
  ASSUME NEW S, NEW T, NEW s \in Upto1(S), NEW f, f = [i \in DOMAIN s |-> f[i]],
         \A i \in DOMAIN s : f[i] \in T
  PROVE  f \in Upto1(T)
<1>1. CASE s = <<>>
  <2>1. f = <<>>
    BY <1>1
  <2> QED
    BY <2>1 DEF Upto1
<1>2. CASE \E x \in S : s = <<x>>
  <2>1. DOMAIN s = 1..1
    BY <1>2
  <2>2. f = <<f[1]>>
    BY <2>1
  <2> QED
    BY <2>1, <2>2 DEF Upto1
<1> QED
  BY <1>1, <1>2 DEF Upto1

\* What an accepted type reads is what was written, but for a float4 read as a float8.
LEMMA CarriedAsIs ==
  ASSUME NEW c, NEW t, NEW v \in 0..3, Accepts(c, t), t = Any \/ v <= Width(t)
  PROVE  Carried(t, c.of, v) = v \/ (c.of = "float8" /\ t = "float4")
<1>1. CASE c.of \in {Any, t} \/ t = Any
  BY <1>1 DEF Carried
<1>2. CASE {c.of, t} \subseteq Integers /\ Width(t) <= Width(c.of) /\ t # Any
  <2>1. v <= Width(c.of)
    BY <1>2, WidthInNat
  <2> QED
    BY <1>2, <2>1 DEF Carried
<1> QED
  BY <1>1, <1>2 DEF Accepts

\* The way back, where the type declared is one that the C++ type accepts.
LEMMA CarriedBack ==
  ASSUME NEW c, NEW t, NEW v \in 0..3, Accepts(c, t)
  PROVE  \/ Carried(c.of, t, v) = v
         \/ v > Width(t)
         \/ c.of = "float8" /\ t = "float4"
<1>1. CASE c.of \in {Any, t} \/ t = Any
  BY <1>1 DEF Carried
<1>2. CASE {c.of, t} \subseteq Integers
  BY <1>2, WidthInNat DEF Carried
<1> QED
  BY <1>1, <1>2 DEF Accepts

LEMMA CarriedIsCell ==
  ASSUME NEW a, NEW b, NEW v \in 0..3 PROVE Carried(a, b, v) \in Cell
BY DEF Carried, Cell, Values, Null, Garbled

LEMMA ValuesAreCells ==
  ASSUME NEW c, NEW t, NEW v \in ValuesOf(c, t)
  PROVE  v \in 0..3 /\ v <= Width(IF c.of = Any THEN t ELSE c.of)
BY WidthInNat DEF ValuesOf, Values, Null
-------------------------------------------------------------------------------
LEMMA InvInit == Init => Inv
<1> SUFFICES ASSUME Init PROVE Inv
  OBVIOUS
<1>1. TypeOK
  <2>1. returned \in Seq([t : SqlTypes \cup {Any}, v : Cell \ {Garbled}]) /\ arrived \in Seq(Cell)
    BY EmptySeq DEF Init
  <2> QED
    BY <2>1 DEF Init, TypeOK, Sql, Arguments, Upto1
<1>2. CallerOK
  BY DEF Init, CallerOK, Callers, Sql, Upto1
<1>3. Phases
  BY DEF Init, Phases
<1>4. CallIsFaithful
  BY DEF Init, CallIsFaithful, ArgumentsArrive, ResultsArrive, StrictSeesNoNull, NullHasAReason
<1> QED
  BY <1>1, <1>2, <1>3, <1>4 DEF Inv
-------------------------------------------------------------------------------
\* What a caller does before the body runs.

LEMMA ConstructKeeps ==
  ASSUME Inv, NEW args \in Upto1(CppTypes), NEW ret \in CppTypes, Construct(args, ret)
  PROVE  Inv'
<1> USE DEF Inv
<1> DEFINE c == [by |-> "function", args |-> args, ret |-> ret, strict |-> decl.strict]
<1>1. /\ caller = Sql /\ given = <<>> /\ seen = <<>> /\ returned = <<>> /\ arrived = <<>>
      /\ end = "none" /\ at = "idle"
  BY DEF Construct, Phases
<1>2. c \in Callers /\ decl.strict \in BOOLEAN
  BY DEF Callers, TypeOK, Decls
<1>3. \/ caller' = c /\ Matches(c) /\ at' = "held" /\ end' = "none"
      \/ caller' = Sql /\ at' = "done" /\ end' = "refused"
  BY <1>1 DEF Construct, EndsIn
<1>4. UNCHANGED <<decl, body, given, seen, returned, arrived>>
  BY DEF Construct
<1>5. CallerOK'
  <2>1. CASE caller' = Sql
    BY <1>1, <2>1 DEF CallerOK, Sql
  <2>2. CASE caller' = c /\ Matches(c)
    <3>1. caller'.by = "function"
      BY <2>2
    <3>2. Matches(caller)'
      BY <1>4, <2>2 DEF Matches
    <3> QED
      BY <1>2, <2>2, <3>1, <3>2 DEF CallerOK
  <2> QED
    BY <1>3, <2>1, <2>2
<1>6. TypeOK'
  <2>1. caller'.ret \in CppTypes \cup {Sql.ret} /\ caller'.by \in {"sql", "function"}
    BY <1>2, <1>3 DEF Sql
  <2>2. caller' = Sql \/ caller'.by = "function"
    BY <1>3
  <2>3. caller'.by = "function" => caller'.ret.of \in {Any, decl.ret}
    BY <1>3 DEF Sql, Matches
  <2> QED
    BY <1>3, <1>4, <2>1, <2>2, <2>3 DEF TypeOK
<1>7. Phases'
  BY <1>1, <1>3, <1>4 DEF Phases
<1>8. CallIsFaithful'
  BY <1>1, <1>3, <1>4
  DEF CallIsFaithful, ArgumentsArrive, ResultsArrive, StrictSeesNoNull, NullHasAReason
<1> QED
  BY <1>5, <1>6, <1>7, <1>8

LEMMA ReplaceKeeps == ASSUME Inv, Replace PROVE Inv'
<1> USE DEF Inv
<1>1. /\ given = <<>> /\ seen = <<>> /\ returned = <<>> /\ arrived = <<>>
      /\ end = "none" /\ at = "held" /\ caller.by = "function"
  BY DEF Replace, Phases
<1>2. UNCHANGED <<body, at, caller, given, seen, returned, arrived, end>>
  BY DEF Replace
<1>3. decl' \in Decls /\ decl'.args = decl.args /\ decl'.ret = decl.ret
  BY DEF Replace, TypeOK, Decls
<1>4. CallerOK'
  BY <1>1, <1>2, <1>3 DEF CallerOK, Matches
<1>5. TypeOK'
  BY <1>2, <1>3 DEF TypeOK
<1>6. Phases'
  BY <1>1, <1>2 DEF Phases
<1>7. CallIsFaithful'
  BY <1>1, <1>2
  DEF CallIsFaithful, ArgumentsArrive, ResultsArrive, StrictSeesNoNull, NullHasAReason
<1> QED
  BY <1>4, <1>5, <1>6, <1>7

\* What both calls come to: the function is called, or has ended with null, owed to a
\* null argument that the caller can tell of, or with an error.
CallStep ==
  \/ at' = "called" /\ end' = "none" /\ Passed'
  \/ at' = "done" /\ end' = "error"
  \/ /\ at' = "done" /\ end' = "null"
     /\ Nullable(caller.ret) /\ \E i \in DOMAIN given' : given'[i].v = Null

LEMMA CallStepKeeps ==
  ASSUME Inv, at \in {"idle", "held"}, given' \in Arguments, CallStep,
         UNCHANGED <<decl, body, caller, seen, returned, arrived>>
  PROVE  Inv'
<1> USE DEF Inv
<1>1. seen = <<>> /\ returned = <<>> /\ arrived = <<>>
  BY DEF Phases
<1>2. CallerOK'
  BY DEF CallerOK, Matches
<1>3. TypeOK'
  BY DEF TypeOK, CallStep
<1>4. Phases'
  BY <1>1 DEF Phases, CallStep
<1>5. NullHasAReason'
  BY <1>1 DEF CallStep, NullHasAReason
<1>6. ArgumentsArrive' /\ ResultsArrive' /\ StrictSeesNoNull'
  BY <1>1 DEF CallStep, ArgumentsArrive, ResultsArrive, StrictSeesNoNull
<1> QED
  BY <1>2, <1>3, <1>4, <1>5, <1>6 DEF CallIsFaithful

LEMMA CallHeldKeeps ==
  ASSUME Inv, NEW args \in Arguments, CallHeld(args) PROVE Inv'
<1> USE DEF Inv
<1>1. /\ at = "held" /\ given' = args /\ end = "none" /\ caller.by = "function"
      /\ UNCHANGED <<decl, body, caller, seen, returned, arrived>>
  BY DEF CallHeld, Phases
<1>2. Len(args) = Len(decl.args) /\ \A i \in DOMAIN caller.args : caller.args[i].of \in {Any, decl.args[i]}
  BY <1>1 DEF CallHeld, CallerOK, Matches
<1>3. DOMAIN args = DOMAIN caller.args
  BY Upto1IsSeq DEF CallHeld, Arguments, CallerOK, Callers
<1>4. ASSUME NEW i \in DOMAIN args
      PROVE  decl.args[i] = Any \/ args[i].v <= Width(decl.args[i])
  BY <1>2, <1>3, <1>4, ValuesAreCells DEF CallHeld
<1>5. CallStep
  <2> DEFINE throws == \E i \in DOMAIN args : args[i].v = Null /\ caller.args[i].of = Any
  <2>1. CASE throws
    BY <2>1 DEF CallHeld, EndsIn, CallStep
  <2>2. CASE ~throws /\ ShortCut(args)
    <3>1. at' = "done" /\ end' = IF caller.ret.optional THEN "null" ELSE "error"
      BY <2>2 DEF CallHeld, EndsIn
    <3>2. \E i \in DOMAIN given' : given'[i].v = Null
      BY <1>1, <2>2 DEF ShortCut
    <3> QED
      BY <3>1, <3>2 DEF CallStep, Nullable
  <2>3. CASE ~throws /\ ~ShortCut(args)
    <3>1. at' = "called" /\ end' = "none"
      BY <1>1, <2>3 DEF CallHeld
    <3>2. \A i \in DOMAIN given' : ArgType(i)' = Any \/ given'[i].v <= Width(ArgType(i)')
      BY <1>1, <1>4 DEF ArgType
    <3>3. Passed'
      BY <1>1, <1>2, <2>3, <3>2 DEF Passed, ShortCut
    <3> QED
      BY <3>1, <3>3 DEF CallStep
  <2> QED
    BY <2>1, <2>2, <2>3
<1> QED
  BY <1>1, <1>5, CallStepKeeps

LEMMA CallSqlKeeps ==
  ASSUME Inv, NEW args \in Arguments, CallSql(args) PROVE Inv'
<1> USE DEF Inv
<1>1. /\ at = "idle" /\ given' = args /\ end = "none" /\ caller = Sql
      /\ UNCHANGED <<decl, body, caller, seen, returned, arrived>>
  BY DEF CallSql, Phases
<1>2. caller.by = "sql" /\ Nullable(caller.ret)
  BY <1>1 DEF Sql, Nullable
<1>3. Len(args) = Len(decl.args) /\ \A i \in DOMAIN args : args[i].v <= Width(args[i].t)
  BY DEF CallSql
<1>4. CallStep
  <2>1. CASE decl.strict /\ \E i \in DOMAIN args : args[i].v = Null
    BY <1>1, <1>2, <2>1 DEF CallStep, CallSql, EndsIn
  <2>2. CASE ~(decl.strict /\ \E i \in DOMAIN args : args[i].v = Null)
    <3>1. at' = "called" /\ end' = "none"
      BY <1>1, <2>2 DEF CallSql
    <3>2. \A i \in DOMAIN given' : ArgType(i)' = given'[i].t
      BY <1>1, <1>2 DEF ArgType
    <3>3. Passed'
      BY <1>1, <1>2, <1>3, <2>2, <3>2 DEF Passed
    <3> QED
      BY <3>1, <3>3 DEF CallStep
  <2> QED
    BY <2>1, <2>2
<1> QED
  BY <1>1, <1>4, CallStepKeeps
-------------------------------------------------------------------------------
\* The body, and what it returns.

LEMMA EnterKeeps == ASSUME Inv, Enter PROVE Inv'
<1> USE DEF Inv
<1>1. /\ at = "called" /\ end = "none" /\ seen = <<>> /\ returned = <<>> /\ arrived = <<>>
      /\ Passed /\ UNCHANGED <<decl, body, caller, given, returned, arrived>>
  BY DEF Enter, Phases
<1>2. CallerOK'
  BY <1>1 DEF CallerOK, Matches
<1>3. CASE ReturnTypeFits /\ ArgumentsFit
  <2> DEFINE read == [i \in DOMAIN body.args |->
                        Carried(ArgType(i), body.args[i].of, given[i].v)]
  <2>1. at' = "body" /\ seen' = read /\ end' = "none"
    BY <1>1, <1>3 DEF Enter
  <2>2. /\ body.args \in Upto1(CppTypes) /\ given \in Arguments
        /\ DOMAIN body.args \subseteq DOMAIN given
    <3>1. body.args \in Upto1(CppTypes) /\ given \in Arguments
      BY DEF TypeOK, Bodies
    <3> QED
      BY <1>3, <3>1, Upto1IsSeq DEF ArgumentsFit, Arguments
  <2>3. \A i \in DOMAIN body.args : given[i].v \in 0..3
    <3>1. \A i \in DOMAIN given : given[i] \in [t : SqlTypes, v : Values \cup {Null}]
      BY <2>2, Upto1IsSeq DEF Arguments
    <3> QED
      BY <2>2, <3>1 DEF Values, Null
  <2>4. \A i \in DOMAIN body.args : read[i] \in Cell
    BY <2>3, CarriedIsCell
  <2>5. read \in Upto1(Cell)
    <3> HIDE DEF read
    <3>1. read = [i \in DOMAIN body.args |-> read[i]]
      BY DEF read
    <3> QED
      BY <2>2, <2>4, <3>1, Upto1Mapped
  <2>6. \A i \in DOMAIN body.args :
          read[i] = given[i].v \/ (body.args[i].of = "float8" /\ ArgType(i) = "float4")
    <3> SUFFICES ASSUME NEW i \in DOMAIN body.args
                 PROVE  Carried(ArgType(i), body.args[i].of, given[i].v) = given[i].v
                        \/ (body.args[i].of = "float8" /\ ArgType(i) = "float4")
      OBVIOUS
    <3>1. Accepts(body.args[i], ArgType(i))
      BY <1>3 DEF ArgumentsFit
    <3>2. ArgType(i) = Any \/ given[i].v <= Width(ArgType(i))
      BY <1>1, <2>2 DEF Passed
    <3> QED
      BY <2>3, <3>1, <3>2, CarriedAsIs
  <2>7. TypeOK'
    BY <1>1, <2>1, <2>5 DEF TypeOK
  <2>8. Phases'
    <3>1. Passed'
      BY <1>1 DEF Passed, ArgType
    <3>2. ReturnTypeFits'
      BY <1>1, <1>3 DEF ReturnTypeFits, Accepts
    <3> QED
      BY <1>1, <2>1, <3>1, <3>2 DEF Phases
  <2>9. ArgumentsArrive'
    <3>1. \A i \in DOMAIN seen' : ArgType(i)' = ArgType(i)
      BY <1>1 DEF ArgType
    <3>2. DOMAIN seen' = DOMAIN body.args
      BY <2>1
    <3> QED
      BY <1>1, <2>1, <2>6, <3>1, <3>2 DEF ArgumentsArrive
  <2>10. ResultsArrive' /\ StrictSeesNoNull' /\ NullHasAReason'
    BY <1>1, <2>1 DEF ResultsArrive, StrictSeesNoNull, NullHasAReason, Passed
  <2> QED
    BY <1>2, <2>7, <2>8, <2>9, <2>10 DEF CallIsFaithful
<1>4. CASE ~(ReturnTypeFits /\ ArgumentsFit)
  <2>1. at' = "done" /\ end' = "error" /\ seen' = seen
    BY <1>4 DEF Enter, EndsIn
  <2>2. TypeOK' /\ Phases'
    BY <1>1, <2>1 DEF TypeOK, Phases
  <2>3. CallIsFaithful'
    BY <1>1, <2>1
    DEF CallIsFaithful, ArgumentsArrive, ResultsArrive, StrictSeesNoNull, NullHasAReason
  <2> QED
    BY <1>2, <2>2, <2>3
<1> QED
  BY <1>3, <1>4

Row == [t : SqlTypes \cup {Any}, v : Cell \ {Garbled}]

\* A row x is returned, and arrives as y unless it is an error: at is unchanged, or the
\* call ends.
RowStep(x, y) ==
  /\ returned' = Append(returned, x)
  /\ \/ arrived' = arrived /\ at' = "done" /\ end' = "error"
     \/ /\ arrived' = Append(arrived, y)
        /\ \/ at' = "body" /\ end' = "none" /\ body.kind # "value"
           \/ at' = "done" /\ end' \in {"value", "rows"}
           \/ at' = "done" /\ end' = "null" /\ x.v = Null /\ Nullable(caller.ret) /\ returned = <<>>

\* What may become of row i, as ResultsArrive has it.
MayArrive(i, x, y) ==
  \/ y = x.v
  \/ IF body.kind = "records" THEN i > 1 /\ x.t # decl.ret
     ELSE x.v > Width(decl.ret) \/ (x.t = "float8" /\ decl.ret = "float4")

LEMMA RowStepKeeps ==
  ASSUME Inv, at = "body", NEW x \in Row, NEW y \in Cell, RowStep(x, y),
         MayArrive(Len(returned) + 1, x, y),
         UNCHANGED <<decl, body, caller, given, seen>>
  PROVE  Inv'
<1> USE DEF Inv
<1>1. /\ caller.by # "query" /\ Passed /\ ReturnTypeFits /\ end = "none"
      /\ Len(arrived) = Len(returned)
  BY DEF Phases, Passed
<1>2. returned \in Seq(Row) /\ arrived \in Seq(Cell) /\ Len(returned) \in Nat /\ Len(arrived) \in Nat
  BY DEF TypeOK, Row
<1>3. /\ returned' \in Seq(Row) /\ Len(returned') = Len(returned) + 1
      /\ returned'[Len(returned) + 1] = x /\ \A i \in 1..Len(returned) : returned'[i] = returned[i]
  BY <1>2, AppendProperties DEF RowStep
<1> DEFINE n == Len(returned)
<1>4. /\ arrived' \in Seq(Cell) /\ Len(arrived') <= Len(returned')
      /\ at' = "body" => Len(arrived') = Len(returned')
      /\ \A i \in DOMAIN arrived' :
           \/ i \in 1..n /\ i \in DOMAIN arrived /\ arrived'[i] = arrived[i]
           \/ i = n + 1 /\ arrived'[i] = y
  <2>0. n \in Nat /\ Len(arrived) = n /\ Len(returned') = n + 1
    BY <1>1, <1>2, <1>3
  <2>1. DOMAIN arrived = 1..n
    BY <1>2, <2>0
  <2> HIDE DEF n
  <2>2. CASE arrived' = arrived /\ at' = "done"
    BY <1>2, <2>0, <2>1, <2>2
  <2>3. CASE arrived' = Append(arrived, y)
    <3>1. /\ arrived' \in Seq(Cell) /\ Len(arrived') = n + 1
          /\ arrived'[n + 1] = y /\ \A i \in 1..n : arrived'[i] = arrived[i]
      BY <1>2, <2>0, <2>3, AppendProperties
    <3>2. DOMAIN arrived' = 1..(n + 1)
      BY <3>1
    <3>3. \A i \in 1..(n + 1) : i \in 1..n \/ i = n + 1
      BY <2>0
    <3> QED
      BY <2>0, <2>1, <3>1, <3>2, <3>3
  <2> QED
    BY <2>2, <2>3 DEF RowStep
<1>5. CallerOK'
  BY DEF CallerOK, Matches
<1>6. TypeOK'
  BY <1>3, <1>4 DEF TypeOK, RowStep, Row
<1>7. Phases'
  <2>1. Passed'
    BY <1>1 DEF Passed, ArgType
  <2>2. ReturnTypeFits'
    BY <1>1 DEF ReturnTypeFits, Accepts
  <2> QED
    BY <1>4, <2>1, <2>2 DEF Phases, RowStep
<1>8. ArgumentsArrive' /\ StrictSeesNoNull'
  <2>1. \A i \in DOMAIN seen : ArgType(i)' = ArgType(i)
    BY DEF ArgType
  <2> QED
    BY <1>1, <2>1 DEF CallIsFaithful, ArgumentsArrive, StrictSeesNoNull, RowStep
<1>9. ResultsArrive'
  <2> SUFFICES ASSUME NEW i \in DOMAIN arrived'
               PROVE  MayArrive(i, returned'[i], arrived'[i])
    BY <1>1 DEF ResultsArrive, MayArrive
  <2>1. CASE i \in 1..Len(returned) /\ arrived'[i] = arrived[i] /\ i \in DOMAIN arrived
    BY <1>1, <1>3, <2>1 DEF CallIsFaithful, ResultsArrive, MayArrive
  <2>2. CASE i = Len(returned) + 1 /\ arrived'[i] = y
    BY <1>3, <2>2
  <2> QED
    BY <1>4, <2>1, <2>2
<1>10. NullHasAReason'
  <2> SUFFICES ASSUME end' = "null"
               PROVE  Nullable(caller.ret) /\ returned' # <<>> /\ returned'[1].v = Null
    BY DEF NullHasAReason
  <2>1. x.v = Null /\ Nullable(caller.ret) /\ returned = <<>>
    BY DEF RowStep
  <2>2. returned' = <<x>>
    BY <2>1 DEF RowStep
  <2> QED
    BY <2>1, <2>2
<1> QED
  BY <1>5, <1>6, <1>7, <1>8, <1>9, <1>10 DEF CallIsFaithful

LEMMA ReturnKeeps ==
  ASSUME Inv, NEW v \in Values \cup {Null}, Return(v) PROVE Inv'
<1> USE DEF Inv
<1> DEFINE x == [t |-> body.ret.of, v |-> v]
           y == Carried(body.ret.of, decl.ret, v)
<1>1. /\ at = "body" /\ body.kind = "value" /\ ReturnTypeFits
      /\ returned = <<>> /\ arrived = <<>>
      /\ UNCHANGED <<decl, body, caller, given, seen>>
  <2>1. at = "body" /\ body.kind = "value" /\ UNCHANGED <<decl, body, caller, given, seen>>
    BY DEF Return
  <2>2. ReturnTypeFits /\ returned = <<>> /\ Len(arrived) = 0 /\ arrived \in Seq(Cell)
    BY <2>1 DEF Phases, TypeOK
  <2> QED
    BY <2>1, <2>2, EmptySeq
<1>2. v \in 0..3 /\ body.ret \in CppTypes
  BY DEF Values, Null, TypeOK, Bodies
<1>3. x \in Row /\ y \in Cell
  BY <1>2, CarriedIsCell DEF Row, CppTypes, Cell, Values, Null, Garbled, Any
<1>4. MayArrive(Len(returned) + 1, x, y)
  BY <1>1, <1>2, CarriedBack DEF MayArrive, ReturnTypeFits
<1>5. RowStep(x, y)
  <2>1. returned' = Append(returned, x)
    BY <1>1 DEF Return
  <2>2. CASE v = Null /\ ~Nullable(caller.ret)
    BY <2>1, <2>2 DEF Return, RowStep, EndsIn
  <2>3. CASE ~(v = Null /\ ~Nullable(caller.ret))
    <3>1. at' = "done" /\ end' = (IF v = Null THEN "null" ELSE "value") /\ arrived' = <<y>>
      BY <2>3 DEF Return, EndsIn
    <3>2. arrived' = Append(arrived, y)
      BY <1>1, <3>1
    <3> QED
      BY <1>1, <2>1, <2>3, <3>1, <3>2 DEF RowStep
  <2> QED
    BY <2>2, <2>3
<1> HIDE DEF x, y
<1> QED
  BY <1>1, <1>3, <1>4, <1>5, RowStepKeeps

LEMMA YieldKeeps ==
  ASSUME Inv, NEW v \in Values \cup {Null}, Yield(v) PROVE Inv'
<1> USE DEF Inv
<1> DEFINE x == [t |-> body.ret.of, v |-> v]
           y == Carried(body.ret.of, decl.ret, v)
<1>1. /\ at = "body" /\ body.kind = "set" /\ ReturnTypeFits /\ end = "none"
      /\ UNCHANGED <<decl, body, caller, given, seen>>
  BY DEF Yield, Phases
<1>2. v \in 0..3 /\ body.ret \in CppTypes
  BY DEF Values, Null, TypeOK, Bodies
<1>3. x \in Row /\ y \in Cell
  BY <1>2, CarriedIsCell DEF Row, CppTypes, Cell, Values, Null, Garbled, Any
<1>4. MayArrive(Len(returned) + 1, x, y)
  BY <1>1, <1>2, CarriedBack DEF MayArrive, ReturnTypeFits
<1>5. RowStep(x, y)
  BY <1>1 DEF Yield, RowStep, EndsIn
<1> HIDE DEF x, y
<1> QED
  BY <1>1, <1>3, <1>4, <1>5, RowStepKeeps

LEMMA YieldRecordKeeps ==
  ASSUME Inv, NEW t \in SqlTypes, NEW v \in Values \cup {Null}, YieldRecord(t, v) PROVE Inv'
<1> USE DEF Inv
<1> DEFINE x == [t |-> t, v |-> v]
           y == Carried(t, decl.ret, v)
<1>1. /\ at = "body" /\ body.kind = "records" /\ end = "none"
      /\ returned \in Seq(Row) /\ Len(returned) \in Nat
      /\ UNCHANGED <<decl, body, caller, given, seen>>
  BY DEF YieldRecord, Phases, TypeOK, Row
<1>2. v \in 0..3
  BY DEF Values, Null
<1>3. x \in Row /\ y \in Cell
  BY <1>2, CarriedIsCell DEF Row, Cell, Values, Null, Garbled
<1>4. CASE returned = <<>> /\ t # decl.ret
  <2>1. RowStep(x, v)
    BY <1>4 DEF YieldRecord, RowStep, EndsIn
  <2>2. MayArrive(Len(returned) + 1, x, v) /\ v \in Cell
    BY DEF MayArrive, Cell
  <2> HIDE DEF x
  <2> QED
    BY <1>1, <1>3, <2>1, <2>2, RowStepKeeps
<1>5. CASE ~(returned = <<>> /\ t # decl.ret)
  <2>1. RowStep(x, y)
    BY <1>1, <1>5 DEF YieldRecord, RowStep
  <2>2. MayArrive(Len(returned) + 1, x, y)
    <3>1. CASE t = decl.ret
      BY <3>1 DEF MayArrive, Carried
    <3>2. CASE returned # <<>> /\ t # decl.ret
      <4>1. Len(returned) + 1 > 1
        BY <1>1, <3>2, EmptySeq
      <4> QED
        BY <1>1, <3>2, <4>1 DEF MayArrive
    <3> QED
      BY <1>5, <3>1, <3>2
  <2> HIDE DEF x, y
  <2> QED
    BY <1>1, <1>3, <2>1, <2>2, RowStepKeeps
<1> QED
  BY <1>4, <1>5

\* The body throws, or its set is through.
LEMMA EndsKeeps == ASSUME Inv, Throws \/ EndSet PROVE Inv'
<1> USE DEF Inv
<1>1. /\ at = "body" /\ at' = "done" /\ end' \in {"error", "rows"}
      /\ UNCHANGED <<decl, body, caller, given, seen, returned, arrived>>
  BY DEF Throws, EndSet, EndsIn
<1>2. CallerOK' /\ TypeOK' /\ Phases'
  BY <1>1 DEF CallerOK, Matches, TypeOK, Phases
<1>3. \A i \in DOMAIN seen : ArgType(i)' = ArgType(i)
  BY <1>1 DEF ArgType
<1>4. CallIsFaithful'
  BY <1>1, <1>3
  DEF CallIsFaithful, ArgumentsArrive, ResultsArrive, StrictSeesNoNull, NullHasAReason
<1> QED
  BY <1>2, <1>4

LEMMA QueryRowKeeps ==
  ASSUME Inv, NEW c \in CppTypes, NEW v \in Values \cup {Null}, QueryRow(c, v) PROVE Inv'
<1> USE DEF Inv
<1> DEFINE x == [t |-> decl.ret, v |-> v]
           y == Carried(decl.ret, c.of, v)
<1>1. /\ at = "idle" /\ given = <<>> /\ seen = <<>> /\ returned = <<>> /\ arrived = <<>>
      /\ caller = Sql /\ v <= Width(decl.ret) /\ decl.ret \in SqlTypes
      /\ at' = "done" /\ returned' = <<x>> /\ UNCHANGED <<decl, body, given, seen>>
  BY DEF QueryRow, Phases, EndsIn, TypeOK, Decls
<1>2. /\ caller'.by = "query" /\ caller'.ret = c /\ caller' \in Callers
      /\ caller'.args = <<>>
  <2>1. caller' = [by |-> "query", args |-> <<>>, ret |-> c, strict |-> FALSE]
    BY DEF QueryRow, Sql
  <2> QED
    BY <2>1 DEF Callers, Upto1
<1>3. v \in 0..3
  BY DEF Values, Null
<1>4. x \in Row /\ y \in Cell
  BY <1>1, <1>3, CarriedIsCell DEF Row, Cell, Values, Null, Garbled
<1>5. \/ arrived' = <<>> /\ end' = "error"
      \/ arrived' = <<y>> /\ end' = "rows" /\ (y = v \/ (c.of = "float8" /\ decl.ret = "float4"))
  <2>1. CASE Accepts(c, decl.ret) /\ (v = Null => Nullable(c))
    BY <1>1, <1>3, <2>1, CarriedAsIs DEF QueryRow, EndsIn
  <2>2. CASE ~(Accepts(c, decl.ret) /\ (v = Null => Nullable(c)))
    BY <1>1, <2>2 DEF QueryRow, EndsIn
  <2> QED
    BY <2>1, <2>2
<1>6. TypeOK'
  <2>1. returned' \in Seq(Row) /\ Len(returned') = 1
    BY <1>1, <1>4
  <2>2. arrived' \in Seq(Cell) /\ Len(arrived') <= 1
    <3> HIDE DEF x, y
    <3>1. CASE arrived' = <<>>
      BY <3>1, EmptySeq
    <3>2. CASE arrived' = <<y>>
      BY <1>4, <3>2
    <3> QED
      BY <1>5, <3>1, <3>2
  <2>3. end' \in {"error", "rows"}
    BY <1>5
  <2> QED
    BY <1>1, <1>2, <2>1, <2>2, <2>3 DEF TypeOK, Row
<1>7. CallerOK' /\ Phases'
  BY <1>1, <1>2, <1>5 DEF CallerOK, Phases
<1>8. ResultsArrive'
  BY <1>1, <1>2, <1>5 DEF ResultsArrive
<1>9. ArgumentsArrive' /\ StrictSeesNoNull' /\ NullHasAReason'
  BY <1>1, <1>5 DEF ArgumentsArrive, StrictSeesNoNull, NullHasAReason
<1> QED
  BY <1>6, <1>7, <1>8, <1>9 DEF CallIsFaithful
-------------------------------------------------------------------------------
LEMMA InvNext == Inv /\ [Next]_vars => Inv'
<1> SUFFICES ASSUME Inv, [Next]_vars PROVE Inv'
  OBVIOUS
<1>1. CASE \E args \in Upto1(CppTypes), ret \in CppTypes : Construct(args, ret)
  BY <1>1, ConstructKeeps
<1>2. CASE Replace
  BY <1>2, ReplaceKeeps
<1>3. CASE \E args \in Arguments : CallHeld(args) \/ CallSql(args)
  BY <1>3, CallHeldKeeps, CallSqlKeeps
<1>4. CASE Enter
  BY <1>4, EnterKeeps
<1>5. CASE Throws \/ EndSet
  BY <1>5, EndsKeeps
<1>6. CASE \E v \in Values \cup {Null} : Return(v) \/ Yield(v)
  BY <1>6, ReturnKeeps, YieldKeeps
<1>7. CASE \E v \in Values \cup {Null}, t \in SqlTypes : YieldRecord(t, v)
  BY <1>7, YieldRecordKeeps
<1>8. CASE \E v \in Values \cup {Null}, c \in CppTypes : QueryRow(c, v)
  BY <1>8, QueryRowKeeps
<1>9. CASE UNCHANGED vars
  BY <1>9
  DEF vars, Inv, TypeOK, CallerOK, Matches, Phases, Passed, ReturnTypeFits, ArgType, CallIsFaithful,
      ArgumentsArrive, ResultsArrive, StrictSeesNoNull, NullHasAReason
<1> QED
  BY <1>1, <1>2, <1>3, <1>4, <1>5, <1>6, <1>7, <1>8, <1>9 DEF Next
-------------------------------------------------------------------------------
LEMMA Invariance == Spec => []Inv
BY InvInit, InvNext, PTL DEF Spec

\* For any SQL types, a call keeps its type, and a function<> that was not refused has
\* the result its SQL function declares (function.hpp:386-411).
THEOREM CallTypes == Spec => []TypeOK
<1>1. Inv => TypeOK
  BY DEF Inv
<1> QED
  BY <1>1, Invariance, PTL

\* For any SQL types and sets of any length, arguments and results arrive as they were
\* passed, but where a C++ type accepts a narrower or another one; no STRICT function
\* runs with a null, and null as a result has a reason (function.hpp:169-354, 426-483).
THEOREM ValuesGoThrough == Spec => []CallIsFaithful
<1>1. Inv => CallIsFaithful
  BY DEF Inv
<1> QED
  BY <1>1, Invariance, PTL
===============================================================================
