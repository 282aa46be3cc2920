---------------------------------- MODULE Call ----------------------------------
(****************************************************************************)
(* Values across the border: a postgres_function that SQL or cppgres's own    *)
(* function<> calls, one row or many that it returns, and a row that a query  *)
(* returns.  A C++ type accepts some SQL types (type_traits::is) and a datum  *)
(* is then read as that C++ type, whatever it is a datum of.                 *)
(*                                                                          *)
(* What a datum is depends on its type and on one thing about the value: the  *)
(* narrowest integer type that holds it.                                     *)
(****************************************************************************)
EXTENDS Naturals, Sequences

CONSTANTS
  SqlTypes,  \* among "int2", "int4", "int8", "float4", "float8" and others
  MaxRows    \* bound: rows of a set

VARIABLES
  decl,      \* the SQL function: types of arguments and result, STRICT, SETOF
  body,      \* the C++ function behind it
  at,        \* how far the call is
  caller,    \* who calls: SQL, a function<> with what it noted, or a query for rows
  given,     \* the arguments passed
  seen,      \* the arguments the body got
  returned,  \* the values the body, or the query, returned
  arrived,   \* what the caller made of them
  end        \* how the call ended

vars == <<decl, body, at, caller, given, seen, returned, arrived, end>>

\* Values: no value; 1, 2 and 3 need int2, int4 and int8; Garbled is not the value
\* that was passed.
Null == 0
Values == 1..3
Garbled == 4
Width(t) == CASE t = "int8" -> 3 [] t = "int4" -> 2 [] OTHER -> 1
Integers == {"int2", "int4", "int8"}
Any == "any"  \* of a C++ type: value; of an SQL type: anyelement

\* C++ types are named after the SQL type they stand for; value is Any.
CppTypes ==
  [of : SqlTypes, optional : BOOLEAN] \cup {[of |-> Any, optional |-> FALSE]}
Upto1(S) == {<<>>} \cup {<<x>> : x \in S}

\* A body returns a value, a set of values, or a set of records.  A set has one
\* column, and an SQL function that returns records is declared to return RECORD,
\* with the column at the call.
Bodies ==
  [args : Upto1(CppTypes), ret : CppTypes, kind : {"value", "set", "records"}]
Decls ==
  [args : Upto1(SqlTypes \cup {Any}), ret : SqlTypes, strict : BOOLEAN, set : BOOLEAN]
Sql == [by |-> "sql", args |-> <<>>, ret |-> [of |-> Any, optional |-> TRUE], strict |-> FALSE]

Nullable(c) == c.optional \/ c.of = Any

\* Mutant of Accepts: a wider integer type is accepted as well.
AcceptsWider(c, t) == c.of = Any \/ c.of = t \/ {c.of, t} \subseteq Integers

\* type_traits<c>::is(t).
Accepts(c, t) ==
  \/ c.of \in {Any, t}
  \/ {c.of, t} \subseteq Integers /\ Width(t) <= Width(c.of)
  \/ c.of = "float8" /\ t = "float4"

\* What comes of v, written as a datum of one type and read as one of another: an
\* integer is cut to the width of the reader.
Carried(from, to, v) ==
  IF v = Null \/ Any \in {from, to} \/ from = to THEN v
  ELSE IF {from, to} \subseteq Integers /\ v <= Width(to) THEN v ELSE Garbled

\* Values and null of a C++ type whose datums have type t.
ValuesOf(c, t) ==
  {v \in Values : v <= Width(IF c.of = Any THEN t ELSE c.of)} \cup
  (IF Nullable(c) THEN {Null} ELSE {})

Init ==
  /\ decl \in Decls /\ body \in Bodies
  /\ at = "idle" /\ caller = Sql
  /\ given = <<>> /\ seen = <<>> /\ returned = <<>> /\ arrived = <<>>
  /\ end = "none"

EndsIn(how) == at' = "done" /\ end' = how
------------------------------------------------------------------------------
\* function<>: an object over the OID of an SQL function.

\* Mutant of Matches: the type of the result is not compared.
MatchesArguments(c) ==
  /\ Len(c.args) = Len(decl.args)
  /\ \A i \in DOMAIN c.args : c.args[i].of \in {Any, decl.args[i]}

\* The types of a function<> are those declared, but for value, which stands for
\* UNKNOWN and goes with every type.
Matches(c) ==
  /\ Len(c.args) = Len(decl.args)
  /\ \A i \in DOMAIN c.args : c.args[i].of \in {Any, decl.args[i]}
  /\ c.ret.of \in {Any, decl.ret}

\* function(oid): the signature is compared, the strictness noted.
Construct(args, ret) ==
  /\ at = "idle" /\ ~decl.set
  /\ LET c == [by |-> "function", args |-> args, ret |-> ret, strict |-> decl.strict] IN
     IF Matches(c) THEN caller' = c /\ at' = "held" /\ UNCHANGED end
     ELSE EndsIn("refused") /\ UNCHANGED caller
  /\ UNCHANGED <<decl, body, given, seen, returned, arrived>>

\* ALTER FUNCTION, or CREATE OR REPLACE FUNCTION (with another body, perhaps: which
\* one it is matters only once it is called).
Replace ==
  /\ at = "held"
  /\ decl' = [decl EXCEPT !.strict = ~@]
  /\ UNCHANGED <<body, at, caller, given, seen, returned, arrived, end>>

\* any_nulls && strict_.
ShortCut(args) == caller.strict /\ \E i \in DOMAIN args : args[i].v = Null

\* operator()(args...).  A null value throws as it is made a datum.
CallHeld(args) ==
  /\ at = "held"
  /\ Len(args) = Len(caller.args)
  /\ \A i \in DOMAIN args :
       /\ decl.args[i] \in {Any, args[i].t}
       /\ args[i].v \in ValuesOf(caller.args[i], args[i].t)
  /\ given' = args
  /\ IF \E i \in DOMAIN args : args[i].v = Null /\ caller.args[i].of = Any THEN EndsIn("error")
     ELSE IF ShortCut(args) THEN EndsIn(IF caller.ret.optional THEN "null" ELSE "error")
     ELSE at' = "called" /\ UNCHANGED end
  /\ UNCHANGED <<decl, body, caller, seen, returned, arrived>>

\* The executor calls, with the types of its expressions.
CallSql(args) ==
  /\ at = "idle"
  /\ Len(args) = Len(decl.args)
  /\ \A i \in DOMAIN args :
       decl.args[i] \in {Any, args[i].t} /\ args[i].v <= Width(args[i].t)
  /\ given' = args
  /\ IF decl.strict /\ \E i \in DOMAIN args : args[i].v = Null THEN EndsIn("null")
     ELSE at' = "called" /\ UNCHANGED end
  /\ UNCHANGED <<decl, body, caller, seen, returned, arrived>>
------------------------------------------------------------------------------
\* postgres_function::operator().

\* The type of an argument: that of the expression, or without one the declared.
ArgType(i) == IF caller.by = "sql" THEN given[i].t ELSE decl.args[i]

\* A set needs a caller that expects one, and the type of its values, or RECORD,
\* must be what is declared.
ReturnTypeFits ==
  /\ decl.set = (body.kind # "value")
  /\ body.kind # "records" => Accepts(body.ret, decl.ret)

\* Enough arguments, each of a type the parameter accepts; from_nullable_datum of a
\* parameter that is not optional throws for null.
ArgumentsFit ==
  /\ Len(given) >= Len(body.args)
  /\ \A i \in DOMAIN body.args :
       /\ Accepts(body.args[i], ArgType(i))
       /\ given[i].v = Null => Nullable(body.args[i])

Enter ==
  /\ at = "called"
  /\ IF ReturnTypeFits /\ ArgumentsFit
     THEN /\ at' = "body"
          /\ seen' = [i \in DOMAIN body.args |->
               Carried(ArgType(i), body.args[i].of, given[i].v)]
          /\ UNCHANGED end
     ELSE EndsIn("error") /\ UNCHANGED seen
  /\ UNCHANGED <<decl, body, caller, given, returned, arrived>>

\* The body, or a conversion in it, throws.
Throws ==
  /\ at = "body" /\ EndsIn("error")
  /\ UNCHANGED <<decl, body, caller, given, seen, returned, arrived>>

\* into_nullable_datum of the result; the caller reads it as the declared type, and
\* a function<> whose result is not optional throws for null.
Return(v) ==
  /\ at = "body" /\ body.kind = "value" /\ v \in ValuesOf(body.ret, decl.ret)
  /\ returned' = <<[t |-> body.ret.of, v |-> v]>>
  /\ IF v = Null /\ ~Nullable(caller.ret) THEN EndsIn("error") /\ UNCHANGED arrived
     ELSE /\ EndsIn(IF v = Null THEN "null" ELSE "value")
          /\ arrived' = <<Carried(body.ret.of, decl.ret, v)>>
  /\ UNCHANGED <<decl, body, caller, given, seen>>

\* A row of a set of values: into_nullable_datum converts to Datum, which throws for
\* null, so a set has no nulls.
Yield(v) ==
  /\ at = "body" /\ body.kind = "set" /\ Len(returned) < MaxRows
  /\ v \in ValuesOf(body.ret, decl.ret)
  /\ returned' = Append(returned, [t |-> body.ret.of, v |-> v])
  /\ IF v = Null THEN EndsIn("error") /\ UNCHANGED arrived
     ELSE /\ arrived' = Append(arrived, Carried(body.ret.of, decl.ret, v))
          /\ UNCHANGED <<at, end>>
  /\ UNCHANGED <<decl, body, caller, given, seen>>

\* A record of a set of them, of type t.  Only the first one is compared with the
\* expected row type.
YieldRecord(t, v) ==
  /\ at = "body" /\ body.kind = "records" /\ Len(returned) < MaxRows
  /\ v \in 0..Width(t)
  /\ returned' = Append(returned, [t |-> t, v |-> v])
  /\ IF returned = <<>> /\ t # decl.ret THEN EndsIn("error") /\ UNCHANGED arrived
     ELSE /\ arrived' = Append(arrived, Carried(t, decl.ret, v))
          /\ UNCHANGED <<at, end>>
  /\ UNCHANGED <<decl, body, caller, given, seen>>

EndSet ==
  /\ at = "body" /\ body.kind # "value" /\ EndsIn("rows")
  /\ UNCHANGED <<decl, body, caller, given, seen, returned, arrived>>
------------------------------------------------------------------------------
\* spi_executor::query: results compares the type of a column, and operator[] of an
\* iterator converts a value v of it, which throws for null unless c is optional.
QueryRow(c, v) ==
  /\ at = "idle" /\ v \in 0..Width(decl.ret)
  /\ caller' = [Sql EXCEPT !.by = "query", !.ret = c]
  /\ returned' = <<[t |-> decl.ret, v |-> v]>>
  /\ IF Accepts(c, decl.ret) /\ (v = Null => Nullable(c))
     THEN EndsIn("rows") /\ arrived' = <<Carried(decl.ret, c.of, v)>>
     ELSE EndsIn("error") /\ UNCHANGED arrived
  /\ UNCHANGED <<decl, body, given, seen>>
------------------------------------------------------------------------------
Arguments == Upto1([t : SqlTypes, v : Values \cup {Null}])

Next ==
  \/ \E args \in Upto1(CppTypes), ret \in CppTypes : Construct(args, ret)
  \/ Replace
  \/ \E args \in Arguments : CallHeld(args) \/ CallSql(args)
  \/ Enter \/ Throws \/ EndSet
  \/ \E v \in Values \cup {Null} :
       \/ Return(v) \/ Yield(v)
       \/ \E t \in SqlTypes : YieldRecord(t, v)
       \/ \E c \in CppTypes : QueryRow(c, v)

Spec == Init /\ [][Next]_vars
------------------------------------------------------------------------------
Cell == Values \cup {Null, Garbled}

\* The state of the model; a function<> that was not refused has the result declared.
TypeOK ==
  /\ decl \in Decls /\ body \in Bodies
  /\ at \in {"idle", "held", "called", "body", "done"}
  /\ caller = Sql \/ caller.by \in {"query", "function"}
  /\ caller.ret \in CppTypes \cup {Sql.ret}
  /\ caller.by = "function" => caller.ret.of \in {Any, decl.ret}
  /\ given \in Arguments
  /\ seen \in Upto1(Cell)
  /\ returned \in Seq([t : SqlTypes \cup {Any}, v : Cell \ {Garbled}])
  /\ arrived \in Seq(Cell) /\ Len(arrived) <= Len(returned)
  /\ end \in {"none", "refused", "error", "null", "value", "rows"}

\* A body sees every argument as it was given, null where it is null.  Only a float4
\* that a double accepts is read as something else (types.hpp:90-94, 234-237).
ArgumentsArrive ==
  \A i \in DOMAIN seen :
    \/ seen[i] = given[i].v
    \/ body.args[i].of = "float8" /\ ArgType(i) = "float4"

\* What was returned is what arrives, but where a C++ type accepts a narrower type
\* as that of its result (types.hpp:62-94), where a double reads a float4, and for a
\* record after the first one of a set (function.hpp:262-277).
ResultsArrive ==
  \A i \in DOMAIN arrived :
    \/ arrived[i] = returned[i].v
    \/ IF caller.by = "query" THEN caller.ret.of = "float8" /\ decl.ret = "float4"
       ELSE IF body.kind = "records" THEN i > 1 /\ returned[i].t # decl.ret
       ELSE \/ returned[i].v > Width(decl.ret)
            \/ returned[i].t = "float8" /\ decl.ret = "float4"

\* No body runs with a null argument if the function was STRICT when the caller last
\* looked: function<> does so when it is constructed (function.hpp:411).
StrictSeesNoNull ==
  at = "body" /\ (\E i \in DOMAIN given : given[i].v = Null) =>
    ~(IF caller.by = "sql" THEN decl.strict ELSE caller.strict)

\* A call ends in null only where the body returned it or a STRICT function was
\* given it, and never where the caller has no way to tell.
NullHasAReason ==
  end = "null" =>
    /\ Nullable(caller.ret)
    /\ IF returned = <<>> THEN \E i \in DOMAIN given : given[i].v = Null
       ELSE returned[1].v = Null

\* Values and nulls go through a call unchanged.
CallIsFaithful == ArgumentsArrive /\ ResultsArrive /\ StrictSeesNoNull /\ NullHasAReason
================================================================================
