------------------------------- MODULE Aggregate -------------------------------
(****************************************************************************)
(* The support functions of an aggregate (aggregate.hpp), as a serial or a   *)
(* parallel plan of Postgres calls them: sfunc for every row, and in a       *)
(* parallel plan serial in every process that scanned, deserial and combine  *)
(* for every message, ffunc at the end.                                      *)
(*                                                                          *)
(* A state that is no datum is an object in the aggregate context of its     *)
(* process, and what is passed on is a pointer; a state that converts to a   *)
(* datum is copied.  What a state has seen is a bag of rows.                 *)
(****************************************************************************)
EXTENDS Naturals, Sequences, FiniteSets

CONSTANTS
  Workers,  \* processes that scan in a parallel plan, the leader among them
  Rows      \* rows the table may have

VARIABLES
  kind,     \* "object", or "datum" for a type that converts to a datum
  strict,   \* which of serial, deserial and ffunc were declared STRICT
  asked,    \* rows the query aggregates
  nulls,    \* those of them whose argument is null
  todo,     \* rows each process has yet to scan
  made,     \* objects constructed in each process
  state,    \* the transition state of each process
  sent,     \* what each process of a parallel plan has sent: its state
  result

vars == <<kind, strict, asked, nulls, todo, made, state, sent, result>>
query == <<kind, strict, asked, nulls>>

Processes == Workers \cup {"final"}

ASSUME FinalAssumption == "final" \notin Workers

Empty == [r \in Rows |-> 0]
One(r) == [Empty EXCEPT ![r] = 1]
Sum2(a, b) == [r \in Rows |-> a[r] + b[r]]
Exactly(R) == [r \in Rows |-> IF r \in R THEN 1 ELSE 0]

\* A state: at is the object it points to; a datum has its contents in `is', and
\* at = 1.  at = 0: null.
Null == [at |-> 0, is |-> Empty]
Pointer(i) == [at |-> i, is |-> Empty]
Datum(c) == [at |-> 1, is |-> c]

\* A message: waiting until the process is through, gone once it was combined.
NotSent == [is |-> "not sent", state |-> Null]

Init ==
  \E parallel \in BOOLEAN, who \in [Rows -> Workers] :
    /\ asked \in SUBSET Rows
    /\ kind \in {"object", "datum"}
    /\ strict \in SUBSET {"serial", "deserial", "final"}
    /\ nulls \in SUBSET asked
    /\ todo = [p \in Processes |->
         IF p = "final" THEN IF parallel THEN {} ELSE asked
         ELSE IF parallel THEN {r \in asked : who[r] = p} ELSE {}]
    /\ made = [p \in Processes |-> <<>>]
    /\ state = [p \in Processes |-> Null]
    /\ sent = [w \in Workers |->
         IF parallel THEN NotSent ELSE [NotSent EXCEPT !.is = "gone"]]
    /\ result = [is |-> "none", of |-> Empty]
------------------------------------------------------------------------------
Running == result.is = "none"

\* The contexts of all processes are deleted with their objects.
EndsWith(kindOfEnd, c) ==
  /\ result' = [is |-> kindOfEnd, of |-> c]
  /\ made' = [p \in Processes |-> <<>>]
  /\ state' = [p \in Processes |-> Null]

\* A conversion throws "datum is null and can't be coerced" out of the function.
NullError == EndsWith("null error", Empty) /\ UNCHANGED <<query, todo, sent>>

\* Mutant of Constructed: the object is built in the context of the call, which
\* is reset after it.
ConstructedForCall(objects, c) ==
  Append(objects, [contents |-> c, live |-> FALSE])

\* memory_context(aggctx).construct<Agg>(...).
Constructed(objects, c) == Append(objects, [contents |-> c, live |-> TRUE])

\* Mutant of Combined: the second operand is added to itself.
CombinedTwice(a, b) == Sum2(b, b)

\* Mutant of Combined: the second operand is missing.
CombinedFirst(a, b) == a

\* The combining constructor of the aggregate.
Combined(a, b) == Sum2(a, b)

\* The object of state s among `objects', built when s is null: its index, and
\* the objects then.
ObjectOf(objects, s) ==
  IF s.at = 0
  THEN [at |-> Len(objects) + 1, objects |-> Constructed(objects, Empty)]
  ELSE [at |-> s.at, objects |-> objects]

\* datum_conversion<Agg>::from_nullable_datum, which the type supplies: null is
\* the empty state.
FromDatum(s) == s.is
------------------------------------------------------------------------------
\* A row whose argument is null reaches no conversion but that of its argument.
SfuncNull(p) ==
  /\ Running /\ todo[p] \cap nulls # {}
  /\ NullError

\* aggregate_sfunc, first branch.
SfuncObject(p, r) ==
  /\ Running /\ kind = "object" /\ r \in todo[p] \ nulls
  /\ LET o == ObjectOf(made[p], state[p]) IN
       /\ made' = [made EXCEPT ![p] =
            [o.objects EXCEPT ![o.at].contents = Sum2(@, One(r))]]
       /\ state' = [state EXCEPT ![p] = Pointer(o.at)]
  /\ todo' = [todo EXCEPT ![p] = @ \ {r}]
  /\ UNCHANGED <<query, sent, result>>

\* aggregate_sfunc, second branch.
SfuncDatum(p, r) ==
  /\ Running /\ kind = "datum" /\ r \in todo[p] \ nulls
  /\ state' = [state EXCEPT ![p] = Datum(Sum2(FromDatum(@), One(r)))]
  /\ todo' = [todo EXCEPT ![p] = @ \ {r}]
  /\ UNCHANGED <<query, made, sent, result>>

\* Process w is through.  Its state is sent as it is, or what aggregate_serial
\* makes of it; a strict one is not called for a null state, another one throws.
\* The process then ends, or at least resets the context.
Through(w) == Running /\ todo[w] = {} /\ sent[w].is = "not sent"

Send(w) ==
  /\ Through(w)
  /\ kind = "object" /\ state[w] = Null => "serial" \in strict
  /\ sent' = [sent EXCEPT ![w] = [is |-> "sent",
       state |-> IF kind = "object" /\ state[w] # Null
                 THEN Datum(made[w][state[w].at].contents) ELSE state[w]]]
  /\ made' = [made EXCEPT ![w] = <<>>]
  /\ state' = [state EXCEPT ![w] = Null]
  /\ UNCHANGED <<query, todo, result>>

SerialOfNull(w) ==
  /\ Through(w) /\ kind = "object" /\ state[w] = Null /\ "serial" \notin strict
  /\ NullError

Take(w) ==
  /\ Running /\ sent[w].is = "sent"
  /\ sent' = [sent EXCEPT ![w].is = "gone", ![w].state = Null]

\* aggregate_deserial and aggregate_combine, first branch: the operands, the
\* missing state built, stay where they are, and the combined state is another
\* object.  (Combine builds a missing second operand as well; the deserial
\* function never leaves it without one.)
CombineObject(w) ==
  /\ kind = "object" /\ sent[w].state # Null /\ Take(w)
  /\ LET other == Constructed(made["final"], sent[w].state.is)
         a == ObjectOf(other, state["final"])
         both == Constructed(a.objects,
                   Combined(a.objects[a.at].contents, a.objects[Len(other)].contents))
     IN  /\ made' = [made EXCEPT !["final"] = both]
         /\ state' = [state EXCEPT !["final"] = Pointer(Len(both))]
  /\ UNCHANGED <<query, todo, result>>

\* Without a message a strict aggregate_deserial is not called, nor is combine;
\* another one throws.
Skip(w) ==
  /\ kind = "object" /\ sent[w].state = Null /\ "deserial" \in strict /\ Take(w)
  /\ UNCHANGED <<query, todo, made, state, result>>

DeserialOfNull(w) ==
  /\ Running /\ kind = "object" /\ sent[w].is = "sent" /\ sent[w].state = Null
  /\ "deserial" \notin strict
  /\ NullError

\* aggregate_combine, second branch.
CombineDatum(w) ==
  /\ kind = "datum" /\ Take(w)
  /\ state' = [state EXCEPT !["final"] =
       Datum(Combined(FromDatum(@), FromDatum(sent[w].state)))]
  /\ UNCHANGED <<query, todo, made, result>>

\* aggregate_ffunc over what the plan has come to: for a null state it builds an
\* empty one in the context of the call, unless it is strict.  The state of a
\* type that converts is the result itself.
Finish ==
  /\ Running /\ todo["final"] = {} /\ \A w \in Workers : sent[w].is = "gone"
  /\ LET s == state["final"] IN
     IF s.at = 0 /\ (kind = "datum" \/ "final" \in strict) THEN EndsWith("null", Empty)
     ELSE EndsWith("value",
            IF s.at = 0 THEN Empty
            ELSE IF kind = "datum" THEN s.is ELSE made["final"][s.at].contents)
  /\ UNCHANGED <<query, todo, sent>>

\* An error of the query, or of the aggregate's own code, in any process.
Cancel ==
  /\ Running
  /\ EndsWith("cancelled", Empty)
  /\ UNCHANGED <<query, todo, sent>>
------------------------------------------------------------------------------
Next ==
  \/ \E p \in Processes :
       \/ SfuncNull(p)
       \/ \E r \in Rows : SfuncObject(p, r) \/ SfuncDatum(p, r)
  \/ \E w \in Workers :
       Send(w) \/ SerialOfNull(w) \/ CombineObject(w) \/ Skip(w) \/ CombineDatum(w)
       \/ DeserialOfNull(w)
  \/ Finish \/ Cancel

Spec == Init /\ [][Next]_vars
------------------------------------------------------------------------------
Seen == [Rows -> 0..1]
States == [at : Nat, is : Seen]

\* The state of the model; no state ever holds a row twice.
TypeOK ==
  /\ kind \in {"object", "datum"}
  /\ strict \subseteq {"serial", "deserial", "final"}
  /\ asked \subseteq Rows /\ nulls \subseteq asked
  /\ todo \in [Processes -> SUBSET Rows]
  /\ made \in [Processes -> Seq([contents : Seen, live : BOOLEAN])]
  /\ state \in [Processes -> States]
  /\ sent \in [Workers -> [is : {"not sent", "sent", "gone"}, state : States]]
  /\ result \in [is : {"none", "value", "null", "null error", "cancelled"}, of : Seen]

\* However the rows are split over processes, and in whatever order states are
\* combined, an aggregate yields what every row of the query, once, comes to.  It
\* is null only where there is no row and nothing made a state of that.  An
\* error about a null is owed to a null argument or to a process without rows
\* under a serial function that is not strict: aggregate_serial reads the null
\* state and throws (aggregate.hpp:86-98).
QueryOutcome ==
  /\ result.is = "value" => nulls = {} /\ result.of = Exactly(asked)
  /\ result.is = "null" => asked = {} /\ (kind = "datum" \/ "final" \in strict)
  /\ result.is = "null error" =>
       \/ nulls # {}
       \/ kind = "object" /\ ~({"serial", "deserial"} \subseteq strict)

\* A state of an object kind points to an object that was constructed and has not
\* been destroyed (aggregate.hpp:50-56, 120-139).
StatesLive ==
  \A p \in Processes : kind = "object" /\ state[p].at # 0 =>
    state[p].at \in 1..Len(made[p]) /\ made[p][state[p].at].live
================================================================================
