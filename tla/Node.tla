---------------------------------- MODULE Node ----------------------------------
(****************************************************************************)
(* Visiting a parse tree: visit_node dispatches a node on its tag to a C++    *)
(* visitor, and the visitor may walk on, through the walkers of Postgres or    *)
(* through cppgres's own for List and RawStmt.  One action is one step of the  *)
(* activation of visit_node on top of the stack.                            *)
(*                                                                          *)
(* Which of some 600 tags the tables list is all that matters of them here;    *)
(* one tag stands for all that are treated alike.                           *)
(****************************************************************************)
EXTENDS Naturals, Sequences, SequencesExt

CONSTANTS
  Nodes,   \* bound: nodes of the tree, 1..n, children above their parents
  MaxKids  \* bound: children of a node

VARIABLES
  tree,     \* the tag and the children of every node
  visitor,  \* the visitor: does it take unknown nodes, does it walk on
  stack,    \* activations of visit_node, the top first
  visits,   \* the calls of the visitor: of which node, as what
  end       \* how the traversal ended

vars == <<tree, visitor, stack, visits, end>>

Null == 0

\* The tags of the dispatch table, by what they are dispatched as: Query stands for
\* every tag with a type of its own, DistinctExpr for the two that share one.
TypeOf == [List |-> "List", RawStmt |-> "RawStmt", Query |-> "Query",
           DistinctExpr |-> "OpExpr"]
Dispatched == DOMAIN TypeOf

\* A list of integers is a ::List for C++, with a tag that no table has.
Tags == Dispatched \cup {"IntList"}

Kids == SeqOf(Nodes \cup {Null}, MaxKids)
Trees ==
  {t \in [tag : [Nodes -> Tags], kids : [Nodes -> Kids]] :
     \A n \in Nodes :
       /\ \A i \in 1..Len(t.kids[n]) : t.kids[n][i] = Null \/ t.kids[n][i] > n
       /\ t.tag[n] = "RawStmt" => Len(t.kids[n]) = 1
       /\ t.tag[n] = "IntList" => t.kids[n] = <<>>}

\* visit_node for a pointer or a reference to a mapped type (typed), which calls the
\* visitor without a look at the tag, or for a void pointer (a Node pointer is one).
Activation(n, typed) ==
  [node |-> n, typed |-> typed, at |-> IF typed THEN "call" ELSE "switch", todo |-> <<>>]

top == Head(stack)
Tag(n) == tree.tag[n]
Visited(n, as) == Append(visits, [node |-> n, as |-> as])
Stop(how) == stack' = <<>> /\ end' = how

Init ==
  /\ tree \in Trees
  /\ visitor \in [unknown : BOOLEAN, walks : BOOLEAN]
  /\ stack = <<>>
  /\ visits = <<>>
  /\ end = "not yet"

\* The extension visits the root, whose C++ type it may know.
Visit(typed) ==
  /\ stack = <<>> /\ end = "not yet"
  /\ stack' = <<Activation(1, typed)>>
  /\ end' = "running"
  /\ UNCHANGED <<tree, visitor, visits>>

\* switch (nodeTag(node)): a tag of the table calls the visitor.
Dispatch ==
  /\ stack # <<>> /\ top.at = "switch"
  /\ stack' = [stack EXCEPT ![1].at = IF Tag(top.node) \in Dispatched THEN "call" ELSE "after"]
  /\ UNCHANGED <<tree, visitor, visits, end>>

\* The C++ type of the node: by its tag or, known statically, that of a List.
Type(f) == IF Tag(f.node) \in Dispatched THEN TypeOf[Tag(f.node)] ELSE "List"

\* The visitor is called, and may start a walk of the children.
Call ==
  /\ stack # <<>> /\ top.at = "call"
  /\ visits' = Visited(top.node, Type(top))
  /\ stack' = [stack EXCEPT ![1].at = "walk",
                            ![1].todo = IF visitor.walks THEN tree.kids[top.node] ELSE <<>>]
  /\ UNCHANGED <<tree, visitor, end>>

\* node_walker<List> and node_walker<RawStmt> call visit_node on what they find,
\* which reads the tag of a null pointer if there is one.
OwnWalk ==
  /\ stack # <<>> /\ top.at = "walk" /\ top.todo # <<>>
  /\ Type(top) \in {"List", "RawStmt"}
  /\ LET kid == Head(top.todo)
     IN IF kid = Null
        THEN Stop("null read")
        ELSE /\ stack' = <<Activation(kid, FALSE)>> \o [stack EXCEPT ![1].todo = Tail(@)]
             /\ UNCHANGED end
  /\ UNCHANGED <<tree, visitor, visits>>

\* The walkers of Postgres call back for every child; the callback skips null ones.
ForeignWalk ==
  /\ stack # <<>> /\ top.at = "walk" /\ top.todo # <<>>
  /\ Type(top) \notin {"List", "RawStmt"}
  /\ LET kid == Head(top.todo)
         rest == [stack EXCEPT ![1].todo = Tail(@)]
     IN stack' = IF kid = Null THEN rest ELSE <<Activation(kid, FALSE)>> \o rest
  /\ UNCHANGED <<tree, visitor, visits, end>>

\* They raise an error for a type they do not walk, a pg_exception by ffi_guard.
WalkFails ==
  /\ stack # <<>> /\ top.at = "walk" /\ visitor.walks
  /\ Type(top) \notin {"List", "RawStmt"} /\ top.todo = tree.kids[top.node]
  /\ Stop("pg_exception")
  /\ UNCHANGED <<tree, visitor, visits>>

\* The visitor returns: a typed visit is over, the other leaves its switch.
Return ==
  /\ stack # <<>> /\ top.at = "walk" /\ top.todo = <<>>
  /\ IF top.typed
     THEN /\ stack' = Tail(stack)
          /\ end' = IF Len(stack) = 1 THEN "returned" ELSE end
     ELSE stack' = [stack EXCEPT ![1].at = "after"] /\ UNCHANGED end
  /\ UNCHANGED <<tree, visitor, visits>>

\* After the switch: a visitor with an overload for unknown_node is called with one,
\* without it "unknown node tag" is thrown, through the walkers to the extension.
After ==
  /\ stack # <<>> /\ top.at = "after"
  /\ visits' = Visited(top.node, "unknown")
  /\ IF visitor.unknown
     THEN /\ stack' = Tail(stack)
          /\ end' = IF Len(stack) = 1 THEN "returned" ELSE end
     ELSE Stop("unknown node tag")
  /\ UNCHANGED <<tree, visitor>>

Next ==
  \/ \E typed \in BOOLEAN : Visit(typed)
  \/ Dispatch
  \/ Call
  \/ OwnWalk
  \/ ForeignWalk
  \/ WalkFails
  \/ Return
  \/ After

Spec == Init /\ [][Next]_vars

\* A node is declared unknown, to the visitor or by the exception "unknown node tag",
\* only when the dispatch table does not list its tag: a known node is not visited a
\* second time as an unknown one, and does not end the traversal (node.hpp 133-146).
OnlyUnknownTagsAreUnknown ==
  \A i \in 1..Len(visits) :
    visits[i].as = "unknown" => Tag(visits[i].node) \notin Dispatched
================================================================================
