--------------------------- MODULE MCGraphBuilder ---------------------------
(***************************************************************************)
(* Calls that build the graph a -> b, [a, b] -> c with its cycle back, and *)
(* the ones that go wrong: a waiting edge given twice in different orders, *)
(* with one start twice, to END; unknown and reserved names; a branch that *)
(* names a node which may never be added; sequences that stop half way.    *)
(* Plus is the same for names that contain a plus sign. A node returns an  *)
(* update with a field that is no state channel, nothing, or an error.     *)
(***************************************************************************)
EXTENDS CompiledGraph, TLC
LOCAL INSTANCE FiniteSetsExt

MCStart == "__start__"
MCEnd == "__end__"
MCNames == {MCStart, MCEnd, "a", "b", "c", "x:y"}
MCOrdered == <<MCEnd, MCStart, "a", "b", "c", "x:y">>
MCOrder == [x \in MCNames |-> CHOOSE i \in DOMAIN MCOrdered : MCOrdered[i] = x]

MCEdgeCalls ==
  {<<<<"a">>, "b">>, <<<<"c">>, MCStart>>,
   <<<<"a", "b">>, "c">>, <<<<"b", "a">>, "c">>, <<<<"b", "b">>, "c">>,
   <<<<"a", "c">>, "b">>, <<<<"a", "b">>, "a">>, <<<<"a", "b">>, MCEnd>>, <<<<MCStart, "a">>, "b">>,
   <<<<>>, "a">>, <<<<MCEnd>>, "a">>}
MCPointCalls == {"c", MCEnd}
MCKeys == {"left", "right"}
MCBranchCalls ==
  {[start |-> MCStart, name |-> "r", ends |-> [left |-> "a", right |-> "b"]],
   [start |-> "c", name |-> "r", ends |-> [left |-> "a", right |-> MCEnd]],
   [start |-> "c", name |-> "r", ends |-> [left |-> MCStart]]}
MCSequenceCalls == {<<"a", "b">>, <<"c", "x:y", "b">>, <<"b", "a", "b">>}

PlusNames == {MCStart, MCEnd, "a", "b+c", "a+b", "c"}
PlusOrdered == <<MCEnd, MCStart, "a", "a+b", "b+c", "c">>
PlusOrder == [x \in PlusNames |-> CHOOSE i \in DOMAIN PlusOrdered : PlusOrdered[i] = x]
PlusEdgeCalls ==
  {<<<<"a", "b+c">>, "a">>, <<<<"a+b", "c">>, "a">>}

(* All names numbered, in some order: nothing is run here. *)
MCPlace ==
  FoldSet(LAMBDA x, places : places @@ (x :> Cardinality(DOMAIN places)),
          [x \in {} |-> 0], NodeNames \cup ChannelNames)

MCStateKinds == [c \in StateChannels |-> "binop"]
MCValues == NodeNames \cup {"null", "new"}
MCOutcomes ==
  [n \in NodeNames |-> {[is |-> "object", fields |-> [value |-> "new", other |-> "new"]],
                     [is |-> "none"], [is |-> "error"]}]
MCPath(n, name, state) == "left"

=============================================================================
