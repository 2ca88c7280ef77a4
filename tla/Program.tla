------------------------------ MODULE Program ------------------------------
(***************************************************************************)
(* What a run is given: a compiled graph, seen from the main loop of       *)
(* src/src/pregel/loops.rs, which neither knows the functions of the nodes *)
(* nor what their writers do. The three predicates are what compile and    *)
(* Pregel::validate guarantee of it; module CompiledGraph states that they *)
(* do.                                                                     *)
(***************************************************************************)
EXTENDS Updates

CONSTANTS
  Outputs,         \* Outputs[n]: the write functions node n may return
  Inputs,          \* the write functions map_input may produce
  Faulty,          \* nodes whose function or writers may return Err
  Panicky,         \* nodes whose function may panic
  RecursionLimit   \* Pregel.recursion_limit

(* The writes of a task, at most one value per channel. *)
IsWrites(w) == DOMAIN w \subseteq Channels /\ w \in [DOMAIN w -> Values]
NoWrites == [c \in {} |-> c]

(* The input goes to ephemeral channels (START), and every barrier belongs *)
(* to the triggers of the node its waiting edge ends in.                   *)
GraphFits ==
  /\ IsFiniteSet(Nodes)
  /\ Triggers \in [Nodes -> SUBSET Channels]
  /\ \A n \in Nodes : \A w \in Outputs[n] : IsWrites(w)
  /\ \A w \in Inputs : IsWrites(w) /\ \A c \in DOMAIN w : Kind[c] = "ephemeral"
  /\ Rank \in [Nodes \cup Channels -> Nat]
  /\ \A m, n \in Nodes : Rank[m] = Rank[n] => m = n
  /\ \A c, d \in Channels : Rank[c] = Rank[d] => c = d
  /\ \A c \in Channels : IsBarrier(c) => \E n \in Nodes : c \in Triggers[n]
  /\ RecursionLimit \in Nat \ {0}

(* START is the only input channel (src/src/graph/compiled.rs:43), and a   *)
(* node subscribes to it.                                                  *)
InputFits ==
  \E start \in Channels :
    /\ \E n \in Nodes : start \in Triggers[n]
    /\ \A w \in Inputs : DOMAIN w \subseteq {start}

(* Control-flow writers write the name of their own node to a barrier      *)
(* (attach_edge), and only barriers are written such tokens.               *)
TokensFit ==
  /\ \A n \in Nodes : \A w \in Outputs[n] : \A c \in DOMAIN w :
       IsBarrier(c) => w[c] = n
  /\ \A c \in Channels : IsBarrier(c) => Members[c] \subseteq Nodes
  /\ \A n \in Nodes : \A c \in Triggers[n] : Kind[c] \in {"ephemeral", "barrier"}

=============================================================================
