----------------------------- MODULE Throughput -----------------------------
(***************************************************************************)
(* The benchmarks linear_chain and stream_values                           *)
(* (src/benches/throughput.rs): a chain of N nodes, each of which writes   *)
(* its index to the channel "value", compiled and then invoked.            *)
(***************************************************************************)
EXTENDS GraphRun
LOCAL INSTANCE TLC

CONSTANT N   \* build_linear_chain is called with 5, 10 and 20

Start == "__start__"
Finish == "__end__"

(* The names n0, n1, ...; numbers are named by their numerals.             *)
Numeral(i) == ToString(i)
ChainNode(i) == "n" \o Numeral(i)
ChainNodes == {ChainNode(i) : i \in 0..(N - 1)}

(* build_linear_chain *)
Chain == INSTANCE GraphBuilder WITH
  START <- Start, END <- Finish, Names <- ChainNodes, Reserved <- {},
  Order <- [x \in {} |-> 0], StateChannels <- {"value"},
  Keys <- {}, EdgeCalls <- {}, PointCalls <- {}, BranchCalls <- {}, SequenceCalls <- {},
  nodes <- ChainNodes,
  edges <- {<<Start, ChainNode(0)>>, <<ChainNode(N - 1), Finish>>}
             \cup {<<ChainNode(i), ChainNode(i + 1)>> : i \in 0..(N - 2)},
  waitingEdges <- {}, branches <- {},
  stage <- "building", error <- "none", program <- <<>>

Compiled == Chain!Compiled([c \in {} |-> {}])

(* What the node functions return. *)
ChainReturns ==
  [n \in ChainNodes \cup {Start} |->
     {[is |-> "object", fields |-> [value |-> Numeral(i)]] :
        i \in {j \in 0..(N - 1) : ChainNode(j) = n}}
       \cup (IF n = Start THEN {[is |-> "none"]} ELSE {})]

=============================================================================
