--------------------------- MODULE GraphProgram ----------------------------
(***************************************************************************)
(* A compiled graph seen from its nodes: module Program together with what *)
(* the nodes read, what their functions may do and what their writers make *)
(* of it.                                                                  *)
(***************************************************************************)
EXTENDS Program, ChannelWriter

CONSTANTS
  Reads,           \* Reads[n]: PregelNode.channels
  NodeOutcomes     \* NodeOutcomes[n]: the outcomes its function may have

OutcomeKinds == {"object", "none", "other", "command", "error", "panic"}

(* What the writers of a node assemble is among the outputs the main loop  *)
(* is prepared for, and so are its failures. Tokens only go to joins.      *)
WritersFit ==
  /\ StateChannels \subseteq Channels
  /\ Reads \in [Nodes -> SUBSET Channels]
  /\ \A n \in Nodes : \A a \in Arrivals[n] : IsBarrier(a[1])
  /\ \A n \in Nodes : \A o \in NodeOutcomes[n] :
       /\ o.is \in OutcomeKinds
       /\ o.is \in {"object", "none"} => MayAssemble(n, o) \subseteq Outputs[n]
       /\ o.is \in {"other", "command", "error"} => n \in Faulty
       /\ o.is = "panic" => n \in Panicky
  /\ \A n \in Nodes : Routes[n] # {} => n \in Faulty

=============================================================================
