--------------------------- MODULE CompiledGraph ---------------------------
(***************************************************************************)
(* What compile hands to a run: the program of module GraphBuilder as the  *)
(* parameters of modules Program and GraphProgram, and with them of every  *)
(* module about runs. Added are the kinds of the channels, what the node   *)
(* functions may do and what their writers then write, which the program   *)
(* of GraphBuilder leaves out.                                             *)
(*                                                                         *)
(* Names are strings in the code, all of them: two channels are one if     *)
(* their names are equal. Kept apart here are only the sorts of names the  *)
(* compiler invents, START, "branch:to:..." and "join:...", and the names  *)
(* of state channels, which nobody checks.                                 *)
(***************************************************************************)
EXTENDS GraphBuilder

CONSTANTS
  StateKinds,       \* StateKinds[c]: LastValue or the reducer channel
  Values, Rejected, \* see module Channels
  Place,            \* Place[x]: place of x in the order of strings
  Outcomes,         \* Outcomes[n]: what the function of node n may do
  Path(_, _, _), NoKey, Null,
  RecursionLimit

NodeNames == Names \ ({START, END} \cup Reserved)
SignalNames == {BranchTrigger(n) : n \in NodeNames}
JoinNames ==
  {JoinTrigger(w) : w \in [starts : {S \in SUBSET NodeNames : Cardinality(S) > 1},
                           end    : NodeNames]}
ChannelNames == StateChannels \cup {START} \cup SignalNames \cup JoinNames

ASSUME CompiledAssumption ==
  /\ StateChannels \cap (SignalNames \cup JoinNames) = {}
  /\ START \notin SignalNames \cup JoinNames
  /\ SignalNames \cap JoinNames = {}
  /\ IsFiniteSet(StateChannels)
  /\ StateKinds \in [StateChannels -> {"last", "binop"}]
  /\ NodeNames \cup {Null} \subseteq Values /\ Rejected \subseteq Values
  /\ Place \in [NodeNames \cup ChannelNames -> Nat]
  /\ \A x, y \in NodeNames \cup ChannelNames : Place[x] = Place[y] => x = y
  /\ \A n \in NodeNames : \A o \in Outcomes[n] :
       /\ o.is \in {"object", "none", "other", "command", "error", "panic"}
       /\ o.is = "object" =>
            \A c \in DOMAIN o.fields \cap StateChannels : o.fields[c] \in Values
  /\ RecursionLimit \in Nat \ {0}

-----------------------------------------------------------------------------
RunNodes == DOMAIN program.triggers
IsJoin(c) == c \in DOMAIN program.members

(* attach_node makes START and the trigger channels ephemeral, attach_edge *)
(* the join channels barriers; the others are those of the state.          *)
RunKinds ==
  [c \in program.channels |-> IF IsJoin(c)               THEN "barrier"
                              ELSE IF c \in StateChannels THEN StateKinds[c]
                              ELSE "ephemeral"]
RunMembers ==
  [c \in program.channels |-> IF IsJoin(c) THEN program.members[c] ELSE {}]

(* START has a function that returns nothing. *)
RunOutcomes ==
  [n \in RunNodes |-> IF n = START THEN {[is |-> "none"]} ELSE Outcomes[n]]

Writer == INSTANCE ChannelWriter WITH
  Signals <- program.signals, Arrivals <- program.arrivals, Routes <- program.routes

(* What the tasks of a node may write, and the nodes that may go wrong: by *)
(* their functions, or because a branch finds no end.                      *)
RunOutputs ==
  [n \in RunNodes |->
     UNION {Writer!MayAssemble(n, o) :
              o \in {p \in RunOutcomes[n] : p.is \in {"object", "none"}}}]
MayEndAs(kinds) == {n \in RunNodes : \E o \in RunOutcomes[n] : o.is \in kinds}
RunFaulty ==
  MayEndAs({"other", "command", "error"}) \cup {n \in RunNodes : program.routes[n] # {}}

(* map_input: the whole input goes to START; or the run is given none. *)
RunInputs == {[c \in {START} |-> v] : v \in Values} \cup {[c \in {} |-> c]}

Run == INSTANCE GraphProgram WITH
  Nodes        <- RunNodes,
  Channels     <- program.channels,
  Kind         <- RunKinds,
  Members      <- RunMembers,
  Triggers     <- program.triggers,
  Rank         <- [x \in RunNodes \cup program.channels |-> Place[x]],
  Outputs      <- RunOutputs,
  Inputs       <- RunInputs,
  Faulty       <- RunFaulty,
  Panicky      <- MayEndAs({"panic"}),
  Signals      <- program.signals,
  Arrivals     <- program.arrivals,
  Routes       <- program.routes,
  Reads        <- program.reads,
  NodeOutcomes <- RunOutcomes

-----------------------------------------------------------------------------
(* Whatever calls have built a graph: if compile accepts it, it is one     *)
(* that all the modules about runs are about. Its nodes are finitely many, *)
(* no writer addresses a channel that does not exist or a barrier in the   *)
(* name of another node, every join has a subscriber, and what the writers *)
(* assemble and how they fail is what the main loop expects.               *)
CompiledRuns ==
  stage = "compiled" =>
    /\ Run!ChannelsFit
    /\ Run!GraphFits /\ Run!InputFits /\ Run!TokensFit
    /\ Run!WritersFit
    /\ program.output \subseteq program.channels /\ IsFiniteSet(program.output)
    /\ StateChannels # {} => \A c \in program.output : RunKinds[c] \in {"last", "binop"}

=============================================================================
