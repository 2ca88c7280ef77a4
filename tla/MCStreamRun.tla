---------------------------- MODULE MCStreamRun -----------------------------
(***************************************************************************)
(* A graph for the stream: START goes to a and b, which write the reducer  *)
(* channel "log"; a may route back to itself, and the reducer refuses the  *)
(* operand "odd". Its only state channel is "log", so that items carry     *)
(* bare values.                                                            *)
(***************************************************************************)
EXTENDS StreamRun, TLC

MCNodes == {"__start__", "a", "b"}
MCEphemeral == {"__start__", "branch:to:a", "branch:to:b"}
MCChannels == MCEphemeral \cup {"log"}
MCValues == {"null", "x", "odd"}
MCKind == [c \in MCChannels |-> IF c = "log" THEN "binop" ELSE "ephemeral"]
MCMembers == [c \in MCChannels |-> {}]
MCTriggers ==
  [n \in MCNodes |-> CASE n = "__start__" -> {"__start__"}
                       [] n = "a" -> {"branch:to:a"}
                       [] n = "b" -> {"branch:to:b"}]

Nulls(S) == [c \in S |-> "null"]
Logged == [c \in {"log"} |-> "x"]

MCOutputs ==
  [n \in MCNodes |->
     CASE n = "__start__" -> {Nulls({"branch:to:a", "branch:to:b"})}
       [] n = "a" -> {Logged, Logged @@ Nulls({"branch:to:a"}), Nulls({"branch:to:a"})}
       [] n = "b" -> {NoWrites, Logged, [c \in {"log"} |-> "odd"]}]

(* A loop that runs a until it routes to END, logging every time. *)
MCCounting ==
  [n \in MCNodes |->
     CASE n = "__start__" -> {Nulls({"branch:to:a"})}
       [] n = "a" -> {Logged, Logged @@ Nulls({"branch:to:a"})}
       [] n = "b" -> {}]

MCInputs == {NoWrites, Nulls({"__start__"})}
MCValidInputs == {Nulls({"__start__"})}

MCOrder == <<"__start__", "a", "b", "branch:to:a", "branch:to:b", "log">>
MCRank == [x \in MCNodes \cup MCChannels |->
             CHOOSE i \in DOMAIN MCOrder : MCOrder[i] = x]

(* The hypothesis of the theorems about results and updates. *)
ASSUME StateAssumption == StreamsState

=============================================================================
