------------------------------ MODULE MCReadme ------------------------------
(***************************************************************************)
(* The graph with a reducer of its own that the README shows               *)
(* (src/README.md:140): add_1 and then add_2 write to "counter", the only  *)
(* channel of the graph, and it is invoked.                                *)
(***************************************************************************)
EXTENDS GraphRun

MCStart == "__start__"
MCAdders == {"add_1", "add_2"}

B == INSTANCE GraphBuilder WITH
       START <- MCStart, END <- "__end__", Names <- MCAdders, Reserved <- {},
       Order <- [x \in {} |-> 0], StateChannels <- {"counter"},
       Keys <- {}, EdgeCalls <- {}, PointCalls <- {}, BranchCalls <- {}, SequenceCalls <- {},
       nodes <- MCAdders, waitingEdges <- {}, branches <- {},
       edges <- {<<MCStart, "add_1">>, <<"add_1", "add_2">>, <<"add_2", "__end__">>},
       stage <- "building", error <- "none", program <- <<>>

Program == B!Compiled([c \in {} |-> {}])
MCNodes == DOMAIN Program.triggers
MCTriggers == Program.triggers
MCChannels == Program.channels
MCReads == Program.reads
MCSignals == Program.signals
MCArrivals == Program.arrivals
MCRoutes == Program.routes
MCStreamChannels == Program.output
MCMembers == [c \in MCChannels |-> {}]
MCKind == [c \in MCChannels |-> IF c = "counter" THEN "binop" ELSE "ephemeral"]

Adds(operand) == [is |-> "object", fields |-> [counter |-> operand]]
MCOutcomes ==
  [n \in MCNodes |-> CASE n = "add_1" -> {Adds("1")}
                       [] n = "add_2" -> {Adds("2")}
                       [] OTHER -> {[is |-> "none"]}]
MCPath(n, name, s) == "none"
MCReturns(n, s, o) == TRUE
MCOutputs == [n \in MCNodes |-> UNION {MayAssemble(n, o) : o \in MCOutcomes[n]}]
MCInputs == {[c \in {MCStart} |-> "null"]}
MCOrder == <<"__start__", "add_1", "add_2", "branch:to:add_1", "branch:to:add_2", "counter">>
MCRank == [x \in MCNodes \cup MCChannels |-> CHOOSE i \in DOMAIN MCOrder : MCOrder[i] = x]

(* README: the output of this run is an object whose "counter" holds the   *)
(* two operands added up (src/README.md:181-187).                          *)
OutputIsObject ==
  caller = "returned" =>
    /\ Result.is = "object"
    /\ Result.of = [counter |-> <<"1", "2">>]

=============================================================================
