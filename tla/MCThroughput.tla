---------------------------- MODULE MCThroughput ----------------------------
(***************************************************************************)
(* The chain as it is benchmarked.                                         *)
(***************************************************************************)
EXTENDS Throughput

MCNodes == DOMAIN Compiled.triggers
MCChannels == Compiled.channels
MCTriggers == Compiled.triggers
MCReads == Compiled.reads
MCSignals == Compiled.signals
MCArrivals == Compiled.arrivals
MCRoutes == Compiled.routes
MCStreamChannels == Compiled.output
MCKind == [c \in MCChannels |-> IF c = "value" THEN "last" ELSE "ephemeral"]
MCMembers == [c \in MCChannels |-> {}]
MCPlace(x) ==
  CASE x = Start   -> 0
    [] x = "value" -> 1
    [] OTHER       -> 2 + (CHOOSE i \in 0..(2 * N) :
                             x \in {ChainNode(i), "branch:to:" \o ChainNode(i)})
MCRank == [x \in MCNodes \cup MCChannels |-> MCPlace(x)]
MCValues == {"null"} \cup {Numeral(i) : i \in 0..(N - 1)}
MCOutputs == [n \in MCNodes |-> UNION {MayAssemble(n, o) : o \in ChainReturns[n]}]
MCInputs == {[c \in {Start} |-> "null"]}
MCPath(n, name, s) == "none"
MCReturns(n, s, o) == TRUE

=============================================================================
