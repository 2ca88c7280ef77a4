---------------------------- MODULE MCCodeReview ----------------------------
(***************************************************************************)
(* The code review program as it is: nothing is left to choose but the     *)
(* order in which the threads, the task and the receive loop run.          *)
(***************************************************************************)
EXTENDS CodeReview

MCNodes == DOMAIN Compiled.triggers
MCChannels == Compiled.channels
MCTriggers == Compiled.triggers
MCReads == Compiled.reads
MCSignals == Compiled.signals
MCArrivals == Compiled.arrivals
MCRoutes == Compiled.routes
MCStreamChannels == Compiled.output
MCMembers == [c \in MCChannels |-> IF c \in Joins THEN Compiled.members[c] ELSE {}]
MCRank == [x \in MCNodes \cup MCChannels |-> Place[x]]
MCValues == Checks \cup DOMAIN Severities \cup {"null", "pr", "review complete"}
MCInputs == {[c \in {Start} |-> "null"]}
MCOutputs == [n \in MCNodes |-> UNION {MayAssemble(n, o) : o \in NodeReturns[n]}]
MCPath(n, name, s) == "none"
MCReturns(n, s, o) == TRUE

=============================================================================
