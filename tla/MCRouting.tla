----------------------------- MODULE MCRouting ------------------------------
(***************************************************************************)
(* A graph whose nodes route on the state and go wrong in every way. START *)
(* goes to a and b. a appends to "log" and has two branches: "route" sends *)
(* it round again while the log it has read is short, and is lost when b   *)
(* has written "bad"; "help" calls b. b may return any sort of outcome.    *)
(* Both may write the LastValue "val"; the reducer of "log" refuses "odd". *)
(***************************************************************************)
EXTENDS GraphRun, TLC

MCStart == "__start__"
MCEnd == "__end__"

MCBranches ==
  {[start |-> "a", name |-> "route", ends |-> [again |-> "a", stop |-> MCEnd]],
   [start |-> "a", name |-> "help", ends |-> [call |-> "b"]]}

B == INSTANCE GraphBuilder WITH
       START <- MCStart, END <- MCEnd, Names <- {"a", "b"}, Reserved <- {},
       Order <- [x \in {"a", "b"} |-> IF x = "a" THEN 1 ELSE 2],
       Keys <- {"again", "stop", "call"},
       EdgeCalls <- {}, PointCalls <- {}, BranchCalls <- {}, SequenceCalls <- {},
       nodes <- {"a", "b"}, waitingEdges <- {}, branches <- MCBranches,
       edges <- {<<MCStart, "a">>, <<MCStart, "b">>},
       stage <- "building", error <- "none", program <- <<>>

Program == B!Compiled([c \in {} |-> {}])
MCNodes == DOMAIN Program.triggers
MCTriggers == Program.triggers
MCChannels == Program.channels
MCReads == Program.reads
MCSignals == Program.signals
MCArrivals == Program.arrivals
MCRoutes == Program.routes
MCStreamChannels == Program.output
MCMembers == [c \in MCChannels |-> {}]
MCKind == [c \in MCChannels |-> CASE c = "log" -> "binop" [] c = "val" -> "last"
                                  [] OTHER -> "ephemeral"]

LogLength(s) == IF "log" \in DOMAIN s THEN Len(s["log"]) ELSE 0
MCPath(n, name, s) ==
  IF name = "route"
  THEN IF "val" \in DOMAIN s /\ s["val"] = <<"bad">> THEN "nowhere"
       ELSE IF LogLength(s) < 2 THEN "again" ELSE "stop"
  ELSE IF LogLength(s) \in {1, 2} THEN "call" ELSE "none"

Update(f) == [is |-> "object", fields |-> f]
Is(what) == [is |-> what]
MCOutcomes ==
  [n \in MCNodes |->
     CASE n = "a" -> {Update([log |-> "x"]), Update([log |-> "x", val |-> "good"])}
       [] n = "b" -> {Update([val |-> "bad"]), Update([log |-> "x"]),
                      Update([log |-> "odd", extra |-> "x"]), Is("none"), Is("other"), Is("command"), Is("error"), Is("panic")}
       [] OTHER -> {Is("none")}]

(* b has an error of its own only when it is called with "val" written. *)
MCReturns(n, s, o) == o = Is("error") => "val" \in DOMAIN s

MCOutputs == [n \in MCNodes |-> UNION {MayAssemble(n, o) : o \in MCOutcomes[n]}]
MCInputs == {NoWrites, [c \in {MCStart} |-> "null"]}
MCOrder == <<"__start__", "a", "b", "branch:to:a", "branch:to:b", "log", "val">>
MCRank == [x \in MCNodes \cup MCChannels |-> CHOOSE i \in DOMAIN MCOrder : MCOrder[i] = x]

(* The hypothesis of the theorems about results and updates. *)
ASSUME StateAssumption == StreamsState

=============================================================================
