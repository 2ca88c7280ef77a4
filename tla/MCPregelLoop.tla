---------------------------- MODULE MCPregelLoop ----------------------------
(***************************************************************************)
(* A compiled graph small enough to explore: START goes to a and b; the    *)
(* waiting edge [a, b] -> c; a may also route straight to c; c routes to   *)
(* a, to b, to both or to END. The join is entered again with one or both  *)
(* of its starts, c can be triggered by the branch, by the join, or by     *)
(* both at once. Two state channels: "log" with a reducer, to which every  *)
(* node appends its name, and "val", a LastValue that a and b may both     *)
(* write in the same superstep. The reducer refuses the operand "odd".     *)
(***************************************************************************)
EXTENDS LoopRefinesSuperstep, LoopRefinesAtomic, TLC

MCNodes == {"__start__", "a", "b", "c"}
MCStart == "__start__"
MCJoin == "join:a+b:c"
MCTo == [n \in {"a", "b", "c"} |-> "branch:to:" \o n]
MCEphemeral == {MCStart} \cup {MCTo[n] : n \in {"a", "b", "c"}}
MCChannels == MCEphemeral \cup {MCJoin, "log", "val"}
MCValues == {"a", "b", "c", "null", "odd"}

MCKind ==
  [c \in MCChannels |-> CASE c = MCJoin -> "barrier"
                          [] c = "log" -> "binop"
                          [] c = "val" -> "last"
                          [] OTHER -> "ephemeral"]
MCMembers == [c \in MCChannels |-> IF c = MCJoin THEN {"a", "b"} ELSE {}]
MCTriggers ==
  [n \in MCNodes |-> CASE n = MCStart -> {MCStart}
                       [] n = "c" -> {MCTo["c"], MCJoin}
                       [] OTHER -> {MCTo[n]}]

Signals(S) == [c \in {MCTo[n] : n \in S} |-> "null"]
Signed(n) == [c \in {"log"} |-> n]
Valued(v) == [c \in {"val"} |-> v]
Arrive(n) == [c \in {MCJoin} |-> n]

MCOutputs ==
  [n \in MCNodes |->
     CASE n = MCStart -> {Signals({"a", "b"})}
       [] n = "a" -> {Signed("a") @@ Arrive("a"),
                      Valued("a") @@ Arrive("a"),
                      Signed("a") @@ Arrive("a") @@ Signals({"c"})}
       [] n = "b" -> {Signed("b") @@ Arrive("b"),
                      Valued("b") @@ Arrive("b"),
                      [c \in {"log"} |-> "odd"] @@ Arrive("b")}
       [] n = "c" -> {Signals(S) : S \in SUBSET {"a", "b"}}]

MCInputs == {NoWrites, [c \in {MCStart} |-> "null"]}

MCOrder == <<"__start__", "a", "b", "branch:to:a", "branch:to:b",
             "branch:to:c", "c", "join:a+b:c", "log", "val">>
MCRank == [x \in MCNodes \cup MCChannels |->
             CHOOSE i \in DOMAIN MCOrder : MCOrder[i] = x]

=============================================================================
