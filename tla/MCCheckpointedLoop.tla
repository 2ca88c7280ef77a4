------------------------- MODULE MCCheckpointedLoop -------------------------
(***************************************************************************)
(* A graph whose join fills up in one superstep or in two: START routes to *)
(* a, or to a and b; a may go on to b; the waiting edge [a, b] -> c. A run *)
(* may be interrupted between the two arrivals. a and b both append to the *)
(* reducer channel "log" or write "val"; the reducer refuses "odd".        *)
(***************************************************************************)
EXTENDS CheckpointedLoop, TLC

MCStart == "__start__"
MCNodes == {MCStart, "a", "b", "c"}
MCJoin == "join:a+b:c"
MCTo == [n \in {"a", "b", "c"} |-> "branch:to:" \o n]
MCChannels == {MCStart, MCJoin, "log", "val"} \cup {MCTo[n] : n \in {"a", "b", "c"}}
MCValues == {"a", "b", "null", "odd"}
MCKind ==
  [c \in MCChannels |-> CASE c = MCJoin -> "barrier"
                          [] c = "log" -> "binop"
                          [] c = "val" -> "last"
                          [] OTHER -> "ephemeral"]
MCMembers == [c \in MCChannels |-> IF c = MCJoin THEN {"a", "b"} ELSE {}]
MCTriggers ==
  [n \in MCNodes |-> CASE n = MCStart -> {MCStart}
                       [] n = "c" -> {MCTo["c"], MCJoin}
                       [] OTHER -> {MCTo[n]}]

Signals(S) == [c \in {MCTo[n] : n \in S} |-> "null"]
Log(v) == [c \in {"log"} |-> v]
Val(v) == [c \in {"val"} |-> v]
Arrive(n) == [c \in {MCJoin} |-> n]

MCOutputs ==
  [n \in MCNodes |->
     CASE n = MCStart -> {Signals({"a"}), Signals({"a", "b"})}
       [] n = "a" -> {Log("a") @@ Arrive("a") @@ Signals({"b"}),
                      Val("a") @@ Arrive("a")}
       [] n = "b" -> {Log("odd") @@ Arrive("b"), Val("b") @@ Arrive("b")}
       [] n = "c" -> {NoWrites}]
MCInputs == {NoWrites, [c \in {MCStart} |-> "null"]}

(* Another namespace of the thread, and another thread, much further on.   *)
MCForeign(c) == IF IsBarrier(c) THEN {"a"} ELSE IF c = "log" THEN <<"a", "a">> ELSE <<>>
MCCheckpoint(i) ==
  [EmptyCheckpoint EXCEPT !.id = i, !.values = [c \in Channels |-> CheckpointOf(c, MCForeign(c))],
                          !.source = "loop", !.step = i - 1]
MCGiven ==
  LET one == PutWrites(EmptySaver, <<"default", "sub">>, 9, <<[task |-> "a", writes |-> Log("a")]>>)
  IN  Put(Put(one, <<"default", "sub">>, MCCheckpoint(9)), <<"other", "">>, MCCheckpoint(99))

MCOrder == <<"__start__", "a", "b", "branch:to:a", "branch:to:b",
             "branch:to:c", "c", "join:a+b:c", "log", "val">>
MCRank == [x \in MCNodes \cup MCChannels |->
             CHOOSE i \in DOMAIN MCOrder : MCOrder[i] = x]

(* The hypothesis of the theorems about resuming: START is plain. *)
ASSUME EntryAssumption == EntrySafe

=============================================================================
