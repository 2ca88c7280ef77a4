---------------------------- MODULE GraphBuilder ----------------------------
(***************************************************************************)
(* The builder StateGraph (src/src/graph/state.rs) and the compiler that   *)
(* turns its nodes, edges, waiting edges and branches into the channels,   *)
(* triggers and writers of a Pregel program (src/src/graph/compiled.rs).   *)
(*                                                                         *)
(* A call the builder refuses changes nothing and is left out, except that *)
(* add_sequence keeps what it has added before the first refusal. Node     *)
(* functions and branch functions are left out here; module ChannelWriter  *)
(* runs them, on the program this module compiles.                         *)
(***************************************************************************)
EXTENDS Naturals, Sequences, FiniteSets

CONSTANTS
  START, END,      \* the two virtual nodes
  Names,           \* strings used as node names
  Reserved,        \* the names that contain '|' or ':'
  Order,           \* Order[x]: place of x in the order of strings
  StateChannels,   \* names of the channels the graph is created with
  Keys,            \* what branch functions return
  EdgeCalls,       \* pairs <<starts, end>> add_edge is called with
  PointCalls,      \* names set_entry_point and set_finish_point are called with
  BranchCalls,     \* [start, name, ends] for add_conditional_edges
  SequenceCalls    \* sequences of names for add_sequence

(* The ends of a BranchSpec: a map from keys to node names. *)
EndMaps == UNION {[K -> Names] : K \in SUBSET Keys}
EndsOf(b) == {b.ends[k] : k \in DOMAIN b.ends}

ASSUME BuilderAssumption ==
  /\ START # END
  /\ {START, END} \subseteq Names
  /\ Reserved \subseteq Names
  /\ START \notin StateChannels
  /\ Order \in [Names -> Nat]
  /\ \A x, y \in Names : Order[x] = Order[y] => x = y
  /\ EdgeCalls \subseteq Seq(Names) \X Names
  /\ PointCalls \subseteq Names
  /\ BranchCalls \subseteq [start : Names, name : STRING, ends : EndMaps]
  /\ SequenceCalls \subseteq Seq(Names)

VARIABLES
  nodes,         \* registered node names
  edges,         \* pairs <<start, end>>
  waitingEdges,  \* [starts, end]; starts sorted and without duplicates: a set
  branches,      \* [start, name, ends]
  stage,         \* "building", "compiled" or "rejected"
  error,         \* why compile refused the graph
  program        \* what compile made of the graph

graph == <<nodes, edges, waitingEdges, branches>>
vars == <<graph, stage, error, program>>

-----------------------------------------------------------------------------
(* Names of channels.                                                      *)

(* The members of S in the order of strings. *)
Sorted(S) ==
  [i \in 1..Cardinality(S) |->
     CHOOSE x \in S : Cardinality({y \in S : Order[y] <= Order[x]}) = i]

(* starts.join("+") *)
Joined(s) ==
  LET upto[i \in Nat] == IF i <= 1 THEN s[1] ELSE upto[i - 1] \o "+" \o s[i]
  IN  upto[Len(s)]

BranchTrigger(target) == "branch:to:" \o target

(* Variant: the end is left out. *)
JoinTriggerNoEnd(w) == "join:" \o Joined(Sorted(w.starts))

JoinTrigger(w) == "join:" \o Joined(Sorted(w.starts)) \o ":" \o w.end

-----------------------------------------------------------------------------
(* The builder.                                                            *)

Init ==
  /\ nodes = {} /\ edges = {} /\ waitingEdges = {} /\ branches = {}
  /\ stage = "building"
  /\ error = "none"
  /\ program = <<>>

(* Variant: the reserved characters are allowed. *)
AcceptableReserved(ns, n) == n \notin ns \cup {START, END}

(* The guards of add_node, when ns are the nodes there are. *)
Acceptable(ns, n) == n \notin ns \cup {START, END} \cup Reserved

(* add_node *)
AddNode(n) ==
  /\ stage = "building"
  /\ Acceptable(nodes, n)
  /\ nodes' = nodes \cup {n}
  /\ UNCHANGED <<edges, waitingEdges, branches, stage, error, program>>

(* START can only be a single start. *)
KnownStarts(count) == IF count = 1 THEN nodes \cup {START} ELSE nodes

(* Variant: the end of an edge is not looked up. *)
EdgeAcceptedAnyEnd(starts, end) ==
  /\ starts # <<>>
  /\ end # START
  /\ \A i \in DOMAIN starts : starts[i] \in KnownStarts(Len(starts))

(* The guards of add_edge. *)
EdgeAccepted(starts, end) ==
  /\ starts # <<>>
  /\ end \in nodes \cup {END}
  /\ \A i \in DOMAIN starts : starts[i] \in KnownStarts(Len(starts))

(* add_edge: one start makes an edge, several a waiting edge, even if they *)
(* are several times the same.                                             *)
AddEdge(starts, end) ==
  /\ stage = "building"
  /\ EdgeAccepted(starts, end)
  /\ IF Len(starts) = 1
     THEN /\ edges' = edges \cup {<<starts[1], end>>}
          /\ UNCHANGED waitingEdges
     ELSE /\ waitingEdges' = waitingEdges \cup
               {[starts |-> {starts[i] : i \in DOMAIN starts}, end |-> end]}
          /\ UNCHANGED edges
  /\ UNCHANGED <<nodes, branches, stage, error, program>>

SetEntryPoint(key) == AddEdge(<<START>>, key)
SetFinishPoint(key) == AddEdge(<<key>>, END)

(* add_conditional_edges. The ends are looked up only by compile. *)
AddConditionalEdges(b) ==
  /\ stage = "building"
  /\ b.start \in nodes \cup {START}
  /\ ~\E d \in branches : d.start = b.start /\ d.name = b.name
  /\ branches' = branches \cup {b}
  /\ UNCHANGED <<nodes, edges, waitingEdges, stage, error, program>>

SetConditionalEntryPoint(name, ends) ==
  AddConditionalEdges([start |-> START, name |-> name, ends |-> ends])

(* add_sequence: up to the first name that add_node refuses, every name    *)
(* becomes a node with an edge from the one before.                        *)
AddSequence(seq) ==
  /\ stage = "building"
  /\ \E k \in 0..Len(seq) :
       LET before(i) == {seq[j] : j \in 1..(i - 1)}
       IN  /\ \A i \in 1..k : Acceptable(nodes \cup before(i), seq[i])
           /\ k < Len(seq) => ~Acceptable(nodes \cup before(k + 1), seq[k + 1])
           /\ nodes' = nodes \cup {seq[i] : i \in 1..k}
           /\ edges' = edges \cup {<<seq[i], seq[i + 1]>> : i \in 1..(k - 1)}
  /\ UNCHANGED <<waitingEdges, branches, stage, error, program>>

-----------------------------------------------------------------------------
(* validate and compile.                                                   *)

Sources ==
  {e[1] : e \in edges} \cup {b.start : b \in branches}
    \cup (UNION {w.starts : w \in waitingEdges})

BranchTargets == UNION {EndsOf(b) : b \in branches}

Targets == {e[2] : e \in edges} \cup {w.end : w \in waitingEdges} \cup BranchTargets

(* Variant: the ends of branches are not looked up. *)
ValidationNoBranch ==
  IF ~(Sources \subseteq nodes \cup {START}) THEN "unknown edge source"
  ELSE IF START \notin Sources THEN "missing entrypoint"
  ELSE "none"

(* StateGraph::validate: the first check that fails. *)
Validation ==
  IF ~(Sources \subseteq nodes \cup {START}) THEN "unknown edge source"
  ELSE IF START \notin Sources THEN "missing entrypoint"
  ELSE IF ~(BranchTargets \subseteq nodes \cup {END}) THEN "unknown branch target"
  ELSE IF ~(Targets \subseteq nodes \cup {END}) THEN "unknown edge target"
  ELSE "none"

(* Variant: edges to END are not left out. *)
PlainEdgesToEnd == edges

(* attach_edge leaves out edges to END; a waiting edge whose starts were   *)
(* all the same is an edge.                                                *)
PlainEdges ==
  {e \in edges : e[2] # END}
    \cup {<<CHOOSE x \in w.starts : TRUE, w.end>> :
            w \in {v \in waitingEdges : v.end # END /\ Cardinality(v.starts) = 1}}

Joins == {w \in waitingEdges : w.end # END /\ Cardinality(w.starts) > 1}

(* A barrier channel waits for the starts of its waiting edge. If several  *)
(* edges have the same channel, each insert replaces the one before, and   *)
(* the order of insertion is that of a HashSet.                            *)
MembersOfSome(members) ==
  \A c \in {JoinTrigger(w) : w \in Joins} :
    \E w \in Joins : JoinTrigger(w) = c /\ members[c] = w.starts

(* branch_writer: the trigger channels written for each key of the map of  *)
(* ends; a branch to END writes nothing.                                   *)
Routing(b) ==
  [k \in DOMAIN b.ends |-> {BranchTrigger(t) : t \in {b.ends[k]} \ {END}}]

(* The program attach_node, attach_edge and attach_branch build:           *)
(*   channels   all channel names                                          *)
(*   members    the barrier channels, with the names they wait for         *)
(*   reads      the channels a node reads its state from: a user node all  *)
(*              state channels, START its own (node_read_channels)         *)
(*   output     the channels a run streams and returns                     *)
(*   triggers   the channels a node subscribes to                          *)
(*   signals    the trigger channels its edges write to                    *)
(*   arrivals   <<channel, token>> its waiting edges write                 *)
(*   routes     its branches, with the channels they write for each key    *)
Compiled(members) ==
  [channels |-> StateChannels \cup {START} \cup {BranchTrigger(n) : n \in nodes}
                  \cup DOMAIN members,
   members  |-> members,
   reads    |-> [n \in nodes \cup {START} |->
                   IF n = START THEN {START} ELSE StateChannels],
   output   |-> IF StateChannels = {} THEN {START} ELSE StateChannels,
   triggers |-> [n \in nodes \cup {START} |->
                   IF n = START THEN {START}
                   ELSE {BranchTrigger(n)}
                          \cup {JoinTrigger(w) : w \in {v \in Joins : v.end = n}}],
   signals  |-> [n \in nodes \cup {START} |->
                   {BranchTrigger(e[2]) : e \in {d \in PlainEdges : d[1] = n}}],
   arrivals |-> [n \in nodes \cup {START} |->
                   {<<JoinTrigger(w), n>> : w \in {v \in Joins : n \in v.starts}}],
   routes   |-> [n \in nodes \cup {START} |->
                   {[name |-> b.name, to |-> Routing(b)] :
                      b \in {d \in branches : d.start = n}}]]

(* Pregel::validate: what a node reads and subscribes to are channels, so  *)
(* are the input channel and the output channels, and somebody subscribes  *)
(* to the input.                                                           *)
Runnable(p) ==
  /\ \A n \in DOMAIN p.triggers : p.reads[n] \cup p.triggers[n] \subseteq p.channels
  /\ START \in p.channels
  /\ p.output \subseteq p.channels
  /\ \E n \in DOMAIN p.triggers : START \in p.triggers[n]

Reject(why) ==
  /\ stage' = "rejected"
  /\ error' = why
  /\ UNCHANGED program

(* compile consumes the builder. *)
Compile ==
  /\ stage = "building"
  /\ IF Validation # "none" THEN Reject(Validation)
     ELSE \E members \in [{JoinTrigger(w) : w \in Joins} -> {w.starts : w \in Joins}] :
            /\ MembersOfSome(members)
            /\ IF Runnable(Compiled(members))
               THEN /\ stage' = "compiled"
                    /\ program' = Compiled(members)
                    /\ UNCHANGED error
               ELSE Reject("invalid program")
  /\ UNCHANGED graph

Finished == stage # "building" /\ UNCHANGED vars

Next ==
  \/ \E n \in Names : AddNode(n)
  \/ \E c \in EdgeCalls : AddEdge(c[1], c[2])
  \/ \E n \in PointCalls : SetEntryPoint(n) \/ SetFinishPoint(n)
  \/ \E b \in BranchCalls :
       AddConditionalEdges(b) \/ SetConditionalEntryPoint(b.name, b.ends)
  \/ \E s \in SequenceCalls : AddSequence(s)
  \/ Compile
  \/ Finished

Spec == Init /\ [][Next]_vars

-----------------------------------------------------------------------------
(* Type invariant: what the builder has stored is well-formed, whatever    *)
(* calls were made, refused or half done.                                  *)
GTypeOK ==
  /\ nodes \subseteq Names \ ({START, END} \cup Reserved)
  /\ edges \subseteq (nodes \cup {START}) \X (nodes \cup {END})
  /\ waitingEdges \subseteq [starts : (SUBSET nodes) \ {{}}, end : nodes \cup {END}]
  /\ branches \subseteq [start : nodes \cup {START}, name : STRING, ends : EndMaps]
  /\ stage \in {"building", "compiled", "rejected"}

(* The checks of the calls make those of validate redundant: compile       *)
(* refuses a graph only because it has no entry point or because a branch  *)
(* names an unknown end, which no call has checked.                        *)
CompileRefusals ==
  stage = "rejected" => error \in {"missing entrypoint", "unknown branch target"}

(* Every waiting edge has a barrier of its own, that waits for exactly its *)
(* starts; exactly they write to it, each its own name, and only the end   *)
(* subscribes to it.                                                       *)
JoinCompiled ==
  stage = "compiled" =>
    \A w \in Joins :
      LET c == JoinTrigger(w)
      IN  /\ program.members[c] = w.starts
          /\ \A n \in nodes \cup {START} :
               /\ (c \in program.triggers[n]) <=> (n = w.end)
               /\ (\E a \in program.arrivals[n] : a[1] = c) <=> (n \in w.starts)
               /\ \A a \in program.arrivals[n] : a[1] = c => a[2] = n

(* The channels a compiled branch may write to. *)
Routed(r) == UNION {r.to[k] : k \in DOMAIN r.to}

(* No signal of a compiled graph goes nowhere: whatever trigger channel a  *)
(* node may write, by an edge or a branch, some node subscribes to.        *)
SignalsArrive ==
  stage = "compiled" =>
    \A n \in nodes \cup {START} :
      \A c \in program.signals[n] \cup (UNION {Routed(r) : r \in program.routes[n]}) :
        \E m \in nodes : c \in program.triggers[m]

=============================================================================
