------------------------- MODULE GraphBuilderProofs -------------------------
(***************************************************************************)
(* What the builder has stored is well-formed after any calls, compile     *)
(* refuses a graph for two reasons only, and no signal of a compiled graph *)
(* goes nowhere: for every set of names and every set of calls.            *)
(***************************************************************************)
EXTENDS GraphBuilder, TLAPS

(* The strengthening: the graph is not touched once it is compiled, so     *)
(* that what validate has seen of it, and what compile has made of it,     *)
(* stays true of it.                                                       *)
FromValidGraph ==
  stage = "compiled" =>
    /\ BranchTargets \subseteq nodes \cup {END}
    /\ \E members : /\ MembersOfSome(members) /\ program = Compiled(members)
                    /\ DOMAIN members = {JoinTrigger(w) : w \in Joins}

(* A refused graph has been looked at by validate when it was well-formed. *)
BuilderInv ==
  /\ GTypeOK
  /\ CompileRefusals
  /\ FromValidGraph

-----------------------------------------------------------------------------
(* The checks of the calls cover those of validate: of a well-formed graph *)
(* it finds only that the entry point is missing or a branch end unknown   *)
(* (state.rs:304).                                                         *)
LEMMA ValidationOfWellFormed ==
  ASSUME GTypeOK
  PROVE  Validation \in {"none", "missing entrypoint", "unknown branch target"}
<1>1. Sources \subseteq nodes \cup {START}
  <2>1. \A e \in edges : e[1] \in nodes \cup {START}
    BY DEF GTypeOK
  <2>2. \A w \in waitingEdges : w.starts \subseteq nodes
    BY DEF GTypeOK
  <2>3. \A b \in branches : b.start \in nodes \cup {START}
    BY DEF GTypeOK
  <2> QED
    BY <2>1, <2>2, <2>3 DEF Sources
<1>2. ASSUME BranchTargets \subseteq nodes \cup {END}
      PROVE  Targets \subseteq nodes \cup {END}
  <2>1. \A e \in edges : e[2] \in nodes \cup {END}
    BY DEF GTypeOK
  <2>2. \A w \in waitingEdges : w.end \in nodes \cup {END}
    BY DEF GTypeOK
  <2> QED
    BY <1>2, <2>1, <2>2 DEF Targets
<1> QED
  BY <1>1, <1>2 DEF Validation

(* A graph that passes validate has known branch ends only. *)
LEMMA ValidatedBranches ==
  ASSUME Validation = "none"
  PROVE  BranchTargets \subseteq nodes \cup {END}
BY DEF Validation

(* attach_node makes every node a subscriber of its own trigger channel,   *)
(* the two virtual nodes included or not (compiled.rs:88-94): the program  *)
(* of a well-formed graph passes Pregel::validate.                         *)
LEMMA CompiledIsRunnable ==
  ASSUME NEW members, DOMAIN members = {JoinTrigger(w) : w \in Joins}
  PROVE  Runnable(Compiled(members))
<1> DEFINE p == Compiled(members)
<1>1. /\ DOMAIN p.triggers = nodes \cup {START}
      /\ p.channels = StateChannels \cup {START} \cup {BranchTrigger(n) : n \in nodes}
                        \cup DOMAIN members
      /\ p.output \subseteq StateChannels \cup {START}
      /\ \A n \in nodes \cup {START} : p.reads[n] \subseteq StateChannels \cup {START}
  BY DEF Compiled
<1>2. \A n \in nodes \cup {START} :
        p.triggers[n] = IF n = START THEN {START}
                        ELSE {BranchTrigger(n)}
                               \cup {JoinTrigger(w) : w \in {v \in Joins : v.end = n}}
  BY DEF Compiled
<1> HIDE DEF p
<1>3. \A n \in nodes \cup {START} : p.triggers[n] \subseteq p.channels
  <2>1. p.triggers[START] \subseteq p.channels
    BY <1>1, <1>2
  <2>2. ASSUME NEW n \in nodes, n # START
        PROVE  p.triggers[n] \subseteq p.channels
    <3>1. BranchTrigger(n) \in p.channels
      BY <1>1
    <3>2. {JoinTrigger(w) : w \in {v \in Joins : v.end = n}} \subseteq p.channels
      BY <1>1
    <3> QED
      BY <1>2, <2>2, <3>1, <3>2
  <2> QED
    BY <2>1, <2>2
<1>4. START \in p.triggers[START]
  BY <1>2
<1> QED
  BY <1>1, <1>3, <1>4 DEF Runnable, p

-----------------------------------------------------------------------------
LEMMA InitBuilderInv == Init => BuilderInv
BY DEF Init, BuilderInv, GTypeOK, CompileRefusals, FromValidGraph

(* While the graph is being built only its shape is at stake. *)
LEMMA BuildingStep ==
  ASSUME GTypeOK', stage' = "building"
  PROVE  BuilderInv'
BY DEF BuilderInv, CompileRefusals, FromValidGraph

LEMMA AddNodeInv ==
  ASSUME BuilderInv, NEW n \in Names, AddNode(n)
  PROVE  BuilderInv'
<1>1. GTypeOK'
  BY DEF BuilderInv, GTypeOK, AddNode, Acceptable
<1> QED
  BY <1>1, BuildingStep DEF AddNode

LEMMA AddEdgeInv ==
  ASSUME BuilderInv, NEW starts \in Seq(Names), NEW end \in Names,
         AddEdge(starts, end)
  PROVE  BuilderInv'
<1>1. /\ AddEdge(starts, end) /\ EdgeAccepted(starts, end)
      /\ stage = "building" /\ stage' = stage
      /\ nodes' = nodes /\ branches' = branches
  BY DEF AddEdge
<1>2. CASE Len(starts) = 1
  <2>1. <<starts[1], end>> \in (nodes \cup {START}) \X (nodes \cup {END})
    BY <1>1, <1>2 DEF EdgeAccepted, KnownStarts
  <2>2. edges' = edges \cup {<<starts[1], end>>} /\ waitingEdges' = waitingEdges
    BY <1>1, <1>2 DEF AddEdge
  <2>3. GTypeOK'
    BY <1>1, <2>1, <2>2 DEF BuilderInv, GTypeOK
  <2> QED
    BY <1>1, <2>3, BuildingStep
<1>3. CASE Len(starts) # 1
  <2> DEFINE S == {starts[i] : i \in DOMAIN starts}
  <2>1. S \subseteq nodes /\ end \in nodes \cup {END}
    BY <1>1, <1>3 DEF EdgeAccepted, KnownStarts
  <2>2. S # {}
    <3>1. 1 \in DOMAIN starts
      BY <1>1 DEF EdgeAccepted
    <3> QED
      BY <3>1
  <2>3. edges' = edges /\ waitingEdges' = waitingEdges \cup {[starts |-> S, end |-> end]}
    BY <1>1, <1>3 DEF AddEdge
  <2> HIDE DEF S
  <2>4. GTypeOK'
    BY <1>1, <2>1, <2>2, <2>3 DEF BuilderInv, GTypeOK
  <2> QED
    BY <1>1, <2>4, BuildingStep
<1> QED
  BY <1>2, <1>3

LEMMA AddConditionalEdgesInv ==
  ASSUME BuilderInv,
         NEW b \in [start : Names, name : STRING, ends : EndMaps],
         AddConditionalEdges(b)
  PROVE  BuilderInv'
<1>1. b \in [start : nodes \cup {START}, name : STRING, ends : EndMaps]
  BY DEF AddConditionalEdges
<1>2. GTypeOK'
  BY <1>1 DEF BuilderInv, GTypeOK, AddConditionalEdges
<1> QED
  BY <1>2, BuildingStep DEF AddConditionalEdges

(* Whatever prefix of the sequence has been added, both ends of its edges  *)
(* have.                                                                   *)
LEMMA AddSequenceInv ==
  ASSUME BuilderInv, NEW seq \in SequenceCalls, AddSequence(seq)
  PROVE  BuilderInv'
<1>1. seq \in Seq(Names)
  BY BuilderAssumption
<1>2. PICK k \in 0..Len(seq) :
        /\ \A i \in 1..k :
             Acceptable(nodes \cup {seq[j] : j \in 1..(i - 1)}, seq[i])
        /\ nodes' = nodes \cup {seq[i] : i \in 1..k}
        /\ edges' = edges \cup {<<seq[i], seq[i + 1]>> : i \in 1..(k - 1)}
  BY DEF AddSequence
<1>3. \A i \in 1..k : seq[i] \in Names \ ({START, END} \cup Reserved)
  BY <1>1, <1>2 DEF Acceptable
<1>4. \A i \in 1..(k - 1) : seq[i] \in nodes' /\ seq[i + 1] \in nodes'
  BY <1>2
<1>5. nodes' \subseteq Names \ ({START, END} \cup Reserved)
  BY <1>2, <1>3 DEF BuilderInv, GTypeOK
<1>6. edges' \subseteq (nodes' \cup {START}) \X (nodes' \cup {END})
  BY <1>2, <1>4 DEF BuilderInv, GTypeOK
<1>7. GTypeOK'
  BY <1>2, <1>5, <1>6 DEF BuilderInv, GTypeOK, AddSequence
<1> QED
  BY <1>7, BuildingStep DEF AddSequence

(* compile stores nothing in the graph, and what it makes or refuses is    *)
(* what ValidationOfWellFormed and CompiledIsRunnable leave of its paths.  *)
LEMMA CompileInv ==
  ASSUME BuilderInv, Compile
  PROVE  BuilderInv'
<1>1. nodes' = nodes /\ edges' = edges /\ waitingEdges' = waitingEdges /\ branches' = branches
  BY DEF Compile, graph
<1>2. CASE Validation # "none"
  <2>1. stage' = "rejected" /\ error' \in {"missing entrypoint", "unknown branch target"}
    BY <1>2, ValidationOfWellFormed DEF Compile, Reject, BuilderInv
  <2> QED
    BY <1>1, <2>1 DEF BuilderInv, GTypeOK, CompileRefusals, FromValidGraph
<1>3. CASE Validation = "none"
  <2>1. PICK members \in [{JoinTrigger(w) : w \in Joins} -> {w.starts : w \in Joins}] :
          /\ MembersOfSome(members)
          /\ IF Runnable(Compiled(members))
             THEN stage' = "compiled" /\ program' = Compiled(members)
             ELSE Reject("invalid program")
    BY <1>3 DEF Compile
  <2>2. stage' = "compiled" /\ program' = Compiled(members) /\ MembersOfSome(members)
    BY <2>1, CompiledIsRunnable
  <2>3. BranchTargets' \subseteq nodes' \cup {END}
    BY <1>1, <1>3, ValidatedBranches DEF BranchTargets
  <2>4. /\ Compiled(members)' = Compiled(members)
        /\ MembersOfSome(members)' = MembersOfSome(members)
    BY <1>1 DEF Compiled, Joins, PlainEdges, MembersOfSome
  <2>5. DOMAIN members = {JoinTrigger(w) : w \in Joins} /\ Joins' = Joins
    BY <1>1, <2>1 DEF Joins
  <2>6. FromValidGraph'
    <3>1. (DOMAIN members = {JoinTrigger(w) : w \in Joins})'
      BY <2>5
    <3>2. \E ms : (/\ MembersOfSome(ms) /\ program = Compiled(ms)
                   /\ DOMAIN ms = {JoinTrigger(w) : w \in Joins})'
      BY <2>2, <2>4, <3>1
    <3> QED
      BY <2>3, <3>2 DEF FromValidGraph
  <2> QED
    BY <1>1, <2>2, <2>6 DEF BuilderInv, GTypeOK, CompileRefusals
<1> QED
  BY <1>2, <1>3

LEMMA StutterInv ==
  ASSUME BuilderInv, UNCHANGED vars
  PROVE  BuilderInv'
<1>1. /\ nodes' = nodes /\ edges' = edges /\ waitingEdges' = waitingEdges
      /\ branches' = branches /\ stage' = stage /\ error' = error /\ program' = program
  BY DEF vars, graph
<1>2. BranchTargets' = BranchTargets
  BY <1>1 DEF BranchTargets
<1>3. ASSUME NEW members
      PROVE  /\ Compiled(members)' = Compiled(members)
             /\ MembersOfSome(members)' = MembersOfSome(members)
  BY <1>1 DEF Compiled, Joins, PlainEdges, MembersOfSome
<1>4. Joins' = Joins
  BY <1>1 DEF Joins
<1>5. FromValidGraph'
  <2> SUFFICES ASSUME stage = "compiled"
               PROVE  /\ (BranchTargets \subseteq nodes \cup {END})'
                      /\ \E ms : (/\ MembersOfSome(ms) /\ program = Compiled(ms)
                                  /\ DOMAIN ms = {JoinTrigger(w) : w \in Joins})'
    BY <1>1 DEF FromValidGraph
  <2>1. PICK ms : /\ MembersOfSome(ms) /\ program = Compiled(ms)
                  /\ DOMAIN ms = {JoinTrigger(w) : w \in Joins}
    BY DEF BuilderInv, FromValidGraph
  <2>2. (DOMAIN ms = {JoinTrigger(w) : w \in Joins})'
    BY <1>4, <2>1
  <2>3. (BranchTargets \subseteq nodes \cup {END})'
    BY <1>1, <1>2 DEF BuilderInv, FromValidGraph
  <2> QED
    BY <1>1, <1>3, <2>1, <2>2, <2>3
<1> QED
  BY <1>1, <1>5 DEF BuilderInv, GTypeOK, CompileRefusals

(* The builder's graph is well-formed after any sequence of calls, and     *)
(* compile does not change it.                                             *)
THEOREM BuilderInvariant == Spec => []BuilderInv
<1>1. Init => BuilderInv
  BY InitBuilderInv
<1>2. BuilderInv /\ [Next]_vars => BuilderInv'
  <2> SUFFICES ASSUME BuilderInv, [Next]_vars
               PROVE  BuilderInv'
    OBVIOUS
  <2>1. CASE \E n \in Names : AddNode(n)
    BY <2>1, AddNodeInv
  <2>2. CASE \E c \in EdgeCalls : AddEdge(c[1], c[2])
    BY <2>2, AddEdgeInv, BuilderAssumption
  <2>3. CASE \E n \in PointCalls : SetEntryPoint(n) \/ SetFinishPoint(n)
    <3>1. PICK n \in PointCalls : SetEntryPoint(n) \/ SetFinishPoint(n)
      BY <2>3
    <3>2. n \in Names /\ START \in Names /\ END \in Names
      BY BuilderAssumption
    <3>3. <<START>> \in Seq(Names) /\ <<n>> \in Seq(Names)
      BY <3>2
    <3>4. AddEdge(<<START>>, n) \/ AddEdge(<<n>>, END)
      BY <3>1 DEF SetEntryPoint, SetFinishPoint
    <3>5. CASE AddEdge(<<START>>, n)
      BY <3>2, <3>3, <3>5, AddEdgeInv
    <3>6. CASE AddEdge(<<n>>, END)
      BY <3>2, <3>3, <3>6, AddEdgeInv
    <3> QED
      BY <3>4, <3>5, <3>6
  <2>4. CASE \E b \in BranchCalls :
               AddConditionalEdges(b) \/ SetConditionalEntryPoint(b.name, b.ends)
    <3>1. PICK b \in BranchCalls :
            AddConditionalEdges(b) \/ SetConditionalEntryPoint(b.name, b.ends)
      BY <2>4
    <3>2. /\ b \in [start : Names, name : STRING, ends : EndMaps]
          /\ [start |-> START, name |-> b.name, ends |-> b.ends]
               \in [start : Names, name : STRING, ends : EndMaps]
      BY BuilderAssumption
    <3> QED
      BY <3>1, <3>2, AddConditionalEdgesInv DEF SetConditionalEntryPoint
  <2>5. CASE \E s \in SequenceCalls : AddSequence(s)
    BY <2>5, AddSequenceInv
  <2>6. CASE Compile
    BY <2>6, CompileInv
  <2>7. CASE Finished \/ UNCHANGED vars
    BY <2>7, StutterInv DEF Finished
  <2> QED
    BY <2>1, <2>2, <2>3, <2>4, <2>5, <2>6, <2>7 DEF Next
<1> QED
  BY <1>1, <1>2, PTL DEF Spec

-----------------------------------------------------------------------------
(* What is stored is well-formed, whatever calls were made, refused or     *)
(* half done (state.rs:110-251).                                           *)
THEOREM BuilderTypeCorrect == Spec => []GTypeOK
<1>1. BuilderInv => GTypeOK
  BY DEF BuilderInv
<1> QED
  BY <1>1, BuilderInvariant, PTL

(* compile refuses a graph only for a missing entry point or an unknown    *)
(* branch end: validate's other checks, and all of Pregel::validate's, can *)
(* not fail (state.rs:304-367, pregel.rs:64).                              *)
THEOREM RefusalsAreTwo == Spec => []CompileRefusals
<1>1. BuilderInv => CompileRefusals
  BY DEF BuilderInv
<1> QED
  BY <1>1, BuilderInvariant, PTL

(* No signal of a compiled graph goes nowhere (compiled.rs:59-155). *)
THEOREM SignalsAlwaysArrive == Spec => []SignalsArrive
<1>1. BuilderInv => SignalsArrive
  <2> SUFFICES ASSUME BuilderInv, stage = "compiled", NEW n \in nodes \cup {START},
                      NEW c \in program.signals[n]
                                \cup (UNION {Routed(r) : r \in program.routes[n]})
               PROVE  \E m \in nodes : c \in program.triggers[m]
    BY DEF SignalsArrive
  <2>1. PICK members : MembersOfSome(members) /\ program = Compiled(members)
    BY DEF BuilderInv, FromValidGraph
  <2>2. BranchTargets \subseteq nodes \cup {END}
    BY DEF BuilderInv, FromValidGraph
  <2>3. program.signals[n] = {BranchTrigger(e[2]) : e \in {d \in PlainEdges : d[1] = n}}
    BY <2>1 DEF Compiled
  <2>4. program.routes[n] = {[name |-> b.name, to |-> Routing(b)] :
                               b \in {d \in branches : d.start = n}}
    BY <2>1 DEF Compiled
  <2>5. \A m \in nodes : BranchTrigger(m) \in program.triggers[m]
    <3>1. START \notin nodes
      BY DEF BuilderInv, GTypeOK
    <3> QED
      BY <2>1, <3>1 DEF Compiled
  <2>6. CASE c \in program.signals[n]
    <3>1. PICK e \in PlainEdges : c = BranchTrigger(e[2])
      BY <2>3, <2>6
    <3>2. e[2] \in nodes
      BY DEF PlainEdges, BuilderInv, GTypeOK
    <3> QED
      BY <2>5, <3>1, <3>2
  <2>7. CASE c \in UNION {Routed(r) : r \in program.routes[n]}
    <3>1. PICK r \in program.routes[n] : c \in Routed(r)
      BY <2>7
    <3>2. PICK b \in branches : r = [name |-> b.name, to |-> Routing(b)]
      BY <2>4
    <3>3. PICK k \in DOMAIN b.ends : c \in {BranchTrigger(t) : t \in {b.ends[k]} \ {END}}
      BY <3>1, <3>2 DEF Routed, Routing
    <3>4. b.ends[k] \in nodes /\ c = BranchTrigger(b.ends[k])
      BY <2>2, <3>3 DEF BranchTargets, EndsOf
    <3> QED
      BY <2>5, <3>4
  <2> QED
    BY <2>6, <2>7
<1> QED
  BY <1>1, BuilderInvariant, PTL

(* Two waiting edges never have the same channel, and no join channel has  *)
(* the name of another sort of channel. It holds of names without '+': the *)
(* builder refuses ':' and '|', but not '+'.                               *)
DistinctJoins ==
  /\ \A v, w \in [starts : SUBSET Names, end : Names] :
       JoinTrigger(v) = JoinTrigger(w) => v = w
  /\ \A w \in [starts : SUBSET Names, end : Names] :
       JoinTrigger(w) # START /\ \A n \in Names : JoinTrigger(w) # BranchTrigger(n)

(* If join channels have different names, every waiting edge is compiled   *)
(* to a barrier of its own, whatever calls have built the graph            *)
(* (compiled.rs:86-133).                                                   *)
THEOREM JoinsCompiledIfDistinct ==
  ASSUME DistinctJoins
  PROVE  Spec => []JoinCompiled
<1>1. BuilderInv => JoinCompiled
  <2> SUFFICES ASSUME BuilderInv, stage = "compiled", NEW w \in Joins
               PROVE  LET c == JoinTrigger(w)
                      IN  /\ program.members[c] = w.starts
                          /\ \A n \in nodes \cup {START} :
                               /\ (c \in program.triggers[n]) <=> (n = w.end)
                               /\ (\E a \in program.arrivals[n] : a[1] = c) <=> (n \in w.starts)
                               /\ \A a \in program.arrivals[n] : a[1] = c => a[2] = n
    BY DEF JoinCompiled
  <2> DEFINE c == JoinTrigger(w)
  <2>1. PICK members : MembersOfSome(members) /\ program = Compiled(members)
    BY DEF BuilderInv, FromValidGraph
  <2>2. /\ \A v \in Joins : /\ v \in [starts : SUBSET Names, end : Names]
                            /\ v.starts \subseteq nodes /\ v.end \in nodes
        /\ nodes \subseteq Names /\ START \notin nodes
    BY BuilderAssumption DEF Joins, BuilderInv, GTypeOK
  <2>3. \A v \in Joins : JoinTrigger(v) = c => v = w
    BY <2>2 DEF DistinctJoins
  <2>4. c # START /\ \A n \in nodes : c # BranchTrigger(n)
    BY <2>2 DEF DistinctJoins
  <2>5. program.members[c] = w.starts
    <3>1. PICK v \in Joins : JoinTrigger(v) = c /\ members[c] = v.starts
      BY <2>1 DEF MembersOfSome
    <3> QED
      BY <2>1, <2>3, <3>1 DEF Compiled
  <2>6. ASSUME NEW n \in nodes \cup {START}
        PROVE  (c \in program.triggers[n]) <=> (n = w.end)
    <3>1. program.triggers[n] =
            IF n = START THEN {START}
            ELSE {BranchTrigger(n)} \cup {JoinTrigger(v) : v \in {u \in Joins : u.end = n}}
      BY <2>1 DEF Compiled
    <3>2. (c \in {JoinTrigger(v) : v \in {u \in Joins : u.end = n}}) <=> (n = w.end)
      BY <2>3
    <3> QED
      BY <2>2, <2>4, <3>1, <3>2
  <2>7. ASSUME NEW n \in nodes \cup {START}
        PROVE  program.arrivals[n] =
                 {<<JoinTrigger(v), n>> : v \in {u \in Joins : n \in u.starts}}
    BY <2>1 DEF Compiled
  <2>8. ASSUME NEW n \in nodes \cup {START}
        PROVE  /\ (\E a \in program.arrivals[n] : a[1] = c) <=> (n \in w.starts)
               /\ \A a \in program.arrivals[n] : a[1] = c => a[2] = n
    <3>1. \A a \in program.arrivals[n] :
            \E v \in Joins : a = <<JoinTrigger(v), n>> /\ n \in v.starts
      BY <2>7
    <3>2. n \in w.starts => <<c, n>> \in program.arrivals[n]
      BY <2>7
    <3>3. <<c, n>>[1] = c
      OBVIOUS
    <3> HIDE DEF c
    <3>4. ASSUME NEW a \in program.arrivals[n], a[1] = c
          PROVE  a[2] = n /\ n \in w.starts
      <4>1. PICK v \in Joins : a = <<JoinTrigger(v), n>> /\ n \in v.starts
        BY <3>1
      <4>2. JoinTrigger(v) = c /\ a[2] = n
        BY <3>4, <4>1
      <4> QED
        BY <2>3, <4>1, <4>2
    <3> QED
      BY <3>2, <3>3, <3>4
  <2> QED
    BY <2>5, <2>6, <2>8
<1> QED
  BY <1>1, BuilderInvariant, PTL

=============================================================================
