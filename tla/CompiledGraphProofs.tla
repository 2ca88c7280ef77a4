------------------------ MODULE CompiledGraphProofs ------------------------
(***************************************************************************)
(* Every graph that compile accepts is one that the modules about runs are *)
(* about: what those modules assume of the constants they take, the        *)
(* builder's checks and the compiler guarantee, for every set of names and *)
(* every set of calls.                                                     *)
(***************************************************************************)
EXTENDS CompiledGraph, GraphBuilderProofs, FiniteSetTheorems

-----------------------------------------------------------------------------
(* The nodes are added one call at a time: there are finitely many.        *)

(* A sequence has finitely many elements. *)
LEMMA FiniteRange ==
  ASSUME NEW s, NEW k \in Nat
  PROVE  IsFiniteSet({s[i] : i \in 1..k})
<1> DEFINE T == {s[i] : i \in 1..k}
           f == [i \in 1..k |-> s[i]]
<1>1. IsFiniteSet(1..k)
  BY FS_Interval
<1>2. f \in Surjection(1..k, T)
  BY DEF Surjection
<1> QED
  BY <1>1, <1>2, FS_Surjection

LEMMA FiniteNodes == Spec => []IsFiniteSet(nodes)
<1>1. Init => IsFiniteSet(nodes)
  BY FS_EmptySet DEF Init
<1>2. IsFiniteSet(nodes) /\ [Next]_vars => IsFiniteSet(nodes)'
  <2> SUFFICES ASSUME IsFiniteSet(nodes), [Next]_vars
               PROVE  IsFiniteSet(nodes')
    OBVIOUS
  <2>1. ASSUME NEW n \in Names, AddNode(n)
        PROVE  IsFiniteSet(nodes')
    BY <2>1, FS_AddElement DEF AddNode
  <2>2. ASSUME NEW s \in SequenceCalls, AddSequence(s)
        PROVE  IsFiniteSet(nodes')
    <3>1. s \in Seq(Names)
      BY BuilderAssumption
    <3>2. PICK k \in 0..Len(s) : nodes' = nodes \cup {s[i] : i \in 1..k}
      BY <2>2 DEF AddSequence
    <3>3. k \in Nat
      BY <3>1
    <3>4. IsFiniteSet({s[i] : i \in 1..k})
      BY <3>3, FiniteRange
    <3> HIDE DEF IsFiniteSet
    <3> QED
      BY <3>2, <3>4, FS_Union
  <2>3. CASE nodes' = nodes
    BY <2>3
  <2> QED
    <3>1. CASE \E c \in EdgeCalls : AddEdge(c[1], c[2])
      BY <2>3, <3>1 DEF AddEdge
    <3>2. CASE \E n \in PointCalls : SetEntryPoint(n) \/ SetFinishPoint(n)
      BY <2>3, <3>2 DEF SetEntryPoint, SetFinishPoint, AddEdge
    <3>3. CASE \E b \in BranchCalls :
                 AddConditionalEdges(b) \/ SetConditionalEntryPoint(b.name, b.ends)
      BY <2>3, <3>3 DEF SetConditionalEntryPoint, AddConditionalEdges
    <3>4. CASE Compile \/ Finished \/ UNCHANGED vars
      BY <2>3, <3>4 DEF Compile, Finished, vars, graph
    <3> QED
      BY <2>1, <2>2, <3>1, <3>2, <3>3, <3>4 DEF Next
<1> QED
  BY <1>1, <1>2, PTL DEF Spec

-----------------------------------------------------------------------------
(* What the program of a compiled graph looks like.                        *)

TriggerChannels == {BranchTrigger(m) : m \in nodes}
JoinChannels == {JoinTrigger(w) : w \in Joins}

(* The nodes of a compiled program and its channels; its barriers wait for *)
(* nodes, and the node a waiting edge ends in subscribes (compiled.rs:86). *)
LEMMA CompiledNodes ==
  ASSUME BuilderInv, stage = "compiled"
  PROVE  /\ RunNodes = nodes \cup {START}
         /\ START \notin nodes /\ nodes \subseteq NodeNames
         /\ program.channels = StateChannels \cup {START} \cup TriggerChannels \cup JoinChannels
         /\ \A c : IsJoin(c) <=> c \in JoinChannels
         /\ \A c \in JoinChannels :
              /\ c \in JoinNames
              /\ program.members[c] \subseteq nodes /\ program.members[c] # {}
              /\ \E n \in nodes : c \in program.triggers[n]
         /\ program.triggers \in [RunNodes -> SUBSET program.channels]
         /\ START \in program.triggers[START]
         /\ \A n \in RunNodes :
              program.triggers[n] \subseteq {START} \cup TriggerChannels \cup JoinChannels
         /\ program.reads \in [RunNodes -> SUBSET program.channels]
         /\ program.output = IF StateChannels = {} THEN {START} ELSE StateChannels
<1>1. PICK members : /\ MembersOfSome(members) /\ program = Compiled(members)
                     /\ DOMAIN members = JoinChannels
  BY DEF BuilderInv, FromValidGraph, JoinChannels
<1>2. /\ START \notin nodes /\ nodes \subseteq NodeNames
      /\ waitingEdges \subseteq [starts : (SUBSET nodes) \ {{}}, end : nodes \cup {END}]
  BY DEF BuilderInv, GTypeOK, NodeNames
<1>3. /\ program.channels = StateChannels \cup {START} \cup TriggerChannels \cup JoinChannels
      /\ program.members = members
      /\ program.output = IF StateChannels = {} THEN {START} ELSE StateChannels
  BY <1>1 DEF Compiled, TriggerChannels
<1>4. program.triggers =
        [n \in nodes \cup {START} |->
           IF n = START THEN {START}
           ELSE {BranchTrigger(n)} \cup {JoinTrigger(w) : w \in {v \in Joins : v.end = n}}]
  BY <1>1 DEF Compiled
<1>5. program.reads =
        [n \in nodes \cup {START} |-> IF n = START THEN {START} ELSE StateChannels]
  BY <1>1 DEF Compiled
<1>6. RunNodes = nodes \cup {START}
  BY <1>4 DEF RunNodes
<1>7. \A c : IsJoin(c) <=> c \in JoinChannels
  BY <1>1, <1>3 DEF IsJoin
<1>8. \A w \in Joins : /\ w.starts \subseteq nodes /\ w.starts # {} /\ w.end \in nodes
                       /\ Cardinality(w.starts) > 1
                       /\ w = [starts |-> w.starts, end |-> w.end]
  BY <1>2 DEF Joins
<1>9. ASSUME NEW c \in JoinChannels
      PROVE  /\ c \in JoinNames
             /\ program.members[c] \subseteq nodes /\ program.members[c] # {}
             /\ \E n \in nodes : c \in program.triggers[n]
  <2>1. PICK w \in Joins : c = JoinTrigger(w)
    BY DEF JoinChannels
  <2>2. PICK v \in Joins : members[c] = v.starts
    BY <1>1 DEF MembersOfSome, JoinChannels
  <2>3. w \in [starts : {S \in SUBSET NodeNames : Cardinality(S) > 1}, end : NodeNames]
    <3>1. w.starts \in {S \in SUBSET NodeNames : Cardinality(S) > 1} /\ w.end \in NodeNames
      BY <1>2, <1>8
    <3> QED
      BY <1>8, <3>1
  <2>4. c \in JoinNames
    BY <2>1, <2>3 DEF JoinNames
  <2>5. c \in program.triggers[w.end] /\ w.end \in nodes
    BY <1>2, <1>4, <1>8, <2>1
  <2> QED
    BY <1>3, <1>8, <2>2, <2>4, <2>5
<1>10. \A n \in RunNodes :
         program.triggers[n] \subseteq {START} \cup TriggerChannels \cup JoinChannels
  BY <1>4, <1>6 DEF TriggerChannels, JoinChannels
<1>11. program.triggers \in [RunNodes -> SUBSET program.channels]
  <2>1. program.triggers = [n \in RunNodes |-> program.triggers[n]]
    BY <1>4, <1>6
  <2> QED
    BY <1>3, <1>10, <2>1
<1>12. program.reads \in [RunNodes -> SUBSET program.channels]
  BY <1>3, <1>5, <1>6
<1>13. START \in program.triggers[START]
  BY <1>4
<1> QED
  BY <1>2, <1>3, <1>6, <1>7, <1>9, <1>10, <1>11, <1>12, <1>13

(* Every signal and every route goes to the trigger channel of a node, and *)
(* every token is the name of its own node (compiled.rs:96-155).           *)
LEMMA CompiledWriters ==
  ASSUME BuilderInv, stage = "compiled", NEW n \in RunNodes
  PROVE  /\ program.signals[n] \subseteq TriggerChannels
         /\ \A a \in program.arrivals[n] :
              n \in nodes /\ \E c \in JoinChannels : a = <<c, n>>
         /\ \A r \in program.routes[n] : \A k \in DOMAIN r.to : r.to[k] \subseteq TriggerChannels
<1>1. PICK members : MembersOfSome(members) /\ program = Compiled(members)
  BY DEF BuilderInv, FromValidGraph
<1>2. n \in nodes \cup {START}
  BY CompiledNodes
<1>3. START \notin nodes /\ BranchTargets \subseteq nodes \cup {END}
  BY DEF BuilderInv, GTypeOK, FromValidGraph
<1>4. program.signals[n] \subseteq TriggerChannels
  <2>1. program.signals[n] = {BranchTrigger(e[2]) : e \in {d \in PlainEdges : d[1] = n}}
    BY <1>1, <1>2 DEF Compiled
  <2>2. \A e \in PlainEdges : e[2] \in nodes
    BY DEF PlainEdges, BuilderInv, GTypeOK
  <2> QED
    BY <2>1, <2>2 DEF TriggerChannels
<1>5. ASSUME NEW a \in program.arrivals[n]
      PROVE  n \in nodes /\ \E c \in JoinChannels : a = <<c, n>>
  <2>1. program.arrivals[n] = {<<JoinTrigger(w), n>> : w \in {v \in Joins : n \in v.starts}}
    BY <1>1, <1>2 DEF Compiled
  <2>2. PICK w \in Joins : a = <<JoinTrigger(w), n>> /\ n \in w.starts
    BY <2>1
  <2>3. w.starts \subseteq nodes
    BY DEF Joins, BuilderInv, GTypeOK
  <2> QED
    BY <2>2, <2>3 DEF JoinChannels
<1>6. ASSUME NEW r \in program.routes[n], NEW k \in DOMAIN r.to
      PROVE  r.to[k] \subseteq TriggerChannels
  <2>1. program.routes[n] = {[name |-> b.name, to |-> Routing(b)] :
                               b \in {d \in branches : d.start = n}}
    BY <1>1, <1>2 DEF Compiled
  <2>2. PICK b \in branches : r = [name |-> b.name, to |-> Routing(b)]
    BY <2>1
  <2>3. k \in DOMAIN b.ends /\ r.to[k] = {BranchTrigger(t) : t \in {b.ends[k]} \ {END}}
    BY <2>2 DEF Routing
  <2>4. b.ends[k] \in nodes \cup {END}
    BY <1>3, <2>3 DEF BranchTargets, EndsOf
  <2> QED
    BY <2>3, <2>4 DEF TriggerChannels
<1> QED
  BY <1>4, <1>5, <1>6

(* The four sorts of channels are apart, and every channel has a name that *)
(* CompiledAssumption speaks of.                                           *)
LEMMA ChannelsApart ==
  ASSUME BuilderInv, stage = "compiled"
  PROVE  /\ StateChannels \cap (TriggerChannels \cup JoinChannels) = {}
         /\ START \notin StateChannels \cup TriggerChannels \cup JoinChannels
         /\ TriggerChannels \cap JoinChannels = {}
         /\ RunNodes \cup program.channels \subseteq NodeNames \cup ChannelNames
<1>1. TriggerChannels \subseteq SignalNames
  BY CompiledNodes DEF TriggerChannels, SignalNames
<1>2. JoinChannels \subseteq JoinNames
  BY CompiledNodes
<1> QED
  BY <1>1, <1>2, CompiledNodes, CompiledAssumption, BuilderAssumption DEF ChannelNames

-----------------------------------------------------------------------------
(* What the writers of a compiled graph assemble.                          *)

LEMMA AsFunctionOf ==
  ASSUME NEW pairs
  PROVE  LET w == Writer!AsFunction(pairs)
         IN  /\ w = [c \in DOMAIN w |-> w[c]]
             /\ DOMAIN w = {p[1] : p \in pairs}
             /\ \A c \in DOMAIN w : \E p \in pairs : p[1] = c /\ w[c] = p[2]
<1> DEFINE w == Writer!AsFunction(pairs)
<1>1. w = [c \in {p[1] : p \in pairs} |-> (CHOOSE p \in pairs : p[1] = c)[2]]
  BY DEF Writer!AsFunction
<1> HIDE DEF w
<1>2. DOMAIN w = {p[1] : p \in pairs} /\ w = [c \in DOMAIN w |-> w[c]]
  BY <1>1
<1>3. ASSUME NEW c \in DOMAIN w
      PROVE  \E p \in pairs : p[1] = c /\ w[c] = p[2]
  <2>1. w[c] = (CHOOSE p \in pairs : p[1] = c)[2]
    BY <1>1, <1>2
  <2>2. \E p \in pairs : p[1] = c
    BY <1>2
  <2>3. (CHOOSE p \in pairs : p[1] = c) \in pairs /\ (CHOOSE p \in pairs : p[1] = c)[1] = c
    BY <2>2
  <2> QED
    BY <2>1, <2>3
<1> QED
  BY <1>2, <1>3 DEF w

(* Whatever a task of n may assemble, it is a function from channels of    *)
(* the graph to values, and a barrier is written the name n.               *)
LEMMA OutputsTyped ==
  ASSUME BuilderInv, stage = "compiled", NEW n \in RunNodes, NEW w \in RunOutputs[n]
  PROVE  /\ DOMAIN w \subseteq program.channels
         /\ w \in [DOMAIN w -> Values]
         /\ \A c \in DOMAIN w : IsJoin(c) => w[c] = n
<1>1. PICK o \in RunOutcomes[n] : o.is \in {"object", "none"} /\ w \in Writer!MayAssemble(n, o)
  BY DEF RunOutputs
<1>2. PICK S \in SUBSET (UNION {UNION {r.to[k] : k \in DOMAIN r.to} : r \in program.routes[n]}) :
        w = Writer!AsFunction(Writer!StateWrites(o) \cup Writer!TriggerWrites(n)
                                \cup {<<c, Null>> : c \in S})
  BY <1>1 DEF Writer!MayAssemble
<1>3. S \subseteq TriggerChannels
  BY CompiledWriters
<1> DEFINE pairs == Writer!StateWrites(o) \cup Writer!TriggerWrites(n) \cup {<<c, Null>> : c \in S}
<1>4. ASSUME NEW p \in Writer!StateWrites(o)
      PROVE  p[1] \in StateChannels /\ p[2] \in Values
  <2>1. PICK c \in DOMAIN o.fields \cap StateChannels :
          o.is = "object" /\ p = <<c, o.fields[c]>>
    BY DEF Writer!StateWrites
  <2>2. n # START /\ o \in Outcomes[n]
    BY <2>1 DEF RunOutcomes
  <2>3. n \in NodeNames
    BY <2>2, CompiledNodes
  <2>4. o.fields[c] \in Values
    BY <2>1, <2>2, <2>3, CompiledAssumption
  <2> QED
    BY <2>1, <2>4
<1>5. ASSUME NEW p \in Writer!TriggerWrites(n) \cup {<<c, Null>> : c \in S}
      PROVE  \/ p[1] \in TriggerChannels /\ p[2] = Null
             \/ p[1] \in JoinChannels /\ p[2] = n /\ n \in nodes
  <2>1. CASE p \in program.arrivals[n]
    <3>1. PICK c \in JoinChannels : p = <<c, n>> /\ n \in nodes
      BY <2>1, CompiledWriters
    <3> QED
      BY <3>1
  <2>2. CASE \E c \in program.signals[n] \cup S : p = <<c, Null>>
    BY <1>3, <2>2, CompiledWriters
  <2> QED
    BY <2>1, <2>2 DEF Writer!TriggerWrites
<1>6. \A p \in pairs : /\ p[1] \in StateChannels \cup TriggerChannels \cup JoinChannels
                       /\ p[2] \in Values
                       /\ p[1] \in JoinChannels => p[2] = n
  <2>1. Null \in Values /\ nodes \subseteq Values
    BY CompiledNodes, CompiledAssumption
  <2>2. \A p \in Writer!StateWrites(o) : p[1] \notin JoinChannels
    BY <1>4, ChannelsApart
  <2> QED
    BY <1>4, <1>5, <2>1, <2>2, ChannelsApart
<1> HIDE DEF pairs
<1>7. w = Writer!AsFunction(pairs)
  BY <1>2 DEF pairs
<1>8. /\ w = [c \in DOMAIN w |-> w[c]]
      /\ \A c \in DOMAIN w : \E p \in pairs : p[1] = c /\ w[c] = p[2]
  BY <1>7, AsFunctionOf
<1>9. \A c \in DOMAIN w : /\ c \in StateChannels \cup TriggerChannels \cup JoinChannels
                          /\ w[c] \in Values
                          /\ c \in JoinChannels => w[c] = n
  BY <1>6, <1>8
<1> QED
  BY <1>8, <1>9, CompiledNodes

(* map_input writes START only (loops.rs:206). *)
LEMMA InputsTyped ==
  ASSUME NEW w \in RunInputs
  PROVE  DOMAIN w \subseteq {START} /\ w \in [DOMAIN w -> Values]
<1>1. CASE \E v \in Values : w = [c \in {START} |-> v]
  BY <1>1
<1>2. CASE w = [c \in {} |-> c]
  BY <1>2
<1> QED
  BY <1>1, <1>2 DEF RunInputs

-----------------------------------------------------------------------------
(* The assumptions of the modules about runs, one by one.                  *)

LEMMA KindsOfChannels ==
  ASSUME BuilderInv, stage = "compiled"
  PROVE  /\ RunKinds \in [program.channels -> Run!ChannelKinds]
         /\ \A c \in program.channels :
              /\ RunKinds[c] = "barrier" <=> c \in JoinChannels
              /\ Run!IsBarrier(c) <=> c \in JoinChannels
              /\ c \in {START} \cup TriggerChannels => RunKinds[c] = "ephemeral"
              /\ c \in StateChannels => RunKinds[c] = StateKinds[c]
<1>1. ASSUME NEW c \in program.channels
      PROVE  RunKinds[c] = IF c \in JoinChannels THEN "barrier"
                           ELSE IF c \in StateChannels THEN StateKinds[c]
                           ELSE "ephemeral"
  BY CompiledNodes DEF RunKinds
<1>2. \A c \in StateChannels : StateKinds[c] \in {"last", "binop"}
  BY CompiledAssumption
<1>3. \A c \in program.channels : RunKinds[c] = "barrier" <=> c \in JoinChannels
  BY <1>1, <1>2
<1>4. \A c \in program.channels : Run!IsBarrier(c) <=> c \in JoinChannels
  BY <1>3 DEF Run!IsBarrier
<1>5. \A c \in program.channels : RunKinds[c] \in {"last", "binop", "ephemeral", "barrier"}
  BY <1>1, <1>2
<1>6. RunKinds \in [program.channels -> {"last", "binop", "ephemeral", "barrier"}]
  BY <1>5 DEF RunKinds
<1>7. \A c \in program.channels :
        /\ c \in {START} \cup TriggerChannels => RunKinds[c] = "ephemeral"
        /\ c \in StateChannels => RunKinds[c] = StateKinds[c]
  BY <1>1, ChannelsApart
<1> QED
  BY <1>3, <1>4, <1>6, <1>7 DEF Run!ChannelKinds

LEMMA CompiledChannels ==
  ASSUME BuilderInv, stage = "compiled"
  PROVE  Run!ChannelsFit
<1>1. \A c \in program.channels :
        /\ RunMembers[c] \in SUBSET Values
        /\ RunKinds[c] = "barrier" => RunMembers[c] # {}
  <2>1. nodes \subseteq Values
    BY CompiledNodes, CompiledAssumption
  <2> QED
    BY <2>1, CompiledNodes, KindsOfChannels DEF RunMembers
<1>2. RunMembers \in [program.channels -> SUBSET Values]
  BY <1>1 DEF RunMembers
<1> QED
  BY <1>1, <1>2, KindsOfChannels, CompiledAssumption DEF Run!ChannelsFit

LEMMA CompiledGraphFits ==
  ASSUME BuilderInv, stage = "compiled", IsFiniteSet(nodes)
  PROVE  Run!GraphFits
<1> DEFINE rank == [x \in RunNodes \cup program.channels |-> Place[x]]
<1>1. Run!IsFiniteSet(RunNodes)
  <2>1. IsFiniteSet(nodes \cup {START})
    BY FS_AddElement
  <2> QED
    BY <2>1, CompiledNodes DEF Run!IsFiniteSet, IsFiniteSet
<1>2. program.triggers \in [RunNodes -> SUBSET program.channels]
  BY CompiledNodes
<1>3. \A n \in RunNodes : \A w \in RunOutputs[n] : Run!IsWrites(w)
  BY OutputsTyped DEF Run!IsWrites
<1>4. \A w \in RunInputs :
        Run!IsWrites(w) /\ \A c \in DOMAIN w : RunKinds[c] = "ephemeral"
  BY InputsTyped, CompiledNodes, KindsOfChannels DEF Run!IsWrites
<1>5. /\ rank \in [RunNodes \cup program.channels -> Nat]
      /\ \A x, y \in RunNodes \cup program.channels : rank[x] = rank[y] => x = y
  <2>1. RunNodes \cup program.channels \subseteq NodeNames \cup ChannelNames
    BY ChannelsApart
  <2> QED
    BY <2>1, CompiledAssumption
<1> HIDE DEF rank
<1>6. \A c \in program.channels : Run!IsBarrier(c) => \E n \in RunNodes : c \in program.triggers[n]
  BY CompiledNodes, KindsOfChannels
<1>7. RecursionLimit \in Nat \ {0}
  BY CompiledAssumption
<1> QED
  BY <1>1, <1>2, <1>3, <1>4, <1>5, <1>6, <1>7 DEF Run!GraphFits, rank

LEMMA CompiledInput ==
  ASSUME BuilderInv, stage = "compiled"
  PROVE  Run!InputFits
<1>1. START \in program.channels /\ START \in RunNodes /\ START \in program.triggers[START]
  BY CompiledNodes
<1>2. \A w \in RunInputs : DOMAIN w \subseteq {START}
  BY InputsTyped
<1> QED
  BY <1>1, <1>2 DEF Run!InputFits

LEMMA CompiledTokens ==
  ASSUME BuilderInv, stage = "compiled"
  PROVE  Run!TokensFit
<1>1. ASSUME NEW n \in RunNodes, NEW w \in RunOutputs[n], NEW c \in DOMAIN w, Run!IsBarrier(c)
      PROVE  w[c] = n
  <2>1. c \in program.channels
    BY OutputsTyped
  <2>2. IsJoin(c)
    BY <1>1, <2>1, KindsOfChannels, CompiledNodes
  <2> QED
    BY <2>2, OutputsTyped
<1>2. ASSUME NEW c \in program.channels, Run!IsBarrier(c)
      PROVE  RunMembers[c] \subseteq RunNodes
  BY <1>2, KindsOfChannels, CompiledNodes DEF RunMembers
<1>3. ASSUME NEW n \in RunNodes, NEW c \in program.triggers[n]
      PROVE  RunKinds[c] \in {"ephemeral", "barrier"}
  <2>1. c \in program.channels /\ c \in {START} \cup TriggerChannels \cup JoinChannels
    BY CompiledNodes
  <2> QED
    BY <2>1, KindsOfChannels
<1> QED
  BY <1>1, <1>2, <1>3 DEF Run!TokensFit

(* The writers are those of module ChannelWriter on both sides. *)
LEMMA SameWriters ==
  ASSUME NEW n, NEW o
  PROVE  Run!MayAssemble(n, o) = Writer!MayAssemble(n, o)
<1>1. Run!StateWrites(o) = Writer!StateWrites(o)
  BY Zenon DEF Run!StateWrites, Writer!StateWrites
<1>2. Run!TriggerWrites(n) = Writer!TriggerWrites(n)
  BY Zenon DEF Run!TriggerWrites, Writer!TriggerWrites
<1>3. \A pairs : Run!AsFunction(pairs) = Writer!AsFunction(pairs)
  BY Zenon DEF Run!AsFunction, Writer!AsFunction
<1> QED
  BY <1>1, <1>2, <1>3, Zenon DEF Run!MayAssemble, Writer!MayAssemble

LEMMA CompiledWritersFit ==
  ASSUME BuilderInv, stage = "compiled"
  PROVE  Run!WritersFit
<1>1. StateChannels \subseteq program.channels
  BY CompiledNodes
<1>2. program.reads \in [RunNodes -> SUBSET program.channels]
  BY CompiledNodes
<1>3. ASSUME NEW n \in RunNodes, NEW a \in program.arrivals[n]
      PROVE  Run!IsBarrier(a[1])
  <2>1. PICK c \in JoinChannels : a = <<c, n>>
    BY CompiledWriters
  <2>2. a[1] \in JoinChannels /\ a[1] \in program.channels
    BY <2>1, CompiledNodes
  <2> QED
    BY <2>2, KindsOfChannels
<1>4. ASSUME NEW n \in RunNodes, NEW o \in RunOutcomes[n]
      PROVE  /\ o.is \in Run!OutcomeKinds
             /\ o.is \in {"object", "none"} => Run!MayAssemble(n, o) \subseteq RunOutputs[n]
             /\ o.is \in {"other", "command", "error"} => n \in RunFaulty
             /\ o.is = "panic" => n \in MayEndAs({"panic"})
  <2>1. o.is \in {"object", "none", "other", "command", "error", "panic"}
    <3>1. CASE n = START
      BY <3>1 DEF RunOutcomes
    <3>2. CASE n # START
      <4>1. n \in NodeNames /\ o \in Outcomes[n]
        BY <3>2, CompiledNodes DEF RunOutcomes
      <4> QED
        BY <4>1, CompiledAssumption
    <3> QED
      BY <3>1, <3>2
  <2>2. o.is \in {"object", "none"} => Writer!MayAssemble(n, o) \subseteq RunOutputs[n]
    BY DEF RunOutputs
  <2>3. \A kinds : o.is \in kinds => n \in MayEndAs(kinds)
    BY DEF MayEndAs
  <2> QED
    BY <2>1, <2>2, <2>3, SameWriters DEF Run!OutcomeKinds, RunFaulty
<1>5. \A n \in RunNodes : program.routes[n] # {} => n \in RunFaulty
  BY DEF RunFaulty
<1> QED
  BY <1>1, <1>2, <1>3, <1>4, <1>5 DEF Run!WritersFit

(* The channels a run streams and returns are those of the state, or START *)
(* (compiled.rs:34-57).                                                    *)
LEMMA CompiledOutput ==
  ASSUME BuilderInv, stage = "compiled"
  PROVE  /\ program.output \subseteq program.channels /\ IsFiniteSet(program.output)
         /\ StateChannels # {} => \A c \in program.output : RunKinds[c] \in {"last", "binop"}
<1>1. program.output = IF StateChannels = {} THEN {START} ELSE StateChannels
  BY CompiledNodes
<1>2. IsFiniteSet(program.output)
  <2>1. IsFiniteSet({START})
    BY FS_Singleton
  <2>2. IsFiniteSet(StateChannels)
    BY CompiledAssumption
  <2> QED
    BY <1>1, <2>1, <2>2
<1>3. StateChannels # {} => \A c \in program.output : RunKinds[c] \in {"last", "binop"}
  BY <1>1, CompiledNodes, KindsOfChannels, CompiledAssumption
<1> QED
  BY <1>1, <1>2, <1>3, CompiledNodes

-----------------------------------------------------------------------------
(* Every program that compile makes of a graph is one that the modules     *)
(* about runs are about, whatever calls have built the graph               *)
(* (compiled.rs:24-155, pregel.rs:64).                                     *)
THEOREM CompiledIsRun == Spec => []CompiledRuns
<1>1. BuilderInv /\ IsFiniteSet(nodes) => CompiledRuns
  BY CompiledChannels, CompiledGraphFits, CompiledInput, CompiledTokens,
     CompiledWritersFit, CompiledOutput DEF CompiledRuns
<1> QED
  BY <1>1, BuilderInvariant, FiniteNodes, PTL

=============================================================================
