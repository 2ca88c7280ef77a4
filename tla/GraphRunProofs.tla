--------------------------- MODULE GraphRunProofs ---------------------------
(***************************************************************************)
(* Theorems about GraphRun: a run whose writes are what the writers make   *)
(* of the node functions and branches is one of the streamed runs that     *)
(* StreamRun allows, and its routing follows the state.                    *)
(***************************************************************************)
EXTENDS GraphRun, StreamRunProofs

USE DEF ChannelsFit, GraphFits, InputFits, WritersFit

-----------------------------------------------------------------------------
(* The writers.                                                            *)

(* The trigger channels the branches of n choose on a state. *)
Chosen(n, st) ==
  UNION {r.to[Path(n, r.name, st)] : r \in Routes[n] \ (Silent(n, st) \cup Lost(n, st))}

LEMMA BranchWritesSignals ==
  ASSUME NEW n, NEW st, NEW o
  PROVE  /\ BranchWrites(n, st, o) = {<<c, Null>> : c \in Chosen(n, st)}
         /\ Chosen(n, st) \subseteq
              UNION {UNION {r.to[k] : k \in DOMAIN r.to} : r \in Routes[n]}
<1>1. BranchWrites(n, st, o) = {<<c, Null>> : c \in Chosen(n, st)}
  BY DEF BranchWrites, Chosen
<1>2. \A r \in Routes[n] \ (Silent(n, st) \cup Lost(n, st)) :
        Path(n, r.name, st) \in DOMAIN r.to
  BY DEF Lost
<1>3. QED
  BY <1>1, <1>2 DEF Chosen

LEMMA AsFunctionDomain ==
  ASSUME NEW pairs
  PROVE  DOMAIN AsFunction(pairs) = {w[1] : w \in pairs}
BY DEF AsFunction

(* Whatever a task assembles is among the writes PregelLoop allows it.     *)
LEMMA AssembledAllowed ==
  ASSUME NEW n \in Nodes, NEW st, NEW o \in NodeOutcomes[n], Assembles(n, st, o)
  PROVE  Assembled(n, st, o) \in Outputs[n]
<1>1. o.is \in {"object", "none"}
  BY DEF Assembles
<1>2. MayAssemble(n, o) \subseteq Outputs[n]
  BY <1>1, GraphRunAssumption
<1>3. Assembled(n, st, o) =
        AsFunction(StateWrites(o) \cup TriggerWrites(n)
                     \cup {<<c, Null>> : c \in Chosen(n, st)})
  BY BranchWritesSignals DEF Assembled
<1>4. Chosen(n, st) \in
        SUBSET (UNION {UNION {r.to[k] : k \in DOMAIN r.to} : r \in Routes[n]})
  BY BranchWritesSignals
<1>5. Assembled(n, st, o) \in MayAssemble(n, o)
  BY <1>3, <1>4 DEF MayAssemble
<1>6. QED
  BY <1>2, <1>5

(* A channel that is neither of the state nor a barrier is written exactly *)
(* if an edge or a chosen branch end signals it.                           *)
LEMMA SignalsWritten ==
  ASSUME NEW n \in Nodes, NEW st, NEW o, Assembles(n, st, o),
         NEW c \in Channels \ StateChannels, ~IsBarrier(c)
  PROVE  c \in DOMAIN Assembled(n, st, o) <=> c \in Signals[n] \/ c \in Chosen(n, st)
<1> DEFINE sw == StateWrites(o)
           tw == TriggerWrites(n)
           bw == BranchWrites(n, st, o)
<1>1. \A w \in sw : w[1] # c
  BY DEF StateWrites
<1>2. (\E w \in tw : w[1] = c) <=> c \in Signals[n]
  <2>1. ASSUME NEW w \in Arrivals[n], w[1] = c
        PROVE  FALSE
    <3>1. IsBarrier(w[1])
      BY GraphRunAssumption
    <3>2. QED
      BY <2>1, <3>1 DEF IsBarrier
  <2>2. \A d \in Signals[n] : <<d, Null>>[1] = d
    OBVIOUS
  <2>3. \A w : w \in tw <=> w \in Arrivals[n] \/ \E d \in Signals[n] : w = <<d, Null>>
    BY DEF TriggerWrites
  <2> HIDE DEF tw
  <2>4. QED
    BY <2>1, <2>2, <2>3
<1>3. (\E w \in bw : w[1] = c) <=> c \in Chosen(n, st)
  <2>1. bw = {<<d, Null>> : d \in Chosen(n, st)}
    BY BranchWritesSignals
  <2>2. \A d : <<d, Null>>[1] = d
    OBVIOUS
  <2>3. \A w : w \in bw <=> \E d \in Chosen(n, st) : w = <<d, Null>>
    BY <2>1
  <2> HIDE DEF bw
  <2>4. QED
    BY <2>2, <2>3
<1>4. DOMAIN Assembled(n, st, o) = {w[1] : w \in sw \cup tw \cup bw}
  BY AsFunctionDomain DEF Assembled
<1> HIDE DEF sw, tw, bw
<1>5. QED
  BY <1>1, <1>2, <1>3, <1>4

-----------------------------------------------------------------------------
(* Refinement.                                                             *)

LEMMA NodeStep ==
  ASSUME NEW n \in Nodes, GNode(n)
  PROVE  SNode(n)
<1>1. CASE GReturn(n)
  <2>1. PICK o \in NodeOutcomes[n] :
          /\ Finishes(n, o, "ok")
          /\ Assembles(n, input[n], o)
          /\ writes' = [writes EXCEPT ![n] = Assembled(n, input[n], o)]
    BY <1>1 DEF GReturn
  <2>2. Assembled(n, input[n], o) \in Outputs[n]
    BY <2>1, AssembledAllowed
  <2>3. Return(n) /\ UNCHANGED stream
    BY <2>1, <2>2 DEF Finishes, Return
  <2>4. QED
    BY <2>3 DEF SNode, Node
<1>2. CASE GFail(n)
  <2>1. PICK o \in NodeOutcomes[n] :
          /\ Finishes(n, o, "err")
          /\ o.is # "panic" /\ ~Assembles(n, input[n], o)
          /\ UNCHANGED writes
    BY <1>2 DEF GFail
  <2>2. n \in Faulty
    <3>1. CASE o.is \in {"other", "command", "error"}
      BY <3>1, GraphRunAssumption
    <3>2. CASE o.is \in {"object", "none"}
      <4>1. Routes[n] # {}
        BY <2>1, <3>2 DEF Assembles, Lost
      <4>2. QED
        BY <4>1, GraphRunAssumption
    <3>3. o.is \in OutcomeKinds
      BY GraphRunAssumption
    <3>4. QED
      BY <2>1, <3>1, <3>2, <3>3 DEF OutcomeKinds
  <2>3. Fail(n) /\ UNCHANGED stream
    BY <2>1, <2>2 DEF Finishes, Fail
  <2>4. QED
    BY <2>3 DEF SNode, Node
<1>3. CASE GPanic(n)
  <2>1. PICK o \in NodeOutcomes[n] :
          /\ Finishes(n, o, "panic")
          /\ o.is = "panic"
          /\ UNCHANGED writes
    BY <1>3 DEF GPanic
  <2>2. n \in Panicky
    BY <2>1, GraphRunAssumption
  <2>3. Panic(n) /\ UNCHANGED stream
    BY <2>1, <2>2 DEF Finishes, Panic
  <2>4. QED
    BY <2>3 DEF SNode, Node
<1>4. QED
  BY <1>1, <1>2, <1>3 DEF GNode

LEMMA GraphStep == [GNext]_gvars => [SNext]_svars
<1> SUFFICES ASSUME [GNext]_gvars PROVE [SNext]_svars
  OBVIOUS
<1>1. CASE GTask
  BY <1>1 DEF GTask, SNext
<1>2. ASSUME NEW n \in Nodes, GNode(n)
      PROVE  [SNext]_svars
  BY <1>2, NodeStep DEF SNext
<1>3. CASE GCaller
  BY <1>3 DEF GCaller, SNext
<1>4. CASE Returned
  BY <1>4 DEF SNext
<1>5. CASE UNCHANGED gvars
  BY <1>5 DEF gvars
<1>6. QED
  BY <1>1, <1>2, <1>3, <1>4, <1>5 DEF GNext

(* Nodes, branches and writers refine the nondeterministic choice of       *)
(* Outputs: whatever is proved of StreamRun and PregelLoop holds of the    *)
(* runs of every compiled graph.                                           *)
THEOREM GraphImplementsStream == GSpec => SSpec
<1>1. GInit => SInit
  BY DEF GInit
<1>2. QED
  BY <1>1, GraphStep, PTL DEF GSpec, SSpec

-----------------------------------------------------------------------------
(* Routing.                                                                *)

Executing == phase \in {"join", "scope", "apply"}

(* While a superstep is executed every task holds what it read when it was *)
(* prepared, which is still the state, and those that have succeeded have  *)
(* assembled their writes from it.                                         *)
Snapshots ==
  Executing => \A n \in tasks :
    /\ input[n] = Read(n, channels)
    /\ thread[n] = "ok" =>
         \E o \in NodeOutcomes[n] :
           /\ Assembles(n, input[n], o)
           /\ writes[n] = Assembled(n, input[n], o)

LEMMA PrepareReads ==
  ASSUME TypeOK, GTask, phase = "tick", phase' = "join"
  PROVE  Snapshots'
<1>1. Prepare
  BY DEF GTask, Task, SExecute, SAfterTick, SQuiet, SendError, JoinOk,
         JoinsNext, AfterTick, Enter, EnterEmpty, OutOfSteps, Done, JoinErr,
         Unwind, LeaveScope, AfterTickErr, End, Goto, vars, control
<1>2. /\ tasks' = Ready /\ channels' = channels
      /\ \A n \in Nodes : n \in tasks' => thread'[n] = "running"
  BY <1>1 DEF Prepare, Submit, state
<1>3. tasks' \subseteq Nodes
  BY <1>2 DEF Ready, Candidates
<1>4. input' = [n \in Nodes |-> IF n \in tasks' THEN Read(n, channels) ELSE NoInput]
  BY DEF GTask
<1>5. \A n \in Nodes : Read(n, channels)' = Read(n, channels)
  BY <1>2 DEF Read
<1>6. QED
  BY <1>2, <1>3, <1>4, <1>5 DEF Snapshots

LEMMA TaskKeeps ==
  ASSUME TypeOK, Lifecycle, Task, ~(phase = "tick" /\ phase' = "join")
  PROVE  \/ phase' \notin {"join", "scope", "apply"}
         \/ Executing /\ UNCHANGED <<channels, tasks, thread, writes>>
<1> USE DEF End, Goto
<1>1. CASE JoinOk
  BY <1>1 DEF JoinOk, JoinsNext, state, Executing
<1>2. CASE JoinErr
  BY <1>2 DEF JoinErr, JoinsNext, state, Executing
<1>3. CASE AfterTick
  BY <1>3, AfterTickPhase
<1>4. CASE AfterTickErr
  BY <1>4 DEF AfterTickErr
<1>5. CASE LeaveScope
  BY <1>5 DEF LeaveScope
<1>6. CASE Enter \/ EnterEmpty \/ OutOfSteps \/ Done \/ Unwind \/ Prepare
  BY <1>6 DEF Enter, EnterEmpty, OutOfSteps, Done, Unwind, Prepare
<1>7. CASE SendError
  <2>1. phase = "ended" /\ phase' = phase
    BY <1>7 DEF SendError, Lifecycle, vars, control
  <2>2. QED
    BY <2>1
<1>8. QED
  BY <1>1, <1>2, <1>3, <1>4, <1>5, <1>6, <1>7
     DEF Task, SExecute, SAfterTick, SQuiet

LEMMA StepSnapshots ==
  TypeOK /\ Lifecycle /\ Snapshots /\ [GNext]_gvars => Snapshots'
<1> SUFFICES ASSUME TypeOK, Lifecycle, Snapshots, [GNext]_gvars
             PROVE  Snapshots'
  OBVIOUS
<1>1. ASSUME UNCHANGED <<channels, tasks, thread, writes, input>>,
             Executing' => Executing
      PROVE  Snapshots'
  <2>1. \A n \in Nodes : Read(n, channels)' = Read(n, channels)
    BY <1>1 DEF Read
  <2>2. tasks \subseteq Nodes
    BY DEF TypeOK
  <2>3. QED
    BY <1>1, <2>1, <2>2 DEF Snapshots
<1>2. CASE GTask
  <2>1. CASE phase = "tick" /\ phase' = "join"
    BY <1>2, <2>1, PrepareReads
  <2>2. CASE ~(phase = "tick" /\ phase' = "join")
    <3>1. UNCHANGED input /\ Task
      BY <1>2, <2>2, Zenon DEF GTask
    <3>2. \/ ~Executing'
          \/ Executing /\ UNCHANGED <<channels, tasks, thread, writes>>
      BY <2>2, <3>1, TaskKeeps DEF Executing
    <3>3. QED
      BY <1>1, <3>1, <3>2 DEF Snapshots
  <2>3. QED
    BY <2>1, <2>2
<1>3. ASSUME NEW k \in Nodes, GNode(k)
      PROVE  Snapshots'
  <2>1. /\ UNCHANGED <<phase, channels, tasks, input>>
        /\ \A n \in Nodes : n # k => thread'[n] = thread[n] /\ writes'[n] = writes[n]
    BY <1>3 DEF GNode, GReturn, GFail, GPanic, Finishes, control, state, TypeOK
  <2>2. \A n \in Nodes : Read(n, channels)' = Read(n, channels)
    BY <2>1 DEF Read
  <2>3. ASSUME thread'[k] = "ok"
        PROVE  \E o \in NodeOutcomes[k] :
                 /\ Assembles(k, input[k], o)
                 /\ writes'[k] = Assembled(k, input[k], o)
    <3>1. GReturn(k)
      BY <1>3, <2>3 DEF GNode, GFail, GPanic, Finishes, TypeOK
    <3>2. QED
      BY <3>1 DEF GReturn, TypeOK
  <2>4. tasks \subseteq Nodes
    BY DEF TypeOK
  <2>5. ASSUME Executing', NEW n \in tasks'
        PROVE  /\ input'[n] = Read(n, channels)'
               /\ thread'[n] = "ok" =>
                    \E o \in NodeOutcomes[n] :
                      /\ Assembles(n, input'[n], o)
                      /\ writes'[n] = Assembled(n, input'[n], o)
    <3>1. Executing /\ n \in tasks /\ n \in Nodes /\ input' = input
      BY <2>1, <2>4, <2>5 DEF Executing
    <3>2. input[n] = Read(n, channels)
      BY <3>1 DEF Snapshots
    <3>3. CASE n = k
      BY <2>2, <2>3, <3>1, <3>2, <3>3
    <3>4. CASE n # k
      BY <2>1, <2>2, <3>1, <3>2, <3>4 DEF Snapshots
    <3>5. QED
      BY <3>3, <3>4
  <2>6. QED
    BY <2>5 DEF Snapshots
<1>4. CASE GCaller
  <2>1. UNCHANGED input /\ (Receive \/ ReceiveNone)
    BY <1>4 DEF GCaller, Caller
  <2>2. UNCHANGED <<phase, channels, tasks, thread, writes>>
    BY <2>1 DEF Receive, ReceiveNone, Leave, DropReceiver, vars, control,
                state, execution
  <2>3. QED
    BY <1>1, <2>1, <2>2 DEF Executing
<1>5. CASE UNCHANGED <<phase, channels, tasks, thread, writes, input>>
  BY <1>1, <1>5 DEF Executing
<1>6. QED
  BY <1>2, <1>3, <1>4, <1>5
     DEF GNext, Returned, gvars, svars, vars, control, state, execution

LEMMA GraphInvariant ==
  GSpec => [](TypeOK /\ JoinOrder /\ Lifecycle /\ Snapshots)
<1>1. GInit => Snapshots
  BY DEF GInit, SInit, Init, Snapshots, Executing
<1>2. GSpec => [](TypeOK /\ JoinOrder /\ Lifecycle)
  BY GraphImplementsStream, StreamInvariant, ErrorInvariant, PTL
<1>3. QED
  BY <1>1, <1>2, StepSnapshots, PTL DEF GSpec

(* Which nodes a superstep signals is decided by the state before it and   *)
(* by nothing else, whatever the nodes return and whatever order their     *)
(* threads run in; and a lost branch never gets its superstep applied.     *)
THEOREM RoutingFollowsState == GSpec => RoutesFollowState
<1> DEFINE Routed(c) ==
      \E n \in tasks :
        \/ c \in Signals[n]
        \/ \E r \in Routes[n] \ Silent(n, Read(n, channels)) :
             c \in r.to[Path(n, r.name, Read(n, channels))]
<1>1. ASSUME TypeOK, JoinOrder, Snapshots, [GNext]_gvars,
             phase = "apply", step' = step + 1
      PROVE  /\ \A n \in tasks : Lost(n, Read(n, channels)) = {}
             /\ \A c \in Channels \ StateChannels :
                  ~IsBarrier(c) => (c \in updated' <=> Routed(c))
  <2>1. AfterTick
    <3>1. step' # step
      BY <1>1 DEF TypeOK
    <3>2. SAfterTick
      BY <1>1, <3>1, GraphStep, StepAdvances
    <3>3. QED
      BY <3>2 DEF SAfterTick
  <2>2. tasks \subseteq Nodes /\ \A n \in tasks : thread[n] = "ok"
    BY <1>1 DEF TypeOK, JoinOrder
  <2>3. \A n \in tasks : \E o \in NodeOutcomes[n] :
          /\ Assembles(n, Read(n, channels), o)
          /\ writes[n] = Assembled(n, Read(n, channels), o)
    BY <1>1, <2>2 DEF Snapshots, Executing
  <2>4. \A n \in tasks : Lost(n, Read(n, channels)) = {}
    BY <2>3 DEF Assembles
  <2>5. ASSUME NEW c \in Channels \ StateChannels, ~IsBarrier(c)
        PROVE  c \in updated' <=> Routed(c)
    <3>1. \A n \in tasks : c \in DOMAIN writes[n] <=>
            \/ c \in Signals[n]
            \/ \E r \in Routes[n] \ Silent(n, Read(n, channels)) :
                 c \in r.to[Path(n, r.name, Read(n, channels))]
      <4> SUFFICES ASSUME NEW n \in tasks
                   PROVE  c \in DOMAIN writes[n] <=>
                            \/ c \in Signals[n]
                            \/ \E r \in Routes[n] \ Silent(n, Read(n, channels)) :
                                 c \in r.to[Path(n, r.name, Read(n, channels))]
        OBVIOUS
      <4>1. PICK o \in NodeOutcomes[n] :
              /\ Assembles(n, Read(n, channels), o)
              /\ writes[n] = Assembled(n, Read(n, channels), o)
        BY <2>3
      <4>2. c \in DOMAIN writes[n] <=>
              c \in Signals[n] \/ c \in Chosen(n, Read(n, channels))
        BY <2>2, <2>5, <4>1, SignalsWritten
      <4>3. QED
        BY <2>4, <4>2 DEF Chosen
    <3>2. c \in DOMAIN Grouped(tasks, writes) <=> \E n \in tasks : c \in DOMAIN writes[n]
      BY DEF Grouped, Writers
    <3>3. ASSUME c \in DOMAIN Grouped(tasks, writes)
          PROVE  /\ UpdateChanges(c, Consumed(channels, tasks)[c], Grouped(tasks, writes)[c])
                 /\ Available(c, UpdateResult(c, Consumed(channels, tasks)[c],
                                                 Grouped(tasks, writes)[c]))
      <4>1. Consumed(channels, tasks)[c] \in ChannelStates(c)
        BY <1>1, ConsumedType DEF TypeOK, ChannelsTyped
      <4>2. Grouped(tasks, writes)[c] \in Seq(Values) /\ Len(Grouped(tasks, writes)[c]) > 0
        BY <1>1, <2>2, <3>3, GroupedType DEF TypeOK
      <4>3. QED
        BY <2>5, <4>1, <4>2, UpdatedAvailable
    <3>4. updated' = Changed(Consumed(channels, tasks), Grouped(tasks, writes))
      BY <2>1 DEF AfterTick
    <3>5. c \in updated' <=> c \in DOMAIN Grouped(tasks, writes)
      BY <3>3, <3>4 DEF Changed
    <3>6. QED
      BY <3>1, <3>2, <3>5
  <2>6. QED
    BY <2>4, <2>5
<1>2. TypeOK /\ JoinOrder /\ Snapshots /\ [GNext]_gvars
        => [phase = "apply" /\ step' = step + 1 =>
              /\ \A n \in tasks : Lost(n, Read(n, channels)) = {}
              /\ \A c \in Channels \ StateChannels :
                   ~IsBarrier(c) => (c \in updated' <=> Routed(c))]_gvars
  BY <1>1
<1>3. QED
  BY <1>2, GraphInvariant, PTL DEF GSpec, RoutesFollowState

=============================================================================
