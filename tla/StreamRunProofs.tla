-------------------------- MODULE StreamRunProofs ---------------------------
(***************************************************************************)
(* Theorems about StreamRun: the stream takes nothing from the run (every  *)
(* theorem about PregelLoop holds of a streamed run), and what a caller    *)
(* hears of it, whatever the graph, the mode and the size of the channel.  *)
(***************************************************************************)
EXTENDS StreamRun, PregelLoopProofs

USE DEF ChannelsFit, GraphFits, InputFits

-----------------------------------------------------------------------------
(* Every step of a streamed run is a step of the run, or none.             *)

LEMMA StreamStep == [SNext]_svars => [Next]_vars
<1> SUFFICES ASSUME [SNext]_svars PROVE [Next]_vars
  OBVIOUS
<1>1. CASE SExecute
  BY <1>1 DEF SExecute, Next, Loop
<1>2. CASE SAfterTick
  BY <1>2 DEF SAfterTick, Next, Loop
<1>3. CASE SQuiet
  BY <1>3 DEF SQuiet, Next, Loop
<1>4. CASE SendError
  BY <1>4 DEF SendError
<1>5. ASSUME NEW n \in Nodes, SNode(n)
      PROVE  [Next]_vars
  BY <1>5 DEF SNode, Next
<1>6. CASE Receive
  BY <1>6 DEF Receive, Leave, Next
<1>7. CASE ReceiveNone \/ CallerDrops
  BY <1>7 DEF ReceiveNone, CallerDrops, Leave, Next
<1>8. CASE Returned
  BY <1>8 DEF Returned, svars
<1>9. CASE UNCHANGED svars
  BY <1>9 DEF svars
<1>10. QED
  BY <1>1, <1>2, <1>3, <1>4, <1>5, <1>6, <1>7, <1>8, <1>9
     DEF SNext, Task, Caller

(* A streamed run is a run of PregelLoop: streaming takes part in no       *)
(* decision of the main loop, except through the receiver being open.      *)
THEOREM StreamImplementsLoop == SSpec => Spec
<1>1. SInit => Init
  BY DEF SInit
<1>2. QED
  BY <1>1, StreamStep, PTL DEF SSpec, Spec

-----------------------------------------------------------------------------
(* The items of a stream.                                                  *)

States == UNION {ChannelStates(c) : c \in Channels}
Shapes(V) ==
  [is : {"value"}, of : V]
    \cup [is : {"object"}, of : UNION {[S -> V] : S \in SUBSET StreamChannels}]
Datas ==
  {NoData} \cup Shapes(States)
    \cup [is : {"object"}, of : UNION {[T -> Shapes(Values)] : T \in SUBSET Nodes}]
AllItems == [kind : {Mode, "error"}, step : Nat, data : Datas]

StreamTyped ==
  /\ queue \in Seq(AllItems) /\ Len(queue) <= Capacity
  /\ received \in Seq(AllItems)
  /\ produced \in Seq(AllItems)
  /\ sender \in {"alive", "sending", "gone"}
  /\ caller \in {"receiving", "returned"}
  /\ leftAt \in Nat

(* A bare value stands for the only stream channel: it is never taken from *)
(* a channel that has none.                                                *)
LEMMA ShapeType ==
  ASSUME NEW V, NEW S \in SUBSET StreamChannels, S # {}, NEW f \in [S -> V]
  PROVE  Shape(f) \in Shapes(V)
<1>1. CASE Cardinality(StreamChannels) = 1
  <2>1. PICK x : StreamChannels = {x}
    BY <1>1, FS_Singleton, StreamAssumption
  <2>2. S = {x} /\ (CHOOSE c \in StreamChannels : TRUE) = x
    BY <2>1
  <2>3. f[CHOOSE c \in StreamChannels : TRUE] \in V
    BY <2>2
  <2>4. QED
    BY <1>1, <2>3 DEF Shape, Shapes
<1>2. CASE Cardinality(StreamChannels) # 1
  <2>1. f \in UNION {[R -> V] : R \in SUBSET StreamChannels}
    OBVIOUS
  <2>2. QED
    BY <1>2, <2>1 DEF Shape, Shapes
<1>3. QED
  BY <1>1, <1>2

LEMMA SnapshotType ==
  ASSUME NEW chs, ChannelsTyped(chs)
  PROVE  Snapshot(chs) \in Datas
<1> DEFINE ready == {c \in StreamChannels : Available(c, chs[c])}
           f == [c \in ready |-> chs[c]]
<1>1. \A c \in StreamChannels : chs[c] \in States
  BY StreamAssumption DEF ChannelsTyped, States
<1>2. f \in [ready -> States]
  BY <1>1
<1>3. CASE ready = {}
  BY <1>3 DEF Snapshot, Datas
<1>4. CASE ready # {}
  <2>1. ready \in SUBSET StreamChannels
    OBVIOUS
  <2>2. Snapshot(chs) = Shape(f)
    BY <1>4 DEF Snapshot
  <2> HIDE DEF f, ready
  <2>3. Shape(f) \in Shapes(States)
    BY <1>2, <1>4, <2>1, ShapeType
  <2>4. QED
    BY <2>2, <2>3 DEF Datas
<1>5. QED
  BY <1>3, <1>4

LEMMA UpdatesType ==
  ASSUME TypeOK
  PROVE  Updates \in Datas
<1> DEFINE of(n) == [c \in StreamChannels \cap DOMAIN writes[n] |-> writes[n][c]]
<1>1. ASSUME NEW n \in Streaming
      PROVE  Shape(of(n)) \in Shapes(Values)
  <2> DEFINE S == StreamChannels \cap DOMAIN writes[n]
  <2>1. S \in SUBSET StreamChannels /\ S # {}
    BY DEF Streaming
  <2>2. writes[n] \in [DOMAIN writes[n] -> Values]
    BY DEF TypeOK, Streaming, IsWrites
  <2>3. of(n) \in [S -> Values]
    BY <2>2
  <2> HIDE DEF S, of
  <2>4. QED
    BY <2>1, <2>3, ShapeType
<1>2. Streaming \in SUBSET Nodes
  BY DEF Streaming, TypeOK
<1>3. [n \in Streaming |-> Shape(of(n))] \in [Streaming -> Shapes(Values)]
  BY <1>1
<1>4. Updates = [is |-> "object", of |-> [n \in Streaming |-> Shape(of(n))]]
  BY DEF Updates
<1> HIDE DEF of
<1>5. QED
  BY <1>2, <1>3, <1>4 DEF Datas

LEMMA TrySendType ==
  ASSUME StreamTyped, NEW item \in AllItems, TrySend(item)
  PROVE  /\ queue' \in Seq(AllItems) /\ Len(queue') <= Capacity
         /\ produced' \in Seq(AllItems)
<1>1. Capacity \in Nat
  BY StreamAssumption
<1>2. \/ queue' = queue
      \/ Len(queue) < Capacity /\ queue' = Append(queue, item)
  BY Zenon DEF TrySend
<1>3. queue' \in Seq(AllItems) /\ Len(queue') <= Capacity
  BY <1>1, <1>2 DEF StreamTyped
<1>4. produced' \in Seq(AllItems)
  BY DEF TrySend, StreamTyped
<1>5. QED
  BY <1>3, <1>4

LEMMA SenderType == SenderAfter => sender' \in {"alive", "sending", "gone"}
BY DEF SenderAfter

LEMMA StepStream ==
  TypeOK /\ JoinOrder /\ StreamTyped /\ [SNext]_svars => StreamTyped'
<1> SUFFICES ASSUME TypeOK, JoinOrder, StreamTyped, [SNext]_svars
             PROVE  StreamTyped'
  OBVIOUS
<1>1. CASE SExecute
  <2>1. UNCHANGED <<sender, caller, received, leftAt>>
    BY <1>1 DEF SExecute
  <2>2. CASE UNCHANGED <<queue, produced>>
    BY <2>1, <2>2 DEF StreamTyped
  <2>3. CASE UpdatesItem /\ TrySend(Item(Updates))
    <3>1. Item(Updates) \in AllItems
      BY UpdatesType DEF Item, AllItems, TypeOK
    <3>2. QED
      BY <2>1, <2>3, <3>1, TrySendType DEF StreamTyped
  <2>4. QED
    BY <1>1, <2>2, <2>3 DEF SExecute
<1>2. CASE SAfterTick
  <2>1. UNCHANGED <<caller, received, leftAt>> /\ sender' \in {"alive", "sending", "gone"}
    BY <1>2, SenderType DEF SAfterTick
  <2>2. CASE UNCHANGED <<queue, produced>>
    BY <2>1, <2>2 DEF StreamTyped
  <2>3. CASE ValuesItem /\ TrySend(Item(Snapshot(channels')))
    <3>1. ChannelsTyped(channels')
      BY StreamStep, StepType DEF TypeOK, ChannelsTyped
    <3>2. Item(Snapshot(channels')) \in AllItems
      BY <3>1, SnapshotType DEF Item, AllItems, TypeOK
    <3>3. QED
      BY <2>1, <2>3, <3>2, TrySendType DEF StreamTyped
  <2>4. QED
    BY <1>2, <2>2, <2>3 DEF SAfterTick
<1>3. CASE SQuiet
  BY <1>3, SenderType DEF SQuiet, StreamTyped
<1>4. CASE SendError
  <2>1. ErrorItem \in AllItems
    BY DEF ErrorItem, AllItems, Datas, TypeOK
  <2>2. UNCHANGED <<caller, received, produced, leftAt>> /\ sender' = "gone"
    BY <1>4 DEF SendError
  <2>3. CASE open
    <3>1. Len(queue) < Capacity /\ queue' = Append(queue, ErrorItem)
      BY <1>4, <2>3, Zenon DEF SendError
    <3>2. Capacity \in Nat
      BY StreamAssumption
    <3>3. queue' \in Seq(AllItems) /\ Len(queue') <= Capacity
      BY <2>1, <3>1, <3>2 DEF StreamTyped
    <3>4. QED
      BY <2>2, <3>3 DEF StreamTyped
  <2>4. CASE ~open
    <3>1. queue' = queue
      BY <1>4, <2>4, Zenon DEF SendError
    <3>2. QED
      BY <2>2, <3>1 DEF StreamTyped
  <2>5. QED
    BY <2>3, <2>4
<1>5. CASE Receive
  <2>1. queue # <<>> /\ Head(queue) \in AllItems /\ Tail(queue) \in Seq(AllItems)
        /\ Len(Tail(queue)) <= Capacity
    BY <1>5, StreamAssumption DEF Receive, StreamTyped
  <2>2. queue' \in Seq(AllItems) /\ Len(queue') <= Capacity
    <3>1. queue' = <<>> \/ queue' = Tail(queue)
      BY <1>5 DEF Receive
    <3>2. <<>> \in Seq(AllItems) /\ Len(<<>>) <= Capacity
      BY StreamAssumption
    <3>3. QED
      BY <2>1, <3>1, <3>2
  <2>3. received' \in Seq(AllItems)
    BY <1>5, <2>1 DEF Receive, StreamTyped
  <2>4. caller' \in {"receiving", "returned"} /\ leftAt' \in Nat
    <3>1. \/ caller' = "returned" /\ leftAt' = step
          \/ UNCHANGED <<caller, leftAt>>
      BY <1>5 DEF Receive, Leave
    <3>2. QED
      BY <3>1 DEF StreamTyped, TypeOK
  <2>5. QED
    BY <1>5, <2>2, <2>3, <2>4 DEF Receive, StreamTyped
<1>6. CASE ReceiveNone
  BY <1>6 DEF ReceiveNone, Leave, StreamTyped, TypeOK
<1>7. CASE CallerDrops
  BY <1>7, StreamAssumption DEF CallerDrops, Leave, StreamTyped, TypeOK
<1>8. CASE UNCHANGED stream
  BY <1>8 DEF stream, StreamTyped
<1>9. QED
  BY <1>1, <1>2, <1>3, <1>4, <1>5, <1>6, <1>7, <1>8
     DEF SNext, Task, Caller, SNode, Returned, svars

LEMMA StreamInvariant == SSpec => [](TypeOK /\ JoinOrder /\ StreamTyped)
<1>1. SInit => TypeOK /\ JoinOrder /\ StreamTyped
  BY InitType, InitOrder, StreamAssumption DEF SInit, StreamTyped
<1>2. TypeOK /\ JoinOrder /\ [SNext]_svars => TypeOK' /\ JoinOrder'
  BY StreamStep, StepType, StepOrder
<1>3. QED
  BY <1>1, <1>2, StepStream, PTL DEF SSpec

(* Every item a caller can see is well formed, and the channel never holds *)
(* more than it has room for.                                              *)
THEOREM StreamTypeCorrect == SSpec => []STypeOK
<1>1. TypeOK /\ StreamTyped => STypeOK
  <2> SUFFICES ASSUME TypeOK, StreamTyped PROVE STypeOK
    OBVIOUS
  <2>1. \A item \in AllItems : IsItem(item)
    BY DEF AllItems, Datas, Shapes, NoData, IsItem
  <2>2. \A s \in {queue, received, produced} : \A i \in DOMAIN s : s[i] \in AllItems
    BY DEF StreamTyped
  <2>3. QED
    BY <2>1, <2>2 DEF STypeOK, StreamTyped
<1>2. QED
  BY <1>1, StreamInvariant, PTL

-----------------------------------------------------------------------------
(* The life of the task and of its caller.                                 *)

(* The task is alive as long as the main loop runs, sends an error only of *)
(* a run that has one, and the receiver is there as long as the caller.    *)
Lifecycle ==
  /\ sender = "alive" <=> phase # "ended"
  /\ phase # "ended" => outcome = "running"
  /\ sender = "sending" => outcome = "error"
  /\ open <=> caller = "receiving"

LEMMA LoopControl ==
  ASSUME Loop, Lifecycle
  PROVE  /\ phase # "ended"
         /\ UNCHANGED open
         /\ phase' # "ended" => outcome' = outcome
<1> USE DEF End, Goto
<1>1. CASE AfterTick
  <2>1. Continue /\ phase = "apply"
    BY <1>1 DEF AfterTick
  <2>2. CASE open
    BY <2>1, <2>2, Zenon DEF Continue
  <2>3. CASE ~open
    <3>1. phase' = "ended" /\ UNCHANGED open
      BY <2>1, <2>3, Zenon DEF Continue
    <3>2. QED
      BY <2>1, <3>1
  <2>4. QED
    BY <2>1, <2>2, <2>3
<1>2. CASE JoinOk
  BY <1>2 DEF JoinOk, JoinsNext, control
<1>3. CASE JoinErr
  BY <1>3 DEF JoinErr, JoinsNext
<1>4. CASE LeaveScope \/ AfterTickErr
  BY <1>4 DEF LeaveScope, AfterTickErr
<1>5. CASE Enter \/ EnterEmpty \/ OutOfSteps \/ Prepare \/ Done \/ Unwind
  BY <1>5 DEF Enter, EnterEmpty, OutOfSteps, Prepare, Done, Unwind
<1>6. QED
  BY <1>1, <1>2, <1>3, <1>4, <1>5 DEF Loop

LEMMA SenderFollows ==
  ASSUME Loop, Lifecycle, SenderAfter, UNCHANGED caller
  PROVE  Lifecycle'
<1>1. /\ phase # "ended" /\ UNCHANGED open
      /\ phase' # "ended" => outcome' = outcome
  BY LoopControl
<1>2. QED
  BY <1>1 DEF Lifecycle, SenderAfter

(* A caller that leaves changes nothing in the run but the receiver.       *)
LEMMA LeaveEffect ==
  ASSUME Leave
  PROVE  /\ open /\ open' = FALSE /\ caller' = "returned" /\ leftAt' = step
         /\ UNCHANGED <<phase, outcome, step>>
BY DEF Leave, DropReceiver, state

LEMMA StepLifecycle == Lifecycle /\ [SNext]_svars => Lifecycle'
<1> SUFFICES ASSUME Lifecycle, [SNext]_svars PROVE Lifecycle'
  OBVIOUS
<1>1. CASE SExecute
  <2>1. JoinOk /\ UNCHANGED <<sender, caller>>
    BY <1>1 DEF SExecute
  <2>2. phase # "ended" /\ phase' # "ended" /\ UNCHANGED open /\ outcome' = outcome
    BY <2>1 DEF JoinOk, JoinsNext, Goto, control
  <2>3. QED
    BY <2>1, <2>2 DEF Lifecycle
<1>2. CASE SAfterTick
  BY <1>2, SenderFollows DEF SAfterTick, Loop
<1>3. CASE SQuiet
  BY <1>3, SenderFollows DEF SQuiet, Loop
<1>4. CASE SendError
  BY <1>4 DEF SendError, Lifecycle, vars, control
<1>5. ASSUME NEW n \in Nodes, SNode(n)
      PROVE  Lifecycle'
  <2>1. UNCHANGED <<phase, outcome, open, sender, caller>>
    BY <1>5 DEF SNode, Node, Return, Fail, Panic, control, stream
  <2>2. QED
    BY <2>1 DEF Lifecycle
<1>6. CASE Receive
  <2>1. CASE Leave
    BY <1>6, <2>1, LeaveEffect DEF Receive, Lifecycle
  <2>2. CASE UNCHANGED <<vars, caller>>
    BY <1>6, <2>2 DEF Receive, Lifecycle, vars, control
  <2>3. QED
    BY <1>6, <2>1, <2>2 DEF Receive
<1>7. CASE ReceiveNone \/ CallerDrops
  BY <1>7, LeaveEffect DEF ReceiveNone, CallerDrops, Lifecycle
<1>8. CASE UNCHANGED svars
  BY <1>8 DEF svars, vars, control, stream, Lifecycle
<1>9. QED
  BY <1>1, <1>2, <1>3, <1>4, <1>5, <1>6, <1>7, <1>8
     DEF SNext, Task, Caller, Returned

-----------------------------------------------------------------------------
(* Errors.                                                                 *)

(* An error is only sent of a run that ended in one, by a task that then   *)
(* sends nothing more; nothing follows it in the queue, and nothing is     *)
(* left in the queue once it has been received.                            *)
ErrorsClose ==
  /\ \A i \in DOMAIN queue : IsError(queue[i]) =>
       i = Len(queue) /\ sender = "gone" /\ outcome = "error"
  /\ \A i \in DOMAIN received : IsError(received[i]) =>
       i = Len(received) /\ queue = <<>> /\ sender = "gone" /\ outcome = "error"

(* invoke has the error still before it, or has left with it.              *)
ErrorAwaited ==
  Invoke =>
    /\ caller = "receiving" /\ outcome = "error" /\ sender = "gone" =>
         queue # <<>> /\ IsError(queue[Len(queue)])
    /\ caller = "returned" => sender # "alive"
    /\ InvokeReportsError

LEMMA SentItem ==
  ASSUME StreamTyped, Lifecycle, ErrorsClose, phase # "ended",
         NEW data, TrySend(Item(data))
  PROVE  /\ \A i \in DOMAIN queue' : ~IsError(queue'[i])
         /\ \A i \in DOMAIN received : ~IsError(received[i])
<1>1. sender = "alive"
  BY DEF Lifecycle
<1>2. ~IsError(Item(data))
  BY StreamAssumption DEF IsError, Item
<1>3. /\ \A i \in DOMAIN queue : ~IsError(queue[i])
      /\ \A i \in DOMAIN received : ~IsError(received[i])
  BY <1>1 DEF ErrorsClose
<1>4. queue' = queue \/ queue' = Append(queue, Item(data))
  BY Zenon DEF TrySend
<1>5. CASE queue' = Append(queue, Item(data))
  <2>1. /\ DOMAIN queue' = 1..Len(queue) + 1
        /\ \A i \in 1..Len(queue) : queue'[i] = queue[i]
        /\ queue'[Len(queue) + 1] = Item(data)
    BY <1>5 DEF StreamTyped
  <2>2. QED
    BY <1>2, <1>3, <2>1 DEF StreamTyped
<1>6. QED
  BY <1>3, <1>4, <1>5

LEMMA ReceiveEffect ==
  ASSUME StreamTyped, ErrorsClose, Receive
  PROVE  /\ queue # <<>> /\ Head(queue) = queue[1]
         /\ DOMAIN queue = 1..Len(queue) /\ Len(queue) \in Nat \ {0}
         /\ \A i \in DOMAIN received : ~IsError(received[i])
         /\ DOMAIN received' = 1..Len(received) + 1
         /\ Len(received') = Len(received) + 1
         /\ \A i \in 1..Len(received) : received'[i] = received[i]
         /\ received'[Len(received')] = queue[1]
         /\ DOMAIN received = 1..Len(received) /\ Len(received) \in Nat
         /\ \/ queue' = <<>>
            \/ /\ queue' = Tail(queue)
               /\ DOMAIN queue' = 1..Len(queue) - 1
               /\ Len(queue') = Len(queue) - 1
               /\ \A i \in DOMAIN queue' : queue'[i] = queue[i + 1]
<1>1. queue # <<>> /\ received' = Append(received, Head(queue))
  BY DEF Receive
<1>2. queue \in Seq(AllItems) /\ received \in Seq(AllItems)
  BY DEF StreamTyped
<1>3. Head(queue) = queue[1] /\ DOMAIN queue = 1..Len(queue) /\ Len(queue) \in Nat \ {0}
  BY <1>1, <1>2
<1>4. \A i \in DOMAIN received : ~IsError(received[i])
  BY <1>1 DEF ErrorsClose
<1>5. /\ DOMAIN received' = 1..Len(received) + 1
      /\ Len(received') = Len(received) + 1
      /\ \A i \in 1..Len(received) : received'[i] = received[i]
      /\ received'[Len(received')] = Head(queue)
      /\ DOMAIN received = 1..Len(received) /\ Len(received) \in Nat
  BY <1>1, <1>2, <1>3
<1>6. /\ DOMAIN Tail(queue) = 1..Len(queue) - 1
      /\ Len(Tail(queue)) = Len(queue) - 1
      /\ \A i \in DOMAIN Tail(queue) : Tail(queue)[i] = queue[i + 1]
  BY <1>1, <1>2
<1>7. queue' = <<>> \/ queue' = Tail(queue)
  BY DEF Receive
<1>8. QED
  BY <1>1, <1>3, <1>4, <1>5, <1>6, <1>7

LEMMA StepErrorsClose ==
  StreamTyped /\ Lifecycle /\ ErrorsClose /\ [SNext]_svars => ErrorsClose'
<1> SUFFICES ASSUME StreamTyped, Lifecycle, ErrorsClose, [SNext]_svars
             PROVE  ErrorsClose'
  OBVIOUS
<1>1. ASSUME phase # "ended", UNCHANGED received,
             UNCHANGED queue \/ \E data : TrySend(Item(data))
      PROVE  ErrorsClose'
  <2>1. /\ \A i \in DOMAIN queue : ~IsError(queue[i])
        /\ \A i \in DOMAIN received : ~IsError(received[i])
    BY <1>1 DEF ErrorsClose, Lifecycle
  <2>2. CASE UNCHANGED queue
    BY <1>1, <2>1, <2>2 DEF ErrorsClose
  <2>3. ASSUME NEW data, TrySend(Item(data))
        PROVE  ErrorsClose'
    BY <1>1, <2>3, SentItem DEF ErrorsClose
  <2>4. QED
    BY <1>1, <2>2, <2>3
<1>2. CASE SExecute
  <2>1. phase # "ended"
    BY <1>2 DEF SExecute, JoinOk, JoinsNext
  <2>2. UNCHANGED queue \/ TrySend(Item(Updates))
    BY <1>2 DEF SExecute
  <2>3. UNCHANGED received
    BY <1>2 DEF SExecute
  <2>4. QED
    BY <1>1, <2>1, <2>2, <2>3
<1>3. CASE SAfterTick
  <2>1. phase # "ended"
    BY <1>3 DEF SAfterTick, AfterTick
  <2>2. UNCHANGED queue \/ TrySend(Item(Snapshot(channels')))
    BY <1>3 DEF SAfterTick
  <2>3. UNCHANGED received
    BY <1>3 DEF SAfterTick
  <2>4. QED
    BY <1>1, <2>1, <2>2, <2>3
<1>4. CASE SQuiet
  <2>1. phase # "ended"
    BY <1>4, LoopControl DEF SQuiet, Loop
  <2>2. QED
    BY <1>1, <1>4, <2>1 DEF SQuiet
<1>5. CASE SendError
  <2>1. /\ sender = "sending" /\ outcome = "error" /\ outcome' = outcome
        /\ sender' = "gone" /\ UNCHANGED received
    BY <1>5 DEF SendError, Lifecycle, vars, control
  <2>2. /\ \A i \in DOMAIN queue : ~IsError(queue[i])
        /\ \A i \in DOMAIN received : ~IsError(received[i])
    BY <2>1 DEF ErrorsClose
  <2>3. queue' = queue \/ queue' = Append(queue, ErrorItem)
    BY <1>5, Zenon DEF SendError
  <2>4. CASE queue' = Append(queue, ErrorItem)
    <3>1. /\ DOMAIN queue' = 1..Len(queue) + 1 /\ Len(queue') = Len(queue) + 1
          /\ \A i \in 1..Len(queue) : queue'[i] = queue[i]
          /\ DOMAIN queue = 1..Len(queue) /\ Len(queue) \in Nat
      BY <2>4 DEF StreamTyped
    <3>2. QED
      BY <2>1, <2>2, <3>1 DEF ErrorsClose
  <2>5. QED
    BY <2>1, <2>2, <2>3, <2>4 DEF ErrorsClose
<1>6. CASE Receive
  <2>1. UNCHANGED <<sender, outcome>>
    <3>1. UNCHANGED sender /\ (Leave \/ UNCHANGED vars)
      BY <1>6 DEF Receive
    <3>2. QED
      BY <3>1, LeaveEffect DEF vars, control
  <2>2. /\ \A i \in DOMAIN received : ~IsError(received[i])
        /\ DOMAIN received' = 1..Len(received) + 1
        /\ Len(received') = Len(received) + 1
        /\ \A i \in 1..Len(received) : received'[i] = received[i]
        /\ received'[Len(received')] = queue[1]
        /\ DOMAIN received = 1..Len(received) /\ Len(received) \in Nat
    BY <1>6, ReceiveEffect
  <2>3. DOMAIN queue = 1..Len(queue) /\ Len(queue) \in Nat \ {0}
    BY <1>6, ReceiveEffect
  <2>4. CASE queue' = <<>>
    <3>1. \A i \in DOMAIN received' : IsError(received'[i]) =>
            i = Len(received') /\ IsError(queue[1])
      BY <2>2
    <3>2. QED
      BY <2>1, <2>3, <2>4, <3>1 DEF ErrorsClose
  <2>5. CASE queue' # <<>>
    <3>1. /\ DOMAIN queue' = 1..Len(queue) - 1
          /\ Len(queue') = Len(queue) - 1
          /\ \A i \in DOMAIN queue' : queue'[i] = queue[i + 1]
          /\ queue' = Tail(queue)
      BY <1>6, <2>5, ReceiveEffect
    <3>2. queue' \in Seq(AllItems)
      BY <2>3, <3>1 DEF StreamTyped
    <3>3. Len(queue) > 1
      BY <2>3, <2>5, <3>1, <3>2, EmptySeq
    <3>4. ~IsError(queue[1])
      BY <2>3, <3>3 DEF ErrorsClose
    <3>5. \A i \in DOMAIN received' : ~IsError(received'[i])
      BY <2>2, <3>4
    <3>6. \A i \in DOMAIN queue' : IsError(queue'[i]) =>
            i = Len(queue') /\ sender = "gone" /\ outcome = "error"
      BY <2>3, <3>1 DEF ErrorsClose
    <3>7. QED
      BY <2>1, <3>5, <3>6 DEF ErrorsClose
  <2>6. QED
    BY <2>4, <2>5
<1>7. CASE ReceiveNone \/ CallerDrops
  <2>1. UNCHANGED <<sender, received, outcome>> /\ (queue' = queue \/ queue' = <<>>)
    BY <1>7, LeaveEffect DEF ReceiveNone, CallerDrops
  <2>2. QED
    BY <2>1 DEF ErrorsClose
<1>8. CASE UNCHANGED <<stream, outcome>>
  BY <1>8 DEF stream, ErrorsClose
<1>9. QED
  BY <1>2, <1>3, <1>4, <1>5, <1>6, <1>7, <1>8
     DEF SNext, Task, Caller, SNode, Node, Return, Fail, Panic, control,
         Returned, svars, vars

LEMMA StepErrorAwaited ==
  StreamTyped /\ Lifecycle /\ ErrorsClose /\ ErrorAwaited /\ [SNext]_svars
    => ErrorAwaited'
<1> SUFFICES ASSUME StreamTyped, Lifecycle, ErrorsClose, ErrorAwaited, Invoke,
                    [SNext]_svars
             PROVE  ErrorAwaited'
  BY DEF ErrorAwaited
<1> USE DEF ErrorAwaited, InvokeReportsError
<1>1. ASSUME phase # "ended", UNCHANGED <<caller, received>>, sender' # "gone" \/ outcome' # "error"
      PROVE  ErrorAwaited'
  <2>1. caller' = "receiving" /\ ~(outcome' = "error" /\ sender' = "gone")
    BY <1>1 DEF Lifecycle, StreamTyped
  <2>2. QED
    BY <2>1
<1>2. CASE SExecute
  BY <1>1, <1>2 DEF SExecute, JoinOk, JoinsNext, Lifecycle
<1>3. CASE SAfterTick
  <2>1. sender' # "gone" \/ outcome' # "error"
    BY <1>3, Zenon DEF SAfterTick, SenderAfter
  <2>2. phase # "ended" /\ UNCHANGED <<caller, received>>
    BY <1>3 DEF SAfterTick, AfterTick
  <2>3. QED
    BY <1>1, <2>1, <2>2
<1>4. CASE SQuiet
  <2>1. sender' # "gone" \/ outcome' # "error"
    BY <1>4, Zenon DEF SQuiet, SenderAfter
  <2>2. phase # "ended" /\ UNCHANGED <<caller, received>>
    BY <1>4, LoopControl DEF SQuiet, Loop
  <2>3. QED
    BY <1>1, <2>1, <2>2
<1>5. CASE SendError
  <2>1. /\ sender = "sending" /\ outcome = "error" /\ outcome' = outcome
        /\ sender' = "gone" /\ UNCHANGED <<caller, received>>
    BY <1>5 DEF SendError, Lifecycle, vars, control
  <2>2. CASE caller = "receiving"
    <3>1. open
      BY <2>2 DEF Lifecycle
    <3>2. queue' = Append(queue, ErrorItem)
      BY <1>5, <3>1, Zenon DEF SendError
    <3>3. queue' # <<>> /\ queue'[Len(queue')] = ErrorItem
      <4>1. /\ Len(queue') = Len(queue) + 1 /\ Len(queue) \in Nat
            /\ queue'[Len(queue) + 1] = ErrorItem
        BY <3>2 DEF StreamTyped
      <4>2. Len(<<>>) = 0
        OBVIOUS
      <4>3. QED
        BY <4>1, <4>2
    <3>4. IsError(ErrorItem)
      BY DEF IsError, ErrorItem
    <3>5. QED
      BY <2>1, <2>2, <3>3, <3>4
  <2>3. CASE caller # "receiving"
    BY <2>1, <2>3
  <2>4. QED
    BY <2>2, <2>3
<1>6. CASE Receive
  <2>1. /\ caller = "receiving" /\ sender # "alive" /\ UNCHANGED sender
        /\ UNCHANGED <<outcome>>
    <3>1. UNCHANGED sender /\ (Leave \/ UNCHANGED vars) /\ caller = "receiving" /\ sender # "alive"
      BY <1>6 DEF Receive
    <3>2. QED
      BY <3>1, LeaveEffect DEF vars, control
  <2>2. Head(queue) = queue[1] /\ DOMAIN queue = 1..Len(queue) /\ Len(queue) \in Nat \ {0}
    BY <1>6, ReceiveEffect
  <2>3. CASE IsError(Head(queue))
    <3>1. caller' = "returned"
      BY <1>6, <2>3, LeaveEffect DEF Receive
    <3>2. sender = "gone" /\ outcome = "error"
      BY <2>2, <2>3 DEF ErrorsClose
    <3>3. \E i \in DOMAIN received' : IsError(received'[i])
      <4>1. /\ DOMAIN received' = 1..Len(received) + 1
            /\ Len(received') = Len(received) + 1
            /\ received'[Len(received')] = queue[1]
            /\ Len(received) \in Nat
        BY <1>6, ReceiveEffect
      <4>2. Len(received) + 1 \in DOMAIN received'
        BY <4>1
      <4>3. QED
        BY <2>2, <2>3, <4>1, <4>2
    <3>4. QED
      BY <2>1, <3>1, <3>2, <3>3
  <2>4. CASE ~IsError(Head(queue))
    <3>1. UNCHANGED caller /\ queue' = Tail(queue)
      BY <1>6, <2>4 DEF Receive
    <3>2. ASSUME outcome = "error", sender = "gone"
          PROVE  queue' # <<>> /\ IsError(queue'[Len(queue')])
      <4>1. IsError(queue[Len(queue)])
        BY <2>1, <3>2
      <4>2. Len(queue) > 1
        BY <2>2, <2>4, <4>1
      <4>3. queue \in Seq(AllItems)
        BY DEF StreamTyped
      <4>4. /\ Len(queue') = Len(queue) - 1
            /\ queue'[Len(queue) - 1] = queue[Len(queue)]
        BY <3>1, <4>2, <4>3
      <4>5. Len(<<>>) = 0 /\ Len(queue) \in Nat
        BY <4>3
      <4>6. queue' # <<>>
        BY <4>2, <4>4, <4>5
      <4>7. queue'[Len(queue')] = queue[Len(queue)]
        BY <4>4
      <4>8. QED
        BY <4>1, <4>6, <4>7
    <3>3. QED
      BY <2>1, <3>1, <3>2
  <2>5. QED
    BY <2>3, <2>4
<1>7. CASE ReceiveNone
  <2>1. /\ caller = "receiving" /\ queue = <<>> /\ sender = "gone"
        /\ caller' = "returned" /\ UNCHANGED <<sender, received, outcome>>
    BY <1>7, LeaveEffect DEF ReceiveNone
  <2>2. outcome # "error"
    BY <2>1
  <2>3. \A i \in DOMAIN received : ~IsError(received[i])
    BY <2>2 DEF ErrorsClose
  <2>4. QED
    BY <2>1, <2>2, <2>3
<1>8. CASE UNCHANGED <<stream, outcome>>
  BY <1>8 DEF stream
<1>9. QED
  BY <1>2, <1>3, <1>4, <1>5, <1>6, <1>7, <1>8
     DEF SNext, Task, Caller, CallerDrops, SNode, Node, Return, Fail, Panic,
         control, Returned, svars, vars

LEMMA ErrorInvariant ==
  SSpec => [](Lifecycle /\ ErrorsClose /\ ErrorAwaited)
<1>1. SInit => Lifecycle /\ ErrorsClose /\ ErrorAwaited
  BY DEF SInit, Init, Lifecycle, ErrorsClose, ErrorAwaited, InvokeReportsError
<1>2. QED
  BY <1>1, StreamInvariant, StepLifecycle, StepErrorsClose, StepErrorAwaited,
     PTL DEF SSpec

(* An error is the last thing a caller hears of a run. *)
THEOREM NothingAfterError == SSpec => []ErrorIsLast
<1>1. ErrorsClose => ErrorIsLast
  BY DEF ErrorsClose, ErrorIsLast
<1>2. QED
  BY <1>1, ErrorInvariant, PTL

(* invoke fails exactly when its run ended in an error, for any graph and  *)
(* any number of items dropped before it.                                  *)
THEOREM ErrorsReachInvoke == SSpec => []InvokeReportsError
<1>1. ErrorAwaited => InvokeReportsError
  BY DEF ErrorAwaited, InvokeReportsError
<1>2. QED
  BY <1>1, ErrorInvariant, PTL

-----------------------------------------------------------------------------
(* The step of the run.                                                    *)

LEMMA StepAdvances ==
  ASSUME TypeOK, [SNext]_svars
  PROVE  /\ step' = step \/ step' = step + 1
         /\ ~SAfterTick => step' = step
<1>1. CASE SAfterTick
  BY <1>1 DEF SAfterTick, AfterTick
<1>2. CASE SExecute \/ SQuiet
  BY <1>2 DEF SExecute, SQuiet, Enter, EnterEmpty, OutOfSteps, Prepare, Done,
              JoinOk, JoinErr, Unwind, LeaveScope, AfterTickErr, state
<1>3. CASE Receive \/ ReceiveNone \/ CallerDrops
  BY <1>3, LeaveEffect DEF Receive, ReceiveNone, CallerDrops, vars, state
<1>4. QED
  BY <1>1, <1>2, <1>3
     DEF SNext, Task, Caller, SendError, SNode, Node, Return, Fail, Panic,
         Returned, svars, vars, state

(* The superstep during which the receiver went away is the last one that  *)
(* is applied, and if it is, the run is over.                              *)
LastSuperstep ==
  ~open => step <= leftAt \/ (step = leftAt + 1 /\ phase = "ended")

LEMMA StepLast ==
  TypeOK /\ StreamTyped /\ Lifecycle /\ LastSuperstep /\ [SNext]_svars
    => LastSuperstep'
<1> SUFFICES ASSUME TypeOK, StreamTyped, Lifecycle, LastSuperstep, [SNext]_svars
             PROVE  LastSuperstep'
  OBVIOUS
<1>1. step \in Nat /\ leftAt \in Nat
  BY DEF TypeOK, StreamTyped
<1>2. CASE SAfterTick
  <2>1. phase = "apply" /\ Continue /\ step' = step + 1 /\ leftAt' = leftAt
    BY <1>2 DEF SAfterTick, AfterTick
  <2>2. CASE open
    <3>1. open' = open
      BY <2>1, <2>2, Zenon DEF Continue, Goto
    <3>2. QED
      BY <2>2, <3>1, Zenon DEF LastSuperstep
  <2>3. CASE ~open
    <3>1. phase' = "ended"
      BY <2>1, <2>3, Zenon DEF Continue, End
    <3>2. step <= leftAt
      BY <2>1, <2>3 DEF LastSuperstep
    <3>3. QED
      BY <1>1, <2>1, <3>1, <3>2 DEF LastSuperstep
  <2>4. QED
    BY <2>2, <2>3
<1>3. CASE Receive \/ ReceiveNone \/ CallerDrops
  <2>1. CASE Leave
    BY <1>1, <2>1, LeaveEffect DEF LastSuperstep
  <2>2. CASE UNCHANGED <<vars, caller, leftAt>>
    BY <2>2 DEF LastSuperstep, vars, control, state
  <2>3. QED
    BY <1>3, <2>1, <2>2 DEF Receive, ReceiveNone, CallerDrops
<1>4. CASE SExecute \/ SQuiet
  <2>1. (Loop /\ UNCHANGED leftAt /\ ~SAfterTick) \/ SAfterTick
    BY <1>4 DEF SExecute, SQuiet, Loop
  <2>2. CASE Loop /\ UNCHANGED leftAt /\ ~SAfterTick
    BY <2>2, LoopControl, StepAdvances DEF LastSuperstep
  <2>3. QED
    BY <1>2, <2>1, <2>2
<1>5. CASE UNCHANGED <<phase, open, step, leftAt>>
  BY <1>5 DEF LastSuperstep
<1>6. QED
  BY <1>2, <1>3, <1>4, <1>5
     DEF SNext, Task, Caller, SendError, SNode, Node, Return, Fail, Panic,
         Returned, svars, vars, state, control, stream

(* Once its receiver is gone a run completes at most the superstep at hand.*)
THEOREM AbandonedStops == SSpec => []AbandonedStopsSoon
<1>1. SInit => LastSuperstep
  BY DEF SInit, Init, LastSuperstep
<1>2. TypeOK /\ StreamTyped /\ LastSuperstep => AbandonedStopsSoon
  BY DEF TypeOK, StreamTyped, LastSuperstep, AbandonedStopsSoon
<1>3. QED
  BY <1>1, <1>2, StreamInvariant, ErrorInvariant, StepLast, PTL DEF SSpec

(* Everything sent in Values mode was sent by a superstep that has been    *)
(* applied, whether it has been received or not.                           *)
SentIsApplied ==
  Mode = "values" =>
    /\ \A i \in DOMAIN queue : ~IsError(queue[i]) => queue[i].step < step
    /\ \A i \in DOMAIN received : ~IsError(received[i]) => received[i].step < step

LEMMA StepApplied ==
  TypeOK /\ StreamTyped /\ ErrorsClose /\ SentIsApplied /\ [SNext]_svars
    => SentIsApplied'
<1> SUFFICES ASSUME TypeOK, StreamTyped, ErrorsClose, SentIsApplied,
                    [SNext]_svars, Mode = "values"
             PROVE  SentIsApplied'
  BY DEF SentIsApplied
<1>1. step \in Nat /\ (step' = step \/ step' = step + 1)
  BY StepAdvances DEF TypeOK
<1>2. /\ \A i \in DOMAIN queue : queue[i].step \in Nat
      /\ \A i \in DOMAIN received : received[i].step \in Nat
  <2>1. /\ \A i \in DOMAIN queue : queue[i] \in AllItems
        /\ \A i \in DOMAIN received : received[i] \in AllItems
    BY DEF StreamTyped
  <2>2. \A item \in AllItems : item.step \in Nat
    BY DEF AllItems
  <2>3. QED
    BY <2>1, <2>2
<1>3. /\ \A i \in DOMAIN queue : ~IsError(queue[i]) => queue[i].step < step'
      /\ \A i \in DOMAIN received : ~IsError(received[i]) => received[i].step < step'
  BY <1>1, <1>2 DEF SentIsApplied
<1>4. CASE SAfterTick
  <2>1. step' = step + 1 /\ UNCHANGED received
    BY <1>4 DEF SAfterTick, AfterTick
  <2>2. CASE UNCHANGED queue
    BY <1>3, <2>1, <2>2 DEF SentIsApplied
  <2>3. CASE TrySend(Item(Snapshot(channels')))
    <3>1. \/ queue' = queue
          \/ queue' = Append(queue, Item(Snapshot(channels')))
      BY <2>3, Zenon DEF TrySend
    <3>2. Item(Snapshot(channels')).step < step'
      BY <1>1, <2>1 DEF Item
    <3>3. CASE queue' = Append(queue, Item(Snapshot(channels')))
      <4>1. /\ DOMAIN queue' = 1..Len(queue) + 1
            /\ \A i \in 1..Len(queue) : queue'[i] = queue[i]
            /\ queue'[Len(queue) + 1] = Item(Snapshot(channels'))
            /\ DOMAIN queue = 1..Len(queue) /\ Len(queue) \in Nat
        BY <3>3 DEF StreamTyped
      <4>2. QED
        BY <1>3, <2>1, <3>2, <4>1 DEF SentIsApplied
    <3>4. QED
      BY <1>3, <2>1, <3>1, <3>3 DEF SentIsApplied
  <2>4. QED
    BY <1>4, <2>2, <2>3 DEF SAfterTick
<1>5. CASE SExecute
  <2>1. UNCHANGED <<queue, received>>
    BY <1>5 DEF SExecute, UpdatesItem
  <2>2. QED
    BY <1>3, <2>1 DEF SentIsApplied
<1>6. CASE SendError
  <2>1. UNCHANGED received
    BY <1>6 DEF SendError
  <2>2. queue' = queue \/ queue' = Append(queue, ErrorItem)
    BY <1>6, Zenon DEF SendError
  <2>3. CASE queue' = Append(queue, ErrorItem)
    <3>1. /\ DOMAIN queue' = 1..Len(queue) + 1
          /\ \A i \in 1..Len(queue) : queue'[i] = queue[i]
          /\ queue'[Len(queue) + 1] = ErrorItem
          /\ DOMAIN queue = 1..Len(queue) /\ Len(queue) \in Nat
      BY <2>3 DEF StreamTyped
    <3>2. IsError(ErrorItem)
      BY DEF IsError, ErrorItem
    <3>3. QED
      BY <1>3, <2>1, <3>1, <3>2 DEF SentIsApplied
  <2>4. QED
    BY <1>3, <2>1, <2>2, <2>3 DEF SentIsApplied
<1>7. CASE Receive
  <2>1. /\ DOMAIN received' = 1..Len(received) + 1
        /\ Len(received') = Len(received) + 1
        /\ \A i \in 1..Len(received) : received'[i] = received[i]
        /\ received'[Len(received')] = queue[1]
        /\ DOMAIN received = 1..Len(received) /\ Len(received) \in Nat
        /\ DOMAIN queue = 1..Len(queue) /\ Len(queue) \in Nat \ {0}
        /\ \/ queue' = <<>>
           \/ /\ DOMAIN queue' = 1..Len(queue) - 1
              /\ \A i \in DOMAIN queue' : queue'[i] = queue[i + 1]
    BY <1>7, ReceiveEffect
  <2>2. \A i \in DOMAIN received' : ~IsError(received'[i]) => received'[i].step < step'
    BY <1>3, <2>1
  <2>3. \A i \in DOMAIN queue' : ~IsError(queue'[i]) => queue'[i].step < step'
    <3>1. CASE queue' = <<>>
      BY <3>1
    <3>2. CASE queue' # <<>>
      BY <1>3, <2>1, <3>2
    <3>3. QED
      BY <3>1, <3>2
  <2>4. QED
    BY <2>2, <2>3 DEF SentIsApplied
<1>8. CASE UNCHANGED received /\ (UNCHANGED queue \/ queue' = <<>>)
  BY <1>3, <1>8 DEF SentIsApplied
<1>9. QED
  BY <1>4, <1>5, <1>6, <1>7, <1>8
     DEF SNext, Task, Caller, SQuiet, ReceiveNone, CallerDrops, SNode,
         Returned, svars, stream

(* What a caller of stream has seen in Values mode survives into the later *)
(* states of the run.                                                      *)
THEOREM StreamedWasApplied == SSpec => []StreamedIsApplied
<1>1. SInit => SentIsApplied
  BY DEF SInit, SentIsApplied
<1>2. SentIsApplied => StreamedIsApplied
  BY DEF SentIsApplied, StreamedIsApplied
<1>3. QED
  BY <1>1, <1>2, StreamInvariant, ErrorInvariant, StepApplied, PTL DEF SSpec

-----------------------------------------------------------------------------
(* What invoke returns of a run that fits in the channel.                  *)

LEMMA StateChannel ==
  ASSUME StreamsState, NEW c \in StreamChannels
  PROVE  c \in Channels /\ ~IsBarrier(c) /\ Kind[c] # "ephemeral"
BY StreamAssumption DEF StreamsState, IsBarrier

(* The input and the consumption of triggers do not touch what is streamed. *)
LEMMA ConsumedKeeps ==
  ASSUME StreamsState, NEW chs, NEW T, NEW c \in StreamChannels
  PROVE  Consumed(chs, T)[c] = chs[c]
BY StateChannel DEF Consumed, Consume

LEMMA EnterKeeps ==
  ASSUME StreamsState, Enter, NEW c \in StreamChannels
  PROVE  channels'[c] = channels[c]
<1>1. PICK w \in Inputs : channels' = Stored(channels, [d \in DOMAIN w |-> <<w[d]>>])
  BY Zenon DEF Enter
<1>2. c \notin DOMAIN w /\ c \in Channels
  BY StateChannel, GraphAssumption
<1>3. QED
  BY <1>1, <1>2 DEF Stored

LEMMA SameSnapshot ==
  ASSUME NEW one, NEW other, \A c \in StreamChannels : one[c] = other[c]
  PROVE  Snapshot(one) = Snapshot(other)
<1> DEFINE ready(chs) == {c \in StreamChannels : Available(c, chs[c])}
<1>1. ready(one) = ready(other)
  OBVIOUS
<1>2. [c \in ready(one) |-> one[c]] = [c \in ready(other) |-> other[c]]
  BY <1>1
<1>3. \A chs : Snapshot(chs) = IF ready(chs) = {} THEN NoData
                               ELSE Shape([c \in ready(chs) |-> chs[c]])
  BY DEF Snapshot
<1> HIDE DEF ready
<1>4. QED
  BY <1>1, <1>2, <1>3

(* A superstep that updates no stream channel leaves them all as they are. *)
LEMMA NotUpdatedKeeps ==
  ASSUME StreamsState, TypeOK, AfterTick, NEW c \in StreamChannels, c \notin updated'
  PROVE  channels'[c] = channels[c]
<1> DEFINE chs == Consumed(channels, tasks)
           G == Grouped(tasks, writes)
<1>1. channels' = Stored(chs, G) /\ updated' = Changed(chs, G)
  BY Zenon DEF AfterTick
<1>2. c \in Channels /\ ~IsBarrier(c) /\ chs[c] = channels[c]
  BY StateChannel, ConsumedKeeps
<1>3. chs[c] \in ChannelStates(c)
  BY <1>2 DEF TypeOK
<1>4. ASSUME c \in DOMAIN G PROVE FALSE
  <2>1. G[c] \in Seq(Values) /\ Len(G[c]) > 0
    BY <1>4, GroupedType DEF TypeOK
  <2> HIDE DEF chs, G
  <2>2. UpdateChanges(c, chs[c], G[c]) /\ Available(c, UpdateResult(c, chs[c], G[c]))
    BY <1>2, <1>3, <2>1, UpdatedAvailable
  <2>3. QED
    BY <1>1, <1>4, <2>2 DEF Changed
<1> HIDE DEF chs, G
<1>5. QED
  BY <1>1, <1>2, <1>4 DEF Stored

(* The last snapshot that was made of a run, whether it found room or not, *)
(* is what its stream channels hold.                                       *)
LastSnapshot ==
  Mode = "values" /\ outcome # "error" =>
    Snapshot(channels) =
      IF produced = <<>> THEN NoData ELSE produced[Len(produced)].data

LEMMA InitSnapshot == SInit => LastSnapshot
<1> SUFFICES ASSUME SInit PROVE Snapshot(channels) = NoData /\ produced = <<>>
  BY DEF LastSnapshot
<1>1. \A c \in StreamChannels : ~Available(c, channels[c])
  BY FreshIsEmpty, EmptyType, StreamAssumption DEF SInit, Init
<1>2. QED
  BY <1>1 DEF Snapshot, SInit

LEMMA OutcomeKept ==
  ASSUME Lifecycle, [SNext]_svars, outcome' # "error"
  PROVE  outcome # "error"
<1>1. CASE phase # "ended"
  BY <1>1 DEF Lifecycle
<1>2. CASE phase = "ended"
  <2>1. ~Loop
    BY <1>2, LoopControl
  <2>2. ~SExecute /\ ~SAfterTick /\ ~SQuiet
    BY <2>1 DEF SExecute, SAfterTick, SQuiet, Loop
  <2>3. UNCHANGED outcome
    BY <2>2, LeaveEffect
       DEF SNext, Task, Caller, SendError, Receive, ReceiveNone, CallerDrops,
           SNode, Node, Return, Fail, Panic, Returned, svars, vars, control
  <2>4. QED
    BY <2>3
<1>3. QED
  BY <1>1, <1>2

LEMMA StepSnapshot ==
  StreamsState /\ TypeOK /\ StreamTyped /\ Lifecycle /\ LastSnapshot /\ [SNext]_svars
    => LastSnapshot'
<1> SUFFICES ASSUME StreamsState, TypeOK, StreamTyped, Lifecycle, LastSnapshot,
                    [SNext]_svars, Mode = "values", outcome' # "error"
             PROVE  Snapshot(channels') = IF produced' = <<>> THEN NoData
                                          ELSE produced'[Len(produced')].data
  BY DEF LastSnapshot
<1>1. Snapshot(channels) =
        IF produced = <<>> THEN NoData ELSE produced[Len(produced)].data
  BY OutcomeKept DEF LastSnapshot
<1>2. ASSUME UNCHANGED produced, \A c \in StreamChannels : channels'[c] = channels[c]
      PROVE  Snapshot(channels') = IF produced' = <<>> THEN NoData
                                   ELSE produced'[Len(produced')].data
  <2>1. Snapshot(channels') = Snapshot(channels)
    BY <1>2, SameSnapshot
  <2>2. QED
    BY <1>1, <1>2, <2>1
<1>3. CASE SAfterTick
  <2>1. CASE ValuesItem
    <3>1. produced' = Append(produced, Item(Snapshot(channels')))
      BY <1>3, <2>1 DEF SAfterTick, TrySend
    <3>2. /\ Len(produced') = Len(produced) + 1 /\ Len(produced) \in Nat
          /\ produced'[Len(produced) + 1] = Item(Snapshot(channels'))
      BY <3>1 DEF StreamTyped
    <3>3. produced' # <<>>
      <4>1. Len(<<>>) = 0
        OBVIOUS
      <4>2. QED
        BY <3>2, <4>1
    <3>4. Item(Snapshot(channels')).data = Snapshot(channels')
      BY DEF Item
    <3>5. QED
      BY <3>2, <3>3, <3>4
  <2>2. CASE ~ValuesItem
    <3>1. UNCHANGED produced /\ AfterTick
      BY <1>3, <2>2 DEF SAfterTick
    <3>2. \A c \in StreamChannels : c \notin updated'
      BY <2>2 DEF ValuesItem
    <3>3. QED
      BY <1>2, <3>1, <3>2, NotUpdatedKeeps
  <2>3. QED
    BY <2>1, <2>2
<1>4. CASE SExecute
  BY <1>2, <1>4 DEF SExecute, UpdatesItem, JoinOk, state
<1>5. CASE SQuiet
  <2>1. UNCHANGED produced
    BY <1>5 DEF SQuiet
  <2>2. CASE Enter
    BY <1>2, <2>1, <2>2, EnterKeeps
  <2>3. CASE AfterTickErr
    BY <2>3 DEF AfterTickErr, End
  <2>4. CASE UNCHANGED channels
    BY <1>2, <2>1, <2>4
  <2>5. QED
    BY <1>5, <2>2, <2>3, <2>4
       DEF SQuiet, EnterEmpty, OutOfSteps, Prepare, Done, JoinErr, Unwind, LeaveScope, state
<1>6. CASE UNCHANGED <<channels, produced>>
  BY <1>2, <1>6
<1>7. QED
  BY <1>3, <1>4, <1>5, <1>6
     DEF SNext, Task, Caller, SendError, Receive, ReceiveNone, CallerDrops, Leave,
         DropReceiver, SNode, Node, Return, Fail, Panic, Returned, svars, vars,
         state, stream

(* Until an item is dropped, what has been received and what is queued is  *)
(* what has been sent, in that order; invoke drops none before the channel *)
(* is full, and does not return before it has received them all.           *)
Delivered ==
  outcome # "error" =>
    /\ open =>
         /\ Len(received \o queue) <= Len(produced)
         /\ Len(received \o queue) = Len(produced) => received \o queue = produced
    /\ Invoke =>
         /\ sender = "alive" => received = <<>>
         /\ Len(produced) <= Capacity => received \o queue = produced
         /\ caller = "returned" => queue = <<>>

LEMMA InitDelivered == SInit => Delivered
<1>1. <<>> \o <<>> = <<>> /\ Len(<<>>) <= Len(<<>>)
  OBVIOUS
<1>2. QED
  BY <1>1 DEF SInit, Delivered

(* An item that is sent follows all others, or is dropped.                 *)
LEMMA SentDelivered ==
  ASSUME StreamTyped, Lifecycle, ErrorAwaited, Delivered, phase # "ended",
         NEW item \in AllItems, TrySend(item), UNCHANGED <<received, caller, open>>
  PROVE  Delivered'
<1>1. /\ sender = "alive" /\ outcome # "error"
      /\ Invoke => received = <<>> /\ open /\ caller = "receiving"
  BY DEF Lifecycle, StreamTyped, ErrorAwaited, Delivered
<1> DEFINE had == received \o queue
<1>2. queue \in Seq(AllItems) /\ received \in Seq(AllItems) /\ produced \in Seq(AllItems)
  BY DEF StreamTyped
<1>3. /\ had \in Seq(AllItems) /\ Len(had) \in Nat /\ Len(produced) \in Nat
      /\ Len(queue) \in Nat /\ Capacity \in Nat
  BY <1>2, StreamAssumption
<1>4. produced' = Append(produced, item) /\ Len(produced') = Len(produced) + 1
  BY <1>2 DEF TrySend
<1>5. /\ received \o Append(queue, item) = Append(had, item)
      /\ Len(Append(had, item)) = Len(had) + 1
  <2>1. /\ Append(queue, item) = queue \o <<item>> /\ Append(had, item) = had \o <<item>>
        /\ <<item>> \in Seq(AllItems)
    BY <1>2, <1>3, AppendIsConcat
  <2>2. received \o (queue \o <<item>>) = (received \o queue) \o <<item>>
    BY <1>2, <2>1, ConcatAssociative
  <2>3. QED
    BY <1>3, <2>1, <2>2
<1>6. \/ queue' = queue /\ ~(open /\ Len(queue) < Capacity)
      \/ queue' = Append(queue, item)
  BY Zenon DEF TrySend
<1>7. Invoke => had = queue
  BY <1>1, <1>2
<1> HIDE DEF had
<1>8. ASSUME open'
      PROVE  /\ Len(received' \o queue') <= Len(produced')
             /\ Len(received' \o queue') = Len(produced') => received' \o queue' = produced'
  <2>1. /\ Len(had) <= Len(produced)
        /\ Len(had) = Len(produced) => had = produced
    BY <1>1, <1>8 DEF Delivered, had
  <2>2. CASE queue' = queue
    <3>1. received' \o queue' = had
      BY <2>2 DEF had
    <3>2. QED
      BY <1>3, <1>4, <2>1, <3>1
  <2>3. CASE queue' = Append(queue, item)
    <3>1. received' \o queue' = Append(had, item)
      BY <1>5, <2>3
    <3>2. QED
      BY <1>3, <1>4, <1>5, <2>1, <3>1
  <2>4. QED
    BY <1>6, <2>2, <2>3
<1>9. ASSUME Invoke, Len(produced') <= Capacity
      PROVE  received' \o queue' = produced'
  <2>1. had = produced
    BY <1>1, <1>3, <1>4, <1>9 DEF Delivered, had
  <2>2. Len(queue) < Capacity
    BY <1>3, <1>4, <1>7, <1>9, <2>1
  <2>3. queue' = Append(queue, item)
    BY <1>1, <1>3, <1>6, <1>9, <2>2
  <2>4. QED
    BY <1>4, <1>5, <2>1, <2>3
<1>10. Invoke => received' = <<>> /\ caller' # "returned"
  BY <1>1
<1>11. QED
  BY <1>8, <1>9, <1>10 DEF Delivered

LEMMA SkippedDelivered ==
  ASSUME Delivered, outcome # "error", UNCHANGED <<queue, received, caller>>,
         produced' = produced, open' => open, sender' = "alive" => sender = "alive"
  PROVE  Delivered'
BY DEF Delivered

(* Receiving takes the first item of the queue and loses nothing.          *)
LEMMA ReceivedDelivered ==
  ASSUME StreamTyped, Delivered, outcome # "error", Receive, ErrorsClose
  PROVE  Delivered'
<1>1. queue # <<>> /\ queue \in Seq(AllItems) /\ received \in Seq(AllItems)
  BY DEF StreamTyped, Receive
<1>2. ~IsError(Head(queue))
  <2>1. Head(queue) = queue[1] /\ 1 \in DOMAIN queue
    BY <1>1
  <2>2. QED
    BY <2>1 DEF ErrorsClose
<1>3. /\ UNCHANGED <<vars, caller, sender, produced>>
      /\ queue' = Tail(queue) /\ received' = Append(received, Head(queue))
      /\ caller = "receiving" /\ (Invoke => sender # "alive")
  BY <1>2, Zenon DEF Receive
<1>4. received' \o queue' = received \o queue
  <2>1. /\ Head(queue) \in AllItems /\ Tail(queue) \in Seq(AllItems)
        /\ <<Head(queue)>> \in Seq(AllItems)
    BY <1>1
  <2>2. Append(received, Head(queue)) = received \o <<Head(queue)>>
    BY <1>1, <2>1, AppendIsConcat
  <2>3. (received \o <<Head(queue)>>) \o Tail(queue) = received \o (<<Head(queue)>> \o Tail(queue))
    BY <1>1, <2>1, ConcatAssociative
  <2>4. <<Head(queue)>> \o Tail(queue) = queue
    BY <1>1
  <2>5. QED
    BY <1>3, <2>2, <2>3, <2>4
<1>5. open' = open /\ outcome' = outcome
  BY <1>3 DEF vars, control
<1>6. QED
  BY <1>3, <1>4, <1>5 DEF Delivered

LEMMA StepDelivered ==
  TypeOK /\ JoinOrder /\ StreamTyped /\ Lifecycle /\ ErrorsClose /\ ErrorAwaited
    /\ Delivered /\ [SNext]_svars => Delivered'
<1> SUFFICES ASSUME TypeOK, JoinOrder, StreamTyped, Lifecycle, ErrorsClose,
                    ErrorAwaited, Delivered, [SNext]_svars, outcome' # "error"
             PROVE  Delivered'
  BY DEF Delivered
<1>1. outcome # "error"
  BY OutcomeKept
<1>2. CASE SExecute
  <2>1. phase # "ended" /\ UNCHANGED <<received, caller, sender, open>>
    BY <1>2 DEF SExecute, JoinOk, JoinsNext, Goto, control
  <2>2. CASE UpdatesItem
    <3>1. TrySend(Item(Updates))
      BY <1>2, <2>2 DEF SExecute
    <3>2. Item(Updates) \in AllItems
      BY UpdatesType DEF Item, AllItems, TypeOK
    <3>3. QED
      BY <2>1, <3>1, <3>2, SentDelivered
  <2>3. CASE ~UpdatesItem
    <3>1. UNCHANGED <<queue, produced>>
      BY <1>2, <2>3 DEF SExecute
    <3>2. QED
      BY <1>1, <2>1, <3>1, SkippedDelivered
  <2>4. QED
    BY <2>2, <2>3
<1>3. CASE SAfterTick
  <2>1. phase # "ended" /\ UNCHANGED <<received, caller>> /\ AfterTick
    BY <1>3 DEF SAfterTick, AfterTick
  <2>2. sender = "alive" /\ open' = open
    BY <2>1, LoopControl DEF Lifecycle, Loop
  <2>3. CASE ValuesItem
    <3>1. TrySend(Item(Snapshot(channels')))
      BY <1>3, <2>3 DEF SAfterTick
    <3>2. ChannelsTyped(channels')
      BY StreamStep, StepType DEF TypeOK, ChannelsTyped
    <3>3. Item(Snapshot(channels')) \in AllItems
      BY <3>2, SnapshotType DEF Item, AllItems, TypeOK
    <3>4. QED
      BY <2>1, <2>2, <3>1, <3>3, SentDelivered
  <2>4. CASE ~ValuesItem
    <3>1. UNCHANGED <<queue, produced>>
      BY <1>3, <2>4 DEF SAfterTick
    <3>2. QED
      BY <1>1, <2>1, <2>2, <3>1, SkippedDelivered
  <2>5. QED
    BY <2>3, <2>4
<1>4. CASE SQuiet
  <2>1. Loop /\ UNCHANGED <<queue, received, caller, produced>>
    BY <1>4 DEF SQuiet, Loop
  <2>2. sender = "alive" /\ open' = open
    BY <2>1, LoopControl DEF Lifecycle
  <2>3. QED
    BY <1>1, <2>1, <2>2, SkippedDelivered
<1>5. CASE SendError
  BY <1>1, <1>5 DEF SendError, Lifecycle
<1>6. CASE Receive
  BY <1>1, <1>6, ReceivedDelivered
<1>7. CASE ReceiveNone
  <2>1. /\ queue = <<>> /\ sender = "gone" /\ open' = FALSE
        /\ UNCHANGED <<queue, sender, received, produced, outcome>>
    BY <1>7, LeaveEffect DEF ReceiveNone
  <2>2. QED
    BY <1>1, <2>1 DEF Delivered
<1>8. CASE CallerDrops
  <2>1. ~Invoke /\ open' = FALSE
    BY <1>8, LeaveEffect DEF CallerDrops
  <2>2. QED
    BY <2>1 DEF Delivered
<1>9. CASE UNCHANGED <<stream, open>>
  BY <1>1, <1>9, SkippedDelivered DEF stream
<1>10. QED
  BY <1>2, <1>3, <1>4, <1>5, <1>6, <1>7, <1>8, <1>9
     DEF SNext, Task, Caller, SNode, Node, Return, Fail, Panic, Returned,
         svars, vars, control

LEMMA DeliveredInvariant == SSpec => []Delivered
BY InitDelivered, StepDelivered, StreamInvariant, ErrorInvariant, PTL DEF SSpec

(* Everything is selected of a sequence: that is the sequence.             *)
LEMMA SelectedAll ==
  ASSUME NEW S, NEW s \in Seq(S)
  PROVE  Selected(s, DOMAIN s) = s
<1> DEFINE n == Len(s)
<1>1. n \in Nat /\ DOMAIN s = 1..n /\ s = [i \in 1..n |-> s[i]]
  OBVIOUS
<1>2. ASSUME NEW k \in 0..n PROVE Cardinality(1..k) = k
  <2>1. k \in Int /\ k >= 0
    BY <1>1
  <2>2. Cardinality(1..k) = IF 1 > k THEN 0 ELSE k - 1 + 1
    BY <2>1, FS_Interval
  <2>3. QED
    BY <2>1, <2>2
<1>3. ASSUME NEW k \in 1..n
      PROVE  Cardinality({j \in 1..n : j <= k}) = k
  <2>1. {j \in 1..n : j <= k} = 1..k /\ k \in 0..n
    BY <1>1
  <2>2. QED
    BY <1>2, <2>1, Zenon
<1>4. \A k \in 1..n : Cardinality({j \in 1..n : j <= k}) = k
  BY <1>3
<1>5. \A i \in 1..n : (CHOOSE k \in 1..n : Cardinality({j \in 1..n : j <= k}) = i) = i
  BY <1>4
<1>6. Cardinality(1..n) = n
  BY <1>1, <1>2
<1> HIDE DEF n
<1>7. Selected(s, 1..n) =
        [i \in 1..n |-> s[CHOOSE k \in 1..n : Cardinality({j \in 1..n : j <= k}) = i]]
  BY <1>6 DEF Selected
<1>8. QED
  BY <1>1, <1>5, <1>7

(* If the items of a run all fit in the channel, invoke returns the state  *)
(* the run has ended with, whatever the graph.                             *)
THEOREM FinalIfShort ==
  ASSUME StreamsState
  PROVE  SSpec => []ShortRunFinal
<1>1. ErrorsClose /\ StreamTyped /\ LastSnapshot /\ Delivered => ShortRunFinal
  <2> SUFFICES ASSUME ErrorsClose, StreamTyped, LastSnapshot, Delivered,
                      Len(produced) <= Capacity, Mode = "values", Invoke,
                      caller = "returned", outcome = "done"
               PROVE  Result = Snapshot(channels)
    BY DEF ShortRunFinal, ResultIsFinal
  <2>1. received \o queue = produced /\ queue = <<>>
    BY DEF Delivered
  <2>2. received = produced
    BY <2>1 DEF StreamTyped
  <2>3. Data(received) = received
    <3>1. {i \in DOMAIN received : ~IsError(received[i])} = DOMAIN received
      BY DEF ErrorsClose
    <3>2. received \in Seq(AllItems)
      BY DEF StreamTyped
    <3>3. QED
      BY <3>1, <3>2, SelectedAll DEF Data
  <2>4. QED
    BY <2>2, <2>3 DEF Result, LastSnapshot
<1>2. QED
  BY <1>1, InitSnapshot, StepSnapshot, DeliveredInvariant, StreamInvariant,
     ErrorInvariant, PTL DEF SSpec

-----------------------------------------------------------------------------
(* Replaying updates.                                                      *)

(* f[i] is what the first i of the items replay to, for all i up to n.     *)
Replays(f, items, n) ==
  f = [i \in 0..n |-> IF i = 0 THEN [c \in Channels |-> Empty(c)]
                               ELSE Stored(f[i - 1], GroupedItem(items[i]))]

LEMMA ReplaysExist ==
  ASSUME NEW items, NEW n \in Nat
  PROVE  \E f : Replays(f, items, n)
<1> DEFINE T == {k \in Nat : ~ \E f : Replays(f, items, k)}
<1> SUFFICES ASSUME T # {} PROVE FALSE
  OBVIOUS
<1>1. PICK x \in T : \A y \in T : x <= y
  BY SmallestNumber
<1>2. x \in Nat /\ ~ \E f : Replays(f, items, x)
  BY <1>1
<1>3. CASE x = 0
  <2> DEFINE f == [i \in 0..0 |-> [c \in Channels |-> Empty(c)]]
  <2>1. Replays(f, items, 0)
    BY DEF Replays
  <2>2. QED
    BY <1>2, <1>3, <2>1
<1>4. CASE x # 0
  <2>1. x - 1 \in Nat /\ x - 1 \notin T
    BY <1>1, <1>2, <1>4
  <2>2. PICK f : Replays(f, items, x - 1)
    BY <2>1
  <2> DEFINE g == [i \in 0..x |-> IF i = x THEN Stored(f[x - 1], GroupedItem(items[x]))
                                           ELSE f[i]]
  <2>3. ASSUME NEW i \in 0..x
        PROVE  g[i] = IF i = 0 THEN [c \in Channels |-> Empty(c)]
                               ELSE Stored(g[i - 1], GroupedItem(items[i]))
    <3>1. CASE i = x
      <4>1. g[i] = Stored(f[x - 1], GroupedItem(items[x])) /\ g[x - 1] = f[x - 1]
        BY <1>2, <1>4, <3>1
      <4>2. QED
        BY <1>4, <3>1, <4>1
    <3>2. CASE i # x
      <4>1. i \in 0..(x - 1) /\ g[i] = f[i] /\ (i # 0 => g[i - 1] = f[i - 1])
        BY <1>2, <3>2
      <4>2. f[i] = IF i = 0 THEN [c \in Channels |-> Empty(c)]
                            ELSE Stored(f[i - 1], GroupedItem(items[i]))
        BY <2>2, <4>1, Zenon DEF Replays
      <4>3. QED
        BY <4>1, <4>2
    <3>3. QED
      BY <3>1, <3>2
  <2>4. g = [i \in 0..x |-> g[i]]
    OBVIOUS
  <2> HIDE DEF g
  <2>5. Replays(g, items, x)
    BY <2>3, <2>4 DEF Replays
  <2>6. QED
    BY <1>2, <2>5
<1>5. QED
  BY <1>3, <1>4

LEMMA ReplaysAgree ==
  ASSUME NEW one, NEW other, NEW m \in Nat, NEW n \in Nat, NEW f, NEW g,
         Replays(f, one, m), Replays(g, other, n),
         NEW k \in Nat, k <= m, k <= n, \A i \in 1..k : one[i] = other[i]
  PROVE  f[k] = g[k]
<1> DEFINE T == {i \in Nat : i <= k /\ f[i] # g[i]}
<1> SUFFICES ASSUME T # {} PROVE FALSE
  OBVIOUS
<1>1. PICK x \in T : \A y \in T : x <= y
  BY SmallestNumber
<1>2. x \in 0..m /\ x \in 0..n /\ f[x] # g[x] /\ x <= k
  BY <1>1
<1>3. f[x] = IF x = 0 THEN [c \in Channels |-> Empty(c)]
                      ELSE Stored(f[x - 1], GroupedItem(one[x]))
  BY <1>2, Zenon DEF Replays
<1>4. g[x] = IF x = 0 THEN [c \in Channels |-> Empty(c)]
                      ELSE Stored(g[x - 1], GroupedItem(other[x]))
  BY <1>2, Zenon DEF Replays
<1>5. x # 0
  BY <1>2, <1>3, <1>4
<1>6. x - 1 \in Nat /\ x - 1 \notin T /\ x - 1 <= k /\ x \in 1..k
  BY <1>1, <1>2, <1>5
<1>7. f[x - 1] = g[x - 1] /\ one[x] = other[x]
  BY <1>6
<1>8. QED
  BY <1>2, <1>3, <1>4, <1>5, <1>7

LEMMA ReplayIs ==
  ASSUME NEW items, Len(items) \in Nat
  PROVE  \E f : Replays(f, items, Len(items)) /\ Replay(items) = f[Len(items)]
<1>1. \E f : Replays(f, items, Len(items))
  BY ReplaysExist
<1> DEFINE f == CHOOSE f : Replays(f, items, Len(items))
<1>2. Replays(f, items, Len(items))
  BY <1>1, Zenon
<1>3. Replay(items) = f[Len(items)]
  BY Zenon DEF Replay, Replays
<1>4. QED
  BY <1>2, <1>3, Zenon

LEMMA ReplayNothing == Replay(<<>>) = [c \in Channels |-> Empty(c)]
<1>1. Len(<<>>) = 0 /\ 0 \in Nat
  OBVIOUS
<1>2. PICK f : Replays(f, <<>>, 0) /\ Replay(<<>>) = f[0]
  BY <1>1, ReplayIs
<1>3. 0 \in 0..0
  OBVIOUS
<1>4. QED
  BY <1>2, <1>3, Zenon DEF Replays

LEMMA ReplayOneMore ==
  ASSUME NEW S, NEW items \in Seq(S), NEW x \in S
  PROVE  Replay(Append(items, x)) = Stored(Replay(items), GroupedItem(x))
<1> DEFINE n == Len(items)
           more == Append(items, x)
<1>1. /\ n \in Nat /\ Len(more) = n + 1 /\ n + 1 \in Nat /\ more[n + 1] = x
      /\ \A i \in 1..n : items[i] = more[i]
  OBVIOUS
<1> HIDE DEF n, more
<1>2. PICK f : Replays(f, items, n) /\ Replay(items) = f[n]
  BY <1>1, ReplayIs DEF n
<1>3. PICK g : Replays(g, more, n + 1) /\ Replay(more) = g[n + 1]
  <2>1. Len(more) \in Nat
    BY <1>1
  <2>2. QED
    BY <1>1, <2>1, ReplayIs
<1>4. f[n] = g[n]
  <2>1. n <= n /\ n <= n + 1
    BY <1>1
  <2>2. QED
    BY <1>1, <1>2, <1>3, <2>1, ReplaysAgree
<1>5. g[n + 1] = Stored(g[n], GroupedItem(x))
  <2>1. PICK m : m = n + 1
    OBVIOUS
  <2>2. m \in 0..m /\ m # 0 /\ m - 1 = n
    BY <1>1, <2>1
  <2>3. Replays(g, more, m)
    BY <1>3, <2>1
  <2>4. g[m] = Stored(g[m - 1], GroupedItem(more[m]))
    BY <2>2, <2>3, Zenon DEF Replays
  <2>5. QED
    BY <1>1, <2>1, <2>2, <2>4
<1>6. QED
  BY <1>2, <1>3, <1>4, <1>5 DEF more

(* The item of a superstep groups the values written to stream channels as *)
(* apply_writes is going to.                                               *)
LEMMA UpdatesAreGroups ==
  ASSUME TypeOK
  PROVE  /\ DOMAIN GroupedItem(Item(Updates)) = DOMAIN Grouped(tasks, writes) \cap StreamChannels
         /\ \A c \in DOMAIN Grouped(tasks, writes) \cap StreamChannels :
              GroupedItem(Item(Updates))[c] = Grouped(tasks, writes)[c]
<1> DEFINE item == Item(Updates)
           of(n) == [c \in StreamChannels \cap DOMAIN writes[n] |-> writes[n][c]]
           by(c) == {n \in DOMAIN item.data.of : c \in Touched(item, n)}
<1>1. item.data.of = [n \in Streaming |-> Shape(of(n))]
  BY DEF Item, Updates
<1>2. DOMAIN item.data.of = Streaming
  BY <1>1
<1>3. \A n \in Streaming : item.data.of[n].of =
        IF Cardinality(StreamChannels) = 1 THEN of(n)[CHOOSE c \in StreamChannels : TRUE]
                                           ELSE of(n)
  BY <1>1 DEF Shape
<1>4. ASSUME NEW c \in StreamChannels
      PROVE  /\ by(c) = Writers(c, tasks, writes)
             /\ \A n \in Writers(c, tasks, writes) : UpdateOf(item, n, c) = writes[n][c]
  <2>1. CASE Cardinality(StreamChannels) = 1
    <3>1. PICK x : StreamChannels = {x}
      BY <2>1, FS_Singleton, StreamAssumption
    <3>2. x = c /\ (CHOOSE d \in StreamChannels : TRUE) = c
      BY <3>1
    <3>3. \A n \in Streaming : Touched(item, n) = StreamChannels
      BY <2>1 DEF Touched
    <3>4. by(c) = Streaming
      BY <1>2, <3>3
    <3>5. Streaming = Writers(c, tasks, writes)
      BY <3>1, <3>2 DEF Streaming, Writers
    <3>6. \A n \in Streaming : UpdateOf(item, n, c) = of(n)[c]
      BY <1>3, <2>1, <3>2 DEF UpdateOf
    <3>7. QED
      BY <3>4, <3>5, <3>6 DEF Writers
  <2>2. CASE Cardinality(StreamChannels) # 1
    <3>1. \A n \in Streaming : Touched(item, n) = StreamChannels \cap DOMAIN writes[n]
      BY <1>3, <2>2 DEF Touched
    <3>2. by(c) = Writers(c, tasks, writes)
      BY <1>2, <3>1 DEF Writers, Streaming
    <3>3. \A n \in Writers(c, tasks, writes) : n \in Streaming
      BY DEF Writers, Streaming
    <3>4. \A n \in Streaming : UpdateOf(item, n, c) = of(n)[c]
      BY <1>3, <2>2 DEF UpdateOf
    <3>5. QED
      BY <3>2, <3>3, <3>4 DEF Writers
  <2>3. QED
    BY <2>1, <2>2
<1>5. GroupedItem(item) =
        [c \in {d \in StreamChannels : by(d) # {}} |->
           [i \in DOMAIN PathOrder(by(c)) |-> UpdateOf(item, PathOrder(by(c))[i], c)]]
  BY DEF GroupedItem
<1> HIDE DEF by, item, of
<1>6. DOMAIN GroupedItem(item) = DOMAIN Grouped(tasks, writes) \cap StreamChannels
  BY <1>4, <1>5, StreamAssumption DEF Grouped
<1>7. ASSUME NEW c \in DOMAIN Grouped(tasks, writes) \cap StreamChannels
      PROVE  GroupedItem(item)[c] = Grouped(tasks, writes)[c]
  <2> DEFINE W == Writers(c, tasks, writes)
             order == PathOrder(W)
  <2>1. by(c) = W /\ W # {}
    BY <1>4, <1>7 DEF Grouped
  <2>2. W \in SUBSET Nodes
    BY DEF Writers, TypeOK
  <2>3. order \in [1..Cardinality(W) -> W]
    BY <2>2, PathOrderSorts
  <2>4. GroupedItem(item)[c] = [i \in DOMAIN order |-> UpdateOf(item, order[i], c)]
    BY <1>5, <1>7, <2>1
  <2>5. Grouped(tasks, writes)[c] = [i \in DOMAIN order |-> writes[order[i]][c]]
    BY <1>7 DEF Grouped
  <2>6. \A i \in DOMAIN order : UpdateOf(item, order[i], c) = writes[order[i]][c]
    BY <1>4, <1>7, <2>3
  <2> HIDE DEF order
  <2>7. QED
    BY <2>4, <2>5, <2>6
<1>8. QED
  BY <1>6, <1>7 DEF item

(* Once the writes of a superstep are known, what it groups stays.         *)
LEMMA GroupsKept ==
  ASSUME TypeOK, tasks' = tasks, \A n \in tasks : writes'[n] = writes[n]
  PROVE  Grouped(tasks, writes)' = Grouped(tasks, writes)
<1>1. Grouped(tasks, writes') = Grouped(tasks, writes)
  BY GroupsAgree DEF TypeOK
<1>2. QED
  BY <1>1

(* What the stream channels hold, or will hold when the superstep at hand  *)
(* has been applied.                                                       *)
Due(c) ==
  IF phase = "apply" THEN Stored(Consumed(channels, tasks), Grouped(tasks, writes))[c]
                     ELSE channels[c]

(* All updates that were made of a run, dropped ones included, replay to   *)
(* that.                                                                   *)
ReplaysState ==
  Mode = "updates" /\ outcome # "error" =>
    \A c \in StreamChannels : Replay(produced)[c] = Due(c)

LEMMA InitReplay == SInit => ReplaysState
<1> SUFFICES ASSUME SInit, NEW c \in StreamChannels
             PROVE  Replay(produced)[c] = Due(c)
  BY DEF ReplaysState
<1>1. c \in Channels
  BY StreamAssumption
<1>2. Due(c) = Empty(c)
  BY <1>1, FreshIsEmpty DEF SInit, Init, Due
<1>3. QED
  BY <1>1, <1>2, ReplayNothing DEF SInit

LEMMA DueWithoutGroup ==
  ASSUME StreamsState, NEW c \in StreamChannels, c \notin DOMAIN Grouped(tasks, writes)
  PROVE  Stored(Consumed(channels, tasks), Grouped(tasks, writes))[c] = channels[c]
BY StateChannel, ConsumedKeeps DEF Stored

(* The last join of a superstep announces what the superstep is due to do. *)
LEMMA AnnouncedIsDue ==
  ASSUME StreamsState, TypeOK, StreamTyped, Lifecycle, ReplaysState, Mode = "updates",
         outcome # "error", SExecute, phase' = "apply", NEW c \in StreamChannels
  PROVE  Replay(produced')[c] = Stored(Consumed(channels, tasks), Grouped(tasks, writes))[c]
<1>1. phase = "join" /\ c \in Channels
  BY StateChannel DEF SExecute, JoinOk, JoinsNext
<1>2. Replay(produced)[c] = channels[c]
  BY <1>1 DEF ReplaysState, Due
<1>3. CASE Streaming = {}
  <2>1. UNCHANGED produced
    BY <1>3, Zenon DEF SExecute, UpdatesItem
  <2>2. Writers(c, tasks, writes) = {}
    BY <1>3 DEF Streaming, Writers
  <2>3. c \notin DOMAIN Grouped(tasks, writes)
    BY <2>2 DEF Grouped
  <2>4. QED
    BY <1>2, <2>1, <2>3, DueWithoutGroup
<1>4. CASE Streaming # {}
  <2>1. produced' = Append(produced, Item(Updates))
    BY <1>4, Zenon DEF SExecute, UpdatesItem, TrySend
  <2>2. Item(Updates) \in AllItems /\ produced \in Seq(AllItems)
    BY UpdatesType DEF Item, AllItems, TypeOK, StreamTyped
  <2>3. Replay(produced') = Stored(Replay(produced), GroupedItem(Item(Updates)))
    BY <2>1, <2>2, ReplayOneMore
  <2>4. CASE c \in DOMAIN Grouped(tasks, writes)
    <3>1. /\ c \in DOMAIN GroupedItem(Item(Updates))
          /\ GroupedItem(Item(Updates))[c] = Grouped(tasks, writes)[c]
      BY <2>4, UpdatesAreGroups
    <3>2. Consumed(channels, tasks)[c] = channels[c]
      BY ConsumedKeeps
    <3>3. QED
      BY <1>1, <1>2, <2>3, <2>4, <3>1, <3>2 DEF Stored
  <2>5. CASE c \notin DOMAIN Grouped(tasks, writes)
    <3>1. c \notin DOMAIN GroupedItem(Item(Updates))
      BY <2>5, UpdatesAreGroups
    <3>2. Replay(produced')[c] = channels[c]
      BY <1>1, <1>2, <2>3, <3>1 DEF Stored
    <3>3. QED
      BY <2>5, <3>2, DueWithoutGroup
  <2>6. QED
    BY <2>4, <2>5
<1>5. QED
  BY <1>3, <1>4

LEMMA StepReplay ==
  StreamsState /\ TypeOK /\ JoinOrder /\ StreamTyped /\ Lifecycle /\ ReplaysState
    /\ [SNext]_svars => ReplaysState'
<1> SUFFICES ASSUME StreamsState, TypeOK, JoinOrder, StreamTyped, Lifecycle,
                    ReplaysState, [SNext]_svars, Mode = "updates", outcome' # "error",
                    NEW c \in StreamChannels
             PROVE  Replay(produced')[c] = Due(c)'
  BY DEF ReplaysState
<1>1. outcome # "error" /\ Replay(produced)[c] = Due(c)
  BY OutcomeKept DEF ReplaysState
<1>2. ASSUME UNCHANGED produced, channels'[c] = channels[c],
             phase # "apply", phase' # "apply"
      PROVE  Replay(produced')[c] = Due(c)'
  BY <1>1, <1>2 DEF Due
<1>3. CASE SExecute
  <2>1. /\ phase = "join" /\ UNCHANGED <<channels, tasks, writes>>
        /\ phase' # "apply" => ~UpdatesItem
    BY <1>3 DEF SExecute, JoinOk, JoinsNext, state, UpdatesItem
  <2>2. CASE phase' = "apply"
    <3>1. Grouped(tasks, writes)' = Grouped(tasks, writes)
      BY <2>1, GroupsKept
    <3>2. Due(c)' = Stored(Consumed(channels, tasks), Grouped(tasks, writes))[c]
      BY <2>1, <2>2, <3>1 DEF Due, Consumed, Stored
    <3>3. QED
      BY <1>1, <1>3, <2>2, <3>2, AnnouncedIsDue
  <2>3. CASE phase' # "apply"
    <3>1. UNCHANGED produced
      BY <1>3, <2>1, <2>3 DEF SExecute
    <3>2. QED
      BY <1>2, <2>1, <2>3, <3>1
  <2>4. QED
    BY <2>2, <2>3
<1>4. CASE SAfterTick
  <2>1. phase = "apply" /\ channels' = Stored(Consumed(channels, tasks), Grouped(tasks, writes))
    BY <1>4, Zenon DEF SAfterTick, AfterTick
  <2>2. phase' # "apply"
    BY <1>4, AfterTickPhase DEF SAfterTick
  <2>3. UNCHANGED produced
    BY <1>4 DEF SAfterTick, ValuesItem
  <2>4. QED
    BY <1>1, <2>1, <2>2, <2>3 DEF Due
<1>5. CASE SQuiet
  <2>1. UNCHANGED produced
    BY <1>5 DEF SQuiet
  <2>2. CASE Enter
    BY <1>2, <2>1, <2>2, EnterKeeps DEF Enter, Goto
  <2>3. CASE AfterTickErr
    BY <2>3 DEF AfterTickErr, End
  <2>4. CASE EnterEmpty \/ OutOfSteps \/ Prepare \/ Done
    BY <1>2, <2>1, <2>4 DEF EnterEmpty, OutOfSteps, Prepare, Done, Goto, End, state
  <2>5. CASE JoinErr \/ Unwind \/ LeaveScope
    BY <1>2, <2>1, <2>5 DEF JoinErr, JoinsNext, Unwind, LeaveScope, Goto, End, state
  <2>6. QED
    BY <1>5, <2>2, <2>3, <2>4, <2>5 DEF SQuiet
<1>6. ASSUME UNCHANGED <<produced, channels, phase, tasks>>,
             phase = "apply" => \A n \in tasks : writes'[n] = writes[n]
      PROVE  Replay(produced')[c] = Due(c)'
  <2>1. CASE phase = "apply"
    <3>1. Grouped(tasks, writes)' = Grouped(tasks, writes)
      BY <1>6, <2>1, GroupsKept
    <3>2. Due(c)' = Due(c)
      BY <1>6, <2>1, <3>1 DEF Due, Consumed, Stored
    <3>3. QED
      BY <1>1, <1>6, <3>2
  <2>2. CASE phase # "apply"
    BY <1>2, <1>6, <2>2
  <2>3. QED
    BY <2>1, <2>2
<1>7. ASSUME NEW n \in Nodes, SNode(n)
      PROVE  Replay(produced')[c] = Due(c)'
  <2>1. /\ thread[n] = "running" /\ UNCHANGED <<produced, channels, phase, tasks>>
        /\ \A m \in tasks : m # n => writes'[m] = writes[m]
    BY <1>7 DEF SNode, Node, Return, Fail, Panic, control, state, stream, TypeOK
  <2>2. phase = "apply" => n \notin tasks
    BY <2>1 DEF JoinOrder
  <2>3. QED
    BY <1>6, <2>1, <2>2
<1>8. CASE SendError \/ Receive \/ ReceiveNone \/ CallerDrops \/ UNCHANGED svars
  <2>1. UNCHANGED <<produced, channels, phase, tasks, writes>>
    BY <1>8 DEF SendError, Receive, ReceiveNone, CallerDrops, Leave, DropReceiver,
                svars, vars, control, state, execution, stream
  <2>2. QED
    BY <1>6, <2>1
<1>9. QED
  BY <1>3, <1>4, <1>5, <1>7, <1>8 DEF SNext, Task, Caller, Returned

(* As long as no item was dropped, the updates a caller has received or    *)
(* can still receive give the state of the run, whatever the graph, the    *)
(* reducers and the timing of the threads.                                 *)
THEOREM UpdatesGiveState ==
  ASSUME StreamsState
  PROVE  SSpec => []UpdatesReplay
<1>1. Lifecycle /\ Delivered /\ ReplaysState => UpdatesReplay
  <2> SUFFICES ASSUME Lifecycle, Delivered, ReplaysState, Mode = "updates", open,
                      Len(received \o queue) = Len(produced),
                      phase = "tick" \/ outcome = "done", NEW c \in StreamChannels
               PROVE  Replay(received \o queue)[c] = channels[c]
    BY DEF UpdatesReplay
  <2>1. outcome # "error" /\ phase # "apply"
    BY DEF Lifecycle
  <2>2. received \o queue = produced
    BY <2>1 DEF Delivered
  <2>3. QED
    BY <2>1, <2>2 DEF ReplaysState, Due
<1>2. QED
  BY <1>1, InitReplay, StepReplay, DeliveredInvariant, StreamInvariant,
     ErrorInvariant, PTL DEF SSpec

-----------------------------------------------------------------------------
(* Termination.                                                            *)

(* What is queued and what the task still has to say.                      *)
Unsaid == IF sender = "gone" THEN 0 ELSE 2

LEMMA LessToDo ==
  ASSUME NEW r \in Nat, NEW s \in Nat, NEW p \in Nat, NEW q \in Nat,
         NEW u \in Nat, NEW v \in Nat,
         \/ s < r /\ q <= p + 1 /\ v <= u
         \/ s = r /\ q < p /\ v = u
         \/ s = r /\ q <= p + 1 /\ u = 2 /\ v = 0
  PROVE  2 * s + q + v \in Nat /\ 2 * s + q + v < 2 * r + p + u
OBVIOUS

LEMMA TrySendGrows ==
  ASSUME StreamTyped, NEW item, TrySend(item)
  PROVE  Len(queue') \in Nat /\ Len(queue') <= Len(queue) + 1
<1>1. queue \in Seq(AllItems) /\ Len(queue) \in Nat
  BY DEF StreamTyped
<1>2. queue' = queue \/ queue' = Append(queue, item)
  BY DEF TrySend
<1>3. queue \in Seq(AllItems \cup {item})
  BY <1>1
<1>4. QED
  BY <1>1, <1>2, <1>3

(* A step of the run itself, which sends at most one item.                 *)
LEMMA RunCounts ==
  ASSUME StreamTyped, Lifecycle, Remaining \in Nat, Remaining' \in Nat,
         Remaining' < Remaining,
         queue' = queue \/ (\E item : TrySend(item)),
         sender' = sender \/ (phase # "ended" /\ SenderAfter)
  PROVE  StreamRemaining' \in Nat /\ StreamRemaining' < StreamRemaining
<1>1. Len(queue) \in Nat /\ Len(queue') \in Nat /\ Len(queue') <= Len(queue) + 1
  BY TrySendGrows DEF StreamTyped
<1>2. Unsaid \in Nat /\ Unsaid' \in Nat /\ Unsaid' <= Unsaid
  BY DEF Unsaid, Lifecycle
<1>3. StreamRemaining = 2 * Remaining + Len(queue) + Unsaid
  BY DEF StreamRemaining, Unsaid
<1>4. StreamRemaining' = 2 * Remaining' + Len(queue') + Unsaid'
  BY DEF StreamRemaining, Unsaid
<1>5. QED
  BY <1>1, <1>2, <1>3, <1>4, LessToDo

LEMMA StepItemCounts ==
  TypeOK /\ JoinOrder /\ StreamTyped /\ StreamTyped' /\ Lifecycle /\ Sized /\ Sized'
    /\ ThreadsScoped /\ [SNext]_svars
    => [StreamRemaining' \in Nat /\ StreamRemaining' < StreamRemaining]_svars
<1> DEFINE Counts == StreamRemaining' \in Nat /\ StreamRemaining' < StreamRemaining
<1> SUFFICES ASSUME TypeOK, JoinOrder, StreamTyped, StreamTyped', Lifecycle,
                    Sized, Sized', ThreadsScoped, SNext, ~UNCHANGED svars
             PROVE  Counts
  OBVIOUS
<1>1. Remaining \in Nat /\ Remaining' \in Nat
  BY DEF Sized
<1>2. CASE SExecute
  <2>1. Loop /\ UNCHANGED sender
    BY <1>2 DEF SExecute, Loop
  <2>2. queue' = queue \/ (\E item : TrySend(item))
    BY <1>2, Zenon DEF SExecute
  <2>3. QED
    BY <1>1, <2>1, <2>2, LoopCounts, RunCounts
<1>3. CASE SAfterTick
  <2>1. Loop /\ SenderAfter
    BY <1>3 DEF SAfterTick, Loop
  <2>2. queue' = queue \/ (\E item : TrySend(item))
    BY <1>3, Zenon DEF SAfterTick
  <2>3. QED
    BY <1>1, <2>1, <2>2, LoopCounts, LoopControl, RunCounts
<1>4. CASE SQuiet
  <2>1. Loop /\ SenderAfter /\ queue' = queue
    BY <1>4 DEF SQuiet, Loop
  <2>2. QED
    BY <1>1, <2>1, LoopCounts, LoopControl, RunCounts
<1>5. ASSUME NEW n \in Nodes, SNode(n)
      PROVE  Counts
  <2>1. Node(n) /\ queue' = queue /\ sender' = sender
    BY <1>5 DEF SNode, stream
  <2>2. QED
    BY <1>1, <2>1, LoopCounts, RunCounts
<1>6. CASE Leave /\ Len(queue') <= Len(queue) /\ UNCHANGED sender
  <2>1. Remaining' < Remaining
    BY <1>6, LoopCounts DEF Leave
  <2>2. Len(queue) \in Nat /\ Len(queue') \in Nat
    BY DEF StreamTyped
  <2>3. Unsaid \in Nat /\ Unsaid' = Unsaid
    BY <1>6 DEF Unsaid
  <2>4. /\ StreamRemaining = 2 * Remaining + Len(queue) + Unsaid
        /\ StreamRemaining' = 2 * Remaining' + Len(queue') + Unsaid'
    BY DEF StreamRemaining, Unsaid
  <2>5. QED
    BY <1>1, <1>6, <2>1, <2>2, <2>3, <2>4, LessToDo
<1>7. ASSUME UNCHANGED vars,
             \/ Len(queue') < Len(queue) /\ sender' = sender
             \/ Len(queue') <= Len(queue) + 1 /\ sender = "sending" /\ sender' = "gone"
      PROVE  Counts
  <2>1. Remaining' = Remaining
    BY <1>7 DEF vars, control, state, execution, Remaining, LeftOfSuperstep
  <2>2. Len(queue) \in Nat /\ Len(queue') \in Nat
    BY DEF StreamTyped
  <2>3. /\ Unsaid \in Nat /\ Unsaid' \in Nat
        /\ sender' = sender => Unsaid' = Unsaid
        /\ sender = "sending" /\ sender' = "gone" => Unsaid = 2 /\ Unsaid' = 0
    BY DEF Unsaid
  <2>4. /\ StreamRemaining = 2 * Remaining + Len(queue) + Unsaid
        /\ StreamRemaining' = 2 * Remaining' + Len(queue') + Unsaid'
    BY DEF StreamRemaining, Unsaid
  <2>5. QED
    BY <1>1, <1>7, <2>1, <2>2, <2>3, <2>4, LessToDo
<1>8. CASE SendError
  <2>1. queue' = queue \/ queue' = Append(queue, ErrorItem)
    BY <1>8 DEF SendError
  <2>2. queue \in Seq(AllItems \cup {ErrorItem})
    BY DEF StreamTyped
  <2>3. Len(queue') <= Len(queue) + 1
    BY <2>1, <2>2
  <2>4. QED
    BY <1>7, <1>8, <2>3 DEF SendError
<1>9. CASE Receive
  <2>1. /\ queue \in Seq(AllItems) /\ queue # <<>> /\ UNCHANGED sender
        /\ Len(queue) \in Nat
    BY <1>9 DEF Receive, StreamTyped
  <2>2. CASE Leave /\ queue' = <<>>
    BY <1>6, <2>1, <2>2
  <2>3. CASE UNCHANGED vars /\ queue' = Tail(queue)
    BY <1>7, <2>1, <2>3
  <2>4. QED
    BY <1>9, <2>2, <2>3 DEF Receive
<1>10. CASE ReceiveNone \/ CallerDrops
  <2>1. /\ Leave /\ UNCHANGED sender
        /\ queue' = queue \/ queue' = <<>>
    BY <1>10 DEF ReceiveNone, CallerDrops
  <2>2. Len(queue') <= Len(queue)
    BY <2>1 DEF StreamTyped
  <2>3. QED
    BY <1>6, <2>1, <2>2
<1>11. QED
  BY <1>2, <1>3, <1>4, <1>5, <1>8, <1>9, <1>10 DEF SNext, Task, Caller, Returned

(* No stream and no invoke goes on for ever: what the run, its queue and   *)
(* its caller have left to do is a natural number that every step makes    *)
(* smaller, whether or not the caller receives.                            *)
THEOREM StreamsAreFinite == SSpec => EveryItemCounts
BY StreamImplementsLoop, StepItemCounts, StreamInvariant, ErrorInvariant,
   SizedInvariant, PTL DEF SSpec, EveryItemCounts
=============================================================================
