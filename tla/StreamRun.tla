----------------------------- MODULE StreamRun ------------------------------
(***************************************************************************)
(* A run together with the bounded mpsc channel it feeds and the caller    *)
(* that drains it: Pregel::stream and Pregel::invoke                       *)
(* (src/src/pregel/pregel.rs:178-269).                                     *)
(*                                                                         *)
(* The background task sends snapshots and updates with try_send, which    *)
(* drops the item when the queue is full, and errors with send().await,    *)
(* which waits for room. invoke drives the task and its own receive loop   *)
(* on one thread: the task has no await besides the one that sends an      *)
(* error, so invoke receives nothing before the task has ended or waits    *)
(* there.                                                                  *)
(***************************************************************************)
EXTENDS PregelLoop, Selections

CONSTANTS
  StreamChannels,   \* stream_channels: the state channels
  Mode,             \* stream_mode of the run: "values" or "updates"
  Capacity,         \* size of the mpsc channel, 16 in the code
  Invoke            \* TRUE: invoke; FALSE: a caller of stream

ASSUME StreamAssumption ==
  /\ StreamChannels \subseteq Channels /\ IsFiniteSet(StreamChannels)
  /\ Mode \in {"values", "updates"}
  /\ Capacity \in Nat \ {0}
  /\ Invoke \in BOOLEAN

(* With a state schema the stream channels are the ones it declares, of    *)
(* the two kinds the crate exports (src/src/channel/mod.rs:18-22). Without *)
(* one there is only START, an ephemeral channel.                          *)
StreamsState == \A c \in StreamChannels : Kind[c] \in {"last", "binop"}

VARIABLES
  queue,      \* items sent and not yet received
  sender,     \* the task: "alive", "sending" an error, or "gone"
  caller,     \* "receiving" or "returned"
  received,   \* items the caller has received
  produced,   \* history: every item of the run, dropped ones included
  leftAt      \* history: the step in which the receiver was dropped

stream == <<queue, sender, caller, received, produced, leftAt>>
svars == <<vars, stream>>

(* What is streamed of the values f that stream channels hold or are given: *)
(* an object, but of a graph with a single stream channel the bare value.  *)
Shape(f) ==
  IF Cardinality(StreamChannels) = 1
  THEN [is |-> "value", of |-> f[CHOOSE c \in StreamChannels : TRUE]]
  ELSE [is |-> "object", of |-> f]

NoData == [is |-> "null", of |-> <<>>]

(* read_stream_channels, when the channels are chs. *)
Snapshot(chs) ==
  LET ready == {c \in StreamChannels : Available(c, chs[c])}
  IN  IF ready = {} THEN NoData ELSE Shape([c \in ready |-> chs[c]])

(* Tasks that wrote a stream channel. *)
Streaming == {n \in tasks : DOMAIN writes[n] \cap StreamChannels # {}}

(* map_output_updates: for each of them its writes to stream channels.     *)
(* Nobody writes a channel twice, so there is one update per task.         *)
Updates ==
  [is |-> "object",
   of |-> [n \in Streaming |->
             Shape([c \in StreamChannels \cap DOMAIN writes[n] |-> writes[n][c]])]]

Item(data) == [kind |-> Mode, step |-> step, data |-> data]
ErrorItem == [kind |-> "error", step |-> step, data |-> NoData]
IsError(item) == item.kind = "error"
Data(items) == Selected(items, {i \in DOMAIN items : ~IsError(items[i])})

(* What invoke returns, unless an error: the last snapshot, or the list of *)
(* all updates.                                                            *)
Result ==
  IF Mode = "updates"          THEN [is |-> "list", of |-> Data(received)]
  ELSE IF Data(received) = <<>> THEN NoData
  ELSE Data(received)[Len(Data(received))].data

SInit ==
  /\ Init
  /\ queue = <<>>
  /\ sender = "alive"
  /\ caller = "receiving"
  /\ received = <<>>
  /\ produced = <<>>
  /\ leftAt = 0

(* Variants: the queue has no bound, ... *)
TrySendUnbounded(item) ==
  /\ queue' = IF open THEN Append(queue, item) ELSE queue
  /\ produced' = Append(produced, item)

(* ... or the last place is never used. *)
TrySendShort(item) ==
  /\ queue' = IF open /\ Len(queue) + 1 < Capacity THEN Append(queue, item) ELSE queue
  /\ produced' = Append(produced, item)

(* try_send: a full or closed channel drops the item. *)
TrySend(item) ==
  /\ queue' = IF open /\ Len(queue) < Capacity THEN Append(queue, item) ELSE queue
  /\ produced' = Append(produced, item)

(* When the main loop ends the task either still has an error to send or   *)
(* drops its sender.                                                       *)
SenderAfter ==
  sender' = IF phase' # "ended"        THEN "alive"
            ELSE IF outcome' = "error" THEN "sending"
            ELSE "gone"

(* Variants: the mode of the stream is not looked at, ... *)
UpdatesItemAnyMode == phase' = "apply" /\ Streaming # {}

(* ... or an item is sent whenever a task is joined.                       *)
UpdatesItemEachJoin == Mode = "updates" /\ Streaming \cap joined' # {}

(* execute, Updates mode: an item if some task wrote a stream channel. The *)
(* writes have not been applied yet.                                       *)
UpdatesItem == Mode = "updates" /\ phase' = "apply" /\ Streaming # {}

(* after_tick, Values mode: an item if some stream channel was updated. *)
ValuesItem == Mode = "values" /\ updated' \cap StreamChannels # {}

SExecute ==
  /\ JoinOk
  /\ IF UpdatesItem THEN TrySend(Item(Updates)) ELSE UNCHANGED <<queue, produced>>
  /\ UNCHANGED <<sender, caller, received, leftAt>>

SAfterTick ==
  /\ AfterTick
  /\ IF ValuesItem THEN TrySend(Item(Snapshot(channels'))) ELSE UNCHANGED <<queue, produced>>
  /\ SenderAfter
  /\ UNCHANGED <<caller, received, leftAt>>

(* The other steps of the main loop send nothing themselves. *)
SQuiet ==
  /\ \/ Enter \/ EnterEmpty
     \/ OutOfSteps \/ Prepare \/ Done
     \/ JoinErr \/ Unwind \/ LeaveScope
     \/ AfterTickErr
  /\ SenderAfter
  /\ UNCHANGED <<queue, caller, received, produced, leftAt>>

SNode(n) == Node(n) /\ UNCHANGED stream

(* Variants: errors are sent with try_send as well, ... *)
SendErrorLossy ==
  /\ sender = "sending"
  /\ queue' = IF open /\ Len(queue) < Capacity THEN Append(queue, ErrorItem) ELSE queue
  /\ sender' = "gone"
  /\ UNCHANGED <<vars, caller, received, produced, leftAt>>

(* ... or the task does not return after it has sent one. *)
SendErrorAgain ==
  /\ sender = "sending"
  /\ open => Len(queue) < Capacity
  /\ queue' = IF open THEN Append(queue, ErrorItem) ELSE queue
  /\ UNCHANGED <<vars, sender, caller, received, produced, leftAt>>

(* send(Err(error)).await: completes when there is room or the receiver is *)
(* gone; the task then ends.                                               *)
SendError ==
  /\ sender = "sending"
  /\ open => Len(queue) < Capacity
  /\ queue' = IF open THEN Append(queue, ErrorItem) ELSE queue
  /\ sender' = "gone"
  /\ UNCHANGED <<vars, caller, received, produced, leftAt>>

(* The receiver goes out of scope. *)
Leave == DropReceiver /\ caller' = "returned" /\ leftAt' = step

(* receiver.recv().await. invoke returns on the first error. *)
Receive ==
  /\ caller = "receiving"
  /\ queue # <<>>
  /\ Invoke => sender # "alive"
  /\ received' = Append(received, Head(queue))
  /\ IF Invoke /\ IsError(Head(queue))
     THEN Leave /\ queue' = <<>>
     ELSE UNCHANGED <<vars, caller, leftAt>> /\ queue' = Tail(queue)
  /\ UNCHANGED <<sender, produced>>

(* recv() yields None: the queue is empty and the sender is gone. *)
ReceiveNone ==
  /\ caller = "receiving"
  /\ queue = <<>>
  /\ sender = "gone"
  /\ Leave
  /\ UNCHANGED <<queue, sender, received, produced>>

(* A caller of stream may drop its receiver early, and with it what is     *)
(* still queued.                                                           *)
CallerDrops ==
  /\ ~Invoke
  /\ caller = "receiving"
  /\ Leave
  /\ queue' = <<>>
  /\ UNCHANGED <<sender, received, produced>>

Returned == caller = "returned" /\ sender = "gone" /\ UNCHANGED svars

Task == SExecute \/ SAfterTick \/ SQuiet \/ SendError
Caller == Receive \/ ReceiveNone

SNext ==
  \/ Task
  \/ \E n \in Nodes : SNode(n)
  \/ Caller \/ CallerDrops
  \/ Returned

SSpec == SInit /\ [][SNext]_svars

(* The runtime polls the task and, in invoke, the receive loop; threads    *)
(* are scheduled and node functions return. A caller of stream owes the    *)
(* run nothing.                                                            *)
SFairSpec ==
  /\ SSpec
  /\ WF_svars(Task)
  /\ \A n \in Nodes : WF_svars(SNode(n))
  /\ Invoke => WF_svars(Caller)

-----------------------------------------------------------------------------
(* Type invariant of the channel and its caller. *)
IsItem(item) ==
  /\ item.kind \in {Mode, "error"}
  /\ item.step \in Nat
  /\ item.data.is \in {"null", "value", "object"}

STypeOK ==
  /\ TypeOK
  /\ \A s \in {queue, received, produced} : \A i \in DOMAIN s : IsItem(s[i])
  /\ Len(queue) <= Capacity
  /\ sender \in {"alive", "sending", "gone"}
  /\ caller \in {"receiving", "returned"}
  /\ leftAt \in Nat

(* What invoke returns of a run that ended well is the state the run ended *)
(* with, ...                                                               *)
ResultIsFinal ==
  Mode = "values" /\ Invoke /\ caller = "returned" /\ outcome = "done" =>
    Result = Snapshot(channels)

(* ... provided that the items of the run all fit in the channel: invoke   *)
(* only starts to receive when the run is over.                            *)
ShortRunFinal == Len(produced) <= Capacity => ResultIsFinal

(* invoke fails exactly when the run ended in an error: an error is never  *)
(* dropped for want of room, unlike the items before it.                   *)
InvokeReportsError ==
  Invoke /\ caller = "returned" =>
    (outcome = "error" <=> \E i \in DOMAIN received : IsError(received[i]))

(* An error is the last thing a caller hears of a run. *)
ErrorIsLast ==
  \A i \in DOMAIN received : IsError(received[i]) =>
    i = Len(received) /\ queue = <<>>

(* Replaying updates: the channels an update of n is about, and the values *)
(* an item holds for each channel, grouped as apply_writes groups them.    *)
Touched(item, n) ==
  IF Cardinality(StreamChannels) = 1 THEN StreamChannels
                                     ELSE DOMAIN item.data.of[n].of
UpdateOf(item, n, c) ==
  IF Cardinality(StreamChannels) = 1 THEN item.data.of[n].of
                                     ELSE item.data.of[n].of[c]
GroupedItem(item) ==
  LET by(c) == {n \in DOMAIN item.data.of : c \in Touched(item, n)}
  IN  [c \in {d \in StreamChannels : by(d) # {}} |->
         [i \in DOMAIN PathOrder(by(c)) |-> UpdateOf(item, PathOrder(by(c))[i], c)]]
Replay(items) ==
  LET after[i \in 0..Len(items)] ==
        IF i = 0 THEN [c \in Channels |-> Empty(c)]
                 ELSE Stored(after[i - 1], GroupedItem(items[i]))
  IN  after[Len(items)]

(* As long as no item has been dropped, the updates a caller has received  *)
(* or can still receive, replayed over an empty state, give the state of   *)
(* the run: no update is missing, doubled or out of order, and none of a   *)
(* superstep that goes on was left unapplied.                              *)
UpdatesReplay ==
  Mode = "updates" /\ open /\ Len(received \o queue) = Len(produced)
    /\ (phase = "tick" \/ outcome = "done") =>
      \A c \in StreamChannels : Replay(received \o queue)[c] = channels[c]

(* A snapshot is streamed only for a superstep whose writes have all been  *)
(* applied: what the caller has seen survives into later state. (In        *)
(* Updates mode an item is sent before the writes are applied.)            *)
StreamedIsApplied ==
  Mode = "values" => \A i \in DOMAIN received :
    ~IsError(received[i]) => received[i].step < step

(* A run whose receiver is dropped stops soon: the main loop looks at the  *)
(* stream once per superstep, so it completes at most the superstep at     *)
(* hand, whatever the nodes do.                                            *)
AbandonedStopsSoon == ~open => step <= leftAt + 1

(* What the run, its queue and its caller still have to do. A step of the  *)
(* run sends at most one item, and the task ends with at most one error.   *)
StreamRemaining ==
  2 * Remaining + Len(queue) + (IF sender = "gone" THEN 0 ELSE 2)

(* Every item is sent once and received once: no step of the run, the task *)
(* or the caller can be repeated without end.                              *)
EveryItemCounts == [][StreamRemaining' \in Nat /\ StreamRemaining' < StreamRemaining]_svars

(* invoke always returns. *)
InvokeReturns == <>(caller = "returned")

(* The background task of an abandoned stream is not leaked: once the      *)
(* caller has dropped its receiver, the task ends.                         *)
AbandonedTaskEnds == [](~open => <>(sender = "gone"))

(* README: invoke "runs the whole graph and returns the final output". So  *)
(* if it returns no error, the run has been carried to its end (and        *)
(* ResultIsFinal holds).                                                   *)
InvokeOkMeansDone ==
  Invoke /\ caller = "returned" =>
    \/ outcome = "done"
    \/ \E i \in DOMAIN received : IsError(received[i])

=============================================================================
