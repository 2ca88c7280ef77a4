-------------------------- MODULE CheckpointProofs --------------------------
(***************************************************************************)
(* Theorems about CheckpointedLoop: what holds of every run with a         *)
(* checkpointer, and what a run that is resumed finds.                     *)
(***************************************************************************)
EXTENDS CheckpointedLoop, PregelLoopProofs

USE DEF ChannelsFit, GraphFits, InputFits

-----------------------------------------------------------------------------
(* Loading: what enter makes of the saver is well typed.                   *)

LEMMA EmptyCheckpointType == IsCheckpoint(EmptyCheckpoint)
<1>1. ASSUME NEW c \in Channels
      PROVE  FromCheckpoint(c, EmptyCheckpoint.values[c]) \in ChannelStates(c)
  BY EmptyType, CopyIsExact DEF EmptyCheckpoint, Copied
<1>2. QED
  BY <1>1 DEF IsCheckpoint, EmptyCheckpoint

(* The ids of a place are those of the checkpoints stored there.           *)
LEMMA StoredKeys ==
  ASSUME NEW sv, IsSaver(sv), NEW place, NEW i \in Ids(sv, place)
  PROVE  /\ <<place, i>> \in DOMAIN sv.stored
         /\ sv.stored[<<place, i>>].id = i
         /\ IsCheckpoint(sv.stored[<<place, i>>])
<1>1. PICK k \in DOMAIN sv.stored : k[1] = place /\ k[2] = i
  BY DEF Ids
<1>2. k = <<place, i>> /\ sv.stored[k].id = i
  BY <1>1 DEF IsSaver
<1>3. QED
  BY <1>2 DEF IsSaver

LEMMA PendingType ==
  ASSUME NEW sv, IsSaver(sv), NEW place, NEW i
  PROVE  IsPending(Pending(sv, place, i))
<1>1. CASE <<place, i>> \in DOMAIN sv.writes
  BY <1>1 DEF IsSaver, Pending
<1>2. CASE <<place, i>> \notin DOMAIN sv.writes
  <2>1. Pending(sv, place, i) = <<>> /\ Range(<<>>) = {}
    BY <1>2 DEF Pending, Range
  <2>2. QED
    BY <2>1 DEF IsPending
<1>3. QED
  BY <1>1, <1>2

LEMMA IdsAreNumbers ==
  ASSUME NEW sv, IsSaver(sv), NEW place
  PROVE  Ids(sv, place) \subseteq Nat
BY StoredKeys DEF IsCheckpoint

(* The loaded checkpoint is one of the thread, or the empty one.           *)
LEMMA LoadedFrom ==
  \/ Tuple = NoTuple /\ GetTuple(saver, Here, 0) = {}
  \/ \E i \in FindEntry(saver, Here, 0) :
       /\ i \in Ids(saver, Here)
       /\ Tuple = [checkpoint |-> saver.stored[<<Here, i>>],
                   pending |-> Pending(saver, Here, i)]
BY DEF Tuple, GetTuple, FindEntry

LEMMA LoadedType ==
  ASSUME IsSaver(saver)
  PROVE  /\ IsCheckpoint(Loaded)
         /\ Tuple.pending \in Seq(Range(Tuple.pending))
         /\ \A p \in Range(Tuple.pending) : IsWrites(p.writes)
<1>1. CASE Tuple = NoTuple
  <2>1. Loaded = EmptyCheckpoint /\ Tuple.pending = <<>>
    BY <1>1 DEF NoTuple, Loaded
  <2>2. QED
    BY <2>1, EmptyCheckpointType DEF Range
<1>2. ASSUME NEW i \in Ids(saver, Here),
             Tuple = [checkpoint |-> saver.stored[<<Here, i>>],
                      pending |-> Pending(saver, Here, i)]
      PROVE  /\ IsCheckpoint(Loaded)
             /\ Tuple.pending \in Seq(Range(Tuple.pending))
             /\ \A p \in Range(Tuple.pending) : IsWrites(p.writes)
  <2>1. Loaded = saver.stored[<<Here, i>>] /\ Tuple.pending = Pending(saver, Here, i)
    BY <1>2 DEF Loaded
  <2>2. IsCheckpoint(saver.stored[<<Here, i>>])
    BY StoredKeys
  <2>3. /\ Pending(saver, Here, i) \in Seq(Range(Pending(saver, Here, i)))
        /\ \A p \in Range(Pending(saver, Here, i)) : IsWrites(p.writes)
    BY PendingType DEF IsPending
  <2>4. QED
    BY <2>1, <2>2, <2>3
<1>3. QED
  BY <1>1, <1>2, LoadedFrom

(* The writes of the pseudo-task that replays.                             *)
LEMMA ReplayType ==
  ASSUME IsSaver(saver)
  PROVE  GroupsTyped(Replay)
<1> DEFINE pending    == Tuple.pending
           places(c)  == {i \in DOMAIN pending : c \in DOMAIN pending[i].writes}
           writing(c) == Selected(pending, places(c))
           K(c)       == Cardinality(places(c))
<1>1. /\ pending \in Seq(Range(pending))
      /\ \A p \in Range(pending) : IsWrites(p.writes)
  BY LoadedType
<1>2. \A i \in DOMAIN pending : IsWrites(pending[i].writes)
  BY <1>1 DEF Range
<1>3. Len(pending) \in Nat /\ DOMAIN pending = 1..Len(pending)
  BY <1>1, LenProperties
<1>4. ASSUME NEW c
      PROVE  /\ K(c) \in Nat
             /\ writing(c) \in [1..K(c) -> {pending[i] : i \in places(c)}]
             /\ K(c) = 0 => writing(c) = <<>>
  <2>1. places(c) \in SUBSET (1..Len(pending))
    BY <1>3
  <2> HIDE DEF places, pending
  <2>2. K(c) \in Nat /\ writing(c) \in [1..K(c) -> {pending[i] : i \in places(c)}]
    BY <1>3, <2>1, SelectedElements
  <2>3. K(c) = 0 => writing(c) = <<>>
    BY <2>2
  <2>4. QED
    BY <2>2, <2>3
<1>5. Replay = [c \in {d \in Channels : writing(d) # <<>>} |->
                  [i \in DOMAIN writing(c) |-> writing(c)[i].writes[c]]]
  BY DEF Replay
<1>6. \A c : \A p \in {pending[i] : i \in places(c)} : p.writes[c] \in Values
  BY <1>2 DEF IsWrites
<1> HIDE DEF writing, K, places, pending
<1>7. ASSUME NEW c \in DOMAIN Replay
      PROVE  Replay[c] \in Seq(Values) /\ Len(Replay[c]) > 0
  <2>1. c \in Channels /\ writing(c) # <<>>
    BY <1>5
  <2>2. K(c) \in Nat /\ K(c) > 0 /\ DOMAIN writing(c) = 1..K(c)
    BY <1>4, <2>1
  <2>3. Replay[c] \in [1..K(c) -> Values]
    BY <1>4, <1>5, <1>6, <2>2
  <2>4. QED
    BY <2>2, <2>3, LenProperties, SeqDef
<1>8. QED
  BY <1>5, <1>7 DEF GroupsTyped

(* What is replayed to a channel was pending.                              *)
LEMMA ReplayedHere ==
  ASSUME IsSaver(saver), NEW c \in DOMAIN Replay
  PROVE  \E p \in Range(Tuple.pending) : c \in DOMAIN p.writes
<1> DEFINE pending == Tuple.pending
           places  == {i \in DOMAIN pending : c \in DOMAIN pending[i].writes}
<1>1. c \in Channels /\ Selected(pending, places) # <<>>
  BY DEF Replay
<1>2. places # {}
  <2>1. Selected(pending, {}) = <<>>
    BY FS_EmptySet DEF Selected
  <2>2. QED
    BY <1>1, <2>1
<1>3. QED
  BY <1>2 DEF Range

(* The channels after the replay: one that refuses ends it.                *)
LEMMA FreshType == ChannelsTyped(FreshChannels)
BY FreshIsEmpty, EmptyType DEF ChannelsTyped, FreshChannels

LEMMA FirstFailing ==
  ASSUME NEW T \in SUBSET Channels, T # {}
  PROVE  \E f \in T : \A c \in T : Rank[f] <= Rank[c]
<1>1. \A c \in T : Rank[c] \in Nat
  BY GraphAssumption
<1>2. {Rank[c] : c \in T} \in SUBSET Nat /\ {Rank[c] : c \in T} # {}
  BY <1>1
<1>3. PICK x \in {Rank[c] : c \in T} : \A y \in {Rank[c] : c \in T} : x <= y
  BY <1>2, SmallestNumber
<1>4. QED
  BY <1>3

LEMMA ReplayedCases ==
  ASSUME IsSaver(saver)
  PROVE  \/ /\ Failing(FreshChannels, Replay) = {}
            /\ Replayed = Stored(FreshChannels, Replay)
         \/ \E f \in Failing(FreshChannels, Replay) :
              /\ \A c \in Failing(FreshChannels, Replay) : Rank[f] <= Rank[c]
              /\ Replayed = StoredUpTo(FreshChannels, Replay, f)
<1> DEFINE failing == Failing(FreshChannels, Replay)
<1>1. failing \in SUBSET Channels
  BY ReplayType DEF Failing, GroupsTyped
<1>2. Replayed = IF failing = {} THEN Stored(FreshChannels, Replay)
                 ELSE StoredUpTo(FreshChannels, Replay,
                        CHOOSE f \in failing : \A c \in failing : Rank[f] <= Rank[c])
  BY DEF Replayed
<1> HIDE DEF failing
<1>3. CASE failing = {}
  BY <1>2, <1>3 DEF failing
<1>4. CASE failing # {}
  <2>1. \E f \in failing : \A c \in failing : Rank[f] <= Rank[c]
    BY <1>1, <1>4, FirstFailing
  <2>2. QED
    BY <1>2, <1>4, <2>1 DEF failing
<1>5. QED
  BY <1>3, <1>4

LEMMA ReplayedType ==
  ASSUME IsSaver(saver)
  PROVE  ChannelsTyped(Replayed)
<1>1. GroupsTyped(Replay) /\ ChannelsTyped(FreshChannels)
  BY ReplayType, FreshType
<1>2. CASE /\ Failing(FreshChannels, Replay) = {}
           /\ Replayed = Stored(FreshChannels, Replay)
  BY <1>1, <1>2, StoredType
<1>3. ASSUME NEW f \in Failing(FreshChannels, Replay),
             \A c \in Failing(FreshChannels, Replay) : Rank[f] <= Rank[c],
             Replayed = StoredUpTo(FreshChannels, Replay, f)
      PROVE  ChannelsTyped(Replayed)
  BY <1>1, <1>3, StoredUpToType
<1>4. QED
  BY <1>2, <1>3, ReplayedCases

LEMMA LoadedValue ==
  ASSUME IsSaver(saver), NEW c \in Channels, ~IsBarrier(c), Loaded.values[c] # <<>>
  PROVE  Loaded.values[c] \in Seq(Values) /\ Len(Loaded.values[c]) > 0
<1> DEFINE value == Loaded.values[c]
<1>1. FromCheckpoint(c, value) \in ChannelStates(c)
  BY LoadedType DEF IsCheckpoint
<1>2. value \in Seq(Values)
  BY <1>1 DEF FromCheckpoint, ChannelStates
<1>3. value # <<>>
  OBVIOUS
<1> HIDE DEF value
<1>4. Len(value) > 0
  BY <1>2, <1>3, EmptySeq, LenProperties
<1>5. QED
  BY <1>2, <1>4 DEF value

LEMMA RestoredType ==
  ASSUME IsSaver(saver), NEW c \in Channels
  PROVE  Restored(c) \in ChannelStates(c)
<1> DEFINE old   == Replayed[c]
           value == Loaded.values[c]
<1>1. old \in ChannelStates(c)
  BY ReplayedType DEF ChannelsTyped
<1>2. CASE IsBarrier(c) \/ value = <<>>
  BY <1>1, <1>2 DEF Restored
<1>3. CASE ~IsBarrier(c) /\ value # <<>>
  <2>1. value \in Seq(Values) /\ Len(value) > 0
    BY <1>3, LoadedValue
  <2> HIDE DEF old, value
  <2>2. CASE UpdateFails(c, old, value)
    <3>1. Restored(c) = UpdateResidue(c, old, value)
      BY <1>3, <2>2 DEF Restored, old, value
    <3>2. QED
      BY <1>1, <2>1, <3>1, ResidueType
  <2>3. CASE ~UpdateFails(c, old, value)
    <3>1. Restored(c) = UpdateResult(c, old, value)
      BY <1>3, <2>3 DEF Restored, old, value
    <3>2. QED
      BY <1>1, <2>1, <2>3, <3>1, UpdateType
  <2>4. QED
    BY <2>2, <2>3
<1>4. QED
  BY <1>2, <1>3

-----------------------------------------------------------------------------
(* Saving: the operations of the saver.                                    *)

LEMMA PutEffect ==
  ASSUME NEW sv, NEW place, NEW cp, NEW new, new = Put(sv, place, cp)
  PROVE  /\ DOMAIN new.stored = DOMAIN sv.stored \cup {<<place, cp.id>>}
         /\ new.stored[<<place, cp.id>>] = cp
         /\ \A k \in DOMAIN sv.stored :
              k # <<place, cp.id>> => new.stored[k] = sv.stored[k]
         /\ new.writes = sv.writes
<1>1. /\ new.stored = [k \in DOMAIN sv.stored \cup {<<place, cp.id>>} |->
                         IF k = <<place, cp.id>> THEN cp ELSE sv.stored[k]]
      /\ new.writes = sv.writes
  BY DEF Put
<1>2. QED
  BY <1>1

LEMMA PutIds ==
  ASSUME NEW sv, NEW place, NEW cp
  PROVE  Ids(Put(sv, place, cp), place) = Ids(sv, place) \cup {cp.id}
<1> DEFINE key == <<place, cp.id>>
           new == Put(sv, place, cp)
<1>1. DOMAIN new.stored = DOMAIN sv.stored \cup {key}
  BY DEF Put
<1>2. key[1] = place /\ key[2] = cp.id
  OBVIOUS
<1> HIDE DEF key, new
<1>3. Ids(new, place) = Ids(sv, place) \cup {cp.id}
  BY <1>1, <1>2 DEF Ids
<1>4. QED
  BY <1>3 DEF new

LEMMA PutType ==
  ASSUME NEW sv, IsSaver(sv), NEW place, NEW cp, IsCheckpoint(cp)
  PROVE  IsSaver(Put(sv, place, cp))
<1> DEFINE key == <<place, cp.id>>
           new == Put(sv, place, cp)
<1>1. /\ DOMAIN new.stored = DOMAIN sv.stored \cup {key}
      /\ new.stored[key] = cp
      /\ \A k \in DOMAIN sv.stored : k # key => new.stored[k] = sv.stored[k]
      /\ new.writes = sv.writes
  BY PutEffect
<1> HIDE DEF new
<1>2. ASSUME NEW k \in DOMAIN new.stored
      PROVE  k = <<k[1], new.stored[k].id>> /\ IsCheckpoint(new.stored[k])
  <2>1. CASE k = key
    BY <1>1, <2>1
  <2>2. CASE k # key
    BY <1>1, <2>2 DEF IsSaver
  <2>3. QED
    BY <2>1, <2>2
<1>3. IsSaver(new)
  BY <1>1, <1>2 DEF IsSaver
<1>4. QED
  BY <1>3 DEF new

LEMMA AssembledType ==
  ASSUME TypeOK
  PROVE  /\ IsPending(Assembled)
         /\ \A p \in Range(Assembled) : p.task \in tasks /\ p.writes = writes[p.task]
<1> DEFINE T == {n \in tasks : DOMAIN writes[n] # {}}
           order == PathOrder(T)
<1>1. T \in SUBSET Nodes
  BY DEF TypeOK
<1>2. Cardinality(T) \in Nat /\ order \in [1..Cardinality(T) -> T]
  BY <1>1, PathOrderSorts, PathsAreRanked DEF PlacesOrder
<1>3. Assembled = [i \in DOMAIN order |-> [task |-> order[i], writes |-> writes[order[i]]]]
  BY DEF Assembled
<1> HIDE DEF order
<1>4. \A p \in Range(Assembled) : \E n \in T : p = [task |-> n, writes |-> writes[n]]
  BY <1>2, <1>3 DEF Range
<1>5. \A p \in Range(Assembled) :
        p.task \in tasks /\ p.task \in Nodes /\ p.writes = writes[p.task]
  BY <1>1, <1>4
<1>6. Assembled \in Seq(Range(Assembled))
  <2>1. Assembled \in [1..Cardinality(T) -> Range(Assembled)]
    BY <1>2, <1>3 DEF Range
  <2>2. QED
    BY <1>2, <2>1, SeqDef
<1>7. QED
  BY <1>5, <1>6 DEF IsPending, TypeOK

(* What put_writes leaves under a key is what was there or what is new.    *)
LEMMA PutWritesEffect ==
  ASSUME NEW sv, IsSaver(sv), NEW place, NEW id, NEW new, IsPending(new),
         NEW sw, sw = PutWrites(sv, place, id, new)
  PROVE  /\ sw.stored = sv.stored
         /\ \A k \in DOMAIN sw.writes :
              k # <<place, id>> => k \in DOMAIN sv.writes /\ sw.writes[k] = sv.writes[k]
         /\ IsPending(Pending(sw, place, id))
         /\ Range(Pending(sw, place, id))
              \subseteq Range(Pending(sv, place, id)) \cup Range(new)
<1> DEFINE key  == <<place, id>>
           old  == Pending(sv, place, id)
           kept == {i \in DOMAIN old : old[i].task \notin {new[j].task : j \in DOMAIN new}}
           both == Selected(old, kept) \o new
<1>1. IsPending(old)
  BY PendingType
<1>2. CASE new = <<>>
  <2>1. sw = sv
    BY <1>2 DEF PutWrites
  <2>2. QED
    BY <1>1, <2>1
<1>3. CASE new # <<>>
  <2>1. /\ sw.stored = sv.stored
        /\ sw.writes = [k \in DOMAIN sv.writes \cup {key} |->
                          IF k = key THEN both ELSE sv.writes[k]]
    BY <1>3 DEF PutWrites
  <2> DEFINE R == Range(old) \cup Range(new)
  <2>2. both \in Seq(R)
    <3>1. old \in Seq(Range(old)) /\ new \in Seq(Range(new))
      BY <1>1 DEF IsPending
    <3>2. Len(old) \in Nat /\ DOMAIN old = 1..Len(old)
      BY <3>1, LenProperties
    <3>3. kept \in SUBSET (1..Len(old))
      BY <3>2
    <3> HIDE DEF kept, old
    <3>4. /\ Cardinality(kept) \in Nat
          /\ Selected(old, kept) \in [1..Cardinality(kept) -> {old[k] : k \in kept}]
      BY <3>2, <3>3, SelectedElements
    <3>5. \A k \in kept : old[k] \in R
      BY <3>2, <3>3 DEF Range
    <3>6. Selected(old, kept) \in [1..Cardinality(kept) -> R]
      BY <3>4, <3>5
    <3>7. Selected(old, kept) \in Seq(R)
      BY <3>4, <3>6, SeqDef
    <3>8. new \in Seq(R)
      <4>1. Len(new) \in Nat /\ new \in [1..Len(new) -> Range(new)]
        BY <3>1, LenProperties
      <4>2. new \in [1..Len(new) -> R]
        BY <4>1
      <4>3. QED
        BY <4>1, <4>2, SeqDef
    <3>9. QED
      BY <3>7, <3>8, ConcatProperties
  <2>3. Range(both) \subseteq R
    BY <2>2, LenProperties DEF Range
  <2>4. IsPending(both)
    <3>1. both \in Seq(Range(both))
      BY <2>2, SeqOfRange
    <3>2. \A p \in R : p.task \in Nodes /\ IsWrites(p.writes)
      BY <1>1 DEF IsPending
    <3> HIDE DEF both, R
    <3>3. QED
      BY <2>3, <3>1, <3>2 DEF IsPending
  <2> HIDE DEF both, old
  <2>5. Pending(sw, place, id) = both
    BY <2>1 DEF Pending
  <2>6. QED
    BY <2>1, <2>3, <2>4, <2>5 DEF old
<1>4. QED
  BY <1>2, <1>3

LEMMA PutWritesType ==
  ASSUME NEW sv, IsSaver(sv), NEW place, NEW id, NEW new, IsPending(new)
  PROVE  IsSaver(PutWrites(sv, place, id, new))
<1> DEFINE sw == PutWrites(sv, place, id, new)
<1>1. /\ sw.stored = sv.stored
      /\ \A k \in DOMAIN sw.writes :
           k # <<place, id>> => k \in DOMAIN sv.writes /\ sw.writes[k] = sv.writes[k]
      /\ IsPending(Pending(sw, place, id))
  BY PutWritesEffect
<1> HIDE DEF sw
<1>2. ASSUME NEW k \in DOMAIN sw.writes
      PROVE  k = <<k[1], k[2]>> /\ IsPending(sw.writes[k])
  <2>1. CASE k = <<place, id>>
    BY <1>1, <2>1 DEF Pending
  <2>2. CASE k # <<place, id>>
    BY <1>1, <2>2 DEF IsSaver
  <2>3. QED
    BY <2>1, <2>2
<1>3. IsSaver(sw)
  BY <1>1, <1>2 DEF IsSaver
<1>4. QED
  BY <1>3 DEF sw

LEMMA DeleteThreadEffect ==
  ASSUME NEW sv, NEW thrd, NEW new, new = DeleteThread(sv, thrd)
  PROVE  /\ DOMAIN new.stored = {k \in DOMAIN sv.stored : k[1][1] # thrd}
         /\ \A k \in DOMAIN new.stored : new.stored[k] = sv.stored[k]
         /\ DOMAIN new.writes = {k \in DOMAIN sv.writes : k[1][1] # thrd}
         /\ \A k \in DOMAIN new.writes : new.writes[k] = sv.writes[k]
BY DEF DeleteThread, Elsewhere, Restrict

LEMMA DeleteThreadType ==
  ASSUME NEW sv, IsSaver(sv), NEW thrd
  PROVE  IsSaver(DeleteThread(sv, thrd))
BY DeleteThreadEffect DEF IsSaver

-----------------------------------------------------------------------------
(* START is the only input channel, so every input has the same effect on  *)
(* the plan.                                                               *)
LEMMA InputsEnterAtStart ==
  ASSUME NEW w \in Inputs, DOMAIN w # {}
  PROVE  DOMAIN w = UNION {DOMAIN v : v \in Inputs}
BY InputAssumption

LEMMA InputHasSubscriber ==
  ASSUME NEW w \in Inputs, DOMAIN w # {}
  PROVE  Entry # {}
<1>1. PICK start \in Channels :
        /\ \E n \in Nodes : start \in Triggers[n]
        /\ \A v \in Inputs : DOMAIN v \subseteq {start}
  BY InputAssumption
<1>2. PICK n \in Nodes : start \in Triggers[n]
  BY <1>1
<1>3. start \in UNION {DOMAIN v : v \in Inputs}
  BY <1>1
<1>4. n \in Entry
  BY <1>2, <1>3 DEF Entry
<1>5. QED
  BY <1>4

-----------------------------------------------------------------------------
(* The invariant of all runs, whatever becomes of the saver.               *)

RunInv == TypeOK /\ JoinOrder /\ Fresh /\ Planned
ThreadInv == SeenNothing /\ StartsAtEntry /\ CheckpointFollows
CInv == CTypeOK /\ RunInv /\ ThreadInv

LEMMA InitRunInv == Init => RunInv
BY InitType, InitOrder, InitTriggers, InitPlanned DEF RunInv

LEMMA ResetIsInit == Reset => Init'
BY DEF Reset, Init, Submit, NothingSeen

(* The next run begins as the first one did.                               *)
LEMMA ResetRunInv == Reset => RunInv'
BY ResetIsInit, InitRunInv, PTL

(* What a step that a checkpointer takes no part in may do.                *)
UnsavedMoves ==
  /\ UNCHANGED state
  /\ phase' \in {"enter", "tick"} => phase' = phase
  /\ phase = "enter" => /\ UNCHANGED tasks
                        /\ \/ phase' = "enter"
                           \/ phase' = "ended" /\ error'.kind = "empty input"
  /\ phase # "enter" /\ phase' = "ended" /\ error'.kind = "empty input"
       => phase = "ended"
  /\ phase = "ended" => UNCHANGED <<phase, error, tasks>>

LEMMA UnsavedEffect ==
  ASSUME TypeOK, JoinOrder, Unsaved
  PROVE  UnsavedMoves /\ UNCHANGED <<checkpointing, run, prior>>
<1>1. UNCHANGED <<checkpointing, run, prior>>
  BY DEF Unsaved
<1> SUFFICES UnsavedMoves
  BY <1>1
<1> USE DEF UnsavedMoves
<1>2. CASE EnterEmpty
  BY <1>2 DEF EnterEmpty, End, execution
<1>3. CASE OutOfSteps \/ Done \/ Unwind
  <2>1. /\ phase \in {"tick", "join"} /\ phase' = "ended" /\ UNCHANGED state
    BY <1>3 DEF OutOfSteps, Done, Unwind, End
  <2>2. PICK k \in {"recursion limit", "none"} : error' = [kind |-> k, at |-> "none"]
    BY <1>3, Zenon DEF OutOfSteps, Done, Unwind, End, NoError
  <2>3. error'.kind = k
    BY <2>2
  <2>4. QED
    BY <2>1, <2>3
<1>4. CASE Prepare
  BY <1>4 DEF Prepare, Goto
<1>5. CASE JoinOk \/ JoinErr
  BY <1>5 DEF JoinOk, JoinErr, JoinsNext, Goto, control
<1>6. CASE LeaveScope
  <2>1. phase = "scope" /\ phase' = "ended" /\ UNCHANGED state
    BY <1>6 DEF LeaveScope, End
  <2>2. error' = NoError \/ \E n \in failed : error' = [kind |-> thread[n], at |-> n]
    BY <1>6 DEF LeaveScope, End
  <2>3. error'.kind \in {"none", "err", "panic"}
    BY <2>2 DEF NoError, JoinOrder
  <2>4. QED
    BY <2>1, <2>3
<1>7. ASSUME NEW n \in Nodes, Node(n)
      PROVE  UnsavedMoves
  BY <1>7 DEF Node, Return, Fail, Panic, control
<1>8. CASE DropReceiver \/ Ended
  BY <1>8 DEF DropReceiver, Ended, vars, control, execution
<1>9. QED
  BY <1>2, <1>3, <1>4, <1>5, <1>6, <1>7, <1>8 DEF Unsaved

(* But for the input, a run goes on as without a checkpointer.             *)
LEMMA LoopStep == CAfterTick \/ CAfterTickErr \/ Unsaved => [Next]_vars
BY DEF CAfterTick, CAfterTickErr, Unsaved, Next, Loop

LEMMA LoopRunInv ==
  ASSUME RunInv, CAfterTick \/ CAfterTickErr \/ Unsaved \/ UNCHANGED vars
  PROVE  RunInv'
<1> USE DEF RunInv
<1>1. NoTriggerLost
  BY FreshMeansReady DEF Fresh
<1>2. TypeOK' /\ JoinOrder' /\ Planned'
  BY <1>1, LoopStep, StepType, StepOrder, StepPlanned
<1>3. Fresh'
  <2>1. CASE CAfterTick
    BY <2>1, AfterTickFresh DEF CAfterTick
  <2>2. CASE CAfterTickErr
    <3>1. AfterTickErr
      BY <2>2 DEF CAfterTickErr
    <3>2. phase' = "ended" /\ UNCHANGED <<versions, versionsSeen>>
      BY <3>1, Zenon DEF AfterTickErr, End
    <3>3. QED
      BY <3>2 DEF Fresh, UpdatedFresh, StartsEmpty
  <2>3. CASE Unsaved
    BY <2>3, UnsavedEffect DEF UnsavedMoves, state, Fresh, UpdatedFresh, StartsEmpty
  <2>4. CASE UNCHANGED vars
    BY <2>4 DEF vars, control, state, Fresh, UpdatedFresh, StartsEmpty
  <2>5. QED
    BY <2>1, <2>2, <2>3, <2>4
<1>4. QED
  BY <1>2, <1>3

-----------------------------------------------------------------------------
(* A checkpoint that is stored is a checkpoint, under an id of its own.    *)
LEMMA PutCheckpointType ==
  ASSUME NEW sv, IsSaver(sv), config \in Nat,
         ChannelsTyped(channels'), versions' \in [Channels -> Nat], updated' \subseteq Channels,
         NEW source \in {"input", "loop"}, NEW s \in Nat, NEW seen,
         PutCheckpoint(sv, source, s, seen)
  PROVE  /\ last' = NewCheckpoint(source, s, seen)
         /\ saver' = Put(sv, Here, last')
         /\ config' = s + 1 /\ last'.id = s + 1
         /\ IsCheckpoint(last') /\ IsSaver(saver')
         /\ config' \in Ids(saver', Here)
<1>1. /\ last' = NewCheckpoint(source, s, seen)
      /\ saver' = Put(sv, Here, last') /\ config' = last'.id
  BY DEF PutCheckpoint
<1>2. last'.id = s + 1
  BY <1>1 DEF NewCheckpoint, CheckpointId
<1>3. \A c \in Channels : FromCheckpoint(c, last'.values[c]) = channels'[c]
  BY <1>1, CopyIsExact DEF NewCheckpoint, Copied
<1>4. IsCheckpoint(last')
  <2>1. /\ last'.parent = config /\ last'.versions = versions'
        /\ last'.updated = updated' /\ last'.source = source
        /\ last'.step = IF source = "input" THEN -1 ELSE s
    BY <1>1 DEF NewCheckpoint
  <2>2. last'.step = IF last'.source = "loop" THEN last'.id - 1 ELSE -1
    BY <1>2, <2>1
  <2>3. QED
    BY <1>2, <1>3, <2>1, <2>2 DEF IsCheckpoint, ChannelsTyped
<1>5. IsSaver(saver')
  BY <1>1, <1>4, PutType
<1>6. config' \in Ids(saver', Here)
  <2>1. Ids(saver', Here) = Ids(sv, Here) \cup {last'.id}
    BY <1>1, PutIds
  <2>2. QED
    BY <1>1, <2>1
<1>7. QED
  BY <1>1, <1>2, <1>4, <1>5, <1>6

(* What enter makes of the loaded checkpoint and of the input.             *)
LEMMA CEnterEffect ==
  ASSUME IsSaver(saver), CEnter
  PROVE  \E w \in Inputs :
           /\ DOMAIN w # {} /\ DOMAIN w \subseteq Channels
           /\ \A c \in DOMAIN w : Kind[c] = "ephemeral" /\ channels'[c] = <<w[c]>>
           /\ \A c \in Channels \ DOMAIN w : channels'[c] = Restored(c)
           /\ ChannelsTyped(channels')
           /\ updated' = DOMAIN w
           /\ versions' = [c \in Channels |->
                Loaded.versions[c] + (IF c \in updated' THEN 1 ELSE 0)]
           /\ versions' \in [Channels -> Nat]
           /\ base' \in Nat
<1> DEFINE restored == [c \in Channels |-> Restored(c)]
           Group(w) == [c \in DOMAIN w |-> <<w[c]>>]
<1>1. PICK w \in Inputs :
        /\ DOMAIN w # {}
        /\ channels' = Stored(restored, Group(w))
        /\ updated' = Changed(restored, Group(w))
        /\ versions' = [c \in Channels |->
             Loaded.versions[c] + (IF c \in updated' THEN 1 ELSE 0)]
  BY DEF CEnter, EnterUpdated, StartVersions
<1> DEFINE G == Group(w)
<1>2. /\ GroupsTyped(G) /\ Failing(restored, G) = {}
      /\ DOMAIN w \subseteq Channels
      /\ \A c \in DOMAIN w : Kind[c] = "ephemeral"
  <2>1. GroupsTyped(G) /\ Failing(restored, G) = {}
    BY InputStoredType
  <2>2. QED
    BY <2>1, GraphAssumption DEF GroupsTyped
<1>3. ChannelsTyped(restored)
  BY RestoredType DEF ChannelsTyped
<1> HIDE DEF restored
<1>4. ChannelsTyped(channels')
  BY <1>1, <1>2, <1>3, StoredType
<1>5. /\ \A c \in DOMAIN w : channels'[c] = <<w[c]>>
      /\ \A c \in Channels \ DOMAIN w : channels'[c] = restored[c]
  BY <1>1, <1>2 DEF Stored, UpdateResult
<1>6. updated' = DOMAIN w
  <2>1. \A c \in DOMAIN w : /\ UpdateChanges(c, restored[c], G[c])
                            /\ UpdateResult(c, restored[c], G[c]) = <<w[c]>>
    BY <1>2 DEF UpdateChanges, UpdateResult, IsBarrier
  <2>2. \A c \in DOMAIN w : Available(c, UpdateResult(c, restored[c], G[c]))
    BY <1>2, <2>1 DEF Available, IsBarrier
  <2>3. QED
    BY <1>1, <2>1, <2>2 DEF Changed
<1>7. IsCheckpoint(Loaded)
  BY LoadedType
<1>8. versions' \in [Channels -> Nat]
  BY <1>1, <1>7 DEF IsCheckpoint
<1>9. base' \in Nat
  BY <1>7 DEF CEnter, StartStep, IsCheckpoint
<1>10. QED
  BY <1>1, <1>2, <1>4, <1>5, <1>6, <1>8, <1>9 DEF restored

LEMMA LoadedSeen ==
  ASSUME IsSaver(saver), SeenNothing
  PROVE  Loaded.seen = NothingSeen
<1>1. CASE Tuple = NoTuple
  BY <1>1 DEF NoTuple, Loaded, EmptyCheckpoint
<1>2. ASSUME NEW i \in Ids(saver, Here),
             Tuple = [checkpoint |-> saver.stored[<<Here, i>>],
                      pending |-> Pending(saver, Here, i)]
      PROVE  Loaded.seen = NothingSeen
  <2>1. <<Here, i>> \in DOMAIN saver.stored /\ <<Here, i>>[1] = Here
    BY StoredKeys
  <2>2. Loaded = saver.stored[<<Here, i>>]
    BY <1>2 DEF Loaded
  <2>3. QED
    BY <2>1, <2>2 DEF SeenNothing
<1>3. QED
  BY <1>1, <1>2, LoadedFrom

LEMMA CInitInv == CInit => CInv
<1> SUFFICES ASSUME CInit PROVE CInv
  OBVIOUS
<1> USE DEF CInit
<1>1. RunInv
  BY InitRunInv
<1>2. CTypeOK
  BY <1>1, ThreadAssumption, EmptyCheckpointType DEF CTypeOK, RunInv, ErrorKinds
<1>3. SeenNothing
  BY ThreadAssumption DEF SeenNothing, Ids
<1>4. StartsAtEntry /\ CheckpointFollows
  BY DEF Init, StartsAtEntry, CheckpointFollows
<1>5. QED
  BY <1>1, <1>2, <1>3, <1>4 DEF CInv, ThreadInv

(* Storing a checkpoint leaves the thread in order.                        *)
LEMMA PutSeenNothing ==
  ASSUME NEW sv, NEW cp, cp.seen = NothingSeen,
         \A k \in DOMAIN sv.stored : k[1] = Here => sv.stored[k].seen = NothingSeen,
         saver' = Put(sv, Here, cp)
  PROVE  SeenNothing'
<1>1. saver'.stored = [k \in DOMAIN sv.stored \cup {<<Here, cp.id>>} |->
                         IF k = <<Here, cp.id>> THEN cp ELSE sv.stored[k]]
  BY DEF Put
<1>2. QED
  BY <1>1 DEF SeenNothing

LEMMA CEnterSaves ==
  ASSUME CInv, CEnter
  PROVE  /\ phase = "enter" /\ phase' = "tick"
         /\ UNCHANGED <<outcome, error, open, step, tasks, thread, writes, joined, failed>>
         /\ UNCHANGED <<run, prior>>
         /\ config = 0 /\ step = 0 /\ tasks = {}
         /\ base' = StartStep /\ base' \in Nat
         /\ last' = NewCheckpoint("input", base', Loaded.seen)
         /\ saver' = Put(saver, Here, last')
         /\ config' = base' + 1 /\ last'.id = base' + 1
         /\ IsCheckpoint(last') /\ IsSaver(saver')
         /\ config' \in Ids(saver', Here)
<1> USE DEF CInv, CTypeOK, ThreadInv
<1>1. /\ phase = "enter" /\ phase' = "tick" /\ base' = StartStep
      /\ UNCHANGED <<outcome, error, open, step, tasks, thread, writes, joined, failed>>
      /\ UNCHANGED <<run, prior>>
      /\ PutCheckpoint(saver, "input", base', Loaded.seen)
  BY DEF CEnter, Goto, execution
<1>2. config = 0 /\ step = 0 /\ tasks = {}
  BY <1>1 DEF CheckpointFollows
<1>3. /\ ChannelsTyped(channels')
      /\ updated' \subseteq Channels
      /\ versions' \in [Channels -> Nat]
      /\ base' \in Nat
  BY CEnterEffect
<1>4. /\ last' = NewCheckpoint("input", base', Loaded.seen)
      /\ saver' = Put(saver, Here, last')
      /\ config' = base' + 1 /\ last'.id = base' + 1
      /\ IsCheckpoint(last') /\ IsSaver(saver')
      /\ config' \in Ids(saver', Here)
  BY <1>1, <1>2, <1>3, PutCheckpointType
<1>5. QED
  BY <1>1, <1>2, <1>3, <1>4

LEMMA CEnterInv == CInv /\ CEnter => CInv'
<1> SUFFICES ASSUME CInv, CEnter PROVE CInv'
  OBVIOUS
<1> USE DEF CInv, CTypeOK, RunInv, ThreadInv
<1>1. /\ phase = "enter" /\ phase' = "tick"
      /\ UNCHANGED <<outcome, error, open, step, tasks, thread, writes, joined, failed>>
      /\ UNCHANGED <<run, prior>>
  BY CEnterSaves
<1>2. config = 0 /\ step = 0 /\ tasks = {}
  BY CEnterSaves
<1>3. PICK w \in Inputs :
        /\ DOMAIN w # {} /\ DOMAIN w \subseteq Channels
        /\ \A c \in DOMAIN w : Kind[c] = "ephemeral" /\ channels'[c] = <<w[c]>>
        /\ ChannelsTyped(channels')
        /\ updated' = DOMAIN w
        /\ versions' \in [Channels -> Nat]
        /\ base' \in Nat
  BY CEnterEffect
<1>4. versionsSeen' = NothingSeen /\ Loaded.seen = NothingSeen
  BY LoadedSeen DEF CEnter
<1>5. TypeOK'
  BY <1>1, <1>3, <1>4 DEF TypeOK, ChannelsTyped, NothingSeen, Phases
<1>6. JoinOrder'
  BY <1>1 DEF JoinOrder
<1>7. Fresh'
  <2>1. DOMAIN versionsSeen' = {}
    BY <1>4 DEF NothingSeen
  <2>2. ASSUME NEW c \in updated'
        PROVE  Available(c, channels'[c])
    <3>1. Kind[c] = "ephemeral" /\ channels'[c] = <<w[c]>>
      BY <1>3
    <3>2. QED
      BY <3>1 DEF Available, IsBarrier
  <2>3. QED
    BY <1>1, <2>1, <2>2 DEF Fresh, UpdatedFresh, StartsEmpty
<1>8. Planned'
  BY <1>1 DEF Planned, TasksAreCandidates, WritesReturned
<1>9. /\ last' = NewCheckpoint("input", base', Loaded.seen)
      /\ saver' = Put(saver, Here, last')
      /\ config' = base' + 1 /\ last'.id = base' + 1
      /\ IsCheckpoint(last') /\ IsSaver(saver')
      /\ config' \in Ids(saver', Here)
  BY CEnterSaves
<1>10. CTypeOK'
  BY <1>1, <1>3, <1>5, <1>9
<1>11. SeenNothing'
  <2>1. last'.seen = NothingSeen
    BY <1>4, <1>9 DEF NewCheckpoint
  <2>2. QED
    BY <1>9, <2>1, PutSeenNothing DEF SeenNothing
<1>12. StartsAtEntry'
  <2>1. updated' = UNION {DOMAIN v : v \in Inputs}
    BY <1>3, InputsEnterAtStart
  <2>2. Candidates' = Entry
    BY <2>1 DEF Candidates, Entry
  <2>3. Entry # {}
    BY <1>3, InputHasSubscriber
  <2>4. QED
    BY <2>2, <2>3 DEF StartsAtEntry
<1>13. CheckpointFollows'
  <2>1. last'.versions = versions' /\ last'.source = "input"
    BY <1>9 DEF NewCheckpoint
  <2>2. QED
    BY <1>1, <1>2, <1>3, <1>9, <2>1 DEF CheckpointFollows
<1>14. QED
  BY <1>5, <1>6, <1>7, <1>8, <1>10, <1>11, <1>12, <1>13

(* The pending writes of a superstep join those of the thread.             *)
LEMMA LoggedType ==
  ASSUME CInv
  PROVE  /\ IsSaver(Logged)
         /\ Logged.stored = saver.stored
         /\ \A k \in DOMAIN Logged.writes :
              k # <<Here, config>> => /\ k \in DOMAIN saver.writes
                                      /\ Logged.writes[k] = saver.writes[k]
         /\ Range(Pending(Logged, Here, config))
              \subseteq Range(Pending(saver, Here, config)) \cup Range(Assembled)
BY AssembledType, PutWritesType, PutWritesEffect DEF CInv, CTypeOK, Logged

(* While a superstep runs the last checkpoint is stored under config.      *)
LEMMA ConfigStored ==
  ASSUME CInv, phase = "apply"
  PROVE  /\ config = last.id /\ config = base + (IF step = 0 THEN 1 ELSE step)
         /\ config \in Nat \ {0} /\ config \in Ids(saver, Here)
         /\ saver.stored[<<Here, config>>].seen = NothingSeen
<1> USE DEF CInv, CTypeOK, ThreadInv
<1>1. config = last.id /\ config = base + (IF step = 0 THEN 1 ELSE step)
  BY DEF CheckpointFollows
<1>2. config \in Nat \ {0}
  BY <1>1 DEF TypeOK
<1>3. config \in Ids(saver, Here)
  BY <1>2
<1>4. <<Here, config>> \in DOMAIN saver.stored /\ <<Here, config>>[1] = Here
  BY <1>3, StoredKeys
<1>5. QED
  BY <1>1, <1>2, <1>3, <1>4 DEF SeenNothing

LEMMA CAfterTickSaves ==
  ASSUME CInv, CAfterTick
  PROVE  /\ phase = "apply" /\ step' = step + 1
         /\ \/ phase' = "tick"
            \/ phase' = "ended" /\ error' = NoError
         /\ UNCHANGED <<base, run, prior>>
         /\ base \in Nat /\ step \in Nat
         /\ last' = NewCheckpoint("loop", base + step, NothingSeen)
         /\ saver' = Put(Logged, Here, last')
         /\ config' = base + step + 1 /\ last'.id = base + step + 1
         /\ IsCheckpoint(last') /\ IsSaver(saver')
         /\ config' \in Ids(saver', Here)
<1>1. /\ AfterTick /\ phase = "apply" /\ step' = step + 1
      /\ UNCHANGED <<base, run, prior>>
      /\ PutCheckpoint(Logged, "loop", base + step, saver.stored[<<Here, config>>].seen)
  BY Zenon DEF CAfterTick, AfterTick
<1>2. \/ phase' = "tick"
      \/ phase' = "ended" /\ error' = NoError
  <2>1. CASE open
    BY <1>1, <2>1, Zenon DEF AfterTick, Continue, Goto
  <2>2. CASE ~open
    BY <1>1, <2>2, Zenon DEF AfterTick, Continue, End
  <2>3. QED
    BY <2>1, <2>2
<1>3. /\ config \in Nat \ {0} /\ base \in Nat /\ step \in Nat /\ base + step \in Nat
      /\ saver.stored[<<Here, config>>].seen = NothingSeen
  BY <1>1, ConfigStored DEF CInv, CTypeOK, TypeOK
<1>4. /\ ChannelsTyped(channels') /\ versions' \in [Channels -> Nat]
      /\ updated' \subseteq Channels
  BY LoopRunInv DEF CInv, RunInv, TypeOK, ChannelsTyped
<1>5. /\ last' = NewCheckpoint("loop", base + step, NothingSeen)
      /\ saver' = Put(Logged, Here, last')
      /\ config' = base + step + 1 /\ last'.id = base + step + 1
      /\ IsCheckpoint(last') /\ IsSaver(saver')
      /\ config' \in Ids(saver', Here)
  BY <1>1, <1>3, <1>4, LoggedType, PutCheckpointType
<1>6. QED
  BY <1>1, <1>2, <1>3, <1>5

LEMMA CAfterTickInv == CInv /\ CAfterTick => CInv'
<1> SUFFICES ASSUME CInv, CAfterTick PROVE CInv'
  OBVIOUS
<1>1. RunInv'
  BY LoopRunInv DEF CInv
<1>2. /\ step' = step + 1 /\ step \in Nat
      /\ UNCHANGED <<base, run, prior>>
      /\ last' = NewCheckpoint("loop", base + step, NothingSeen)
      /\ saver' = Put(Logged, Here, last')
      /\ config' = base + step + 1 /\ last'.id = base + step + 1
      /\ base \in Nat
  BY CAfterTickSaves
<1>3. SeenNothing'
  <2>1. last'.seen = NothingSeen
    BY <1>2 DEF NewCheckpoint
  <2>2. QED
    BY <1>2, <2>1, LoggedType, PutSeenNothing DEF CInv, ThreadInv, SeenNothing
<1>4. StartsAtEntry'
  BY <1>2 DEF StartsAtEntry
<1>5. CheckpointFollows'
  <2>1. last'.versions = versions' /\ last'.source = "loop"
    BY <1>2 DEF NewCheckpoint
  <2>2. step' # 0 /\ config' = base' + step'
    BY <1>2
  <2>3. ~(phase' = "enter" \/ (phase' = "ended" /\ error'.kind = "empty input"))
    <3>1. NoError.kind = "none"
      BY DEF NoError
    <3>2. QED
      BY <3>1, CAfterTickSaves
  <2>4. QED
    BY <1>2, <2>1, <2>2, <2>3 DEF CheckpointFollows
<1>6. CTypeOK'
  BY <1>1, CAfterTickSaves DEF CInv, CTypeOK, RunInv
<1>7. QED
  BY <1>1, <1>3, <1>4, <1>5, <1>6 DEF CInv, ThreadInv

LEMMA CAfterTickErrInv == CInv /\ CAfterTickErr => CInv'
<1> SUFFICES ASSUME CInv, CAfterTickErr PROVE CInv'
  OBVIOUS
<1> USE DEF CInv, CTypeOK, ThreadInv
<1>1. RunInv'
  BY LoopRunInv
<1>2. /\ phase = "apply" /\ phase' = "ended"
      /\ saver' = Logged
      /\ UNCHANGED <<step, versions, tasks, config, base, last, run, prior>>
  BY Zenon DEF CAfterTickErr, AfterTickErr, End, execution
<1>3. error'.kind = "channel"
  <2>1. PICK f : error' = [kind |-> "channel", at |-> f]
    BY Zenon DEF CAfterTickErr, AfterTickErr, End
  <2>2. QED
    BY <2>1
<1>4. IsSaver(Logged) /\ Logged.stored = saver.stored
  BY LoggedType
<1>5. CTypeOK'
  BY <1>1, <1>2, <1>4 DEF RunInv, Ids
<1>6. SeenNothing' /\ StartsAtEntry'
  BY <1>2, <1>4 DEF SeenNothing, StartsAtEntry
<1>7. CheckpointFollows'
  BY <1>2, <1>3 DEF CheckpointFollows
<1>8. QED
  BY <1>1, <1>5, <1>6, <1>7

LEMMA UnsavedInv == CInv /\ Unsaved => CInv'
<1> SUFFICES ASSUME CInv, Unsaved PROVE CInv'
  OBVIOUS
<1> USE DEF CInv, CTypeOK, ThreadInv
<1>1. RunInv'
  BY LoopRunInv
<1>2. UnsavedMoves /\ UNCHANGED <<saver, config, base, last, run, prior>>
  BY UnsavedEffect DEF RunInv, checkpointing
<1>3. CTypeOK' /\ SeenNothing'
  BY <1>1, <1>2 DEF RunInv, SeenNothing
<1>4. StartsAtEntry'
  BY <1>2 DEF StartsAtEntry, Candidates, UnsavedMoves, state, TypeOK, Phases
<1>5. CheckpointFollows'
  BY <1>2 DEF CheckpointFollows, UnsavedMoves, state
<1>6. QED
  BY <1>1, <1>3, <1>4, <1>5

LEMMA NextRunInv ==
  ASSUME CInv, NEW forget, NextRun(forget)
  PROVE  CInv'
<1> USE DEF CInv, CTypeOK, ThreadInv
<1>1. RunInv'
  BY ResetRunInv DEF NextRun
<1>2. /\ phase' = "enter" /\ step' = 0 /\ tasks' = {}
      /\ run' = run + 1 /\ run < MaxRuns /\ config' = 0 /\ base' = 0
      /\ \/ saver' = Given
         \/ saver' = DeleteThread(saver, Thread)
         \/ saver' = saver
      /\ last' = EmptyCheckpoint \/ last' = last
      /\ prior' = prior \/ prior' = error.kind
  BY DEF NextRun, Reset, Submit
<1>3. IsSaver(saver') /\ SeenNothing'
  <2>1. CASE saver' = Given
    BY <2>1, ThreadAssumption DEF SeenNothing, Ids
  <2>2. CASE saver' = DeleteThread(saver, Thread)
    BY <2>2, DeleteThreadEffect, DeleteThreadType DEF SeenNothing
  <2>3. CASE saver' = saver
    BY <2>3 DEF SeenNothing
  <2>4. QED
    BY <1>2, <2>1, <2>2, <2>3
<1>4. prior' \in ErrorKinds
  BY <1>2 DEF TypeOK
<1>5. run' \in 1..MaxRuns
  BY <1>2, ThreadAssumption
<1>6. CTypeOK'
  BY <1>1, <1>2, <1>3, <1>4, <1>5, EmptyCheckpointType DEF RunInv
<1>7. StartsAtEntry' /\ CheckpointFollows'
  BY <1>2 DEF StartsAtEntry, CheckpointFollows
<1>8. QED
  BY <1>1, <1>3, <1>6, <1>7

LEMMA StutterInv == CInv /\ UNCHANGED cvars => CInv'
<1> SUFFICES ASSUME CInv, UNCHANGED cvars PROVE CInv'
  OBVIOUS
<1> USE DEF CInv, CTypeOK, ThreadInv
<1>1. UNCHANGED <<vars, saver, config, base, last, run, prior>>
  BY DEF cvars, checkpointing
<1>2. UNCHANGED <<phase, error, step, versions, updated, tasks>>
  BY <1>1 DEF vars, control, state, execution
<1>3. RunInv'
  BY <1>1, LoopRunInv
<1>4. CTypeOK' /\ SeenNothing'
  BY <1>1, <1>3 DEF RunInv, SeenNothing
<1>5. StartsAtEntry' /\ CheckpointFollows'
  BY <1>1, <1>2 DEF StartsAtEntry, Candidates, CheckpointFollows
<1>6. QED
  BY <1>3, <1>4, <1>5

LEMMA CStepInv == CInv /\ [CNext]_cvars => CInv'
BY CEnterInv, CAfterTickInv, CAfterTickErrInv, UnsavedInv, NextRunInv, StutterInv DEF CNext

LEMMA CInvariant == CSpec => []CInv
BY CInitInv, CStepInv, PTL DEF CSpec

(* Every field of the saver keeps its shape: what a run stores, half       *)
(* finished supersteps included, a later run can load.                     *)
THEOREM SaverTyped == CSpec => []CTypeOK
BY CInvariant, PTL DEF CInv

(* No trigger is lost on a resumed run: it starts with the versions it has *)
(* loaded, and no node has seen them.                                      *)
THEOREM ResumeTriggersKept == CSpec => []NoTriggerLost
<1>1. CInv => NoTriggerLost
  BY FreshMeansReady DEF CInv, RunInv, Fresh
<1>2. QED
  BY <1>1, CInvariant, PTL

(* A resumed run starts over at the entry nodes, whatever it has loaded.   *)
THEOREM InputFirst == CSpec => []InputDecides
<1>1. CInv => InputDecides
  BY DEF CInv, RunInv, Planned, TasksAreCandidates, ThreadInv, StartsAtEntry, InputDecides
<1>2. QED
  BY <1>1, CInvariant, PTL

-----------------------------------------------------------------------------
(* What a resumed run finds, in a saver that the caller has filled.        *)

ResumeInv == EntryApplies /\ InputReplaced /\ LastStored

(* The first superstep of a run writes to triggers only, so that it is     *)
(* applied.                                                                *)
LEMMA EntryWrites ==
  ASSUME EntrySafe, CInv, EntryApplies, config # 0, step = 0, phase = "apply"
  PROVE  /\ \A n \in tasks : \A c \in DOMAIN writes[n] : Kind[c] = "ephemeral"
         /\ \A c \in DOMAIN Grouped(tasks, writes) : Kind[c] = "ephemeral"
         /\ Failing(Consumed(channels, tasks), Grouped(tasks, writes)) = {}
<1>1. ASSUME NEW n \in tasks, NEW c \in DOMAIN writes[n]
      PROVE  Kind[c] = "ephemeral"
  <2>1. thread[n] = "ok"
    BY DEF CInv, RunInv, JoinOrder
  <2>2. n \in Entry /\ writes[n] \in Outputs[n]
    BY <2>1 DEF EntryApplies, CInv, RunInv, Planned, WritesReturned
  <2>3. QED
    BY <2>2 DEF EntrySafe
<1>2. \A c \in DOMAIN Grouped(tasks, writes) : Kind[c] = "ephemeral"
  BY <1>1 DEF Grouped, Writers
<1>3. QED
  BY <1>1, <1>2 DEF Failing, UpdateFails

(* What is loaded is what was stored last.                                 *)
LEMMA LoadedIsLast ==
  ASSUME CTypeOK, LastStored
  PROVE  /\ Loaded = last
         /\ Tuple.pending = Pending(saver, Here, last.id)
<1> USE DEF CTypeOK
<1>1. CASE Ids(saver, Here) = {}
  <2>1. Tuple = NoTuple /\ last = EmptyCheckpoint
    BY <1>1, LoadedFrom DEF LastStored
  <2>2. Loaded = last /\ Tuple.pending = <<>> /\ last.id = 0
    BY <2>1 DEF NoTuple, Loaded, EmptyCheckpoint
  <2>3. <<Here, last.id>> \notin DOMAIN saver.writes
    <3>1. \A k \in DOMAIN saver.writes : k[1] = Here => k[2] \in 1..0
      BY <2>2 DEF LastStored
    <3>2. <<Here, last.id>>[1] = Here /\ <<Here, last.id>>[2] = 0
      BY <2>2
    <3>3. QED
      BY <3>1, <3>2
  <2>4. QED
    BY <2>2, <2>3 DEF Pending
<1>2. CASE Ids(saver, Here) # {}
  <2>1. /\ last.id \in Ids(saver, Here)
        /\ \A i \in Ids(saver, Here) : i <= last.id
        /\ saver.stored[<<Here, last.id>>] = last
    BY <1>2 DEF LastStored
  <2>2. \A i \in Ids(saver, Here) : i \in Nat
    BY IdsAreNumbers
  <2>3. FindEntry(saver, Here, 0) = {last.id}
    BY <2>1, <2>2 DEF FindEntry
  <2>4. GetTuple(saver, Here, 0) # {}
    BY <2>3 DEF GetTuple
  <2>5. Tuple = [checkpoint |-> saver.stored[<<Here, last.id>>],
                 pending |-> Pending(saver, Here, last.id)]
    BY <2>3, <2>4, LoadedFrom
  <2>6. QED
    BY <2>1, <2>5 DEF Loaded
<1>3. QED
  BY <1>1, <1>2

(* The next run counts on from the last superstep that was stored.         *)
LEMMA NextId ==
  ASSUME CTypeOK, InputReplaced, LastStored, config = 0
  PROVE  StartStep = last.id
<1>1. Loaded = last /\ IsCheckpoint(last)
  BY LoadedIsLast DEF CTypeOK
<1>2. CASE last = EmptyCheckpoint
  BY <1>1, <1>2 DEF EmptyCheckpoint, StartStep
<1>3. CASE last.source = "loop"
  BY <1>1, <1>3 DEF IsCheckpoint, StartStep
<1>4. QED
  BY <1>2, <1>3 DEF InputReplaced

LEMMA CInitResume == CInit => ResumeInv
BY ThreadAssumption
   DEF CInit, ResumeInv, EntryApplies, InputReplaced, LastStored

(* A checkpoint stored under a greatest id is the last.                    *)
LEMMA PutIsLast ==
  ASSUME NEW sv, saver' = Put(sv, Here, last'), last'.id \in Nat,
         \A i \in Ids(sv, Here) : i <= last'.id,
         \A k \in DOMAIN sv.writes : k[1] = Here =>
           /\ k[2] \in 1..last'.id
           /\ config' # 0 /\ step' = 0 => k[2] # last'.id
  PROVE  LastStored'
<1>1. Ids(saver', Here) = Ids(sv, Here) \cup {last'.id}
  BY PutIds
<1>2. saver'.stored[<<Here, last'.id>>] = last' /\ saver'.writes = sv.writes
  BY DEF Put
<1>3. QED
  BY <1>1, <1>2 DEF LastStored

(* All that is kept of the thread is kept up to the last id.               *)
LEMMA StoredUpToLast ==
  ASSUME CInv, LastStored
  PROVE  /\ last.id \in Nat
         /\ \A i \in Ids(saver, Here) : i <= last.id
         /\ \A k \in DOMAIN saver.writes : k[1] = Here => k[2] \in 1..last.id
BY DEF CInv, CTypeOK, IsCheckpoint, LastStored

LEMMA CEnterResume == CInv /\ ResumeInv /\ CEnter => ResumeInv'
<1> SUFFICES ASSUME CInv, ResumeInv, CEnter PROVE ResumeInv'
  OBVIOUS
<1> USE DEF ResumeInv
<1>1. /\ config = 0 /\ step' = step /\ tasks' = {} /\ phase' = "tick"
      /\ base' = StartStep /\ base' \in Nat
      /\ saver' = Put(saver, Here, last')
      /\ config' = base' + 1 /\ last'.id = base' + 1
  BY CEnterSaves
<1>2. EntryApplies'
  BY <1>1 DEF EntryApplies
<1>3. InputReplaced'
  BY <1>1 DEF InputReplaced
<1>4. LastStored'
  <2>1. last'.id = last.id + 1 /\ last.id \in Nat
    BY <1>1, NextId, StoredUpToLast DEF CInv
  <2>2. \A i \in Ids(saver, Here) : i <= last'.id
    <3>1. \A i \in Ids(saver, Here) : i \in Nat /\ i <= last.id
      BY StoredUpToLast, IdsAreNumbers DEF CInv, CTypeOK
    <3>2. QED
      BY <2>1, <3>1
  <2>3. \A k \in DOMAIN saver.writes : k[1] = Here =>
          k[2] \in 1..last'.id /\ k[2] # last'.id
    BY <2>1, StoredUpToLast
  <2>4. QED
    BY <1>1, <2>1, <2>2, <2>3, PutIsLast
<1>5. QED
  BY <1>2, <1>3, <1>4

LEMMA CAfterTickResume == CInv /\ ResumeInv /\ CAfterTick => ResumeInv'
<1> SUFFICES ASSUME CInv, ResumeInv, CAfterTick PROVE ResumeInv'
  OBVIOUS
<1> USE DEF ResumeInv
<1>1. /\ phase = "apply" /\ step' = step + 1 /\ step \in Nat /\ base \in Nat
      /\ last' = NewCheckpoint("loop", base + step, NothingSeen)
      /\ saver' = Put(Logged, Here, last')
      /\ config' = base + step + 1 /\ last'.id = base + step + 1
  BY CAfterTickSaves
<1>2. EntryApplies'
  BY <1>1 DEF EntryApplies
<1>3. InputReplaced'
  BY <1>1 DEF InputReplaced
<1>4. LastStored'
  <2>1. /\ config = last.id /\ config \in Nat \ {0}
        /\ config = base + (IF step = 0 THEN 1 ELSE step)
    BY <1>1, ConfigStored
  <2>2. last'.id \in Nat /\ last.id <= last'.id
    BY <1>1, <2>1
  <2>3. \A i \in Ids(Logged, Here) : i <= last'.id
    <3>1. Ids(Logged, Here) = Ids(saver, Here)
      BY LoggedType DEF Ids
    <3>2. \A i \in Ids(saver, Here) : i \in Nat /\ i <= last.id
      BY StoredUpToLast, IdsAreNumbers DEF CInv, CTypeOK
    <3>3. QED
      BY <2>1, <2>2, <3>1, <3>2
  <2>4. ASSUME NEW k \in DOMAIN Logged.writes, k[1] = Here
        PROVE  k[2] \in 1..last'.id
    <3>1. CASE k = <<Here, config>>
      BY <2>1, <2>2, <3>1
    <3>2. CASE k # <<Here, config>>
      <4>1. k[2] \in 1..last.id
        BY <2>4, <3>2, LoggedType, StoredUpToLast
      <4>2. QED
        BY <2>1, <2>2, <4>1
    <3>3. QED
      BY <3>1, <3>2
  <2>5. step' # 0
    BY <1>1
  <2>6. QED
    BY <1>1, <2>2, <2>3, <2>4, <2>5, PutIsLast
<1>5. QED
  BY <1>2, <1>3, <1>4

LEMMA CAfterTickErrResume ==
  ASSUME EntrySafe, CInv, ResumeInv, CAfterTickErr
  PROVE  ResumeInv'
<1> USE DEF ResumeInv
<1>1. /\ phase = "apply" /\ saver' = Logged
      /\ UNCHANGED <<step, config, base, last>>
      /\ \E f \in Failing(Consumed(channels, tasks), Grouped(tasks, writes)) : TRUE
  BY Zenon DEF CAfterTickErr, AfterTickErr
<1>2. config = last.id /\ config \in Nat \ {0}
  BY <1>1, ConfigStored
<1>3. step # 0
  BY <1>1, <1>2, EntryWrites
<1>4. EntryApplies' /\ InputReplaced'
  BY <1>1, <1>2, <1>3 DEF EntryApplies, InputReplaced
<1>5. LastStored'
  <2>1. Logged.stored = saver.stored /\ Ids(Logged, Here) = Ids(saver, Here)
    BY LoggedType DEF Ids
  <2>2. ASSUME NEW k \in DOMAIN Logged.writes, k[1] = Here
        PROVE  k[2] \in 1..last.id
    <3>1. CASE k = <<Here, config>>
      BY <1>2, <3>1
    <3>2. CASE k # <<Here, config>>
      BY <2>2, <3>2, LoggedType, StoredUpToLast
    <3>3. QED
      BY <3>1, <3>2
  <2>3. QED
    BY <1>1, <1>3, <2>1, <2>2 DEF LastStored
<1>6. QED
  BY <1>4, <1>5

(* In the first superstep no thread fails and no join does.                *)
LEMMA UnsavedEntry ==
  ASSUME EntrySafe, CInv, EntryApplies, Unsaved
  PROVE  EntryApplies'
<1> SUFFICES ASSUME config' # 0, step' = 0
             PROVE  /\ phase' \in {"tick", "join", "apply"}
                    /\ \A n \in tasks' : n \in Entry /\ thread'[n] \in {"running", "ok"}
  BY DEF EntryApplies
<1>1. UNCHANGED <<saver, config, step, updated>>
  BY UnsavedEffect DEF CInv, CTypeOK, RunInv, UnsavedMoves, checkpointing, state
<1>2. /\ config # 0 /\ step = 0
      /\ phase \in {"tick", "join", "apply"}
      /\ tasks \subseteq Entry /\ \A n \in tasks : thread[n] \in {"running", "ok"}
  BY <1>1 DEF EntryApplies
<1>3. CASE EnterEmpty \/ LeaveScope
  BY <1>2, <1>3 DEF EnterEmpty, LeaveScope
<1>4. CASE OutOfSteps
  <2>1. RecursionLimit \in Nat
    BY GraphAssumption
  <2>2. step > Stop
    BY <1>4 DEF OutOfSteps
  <2>3. QED
    BY <1>2, <2>1, <2>2 DEF Stop
<1>5. CASE Done \/ Prepare
  <2>1. phase = "tick" /\ Ready = Candidates
    BY <1>5, FreshMeansReady DEF Done, Prepare, CInv, RunInv, Fresh, NoTriggerLost
  <2>2. Ready = Entry /\ Entry # {}
    BY <1>2, <2>1 DEF CInv, ThreadInv, StartsAtEntry
  <2>3. Prepare
    BY <1>5, <2>2 DEF Done
  <2>4. phase' = "join" /\ tasks' = Ready /\ \A n \in Nodes : n \in Ready => thread'[n] = "running"
    BY <2>3 DEF Prepare, Submit, Goto
  <2>5. Entry \subseteq Nodes
    BY DEF Entry
  <2>6. QED
    BY <2>2, <2>4, <2>5
<1>6. CASE JoinOk
  <2>1. phase' \in {"join", "apply"} /\ UNCHANGED <<tasks, thread>>
    BY <1>6 DEF JoinOk, JoinsNext, Goto, control
  <2>2. QED
    BY <1>2, <2>1
<1>7. CASE JoinErr
  BY <1>2, <1>7 DEF JoinErr, JoinsNext
<1>8. CASE Unwind
  BY <1>2, <1>8 DEF Unwind
<1>9. ASSUME NEW n \in Nodes, Node(n)
      PROVE  phase' \in {"tick", "join", "apply"} /\ tasks' = tasks
             /\ \A m \in tasks : thread'[m] \in {"running", "ok"}
  <2>1. thread \in [Nodes -> {"idle", "running", "ok", "err", "panic"}] /\ tasks \subseteq Nodes
    BY DEF CInv, CTypeOK, TypeOK
  <2>2. UNCHANGED <<phase, tasks>>
    BY <1>9 DEF Node, Return, Fail, Panic, control
  <2>3. CASE Return(n)
    BY <1>2, <2>1, <2>2, <2>3 DEF Return
  <2>4. CASE Fail(n) \/ Panic(n)
    <3>1. n \notin tasks
      BY <1>2, <2>4 DEF Fail, Panic, EntrySafe
    <3>2. \A m \in tasks : thread'[m] = thread[m]
      BY <2>1, <2>4, <3>1 DEF Fail, Panic
    <3>3. QED
      BY <1>2, <2>2, <3>2
  <2>5. QED
    BY <1>9, <2>3, <2>4 DEF Node
<1>10. CASE DropReceiver \/ Ended
  BY <1>2, <1>10 DEF DropReceiver, Ended, vars, control, execution
<1>11. QED
  BY <1>2, <1>3, <1>4, <1>5, <1>6, <1>7, <1>8, <1>9, <1>10 DEF Unsaved

LEMMA UnsavedResume ==
  ASSUME EntrySafe, CInv, ResumeInv, Unsaved
  PROVE  ResumeInv'
<1>1. UNCHANGED <<saver, config, step, last>>
  BY UnsavedEffect DEF CInv, CTypeOK, RunInv, UnsavedMoves, checkpointing, state
<1>2. EntryApplies'
  BY UnsavedEntry DEF ResumeInv
<1>3. InputReplaced' /\ LastStored'
  BY <1>1 DEF ResumeInv, InputReplaced, LastStored
<1>4. QED
  BY <1>2, <1>3 DEF ResumeInv

(* Nothing of a thread is left when it is deleted.                         *)
LEMMA Forgotten ==
  ASSUME saver' = DeleteThread(saver, Thread)
  PROVE  /\ Ids(saver', Here) = {}
         /\ \A k \in DOMAIN saver'.writes : k[1] # Here
<1>1. \A k \in DOMAIN saver'.stored : k[1][1] # Thread
  BY DeleteThreadEffect
<1>2. \A k \in DOMAIN saver'.writes : k[1][1] # Thread
  BY DeleteThreadEffect
<1>3. Here[1] = Thread
  BY DEF Here
<1>4. QED
  BY <1>1, <1>2, <1>3 DEF Ids

LEMMA NextRunResume ==
  ASSUME Refill, CInv, ResumeInv, NEW forget \in {FALSE, Refill}, NextRun(forget)
  PROVE  ResumeInv'
<1> USE DEF ResumeInv
<1>1. /\ phase = "ended" /\ config' = 0
      /\ saver' = IF forget THEN DeleteThread(saver, Thread) ELSE saver
      /\ last' = IF forget THEN EmptyCheckpoint ELSE last
  BY DEF NextRun
<1>2. EntryApplies'
  BY <1>1 DEF EntryApplies
<1>3. InputReplaced'
  <2>1. CASE config = 0
    BY <1>1, <2>1 DEF InputReplaced
  <2>2. CASE config # 0
    <3>1. step # 0
      BY <1>1, <2>2 DEF EntryApplies
    <3>2. last.source = "loop"
      BY <2>2, <3>1 DEF CInv, ThreadInv, CheckpointFollows
    <3>3. QED
      BY <1>1, <3>2 DEF InputReplaced
  <2>3. QED
    BY <2>1, <2>2
<1>4. LastStored'
  <2>1. CASE forget
    BY <1>1, <2>1, Forgotten DEF LastStored
  <2>2. CASE ~forget
    BY <1>1, <2>2 DEF LastStored
  <2>3. QED
    BY <2>1, <2>2
<1>5. QED
  BY <1>2, <1>3, <1>4

LEMMA ResumeStep ==
  ASSUME Refill, EntrySafe, CInv, ResumeInv, [CNext]_cvars
  PROVE  ResumeInv'
<1>1. CASE UNCHANGED cvars
  BY <1>1 DEF cvars, vars, control, state, execution, checkpointing,
              ResumeInv, EntryApplies, InputReplaced, LastStored
<1>2. ASSUME NEW forget \in {FALSE, Refill}, NextRun(forget)
      PROVE  ResumeInv'
  BY <1>2, NextRunResume
<1>3. QED
  BY <1>1, <1>2, CEnterResume, CAfterTickResume, CAfterTickErrResume, UnsavedResume DEF CNext

LEMMA ResumeInvariant ==
  ASSUME Refill, EntrySafe
  PROVE  CSpec => []ResumeInv
<1>1. CInv /\ ResumeInv /\ [CNext]_cvars => ResumeInv'
  BY ResumeStep
<1>2. QED
  BY <1>1, CInvariant, CInitResume, PTL DEF CSpec

(* The next run of a thread continues the last: the greatest id is that of *)
(* the checkpoint stored last, whether or not a superstep failed after it. *)
THEOREM ResumesLast ==
  ASSUME Refill, EntrySafe
  PROVE  CSpec => []LatestIsLast
<1>1. CInv /\ ResumeInv => LatestIsLast
  BY LoadedIsLast DEF CInv, ResumeInv, LatestIsLast
<1>2. QED
  BY <1>1, CInvariant, ResumeInvariant, PTL

LEMMA VersionsStep ==
  ASSUME Refill, CInv, LastStored, CNext, last' # EmptyCheckpoint, NEW c \in Channels
  PROVE  last.versions[c] <= last'.versions[c]
<1> USE DEF CInv, CTypeOK
<1>1. last.versions \in [Channels -> Nat]
  BY DEF IsCheckpoint
<1>2. CASE CEnter
  <2>1. PICK w \in Inputs :
          versions' = [d \in Channels |->
            Loaded.versions[d] + (IF d \in updated' THEN 1 ELSE 0)]
    BY <1>2, CEnterEffect
  <2>2. Loaded = last
    BY LoadedIsLast
  <2>3. last'.versions = versions'
    BY <1>2, CEnterSaves DEF NewCheckpoint
  <2>4. QED
    BY <1>1, <2>1, <2>2, <2>3
<1>3. CASE CAfterTick
  <2>1. last.versions = versions
    BY <1>3, CAfterTickSaves DEF ThreadInv, CheckpointFollows
  <2>2. last'.versions = versions'
    BY <1>3, CAfterTickSaves DEF NewCheckpoint
  <2>3. \E U : versions' = Bumped(U)
    BY <1>3, Zenon DEF CAfterTick, AfterTick
  <2>4. QED
    BY <1>1, <2>1, <2>2, <2>3 DEF Bumped
<1>4. CASE CAfterTickErr \/ Unsaved
  BY <1>1, <1>4 DEF CAfterTickErr, Unsaved, checkpointing
<1>5. ASSUME NEW forget \in {FALSE, Refill}, NextRun(forget)
      PROVE  last.versions[c] <= last'.versions[c]
  <2>1. last' = IF forget THEN EmptyCheckpoint ELSE last
    BY <1>5 DEF NextRun
  <2>2. last' = last
    BY <2>1
  <2>3. QED
    BY <1>1, <2>2
<1>6. QED
  BY <1>2, <1>3, <1>4, <1>5 DEF CNext

(* A thread's versions grow from checkpoint to checkpoint, from one run to *)
(* the next too.                                                           *)
THEOREM VersionsGrow ==
  ASSUME Refill, EntrySafe
  PROVE  CSpec => VersionsKept
<1>1. CInv /\ ResumeInv /\ [CNext]_cvars
        => [last' # EmptyCheckpoint =>
              \A c \in Channels : last.versions[c] <= last'.versions[c]]_cvars
  BY VersionsStep DEF ResumeInv
<1>2. QED
  BY <1>1, CInvariant, ResumeInvariant, PTL DEF CSpec, VersionsKept

-----------------------------------------------------------------------------
(* A channel takes back what a checkpoint has kept of it.                  *)

AllRestorable(chs) == \A c \in Channels : Restorable(c, chs[c])

LEMMA UpdateRestorable ==
  ASSUME NEW c \in Channels, NEW s \in ChannelStates(c), Restorable(c, s),
         NEW vs \in Seq(Values), Len(vs) > 0, ~UpdateFails(c, s, vs)
  PROVE  Restorable(c, UpdateResult(c, s, vs))
<1>1. CASE Kind[c] = "barrier"
  BY <1>1 DEF Restorable
<1>2. CASE Kind[c] = "binop"
  <2>1. s \in Seq(Values) /\ UpdateResult(c, s, vs) = s \o vs
    BY <1>2 DEF ChannelStates, IsBarrier, UpdateResult
  <2>2. \A i \in 2..Len(s) : s[i] \notin Rejected
    BY <1>2 DEF Restorable
  <2>3. \A i \in 1..Len(vs) : vs[i] \in Rejected => i = 1 /\ Len(s) = 0
    BY <1>2, <2>1 DEF UpdateFails
  <2>4. ASSUME NEW i \in 2..Len(s \o vs)
        PROVE  (s \o vs)[i] \notin Rejected
    <3>1. CASE i <= Len(s)
      BY <2>1, <2>2, <3>1
    <3>2. CASE i > Len(s)
      BY <2>1, <2>3, <3>2
    <3>3. QED
      BY <2>1, <3>1, <3>2
  <2>5. QED
    BY <1>2, <2>1, <2>4 DEF Restorable
<1>3. CASE Kind[c] \notin {"barrier", "binop"}
  <2>1. UpdateResult(c, s, vs) = <<vs[Len(vs)]>>
    BY <1>3 DEF UpdateResult
  <2>2. Len(<<vs[Len(vs)]>>) = 1
    OBVIOUS
  <2>3. QED
    BY <1>3, <2>1, <2>2 DEF Restorable
<1>4. QED
  BY <1>1, <1>2, <1>3

LEMMA EmptyRestorable == \A c \in Channels : Restorable(c, Empty(c))
BY DEF Restorable, Empty, IsBarrier

LEMMA ResidueRestorable ==
  ASSUME NEW c \in Channels, NEW s, Restorable(c, s), NEW vs
  PROVE  Restorable(c, UpdateResidue(c, s, vs))
BY DEF Restorable, UpdateResidue

LEMMA StoredRestorable ==
  ASSUME NEW chs, ChannelsTyped(chs), AllRestorable(chs),
         NEW G, GroupsTyped(G), Failing(chs, G) = {}
  PROVE  AllRestorable(Stored(chs, G))
<1>1. ASSUME NEW c \in DOMAIN G
      PROVE  Restorable(c, UpdateResult(c, chs[c], G[c]))
  BY UpdateRestorable DEF ChannelsTyped, GroupsTyped, Failing, AllRestorable
<1>2. QED
  BY <1>1 DEF AllRestorable, Stored

LEMMA StoredUpToRestorable ==
  ASSUME NEW chs, ChannelsTyped(chs), AllRestorable(chs),
         NEW G, GroupsTyped(G), NEW f \in Failing(chs, G),
         \A c \in Failing(chs, G) : Rank[f] <= Rank[c]
  PROVE  AllRestorable(StoredUpTo(chs, G, f))
<1> SUFFICES ASSUME NEW c \in Channels
             PROVE  Restorable(c, StoredUpTo(chs, G, f)[c])
  BY DEF AllRestorable
<1>1. Restorable(c, chs[c]) /\ chs[c] \in ChannelStates(c)
  BY DEF AllRestorable, ChannelsTyped
<1>2. CASE c = f
  <2>1. ~(Rank[c] < Rank[f])
    BY <1>2, GraphAssumption
  <2>2. StoredUpTo(chs, G, f)[c] = UpdateResidue(c, chs[c], G[c])
    BY <1>2, <2>1 DEF StoredUpTo
  <2>3. QED
    BY <1>1, <2>2, ResidueRestorable
<1>3. CASE c # f /\ c \in DOMAIN G /\ Rank[c] < Rank[f]
  <2>1. Rank[c] \in Nat /\ Rank[f] \in Nat
    BY <1>3, GraphAssumption DEF Failing, GroupsTyped
  <2>2. ~UpdateFails(c, chs[c], G[c])
    BY <1>3, <2>1 DEF Failing
  <2>3. G[c] \in Seq(Values) /\ Len(G[c]) > 0
    BY <1>3 DEF GroupsTyped
  <2>4. StoredUpTo(chs, G, f)[c] = UpdateResult(c, chs[c], G[c])
    BY <1>3 DEF StoredUpTo
  <2>5. QED
    BY <1>1, <2>2, <2>3, <2>4, UpdateRestorable
<1>4. CASE c # f /\ ~(c \in DOMAIN G /\ Rank[c] < Rank[f])
  BY <1>1, <1>4 DEF StoredUpTo
<1>5. QED
  BY <1>2, <1>3, <1>4

(* Writing a kept value to an empty channel, or to a trigger, yields it.   *)
LEMMA TakesBack ==
  ASSUME NEW c \in Channels, ~IsBarrier(c), NEW old,
         Kind[c] = "binop" => old = <<>>,
         NEW value \in Seq(Values), Len(value) > 0, Restorable(c, value)
  PROVE  ~UpdateFails(c, old, value) /\ UpdateResult(c, old, value) = value
<1>1. CASE Kind[c] = "binop"
  <2>1. \A i \in 1..Len(value) : value[i] \in Rejected => i = 1
    BY <1>1 DEF Restorable
  <2>2. ~UpdateFails(c, old, value)
    BY <1>1, <2>1 DEF UpdateFails
  <2>3. <<>> \o value = value
    OBVIOUS
  <2>4. QED
    BY <1>1, <2>2, <2>3 DEF UpdateResult
<1>2. CASE Kind[c] # "binop"
  <2>1. Len(value) = 1 /\ Kind[c] # "barrier"
    <3>1. Kind[c] # "barrier"
      BY DEF IsBarrier
    <3>2. Len(value) <= 1
      BY <1>2, <3>1, Zenon DEF Restorable
    <3>3. Len(value) \in Nat
      BY LenProperties
    <3>4. \A n \in Nat : n > 0 /\ n <= 1 => n = 1
      OBVIOUS
    <3>5. QED
      BY <3>1, <3>2, <3>3, <3>4, Zenon
  <2>2. value = <<value[Len(value)]>>
    BY <2>1
  <2>3. QED
    BY <1>2, <2>1, <2>2 DEF UpdateFails, UpdateResult
<1>3. QED
  BY <1>1, <1>2

LEMMA FreshRestorable == AllRestorable(FreshChannels)
BY FreshIsEmpty, EmptyRestorable DEF AllRestorable

LEMMA ReplayedRestorable ==
  ASSUME IsSaver(saver)
  PROVE  AllRestorable(Replayed)
<1>1. GroupsTyped(Replay) /\ ChannelsTyped(FreshChannels) /\ AllRestorable(FreshChannels)
  BY ReplayType, FreshType, FreshRestorable
<1>2. CASE /\ Failing(FreshChannels, Replay) = {}
           /\ Replayed = Stored(FreshChannels, Replay)
  BY <1>1, <1>2, StoredRestorable
<1>3. ASSUME NEW f \in Failing(FreshChannels, Replay),
             \A c \in Failing(FreshChannels, Replay) : Rank[f] <= Rank[c],
             Replayed = StoredUpTo(FreshChannels, Replay, f)
      PROVE  AllRestorable(Replayed)
  BY <1>1, <1>3, StoredUpToRestorable
<1>4. QED
  BY <1>2, <1>3, ReplayedCases

LEMMA RestoredRestorable ==
  ASSUME IsSaver(saver), NEW c \in Channels
  PROVE  Restorable(c, Restored(c))
<1> DEFINE old   == Replayed[c]
           value == Loaded.values[c]
<1>1. old \in ChannelStates(c) /\ Restorable(c, old)
  BY ReplayedType, ReplayedRestorable DEF ChannelsTyped, AllRestorable
<1>2. CASE IsBarrier(c) \/ value = <<>>
  BY <1>1, <1>2 DEF Restored
<1>3. CASE ~IsBarrier(c) /\ value # <<>>
  <2>1. value \in Seq(Values) /\ Len(value) > 0
    BY <1>3, LoadedValue
  <2> HIDE DEF old, value
  <2>2. CASE UpdateFails(c, old, value)
    <3>1. Restored(c) = UpdateResidue(c, old, value)
      BY <1>3, <2>2 DEF Restored, old, value
    <3>2. QED
      BY <1>1, <3>1, ResidueRestorable
  <2>3. CASE ~UpdateFails(c, old, value)
    <3>1. Restored(c) = UpdateResult(c, old, value)
      BY <1>3, <2>3 DEF Restored, old, value
    <3>2. QED
      BY <1>1, <2>1, <2>3, <3>1, UpdateRestorable
  <2>4. QED
    BY <2>2, <2>3
<1>4. QED
  BY <1>2, <1>3

(* A checkpoint holds the channels that its step has left.                 *)
LEMMA NewValues ==
  ASSUME NEW source, NEW s, NEW seen, last' = NewCheckpoint(source, s, seen), NEW c \in Channels
  PROVE  /\ FromCheckpoint(c, last'.values[c]) = channels'[c]
         /\ ~IsBarrier(c) => last'.values[c] = channels'[c]
<1>1. last'.values[c] = CheckpointOf(c, channels'[c])
  BY DEF NewCheckpoint
<1>2. QED
  BY <1>1, CopyIsExact DEF Copied, CheckpointOf

LEMMA CInitRestorable == CInit => ValuesRestorable
<1> SUFFICES ASSUME CInit, NEW c \in Channels
             PROVE  Restorable(c, channels[c]) /\ Restorable(c, FromCheckpoint(c, last.values[c]))
  BY DEF ValuesRestorable
<1>1. channels[c] = Empty(c)
  BY FreshIsEmpty DEF CInit, Init
<1>2. FromCheckpoint(c, last.values[c]) = Empty(c)
  BY CopyIsExact DEF CInit, EmptyCheckpoint, Copied
<1>3. QED
  BY <1>1, <1>2, EmptyRestorable

LEMMA CEnterRestorable == CInv /\ CEnter => ValuesRestorable'
<1> SUFFICES ASSUME CInv, CEnter, NEW c \in Channels
             PROVE  /\ Restorable(c, channels'[c])
                    /\ Restorable(c, FromCheckpoint(c, last'.values[c]))
  BY DEF ValuesRestorable
<1>1. PICK w \in Inputs :
        /\ \A d \in DOMAIN w : Kind[d] = "ephemeral" /\ channels'[d] = <<w[d]>>
        /\ \A d \in Channels \ DOMAIN w : channels'[d] = Restored(d)
  BY CEnterEffect DEF CInv, CTypeOK
<1>2. Restorable(c, channels'[c])
  <2>1. CASE c \in DOMAIN w
    <3>1. Kind[c] = "ephemeral" /\ Len(channels'[c]) = 1
      BY <1>1, <2>1
    <3>2. QED
      BY <3>1 DEF Restorable
  <2>2. CASE c \notin DOMAIN w
    BY <1>1, <2>2, RestoredRestorable DEF CInv, CTypeOK
  <2>3. QED
    BY <2>1, <2>2
<1>3. last' = NewCheckpoint("input", base', Loaded.seen)
  BY CEnterSaves
<1>4. FromCheckpoint(c, last'.values[c]) = channels'[c]
  BY <1>3, NewValues
<1>5. QED
  BY <1>2, <1>4

(* What after_tick applies the writes of a superstep to.                   *)
LEMMA ApplyRestorable ==
  ASSUME CInv, ValuesRestorable
  PROVE  /\ ChannelsTyped(Consumed(channels, tasks))
         /\ AllRestorable(Consumed(channels, tasks))
         /\ GroupsTyped(Grouped(tasks, writes))
<1>1. ChannelsTyped(channels) /\ tasks \in SUBSET Nodes /\ \A n \in Nodes : IsWrites(writes[n])
  BY DEF CInv, CTypeOK, TypeOK, ChannelsTyped
<1>2. GroupsTyped(Grouped(tasks, writes))
  BY <1>1, GroupedType DEF GroupsTyped
<1>3. AllRestorable(Consumed(channels, tasks))
  BY DEF ValuesRestorable, AllRestorable, Restorable, Consumed, Consume, IsBarrier
<1>4. QED
  BY <1>1, <1>2, <1>3, ConsumedType

LEMMA CAfterTickRestorable == CInv /\ ValuesRestorable /\ CAfterTick => ValuesRestorable'
<1> SUFFICES ASSUME CInv, ValuesRestorable, CAfterTick PROVE ValuesRestorable'
  OBVIOUS
<1>1. /\ channels' = Stored(Consumed(channels, tasks), Grouped(tasks, writes))
      /\ Failing(Consumed(channels, tasks), Grouped(tasks, writes)) = {}
  BY Zenon DEF CAfterTick, AfterTick
<1>2. AllRestorable(channels')
  BY <1>1, ApplyRestorable, StoredRestorable
<1>3. last' = NewCheckpoint("loop", base + step, NothingSeen)
  BY CAfterTickSaves
<1>4. \A c \in Channels : FromCheckpoint(c, last'.values[c]) = channels'[c]
  BY <1>3, NewValues
<1>5. QED
  BY <1>2, <1>4 DEF ValuesRestorable, AllRestorable

LEMMA CAfterTickErrRestorable ==
  CInv /\ ValuesRestorable /\ CAfterTickErr => ValuesRestorable'
<1> SUFFICES ASSUME CInv, ValuesRestorable, CAfterTickErr PROVE ValuesRestorable'
  OBVIOUS
<1> DEFINE chs == Consumed(channels, tasks)
           G   == Grouped(tasks, writes)
<1>1. /\ last' = last
      /\ \E f \in Failing(chs, G) :
           /\ \A c \in Failing(chs, G) : Rank[f] <= Rank[c]
           /\ channels' = StoredUpTo(chs, G, f)
  BY Zenon DEF CAfterTickErr, AfterTickErr
<1>2. PICK f \in Failing(chs, G) :
        /\ \A c \in Failing(chs, G) : Rank[f] <= Rank[c]
        /\ channels' = StoredUpTo(chs, G, f)
  BY <1>1
<1>3. ChannelsTyped(chs) /\ AllRestorable(chs) /\ GroupsTyped(G)
  BY ApplyRestorable
<1> HIDE DEF chs, G
<1>4. AllRestorable(channels')
  BY <1>2, <1>3, StoredUpToRestorable
<1>5. QED
  BY <1>1, <1>4 DEF ValuesRestorable, AllRestorable

LEMMA RestorableStep == CInv /\ ValuesRestorable /\ [CNext]_cvars => ValuesRestorable'
<1> SUFFICES ASSUME CInv, ValuesRestorable, [CNext]_cvars PROVE ValuesRestorable'
  OBVIOUS
<1>1. CASE Unsaved
  <2>1. UNCHANGED <<channels, last>>
    BY <1>1, UnsavedEffect DEF CInv, RunInv, UnsavedMoves, checkpointing, state
  <2>2. QED
    BY <2>1 DEF ValuesRestorable
<1>2. ASSUME NEW forget \in {FALSE, Refill}, NextRun(forget)
      PROVE  ValuesRestorable'
  <2>1. /\ channels' = FreshChannels
        /\ last' = EmptyCheckpoint \/ last' = last
    BY <1>2 DEF NextRun, Reset
  <2>2. \A c \in Channels : FromCheckpoint(c, EmptyCheckpoint.values[c]) = Empty(c)
    BY CopyIsExact DEF EmptyCheckpoint, Copied
  <2>3. QED
    BY <2>1, <2>2, EmptyRestorable, FreshRestorable DEF ValuesRestorable, AllRestorable
<1>3. CASE UNCHANGED cvars
  BY <1>3 DEF cvars, vars, state, checkpointing, ValuesRestorable
<1>4. QED
  BY <1>1, <1>2, <1>3, CEnterRestorable, CAfterTickRestorable, CAfterTickErrRestorable DEF CNext

LEMMA RestorableInvariant == CSpec => []ValuesRestorable
BY CInvariant, CInitRestorable, RestorableStep, PTL DEF CSpec

-----------------------------------------------------------------------------
(* The pending writes under the last checkpoint are in its values.         *)

LEMMA NoPending ==
  ASSUME NEW sv, NEW i, \A k \in DOMAIN sv.writes : k[1] = Here => k[2] # i
  PROVE  Range(Pending(sv, Here, i)) = {}
<1>1. <<Here, i>>[1] = Here /\ <<Here, i>>[2] = i
  OBVIOUS
<1>2. <<Here, i>> \notin DOMAIN sv.writes
  BY <1>1
<1>3. Pending(sv, Here, i) = <<>>
  BY <1>2 DEF Pending
<1>4. QED
  BY <1>3 DEF Range

LEMMA CInitPending == CInit => PendingApplied
<1> SUFFICES ASSUME CInit PROVE PendingApplied
  OBVIOUS
<1>1. Range(Pending(saver, Here, last.id)) = {}
  BY ThreadAssumption, NoPending DEF CInit
<1>2. QED
  BY <1>1 DEF PendingApplied

LEMMA CEnterPending ==
  CInv /\ InputReplaced /\ LastStored /\ CEnter => PendingApplied'
<1> SUFFICES ASSUME CInv, InputReplaced, LastStored, CEnter PROVE PendingApplied'
  OBVIOUS
<1>1. last'.id = last.id + 1 /\ last.id \in Nat
  BY CEnterSaves, NextId, StoredUpToLast DEF CInv
<1>2. saver'.writes = saver.writes
  BY CEnterSaves DEF Put
<1>3. \A k \in DOMAIN saver'.writes : k[1] = Here => k[2] # last'.id
  BY <1>1, <1>2, StoredUpToLast
<1>4. Range(Pending(saver', Here, last'.id)) = {}
  BY <1>3, NoPending
<1>5. QED
  BY <1>4 DEF PendingApplied

LEMMA CAfterTickPending ==
  ASSUME EntrySafe, CInv, EntryApplies, LastStored, CAfterTick
  PROVE  PendingApplied'
<1> DEFINE G == Grouped(tasks, writes)
<1>1. /\ phase = "apply" /\ step \in Nat /\ base \in Nat
      /\ last' = NewCheckpoint("loop", base + step, NothingSeen)
      /\ saver' = Put(Logged, Here, last') /\ last'.id = base + step + 1
  BY CAfterTickSaves
<1>2. /\ config = last.id /\ config \in Nat \ {0}
      /\ config = base + (IF step = 0 THEN 1 ELSE step)
  BY <1>1, ConfigStored
<1>3. Pending(saver', Here, last'.id) = Pending(Logged, Here, last'.id)
  <2>1. saver'.writes = Logged.writes
    BY <1>1 DEF Put
  <2>2. QED
    BY <2>1 DEF Pending
<1>4. CASE step = 0
  <2>1. last'.id = config
    BY <1>1, <1>2, <1>4
  <2>2. Range(Pending(saver, Here, config)) = {}
    <3>1. \A k \in DOMAIN saver.writes : k[1] = Here => k[2] # config
      BY <1>2, <1>4 DEF LastStored
    <3>2. QED
      BY <3>1, NoPending
  <2>3. Range(Pending(saver', Here, last'.id)) \subseteq Range(Assembled)
    BY <1>3, <2>1, <2>2, LoggedType
  <2>4. ASSUME NEW p \in Range(Assembled), NEW c \in DOMAIN p.writes
        PROVE  Kind[c] = "ephemeral" /\ last'.values[c] # <<>>
    <3>1. p.task \in tasks /\ p.task \in Nodes /\ p.writes = writes[p.task]
      BY AssembledType DEF CInv, CTypeOK, TypeOK
    <3>2. Kind[c] = "ephemeral"
      BY <1>1, <1>2, <1>4, <3>1, EntryWrites
    <3>3. c \in Channels
      BY <3>1 DEF CInv, CTypeOK, TypeOK, IsWrites
    <3>4. c \in DOMAIN G
      BY <3>1, <3>3 DEF Grouped, Writers
    <3>5. channels' = Stored(Consumed(channels, tasks), G)
      BY Zenon DEF CAfterTick, AfterTick
    <3> HIDE DEF G
    <3>6. \E v : channels'[c] = <<v>>
      BY <3>2, <3>3, <3>4, <3>5 DEF Stored, UpdateResult
    <3>7. last'.values[c] = channels'[c]
      BY <1>1, <3>2, <3>3, NewValues DEF IsBarrier
    <3>8. QED
      BY <3>2, <3>6, <3>7
  <2>5. QED
    BY <2>3, <2>4 DEF PendingApplied
<1>5. CASE step # 0
  <2>1. last'.id = config + 1
    BY <1>1, <1>2, <1>5
  <2>2. ASSUME NEW k \in DOMAIN Logged.writes, k[1] = Here
        PROVE  k[2] # last'.id
    <3>1. CASE k = <<Here, config>>
      BY <1>2, <2>1, <3>1
    <3>2. CASE k # <<Here, config>>
      <4>1. k[2] \in 1..last.id
        BY <2>2, <3>2, LoggedType, StoredUpToLast
      <4>2. QED
        BY <1>2, <2>1, <4>1
    <3>3. QED
      BY <3>1, <3>2
  <2>3. Range(Pending(Logged, Here, last'.id)) = {}
    BY <2>2, NoPending
  <2>4. QED
    BY <1>3, <2>3 DEF PendingApplied
<1>6. QED
  BY <1>4, <1>5

LEMMA UnsavedPending ==
  ASSUME CInv, PendingApplied, Unsaved
  PROVE  PendingApplied'
<1>1. UnsavedMoves /\ UNCHANGED <<saver, config, last, prior>>
  BY UnsavedEffect DEF CInv, RunInv, checkpointing
<1>2. error.kind = "channel" => error' = error
  <2>1. CASE phase = "ended"
    BY <1>1, <2>1 DEF UnsavedMoves
  <2>2. CASE phase # "ended"
    BY <2>2 DEF CInv, RunInv, JoinOrder, NoError
  <2>3. QED
    BY <2>1, <2>2
<1>3. QED
  BY <1>1, <1>2 DEF PendingApplied

LEMMA NextRunPending ==
  ASSUME Refill, CInv, PendingApplied, NEW forget \in {FALSE, Refill}, NextRun(forget)
  PROVE  PendingApplied'
<1>1. /\ phase = "ended" /\ config' = 0
      /\ saver' = IF forget THEN DeleteThread(saver, Thread) ELSE saver
      /\ last' = IF forget THEN EmptyCheckpoint ELSE last
      /\ prior' = IF error.kind = "empty input" THEN prior ELSE error.kind
  BY DEF NextRun
<1>2. CASE forget
  <2>1. \A k \in DOMAIN saver'.writes : k[1] # Here
    BY <1>1, <1>2, Forgotten
  <2>2. Range(Pending(saver', Here, last'.id)) = {}
    BY <2>1, NoPending
  <2>3. QED
    BY <2>2 DEF PendingApplied
<1>3. CASE ~forget
  <2>1. saver' = saver /\ last' = last
    BY <1>1, <1>3
  <2>2. prior' # "channel" => error.kind # "channel" /\ (config = 0 => prior # "channel")
    <3>1. CASE error.kind = "empty input"
      BY <1>1, <3>1
    <3>2. CASE error.kind # "empty input"
      <4>1. config # 0
        <5>1. config = base + (IF step = 0 THEN 1 ELSE step)
          BY <1>1, <3>2 DEF CInv, ThreadInv, CheckpointFollows
        <5>2. base \in Nat /\ step \in Nat
          BY DEF CInv, CTypeOK, TypeOK
        <5>3. QED
          BY <5>1, <5>2
      <4>2. QED
        BY <1>1, <3>2, <4>1
    <3>3. QED
      BY <3>1, <3>2
  <2>3. QED
    BY <1>1, <2>1, <2>2 DEF PendingApplied
<1>4. QED
  BY <1>2, <1>3

LEMMA PendingStep ==
  ASSUME Refill, EntrySafe, CInv, ResumeInv, PendingApplied, [CNext]_cvars
  PROVE  PendingApplied'
<1>1. CASE CAfterTickErr
  <2>1. PICK f : error' = [kind |-> "channel", at |-> f]
    BY <1>1, Zenon DEF CAfterTickErr, AfterTickErr, End
  <2>2. error'.kind = "channel"
    BY <2>1
  <2>3. QED
    BY <2>2 DEF PendingApplied
<1>2. ASSUME NEW forget \in {FALSE, Refill}, NextRun(forget)
      PROVE  PendingApplied'
  BY <1>2, NextRunPending
<1>3. CASE UNCHANGED cvars
  BY <1>3 DEF cvars, vars, control, checkpointing, PendingApplied
<1>4. QED
  BY <1>1, <1>2, <1>3, CEnterPending, CAfterTickPending, UnsavedPending
     DEF CNext, ResumeInv

LEMMA PendingInvariant ==
  ASSUME Refill, EntrySafe
  PROVE  CSpec => []PendingApplied
<1>1. CInv /\ ResumeInv /\ PendingApplied /\ [CNext]_cvars => PendingApplied'
  BY PendingStep
<1>2. QED
  BY <1>1, CInvariant, ResumeInvariant, CInitPending, PTL DEF CSpec

(* Unless a channel has stopped the last run, what is replayed was applied *)
(* already, and each channel takes back the value it had.                  *)
LEMMA RestoresLast ==
  ASSUME CInv, LastStored, ValuesRestorable, PendingApplied, CEnter, prior # "channel",
         NEW c \in Channels \ updated', ~IsBarrier(c)
  PROVE  channels'[c] = FromCheckpoint(c, last.values[c])
<1> DEFINE value == last.values[c]
           old   == Replayed[c]
<1>1. Loaded = last /\ Tuple.pending = Pending(saver, Here, last.id) /\ IsSaver(saver)
  BY LoadedIsLast DEF CInv, CTypeOK
<1>2. channels'[c] = Restored(c)
  BY <1>1, CEnterEffect
<1>3. FromCheckpoint(c, value) = value
  BY DEF FromCheckpoint
<1>4. \A d \in DOMAIN Replay : Kind[d] = "ephemeral" /\ last.values[d] # <<>>
  <2>1. error.kind # "channel"
    BY CEnterSaves DEF CInv, RunInv, JoinOrder, NoError
  <2>2. \A p \in Range(Tuple.pending) : \A d \in DOMAIN p.writes :
          Kind[d] = "ephemeral" /\ last.values[d] # <<>>
    BY <1>1, <2>1 DEF PendingApplied
  <2>3. ASSUME NEW d \in DOMAIN Replay
        PROVE  \E p \in Range(Tuple.pending) : d \in DOMAIN p.writes
    BY <1>1, ReplayedHere
  <2>4. QED
    BY <2>2, <2>3
<1>5. c \notin DOMAIN Replay => old = <<>>
  <2>1. Failing(FreshChannels, Replay) = {}
    BY <1>4 DEF Failing, UpdateFails
  <2>2. Replayed = Stored(FreshChannels, Replay)
    BY <2>1 DEF Replayed
  <2>3. QED
    BY <2>2, FreshIsEmpty DEF Stored, Empty
<1>6. CASE value = <<>>
  BY <1>1, <1>2, <1>3, <1>4, <1>5, <1>6 DEF Restored
<1>7. CASE value # <<>>
  <2>1. value \in Seq(Values) /\ Len(value) > 0
    BY <1>1, <1>7, LoadedValue
  <2>2. Restorable(c, value)
    BY <1>3 DEF ValuesRestorable
  <2>3. Kind[c] = "binop" => old = <<>>
    BY <1>4, <1>5
  <2> HIDE DEF value, old
  <2>4. ~UpdateFails(c, old, value) /\ UpdateResult(c, old, value) = value
    BY <2>1, <2>2, <2>3, TakesBack
  <2>5. Restored(c) = value
    BY <1>1, <1>7, <2>4 DEF Restored, value, old
  <2>6. QED
    BY <1>2, <1>3, <2>5 DEF value
<1>8. QED
  BY <1>6, <1>7

(* A resumed run has the values of the last superstep that was applied:    *)
(* nothing is lost, and nothing is combined twice.                         *)
THEOREM ResumesValues ==
  ASSUME Refill, EntrySafe
  PROVE  CSpec => StateRestored
<1>1. CInv /\ CNext /\ phase = "enter" /\ phase' = "tick" => CEnter
  <2> SUFFICES ASSUME CInv, CNext, phase = "enter", phase' = "tick" PROVE CEnter
    OBVIOUS
  <2>1. CASE CAfterTick \/ CAfterTickErr
    BY <2>1, Zenon DEF CAfterTick, CAfterTickErr, AfterTick, AfterTickErr
  <2>2. CASE Unsaved
    BY <2>2, UnsavedEffect DEF CInv, RunInv, UnsavedMoves
  <2>3. CASE \E forget \in {FALSE, Refill} : NextRun(forget)
    BY <2>3 DEF NextRun
  <2>4. QED
    BY <2>1, <2>2, <2>3 DEF CNext
<1>2. CInv /\ ResumeInv /\ ValuesRestorable /\ PendingApplied /\ [CNext]_cvars
        => [phase = "enter" /\ phase' = "tick" /\ prior # "channel" =>
              \A c \in Channels \ updated' :
                ~IsBarrier(c) => channels'[c] = FromCheckpoint(c, last.values[c])]_cvars
  BY <1>1, RestoresLast DEF ResumeInv
<1>3. QED
  BY <1>2, CInvariant, ResumeInvariant, RestorableInvariant, PendingInvariant, PTL
     DEF CSpec, StateRestored

=============================================================================
