-------------------------- MODULE CheckpointedLoop --------------------------
(***************************************************************************)
(* Runs of one graph on one thread, with a checkpointer attached: what     *)
(* enter, after_tick and put_checkpoint (src/src/pregel/loops.rs) do to    *)
(* the saver, and what the next run makes of it.                           *)
(*                                                                         *)
(* A run owns its saver: RuntimeContext::with_checkpointer takes it by     *)
(* value and the background task drops it. The saver of the next run is    *)
(* either what the caller still has, untouched (Refill = FALSE), or one    *)
(* that the caller has filled, through the public put and put_writes, with *)
(* what the run before had stored (Refill = TRUE). The caller may also     *)
(* delete the thread first, and a saver may hold the checkpoints of other  *)
(* threads and namespaces.                                                 *)
(*                                                                         *)
(* step of PregelLoop counts from the start of the run; the field step of  *)
(* the code is base + step, and its field stop base + Stop.                *)
(***************************************************************************)
EXTENDS PregelLoop, MemorySaver

CONSTANTS
  Refill,   \* see above
  Given,    \* the saver of the first run
  MaxRuns   \* bound on the number of runs

(* The thread and the namespace of every run. *)
Thread == "default"
Here == <<Thread, "">>

-----------------------------------------------------------------------------
(* The shape of a checkpoint, of pending writes and of a saver. *)
IsCheckpoint(cp) ==
  /\ cp.id \in Nat /\ cp.parent \in Nat
  /\ \A c \in Channels : FromCheckpoint(c, cp.values[c]) \in ChannelStates(c)
  /\ cp.versions \in [Channels -> Nat]
  /\ cp.updated \subseteq Channels
  /\ cp.source \in {"none", "input", "loop"}
  /\ cp.step = IF cp.source = "loop" THEN cp.id - 1 ELSE -1

IsPending(ps) ==
  /\ ps \in Seq(Range(ps))
  /\ \A p \in Range(ps) : p.task \in Nodes /\ IsWrites(p.writes)

IsSaver(sv) ==
  /\ \A k \in DOMAIN sv.stored : k = <<k[1], sv.stored[k].id>> /\ IsCheckpoint(sv.stored[k])
  /\ \A k \in DOMAIN sv.writes : k = <<k[1], k[2]>> /\ IsPending(sv.writes[k])

(* The first run has a thread of its own, in a saver that other runs have  *)
(* filled.                                                                 *)
ASSUME ThreadAssumption ==
  /\ Refill \in BOOLEAN
  /\ IsSaver(Given)
  /\ Ids(Given, Here) = {}
  /\ \A k \in DOMAIN Given.writes : k[1] # Here
  /\ MaxRuns \in Nat \ {0}

VARIABLES
  saver,    \* the checkpointer of the current run
  config,   \* checkpoint_config's id, 0 for None
  base,     \* the step the current run started at
  run,      \* number of the current run
  last,     \* history: the checkpoint that was stored last on the thread
  prior     \* history: the error that ended the last run that got its input

checkpointing == <<saver, config, base, last>>
cvars == <<vars, checkpointing, run, prior>>

-----------------------------------------------------------------------------
(* Loading.                                                                *)

NothingSeen == [n \in {} |-> n]

(* empty_checkpoint; the step -1 makes a run without metadata start at 0.  *)
EmptyCheckpoint ==
  [id |-> 0, values |-> [c \in Channels |-> CheckpointOf(c, Empty(c))],
   versions |-> [c \in Channels |-> 0], seen |-> NothingSeen,
   updated |-> {}, source |-> "none", step |-> -1, parent |-> 0]

NoTuple == [checkpoint |-> EmptyCheckpoint, pending |-> <<>>]

Tuple == IF GetTuple(saver, Here, 0) = {} THEN NoTuple
         ELSE CHOOSE t \in GetTuple(saver, Here, 0) : TRUE
Loaded == Tuple.checkpoint

(* The pending writes of the loaded checkpoint, all written by one pseudo- *)
(* task: for every channel its values in the order they are kept in.       *)
Replay ==
  LET pending    == Tuple.pending
      writing(c) == Selected(pending, {i \in DOMAIN pending : c \in DOMAIN pending[i].writes})
  IN  [c \in {d \in Channels : writing(d) # <<>>} |->
         [i \in DOMAIN writing(c) |-> writing(c)[i].writes[c]]]

(* The fresh channels after the replay. Its error is dropped, and so is    *)
(* the set of channels it has updated.                                     *)
Replayed ==
  LET failing == Failing(FreshChannels, Replay)
  IN  IF failing = {} THEN Stored(FreshChannels, Replay)
      ELSE StoredUpTo(FreshChannels, Replay,
             CHOOSE f \in failing : \A c \in failing : Rank[f] <= Rank[c])

(* A channel value of the checkpoint is written by update(), whose error   *)
(* is dropped. A barrier refuses it: a list of names is no name.           *)
Restored(c) ==
  LET old   == Replayed[c]
      value == Loaded.values[c]
  IN  IF IsBarrier(c) \/ value = <<>>       THEN old
      ELSE IF UpdateFails(c, old, value)    THEN UpdateResidue(c, old, value)
      ELSE UpdateResult(c, old, value)

(* Variant: every run counts from 0. *)
StartStepZero == 0

(* The step a run starts at: the one after the loaded checkpoint's.        *)
StartStep == Loaded.step + 1

(* Variant: the channels are restored, their versions are not. *)
StartVersionsZero == [c \in Channels |-> 0]

(* The versions a run starts with. *)
StartVersions == Loaded.versions

(* Variant: what the replay has updated triggers nodes too. *)
EnterUpdatedReplay(updates) == updates \cup {c \in DOMAIN Replay : Available(c, Restored(c))}

(* enter overwrites updated_channels with what the input has updated. *)
EnterUpdated(updates) == updates

-----------------------------------------------------------------------------
(* Saving.                                                                 *)

(* Variant: the id is the step. *)
CheckpointIdStep(s) == s

(* create_checkpoint names a checkpoint after its step. *)
CheckpointId(s) == s + 1

(* create_checkpoint with its metadata, after an action that has just set  *)
(* channels', versions' and updated'. versions_seen is not the loop's own, *)
(* it is handed down from the checkpoint before.                           *)
NewCheckpoint(source, s, seen) ==
  [id |-> CheckpointId(s),
   values |-> [c \in Channels |-> CheckpointOf(c, channels'[c])],
   versions |-> versions',
   seen |-> seen, updated |-> updated', source |-> source,
   step |-> IF source = "input" THEN -1 ELSE s, parent |-> config]

(* put_checkpoint into the saver sv. *)
PutCheckpoint(sv, source, s, seen) ==
  LET cp == NewCheckpoint(source, s, seen)
  IN  /\ saver' = Put(sv, Here, cp)
      /\ config' = cp.id
      /\ last' = cp

(* The pending writes of a superstep: one entry, in path order, for each   *)
(* task that has written something.                                        *)
Assembled ==
  LET order == PathOrder({n \in tasks : DOMAIN writes[n] # {}})
  IN  [i \in DOMAIN order |-> [task |-> order[i], writes |-> writes[order[i]]]]

(* Variant: kept under the checkpoint they are going to be part of. *)
LoggedLate == PutWrites(saver, Here, CheckpointId(base + step), Assembled)

(* after_tick stores them before it applies them, under the checkpoint of  *)
(* the superstep before.                                                   *)
Logged == PutWrites(saver, Here, config, Assembled)

-----------------------------------------------------------------------------
CInit ==
  /\ Init
  /\ saver = Given
  /\ config = 0
  /\ base = 0
  /\ last = EmptyCheckpoint
  /\ run = 1
  /\ prior = "none"

(* enter: the latest checkpoint is loaded, its pending writes are replayed *)
(* and its values restored over them, then the input is applied and the    *)
(* input checkpoint stored. It has no parent: the configuration it is      *)
(* stored with carries no id. The entry "__interrupt__" that enter makes   *)
(* in versions_seen is read by nobody and left out.                        *)
CEnter ==
  /\ phase = "enter"
  /\ \E w \in Inputs :
       LET restored == [c \in Channels |-> Restored(c)]
           G        == [c \in DOMAIN w |-> <<w[c]>>]
       IN  /\ DOMAIN w # {}
           /\ channels' = Stored(restored, G)
           /\ updated' = EnterUpdated(Changed(restored, G))
           /\ versions' = [c \in Channels |->
                StartVersions[c] + (IF c \in updated' THEN 1 ELSE 0)]
  /\ versionsSeen' = Loaded.seen
  /\ base' = StartStep
  /\ PutCheckpoint(saver, "input", base', Loaded.seen)
  /\ Goto("tick")
  /\ UNCHANGED <<step, execution, run, prior>>

(* after_tick: pending writes, the superstep's updates, loop checkpoint.   *)
CAfterTick ==
  /\ AfterTick
  /\ PutCheckpoint(Logged, "loop", base + step, saver.stored[<<Here, config>>].seen)
  /\ UNCHANGED <<base, run, prior>>

(* after_tick when a channel refuses: the pending writes stay behind. *)
CAfterTickErr ==
  /\ AfterTickErr
  /\ saver' = Logged
  /\ UNCHANGED <<config, base, last, run, prior>>

(* What a checkpointer does not take part in. What enter has restored when *)
(* it finds the input empty is dropped with the run.                       *)
Unsaved ==
  /\ \/ EnterEmpty \/ OutOfSteps \/ Done \/ Prepare
     \/ JoinOk \/ JoinErr \/ Unwind \/ LeaveScope
     \/ \E n \in Nodes : Node(n)
     \/ DropReceiver
     \/ Ended
  /\ UNCHANGED <<checkpointing, run, prior>>

(* PregelLoop::new, as in Init. *)
Reset ==
  /\ phase' = "enter" /\ outcome' = "running" /\ error' = NoError
  /\ open' = TRUE
  /\ step' = 0
  /\ channels' = FreshChannels
  /\ versions' = [c \in Channels |-> 0]
  /\ versionsSeen' = NothingSeen
  /\ updated' = {}
  /\ Submit({})

(* The caller starts another run, with new channels and a new saver. *)
NextRun(forget) ==
  /\ phase = "ended"
  /\ run < MaxRuns
  /\ Reset
  /\ saver' = IF ~Refill     THEN Given
              ELSE IF forget THEN DeleteThread(saver, Thread)
              ELSE saver
  /\ config' = 0
  /\ base' = 0
  /\ run' = run + 1
  /\ prior' = IF error.kind = "empty input" THEN prior ELSE error.kind
  /\ last' = IF forget THEN EmptyCheckpoint ELSE last

CNext ==
  \/ CEnter \/ CAfterTick \/ CAfterTickErr \/ Unsaved
  \/ \E forget \in {FALSE, Refill} : NextRun(forget)

CSpec == CInit /\ [][CNext]_cvars

-----------------------------------------------------------------------------
(* Type invariant: the saver, and the shape of every checkpoint in it. *)
CTypeOK ==
  /\ TypeOK
  /\ IsSaver(saver)
  /\ config = 0 \/ config \in Ids(saver, Here)
  /\ base \in Nat /\ run \in 1..MaxRuns
  /\ IsCheckpoint(last)
  /\ prior \in ErrorKinds

(* The thread can be resumed: what its next run would load is the          *)
(* checkpoint that was stored last, not an older one with a greater id and *)
(* not nothing.                                                            *)
LatestIsLast == Loaded = last

(* A resumed run starts from the values the run before had after the last  *)
(* superstep it applied: nothing is lost, and no reducer combines an       *)
(* operand twice. Barriers, the input, and threads whose last run a        *)
(* channel has stopped are excepted.                                       *)
StateRestored ==
  [][phase = "enter" /\ phase' = "tick" /\ prior # "channel" =>
       \A c \in Channels \ updated' :
         ~IsBarrier(c) => channels'[c] = FromCheckpoint(c, last.values[c])]_cvars

(* Versions never fall back from one checkpoint of a thread to the next,   *)
(* across runs included, unless the thread is deleted: a version           *)
(* identifies a value of its channel.                                      *)
VersionsKept ==
  [][last' # EmptyCheckpoint =>
       \A c \in Channels : last.versions[c] <= last'.versions[c]]_cvars

(* The nodes that subscribe to an input channel. *)
Entry == {n \in Nodes : Triggers[n] \cap (UNION {DOMAIN w : w \in Inputs}) # {}}

(* What a resumed run executes first depends on its input alone: on the    *)
(* nodes that subscribe to the input channels, whatever was triggered, or  *)
(* has even run, when the thread was interrupted (loops.rs:170), and       *)
(* whatever pending writes were replayed.                                  *)
InputDecides ==
  phase = "join" /\ step = 0 =>
    tasks = Entry

(* enter says of itself that it restores the channel state (loops.rs:104); *)
(* so the arrivals of a join that was interrupted half way are kept.       *)
BarrierRestored ==
  [][phase = "enter" /\ phase' = "tick" =>
       \A c \in Channels : IsBarrier(c) => channels'[c] = FromCheckpoint(c, Loaded.values[c])]_cvars

-----------------------------------------------------------------------------
(* The parts of the inductive invariants behind the theorems of            *)
(* CheckpointProofs.                                                       *)

(* The checkpoints of the thread have seen nothing: the loop hands down    *)
(* what it has loaded, and what tasks see is not stored.                   *)
SeenNothing ==
  \A k \in DOMAIN saver.stored : k[1] = Here => saver.stored[k].seen = NothingSeen

(* The first superstep of a run is that of the entry nodes.                *)
StartsAtEntry ==
  step = 0 /\ phase \in {"tick", "join", "scope", "apply"} =>
    Candidates = Entry /\ Entry # {}

(* How config and the last checkpoint follow the run.                      *)
CheckpointFollows ==
  IF phase = "enter" \/ (phase = "ended" /\ error.kind = "empty input")
  THEN config = 0 /\ step = 0 /\ tasks = {}
  ELSE /\ config = last.id
       /\ config = base + (IF step = 0 THEN 1 ELSE step)
       /\ last.versions = versions
       /\ last.source = IF step = 0 THEN "input" ELSE "loop"

(* What the compiler makes of START, the entry node: its function does     *)
(* nothing and it writes only to triggers (src/src/graph/compiled.rs:62);  *)
(* if it has branches, they do not fail.                                   *)
EntrySafe ==
  \A n \in Entry :
    /\ n \notin Faulty \cup Panicky
    /\ \A w \in Outputs[n] : \A c \in DOMAIN w : Kind[c] = "ephemeral"

(* So the first superstep of a run is applied, once it has its input, ...  *)
EntryApplies ==
  config # 0 /\ step = 0 =>
    /\ phase \in {"tick", "join", "apply"}
    /\ \A n \in tasks : n \in Entry /\ thread[n] \in {"running", "ok"}

(* ... and its input checkpoint is replaced before the run is over.        *)
InputReplaced == config = 0 => last = EmptyCheckpoint \/ last.source = "loop"

(* The last checkpoint is stored, under the greatest id of the thread, and *)
(* no pending writes are kept beyond it.                                   *)
LastStored ==
  /\ IF Ids(saver, Here) = {} THEN last = EmptyCheckpoint
     ELSE /\ last.id \in Ids(saver, Here)
          /\ \A i \in Ids(saver, Here) : i <= last.id
          /\ saver.stored[<<Here, last.id>>] = last
  /\ \A k \in DOMAIN saver.writes : k[1] = Here =>
       /\ k[2] \in 1..last.id
       /\ config # 0 /\ step = 0 => k[2] # last.id

(* An empty channel takes the value s back from a checkpoint. *)
Restorable(c, s) ==
  CASE Kind[c] = "barrier" -> TRUE
    [] Kind[c] = "binop"   -> \A i \in 2..Len(s) : s[i] \notin Rejected
    [] OTHER               -> Len(s) <= 1

ValuesRestorable ==
  \A c \in Channels : /\ Restorable(c, channels[c])
                      /\ Restorable(c, FromCheckpoint(c, last.values[c]))

(* Pending writes under the last checkpoint are in its values already,     *)
(* unless a channel has refused them.                                      *)
PendingApplied ==
  error.kind # "channel" /\ (config = 0 => prior # "channel") =>
    \A p \in Range(Pending(saver, Here, last.id)) : \A c \in DOMAIN p.writes :
      Kind[c] = "ephemeral" /\ last.values[c] # <<>>

=============================================================================
