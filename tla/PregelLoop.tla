----------------------------- MODULE PregelLoop -----------------------------
(***************************************************************************)
(* One run of a compiled graph: src/src/pregel/loops.rs driven by the main *)
(* loop of Pregel::stream (src/src/pregel/pregel.rs:200-226), with the     *)
(* scoped threads of src/src/pregel/task.rs.                               *)
(*                                                                         *)
(*   enter                 input applied, trigger versions bumped          *)
(*   tick                  limit check, tasks of the next superstep        *)
(*   execute               one thread per task, joined in path order       *)
(*   after_tick            writes applied, versions bumped, next step      *)
(*                                                                         *)
(* The graph (nodes, triggers, channels) is a parameter. What a node       *)
(* function returns is a nondeterministic choice from Outputs[n]: the      *)
(* writes its writers assemble, at most one value per channel. No          *)
(* checkpointer is attached to the run. The stream the run feeds is added  *)
(* by module StreamRun; here the only trace of it is whether the receiver  *)
(* is still open.                                                          *)
(***************************************************************************)
EXTENDS Program

ASSUME GraphAssumption == GraphFits
ASSUME InputAssumption == InputFits

VARIABLES
  phase,         \* the point of the main loop that runs next
  outcome,       \* how the run ended
  error,         \* the error handed to the stream, if outcome = "error"
  open,          \* the receiver has not been dropped
  step,          \* PregelLoop.step
  channels,      \* PregelLoop.channels, this run's private copies
  versions,      \* channel_versions; 0 stands for "no entry"
  versionsSeen,  \* versions_seen; a node has an entry once it has run
  updated,       \* updated_channels
  tasks,         \* nodes with a task in this superstep
  thread,        \* what the thread of each task is doing
  writes,        \* the writes each finished task has assembled
  joined,        \* tasks whose handle has been joined successfully
  failed         \* {} or {n}: the first join that did not succeed

control == <<phase, outcome, error, open>>
state == <<step, channels, versions, versionsSeen, updated>>
execution == <<tasks, thread, writes, joined, failed>>
vars == <<control, state, execution>>

Phases == {"enter", "tick", "join", "scope", "apply", "ended"}
Outcomes == {"running", "done", "error", "closed", "vanished"}
ErrorKinds ==
  {"none", "empty input", "recursion limit", "err", "panic", "channel"}
NoError == [kind |-> "none", at |-> "none"]

(* Variant: one step too many. *)
StopLate == RecursionLimit + 2

(* The last step that may be executed. *)
Stop == RecursionLimit + 1

-----------------------------------------------------------------------------
(* Update phase: versioning. Module Updates has the rest.                  *)

(* Variant: versions_seen recorded after the bump. *)
SeenLate(T) ==
  [n \in DOMAIN versionsSeen \cup T |->
     [c \in Channels |->
        IF n \in T /\ c \in Triggers[n]  THEN versions[c] + 1
        ELSE IF n \in DOMAIN versionsSeen THEN versionsSeen[n][c]
        ELSE 0]]

(* versions_seen after the tasks T: each records the current version of    *)
(* all its triggers, before the versions of this superstep are bumped.     *)
Seen(T) ==
  [n \in DOMAIN versionsSeen \cup T |->
     [c \in Channels |->
        IF n \in T /\ c \in Triggers[n] /\ versions[c] > 0 THEN versions[c]
        ELSE IF n \in DOMAIN versionsSeen                   THEN versionsSeen[n][c]
        ELSE 0]]

Bumped(U) == [c \in Channels |-> versions[c] + (IF c \in U THEN 1 ELSE 0)]

-----------------------------------------------------------------------------
(* Plan phase: which nodes get a task.                                     *)

(* prepare_tasks: the nodes subscribed to an updated channel. *)
Candidates == {n \in Nodes : Triggers[n] \cap updated # {}}

(* prepare_task: some trigger is available and newer than what the node    *)
(* has seen; a node without an entry in versions_seen has seen nothing.    *)
ShouldRun(n) ==
  \E c \in Triggers[n] :
    /\ Available(c, channels[c])
    /\ n \in DOMAIN versionsSeen => versions[c] > versionsSeen[n][c]

Ready == {n \in Candidates : ShouldRun(n)}

-----------------------------------------------------------------------------
(* copy_channels: every run has channels of its own. *)
FreshChannels == [c \in Channels |-> Copied(c, Empty(c))]

Init ==
  /\ phase = "enter" /\ outcome = "running" /\ error = NoError
  /\ open = TRUE
  /\ step = 0
  /\ channels = FreshChannels
  /\ versions = [c \in Channels |-> 0]
  /\ versionsSeen = [n \in {} |-> n]
  /\ updated = {}
  /\ tasks = {}
  /\ thread = [n \in Nodes |-> "idle"]
  /\ writes = [n \in Nodes |-> NoWrites]
  /\ joined = {}
  /\ failed = {}

(* The run is over; an error is sent on the stream, a panic is not. *)
End(how, err) ==
  /\ phase' = "ended"
  /\ outcome' = how
  /\ error' = err
  /\ UNCHANGED open

Goto(p) == phase' = p /\ UNCHANGED <<outcome, error, open>>

(* enter / first / map_input: the input is written by a pseudo-task that   *)
(* has no triggers, so nothing is consumed and no node has seen anything.  *)
Enter ==
  /\ phase = "enter"
  /\ \E w \in Inputs :
       LET G == [c \in DOMAIN w |-> <<w[c]>>]
       IN  /\ DOMAIN w # {}
           /\ channels' = Stored(channels, G)
           /\ updated' = Changed(channels, G)
           /\ versions' = Bumped(Changed(channels, G))
  /\ Goto("tick")
  /\ UNCHANGED <<step, versionsSeen, execution>>

(* first: no input, or none for an input channel. *)
EnterEmpty ==
  /\ phase = "enter"
  /\ \E w \in Inputs : DOMAIN w = {}
  /\ End("error", [kind |-> "empty input", at |-> "none"])
  /\ UNCHANGED <<state, execution>>

(* tick: the limit is checked before anything is prepared. *)
OutOfSteps ==
  /\ phase = "tick"
  /\ step > Stop
  /\ End("error", [kind |-> "recursion limit", at |-> "none"])
  /\ UNCHANGED <<state, execution>>

(* Variant: the joins of the last superstep are not cleared. *)
SubmitUncleared(T) ==
  /\ tasks' = T
  /\ thread' = [n \in Nodes |-> IF n \in T THEN "running" ELSE "idle"]
  /\ writes' = [n \in Nodes |-> NoWrites]
  /\ failed' = {}
  /\ UNCHANGED joined

(* clear_tasks and the submitted tasks of the new superstep, each handed   *)
(* to a thread of its own (a single task runs on the caller's).            *)
Submit(T) ==
  /\ tasks' = T
  /\ thread' = [n \in Nodes |-> IF n \in T THEN "running" ELSE "idle"]
  /\ writes' = [n \in Nodes |-> NoWrites]
  /\ joined' = {}
  /\ failed' = {}

(* tick, then the start of execute_pending_tasks. *)
Prepare ==
  /\ phase = "tick"
  /\ step <= Stop
  /\ Ready # {}
  /\ Submit(Ready)
  /\ Goto("join")
  /\ UNCHANGED state

(* tick: no task. *)
Done ==
  /\ phase = "tick"
  /\ step <= Stop
  /\ Ready = {}
  /\ Submit({})
  /\ End("done", NoError)
  /\ UNCHANGED state

(* execute_task_inner returns Ok with the writes of the task, ... *)
Return(n) ==
  /\ thread[n] = "running"
  /\ \E w \in Outputs[n] : writes' = [writes EXCEPT ![n] = w]
  /\ thread' = [thread EXCEPT ![n] = "ok"]
  /\ UNCHANGED <<control, state, tasks, joined, failed>>

(* ... or Err: the node's own error, an unsupported Command, an invalid    *)
(* branch target or an update that is not an object, ...                   *)
Fail(n) ==
  /\ n \in Faulty
  /\ thread[n] = "running"
  /\ thread' = [thread EXCEPT ![n] = "err"]
  /\ UNCHANGED <<control, state, tasks, writes, joined, failed>>

(* ... or the node function panics. *)
Panic(n) ==
  /\ n \in Panicky
  /\ thread[n] = "running"
  /\ thread' = [thread EXCEPT ![n] = "panic"]
  /\ UNCHANGED <<control, state, tasks, writes, joined, failed>>

(* Variant: handles joined in the order in which the threads finish. *)
JoinsAny(n) ==
  /\ phase = "join"
  /\ n \in tasks \ joined
  /\ thread[n] # "running"

(* The handle of n is the one the join loop waits on: the first in path    *)
(* order that has not been joined.                                         *)
JoinsNext(n) ==
  /\ phase = "join"
  /\ n \in tasks \ joined
  /\ \A m \in tasks \ joined : Rank[n] <= Rank[m]

(* Variant: the result of the thread is not looked at. *)
JoinAnyResult ==
  /\ \E n \in Nodes :
       /\ JoinsNext(n)
       /\ thread[n] # "running"
       /\ joined' = joined \cup {n}
       /\ IF tasks = joined \cup {n} THEN Goto("apply") ELSE UNCHANGED control
  /\ UNCHANGED <<state, tasks, thread, writes, failed>>

(* A join that yields Ok; the last one ends execute_pending_tasks.         *)
JoinOk ==
  /\ \E n \in Nodes :
       /\ JoinsNext(n)
       /\ thread[n] = "ok"
       /\ joined' = joined \cup {n}
       /\ IF tasks = joined \cup {n} THEN Goto("apply") ELSE UNCHANGED control
  /\ UNCHANGED <<state, tasks, thread, writes, failed>>

(* A join that yields Err leaves the loop, but not yet the scope. *)
JoinErr ==
  /\ \E n \in Nodes :
       /\ JoinsNext(n)
       /\ \/ thread[n] = "err"
          \/ thread[n] = "panic" /\ tasks # {n}
       /\ failed' = {n}
  /\ Goto("scope")
  /\ UNCHANGED <<state, tasks, thread, writes, joined>>

(* A single task is not behind a join: its panic unwinds the background    *)
(* task of Pregel::stream, and no error reaches the stream.                *)
Unwind ==
  /\ phase = "join"
  /\ \E n \in tasks : tasks = {n} /\ thread[n] = "panic"
  /\ End("vanished", NoError)
  /\ UNCHANGED <<state, execution>>

(* Variant: a panic nobody has joined is forgotten. *)
LeaveScopeForgets ==
  /\ phase = "scope"
  /\ \A n \in tasks : thread[n] # "running"
  /\ \E n \in failed : End("error", [kind |-> thread[n], at |-> n])
  /\ UNCHANGED <<state, execution>>

(* std::thread::scope returns once every thread has ended; it panics       *)
(* itself if one that was never joined has panicked.                       *)
LeaveScope ==
  /\ phase = "scope"
  /\ \A n \in tasks : thread[n] # "running"
  /\ IF \E n \in tasks \ (joined \cup failed) : thread[n] = "panic"
     THEN End("vanished", NoError)
     ELSE \E n \in failed : End("error", [kind |-> thread[n], at |-> n])
  /\ UNCHANGED <<state, execution>>

(* Variant: the main loop does not look at the stream. *)
ContinueAlways == Goto("tick")

(* The is_stream_closed check at the end of an iteration of the main loop. *)
Continue == IF open THEN Goto("tick") ELSE End("closed", NoError)

(* after_tick, up to the end of the iteration. *)
AfterTick ==
  /\ phase = "apply"
  /\ LET chs == Consumed(channels, tasks)
         G   == Grouped(tasks, writes)
     IN  /\ Failing(chs, G) = {}
         /\ channels' = Stored(chs, G)
         /\ updated' = Changed(chs, G)
         /\ versions' = Bumped(Changed(chs, G))
  /\ versionsSeen' = Seen(tasks)
  /\ step' = step + 1
  /\ Continue
  /\ UNCHANGED execution

(* Variants: the error is dropped, and the superstep is planned again ...  *)
AfterTickErrDropped ==
  /\ phase = "apply"
  /\ \E f \in Failing(Consumed(channels, tasks), Grouped(tasks, writes)) :
       channels' = StoredUpTo(Consumed(channels, tasks), Grouped(tasks, writes), f)
  /\ Goto("tick")
  /\ UNCHANGED <<step, versions, versionsSeen, updated, execution>>

(* ... or the writes are applied again, until it works.                    *)
AfterTickErrRetried ==
  /\ phase = "apply"
  /\ \E f \in Failing(Consumed(channels, tasks), Grouped(tasks, writes)) :
       channels' = StoredUpTo(Consumed(channels, tasks), Grouped(tasks, writes), f)
  /\ UNCHANGED <<control, step, versions, versionsSeen, updated, execution>>

(* after_tick when a channel refuses its updates: the first such channel   *)
(* in name order is the one reported.                                      *)
AfterTickErr ==
  /\ phase = "apply"
  /\ LET chs == Consumed(channels, tasks)
         G   == Grouped(tasks, writes)
     IN  \E f \in Failing(chs, G) :
           /\ \A c \in Failing(chs, G) : Rank[f] <= Rank[c]
           /\ channels' = StoredUpTo(chs, G, f)
           /\ End("error", [kind |-> "channel", at |-> f])
  /\ UNCHANGED <<step, versions, versionsSeen, updated, execution>>

(* The caller drops its receiver, at any time. *)
DropReceiver ==
  /\ open
  /\ open' = FALSE
  /\ UNCHANGED <<phase, outcome, error, state, execution>>

Ended == phase = "ended" /\ UNCHANGED vars

Loop ==
  \/ Enter \/ EnterEmpty
  \/ OutOfSteps \/ Done \/ Prepare
  \/ JoinOk \/ JoinErr \/ Unwind \/ LeaveScope
  \/ AfterTick \/ AfterTickErr

Node(n) == Return(n) \/ Fail(n) \/ Panic(n)

Next ==
  \/ Loop
  \/ \E n \in Nodes : Node(n)
  \/ DropReceiver
  \/ Ended

Spec == Init /\ [][Next]_vars

(* The executor keeps polling the background task and the operating system *)
(* keeps scheduling the threads, and node functions return.                *)
FairSpec == Spec /\ WF_vars(Loop) /\ \A n \in Nodes : WF_vars(Node(n))

-----------------------------------------------------------------------------
(* Type invariant: the shape of every field of the run. *)
TypeOK ==
  /\ phase \in Phases
  /\ outcome \in Outcomes
  /\ error \in [kind : ErrorKinds, at : Nodes \cup Channels \cup {"none"}]
  /\ open \in BOOLEAN
  /\ step \in Nat
  /\ DOMAIN channels = Channels
  /\ \A c \in Channels : channels[c] \in ChannelStates(c)
  /\ versions \in [Channels -> Nat]
  /\ DOMAIN versionsSeen \subseteq Nodes
  /\ \A n \in DOMAIN versionsSeen : versionsSeen[n] \in [Channels -> Nat]
  /\ updated \subseteq Channels
  /\ tasks \subseteq Nodes
  /\ thread \in [Nodes -> {"idle", "running", "ok", "err", "panic"}]
  /\ DOMAIN writes = Nodes /\ \A n \in Nodes : IsWrites(writes[n])
  /\ joined \subseteq tasks
  /\ failed \subseteq tasks

(* A join fires: when the main loop plans a superstep, every complete      *)
(* barrier was completed by the superstep before, so that its target is a  *)
(* candidate now; while the superstep runs, the target is one of its       *)
(* tasks. No complete barrier is left behind unnoticed.                    *)
JoinNotStranded ==
  \A c \in Channels :
    IsBarrier(c) /\ Available(c, channels[c]) =>
      /\ phase = "tick" => c \in updated
      /\ phase \in {"join", "scope", "apply"} =>
           \A n \in Nodes : c \in Triggers[n] => n \in tasks

(* No trigger is lost: the version gate of prepare_task never holds back a *)
(* node that the trigger index of prepare_tasks has selected.              *)
NoTriggerLost == phase = "tick" => Ready = Candidates

(* The error reported for a superstep does not depend on which thread was  *)
(* faster: it is the failure of the first task in path order, the tasks    *)
(* before it all succeeded.                                                *)
FirstErrorReported ==
  error.kind \in {"err", "panic"} =>
    \E n \in tasks :
      /\ error.at = n
      /\ thread[n] = error.kind
      /\ \A m \in tasks : Rank[m] < Rank[n] => thread[m] = "ok"

(* The recursion limit bounds the run: no superstep is started after the   *)
(* one numbered RecursionLimit + 1, whatever the nodes return.             *)
StepsBounded ==
  /\ step <= RecursionLimit + 2
  /\ phase \in {"join", "scope", "apply"} => step <= RecursionLimit + 1

(* A superstep is all or nothing: channels change only when the input is   *)
(* applied or when every task of the superstep has returned Ok and has     *)
(* been joined; no thread still runs, none has failed.                     *)
AllOrNothing ==
  [][channels' # channels =>
       \/ phase = "enter"
       \/ \A n \in tasks : thread[n] = "ok" /\ n \in joined]_vars

(* Values of c tell which node has written them; that node. *)
Attributed(c) ==
  \A m, n \in Nodes : \A w \in Outputs[m], x \in Outputs[n] :
    c \in DOMAIN w \cap DOMAIN x /\ w[c] = x[c] => m = n
Author(c, v) == CHOOSE n \in Nodes : \E w \in Outputs[n] : c \in DOMAIN w /\ w[c] = v

(* A reducer combines the values of a superstep in the path order of their *)
(* writers, whatever order the threads finished in.                        *)
MergedInPathOrder ==
  [][\A c \in Channels : Kind[c] = "binop" /\ Attributed(c) =>
       \A i, j \in 1..Len(channels'[c]) :
         Len(channels[c]) < i /\ i < j =>
           Rank[Author(c, channels'[c][i])] < Rank[Author(c, channels'[c][j])]]_vars

(* What a superstep still has to do before its writes are applied: tasks   *)
(* to plan, threads to end, handles to join.                               *)
LeftOfSuperstep ==
  LET running == {n \in Nodes : thread[n] = "running"}
      toDo    == Cardinality(running) + Cardinality(tasks \ joined)
  IN  CASE phase = "enter" -> 2 * Cardinality(Nodes) + 3
        [] phase = "tick"  -> 2 * Cardinality(Nodes) + 2
        [] phase = "join"  -> toDo + 1
        [] phase = "scope" -> toDo
        [] OTHER           -> 0

(* What the run still has to do, with all the supersteps the limit allows; *)
(* the receiver is dropped at most once.                                   *)
Remaining ==
  (IF open THEN 1 ELSE 0)
  + (IF phase = "ended" THEN 0
     ELSE 1 + LeftOfSuperstep
            + (RecursionLimit + 2 - step) * (2 * Cardinality(Nodes) + 3))

(* Nothing is done for ever or done again: every step of the main loop, of *)
(* a thread or of the caller leaves less to do, however the nodes route,   *)
(* so that a run takes no more steps than the limit and the number of      *)
(* nodes allow.                                                            *)
EveryStepCounts == [][Remaining' \in Nat /\ Remaining' < Remaining]_vars

(* Every run ends: by Done, an error, a dropped receiver or a panic.       *)
Termination == <>(phase = "ended")

-----------------------------------------------------------------------------
(* The parts of the inductive invariant behind the theorems of             *)
(* PregelLoopProofs and RefinementProofs.                                  *)

(* Joins happen in path order and stop at the first failure.               *)
JoinOrder ==
  /\ phase # "ended" => error = NoError
  /\ phase = "join" => failed = {}
  /\ phase = "apply" => joined = tasks
  /\ \A n \in joined : thread[n] = "ok"
  /\ \A n \in failed : /\ thread[n] \in {"err", "panic"}
                       /\ \A m \in tasks : Rank[m] < Rank[n] => m \in joined

(* No node has seen a version that does not exist yet, and when a          *)
(* superstep is planned the updated channels are news to all subscribers.  *)
UpdatedFresh ==
  /\ \A n \in DOMAIN versionsSeen : \A c \in Channels :
       versionsSeen[n][c] <= versions[c]
  /\ phase = "tick" => \A c \in updated :
       /\ Available(c, channels[c])
       /\ \A n \in DOMAIN versionsSeen : versionsSeen[n][c] < versions[c]

(* Before the input is applied no channel holds anything.                  *)
StartsEmpty == phase = "enter" => \A c \in Channels : channels[c] = Empty(c)

(* The tasks of a superstep are the nodes the trigger index has selected,  *)
(* and stay so until its writes are applied.                               *)
TasksAreCandidates ==
  phase \in {"join", "scope", "apply"} => tasks = Candidates /\ tasks # {}

(* What a task that has returned Ok leaves behind is among its outputs.    *)
WritesReturned == \A n \in tasks : thread[n] = "ok" => writes[n] \in Outputs[n]

(* Threads run inside the scope of their superstep only, and end as their  *)
(* node may; the panic of a lone task is never behind a failed join.       *)
ThreadsScoped ==
  /\ \A n \in Nodes :
       /\ thread[n] = "running" => n \in tasks /\ phase \in {"join", "scope"}
       /\ n \in tasks => thread[n] # "idle"
       /\ thread[n] = "err" => n \in Faulty
       /\ thread[n] = "panic" => n \in Panicky
  /\ \A n \in failed : thread[n] = "panic" => tasks # {n}
  /\ phase = "scope" => failed # {}

=============================================================================
