-------------------------- MODULE RefinementProofs ---------------------------
(***************************************************************************)
(* PregelLoop implements Superstep: for every compiled graph a run is a    *)
(* bulk-synchronous execution, whatever the threads do.                    *)
(* It implements AtomicRun: what it computes, and the error it ends in, is *)
(* a function of what the nodes of each superstep answer.                  *)
(***************************************************************************)
EXTENDS LoopRefinesSuperstep, LoopRefinesAtomic, PregelLoopProofs

USE DEF GraphFits, InputFits, TokensFit

-----------------------------------------------------------------------------
(* What a superstep writes, seen as triggers fired.                        *)

Fired(n) == DOMAIN writes[n] \cap TriggerChannels

(* The names a barrier is given by tasks that have returned Ok are the     *)
(* nodes that wrote to it, each its own.                                   *)
LEMMA TokensAreWriters ==
  ASSUME WritesReturned, tasks \subseteq Nodes,
         \A n \in tasks : thread[n] = "ok",
         NEW j \in DOMAIN Grouped(tasks, writes), IsBarrier(j)
  PROVE  Range(Grouped(tasks, writes)[j]) = Writers(j, tasks, writes)
<1> DEFINE W     == Writers(j, tasks, writes)
           order == PathOrder(W)
           K     == Cardinality(W)
<1>1. W \in SUBSET Nodes
  BY DEF Writers
<1>2. /\ order \in [1..K -> W]
      /\ \A n \in W : \E i \in 1..K : order[i] = n
  BY <1>1, PathOrderSorts
<1>3. \A n \in W : writes[n][j] = n
  BY TokenAssumption DEF WritesReturned, Writers
<1>4. Grouped(tasks, writes)[j] = [i \in DOMAIN order |-> writes[order[i]][j]]
  BY DEF Grouped
<1> HIDE DEF W, order, K
<1>5. Grouped(tasks, writes)[j] = [i \in 1..K |-> order[i]]
  BY <1>2, <1>3, <1>4
<1>6. Range(Grouped(tasks, writes)[j]) = {order[i] : i \in 1..K}
  BY <1>5 DEF Range
<1>7. Range(Grouped(tasks, writes)[j]) = W
  BY <1>2, <1>6
<1>8. QED
  BY <1>7 DEF W

(* A barrier after the superstep: it starts over if its target ran on a    *)
(* complete one, and has then seen the tasks that wrote to it.             *)
LEMMA ArrivalsAccumulate ==
  ASSUME TypeOK, JoinOrder, WritesReturned, AfterTick,
         NEW j \in BarrierChannels
  PROVE  channels'[j] =
           (IF channels[j] = Members[j] /\ \E n \in tasks : j \in Triggers[n]
            THEN {} ELSE channels[j])
           \cup {n \in tasks : j \in Fired(n)}
<1> DEFINE chs == Consumed(channels, tasks)
           G   == Grouped(tasks, writes)
<1>1. j \in Channels /\ Kind[j] = "barrier" /\ IsBarrier(j)
  BY DEF BarrierChannels, IsBarrier
<1>2. j \in TriggerChannels
  BY <1>1, GraphAssumption DEF TriggerChannels
<1>3. /\ channels' = Stored(chs, G)
      /\ phase = "apply"
  BY Zenon DEF AfterTick
<1>4. /\ tasks \subseteq Nodes
      /\ \A n \in tasks : thread[n] = "ok"
  BY <1>3 DEF TypeOK, JoinOrder
<1>5. chs[j] = IF channels[j] = Members[j] /\ \E n \in tasks : j \in Triggers[n]
               THEN {} ELSE channels[j]
  BY <1>1 DEF Consumed, Consume, Available
<1>6. {n \in tasks : j \in Fired(n)} = Writers(j, tasks, writes)
  BY <1>2 DEF Fired, Writers
<1>7. CASE j \in DOMAIN G
  <2>1. channels'[j] = chs[j] \cup Range(G[j])
    BY <1>1, <1>3, <1>7, Zenon DEF Stored, UpdateResult
  <2>2. Range(G[j]) = Writers(j, tasks, writes)
    BY <1>1, <1>4, <1>7, TokensAreWriters
  <2>3. QED
    BY <1>5, <1>6, <2>1, <2>2
<1>8. CASE j \notin DOMAIN G
  <2>1. channels'[j] = chs[j]
    BY <1>1, <1>3, <1>8 DEF Stored
  <2>2. Writers(j, tasks, writes) = {}
    BY <1>1, <1>8 DEF Grouped
  <2>3. QED
    BY <1>5, <1>6, <2>1, <2>2
<1>9. QED
  BY <1>7, <1>8

(* The triggers a superstep updates are the plain ones some task fired and *)
(* the joins it leaves complete.                                           *)
LEMMA UpdatedTriggers ==
  ASSUME TypeOK, JoinNotStranded, AfterTick,
         NEW c \in TriggerChannels
  PROVE  c \in updated' <=>
           \/ c \notin BarrierChannels /\ \E n \in tasks : c \in Fired(n)
           \/ c \in BarrierChannels /\ channels'[c] = Members[c]
<1> DEFINE chs == Consumed(channels, tasks)
           G   == Grouped(tasks, writes)
<1>1. c \in Channels
  BY GraphAssumption DEF TriggerChannels
<1>2. /\ channels' = Stored(chs, G)
      /\ updated' = Changed(chs, G)
  BY Zenon DEF AfterTick
<1>3. CASE IsBarrier(c)
  <2>1. c \in BarrierChannels
    BY <1>1, <1>3 DEF BarrierChannels
  <2>2. channels'[c] = Members[c] => c \in updated'
    BY <1>1, <1>3, CompletedIsUpdated DEF Available
  <2>3. c \in updated' => channels'[c] = Members[c]
    BY <1>1, <1>2, <1>3 DEF Changed, Stored, Available
  <2>4. QED
    BY <2>1, <2>2, <2>3
<1>4. CASE ~IsBarrier(c)
  <2>1. c \notin BarrierChannels /\ Kind[c] = "ephemeral"
    BY <1>4, TokenAssumption DEF BarrierChannels, TriggerChannels, IsBarrier
  <2>2. c \in DOMAIN G <=> \E n \in tasks : c \in Fired(n)
    BY <1>1 DEF Grouped, Writers, Fired
  <2>3. ASSUME c \in DOMAIN G
        PROVE  c \in updated'
    <3>1. UpdateResult(c, chs[c], G[c]) = <<G[c][Len(G[c])]>>
      BY <2>1 DEF UpdateResult
    <3>2. Available(c, UpdateResult(c, chs[c], G[c]))
      BY <1>4, <3>1 DEF Available
    <3>3. UpdateChanges(c, chs[c], G[c])
      BY <1>4 DEF UpdateChanges
    <3>4. QED
      BY <1>2, <2>3, <3>2, <3>3 DEF Changed
  <2>4. c \in updated' => c \in DOMAIN G
    BY <1>2 DEF Changed
  <2>5. QED
    BY <2>1, <2>2, <2>3, <2>4
<1>5. QED
  BY <1>3, <1>4

-----------------------------------------------------------------------------
(* Initial states and steps.                                               *)

LEMMA InitRefines == Init => Abstract!SInit
<1> SUFFICES ASSUME Init PROVE Abstract!SInit
  OBVIOUS
<1>1. absArrived = [c \in BarrierChannels |-> {}]
  BY FreshIsEmpty DEF absArrived, BarrierChannels, Empty, Init
<1>2. absActive = {} /\ absStatus = "new" /\ step = 0
  BY DEF Init, absActive, absStatus, Candidates
<1>3. QED
  BY <1>1, <1>2 DEF Abstract!SInit

(* after_tick is a round of the abstract execution.                        *)
LEMMA AfterTickIsRound ==
  ASSUME TypeOK, JoinOrder, StepsBounded, JoinNotStranded, Planned, AfterTick
  PROVE  Abstract!Round
<1>1. phase = "apply" /\ step' = step + 1 /\ step \in Nat
  BY Zenon DEF AfterTick, TypeOK
<1>2. /\ absStatus = "running" /\ absStatus' \in {"running", "aborted"}
      /\ phase' \in {"tick", "ended"}
  <2>1. CASE open
    <3>1. phase' = "tick"
      BY <2>1, Zenon DEF AfterTick, Continue, Goto
    <3>2. QED
      BY <1>1, <3>1 DEF absStatus
  <2>2. CASE ~open
    <3>1. phase' = "ended" /\ outcome' = "closed"
      BY <2>2, Zenon DEF AfterTick, Continue, End
    <3>2. QED
      BY <1>1, <3>1 DEF absStatus
  <2>3. QED
    BY <2>1, <2>2
<1>3. absActive = tasks /\ tasks # {} /\ tasks \subseteq Nodes
  BY <1>1 DEF absActive, Planned, TasksAreCandidates, TypeOK
<1>4. step < RecursionLimit + 2
  BY <1>1, GraphAssumption DEF StepsBounded
<1> DEFINE Fires == [n \in Nodes |->
                       {DOMAIN w \cap TriggerChannels : w \in Outputs[n]}]
           fire  == [n \in tasks |-> Fired(n)]
<1>5. \A n \in tasks : fire[n] \in Fires[n]
  <2> SUFFICES ASSUME NEW n \in tasks PROVE Fired(n) \in Fires[n]
    OBVIOUS
  <2>1. writes[n] \in Outputs[n]
    BY <1>1 DEF JoinOrder, Planned, WritesReturned
  <2>2. QED
    BY <1>3, <2>1 DEF Fired
<1>6. fire \in [tasks -> UNION {Fires[n] : n \in tasks}]
  BY <1>5
<1>7. absArrived' =
        [j \in BarrierChannels |->
           (IF absArrived[j] = Members[j] /\ \E n \in tasks : j \in Triggers[n]
            THEN {} ELSE absArrived[j])
           \cup {n \in tasks : j \in fire[n]}]
  BY ArrivalsAccumulate DEF Planned, absArrived
<1>8. absActive' =
        {n \in Nodes :
           Triggers[n] \cap (((UNION {fire[m] : m \in tasks}) \ BarrierChannels)
                             \cup {j \in BarrierChannels : absArrived'[j] = Members[j]})
             # {}}
  <2> DEFINE U == UNION {fire[m] : m \in tasks}
             J == {j \in BarrierChannels : absArrived'[j] = Members[j]}
             S == (U \ BarrierChannels) \cup J
  <2>1. absActive' = {n \in Nodes : Triggers[n] \cap updated' # {}}
    BY <1>2 DEF absActive, Candidates
  <2>2. \A c \in TriggerChannels : c \in updated' <=> c \in S
    <3> SUFFICES ASSUME NEW c \in TriggerChannels PROVE c \in updated' <=> c \in S
      OBVIOUS
    <3>1. c \in J <=> c \in BarrierChannels /\ channels'[c] = Members[c]
      BY DEF absArrived
    <3>2. c \in U <=> \E m \in tasks : c \in Fired(m)
      OBVIOUS
    <3> HIDE DEF U, J
    <3>3. c \in S <=>
            \/ c \notin BarrierChannels /\ \E m \in tasks : c \in Fired(m)
            \/ c \in BarrierChannels /\ channels'[c] = Members[c]
      BY <3>1, <3>2
    <3>4. QED
      BY <3>3, UpdatedTriggers
  <2>3. \A n \in Nodes : Triggers[n] \subseteq TriggerChannels
    BY DEF TriggerChannels
  <2> HIDE DEF S, U, J
  <2>4. \A n \in Nodes : Triggers[n] \cap updated' # {} <=> Triggers[n] \cap S # {}
    BY <2>2, <2>3
  <2>5. absActive' = {n \in Nodes : Triggers[n] \cap S # {}}
    BY <2>1, <2>4
  <2>6. QED
    BY <2>5 DEF S, U, J
<1> HIDE DEF fire
<1>9. \E f \in [absActive -> UNION {Fires[n] : n \in absActive}] :
        /\ \A n \in absActive : f[n] \in Fires[n]
        /\ absArrived' =
             [j \in BarrierChannels |->
                (IF Abstract!Complete(j) /\ \E n \in absActive : j \in Triggers[n]
                 THEN {} ELSE absArrived[j])
                \cup {n \in absActive : j \in f[n]}]
        /\ absActive' =
             Abstract!Subscribers(
               ((UNION {f[n] : n \in absActive}) \ BarrierChannels)
               \cup {j \in BarrierChannels : absArrived'[j] = Members[j]})
  <2>1. fire \in [absActive -> UNION {Fires[n] : n \in absActive}]
    BY <1>3, <1>6
  <2>2. \A n \in absActive : fire[n] \in Fires[n]
    BY <1>3, <1>5
  <2>3. absArrived' =
          [j \in BarrierChannels |->
             (IF Abstract!Complete(j) /\ \E n \in absActive : j \in Triggers[n]
              THEN {} ELSE absArrived[j])
             \cup {n \in absActive : j \in fire[n]}]
    BY <1>3, <1>7 DEF Abstract!Complete
  <2>4. absActive' =
          Abstract!Subscribers(
            ((UNION {fire[n] : n \in absActive}) \ BarrierChannels)
            \cup {j \in BarrierChannels : absArrived'[j] = Members[j]})
    BY <1>3, <1>8 DEF Abstract!Subscribers
  <2>5. QED
    BY <2>1, <2>2, <2>3, <2>4, Zenon
<1> HIDE DEF Fires
<1>10. absActive # {}
  BY <1>3
<1>11. QED
  BY <1>1, <1>2, <1>4, <1>9, <1>10, Zenon DEF Abstract!Round, Fires

LEMMA EnterIsStart == TypeOK /\ Enter => Abstract!Start
<1> SUFFICES ASSUME TypeOK, Enter PROVE Abstract!Start
  OBVIOUS
<1>1. PICK w \in Inputs :
        LET G == [c \in DOMAIN w |-> <<w[c]>>]
        IN  /\ DOMAIN w # {}
            /\ channels' = Stored(channels, G)
            /\ updated' = Changed(channels, G)
  BY DEF Enter
<1> DEFINE G == [c \in DOMAIN w |-> <<w[c]>>]
<1>2. /\ \A c \in DOMAIN w : c \in Channels /\ Kind[c] = "ephemeral"
      /\ DOMAIN w # {}
  BY <1>1, GraphAssumption DEF IsWrites
<1>3. DOMAIN w \subseteq TriggerChannels
  BY InputAssumption DEF TriggerChannels
<1>4. updated' = DOMAIN w
  <2>1. \A c \in DOMAIN w : /\ UpdateChanges(c, channels[c], G[c])
                            /\ UpdateResult(c, channels[c], G[c]) = <<w[c]>>
    BY <1>2 DEF UpdateChanges, UpdateResult, IsBarrier
  <2>2. \A c \in DOMAIN w : Available(c, UpdateResult(c, channels[c], G[c]))
    BY <1>2, <2>1 DEF Available, IsBarrier
  <2>3. QED
    BY <1>1, <2>1, <2>2 DEF Changed
<1>5. absArrived' = absArrived
  BY <1>1, <1>2 DEF absArrived, BarrierChannels, Stored, IsBarrier
<1>6. phase = "enter" /\ phase' = "tick" /\ step' = step
  BY DEF Enter, Goto
<1>7. absStatus = "new" /\ absStatus' = "running"
  BY <1>6 DEF absStatus
<1>8. absActive' = {n \in Nodes : Triggers[n] \cap updated' # {}}
  BY <1>6 DEF absActive, Candidates
<1>9. updated' \in SUBSET (TriggerChannels \ BarrierChannels) /\ updated' # {}
  BY <1>2, <1>3, <1>4 DEF BarrierChannels, IsBarrier
<1>10. QED
  BY <1>5, <1>6, <1>7, <1>8, <1>9 DEF Abstract!Start, Abstract!Subscribers

(* A run that ends otherwise than with an empty plan is aborted; only a    *)
(* refused update has touched the barriers by then.                        *)
LEMMA EndIsAbort ==
  ASSUME TypeOK, TypeOK', Planned, phase # "ended", phase' = "ended",
         outcome' # "done", UNCHANGED <<step, updated>>
  PROVE  Abstract!Abort
<1>1. absStatus \in {"new", "running"} /\ absStatus' = "aborted"
  BY DEF absStatus
<1>2. absArrived' \in [BarrierChannels -> SUBSET Nodes]
  <2>1. \A c \in BarrierChannels : channels'[c] \subseteq Nodes
    BY TokenAssumption DEF BarrierChannels, TypeOK, ChannelStates
  <2>2. QED
    BY <2>1 DEF absArrived
<1>3. absActive' = absActive
  BY DEF absActive, Planned, TasksAreCandidates, Candidates
<1>4. QED
  BY <1>1, <1>2, <1>3 DEF Abstract!Abort

LEMMA DoneIsFinish == NoTriggerLost /\ Done => Abstract!Finish
<1> SUFFICES ASSUME NoTriggerLost, Done PROVE Abstract!Finish
  OBVIOUS
<1>1. /\ phase = "tick" /\ phase' = "ended" /\ outcome' = "done"
      /\ Candidates = {} /\ UNCHANGED <<step, channels, updated>>
  BY DEF Done, End, NoTriggerLost, state
<1>2. QED
  BY <1>1 DEF Abstract!Finish, absStatus, absActive, absArrived, Candidates

LEMMA NothingIsStutter ==
  ASSUME Planned, Planned', UNCHANGED <<step, channels, updated>>,
         \/ phase' = phase /\ UNCHANGED <<outcome, tasks>>
         \/ /\ phase \in {"tick", "join", "scope", "apply"}
            /\ phase' \in {"join", "scope", "apply"}
  PROVE  UNCHANGED Abstract!svars
<1>1. absStatus' = absStatus /\ absArrived' = absArrived
  BY DEF absStatus, absArrived
<1>2. absActive' = absActive
  BY DEF absActive, Candidates, Planned, TasksAreCandidates
<1>3. QED
  BY <1>1, <1>2 DEF Abstract!svars

LEMMA StepRefines ==
  TypeOK /\ TypeOK' /\ JoinOrder /\ StepsBounded /\ JoinNotStranded
    /\ NoTriggerLost /\ Planned /\ Planned' /\ [Next]_vars
    => [Abstract!SNext]_(Abstract!svars)
<1> SUFFICES ASSUME TypeOK, TypeOK', JoinOrder, StepsBounded, JoinNotStranded,
                    NoTriggerLost, Planned, Planned', [Next]_vars
             PROVE  Abstract!SNext \/ UNCHANGED Abstract!svars
  OBVIOUS
<1>1. CASE Enter
  BY <1>1, EnterIsStart DEF Abstract!SNext
<1>2. CASE AfterTick
  BY <1>2, AfterTickIsRound DEF Abstract!SNext
<1>3. CASE Done
  BY <1>3, DoneIsFinish DEF Abstract!SNext
<1>4. CASE EnterEmpty \/ OutOfSteps \/ Unwind \/ LeaveScope
  BY <1>4, EndIsAbort
     DEF EnterEmpty, OutOfSteps, Unwind, LeaveScope, End, state, Abstract!SNext
<1>5. CASE AfterTickErr
  <2>1. phase = "apply" /\ phase' = "ended" /\ outcome' = "error"
    BY <1>5, Zenon DEF AfterTickErr, End
  <2>2. UNCHANGED <<step, updated>>
    BY <1>5 DEF AfterTickErr
  <2>3. QED
    BY <2>1, <2>2, EndIsAbort DEF Abstract!SNext
<1>6. CASE Prepare
  BY <1>6, NothingIsStutter DEF Prepare, Goto, state
<1>7. CASE JoinOk \/ JoinErr
  BY <1>7, NothingIsStutter
     DEF JoinOk, JoinErr, JoinsNext, Goto, control, state
<1>8. ASSUME NEW n \in Nodes, Node(n)
      PROVE  UNCHANGED Abstract!svars
  BY <1>8, NothingIsStutter DEF Node, Return, Fail, Panic, control, state
<1>9. CASE DropReceiver \/ UNCHANGED vars
  BY <1>9, NothingIsStutter
     DEF DropReceiver, vars, control, state, execution
<1>10. QED
  BY <1>1, <1>2, <1>3, <1>4, <1>5, <1>6, <1>7, <1>8, <1>9
     DEF Next, Loop, Ended

-----------------------------------------------------------------------------
(* Every run of a compiled graph is a bulk-synchronous execution: each     *)
(* superstep runs exactly the nodes the one before has activated, whatever *)
(* the order of its threads; a join counts arrivals over any number of     *)
(* supersteps and fires once for every full set; and a run that is         *)
(* reported as done has left no activated node behind.                     *)
THEOREM LoopImplementsSuperstep == Spec => RefinesSuperstep
<1>1. Init => Abstract!SInit
  BY InitRefines
<1>2. QED
  BY <1>1, StepRefines, OrderInvariant, LimitHolds, JoinsFire, TriggersKept,
     PlannedInvariant, PTL DEF Spec, RefinesSuperstep, Abstract!SSpec

-----------------------------------------------------------------------------
(* Supersteps are atomic.                                                  *)

(* Both modules take what an update does from module Updates.              *)
LEMMA SameChannels ==
  ASSUME NEW c, NEW s, NEW vs
  PROVE  /\ Atomic!Empty(c) = Empty(c)
         /\ Atomic!Available(c, s) = Available(c, s)
         /\ Atomic!UpdateFails(c, s, vs) = UpdateFails(c, s, vs)
         /\ Atomic!UpdateResult(c, s, vs) = UpdateResult(c, s, vs)
         /\ Atomic!UpdateResidue(c, s, vs) = UpdateResidue(c, s, vs)
         /\ Atomic!UpdateChanges(c, s, vs) = UpdateChanges(c, s, vs)
         /\ Atomic!Consume(c, s) = Consume(c, s)
<1>1. Atomic!IsBarrier(c) <=> IsBarrier(c)
  BY DEF Atomic!IsBarrier, IsBarrier
<1>2. Atomic!Range(vs) = Range(vs)
  BY DEF Atomic!Range, Range
<1>3. Atomic!Available(c, s) = Available(c, s)
  BY <1>1, Zenon DEF Atomic!Available, Available, Atomic!IsBarrier, IsBarrier
<1>4. Atomic!UpdateFails(c, s, vs) = UpdateFails(c, s, vs)
  BY Zenon DEF Atomic!UpdateFails, UpdateFails
<1>5. Atomic!UpdateResult(c, s, vs) = UpdateResult(c, s, vs)
  BY <1>2 DEF Atomic!UpdateResult, UpdateResult
<1>6. Atomic!UpdateResidue(c, s, vs) = UpdateResidue(c, s, vs)
  BY DEF Atomic!UpdateResidue, UpdateResidue
<1>7. Atomic!UpdateChanges(c, s, vs) = UpdateChanges(c, s, vs)
  BY <1>2, Zenon DEF Atomic!UpdateChanges, UpdateChanges, Atomic!IsBarrier, IsBarrier
<1>8. Atomic!Consume(c, s) = Consume(c, s)
  BY <1>1, <1>3 DEF Atomic!Consume, Consume
<1>9. Atomic!Empty(c) = Empty(c)
  BY <1>1 DEF Atomic!Empty, Empty
<1>10. QED
  BY <1>3, <1>4, <1>5, <1>6, <1>7, <1>8, <1>9

LEMMA SameUpdates ==
  ASSUME NEW chs, NEW G, NEW f, NEW T, NEW ws
  PROVE  /\ Atomic!Stored(chs, G) = Stored(chs, G)
         /\ Atomic!Changed(chs, G) = Changed(chs, G)
         /\ Atomic!Failing(chs, G) = Failing(chs, G)
         /\ Atomic!StoredUpTo(chs, G, f) = StoredUpTo(chs, G, f)
         /\ Atomic!Consumed(chs, T) = Consumed(chs, T)
         /\ Atomic!Grouped(T, ws) = Grouped(T, ws)
<1>1. Atomic!Stored(chs, G) = Stored(chs, G)
  BY SameChannels DEF Atomic!Stored, Stored
<1>2. Atomic!Changed(chs, G) = Changed(chs, G)
  BY SameChannels DEF Atomic!Changed, Changed
<1>3. Atomic!Failing(chs, G) = Failing(chs, G)
  BY SameChannels DEF Atomic!Failing, Failing
<1>4. Atomic!StoredUpTo(chs, G, f) = StoredUpTo(chs, G, f)
  BY SameChannels DEF Atomic!StoredUpTo, StoredUpTo
<1>5. Atomic!Consumed(chs, T) = Consumed(chs, T)
  BY SameChannels DEF Atomic!Consumed, Consumed
<1>6. Atomic!Grouped(T, ws) = Grouped(T, ws)
  <2>1. \A c : Atomic!Writers(c, T, ws) = Writers(c, T, ws)
    BY Zenon DEF Atomic!Writers, Writers
  <2>2. \A S : Atomic!PathOrder(S) = PathOrder(S)
    BY Zenon DEF Atomic!PathOrder, PathOrder, Atomic!Cardinality, Cardinality
  <2>3. QED
    BY <2>1, <2>2 DEF Atomic!Grouped, Grouped
<1>7. QED
  BY <1>1, <1>2, <1>3, <1>4, <1>5, <1>6

-----------------------------------------------------------------------------

(* The answers of a superstep that has not been planned: none.             *)
LEMMA NoAnswers ==
  /\ Atomic!Nothing = NoWrites
  /\ Answered = {} => atomicAnswers = NoWrites
  /\ phase \notin {"join", "scope", "apply"} => atomicAnswers = NoWrites
<1>1. Atomic!Nothing = NoWrites
  BY DEF Atomic!Nothing, NoWrites
<1>2. Answered = {} => atomicAnswers = NoWrites
  BY DEF atomicAnswers, NoWrites
<1>3. phase \notin {"join", "scope", "apply"} => Answered = {}
  BY DEF Answered
<1>4. QED
  BY <1>1, <1>2, <1>3

LEMMA SameAnswers ==
  ASSUME UNCHANGED <<tasks, thread, writes>>,
         phase \in {"join", "scope", "apply"}, phase' \in {"join", "scope", "apply"}
  PROVE  atomicAnswers' = atomicAnswers
BY DEF atomicAnswers, Answered

LEMMA InitAtomic == Init => Atomic!AInit
<1> SUFFICES ASSUME Init PROVE Atomic!AInit
  OBVIOUS
<1>1. channels = [c \in Channels |-> Atomic!Empty(c)]
  BY FreshIsEmpty, SameChannels DEF Init, FreshChannels
<1>2. atomicAnswers = Atomic!Nothing /\ atomicStatus = "new"
  BY NoAnswers DEF Init, atomicStatus
<1>3. QED
  BY <1>1, <1>2 DEF Init, NoError, Atomic!AInit

LEMMA EnterIsBegin == Enter => Atomic!Begin
<1> SUFFICES ASSUME Enter PROVE Atomic!Begin
  OBVIOUS
<1>1. PICK w \in Inputs :
        LET G == [c \in DOMAIN w |-> <<w[c]>>]
        IN  /\ DOMAIN w # {}
            /\ channels' = Stored(channels, G)
            /\ updated' = Changed(channels, G)
  BY DEF Enter
<1>2. LET G == [c \in DOMAIN w |-> <<w[c]>>]
      IN  /\ channels' = Atomic!Stored(channels, G)
          /\ updated' = Atomic!Changed(channels, G)
  BY <1>1, SameUpdates
<1>3. /\ phase = "enter" /\ phase' = "tick"
      /\ UNCHANGED <<outcome, error, step>>
  BY DEF Enter, Goto
<1>4. atomicStatus = "new" /\ atomicStatus' = "running"
  BY <1>3 DEF atomicStatus
<1>5. atomicAnswers' = atomicAnswers
  BY <1>3, NoAnswers DEF atomicAnswers, Answered, NoWrites
<1>6. QED
  BY <1>1, <1>2, <1>3, <1>4, <1>5, Zenon DEF Atomic!Begin

(* The steps that end a run before or between supersteps.                  *)
LEMMA EndsBetween ==
  ASSUME phase \in {"enter", "tick"}, phase' = "ended"
  PROVE  /\ atomicStatus = (IF phase = "enter" THEN "new" ELSE "running")
         /\ atomicStatus' = "ended"
         /\ atomicAnswers' = atomicAnswers
BY DEF atomicStatus, atomicAnswers, Answered

LEMMA EnterEmptyIsNoInput == EnterEmpty => Atomic!NoInput
<1> SUFFICES ASSUME EnterEmpty PROVE Atomic!NoInput
  OBVIOUS
<1>1. /\ phase = "enter" /\ phase' = "ended" /\ outcome' = "error"
      /\ error' = [kind |-> "empty input", at |-> "none"]
      /\ UNCHANGED <<step, channels, updated>>
      /\ \E w \in Inputs : DOMAIN w = {}
  BY DEF EnterEmpty, End, state
<1>2. QED
  BY <1>1, EndsBetween DEF Atomic!NoInput, Atomic!Ends, Atomic!store

LEMMA OutOfStepsIsLimit == TypeOK /\ OutOfSteps => Atomic!Limit
<1> SUFFICES ASSUME TypeOK, OutOfSteps PROVE Atomic!Limit
  OBVIOUS
<1>1. /\ phase = "tick" /\ phase' = "ended" /\ outcome' = "error"
      /\ error' = [kind |-> "recursion limit", at |-> "none"]
      /\ UNCHANGED <<step, channels, updated>>
      /\ step > RecursionLimit + 1
  BY DEF OutOfSteps, End, state, Stop
<1>2. step \in Nat /\ RecursionLimit \in Nat
  BY GraphAssumption DEF TypeOK
<1>3. ~(step <= RecursionLimit + 1)
  <2>1. step > RecursionLimit + 1
    BY <1>1
  <2>2. QED
    BY <1>2, <2>1, SMT
<1>4. ~Atomic!MayGoOn
  BY <1>3 DEF Atomic!MayGoOn
<1>5. QED
  BY <1>1, <1>4, EndsBetween DEF Atomic!Limit, Atomic!Ends, Atomic!store

LEMMA DoneIsAtomicFinish == NoTriggerLost /\ Done => Atomic!Finish
<1> SUFFICES ASSUME NoTriggerLost, Done PROVE Atomic!Finish
  OBVIOUS
<1>1. /\ phase = "tick" /\ phase' = "ended" /\ outcome' = "done"
      /\ error' = [kind |-> "none", at |-> "none"]
      /\ UNCHANGED <<step, channels, updated>>
      /\ step <= RecursionLimit + 1
      /\ Candidates = {}
  BY DEF Done, End, state, Stop, NoError, NoTriggerLost
<1>2. Atomic!MayGoOn /\ Atomic!Active = {}
  BY <1>1 DEF Atomic!MayGoOn, Atomic!Active, Candidates
<1>3. QED
  BY <1>1, <1>2, EndsBetween DEF Atomic!Finish, Atomic!Ends, Atomic!store

(* A thread that ends is the answer of its node.                           *)
LEMMA NodeIsAnswer ==
  ASSUME TypeOK, StepsBounded, Planned, ThreadsScoped, NEW n \in Nodes, Node(n)
  PROVE  Atomic!Answer(n)
<1>1. /\ thread[n] = "running"
      /\ UNCHANGED <<phase, outcome, error, step, channels, updated, tasks>>
  BY DEF Node, Return, Fail, Panic, control, state
<1>2. n \in tasks /\ phase \in {"join", "scope"}
  BY <1>1 DEF ThreadsScoped
<1>3. atomicStatus = "running" /\ atomicStatus' = atomicStatus
  BY <1>1, <1>2 DEF atomicStatus
<1>4. Atomic!MayGoOn
  BY <1>2 DEF StepsBounded, Atomic!MayGoOn
<1>5. n \in Atomic!Active
  BY <1>2 DEF Planned, TasksAreCandidates, Candidates, Atomic!Active
<1>6. /\ DOMAIN atomicAnswers = {m \in tasks : thread[m] # "running"}
      /\ DOMAIN atomicAnswers' = {m \in tasks : thread'[m] # "running"}
  BY <1>1, <1>2 DEF atomicAnswers, Answered
<1>7. Atomic!NoAnswer(n)
  BY <1>1, <1>6 DEF Atomic!NoAnswer
<1> DEFINE a == [how   |-> thread'[n],
                 wrote |-> IF thread'[n] = "ok" THEN writes'[n] ELSE NoWrites]
<1>8. \/ thread' = [thread EXCEPT ![n] = "ok"] /\ writes'[n] \in Outputs[n]
      \/ thread' = [thread EXCEPT ![n] = "err"] /\ n \in Faulty
      \/ thread' = [thread EXCEPT ![n] = "panic"] /\ n \in Panicky
  BY DEF Node, Return, Fail, Panic, TypeOK
<1>9. /\ a \in    [how : {"ok"}, wrote : Outputs[n]]
            \cup [how : {"err"}, wrote : {Atomic!Nothing}]
            \cup [how : {"panic"}, wrote : {Atomic!Nothing}]
      /\ a.how = "err" => n \in Faulty
      /\ a.how = "panic" => n \in Panicky
      /\ thread'[n] # "running"
  BY <1>8, NoAnswers DEF TypeOK
<1>10. \A m \in Nodes : m # n => thread'[m] = thread[m] /\ writes'[m] = writes[m]
  BY DEF Node, Return, Fail, Panic, TypeOK
<1>11. atomicAnswers' = [m \in DOMAIN atomicAnswers \cup {n} |->
                           IF m = n THEN a ELSE atomicAnswers[m]]
  <2>1. DOMAIN atomicAnswers' = DOMAIN atomicAnswers \cup {n}
    BY <1>2, <1>6, <1>9, <1>10 DEF TypeOK
  <2>2. ASSUME NEW m \in DOMAIN atomicAnswers'
        PROVE  atomicAnswers'[m] = IF m = n THEN a ELSE atomicAnswers[m]
    <3>1. atomicAnswers'[m] =
            [how   |-> thread'[m],
             wrote |-> IF thread'[m] = "ok" THEN writes'[m] ELSE NoWrites]
      BY DEF atomicAnswers, Answered
    <3>2. m # n => m \in DOMAIN atomicAnswers
      BY <2>1
    <3>3. m # n => atomicAnswers[m] =
            [how   |-> thread[m],
             wrote |-> IF thread[m] = "ok" THEN writes[m] ELSE NoWrites]
      BY <3>2 DEF atomicAnswers, Answered
    <3>4. m \in Nodes
      BY <1>6, <2>1 DEF TypeOK
    <3>5. QED
      BY <1>10, <3>1, <3>3, <3>4
  <2> HIDE DEF a
  <2>3. atomicAnswers' = [m \in DOMAIN atomicAnswers' |-> atomicAnswers'[m]]
    BY DEF atomicAnswers
  <2>4. QED
    BY <2>1, <2>2, <2>3
<1> HIDE DEF a
<1>12. UNCHANGED <<Atomic!result, Atomic!store>>
  BY <1>1, <1>3 DEF Atomic!result, Atomic!store
<1>13. QED
  BY <1>3, <1>4, <1>5, <1>7, <1>9, <1>11, <1>12 DEF Atomic!Answer

-----------------------------------------------------------------------------

(* The answers of a superstep whose threads have all ended.                *)
LEMMA AllAnswers ==
  ASSUME TypeOK, Planned, phase \in {"join", "scope", "apply"},
         \A n \in tasks : thread[n] # "running"
  PROVE  /\ Atomic!AllAnswered
         /\ Atomic!Active = tasks
         /\ DOMAIN atomicAnswers = tasks
         /\ \A n \in tasks : atomicAnswers[n].how = thread[n]
         /\ Atomic!Wrong = {n \in tasks : thread[n] # "ok"}
<1>1. tasks # {} /\ Atomic!Active = tasks
  BY DEF Planned, TasksAreCandidates, Candidates, Atomic!Active
<1>2. Answered = tasks
  BY DEF Answered
<1>3. DOMAIN atomicAnswers = tasks /\ \A n \in tasks : atomicAnswers[n].how = thread[n]
  BY <1>2 DEF atomicAnswers
<1>4. Atomic!Wrong = {n \in tasks : thread[n] # "ok"}
  BY <1>3 DEF Atomic!Wrong
<1>5. atomicStatus = "running"
  BY DEF atomicStatus
<1>6. QED
  BY <1>1, <1>3, <1>4, <1>5 DEF Atomic!AllAnswered

(* If all of them have returned writes, these are grouped alike.           *)
LEMMA WrittenGroups ==
  ASSUME TypeOK, JoinOrder, Planned, phase = "apply"
  PROVE  /\ Atomic!AllAnswered /\ Atomic!Wrong = {} /\ Atomic!Active = tasks
         /\ \A chs : Atomic!Consumed(chs, Atomic!Active) = Consumed(chs, tasks)
         /\ Atomic!Grouped(Atomic!Active, Atomic!Written) = Grouped(tasks, writes)
<1>1. \A n \in tasks : thread[n] = "ok"
  BY DEF JoinOrder
<1>2. /\ Atomic!AllAnswered /\ Atomic!Wrong = {} /\ Atomic!Active = tasks
      /\ DOMAIN atomicAnswers = tasks
  BY <1>1, AllAnswers
<1>3. \A n \in tasks : Atomic!Written[n] = writes[n]
  BY <1>1, <1>2 DEF Atomic!Written, atomicAnswers, Answered
<1>4. Grouped(tasks, Atomic!Written) = Grouped(tasks, writes)
  BY <1>3, GroupsAgree DEF TypeOK
<1>5. QED
  BY <1>2, <1>4, SameUpdates

LEMMA AfterTickIsApply ==
  TypeOK /\ JoinOrder /\ Planned /\ AfterTick => Atomic!Apply
<1> SUFFICES ASSUME TypeOK, JoinOrder, Planned, AfterTick
             PROVE  Atomic!Apply
  OBVIOUS
<1> DEFINE chs == Consumed(channels, tasks)
           G   == Grouped(tasks, writes)
<1>1. /\ phase = "apply" /\ step' = step + 1
      /\ Failing(chs, G) = {}
      /\ channels' = Stored(chs, G)
      /\ updated' = Changed(chs, G)
  BY Zenon DEF AfterTick
<1>2. /\ Atomic!AllAnswered /\ Atomic!Wrong = {}
      /\ Atomic!Consumed(channels, Atomic!Active) = chs
      /\ Atomic!Grouped(Atomic!Active, Atomic!Written) = G
  BY <1>1, WrittenGroups
<1>3. /\ Atomic!Failing(chs, G) = {}
      /\ channels' = Atomic!Stored(chs, G)
      /\ updated' = Atomic!Changed(chs, G)
  BY <1>1, SameUpdates
<1>4. \/ phase' = "tick" /\ UNCHANGED <<outcome, error>>
      \/ /\ phase' = "ended" /\ outcome' = "closed"
         /\ error' = [kind |-> "none", at |-> "none"]
  <2>1. Continue
    BY DEF AfterTick
  <2>2. CASE open
    BY <2>1, <2>2 DEF Continue, Goto
  <2>3. CASE ~open
    BY <2>1, <2>3 DEF Continue, End, NoError
  <2>4. QED
    BY <2>2, <2>3
<1>5. atomicAnswers' = Atomic!Nothing
  BY <1>4, NoAnswers DEF atomicAnswers, Answered, NoWrites
<1>6. UNCHANGED Atomic!result \/ Atomic!Ends("closed", "none", "none")
  BY <1>1, <1>4 DEF Atomic!result, Atomic!Ends, atomicStatus
<1> HIDE DEF chs, G
<1>7. QED
  BY <1>1, <1>2, <1>3, <1>5, <1>6, Zenon DEF Atomic!Apply

LEMMA AfterTickErrIsRefuse ==
  TypeOK /\ JoinOrder /\ Planned /\ AfterTickErr => Atomic!Refuse
<1> SUFFICES ASSUME TypeOK, JoinOrder, Planned, AfterTickErr
             PROVE  Atomic!Refuse
  OBVIOUS
<1> DEFINE chs == Consumed(channels, tasks)
           G   == Grouped(tasks, writes)
<1>1. /\ phase = "apply" /\ UNCHANGED <<step, updated>>
      /\ \E f \in Failing(chs, G) :
           /\ \A c \in Failing(chs, G) : Rank[f] <= Rank[c]
           /\ channels' = StoredUpTo(chs, G, f)
           /\ End("error", [kind |-> "channel", at |-> f])
  BY Zenon DEF AfterTickErr
<1>2. /\ Atomic!AllAnswered /\ Atomic!Wrong = {}
      /\ Atomic!Consumed(channels, Atomic!Active) = chs
      /\ Atomic!Grouped(Atomic!Active, Atomic!Written) = G
  BY <1>1, WrittenGroups
<1>3. PICK f \in Failing(chs, G) :
        /\ \A c \in Failing(chs, G) : Rank[f] <= Rank[c]
        /\ channels' = StoredUpTo(chs, G, f)
        /\ End("error", [kind |-> "channel", at |-> f])
  BY <1>1
<1>4. /\ f \in Atomic!Failing(chs, G)
      /\ Atomic!IsFirst(f, Atomic!Failing(chs, G))
      /\ channels' = Atomic!StoredUpTo(chs, G, f)
  BY <1>3, SameUpdates DEF Atomic!IsFirst
<1>5. Atomic!Ends("error", "channel", f)
  BY <1>3 DEF End, Atomic!Ends, atomicStatus
<1>6. phase' = "ended"
  BY <1>3 DEF End
<1>7. atomicAnswers' = Atomic!Nothing
  BY <1>6, NoAnswers DEF atomicAnswers, Answered, NoWrites
<1> HIDE DEF chs, G
<1>8. QED
  BY <1>1, <1>2, <1>4, <1>5, <1>7, Zenon DEF Atomic!Refuse

(* The first task that goes wrong decides how a superstep breaks.          *)
LEMMA BreakBy ==
  ASSUME TypeOK, Planned, phase \in {"join", "scope"}, phase' = "ended",
         UNCHANGED <<step, channels, updated>>,
         \A n \in tasks : thread[n] # "running",
         NEW first \in tasks, thread[first] # "ok",
         \A m \in tasks : Rank[m] < Rank[first] => thread[m] = "ok",
         IF \E n \in tasks : thread[n] = "panic" /\ (n # first \/ tasks = {n})
         THEN outcome' = "vanished" /\ error' = NoError
         ELSE outcome' = "error" /\ error' = [kind |-> thread[first], at |-> first]
  PROVE  Atomic!Break
<1>1. /\ Atomic!AllAnswered
      /\ Atomic!Active = tasks
      /\ DOMAIN atomicAnswers = tasks
      /\ \A n \in tasks : atomicAnswers[n].how = thread[n]
      /\ Atomic!Wrong = {n \in tasks : thread[n] # "ok"}
  BY AllAnswers
<1>2. first \in Atomic!Wrong
  BY <1>1
<1>3. Atomic!IsFirst(first, Atomic!Wrong)
  <2>1. \A m \in Atomic!Wrong : ~(Rank[m] < Rank[first])
    BY <1>1
  <2>2. \A m \in tasks : Rank[m] \in Nat
    BY GraphAssumption DEF TypeOK
  <2>3. QED
    BY <1>1, <1>2, <2>1, <2>2 DEF Atomic!IsFirst
<1>4. Atomic!Uncaught(first) <=>
        \E n \in tasks : thread[n] = "panic" /\ (n # first \/ tasks = {n})
  BY <1>1 DEF Atomic!Uncaught
<1>5. IF Atomic!Uncaught(first) THEN Atomic!Ends("vanished", "none", "none")
                                ELSE Atomic!Ends("error", atomicAnswers[first].how, first)
  BY <1>1, <1>4 DEF Atomic!Ends, atomicStatus, NoError
<1>6. atomicAnswers' = Atomic!Nothing
  BY NoAnswers DEF atomicAnswers, Answered, NoWrites
<1>7. UNCHANGED Atomic!store
  BY DEF Atomic!store
<1>8. QED
  BY <1>1, <1>2, <1>3, <1>5, <1>6, <1>7, Zenon DEF Atomic!Break

LEMMA UnwindIsBreak ==
  TypeOK /\ Planned /\ Unwind => Atomic!Break
<1> SUFFICES ASSUME TypeOK, Planned, Unwind PROVE Atomic!Break
  OBVIOUS
<1>1. PICK n \in tasks : tasks = {n} /\ thread[n] = "panic"
  BY DEF Unwind
<1>2. /\ phase = "join" /\ phase' = "ended" /\ outcome' = "vanished"
      /\ error' = NoError /\ UNCHANGED <<step, channels, updated>>
  BY DEF Unwind, End, state
<1>3. /\ \A m \in tasks : m = n /\ ~(Rank[m] < Rank[n])
      /\ \E m \in tasks : thread[m] = "panic" /\ (m # n \/ tasks = {m})
  BY <1>1, GraphAssumption DEF TypeOK
<1>4. QED
  BY <1>1, <1>2, <1>3, BreakBy

LEMMA LeaveScopeIsBreak ==
  TypeOK /\ JoinOrder /\ Planned /\ ThreadsScoped /\ LeaveScope => Atomic!Break
<1> SUFFICES ASSUME TypeOK, JoinOrder, Planned, ThreadsScoped, LeaveScope
             PROVE  Atomic!Break
  OBVIOUS
<1>1. /\ phase = "scope" /\ phase' = "ended" /\ UNCHANGED <<step, channels, updated>>
      /\ \A n \in tasks : thread[n] # "running"
  BY DEF LeaveScope, End, state
<1>2. PICK first \in failed : TRUE
  BY <1>1 DEF ThreadsScoped
<1>3. /\ first \in tasks /\ thread[first] \in {"err", "panic"}
      /\ \A m \in tasks : Rank[m] < Rank[first] => thread[m] = "ok"
  BY <1>2 DEF TypeOK, JoinOrder
<1>4. failed = {first}
  <2> SUFFICES ASSUME NEW m \in failed PROVE m = first
    BY <1>2
  <2>1. /\ m \in tasks /\ thread[m] \in {"err", "panic"}
        /\ \A k \in tasks : Rank[k] < Rank[m] => thread[k] = "ok"
    BY DEF TypeOK, JoinOrder
  <2>2. ~(Rank[m] < Rank[first]) /\ ~(Rank[first] < Rank[m])
    BY <1>3, <2>1
  <2>3. Rank[m] \in Nat /\ Rank[first] \in Nat /\ m \in Nodes /\ first \in Nodes
    BY <1>3, <2>1, GraphAssumption DEF TypeOK
  <2>4. QED
    BY <2>2, <2>3, GraphAssumption
<1>5. (\E n \in tasks \ (joined \cup failed) : thread[n] = "panic")
      <=> \E n \in tasks : thread[n] = "panic" /\ (n # first \/ tasks = {n})
  BY <1>2, <1>4 DEF JoinOrder, ThreadsScoped
<1>6. IF \E n \in tasks : thread[n] = "panic" /\ (n # first \/ tasks = {n})
      THEN outcome' = "vanished" /\ error' = NoError
      ELSE outcome' = "error" /\ error' = [kind |-> thread[first], at |-> first]
  BY <1>4, <1>5 DEF LeaveScope, End
<1>7. QED
  BY <1>1, <1>3, <1>6, BreakBy

(* Planning, joining and the caller are not seen.                          *)
LEMMA UnseenSteps ==
  ASSUME ThreadsScoped,
         Prepare \/ JoinOk \/ JoinErr \/ DropReceiver \/ UNCHANGED vars
  PROVE  UNCHANGED Atomic!avars
<1>1. /\ UNCHANGED <<step, channels, updated, outcome, error>>
      /\ phase' = "ended" <=> phase = "ended"
      /\ phase' = "enter" <=> phase = "enter"
  BY DEF Prepare, JoinOk, JoinErr, JoinsNext, DropReceiver, Goto, vars, control, state
<1>2. atomicAnswers' = atomicAnswers
  <2>1. CASE Prepare
    <3>1. phase = "tick" /\ phase' = "join" /\ \A n \in tasks' : thread'[n] = "running"
      BY <2>1 DEF Prepare, Submit, Goto, Ready, Candidates
    <3>2. Answered = {} /\ Answered' = {}
      BY <3>1 DEF Answered
    <3>3. QED
      BY <3>2 DEF atomicAnswers
  <2>2. CASE JoinOk \/ JoinErr
    BY <2>2, SameAnswers DEF JoinOk, JoinErr, JoinsNext, Goto, control
  <2>3. CASE DropReceiver \/ UNCHANGED vars
    BY <2>3 DEF DropReceiver, vars, control, execution, atomicAnswers, Answered
  <2>4. QED
    BY <2>1, <2>2, <2>3
<1>3. QED
  BY <1>1, <1>2 DEF Atomic!avars, Atomic!result, Atomic!store, atomicStatus

LEMMA StepAtomic ==
  TypeOK /\ JoinOrder /\ StepsBounded /\ NoTriggerLost /\ Planned /\ ThreadsScoped
    /\ [Next]_vars => [Atomic!ANext]_(Atomic!avars)
<1> SUFFICES ASSUME TypeOK, JoinOrder, StepsBounded, NoTriggerLost, Planned,
                    ThreadsScoped, [Next]_vars
             PROVE  Atomic!ANext \/ UNCHANGED Atomic!avars
  OBVIOUS
<1> USE DEF Atomic!ANext
<1>1. CASE Enter
  BY <1>1, EnterIsBegin
<1>2. CASE EnterEmpty
  BY <1>2, EnterEmptyIsNoInput
<1>3. CASE OutOfSteps
  BY <1>3, OutOfStepsIsLimit
<1>4. CASE Done
  BY <1>4, DoneIsAtomicFinish
<1>5. ASSUME NEW n \in Nodes, Node(n)
      PROVE  Atomic!ANext
  BY <1>5, NodeIsAnswer
<1>6. CASE AfterTick
  BY <1>6, AfterTickIsApply
<1>7. CASE AfterTickErr
  BY <1>7, AfterTickErrIsRefuse
<1>8. CASE Unwind
  BY <1>8, UnwindIsBreak
<1>9. CASE LeaveScope
  BY <1>9, LeaveScopeIsBreak
<1>10. CASE Prepare \/ JoinOk \/ JoinErr \/ DropReceiver \/ UNCHANGED vars
  BY <1>10, UnseenSteps
<1>11. QED
  BY <1>1, <1>2, <1>3, <1>4, <1>5, <1>6, <1>7, <1>8, <1>9, <1>10
     DEF Next, Loop, Ended

(* Every run, of any graph and with any nodes, is one whose supersteps are *)
(* atomic: what it computes and the error it ends in are a function of     *)
(* what the nodes answer; threads, joins and versions have no part in it.  *)
THEOREM LoopIsAtomic == Spec => RefinesAtomic
<1>1. Init => Atomic!AInit
  BY InitAtomic
<1>2. QED
  BY <1>1, StepAtomic, OrderInvariant, LimitHolds, TriggersKept, PlannedInvariant,
     ScopedInvariant, PTL DEF Spec, RefinesAtomic, Atomic!ASpec
=============================================================================
