-------------------------- MODULE PregelLoopProofs --------------------------
(***************************************************************************)
(* Theorems about PregelLoop, for every graph, every recursion limit and   *)
(* every behaviour of the node functions that the assumptions allow.       *)
(***************************************************************************)
EXTENDS PregelLoop, ChannelsProofs

USE DEF ChannelsFit, GraphFits, InputFits

-----------------------------------------------------------------------------
(* The sort by path.                                                       *)

LEMMA PathsAreRanked ==
  ASSUME NEW S \in SUBSET Nodes
  PROVE  IsFiniteSet(S) /\ PlacesOrder(S, Rank)
<1>1. IsFiniteSet(S)
  BY FS_Subset, GraphAssumption
<1>2. \A n \in S : Rank[n] \in Nat
  BY GraphAssumption
<1>3. \A m, n \in S : Rank[m] = Rank[n] => m = n
  BY GraphAssumption
<1>4. QED
  BY <1>1, <1>2, <1>3, CountingSorts

(* Sorting loses and duplicates nothing: PathOrder(S) lists every member   *)
(* of S once, in strictly increasing path order.                           *)
THEOREM PathOrderSorts ==
  ASSUME NEW S \in SUBSET Nodes
  PROVE  /\ PathOrder(S) \in [1..Cardinality(S) -> S]
         /\ \A n \in S : \E i \in 1..Cardinality(S) : PathOrder(S)[i] = n
         /\ \A i, j \in 1..Cardinality(S) :
              i < j => Rank[PathOrder(S)[i]] < Rank[PathOrder(S)[j]]
<1> DEFINE K == Cardinality(S)
<1>1. /\ K \in Nat
      /\ \A n \in S : Place(S, Rank, n) \in 1..K
      /\ \A m, n \in S : Rank[m] < Rank[n] => Place(S, Rank, m) < Place(S, Rank, n)
      /\ \A m, n \in S : Place(S, Rank, m) = Place(S, Rank, n) => m = n
      /\ \A i \in 1..K : \E n \in S : Place(S, Rank, n) = i
  BY PathsAreRanked DEF PlacesOrder
<1>2. ASSUME NEW i \in 1..K
      PROVE  PathOrder(S)[i] \in S /\ Place(S, Rank, PathOrder(S)[i]) = i
  <2>1. PathOrder(S)[i] = CHOOSE n \in S : Place(S, Rank, n) = i
    BY DEF PathOrder, Place
  <2>2. \E n \in S : Place(S, Rank, n) = i
    BY <1>1
  <2>3. QED
    BY <2>1, <2>2
<1>3. PathOrder(S) \in [1..K -> S]
  BY <1>2 DEF PathOrder
<1>4. \A n \in S : PathOrder(S)[Place(S, Rank, n)] = n
  BY <1>1, <1>2
<1>5. ASSUME NEW i \in 1..K, NEW j \in 1..K, i < j
      PROVE  Rank[PathOrder(S)[i]] < Rank[PathOrder(S)[j]]
  <2> DEFINE m == PathOrder(S)[i]
             n == PathOrder(S)[j]
  <2>1. /\ m \in S /\ Place(S, Rank, m) = i
        /\ n \in S /\ Place(S, Rank, n) = j
    BY <1>2
  <2> HIDE DEF m, n
  <2>2. ~(Rank[n] < Rank[m])
    <3>1. Rank[n] < Rank[m] => j < i
      BY <1>1, <2>1
    <3>2. QED
      BY <1>5, <3>1
  <2>3. Rank[m] \in Nat /\ Rank[n] \in Nat /\ Rank[m] # Rank[n]
    <3>1. m # n
      BY <1>5, <2>1
    <3>2. QED
      BY <2>1, <3>1, GraphAssumption
  <2>4. QED
    BY <2>2, <2>3 DEF m, n
<1>6. QED
  BY <1>1, <1>3, <1>4, <1>5

-----------------------------------------------------------------------------
(* What the update phase computes is well typed.                           *)

LEMMA InputGroups ==
  ASSUME NEW w \in Inputs
  PROVE  /\ DOMAIN w \subseteq Channels
         /\ \A c \in DOMAIN w : <<w[c]>> \in Seq(Values) /\ Len(<<w[c]>>) > 0
<1>1. DOMAIN w \subseteq Channels /\ w \in [DOMAIN w -> Values]
  BY GraphAssumption DEF IsWrites
<1>2. QED
  BY <1>1

LEMMA GroupedType ==
  ASSUME \A n \in Nodes : IsWrites(writes[n]), NEW T \in SUBSET Nodes
  PROVE  /\ DOMAIN Grouped(T, writes) \subseteq Channels
         /\ \A c \in DOMAIN Grouped(T, writes) :
              Grouped(T, writes)[c] \in Seq(Values) /\ Len(Grouped(T, writes)[c]) > 0
<1>1. DOMAIN Grouped(T, writes) = {d \in Channels : Writers(d, T, writes) # {}}
  BY DEF Grouped
<1> SUFFICES ASSUME NEW c \in DOMAIN Grouped(T, writes)
             PROVE  Grouped(T, writes)[c] \in Seq(Values) /\ Len(Grouped(T, writes)[c]) > 0
  BY <1>1
<1> DEFINE W == Writers(c, T, writes)
           order == PathOrder(W)
           K == Cardinality(W)
<1>2. W \in SUBSET Nodes /\ W # {}
  BY <1>1 DEF Writers
<1>3. order \in [1..K -> W] /\ K \in Nat /\ IsFiniteSet(W)
  BY <1>2, PathOrderSorts, PathsAreRanked DEF PlacesOrder
<1>4. K > 0
  BY <1>2, <1>3, FS_EmptySet
<1>5. \A n \in W : writes[n][c] \in Values
  <2> SUFFICES ASSUME NEW n \in W
               PROVE  writes[n][c] \in Values
    OBVIOUS
  <2>1. n \in Nodes /\ c \in DOMAIN writes[n]
    BY DEF Writers
  <2>2. writes[n] \in [DOMAIN writes[n] -> Values]
    BY <2>1 DEF IsWrites
  <2>3. QED
    BY <2>1, <2>2
<1>6. Grouped(T, writes)[c] = [i \in DOMAIN order |-> writes[order[i]][c]]
  BY <1>1 DEF Grouped
<1> HIDE DEF order, W, K
<1>7. Grouped(T, writes)[c] \in [1..K -> Values]
  BY <1>3, <1>5, <1>6
<1>8. QED
  BY <1>3, <1>4, <1>7, LenProperties, SeqDef

ChannelsTyped(chs) ==
  DOMAIN chs = Channels /\ \A c \in Channels : chs[c] \in ChannelStates(c)

GroupsTyped(G) ==
  /\ DOMAIN G \subseteq Channels
  /\ \A c \in DOMAIN G : G[c] \in Seq(Values) /\ Len(G[c]) > 0

(* Groups depend on what the tasks at hand have written, and nothing else. *)
LEMMA GroupsAgree ==
  ASSUME NEW T \in SUBSET Nodes, NEW one, NEW other, \A n \in T : one[n] = other[n]
  PROVE  Grouped(T, one) = Grouped(T, other)
<1>1. \A c : Writers(c, T, one) = Writers(c, T, other)
  BY DEF Writers
<1>2. DOMAIN Grouped(T, one) = DOMAIN Grouped(T, other)
  BY <1>1 DEF Grouped
<1>3. ASSUME NEW c \in DOMAIN Grouped(T, one)
      PROVE  Grouped(T, one)[c] = Grouped(T, other)[c]
  <2> DEFINE order == PathOrder(Writers(c, T, one))
  <2>1. Writers(c, T, one) \in SUBSET Nodes /\ Writers(c, T, one) \subseteq T
    BY DEF Writers
  <2>2. order \in [1..Cardinality(Writers(c, T, one)) -> Writers(c, T, one)]
    BY <2>1, PathOrderSorts
  <2>3. \A i \in DOMAIN order : one[order[i]] = other[order[i]]
    BY <2>1, <2>2
  <2>4. Grouped(T, one)[c] = [i \in DOMAIN order |-> one[order[i]][c]]
    BY <1>3 DEF Grouped
  <2>5. Grouped(T, other)[c] = [i \in DOMAIN order |-> other[order[i]][c]]
    BY <1>1, <1>2, <1>3 DEF Grouped
  <2> HIDE DEF order
  <2>6. QED
    BY <2>3, <2>4, <2>5
<1>4. QED
  BY <1>2, <1>3 DEF Grouped

LEMMA ConsumedType ==
  ASSUME NEW chs, ChannelsTyped(chs), NEW T
  PROVE  ChannelsTyped(Consumed(chs, T))
BY ConsumeType DEF ChannelsTyped, Consumed

LEMMA StoredType ==
  ASSUME NEW chs, ChannelsTyped(chs), NEW G, GroupsTyped(G), Failing(chs, G) = {}
  PROVE  ChannelsTyped(Stored(chs, G))
<1>1. \A c \in DOMAIN G : UpdateResult(c, chs[c], G[c]) \in ChannelStates(c)
  BY UpdateType DEF ChannelsTyped, GroupsTyped, Failing
<1>2. QED
  BY <1>1 DEF ChannelsTyped, GroupsTyped, Stored

LEMMA StoredUpToType ==
  ASSUME NEW chs, ChannelsTyped(chs), NEW G, GroupsTyped(G),
         NEW f \in Failing(chs, G),
         \A c \in Failing(chs, G) : Rank[f] <= Rank[c]
  PROVE  ChannelsTyped(StoredUpTo(chs, G, f))
<1> SUFFICES ASSUME NEW c \in Channels
             PROVE  StoredUpTo(chs, G, f)[c] \in ChannelStates(c)
  BY DEF ChannelsTyped, StoredUpTo
<1>1. CASE c = f
  <2>1. UpdateResidue(c, chs[c], G[c]) \in ChannelStates(c)
    BY <1>1, ResidueType DEF ChannelsTyped, GroupsTyped, Failing
  <2>2. ~(Rank[c] < Rank[f])
    BY <1>1, GraphAssumption
  <2>3. StoredUpTo(chs, G, f)[c] = UpdateResidue(c, chs[c], G[c])
    BY <1>1, <2>2 DEF StoredUpTo
  <2>4. QED
    BY <2>1, <2>3
<1>2. CASE c # f /\ c \in DOMAIN G /\ Rank[c] < Rank[f]
  <2>1. f \in Channels
    BY DEF Failing, GroupsTyped
  <2>2. Rank[c] \in Nat /\ Rank[f] \in Nat
    BY <2>1, GraphAssumption
  <2>3. c \notin Failing(chs, G)
    BY <1>2, <2>2
  <2>4. UpdateResult(c, chs[c], G[c]) \in ChannelStates(c)
    BY <1>2, <2>3, UpdateType DEF ChannelsTyped, GroupsTyped, Failing
  <2>5. StoredUpTo(chs, G, f)[c] = UpdateResult(c, chs[c], G[c])
    BY <1>2 DEF StoredUpTo
  <2>6. QED
    BY <2>4, <2>5
<1>3. CASE c # f /\ ~(c \in DOMAIN G /\ Rank[c] < Rank[f])
  <2>1. StoredUpTo(chs, G, f)[c] = chs[c]
    BY <1>3 DEF StoredUpTo
  <2>2. QED
    BY <2>1 DEF ChannelsTyped
<1>4. QED
  BY <1>1, <1>2, <1>3

LEMMA InputStoredType ==
  ASSUME NEW chs, NEW w \in Inputs, NEW G, G = [c \in DOMAIN w |-> <<w[c]>>]
  PROVE  /\ GroupsTyped(G)
         /\ Failing(chs, G) = {}
         /\ Changed(chs, G) \subseteq Channels
<1>1. GroupsTyped(G)
  BY InputGroups DEF GroupsTyped
<1>2. \A c \in DOMAIN G : Kind[c] = "ephemeral"
  BY GraphAssumption
<1>3. Failing(chs, G) = {}
  BY <1>2 DEF Failing, UpdateFails
<1>4. QED
  BY <1>1, <1>3 DEF Changed, GroupsTyped

LEMMA SeenType ==
  ASSUME TypeOK
  PROVE  /\ DOMAIN Seen(tasks) \subseteq Nodes
         /\ \A n \in DOMAIN Seen(tasks) : Seen(tasks)[n] \in [Channels -> Nat]
BY DEF TypeOK, Seen

LEMMA BumpedType ==
  ASSUME TypeOK, NEW U
  PROVE  Bumped(U) \in [Channels -> Nat]
BY DEF TypeOK, Bumped

-----------------------------------------------------------------------------
(* Type correctness.                                                       *)

LEMMA FreshIsEmpty ==
  ASSUME NEW c \in Channels
  PROVE  FreshChannels[c] = Empty(c)
BY CopyIsExact DEF FreshChannels

LEMMA InitType == Init => TypeOK
<1> SUFFICES ASSUME Init PROVE TypeOK
  OBVIOUS
<1>1. DOMAIN channels = Channels /\ \A c \in Channels : channels[c] \in ChannelStates(c)
  BY EmptyType, FreshIsEmpty DEF Init, FreshChannels
<1>2. IsWrites(NoWrites)
  BY DEF NoWrites, IsWrites
<1>3. QED
  BY <1>1, <1>2 DEF Init, TypeOK, Phases, Outcomes, NoError, ErrorKinds

LEMMA SubmitType ==
  ASSUME NEW T \in SUBSET Nodes, Submit(T)
  PROVE  /\ tasks' \subseteq Nodes
         /\ thread' \in [Nodes -> {"idle", "running", "ok", "err", "panic"}]
         /\ DOMAIN writes' = Nodes /\ \A n \in Nodes : IsWrites(writes'[n])
         /\ joined' \subseteq tasks'
         /\ failed' \subseteq tasks'
<1>1. IsWrites(NoWrites)
  BY DEF NoWrites, IsWrites
<1>2. QED
  BY <1>1 DEF Submit

LEMMA StepType == TypeOK /\ JoinOrder /\ [Next]_vars => TypeOK'
<1> SUFFICES ASSUME TypeOK, JoinOrder, [Next]_vars PROVE TypeOK'
  OBVIOUS
<1> USE DEF End, Goto, NoError, Phases, Outcomes, ErrorKinds, state, execution
<1>1. CASE Enter
  <2>1. PICK w \in Inputs :
          LET G == [c \in DOMAIN w |-> <<w[c]>>]
          IN  /\ channels' = Stored(channels, G)
              /\ updated' = Changed(channels, G)
              /\ versions' = Bumped(Changed(channels, G))
    BY <1>1 DEF Enter
  <2> DEFINE G == [c \in DOMAIN w |-> <<w[c]>>]
  <2>2. GroupsTyped(G) /\ Failing(channels, G) = {} /\ updated' \subseteq Channels
    BY <2>1, InputStoredType
  <2>3. ChannelsTyped(channels')
    BY <2>1, <2>2, StoredType DEF TypeOK, ChannelsTyped
  <2>4. versions' \in [Channels -> Nat]
    BY <2>1, BumpedType
  <2>5. QED
    BY <1>1, <2>2, <2>3, <2>4 DEF Enter, TypeOK, ChannelsTyped
<1>2. CASE EnterEmpty
  BY <1>2 DEF EnterEmpty, TypeOK
<1>3. CASE OutOfSteps
  BY <1>3 DEF OutOfSteps, TypeOK
<1>4. CASE Prepare
  <2>1. Ready \in SUBSET Nodes
    BY DEF Ready, Candidates
  <2>2. QED
    BY <1>4, <2>1, SubmitType DEF Prepare, TypeOK
<1>5. CASE Done
  BY <1>5, SubmitType DEF Done, TypeOK
<1>6. CASE JoinOk
  <2>1. PICK n \in Nodes : /\ JoinsNext(n)
                           /\ joined' = joined \cup {n}
                           /\ \/ Goto("apply")
                              \/ UNCHANGED control
    BY <1>6 DEF JoinOk
  <2>2. QED
    BY <1>6, <2>1 DEF JoinOk, JoinsNext, control, TypeOK
<1>7. CASE JoinErr
  <2>1. PICK n \in Nodes : JoinsNext(n) /\ failed' = {n}
    BY <1>7 DEF JoinErr
  <2>2. QED
    BY <1>7, <2>1 DEF JoinErr, JoinsNext, TypeOK
<1>8. CASE Unwind
  BY <1>8 DEF Unwind, TypeOK
<1>9. CASE LeaveScope
  <2>1. CASE End("vanished", NoError)
    BY <1>9, <2>1 DEF LeaveScope, TypeOK
  <2>2. ASSUME NEW n \in failed, End("error", [kind |-> thread[n], at |-> n])
        PROVE  TypeOK'
    <3>1. thread[n] \in {"err", "panic"} /\ n \in Nodes
      BY DEF JoinOrder, TypeOK
    <3>2. error' = [kind |-> thread[n], at |-> n]
      BY <2>2
    <3>3. error' \in [kind : ErrorKinds, at : Nodes \cup Channels \cup {"none"}]
      BY <3>1, <3>2
    <3>4. QED
      BY <1>9, <2>2, <3>3 DEF LeaveScope, TypeOK
  <2>3. QED
    BY <1>9, <2>1, <2>2 DEF LeaveScope
<1>10. CASE AfterTick
  <2> DEFINE chs == Consumed(channels, tasks)
             G   == Grouped(tasks, writes)
  <2>1. ChannelsTyped(chs)
    BY ConsumedType DEF TypeOK, ChannelsTyped
  <2>2. GroupsTyped(G)
    BY GroupedType DEF TypeOK, GroupsTyped
  <2>3. ChannelsTyped(channels')
    BY <1>10, <2>1, <2>2, StoredType DEF AfterTick
  <2>4. updated' \subseteq Channels
    BY <1>10, <2>2 DEF AfterTick, Changed, GroupsTyped
  <2>5. versions' \in [Channels -> Nat]
    BY <1>10, BumpedType DEF AfterTick
  <2>6. /\ DOMAIN versionsSeen' \subseteq Nodes
        /\ \A n \in DOMAIN versionsSeen' : versionsSeen'[n] \in [Channels -> Nat]
    BY <1>10, SeenType DEF AfterTick
  <2> HIDE DEF chs, G
  <2>7. phase' \in Phases /\ outcome' \in Outcomes /\ open' = open
    BY <1>10 DEF AfterTick, Continue, TypeOK
  <2>8. error' \in [kind : ErrorKinds, at : Nodes \cup Channels \cup {"none"}]
    <3>1. error' = error \/ error' = NoError
      BY <1>10, Zenon DEF AfterTick, Continue
    <3>2. NoError \in [kind : ErrorKinds, at : Nodes \cup Channels \cup {"none"}]
      OBVIOUS
    <3>3. error \in [kind : ErrorKinds, at : Nodes \cup Channels \cup {"none"}]
      BY DEF TypeOK
    <3>4. QED
      BY <3>1, <3>2, <3>3, Zenon
  <2>9. step' \in Nat /\ UNCHANGED execution
    <3>1. step' = step + 1 /\ UNCHANGED execution
      BY <1>10, Zenon DEF AfterTick, Continue
    <3>2. step \in Nat
      BY DEF TypeOK
    <3>3. QED
      BY <3>1, <3>2
  <2>10. QED
    BY <2>3, <2>4, <2>5, <2>6, <2>7, <2>8, <2>9 DEF TypeOK, ChannelsTyped
<1>11. CASE AfterTickErr
  <2> DEFINE chs == Consumed(channels, tasks)
             G   == Grouped(tasks, writes)
  <2>1. ChannelsTyped(chs)
    BY ConsumedType DEF TypeOK, ChannelsTyped
  <2>2. GroupsTyped(G)
    BY GroupedType DEF TypeOK, GroupsTyped
  <2>3. PICK f \in Failing(chs, G) :
          /\ \A c \in Failing(chs, G) : Rank[f] <= Rank[c]
          /\ channels' = StoredUpTo(chs, G, f)
          /\ End("error", [kind |-> "channel", at |-> f])
    BY <1>11 DEF AfterTickErr
  <2>4. ChannelsTyped(channels')
    BY <2>1, <2>2, <2>3, StoredUpToType
  <2>5. f \in Channels
    BY <2>2, <2>3 DEF Failing, GroupsTyped
  <2> HIDE DEF chs, G
  <2>6. QED
    BY <1>11, <2>3, <2>4, <2>5 DEF AfterTickErr, TypeOK, ChannelsTyped
<1>12. ASSUME NEW n \in Nodes, Node(n)
       PROVE  TypeOK'
  <2>1. CASE Return(n)
    <3>1. PICK w \in Outputs[n] : writes' = [writes EXCEPT ![n] = w]
      BY <2>1 DEF Return
    <3>2. IsWrites(w)
      BY GraphAssumption
    <3>3. QED
      BY <2>1, <3>1, <3>2 DEF Return, TypeOK, control
  <2>2. CASE Fail(n)
    BY <2>2 DEF Fail, TypeOK, control
  <2>3. CASE Panic(n)
    BY <2>3 DEF Panic, TypeOK, control
  <2>4. QED
    BY <1>12, <2>1, <2>2, <2>3 DEF Node
<1>13. CASE DropReceiver
  BY <1>13 DEF DropReceiver, TypeOK
<1>14. CASE UNCHANGED vars
  BY <1>14 DEF vars, control, TypeOK
<1>15. QED
  BY <1>1, <1>2, <1>3, <1>4, <1>5, <1>6, <1>7, <1>8, <1>9, <1>10, <1>11,
     <1>12, <1>13, <1>14 DEF Next, Loop, Ended

-----------------------------------------------------------------------------
(* Tasks are joined in path order.                                         *)

LEMMA InitOrder == Init => JoinOrder /\ FirstErrorReported
BY DEF Init, JoinOrder, FirstErrorReported, NoError

LEMMA StepOrder ==
  TypeOK /\ JoinOrder /\ [Next]_vars => JoinOrder'
<1> SUFFICES ASSUME TypeOK, JoinOrder, [Next]_vars PROVE JoinOrder'
  OBVIOUS
<1> USE DEF End, Goto, Continue, state, execution
<1>1. CASE Enter
  BY <1>1 DEF Enter, JoinOrder
<1>2. CASE EnterEmpty \/ OutOfSteps
  BY <1>2 DEF EnterEmpty, OutOfSteps, JoinOrder
<1>3. CASE Prepare \/ Done
  BY <1>3 DEF Prepare, Done, Submit, JoinOrder
<1>4. CASE JoinOk
  <2>1. PICK n \in Nodes :
          /\ JoinsNext(n)
          /\ thread[n] = "ok"
          /\ joined' = joined \cup {n}
          /\ IF tasks = joined \cup {n} THEN Goto("apply") ELSE UNCHANGED control
    BY <1>4 DEF JoinOk
  <2>2. phase = "join" /\ failed = {} /\ error = NoError
    BY <2>1 DEF JoinsNext, JoinOrder
  <2>3. UNCHANGED <<tasks, thread, failed, error>>
    BY <1>4, <2>1 DEF JoinOk, control
  <2>4. phase' = "apply" => joined' = tasks
    BY <2>1, <2>2 DEF control
  <2>5. QED
    BY <2>1, <2>2, <2>3, <2>4 DEF JoinOrder
<1>5. CASE JoinErr
  <2>1. PICK n \in Nodes : /\ JoinsNext(n)
                           /\ thread[n] \in {"err", "panic"}
                           /\ failed' = {n}
    BY <1>5 DEF JoinErr
  <2>2. \A m \in tasks : Rank[m] < Rank[n] => m \in joined
    <3> SUFFICES ASSUME NEW m \in tasks, Rank[m] < Rank[n], m \notin joined
                 PROVE  FALSE
      OBVIOUS
    <3>1. Rank[n] <= Rank[m]
      BY <2>1 DEF JoinsNext
    <3>2. Rank[m] \in Nat /\ Rank[n] \in Nat
      BY GraphAssumption DEF TypeOK
    <3>3. QED
      BY <3>1, <3>2
  <2>3. QED
    BY <1>5, <2>1, <2>2 DEF JoinErr, JoinsNext, JoinOrder
<1>6. CASE Unwind \/ LeaveScope
  BY <1>6 DEF Unwind, LeaveScope, JoinOrder
<1>7. CASE AfterTick \/ AfterTickErr
  BY <1>7 DEF AfterTick, AfterTickErr, JoinOrder
<1>8. ASSUME NEW n \in Nodes, Node(n)
      PROVE  JoinOrder'
  <2>1. /\ thread[n] = "running"
        /\ \A m \in Nodes : m # n => thread'[m] = thread[m]
    BY <1>8 DEF Node, Return, Fail, Panic, TypeOK
  <2>2. UNCHANGED <<phase, error, tasks, joined, failed>>
    BY <1>8 DEF Node, Return, Fail, Panic, control
  <2>3. joined \subseteq Nodes /\ failed \subseteq Nodes
    BY DEF TypeOK
  <2>4. \A m \in joined \cup failed : thread'[m] = thread[m]
    BY <2>1, <2>3 DEF JoinOrder
  <2>5. QED
    BY <2>2, <2>4 DEF JoinOrder
<1>9. CASE DropReceiver
  BY <1>9 DEF DropReceiver, JoinOrder
<1>10. CASE UNCHANGED vars
  BY <1>10 DEF vars, control, JoinOrder
<1>11. QED
  BY <1>1, <1>2, <1>3, <1>4, <1>5, <1>6, <1>7, <1>8, <1>9, <1>10
     DEF Next, Loop, Ended

(* Only LeaveScope reports the failure of a task, and it reports the task  *)
(* the join loop stopped at. Afterwards no thread of the superstep moves.  *)
LEMMA StepFirstError ==
  TypeOK /\ JoinOrder /\ FirstErrorReported /\ [Next]_vars
    => FirstErrorReported'
<1> SUFFICES ASSUME TypeOK, JoinOrder, FirstErrorReported, [Next]_vars,
                    error'.kind \in {"err", "panic"}
             PROVE  \E n \in tasks' :
                      /\ error'.at = n
                      /\ thread'[n] = error'.kind
                      /\ \A m \in tasks' : Rank[m] < Rank[n] => thread'[m] = "ok"
  BY DEF FirstErrorReported
<1> USE DEF End, Goto, Continue, state, execution
<1>1. CASE LeaveScope
  <2>1. PICK n \in failed : error' = [kind |-> thread[n], at |-> n]
    BY <1>1 DEF LeaveScope, NoError
  <2>2. \A m \in tasks : Rank[m] < Rank[n] => thread[m] = "ok"
    BY <2>1 DEF JoinOrder
  <2>3. n \in tasks /\ UNCHANGED <<tasks, thread>>
    BY <1>1, <2>1 DEF LeaveScope, TypeOK
  <2>4. QED
    BY <2>1, <2>2, <2>3
<1>2. CASE UNCHANGED <<error, tasks>> /\ ~LeaveScope
  <2>1. PICK n \in tasks :
          /\ error.at = n
          /\ thread[n] = error.kind
          /\ \A m \in tasks : Rank[m] < Rank[n] => thread[m] = "ok"
    BY <1>2 DEF FirstErrorReported
  <2>2. phase = "ended"
    BY <1>2 DEF JoinOrder, NoError
  <2>3. \A m \in tasks : thread[m] # "running" => thread'[m] = thread[m]
    <3>1. CASE \E k \in Nodes : Node(k)
      <4>1. PICK k \in Nodes : Node(k)
        BY <3>1
      <4>2. /\ thread[k] = "running"
            /\ \A m \in Nodes : m # k => thread'[m] = thread[m]
        BY <4>1 DEF Node, Return, Fail, Panic, TypeOK
      <4>3. QED
        BY <4>2 DEF TypeOK
    <3>2. CASE UNCHANGED thread
      BY <3>2
    <3>3. QED
      BY <2>2, <3>1, <3>2
         DEF Next, Loop, Ended, Enter, EnterEmpty, OutOfSteps, Prepare, Done,
             JoinOk, JoinErr, JoinsNext, Unwind, LeaveScope, AfterTick,
             AfterTickErr, DropReceiver, vars
  <2>4. QED
    BY <1>2, <2>1, <2>3
<1>3. CASE ~UNCHANGED <<error, tasks>> /\ ~LeaveScope
  <2>1. CASE EnterEmpty \/ OutOfSteps \/ Done \/ Unwind
    <3>1. PICK k \in {"empty input", "recursion limit", "none"} :
            error' = [kind |-> k, at |-> "none"]
      BY <2>1 DEF EnterEmpty, OutOfSteps, Done, Unwind, NoError
    <3>2. QED
      BY <3>1
  <2>2. CASE AfterTickErr
    <3>1. PICK f : error' = [kind |-> "channel", at |-> f]
      BY <2>2, Zenon DEF AfterTickErr
    <3>2. error'.kind = "channel"
      BY <3>1, Zenon
    <3>3. QED
      BY <3>2
  <2>3. CASE Prepare \/ AfterTick
    <3>1. error' = error /\ error = NoError
      BY <2>3 DEF Prepare, AfterTick, JoinOrder, NoError
    <3>2. QED
      BY <3>1 DEF NoError
  <2>4. QED
    BY <1>3, <2>1, <2>2, <2>3
       DEF Next, Loop, Ended, Enter, JoinOk, JoinErr, Node, Return, Fail,
           Panic, DropReceiver, vars, control
<1>4. QED
  BY <1>1, <1>2, <1>3

-----------------------------------------------------------------------------
LEMMA OrderInvariant == Spec => [](TypeOK /\ JoinOrder)
BY InitType, InitOrder, StepType, StepOrder, PTL DEF Spec

(* Every field of a run keeps its type, for every graph: in particular no  *)
(* update, not even one that fails half way, leaves a barrier with names   *)
(* it does not wait for.                                                   *)
THEOREM TypeCorrect == Spec => []TypeOK
BY OrderInvariant, PTL

(* Whatever the order in which the threads finish, the error handed to the *)
(* stream is that of the first failing task in path order.                 *)
THEOREM ErrorDeterministic == Spec => []FirstErrorReported
<1>1. Init => FirstErrorReported
  BY InitOrder
<1>2. QED
  BY <1>1, OrderInvariant, StepFirstError, PTL DEF Spec

(* Channels change when the input is applied and when a whole superstep    *)
(* has succeeded, never while a task may still run or after one failed.    *)
THEOREM SuperstepAtomic == Spec => AllOrNothing
<1>1. JoinOrder /\ [Next]_vars
        => [channels' # channels =>
              \/ phase = "enter"
              \/ \A n \in tasks : thread[n] = "ok" /\ n \in joined]_vars
  <2> SUFFICES ASSUME JoinOrder, [Next]_vars, channels' # channels,
                      phase # "enter"
               PROVE  \A n \in tasks : thread[n] = "ok" /\ n \in joined
    OBVIOUS
  <2>1. phase = "apply"
    BY DEF Next, Loop, Ended, Enter, EnterEmpty, OutOfSteps, Prepare, Done,
           JoinOk, JoinErr, Unwind, LeaveScope, AfterTick, AfterTickErr,
           Node, Return, Fail, Panic, DropReceiver, vars, state
  <2>2. QED
    BY <2>1 DEF JoinOrder
<1>2. QED
  BY <1>1, OrderInvariant, PTL DEF Spec, AllOrNothing

(* No run executes a superstep beyond its limit.                           *)
THEOREM LimitHolds == Spec => []StepsBounded
<1>1. Init => StepsBounded
  BY GraphAssumption DEF Init, StepsBounded
<1>2. TypeOK /\ StepsBounded /\ [Next]_vars => StepsBounded'
  <2> SUFFICES ASSUME TypeOK, StepsBounded, [Next]_vars PROVE StepsBounded'
    OBVIOUS
  <2>1. step \in Nat /\ RecursionLimit \in Nat
    BY GraphAssumption DEF TypeOK
  <2>2. CASE AfterTick
    BY <2>1, <2>2 DEF AfterTick, Continue, StepsBounded, Goto, End
  <2>3. CASE Prepare
    BY <2>1, <2>3 DEF Prepare, StepsBounded, Goto, state, Stop
  <2>4. CASE JoinOk \/ JoinErr
    BY <2>4 DEF JoinOk, JoinErr, JoinsNext, StepsBounded, Goto, state, control
  <2>5. CASE \/ Enter \/ EnterEmpty \/ OutOfSteps \/ Done \/ Unwind
             \/ LeaveScope \/ AfterTickErr
    BY <2>5 DEF Enter, EnterEmpty, OutOfSteps, Done, Unwind, LeaveScope,
                AfterTickErr, StepsBounded, Goto, End, state
  <2>6. CASE UNCHANGED <<step, phase>>
    BY <2>6 DEF StepsBounded
  <2>7. QED
    BY <2>2, <2>3, <2>4, <2>5, <2>6
       DEF Next, Loop, Node, Return, Fail, Panic, DropReceiver, Ended, vars,
           control, state
<1>3. QED
  BY <1>1, <1>2, TypeCorrect, PTL DEF Spec

-----------------------------------------------------------------------------
(* Scheduling loses nothing: a node that a superstep has triggered runs in *)
(* the next one, and a complete join is always about to run its target.    *)

Fresh == UpdatedFresh /\ StartsEmpty
TInv == TypeOK /\ Fresh /\ JoinNotStranded

(* The version gate is always open for the nodes the index selects.        *)
LEMMA FreshMeansReady == TypeOK /\ UpdatedFresh => NoTriggerLost
<1> SUFFICES ASSUME TypeOK, UpdatedFresh, phase = "tick",
                    NEW n \in Candidates
             PROVE  ShouldRun(n)
  BY DEF NoTriggerLost, Ready, Candidates
<1>1. PICK c \in Triggers[n] : c \in updated
  BY DEF Candidates
<1>2. /\ Available(c, channels[c])
      /\ n \in DOMAIN versionsSeen => versionsSeen[n][c] < versions[c]
  BY <1>1 DEF UpdatedFresh
<1>3. n \in DOMAIN versionsSeen => versions[c] > versionsSeen[n][c]
  BY <1>1, <1>2 DEF TypeOK
<1>4. QED
  BY <1>1, <1>2, <1>3 DEF ShouldRun

LEMMA InitTriggers == Init => Fresh /\ JoinNotStranded
<1> SUFFICES ASSUME Init PROVE Fresh /\ JoinNotStranded
  OBVIOUS
<1>1. \A c \in Channels : channels[c] = Empty(c)
  BY FreshIsEmpty DEF Init
<1>2. QED
  BY <1>1 DEF Init, Fresh, UpdatedFresh, StartsEmpty, JoinNotStranded

-----------------------------------------------------------------------------
(* The two actions that change channels and go on.                         *)

LEMMA SeenBelowVersions ==
  ASSUME TypeOK, UpdatedFresh
  PROVE  \A n \in DOMAIN Seen(tasks) : \A c \in Channels :
           Seen(tasks)[n][c] <= versions[c]
<1> SUFFICES ASSUME NEW n \in DOMAIN Seen(tasks), NEW c \in Channels
             PROVE  Seen(tasks)[n][c] <= versions[c]
  OBVIOUS
<1>1. versions[c] \in Nat
  BY DEF TypeOK
<1>2. n \in DOMAIN versionsSeen => versionsSeen[n][c] <= versions[c]
  BY DEF UpdatedFresh
<1>3. Seen(tasks)[n][c] \in
        {versions[c], 0}
        \cup (IF n \in DOMAIN versionsSeen THEN {versionsSeen[n][c]} ELSE {})
  BY DEF Seen
<1>4. QED
  BY <1>1, <1>2, <1>3

LEMMA AfterTickPhase == AfterTick => phase' = "tick" \/ phase' = "ended"
<1> SUFFICES ASSUME AfterTick PROVE phase' = "tick" \/ phase' = "ended"
  OBVIOUS
<1>1. CASE open
  BY <1>1, Zenon DEF AfterTick, Continue, Goto
<1>2. CASE ~open
  BY <1>2, Zenon DEF AfterTick, Continue, End
<1>3. QED
  BY <1>1, <1>2

LEMMA AfterTickFresh ==
  TypeOK /\ Fresh /\ AfterTick => Fresh'
<1> SUFFICES ASSUME TypeOK, Fresh, AfterTick PROVE Fresh'
  OBVIOUS
<1> DEFINE chs == Consumed(channels, tasks)
           G   == Grouped(tasks, writes)
<1>1. /\ channels' = Stored(chs, G)
      /\ updated' = Changed(chs, G)
      /\ versions' = Bumped(Changed(chs, G))
      /\ versionsSeen' = Seen(tasks)
  BY Zenon DEF AfterTick
<1>2. phase' # "enter"
  BY AfterTickPhase
<1>3. GroupsTyped(G)
  BY GroupedType DEF TypeOK, GroupsTyped
<1> HIDE DEF chs, G
<1>5. /\ \A c \in Channels : versions[c] \in Nat /\ versions[c] <= versions'[c]
      /\ \A c \in updated' : c \in Channels /\ versions[c] < versions'[c]
  BY <1>1, <1>3 DEF TypeOK, Bumped, Changed, GroupsTyped
<1>6. \A n \in DOMAIN versionsSeen' : \A c \in Channels :
        versionsSeen'[n][c] \in Nat
  BY <1>1, SeenType DEF TypeOK
<1>4. \A n \in DOMAIN versionsSeen' : \A c \in Channels :
        versionsSeen'[n][c] <= versions'[c]
  <2> SUFFICES ASSUME NEW n \in DOMAIN versionsSeen', NEW c \in Channels
               PROVE  versionsSeen'[n][c] <= versions'[c]
    OBVIOUS
  <2>1. versionsSeen'[n][c] <= versions[c] /\ versionsSeen'[n][c] \in Nat
    BY <1>1, <1>6, SeenBelowVersions DEF Fresh
  <2>2. versions[c] \in Nat /\ versions'[c] \in Nat
    BY <1>1, <1>5, BumpedType
  <2>3. QED
    BY <1>5, <2>1, <2>2
<1>7. \A c \in updated' : Available(c, channels'[c])
  BY <1>1, <1>3 DEF Changed, Stored, GroupsTyped
<1>8. ASSUME NEW c \in updated', NEW n \in DOMAIN versionsSeen'
      PROVE  versionsSeen'[n][c] < versions'[c]
  <2>1. versionsSeen'[n][c] <= versions[c] /\ versionsSeen'[n][c] \in Nat
    BY <1>1, <1>5, <1>6, SeenBelowVersions DEF Fresh
  <2>2. versions[c] \in Nat /\ versions'[c] \in Nat
    BY <1>1, <1>5, BumpedType
  <2>3. QED
    BY <1>5, <2>1, <2>2
<1>9. UpdatedFresh'
  BY <1>4, <1>7, <1>8 DEF UpdatedFresh
<1>10. QED
  BY <1>2, <1>9 DEF Fresh, StartsEmpty

(* Writes can leave a barrier complete only by completing it: one that was *)
(* complete before had its target among the tasks, and was consumed.       *)
LEMMA CompletedIsUpdated ==
  ASSUME TypeOK, JoinNotStranded, AfterTick,
         NEW c \in Channels, IsBarrier(c), Available(c, channels'[c])
  PROVE  c \in updated'
<1> DEFINE chs == Consumed(channels, tasks)
           G   == Grouped(tasks, writes)
<1>1. /\ channels' = Stored(chs, G)
      /\ updated' = Changed(chs, G)
      /\ phase = "apply"
  BY Zenon DEF AfterTick
<1>2. ~Available(c, chs[c])
  <2>1. CASE \E n \in tasks : c \in Triggers[n]
    BY <2>1, ConsumeIncomplete DEF Consumed
  <2>2. CASE ~ \E n \in tasks : c \in Triggers[n]
    <3>1. PICK n \in Nodes : c \in Triggers[n]
      BY GraphAssumption
    <3>2. ~Available(c, channels[c])
      BY <1>1, <2>2, <3>1 DEF JoinNotStranded
    <3>3. QED
      BY <2>2, <3>2 DEF Consumed
  <2>3. QED
    BY <2>1, <2>2
<1> HIDE DEF chs, G
<1>3. /\ c \in DOMAIN G
      /\ channels'[c] = UpdateResult(c, chs[c], G[c])
  BY <1>1, <1>2 DEF Stored
<1>4. UpdateChanges(c, chs[c], G[c])
  BY <1>2, <1>3, CompletionReported
<1>5. QED
  BY <1>1, <1>3, <1>4 DEF Changed

LEMMA AfterTickJoins ==
  TypeOK /\ JoinNotStranded /\ AfterTick => JoinNotStranded'
BY AfterTickPhase, CompletedIsUpdated DEF JoinNotStranded

LEMMA EnterTriggers ==
  TInv /\ Enter => Fresh' /\ JoinNotStranded'
<1> SUFFICES ASSUME TInv, Enter PROVE Fresh' /\ JoinNotStranded'
  OBVIOUS
<1>1. PICK w \in Inputs :
        LET G == [c \in DOMAIN w |-> <<w[c]>>]
        IN  /\ channels' = Stored(channels, G)
            /\ updated' = Changed(channels, G)
            /\ versions' = Bumped(Changed(channels, G))
  BY DEF Enter
<1> DEFINE G == [c \in DOMAIN w |-> <<w[c]>>]
<1>2. GroupsTyped(G) /\ updated' \subseteq Channels
  BY <1>1, InputStoredType DEF TInv
<1>3. \A c \in DOMAIN G : ~IsBarrier(c)
  BY GraphAssumption DEF IsBarrier
<1>4. /\ channels' = Stored(channels, G)
      /\ updated' = Changed(channels, G)
      /\ versions' = Bumped(Changed(channels, G))
  BY <1>1
<1>5. phase = "enter" /\ phase' = "tick" /\ versionsSeen' = versionsSeen
  BY DEF Enter, Goto
<1> HIDE DEF G
<1>6. \A c \in updated' : Available(c, channels'[c])
  BY <1>2, <1>4 DEF Changed, Stored, GroupsTyped
<1>7. /\ \A c \in Channels : versions[c] \in Nat /\ versions[c] <= versions'[c]
      /\ \A c \in updated' : versions[c] < versions'[c]
  BY <1>2, <1>4 DEF TInv, TypeOK, Bumped
<1>8. \A n \in DOMAIN versionsSeen : \A c \in Channels :
        versionsSeen[n][c] \in Nat /\ versionsSeen[n][c] <= versions[c]
  BY DEF TInv, TypeOK, Fresh, UpdatedFresh
<1>9. UpdatedFresh'
  <2>1. versions' \in [Channels -> Nat]
    BY <1>4, BumpedType DEF TInv
  <2>2. \A n \in DOMAIN versionsSeen : \A c \in Channels :
          versionsSeen[n][c] <= versions'[c]
    BY <1>7, <1>8, <2>1
  <2>3. \A n \in DOMAIN versionsSeen : \A c \in updated' :
          versionsSeen[n][c] < versions'[c]
    BY <1>2, <1>7, <1>8, <2>1
  <2>4. QED
    BY <1>5, <1>6, <2>2, <2>3 DEF UpdatedFresh
<1>10. \A c \in Channels : IsBarrier(c) => ~Available(c, channels'[c])
  BY <1>3, <1>4, <1>5, EmptyType DEF Stored, TInv, Fresh, StartsEmpty
<1>11. QED
  BY <1>5, <1>9, <1>10 DEF Fresh, StartsEmpty, JoinNotStranded

LEMMA PrepareJoins == TInv /\ Prepare => JoinNotStranded'
<1> SUFFICES ASSUME TInv, Prepare, NEW c \in Channels, IsBarrier(c),
                    Available(c, channels[c]),
                    NEW n \in Nodes, c \in Triggers[n]
             PROVE  n \in tasks'
  BY DEF Prepare, Goto, state, JoinNotStranded
<1>1. phase = "tick" /\ tasks' = Ready
  BY DEF Prepare, Submit
<1>2. c \in updated
  BY <1>1 DEF TInv, JoinNotStranded
<1>3. n \in Candidates
  BY <1>2 DEF Candidates
<1>4. Ready = Candidates
  BY <1>1, FreshMeansReady DEF TInv, Fresh, NoTriggerLost
<1>5. QED
  BY <1>1, <1>3, <1>4

LEMMA StepTriggers == TInv /\ [Next]_vars => Fresh' /\ JoinNotStranded'
<1> SUFFICES ASSUME TInv, [Next]_vars PROVE Fresh' /\ JoinNotStranded'
  OBVIOUS
<1> USE DEF TInv
<1>1. CASE Enter
  BY <1>1, EnterTriggers
<1>2. CASE AfterTick
  BY <1>2, AfterTickFresh, AfterTickJoins
<1>3. CASE Prepare
  <2>1. Fresh'
    BY <1>3 DEF Prepare, Goto, state, Fresh, UpdatedFresh, StartsEmpty
  <2>2. QED
    BY <1>3, <2>1, PrepareJoins
<1>4. CASE AfterTickErr
  <2>1. phase' = "ended" /\ UNCHANGED <<versions, versionsSeen>>
    BY <1>4, Zenon DEF AfterTickErr, End
  <2>2. QED
    BY <2>1 DEF Fresh, UpdatedFresh, StartsEmpty, JoinNotStranded
<1>5. CASE UNCHANGED state /\ phase' = "ended"
  BY <1>5 DEF state, Fresh, UpdatedFresh, StartsEmpty, JoinNotStranded
<1>6. CASE UNCHANGED <<state, phase, tasks>>
  BY <1>6 DEF state, Fresh, UpdatedFresh, StartsEmpty, JoinNotStranded
<1>7. CASE /\ UNCHANGED <<state, tasks>>
           /\ phase \in {"join", "scope"} /\ phase' \in {"scope", "apply"}
  BY <1>7 DEF state, Fresh, UpdatedFresh, StartsEmpty, JoinNotStranded
<1>8. CASE EnterEmpty \/ OutOfSteps \/ Done \/ Unwind \/ LeaveScope
  BY <1>5, <1>8
     DEF EnterEmpty, OutOfSteps, Done, Unwind, LeaveScope, End
<1>9. CASE JoinOk \/ JoinErr
  BY <1>6, <1>7, <1>9 DEF JoinOk, JoinErr, JoinsNext, Goto, control
<1>10. ASSUME NEW n \in Nodes, Node(n)
       PROVE  Fresh' /\ JoinNotStranded'
  BY <1>6, <1>10 DEF Node, Return, Fail, Panic, control
<1>11. CASE DropReceiver \/ UNCHANGED vars
  BY <1>6, <1>11 DEF DropReceiver, vars, control, execution
<1>12. QED
  BY <1>1, <1>2, <1>3, <1>4, <1>8, <1>9, <1>10, <1>11 DEF Next, Loop, Ended

-----------------------------------------------------------------------------
LEMMA TriggerInvariant == Spec => []TInv
<1>1. Init => Fresh /\ JoinNotStranded
  BY InitTriggers
<1>2. TypeOK /\ Fresh /\ JoinNotStranded /\ [Next]_vars
        => Fresh' /\ JoinNotStranded'
  BY StepTriggers DEF TInv
<1>3. QED
  BY <1>1, <1>2, TypeCorrect, PTL DEF Spec, TInv

(* A complete join is never left behind: when a superstep is planned its   *)
(* target is a candidate, while the superstep runs it is one of the tasks. *)
THEOREM JoinsFire == Spec => []JoinNotStranded
BY TriggerInvariant, PTL DEF TInv

(* The version gate and the trigger index of prepare_tasks agree.          *)
THEOREM TriggersKept == Spec => []NoTriggerLost
<1>1. TInv => NoTriggerLost
  BY FreshMeansReady DEF TInv, Fresh
<1>2. QED
  BY <1>1, TriggerInvariant, PTL

-----------------------------------------------------------------------------
(* What is planned is what runs.                                           *)

Planned == TasksAreCandidates /\ WritesReturned

LEMMA InitPlanned == Init => Planned
BY DEF Init, Planned, TasksAreCandidates, WritesReturned

LEMMA StepPlanned == TypeOK /\ NoTriggerLost /\ Planned /\ [Next]_vars => Planned'
<1> SUFFICES ASSUME TypeOK, NoTriggerLost, Planned, [Next]_vars PROVE Planned'
  OBVIOUS
<1> USE DEF Planned, TasksAreCandidates, WritesReturned, Candidates
<1>1. CASE Prepare
  <2>1. /\ tasks' = Ready /\ Ready = Candidates /\ Ready # {}
        /\ UNCHANGED updated
    BY <1>1 DEF Prepare, Submit, NoTriggerLost, state
  <2>2. \A n \in tasks' : thread'[n] = "running"
    BY <1>1, <2>1 DEF Prepare, Submit, Candidates
  <2>3. QED
    BY <2>1, <2>2
<1>2. CASE Done
  BY <1>2 DEF Done, Submit, End
<1>3. CASE Enter
  BY <1>3 DEF Enter, Goto, execution
<1>4. CASE AfterTick
  BY <1>4, AfterTickPhase DEF AfterTick, execution
<1>5. CASE EnterEmpty \/ OutOfSteps \/ Unwind \/ LeaveScope
  BY <1>5 DEF EnterEmpty, OutOfSteps, Unwind, LeaveScope, End, execution
<1>6. CASE AfterTickErr
  <2>1. phase' = "ended" /\ UNCHANGED execution
    BY <1>6, Zenon DEF AfterTickErr, End
  <2>2. QED
    BY <2>1 DEF execution
<1>7. CASE JoinOk \/ JoinErr
  <2>1. phase = "join" /\ UNCHANGED <<updated, tasks, thread, writes>>
    BY <1>7 DEF JoinOk, JoinErr, JoinsNext, state
  <2>2. QED
    BY <2>1
<1>8. ASSUME NEW n \in Nodes, Node(n)
      PROVE  Planned'
  <2>1. UNCHANGED <<phase, updated, tasks>>
    BY <1>8 DEF Node, Return, Fail, Panic, control, state
  <2>2. CASE Return(n)
    <3>1. PICK w \in Outputs[n] : writes' = [writes EXCEPT ![n] = w]
      BY <2>2 DEF Return
    <3>2. \A m \in Nodes : thread'[m] = "ok" =>
            IF m = n THEN writes'[m] = w
                     ELSE thread[m] = "ok" /\ writes'[m] = writes[m]
      BY <2>2, <3>1 DEF Return, TypeOK
    <3>3. QED
      BY <2>1, <3>1, <3>2 DEF TypeOK
  <2>3. CASE Fail(n) \/ Panic(n)
    <3>1. /\ UNCHANGED writes
          /\ \A m \in Nodes : thread'[m] = "ok" => thread[m] = "ok"
      BY <2>3 DEF Fail, Panic, TypeOK
    <3>2. QED
      BY <2>1, <3>1 DEF TypeOK
  <2>4. QED
    BY <1>8, <2>2, <2>3 DEF Node
<1>9. CASE DropReceiver \/ UNCHANGED vars
  BY <1>9 DEF DropReceiver, vars, control, state, execution
<1>10. QED
  BY <1>1, <1>2, <1>3, <1>4, <1>5, <1>6, <1>7, <1>8, <1>9
     DEF Next, Loop, Ended

LEMMA PlannedInvariant == Spec => []Planned
BY InitPlanned, StepPlanned, TypeCorrect, TriggersKept, PTL DEF Spec

-----------------------------------------------------------------------------
(* The order of merges.                                                    *)

(* The operands g are in the path order of their writers.                  *)
InOrder(c, g) ==
  \A i, j \in 1..Len(g) : i < j => Rank[Author(c, g[i])] < Rank[Author(c, g[j])]

LEMMA GroupsInOrder ==
  ASSUME TypeOK, \A n \in tasks : writes[n] \in Outputs[n],
         NEW c \in DOMAIN Grouped(tasks, writes), Attributed(c)
  PROVE  Grouped(tasks, writes)[c] \in Seq(Values) /\ InOrder(c, Grouped(tasks, writes)[c])
<1> DEFINE W == Writers(c, tasks, writes)
           order == PathOrder(W)
           g == Grouped(tasks, writes)[c]
<1>1. W \in SUBSET Nodes
  BY DEF Writers, TypeOK
<1>2. /\ order \in [1..Cardinality(W) -> W]
      /\ \A i, j \in 1..Cardinality(W) : i < j => Rank[order[i]] < Rank[order[j]]
  BY <1>1, PathOrderSorts
<1>3. g = [i \in DOMAIN order |-> writes[order[i]][c]]
  BY DEF Grouped
<1>4. ASSUME NEW n \in W
      PROVE  Author(c, writes[n][c]) = n
  <2>1. n \in Nodes /\ writes[n] \in Outputs[n] /\ c \in DOMAIN writes[n]
    BY <1>1 DEF Writers
  <2> DEFINE a == Author(c, writes[n][c])
  <2>2. \E m \in Nodes : \E w \in Outputs[m] : c \in DOMAIN w /\ w[c] = writes[n][c]
    BY <2>1
  <2>3. a \in Nodes /\ \E w \in Outputs[a] : c \in DOMAIN w /\ w[c] = writes[n][c]
    BY <2>2, Zenon DEF Author
  <2> HIDE DEF a
  <2>4. PICK w \in Outputs[a] : c \in DOMAIN w /\ w[c] = writes[n][c]
    BY <2>3
  <2>5. a = n
    BY <2>1, <2>3, <2>4, Zenon DEF Attributed
  <2>6. QED
    BY <2>5 DEF a
<1>5. g \in Seq(Values)
  BY GroupedType DEF TypeOK
<1> HIDE DEF W, order, g
<1>6. DOMAIN g = 1..Cardinality(W) /\ \A i \in DOMAIN g : g[i] = writes[order[i]][c]
  BY <1>2, <1>3
<1>7. \A i \in DOMAIN g : Author(c, g[i]) = order[i]
  BY <1>2, <1>4, <1>6
<1>8. DOMAIN g = 1..Len(g)
  BY <1>5
<1>9. InOrder(c, g)
  <2> SUFFICES ASSUME NEW i \in 1..Len(g), NEW j \in 1..Len(g), i < j
               PROVE  Rank[Author(c, g[i])] < Rank[Author(c, g[j])]
    BY DEF InOrder
  <2>1. Rank[order[i]] < Rank[order[j]]
    BY <1>2, <1>6, <1>8
  <2>2. Author(c, g[i]) = order[i] /\ Author(c, g[j]) = order[j]
    BY <1>7, <1>8
  <2>3. QED
    BY <2>1, <2>2
<1>10. QED
  BY <1>5, <1>9 DEF g

(* Operands that are added at the end of s in their order.                 *)
LEMMA AddedInOrder ==
  ASSUME NEW c, NEW s \in Seq(Values), NEW g \in Seq(Values), InOrder(c, g),
         NEW i \in 1..Len(s \o g), NEW j \in 1..Len(s \o g), Len(s) < i, i < j
  PROVE  Rank[Author(c, (s \o g)[i])] < Rank[Author(c, (s \o g)[j])]
<1>1. /\ i - Len(s) \in 1..Len(g) /\ (s \o g)[i] = g[i - Len(s)]
      /\ j - Len(s) \in 1..Len(g) /\ (s \o g)[j] = g[j - Len(s)]
      /\ i - Len(s) < j - Len(s)
  OBVIOUS
<1>2. QED
  BY <1>1 DEF InOrder

(* What a step may do to a reducer channel. *)
LEMMA ReducerStep ==
  ASSUME TypeOK, [Next]_vars, NEW c \in Channels, Kind[c] = "binop"
  PROVE  \/ channels'[c] = channels[c]
         \/ channels'[c] = <<>>
         \/ /\ phase = "apply" /\ c \in DOMAIN Grouped(tasks, writes)
            /\ channels'[c] = channels[c] \o Grouped(tasks, writes)[c]
<1> DEFINE chs == Consumed(channels, tasks)
           G == Grouped(tasks, writes)
<1>1. chs[c] = channels[c]
  BY DEF Consumed, Consume, IsBarrier
<1>2. \A g : UpdateResult(c, channels[c], g) = channels[c] \o g
  BY DEF UpdateResult
<1>3. CASE AfterTick
  <2>1. phase = "apply" /\ channels' = Stored(chs, G)
    BY <1>3, Zenon DEF AfterTick
  <2> HIDE DEF chs, G
  <2>2. \/ channels'[c] = channels[c]
        \/ c \in DOMAIN G /\ channels'[c] = channels[c] \o G[c]
    BY <1>1, <1>2, <2>1 DEF Stored
  <2>3. QED
    BY <2>1, <2>2 DEF G
<1>4. CASE AfterTickErr
  <2>1. phase = "apply" /\ \E f \in Failing(chs, G) : channels' = StoredUpTo(chs, G, f)
    BY <1>4, Zenon DEF AfterTickErr
  <2>2. PICK f \in Failing(chs, G) : channels' = StoredUpTo(chs, G, f)
    BY <2>1
  <2> HIDE DEF chs, G
  <2>3. CASE c = f
    <3>1. UpdateResidue(c, chs[c], G[c]) = <<>>
      BY DEF UpdateResidue
    <3>2. ~(Rank[c] < Rank[f])
      BY <2>3, GraphAssumption
    <3>3. QED
      BY <2>2, <2>3, <3>1, <3>2 DEF StoredUpTo
  <2>4. CASE c # f
    <3>1. \/ channels'[c] = channels[c]
          \/ c \in DOMAIN G /\ channels'[c] = channels[c] \o G[c]
      BY <1>1, <1>2, <2>2, <2>4 DEF StoredUpTo
    <3>2. QED
      BY <2>1, <3>1 DEF G
  <2>5. QED
    BY <2>3, <2>4
<1>5. CASE Enter
  <2>1. PICK w \in Inputs : channels' = Stored(channels, [d \in DOMAIN w |-> <<w[d]>>])
    BY <1>5, Zenon DEF Enter
  <2>2. c \notin DOMAIN w
    BY GraphAssumption
  <2>3. QED
    BY <2>1, <2>2 DEF Stored
<1>6. CASE UNCHANGED channels
  BY <1>6
<1>7. QED
  BY <1>3, <1>4, <1>5, <1>6
     DEF Next, Loop, EnterEmpty, OutOfSteps, Done, Prepare, JoinOk, JoinErr, Unwind,
         LeaveScope, Node, Return, Fail, Panic, DropReceiver, Ended, state, vars

(* A reducer combines the values of a superstep in the path order of their *)
(* writers, for every graph and any timing of the threads.                 *)
THEOREM MergesInOrder == Spec => MergedInPathOrder
<1>1. TypeOK /\ JoinOrder /\ Planned /\ [Next]_vars =>
        [\A c \in Channels : Kind[c] = "binop" /\ Attributed(c) =>
           \A i, j \in 1..Len(channels'[c]) :
             Len(channels[c]) < i /\ i < j =>
               Rank[Author(c, channels'[c][i])] < Rank[Author(c, channels'[c][j])]]_vars
  <2> SUFFICES ASSUME TypeOK, JoinOrder, Planned, [Next]_vars,
                      NEW c \in Channels, Kind[c] = "binop", Attributed(c),
                      NEW i \in 1..Len(channels'[c]), NEW j \in 1..Len(channels'[c]),
                      Len(channels[c]) < i, i < j
               PROVE  Rank[Author(c, channels'[c][i])] < Rank[Author(c, channels'[c][j])]
    OBVIOUS
  <2>1. channels[c] \in Seq(Values)
    BY DEF TypeOK, ChannelStates, IsBarrier
  <2>2. CASE channels'[c] = channels[c] \/ channels'[c] = <<>>
    BY <2>1, <2>2
  <2>3. CASE /\ phase = "apply" /\ c \in DOMAIN Grouped(tasks, writes)
             /\ channels'[c] = channels[c] \o Grouped(tasks, writes)[c]
    <3>1. \A n \in tasks : writes[n] \in Outputs[n]
      BY <2>3 DEF JoinOrder, Planned, WritesReturned
    <3>2. Grouped(tasks, writes)[c] \in Seq(Values) /\ InOrder(c, Grouped(tasks, writes)[c])
      BY <2>3, <3>1, GroupsInOrder
    <3>3. QED
      BY <2>1, <2>3, <3>2, AddedInOrder
  <2>4. QED
    BY <2>2, <2>3, ReducerStep
<1>2. QED
  BY <1>1, OrderInvariant, PlannedInvariant, PTL DEF Spec, MergedInPathOrder

-----------------------------------------------------------------------------
(* The threads of a superstep, and the work it leaves.                     *)

LEMMA InitScoped == Init => ThreadsScoped
BY DEF Init, ThreadsScoped

LEMMA StepScoped ==
  TypeOK /\ JoinOrder /\ ThreadsScoped /\ [Next]_vars => ThreadsScoped'
<1> SUFFICES ASSUME TypeOK, JoinOrder, ThreadsScoped, [Next]_vars
             PROVE  ThreadsScoped'
  OBVIOUS
<1> USE DEF End, Goto, state, execution
<1>1. CASE Enter \/ EnterEmpty \/ OutOfSteps
  BY <1>1 DEF Enter, EnterEmpty, OutOfSteps, ThreadsScoped
<1>2. CASE Prepare
  BY <1>2 DEF Prepare, Submit, ThreadsScoped
<1>3. CASE Done
  BY <1>3 DEF Done, Submit, ThreadsScoped
<1>4. CASE JoinOk
  <2>1. \E n \in Nodes :
          /\ JoinsNext(n)
          /\ joined' = joined \cup {n}
          /\ IF tasks = joined \cup {n} THEN Goto("apply") ELSE UNCHANGED control
          /\ thread[n] = "ok"
    BY <1>4 DEF JoinOk
  <2>2. PICK n \in Nodes : /\ JoinsNext(n)
                           /\ joined' = joined \cup {n}
                           /\ IF tasks = joined \cup {n} THEN Goto("apply")
                                                         ELSE UNCHANGED control
                           /\ thread[n] = "ok"
    BY <2>1
  <2>3. phase = "join" /\ UNCHANGED <<tasks, thread, failed>>
    BY <1>4, <2>2 DEF JoinOk, JoinsNext
  <2>4. CASE tasks = joined \cup {n}
    <3>1. \A m \in tasks : thread[m] = "ok"
      BY <2>2, <2>4 DEF JoinOrder
    <3>2. phase' = "apply"
      BY <2>2, <2>4
    <3>3. QED
      BY <2>3, <3>1, <3>2 DEF ThreadsScoped
  <2>5. CASE tasks # joined \cup {n}
    BY <2>2, <2>3, <2>5 DEF ThreadsScoped, control
  <2>6. QED
    BY <2>4, <2>5
<1>5. CASE JoinErr
  BY <1>5 DEF JoinErr, JoinsNext, ThreadsScoped
<1>6. CASE Unwind
  BY <1>6 DEF Unwind, ThreadsScoped
<1>7. CASE LeaveScope
  BY <1>7 DEF LeaveScope, ThreadsScoped
<1>8. CASE AfterTick \/ AfterTickErr
  <2>1. phase = "apply" /\ UNCHANGED <<tasks, thread, failed>>
    BY <1>8, Zenon DEF AfterTick, AfterTickErr
  <2>2. phase' # "scope"
    BY <1>8, AfterTickPhase, Zenon DEF AfterTickErr
  <2>3. QED
    BY <2>1, <2>2 DEF ThreadsScoped
<1>9. ASSUME NEW n \in Nodes, Node(n)
      PROVE  ThreadsScoped'
  <2>1. /\ thread[n] = "running"
        /\ UNCHANGED <<phase, tasks, failed>>
    BY <1>9 DEF Node, Return, Fail, Panic, control
  <2>2. \A m \in Nodes : m # n => thread'[m] = thread[m]
    BY <1>9 DEF Node, Return, Fail, Panic, TypeOK
  <2>3. \/ thread'[n] = "ok"
        \/ thread'[n] = "err" /\ n \in Faulty
        \/ thread'[n] = "panic" /\ n \in Panicky
    BY <1>9 DEF Node, Return, Fail, Panic, TypeOK
  <2>4. n \notin failed
    BY <2>1 DEF JoinOrder
  <2>5. failed \subseteq Nodes
    BY DEF TypeOK
  <2>6. QED
    BY <2>1, <2>2, <2>3, <2>4, <2>5 DEF ThreadsScoped
<1>10. CASE DropReceiver \/ UNCHANGED vars
  BY <1>10 DEF DropReceiver, vars, control, ThreadsScoped
<1>11. QED
  BY <1>1, <1>2, <1>3, <1>4, <1>5, <1>6, <1>7, <1>8, <1>9, <1>10
     DEF Next, Loop, Ended

LEMMA ScopedInvariant == Spec => []ThreadsScoped
BY InitScoped, StepScoped, OrderInvariant, PTL DEF Spec

-----------------------------------------------------------------------------
(* Termination.                                                            *)

Running == {n \in Nodes : thread[n] = "running"}
PerSuperstep == 2 * Cardinality(Nodes) + 3
StepsLeft == RecursionLimit + 2 - step

(* The sizes Remaining is made of.                                         *)
LEMMA Sizes ==
  ASSUME TypeOK
  PROVE  /\ Cardinality(Nodes) \in Nat
         /\ IsFiniteSet(Running) /\ Cardinality(Running) \in Nat
         /\ Cardinality(Running) <= Cardinality(Nodes)
         /\ IsFiniteSet(tasks) /\ IsFiniteSet(tasks \ joined)
         /\ Cardinality(tasks \ joined) \in Nat
         /\ Cardinality(tasks \ joined) <= Cardinality(Nodes)
<1>1. IsFiniteSet(Nodes) /\ Cardinality(Nodes) \in Nat
  BY GraphAssumption, FS_CardinalityType
<1>2. Running \subseteq Nodes /\ tasks \subseteq Nodes /\ tasks \ joined \subseteq Nodes
  BY DEF Running, TypeOK
<1>3. /\ IsFiniteSet(Running) /\ Cardinality(Running) <= Cardinality(Nodes)
      /\ IsFiniteSet(tasks)
      /\ IsFiniteSet(tasks \ joined)
      /\ Cardinality(tasks \ joined) <= Cardinality(Nodes)
  BY <1>1, <1>2, FS_Subset
<1>4. QED
  BY <1>1, <1>3, FS_CardinalityType

(* The supersteps that are left, as the product they are worth.            *)
LEMMA Products ==
  ASSUME NEW p \in Nat, NEW k \in Nat
  PROVE  k * p \in Nat /\ (k + 1) * p = k * p + p
OBVIOUS

(* Everything Remaining is made of is a natural number. *)
Sized ==
  /\ Remaining \in Nat /\ LeftOfSuperstep \in Nat
  /\ StepsLeft \in Nat /\ PerSuperstep \in Nat /\ StepsLeft * PerSuperstep \in Nat
  /\ Cardinality(Nodes) \in Nat
  /\ Cardinality(Running) \in Nat /\ Cardinality(Running) <= Cardinality(Nodes)
  /\ Cardinality(tasks \ joined) \in Nat
  /\ Cardinality(tasks \ joined) <= Cardinality(Nodes)

LEMMA RemainingSized == TypeOK /\ StepsBounded => Sized
<1> SUFFICES ASSUME TypeOK, StepsBounded
             PROVE  Sized
  OBVIOUS
<1>1. StepsLeft \in Nat
  BY GraphAssumption DEF TypeOK, StepsBounded, StepsLeft
<1>2. PerSuperstep \in Nat
  BY Sizes DEF PerSuperstep
<1>3. StepsLeft * PerSuperstep \in Nat
  BY <1>1, <1>2, Products
<1>4. LeftOfSuperstep \in Nat
  BY Sizes DEF LeftOfSuperstep, Running
<1>5. Remaining \in Nat
  BY <1>1, <1>2, <1>3, <1>4 DEF Remaining, StepsLeft, PerSuperstep
<1>6. QED
  BY <1>1, <1>2, <1>3, <1>4, <1>5, Sizes DEF Sized

LEMMA LessWork ==
  ASSUME NEW x, NEW l \in Nat, NEW k \in Nat, NEW r \in Nat, x \in Nat, k < l
  PROVE  x + (1 + k + r) < x + (1 + l + r) /\ x + 0 < x + (1 + l + r)
OBVIOUS

(* As long as the run goes on in the same superstep.                       *)
LEMMA SameSuperstep ==
  ASSUME Sized, Sized', step' = step, open' = open, phase # "ended",
         phase' # "ended" => LeftOfSuperstep' < LeftOfSuperstep
  PROVE  Remaining' < Remaining
<1> DEFINE rest == StepsLeft * PerSuperstep
<1>1. /\ rest \in Nat /\ LeftOfSuperstep \in Nat /\ LeftOfSuperstep' \in Nat
  BY DEF Sized
<1>3. Remaining = (IF open THEN 1 ELSE 0) + (1 + LeftOfSuperstep + rest)
  BY DEF Remaining, StepsLeft, PerSuperstep
<1>4. Remaining' = (IF open THEN 1 ELSE 0)
                   + (IF phase' = "ended" THEN 0 ELSE 1 + LeftOfSuperstep' + rest)
  BY DEF Remaining, StepsLeft, PerSuperstep
<1>5. Remaining \in Nat /\ Remaining' \in Nat
  BY DEF Sized
<1> HIDE DEF rest
<1> DEFINE receiver == IF open THEN 1 ELSE 0
<1>r. /\ receiver \in Nat /\ Remaining = receiver + (1 + LeftOfSuperstep + rest)
      /\ Remaining' = receiver
                      + (IF phase' = "ended" THEN 0 ELSE 1 + LeftOfSuperstep' + rest)
  BY <1>3, <1>4
<1> HIDE DEF receiver
<1>6. CASE phase' = "ended"
  BY <1>1, <1>r, <1>6
<1>7. CASE phase' # "ended"
  <2>1. LeftOfSuperstep' < LeftOfSuperstep
    BY <1>7
  <2>2. Remaining' = receiver + (1 + LeftOfSuperstep' + rest)
    BY <1>r, <1>7
  <2>3. QED
    BY <1>1, <1>r, <2>1, <2>2, LessWork
<1>8. QED
  BY <1>6, <1>7

LEMMA AfterTickCounts ==
  ASSUME Sized, Sized', AfterTick, TypeOK
  PROVE  Remaining' < Remaining
<1>1. phase = "apply" /\ step' = step + 1 /\ open' = open /\ phase' \in {"tick", "ended"}
  BY AfterTickPhase, Zenon DEF AfterTick, Continue, Goto, End
<1> DEFINE rest == StepsLeft' * PerSuperstep
<1>2. /\ StepsLeft \in Nat /\ StepsLeft' \in Nat /\ PerSuperstep \in Nat
      /\ step \in Nat /\ RecursionLimit \in Nat
  BY GraphAssumption DEF TypeOK, Sized
<1>3. StepsLeft = StepsLeft' + 1
  BY <1>1, <1>2 DEF StepsLeft
<1>4. rest \in Nat /\ StepsLeft * PerSuperstep = rest + PerSuperstep
  BY <1>2, <1>3, Products
<1>5. Remaining = (IF open THEN 1 ELSE 0) + (1 + 0 + (rest + PerSuperstep))
  BY <1>1, <1>4 DEF Remaining, LeftOfSuperstep, StepsLeft, PerSuperstep
<1>6. Remaining' = (IF open THEN 1 ELSE 0)
                   + (IF phase' = "ended" THEN 0
                      ELSE 1 + (2 * Cardinality(Nodes) + 2) + rest)
  BY <1>1 DEF Remaining, LeftOfSuperstep, StepsLeft, PerSuperstep
<1>7. PerSuperstep = 2 * Cardinality(Nodes) + 3 /\ Cardinality(Nodes) \in Nat
  BY DEF PerSuperstep, Sized
<1> HIDE DEF rest
<1>8. QED
  BY <1>1, <1>4, <1>5, <1>6, <1>7

LEMMA LoopCounts ==
  ASSUME TypeOK, JoinOrder, Sized, Sized', ThreadsScoped,
         Loop \/ (\E n \in Nodes : Node(n)) \/ DropReceiver
  PROVE  Remaining' < Remaining
<1>1. Remaining' \in Nat
  BY DEF Sized
<1>2. CASE Enter
  <2>1. phase = "enter" /\ phase' = "tick" /\ UNCHANGED <<step, open>>
    BY <1>2 DEF Enter, Goto
  <2>2. LeftOfSuperstep' < LeftOfSuperstep
    BY <2>1, Sizes DEF LeftOfSuperstep
  <2>3. QED
    BY <2>1, <2>2, SameSuperstep
<1>3. CASE EnterEmpty \/ OutOfSteps \/ Done \/ Unwind \/ LeaveScope \/ AfterTickErr
  <2>1. phase # "ended" /\ phase' = "ended"
    BY <1>3, Zenon DEF EnterEmpty, OutOfSteps, Done, Unwind, LeaveScope, AfterTickErr, End
  <2>2. UNCHANGED <<step, open>>
    BY <1>3, Zenon
       DEF EnterEmpty, OutOfSteps, Done, Unwind, LeaveScope, AfterTickErr, End, state
  <2>3. QED
    BY <2>1, <2>2, SameSuperstep
<1>4. CASE Prepare
  <2>1. phase = "tick" /\ phase' = "join" /\ UNCHANGED <<step, open>>
    BY <1>4 DEF Prepare, Goto, state
  <2>2. /\ Cardinality(Running') <= Cardinality(Nodes)
        /\ Cardinality((tasks \ joined)') <= Cardinality(Nodes)
        /\ Cardinality(Running') \in Nat /\ Cardinality((tasks \ joined)') \in Nat
    BY DEF Sized
  <2>3. LeftOfSuperstep = 2 * Cardinality(Nodes) + 2
    BY <2>1 DEF LeftOfSuperstep
  <2>4. LeftOfSuperstep' = Cardinality(Running') + Cardinality((tasks \ joined)') + 1
    BY <2>1 DEF LeftOfSuperstep, Running
  <2>5. LeftOfSuperstep' < LeftOfSuperstep
    BY <2>2, <2>3, <2>4, Sizes
  <2>6. QED
    BY <2>1, <2>5, SameSuperstep
<1>5. CASE JoinOk
  <2>1. PICK n \in Nodes : /\ JoinsNext(n)
                           /\ joined' = joined \cup {n}
                           /\ IF tasks = joined \cup {n} THEN Goto("apply")
                                                         ELSE UNCHANGED control
    BY <1>5 DEF JoinOk
  <2>2. /\ phase = "join" /\ n \in tasks \ joined
        /\ UNCHANGED <<step, open, tasks, thread>>
        /\ phase' \in {"join", "apply"}
    BY <1>5, <2>1 DEF JoinOk, JoinsNext, Goto, control, state
  <2>3. /\ (tasks \ joined)' = (tasks \ joined) \ {n}
        /\ Running' = Running
    BY <2>1, <2>2 DEF Running
  <2>4. Cardinality((tasks \ joined)') = Cardinality(tasks \ joined) - 1
    BY <2>2, <2>3, Sizes, FS_RemoveElement
  <2>5. LeftOfSuperstep = Cardinality(Running) + Cardinality(tasks \ joined) + 1
    BY <2>2 DEF LeftOfSuperstep, Running
  <2>6. LeftOfSuperstep' = IF phase' = "apply" THEN 0
                           ELSE Cardinality(Running) + Cardinality((tasks \ joined)') + 1
    BY <2>2, <2>3 DEF LeftOfSuperstep, Running
  <2>7. LeftOfSuperstep' < LeftOfSuperstep
    BY <2>4, <2>5, <2>6, Sizes
  <2>8. QED
    BY <2>2, <2>7, SameSuperstep
<1>6. CASE JoinErr
  <2>1. phase = "join" /\ phase' = "scope" /\ UNCHANGED <<step, open, tasks, thread, joined>>
    BY <1>6 DEF JoinErr, JoinsNext, Goto, state
  <2>2. LeftOfSuperstep' < LeftOfSuperstep
    BY <2>1, Sizes DEF LeftOfSuperstep, Running
  <2>3. QED
    BY <2>1, <2>2, SameSuperstep
<1>7. CASE AfterTick
  BY <1>7, AfterTickCounts
<1>8. ASSUME NEW n \in Nodes, Node(n)
      PROVE  Remaining' < Remaining
  <2>1. /\ thread[n] = "running"
        /\ UNCHANGED <<phase, open, step, tasks, joined>>
    BY <1>8 DEF Node, Return, Fail, Panic, control, state
  <2>2. phase \in {"join", "scope"}
    BY <2>1 DEF ThreadsScoped
  <2>3. /\ thread'[n] # "running"
        /\ \A m \in Nodes : m # n => thread'[m] = thread[m]
    BY <1>8 DEF Node, Return, Fail, Panic, TypeOK
  <2>4. Running' = Running \ {n} /\ n \in Running
    BY <2>1, <2>3 DEF Running
  <2>5. Cardinality(Running') = Cardinality(Running) - 1
    BY <2>4, Sizes, FS_RemoveElement
  <2>6. LeftOfSuperstep' < LeftOfSuperstep
    <3>1. LeftOfSuperstep = Cardinality(Running) + Cardinality(tasks \ joined)
                            + (IF phase = "join" THEN 1 ELSE 0)
      BY <2>2, Sizes DEF LeftOfSuperstep, Running
    <3>2. LeftOfSuperstep' = Cardinality(Running') + Cardinality(tasks \ joined)
                             + (IF phase = "join" THEN 1 ELSE 0)
      BY <2>1, <2>2, <2>5, Sizes DEF LeftOfSuperstep, Running
    <3>3. QED
      BY <2>5, <3>1, <3>2, Sizes
  <2>7. QED
    BY <2>1, <2>2, <2>6, SameSuperstep
<1>9. CASE DropReceiver
  <2>1. open /\ ~open' /\ UNCHANGED <<phase, step, tasks, thread, joined>>
    BY <1>9 DEF DropReceiver, state, execution
  <2>2. CASE phase = "ended"
    BY <2>1, <2>2 DEF Remaining
  <2>3. CASE phase # "ended"
    <3> DEFINE rest == 1 + LeftOfSuperstep + StepsLeft * PerSuperstep
    <3>1. rest \in Nat
      BY DEF Sized
    <3>2. LeftOfSuperstep' = LeftOfSuperstep
      BY <2>1 DEF LeftOfSuperstep
    <3>3. Remaining = 1 + rest /\ Remaining' = 0 + rest
      BY <2>1, <2>3, <3>2 DEF Remaining, StepsLeft, PerSuperstep
    <3> HIDE DEF rest
    <3>4. QED
      BY <3>1, <3>3
  <2>4. QED
    BY <2>2, <2>3
<1>10. QED
  BY <1>2, <1>3, <1>4, <1>5, <1>6, <1>7, <1>8, <1>9 DEF Loop

LEMMA StepCounts ==
  TypeOK /\ JoinOrder /\ Sized /\ Sized' /\ ThreadsScoped /\ [Next]_vars
    => [Remaining' \in Nat /\ Remaining' < Remaining]_vars
<1> SUFFICES ASSUME TypeOK, JoinOrder, Sized, Sized', ThreadsScoped,
                    Next, ~UNCHANGED vars
             PROVE  Remaining' < Remaining
  BY DEF Sized
<1>1. Loop \/ (\E n \in Nodes : Node(n)) \/ DropReceiver
  BY DEF Next, Ended
<1>2. QED
  BY <1>1, LoopCounts

LEMMA SizedInvariant == Spec => [](Sized /\ ThreadsScoped)
BY RemainingSized, OrderInvariant, LimitHolds, ScopedInvariant, PTL DEF Spec

(* No behaviour of a run is infinite, whatever the nodes return and however *)
(* they route: what remains to be done is a natural number that every step *)
(* makes smaller.                                                          *)
THEOREM RunsAreFinite == Spec => EveryStepCounts
BY StepCounts, SizedInvariant, OrderInvariant, PTL DEF Spec, EveryStepCounts
=============================================================================
