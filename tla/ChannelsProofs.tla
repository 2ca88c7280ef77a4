--------------------------- MODULE ChannelsProofs ---------------------------
(***************************************************************************)
(* Lemmas about the operators of Channels, for all channels and values,    *)
(* and about numbers: the smallest of a set, and sorting and selecting,    *)
(* which the models do by counting.                                        *)
(***************************************************************************)
EXTENDS Channels, Selections, SequenceTheorems, FiniteSetTheorems,
        FunctionTheorems, WellFoundedInduction, TLAPS

USE DEF ChannelsFit

LEMMA EmptyType ==
  ASSUME NEW c \in Channels
  PROVE  Empty(c) \in ChannelStates(c) /\ ~Available(c, Empty(c))
<1>1. CASE IsBarrier(c)
  BY <1>1, ChannelAssumption DEF Empty, ChannelStates, Available, IsBarrier
<1>2. CASE ~IsBarrier(c)
  BY <1>2 DEF Empty, ChannelStates, Available
<1>3. QED
  BY <1>1, <1>2

(* Restoring a channel from its own checkpoint changes nothing: the list   *)
(* of a barrier carries the names it had seen.                             *)
LEMMA CopyIsExact ==
  ASSUME NEW c, NEW s
  PROVE  Copied(c, s) = s
BY DEF Copied, FromCheckpoint, CheckpointOf

LEMMA ConsumeType ==
  ASSUME NEW c \in Channels, NEW s \in ChannelStates(c)
  PROVE  Consume(c, s) \in ChannelStates(c)
BY DEF Consume, ChannelStates, Available

(* Consuming a barrier leaves it incomplete, whatever it had seen.         *)
LEMMA ConsumeIncomplete ==
  ASSUME NEW c \in Channels, NEW s, IsBarrier(c)
  PROVE  ~Available(c, Consume(c, s))
BY ChannelAssumption DEF Consume, Available, IsBarrier

(* A successful update of a nonempty batch leaves a legal channel state.   *)
LEMMA UpdateType ==
  ASSUME NEW c \in Channels, NEW s \in ChannelStates(c),
         NEW vs \in Seq(Values), Len(vs) > 0, ~UpdateFails(c, s, vs)
  PROVE  UpdateResult(c, s, vs) \in ChannelStates(c)
<1>1. CASE Kind[c] = "barrier"
  <2>1. \A i \in DOMAIN vs : vs[i] \in Members[c]
    BY <1>1 DEF UpdateFails
  <2>2. Range(vs) \subseteq Members[c]
    BY <2>1 DEF Range
  <2>3. QED
    BY <1>1, <2>2 DEF UpdateResult, ChannelStates, IsBarrier
<1>2. CASE Kind[c] = "binop"
  <2>1. s \in Seq(Values) /\ UpdateResult(c, s, vs) = s \o vs
    BY <1>2 DEF UpdateResult, ChannelStates, IsBarrier
  <2>2. QED
    BY <1>2, <2>1, ConcatProperties DEF ChannelStates, IsBarrier
<1>3. CASE Kind[c] \notin {"barrier", "binop"}
  <2>1. vs[Len(vs)] \in Values
    BY ElementOfSeq
  <2>2. <<vs[Len(vs)]>> \in Seq(Values)
    BY <2>1
  <2>3. QED
    BY <1>3, <2>2 DEF UpdateResult, ChannelStates, IsBarrier
<1>4. QED
  BY <1>1, <1>2, <1>3

(* So does a failed one.                                                   *)
LEMMA ResidueType ==
  ASSUME NEW c \in Channels, NEW s \in ChannelStates(c),
         NEW vs \in Seq(Values)
  PROVE  UpdateResidue(c, s, vs) \in ChannelStates(c)
<1>1. CASE Kind[c] = "barrier"
  <2> DEFINE Good == {j \in DOMAIN vs : \A k \in 1..j : vs[k] \in Members[c]}
  <2>1. \A i \in Good : vs[i] \in Members[c]
    BY LenProperties
  <2>2. UpdateResidue(c, s, vs) = s \cup {vs[i] : i \in Good}
    BY <1>1 DEF UpdateResidue
  <2>3. QED
    BY <1>1, <2>1, <2>2 DEF ChannelStates, IsBarrier
<1>2. CASE Kind[c] # "barrier"
  BY <1>2 DEF UpdateResidue, ChannelStates, IsBarrier
<1>3. QED
  BY <1>1, <1>2

(* A barrier that an update completes reports a change, unless it was      *)
(* complete before: completion is never silent.                            *)
LEMMA CompletionReported ==
  ASSUME NEW c \in Channels, NEW s, NEW vs, IsBarrier(c),
         ~Available(c, s), Available(c, UpdateResult(c, s, vs))
  PROVE  UpdateChanges(c, s, vs)
BY DEF UpdateChanges, UpdateResult, Available, IsBarrier

(* A channel that is no barrier is available after any update.             *)
LEMMA UpdatedAvailable ==
  ASSUME NEW c \in Channels, ~IsBarrier(c), NEW s \in ChannelStates(c),
         NEW vs \in Seq(Values), Len(vs) > 0
  PROVE  UpdateChanges(c, s, vs) /\ Available(c, UpdateResult(c, s, vs))
<1>1. UpdateChanges(c, s, vs)
  BY DEF UpdateChanges
<1>2. CASE Kind[c] = "binop"
  <2>1. UpdateResult(c, s, vs) = s \o vs /\ s \in Seq(Values)
    BY <1>2 DEF UpdateResult, ChannelStates
  <2>2. Len(s \o vs) = Len(s) + Len(vs) /\ Len(s) \in Nat /\ Len(vs) \in Nat
    BY <2>1
  <2>3. s \o vs # <<>>
    BY <2>2
  <2>4. QED
    BY <1>1, <2>1, <2>3 DEF Available
<1>3. CASE Kind[c] # "binop"
  BY <1>1, <1>3 DEF UpdateResult, Available, IsBarrier
<1>4. QED
  BY <1>2, <1>3

-----------------------------------------------------------------------------
LessThan == {ss \in Nat \X Nat : ss[1] < ss[2]}

LEMMA LessThanWellFounded == IsWellFoundedOn(LessThan, Nat)
BY NatLessThanWellFounded DEF OpToRel, LessThan

LEMMA SmallestNumber ==
  ASSUME NEW T \in SUBSET Nat, T # {}
  PROVE  \E x \in T : \A y \in T : x <= y
<1>1. PICK x \in T : \A y \in T : ~(<<y, x>> \in LessThan)
  <2>1. T \subseteq Nat
    OBVIOUS
  <2>2. QED
    BY <2>1, LessThanWellFounded, WFMin
<1>2. ASSUME NEW y \in T PROVE x <= y
  <2>1. x \in Nat /\ y \in Nat /\ ~(<<y, x>> \in LessThan)
    BY <1>1
  <2>2. y < x => <<y, x>> \in LessThan
    BY <2>1 DEF LessThan
  <2>3. QED
    BY <2>1, <2>2
<1>3. QED
  BY <1>2

-----------------------------------------------------------------------------
(* The place of n among the members of S, in the order of f.               *)
Place(S, f, n) == Cardinality({m \in S : f[m] <= f[n]})

(* Places are numbers in 1..Cardinality(S), ordered as f orders, and every *)
(* number is the place of one member.                                      *)
PlacesOrder(S, f) ==
  /\ Cardinality(S) \in Nat
  /\ \A n \in S : Place(S, f, n) \in 1..Cardinality(S)
  /\ \A m, n \in S : f[m] < f[n] => Place(S, f, m) < Place(S, f, n)
  /\ \A m, n \in S : Place(S, f, m) = Place(S, f, n) => m = n
  /\ \A i \in 1..Cardinality(S) : \E n \in S : Place(S, f, n) = i

(* Counting sorts, if f does not give two members the same rank.           *)
LEMMA CountingSorts ==
  ASSUME NEW S, IsFiniteSet(S), NEW f, \A n \in S : f[n] \in Nat,
         \A m, n \in S : f[m] = f[n] => m = n
  PROVE  PlacesOrder(S, f)
<1> DEFINE K == Cardinality(S)
           Below(n) == {m \in S : f[m] <= f[n]}
           pos == [n \in S |-> Place(S, f, n)]
<1>1. K \in Nat
  BY FS_CardinalityType
<1>2. ASSUME NEW n \in S
      PROVE  /\ IsFiniteSet(Below(n))
             /\ Cardinality(Below(n)) \in Nat
             /\ Cardinality(Below(n)) <= K
             /\ Cardinality(Below(n)) # 0
  <2>1. n \in Below(n) /\ Below(n) \in SUBSET S
    OBVIOUS
  <2> HIDE DEF Below
  <2>2. QED
    BY <2>1, FS_Subset, FS_CardinalityType, FS_EmptySet
<1>3. ASSUME NEW m \in S, NEW n \in S, f[m] < f[n]
      PROVE  Cardinality(Below(m)) < Cardinality(Below(n))
  <2>1. Below(m) \in SUBSET Below(n)
    BY <1>3
  <2>2. n \in Below(n) /\ n \notin Below(m)
    BY <1>3
  <2>3. /\ Cardinality(Below(m)) <= Cardinality(Below(n))
        /\ Cardinality(Below(n)) # Cardinality(Below(m))
    BY <1>2, <2>1, <2>2, FS_Subset
  <2>4. QED
    BY <1>2, <2>3
<1>4. /\ \A n \in S : Place(S, f, n) = Cardinality(Below(n))
      /\ \A n \in S : pos[n] = Place(S, f, n)
  BY DEF Place
<1> HIDE DEF Below
<1>5. \A n \in S : Place(S, f, n) \in 1..K
  BY <1>1, <1>2, <1>4
<1>6. \A m, n \in S : f[m] < f[n] => Place(S, f, m) < Place(S, f, n)
  BY <1>3, <1>4
<1>7. \A m, n \in S : Place(S, f, m) = Place(S, f, n) => m = n
  <2> SUFFICES ASSUME NEW m \in S, NEW n \in S, m # n,
                      Place(S, f, m) = Place(S, f, n)
               PROVE  FALSE
    OBVIOUS
  <2>1. f[m] # f[n] /\ f[m] \in Nat /\ f[n] \in Nat
    OBVIOUS
  <2>2. f[m] < f[n] \/ f[n] < f[m]
    BY <2>1
  <2>3. Place(S, f, m) \in Nat
    BY <1>1, <1>5
  <2>4. QED
    BY <1>6, <2>2, <2>3
<1>8. pos \in Surjection(S, 1..K)
  <2>1. pos \in Injection(S, 1..K)
    BY <1>4, <1>5, <1>7 DEF Injection, IsInjective
  <2>2. IsFiniteSet(1..K) /\ Cardinality(1..K) = K
    BY <1>1, FS_Interval
  <2>3. QED
    BY <2>1, <2>2, FS_Injection
<1>9. \A i \in 1..K : \E n \in S : Place(S, f, n) = i
  BY <1>4, <1>8 DEF Surjection
<1>10. QED
  BY <1>1, <1>5, <1>6, <1>7, <1>9 DEF PlacesOrder

(* What is selected of a sequence is a sequence of selected elements, all  *)
(* of them, and in the order in which they were.                           *)
LEMMA SelectedElements ==
  ASSUME NEW s, NEW len \in Nat, NEW K \in SUBSET (1..len)
  PROVE  /\ Cardinality(K) \in Nat
         /\ Selected(s, K) \in [1..Cardinality(K) -> {s[k] : k \in K}]
         /\ \A k \in K : \E i \in 1..Cardinality(K) : Selected(s, K)[i] = s[k]
         /\ K # {} => Cardinality(K) > 0
<1> DEFINE n == Cardinality(K)
           at(i) == CHOOSE k \in K : Cardinality({j \in K : j <= k}) = i
<1> PICK f : f = [k \in K |-> k]
  OBVIOUS
<1>1. IsFiniteSet(K)
  <2>1. IsFiniteSet(1..len)
    BY FS_Interval
  <2>2. QED
    BY <2>1, FS_Subset
<1>2. /\ n \in Nat
      /\ \A k \in K : Place(K, f, k) \in 1..n
      /\ \A j, k \in K : Place(K, f, j) = Place(K, f, k) => j = k
      /\ \A i \in 1..n : \E k \in K : Place(K, f, k) = i
  <2>1. \A k \in K : f[k] \in Nat
    OBVIOUS
  <2>2. \A j, k \in K : f[j] = f[k] => j = k
    OBVIOUS
  <2>3. PlacesOrder(K, f)
    BY <1>1, <2>1, <2>2, CountingSorts
  <2>4. QED
    BY <2>3 DEF PlacesOrder
<1>3. \A k \in K : Place(K, f, k) = Cardinality({j \in K : j <= k})
  <2> SUFFICES ASSUME NEW k \in K
               PROVE  Place(K, f, k) = Cardinality({j \in K : j <= k})
    OBVIOUS
  <2>1. {j \in K : f[j] <= f[k]} = {j \in K : j <= k}
    OBVIOUS
  <2>2. QED
    BY <2>1, Zenon DEF Place
<1>4. ASSUME NEW i \in 1..n
      PROVE  at(i) \in K /\ Place(K, f, at(i)) = i
  <2>1. \E k \in K : Cardinality({j \in K : j <= k}) = i
    BY <1>2, <1>3
  <2>2. at(i) \in K /\ Cardinality({j \in K : j <= at(i)}) = i
    BY <2>1, Zenon
  <2>3. QED
    BY <1>3, <2>2
<1>5. Selected(s, K) = [i \in 1..n |-> s[at(i)]]
  BY DEF Selected
<1> HIDE DEF at
<1>6. \A k \in K : at(Place(K, f, k)) = k
  BY <1>2, <1>4
<1>7. Selected(s, K) \in [1..n -> {s[k] : k \in K}]
  BY <1>4, <1>5
<1>8. \A k \in K : \E i \in 1..n : Selected(s, K)[i] = s[k]
  BY <1>2, <1>5, <1>6
<1>9. K # {} => n > 0
  BY <1>1, <1>2, FS_EmptySet
<1>10. QED
  BY <1>2, <1>7, <1>8, <1>9

=============================================================================
