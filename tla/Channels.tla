------------------------------ MODULE Channels ------------------------------
(***************************************************************************)
(* The four channel kinds of src/src/channel: LastValue, the reducer       *)
(* channel BinaryOperatorAggregate, EphemeralValue and NamedBarrierValue,  *)
(* as operators on a channel's state.                                      *)
(*                                                                         *)
(* State of a channel:                                                     *)
(*   last, ephemeral   <<>> (None) or <<v>> (Some(v))                      *)
(*   binop             <<>> (None) or the operands combined so far, in the *)
(*                     order in which the reducer combined them: the       *)
(*                     reducer is an arbitrary function, so the term       *)
(*                     ((v1 + v2) + v3) is kept as <<v1, v2, v3>>          *)
(*   barrier           the set of names seen so far                        *)
(*                                                                         *)
(* EphemeralValue's guard flag is left out: every EphemeralValue that the  *)
(* compiler creates has guard = false (src/src/graph/compiled.rs:68,88).   *)
(***************************************************************************)
EXTENDS Naturals, Sequences, Functions

CONSTANTS
  Channels,   \* names of the channels of the graph
  Values,     \* values written to channels; barrier tokens are among them
  Kind,       \* Kind[c]: which of the four channel types c is
  Members,    \* Members[c]: the names a barrier channel c waits for
  Rejected    \* right operands on which a reducer returns Err

ChannelKinds == {"last", "binop", "ephemeral", "barrier"}

(* A barrier waits for at least one name: attach_edge creates barriers     *)
(* only for two or more start nodes.                                       *)
ChannelsFit ==
  /\ Kind \in [Channels -> ChannelKinds]
  /\ Members \in [Channels -> SUBSET Values]
  /\ \A c \in Channels : Kind[c] = "barrier" => Members[c] # {}
  /\ Rejected \subseteq Values

ASSUME ChannelAssumption == ChannelsFit

IsBarrier(c) == Kind[c] = "barrier"

(* The states of channel c. *)
ChannelStates(c) == IF IsBarrier(c) THEN SUBSET Members[c] ELSE Seq(Values)

(* A fresh channel: None, or a barrier that has seen no name. *)
Empty(c) == IF IsBarrier(c) THEN {} ELSE <<>>

(* checkpoint() and from_checkpoint(): the value of the channel, or none;  *)
(* of a barrier the list of the names it has seen.                         *)
CheckpointOf(c, s) == IF IsBarrier(c) THEN [list |-> s] ELSE s
FromCheckpoint(c, cp) == IF IsBarrier(c) THEN cp.list ELSE cp

(* copy() *)
Copied(c, s) == FromCheckpoint(c, CheckpointOf(c, s))

(* is_available() *)
Available(c, s) == IF IsBarrier(c) THEN s = Members[c] ELSE s # <<>>

(* Does update(vs) return Err on a channel c in state s? *)
UpdateFails(c, s, vs) ==
  \/ /\ Kind[c] = "last"
     /\ Len(vs) > 1                       \* MultipleUpdatesWithoutReducer
  \/ /\ Kind[c] = "binop"                 \* the reducer's own error
     /\ \E i \in DOMAIN vs : vs[i] \in Rejected /\ (i > 1 \/ s # <<>>)
  \/ /\ Kind[c] = "barrier"               \* InvalidBarrierValue
     /\ \E i \in DOMAIN vs : vs[i] \notin Members[c]

(* Variant: a reducer channel keeps the last operand, as LastValue does.   *)
UpdateResultLast(c, s, vs) ==
  IF Kind[c] = "barrier" THEN s \cup Range(vs) ELSE <<vs[Len(vs)]>>

(* The state after a successful update(vs), vs nonempty. *)
UpdateResult(c, s, vs) ==
  CASE Kind[c] = "barrier" -> s \cup Range(vs)
    [] Kind[c] = "binop"   -> s \o vs
    [] OTHER               -> <<vs[Len(vs)]>>

(* The state an update(vs) that returned Err leaves behind: LastValue is   *)
(* untouched, a reducer channel has lost the value it took out, a barrier  *)
(* keeps the names inserted before the invalid one.                        *)
UpdateResidue(c, s, vs) ==
  CASE Kind[c] = "binop"   -> <<>>
    [] Kind[c] = "barrier" ->
         s \cup {vs[i] : i \in {j \in DOMAIN vs :
                                  \A k \in 1..j : vs[k] \in Members[c]}}
    [] OTHER               -> s

(* Does a successful update(vs) report a change? A barrier reports whether *)
(* it saw a new name, the others every nonempty update.                    *)
UpdateChanges(c, s, vs) == IsBarrier(c) => ~(Range(vs) \subseteq s)

(* Variant: a barrier without a consume() of its own. *)
ConsumeNothing(c, s) == s

(* consume(): a complete barrier starts over, the other channels inherit   *)
(* the default that does nothing.                                          *)
Consume(c, s) == IF IsBarrier(c) /\ Available(c, s) THEN {} ELSE s

=============================================================================
