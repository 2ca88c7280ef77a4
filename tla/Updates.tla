------------------------------ MODULE Updates -------------------------------
(***************************************************************************)
(* apply_writes (src/src/pregel/loops.rs) as operators on the channels of  *)
(* a run: triggers are consumed, the writes of the tasks grouped by        *)
(* channel in path order, and each group applied to its channel.           *)
(***************************************************************************)
EXTENDS Channels, FiniteSets

CONSTANTS
  Nodes,      \* node names
  Triggers,   \* Triggers[n]: the channels node n subscribes to
  Rank        \* lexicographic order of node names and channel names

(* Variant: sorted the other way round. *)
PathOrderReversed(S) ==
  [i \in 1..Cardinality(S) |->
     CHOOSE n \in S : Cardinality({m \in S : Rank[m] >= Rank[n]}) = i]

(* The members of S sorted by path, as both execute_pending_tasks and      *)
(* apply_writes sort tasks: the path of a task is <<"pull", name>>.        *)
PathOrder(S) ==
  [i \in 1..Cardinality(S) |->
     CHOOSE n \in S : Cardinality({m \in S : Rank[m] <= Rank[n]}) = i]

(* The tasks of T that have written channel c, if ws is what each wrote.   *)
Writers(c, T, ws) == {n \in T : c \in DOMAIN ws[n]}

(* pending_writes_by_channel: for every known channel written by a task of *)
(* T, the values in path order.                                            *)
Grouped(T, ws) ==
  [c \in {d \in Channels : Writers(d, T, ws) # {}} |->
     LET order == PathOrder(Writers(c, T, ws))
     IN  [i \in DOMAIN order |-> ws[order[i]][c]]]

(* Every distinct trigger of the tasks in T is consumed, before any write. *)
Consumed(chs, T) ==
  [c \in Channels |-> IF \E n \in T : c \in Triggers[n]
                      THEN Consume(c, chs[c]) ELSE chs[c]]

(* The channels on which update() returns Err, given the groups G. *)
Failing(chs, G) == {c \in DOMAIN G : UpdateFails(c, chs[c], G[c])}

Stored(chs, G) ==
  [c \in Channels |-> IF c \in DOMAIN G THEN UpdateResult(c, chs[c], G[c])
                                        ELSE chs[c]]

(* The groups are applied in the order of the channel names and the first  *)
(* error ends apply_writes: f is updated badly, those after f not at all.  *)
StoredUpTo(chs, G, f) ==
  [c \in Channels |->
     CASE c = f                                    -> UpdateResidue(c, chs[c], G[c])
       [] c \in DOMAIN G /\ Rank[c] < Rank[f]      -> UpdateResult(c, chs[c], G[c])
       [] OTHER                                    -> chs[c]]

(* Variant: an update that changes a channel is reported even if the        *)
(* channel is not available.                                               *)
ChangedUnavailable(chs, G) ==
  {c \in DOMAIN G : UpdateChanges(c, chs[c], G[c])}

(* The set apply_writes returns: changed and available. *)
Changed(chs, G) ==
  {c \in DOMAIN G : /\ UpdateChanges(c, chs[c], G[c])
                    /\ Available(c, UpdateResult(c, chs[c], G[c]))}

=============================================================================
