----------------------------- MODULE Superstep ------------------------------
(***************************************************************************)
(* What a run of a compiled graph promises, without channels, versions or  *)
(* threads: bulk-synchronous rounds over a set of active nodes.            *)
(*                                                                         *)
(* In a round every active node fires a set of triggers. A plain trigger   *)
(* activates its subscribers for the next round. A join trigger counts the *)
(* arrivals of its starts over as many rounds as it takes and activates    *)
(* its target in the round after the one in which the last start arrived;  *)
(* it then starts over. Nothing else activates a node, and an activated    *)
(* node runs in the very next round or the run is aborted.                 *)
(***************************************************************************)
EXTENDS Naturals

CONSTANTS
  Nodes,
  TriggerNames,    \* plain triggers and joins
  Joins,           \* the joins among them
  Starts,          \* Starts[j]: the nodes join j waits for
  Triggers,        \* Triggers[n]: the triggers that activate node n
  Fires,           \* Fires[n]: the sets of triggers node n may fire
  MaxRounds

VARIABLES
  status,    \* "new", "running", "finished" or "aborted"
  active,    \* the nodes that run in the next round
  arrived,   \* arrived[j]: the starts that arrived since j last activated
  round      \* number of rounds completed

svars == <<status, active, arrived, round>>

Complete(j) == arrived[j] = Starts[j]
Subscribers(S) == {n \in Nodes : Triggers[n] \cap S # {}}

SInit ==
  /\ status = "new"
  /\ active = {}
  /\ arrived = [j \in Joins |-> {}]
  /\ round = 0

(* The input fires plain triggers. *)
Start ==
  /\ status = "new"
  /\ \E S \in SUBSET (TriggerNames \ Joins) :
       S # {} /\ active' = Subscribers(S)
  /\ status' = "running"
  /\ UNCHANGED <<arrived, round>>

(* All active nodes run, as one step. *)
Round ==
  /\ status = "running"
  /\ active # {}
  /\ round < MaxRounds
  /\ \E fire \in [active -> UNION {Fires[n] : n \in active}] :
       /\ \A n \in active : fire[n] \in Fires[n]
       /\ arrived' =
            [j \in Joins |->
               (IF Complete(j) /\ \E n \in active : j \in Triggers[n]
                THEN {} ELSE arrived[j])
               \cup {n \in active : j \in fire[n]}]
       /\ active' =
            Subscribers(  ((UNION {fire[n] : n \in active}) \ Joins)
                        \cup {j \in Joins : arrived'[j] = Starts[j]})
  /\ round' = round + 1
  /\ status' \in {"running", "aborted"}

(* A run is finished only when no node is active, so that no join is       *)
(* complete either.                                                        *)
Finish ==
  /\ status = "running"
  /\ active = {}
  /\ status' = "finished"
  /\ UNCHANGED <<active, arrived, round>>

(* Errors, panics, the recursion limit and a dropped receiver. *)
Abort ==
  /\ status \in {"new", "running"}
  /\ status' = "aborted"
  /\ arrived' \in [Joins -> SUBSET Nodes]
  /\ UNCHANGED <<active, round>>

SNext == Start \/ Round \/ Finish \/ Abort

SSpec == SInit /\ [][SNext]_svars

=============================================================================
