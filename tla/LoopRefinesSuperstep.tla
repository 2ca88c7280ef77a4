------------------------ MODULE LoopRefinesSuperstep ------------------------
(***************************************************************************)
(* PregelLoop implements Superstep. The set of active nodes is nowhere in  *)
(* the loop's state: before a superstep it is what the trigger index makes *)
(* of updated_channels, during the superstep it is the set of tasks. The   *)
(* arrivals of a join are the names its barrier channel has seen.          *)
(***************************************************************************)
EXTENDS PregelLoop

BarrierChannels == {c \in Channels : IsBarrier(c)}
TriggerChannels == UNION {Triggers[n] : n \in Nodes}

ASSUME TokenAssumption == TokensFit

absStatus ==
  IF phase = "enter"        THEN "new"
  ELSE IF phase # "ended"   THEN "running"
  ELSE IF outcome = "done"  THEN "finished"
  ELSE "aborted"

absActive == IF phase \in {"join", "scope", "apply"} THEN tasks ELSE Candidates
absArrived == [c \in BarrierChannels |-> channels[c]]

Abstract == INSTANCE Superstep WITH
  TriggerNames <- TriggerChannels,
  Joins        <- BarrierChannels,
  Starts       <- Members,
  Fires        <- [n \in Nodes |-> {DOMAIN w \cap TriggerChannels : w \in Outputs[n]}],
  MaxRounds    <- RecursionLimit + 2,
  status       <- absStatus,
  active       <- absActive,
  arrived      <- absArrived,
  round        <- step

(* Every run is a bulk-synchronous execution: exactly the nodes activated  *)
(* by the previous superstep run, joins count arrivals across supersteps   *)
(* and fire once per full set, and a run reported as done has nothing left *)
(* to do.                                                                  *)
RefinesSuperstep == Abstract!SSpec

=============================================================================
