------------------------- MODULE LoopRefinesAtomic --------------------------
(***************************************************************************)
(* PregelLoop implements AtomicRun: the threads of a superstep, the order  *)
(* in which they end and are joined, and the versions that gate the nodes  *)
(* make no difference to what a run computes, nor to the error it ends in. *)
(* The two share most of their state by name. A node has answered when its *)
(* thread has ended.                                                       *)
(***************************************************************************)
EXTENDS PregelLoop

atomicStatus ==
  IF phase = "enter"      THEN "new"
  ELSE IF phase = "ended" THEN "ended"
  ELSE "running"

Answered ==
  IF phase \in {"join", "scope", "apply"}
  THEN {n \in tasks : thread[n] # "running"} ELSE {}
atomicAnswers ==
  [n \in Answered |->
     [how   |-> thread[n],
      wrote |-> IF thread[n] = "ok" THEN writes[n] ELSE NoWrites]]

Atomic == INSTANCE AtomicRun WITH status <- atomicStatus, answers <- atomicAnswers

(* Every run is one whose supersteps are atomic: the values of the         *)
(* channels, the nodes that run and the way the run ends follow from what  *)
(* the nodes of each superstep answer, and from nothing else: no order of  *)
(* threads, no version and no join has a part in it.                       *)
RefinesAtomic == Atomic!ASpec

=============================================================================
