------------------------------ MODULE GraphRun ------------------------------
(***************************************************************************)
(* A run of a compiled graph with its node functions, branch functions and *)
(* writers: StreamRun in which a task reads the state when it is prepared  *)
(* (proc_input, src/src/pregel/task.rs:261) and what it writes is what its *)
(* writers make of it (execute_task_inner, task.rs:232) instead of any     *)
(* member of Outputs[n].                                                   *)
(*                                                                         *)
(* A node function is a relation: Returns(n, state, o) says that o may be  *)
(* its outcome on that state. A branch function is a function of the       *)
(* state.                                                                  *)
(***************************************************************************)
EXTENDS StreamRun, GraphProgram

CONSTANT Returns(_, _, _)    \* see above

(* The compiled graph is an instance of what PregelLoop assumes.           *)
ASSUME GraphRunAssumption == WritersFit

VARIABLE
  input   \* PregelExecutableTask.input of every task of the superstep

gvars == <<svars, input>>

NoInput == [c \in {} |-> c]

(* proc_input, when the channels are chs: the available ones of those the  *)
(* node reads.                                                             *)
Read(n, chs) == [c \in {d \in Reads[n] : Available(d, chs[d])} |-> chs[c]]

GInit == SInit /\ input = [n \in Nodes |-> NoInput]

(* prepare_task reads for every new task, before any of them starts; the   *)
(* other steps of the main loop leave the inputs alone.                    *)
GTask ==
  /\ Task
  /\ input' = IF phase = "tick" /\ phase' = "join"
              THEN [n \in Nodes |-> IF n \in tasks' THEN Read(n, channels) ELSE NoInput]
              ELSE input

(* execute_task_inner, once the function of n has had the outcome o ...    *)
Finishes(n, o, how) ==
  /\ thread[n] = "running"
  /\ Returns(n, input[n], o)
  /\ thread' = [thread EXCEPT ![n] = how]
  /\ UNCHANGED <<control, state, tasks, joined, failed, stream, input>>

GReturn(n) ==
  \E o \in NodeOutcomes[n] :
    /\ Finishes(n, o, "ok")
    /\ Assembles(n, input[n], o)
    /\ writes' = [writes EXCEPT ![n] = Assembled(n, input[n], o)]

(* ... which may be Err, a Command, an update that is no object, or come   *)
(* with a branch that has lost its way, ...                                *)
GFail(n) ==
  \E o \in NodeOutcomes[n] :
    /\ Finishes(n, o, "err")
    /\ o.is # "panic" /\ ~Assembles(n, input[n], o)
    /\ UNCHANGED writes

(* ... or a panic.                                                         *)
GPanic(n) ==
  \E o \in NodeOutcomes[n] :
    /\ Finishes(n, o, "panic")
    /\ o.is = "panic"
    /\ UNCHANGED writes

GNode(n) == GReturn(n) \/ GFail(n) \/ GPanic(n)
GCaller == Caller /\ UNCHANGED input

GNext ==
  \/ GTask
  \/ \E n \in Nodes : GNode(n)
  \/ GCaller
  \/ Returned /\ UNCHANGED input

GSpec == GInit /\ [][GNext]_gvars

(* As in SFairSpec; a caller of stream drains it too, here.                *)
GFairSpec ==
  /\ GSpec
  /\ WF_gvars(GTask)
  /\ \A n \in Nodes : WF_gvars(GNode(n))
  /\ WF_gvars(GCaller)

-----------------------------------------------------------------------------
(* Which nodes a superstep signals is decided by the state before it, and  *)
(* by nothing else: not by the updates of the same superstep, a node's own *)
(* included, nor by the order in which the threads have run (task.rs:256); *)
(* and no superstep is applied in which a branch has chosen a key that is  *)
(* not among its ends.                                                     *)
RoutesFollowState ==
  [][phase = "apply" /\ step' = step + 1 =>
       /\ \A n \in tasks : Lost(n, Read(n, channels)) = {}
       /\ \A c \in Channels \ StateChannels :
            ~IsBarrier(c) =>
              (c \in updated' <=>
                 \E n \in tasks :
                   \/ c \in Signals[n]
                   \/ \E r \in Routes[n] \ Silent(n, Read(n, channels)) :
                        c \in r.to[Path(n, r.name, Read(n, channels))])]_gvars

=============================================================================
