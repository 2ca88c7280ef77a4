----------------------------- MODULE AtomicRun ------------------------------
(***************************************************************************)
(* What a run without checkpointer computes, without threads and scopes,   *)
(* joins, versions and records of what a node has seen. A node runs        *)
(* exactly if the superstep before has updated a channel it subscribes to; *)
(* the nodes of a superstep answer in any order; and when all of them have *)
(* answered, what the superstep does to the channels, or the error the run *)
(* ends with, is a function of the answers.                                *)
(***************************************************************************)
EXTENDS Program

VARIABLES
  status,     \* "new", "running" or "ended"
  outcome,    \* how the run ended
  error,      \* what went wrong, and where
  step,       \* supersteps completed
  channels,   \* the values of the channels
  updated,    \* the channels the last superstep has updated
  answers     \* what the nodes of this superstep have answered so far

result == <<status, outcome, error>>
store == <<step, channels, updated>>
avars == <<result, store, answers>>

Nothing == [n \in {} |-> n]
NoAnswer(n) == n \notin DOMAIN answers
Wrong == {n \in DOMAIN answers : answers[n].how # "ok"}
Written == [n \in DOMAIN answers |-> answers[n].wrote]

Active == {n \in Nodes : Triggers[n] \cap updated # {}}
MayGoOn == step <= RecursionLimit + 1
IsFirst(x, S) == x \in S /\ \A y \in S : Rank[x] <= Rank[y]

Ends(how, kind, at) ==
  /\ status' = "ended"
  /\ outcome' = how
  /\ error' = [kind |-> kind, at |-> at]

AInit ==
  /\ status = "new" /\ outcome = "running"
  /\ error = [kind |-> "none", at |-> "none"]
  /\ step = 0
  /\ channels = [c \in Channels |-> Empty(c)]
  /\ updated = {}
  /\ answers = Nothing

(* The input reaches the channels, ... *)
Begin ==
  /\ status = "new"
  /\ \E w \in Inputs :
       LET G == [c \in DOMAIN w |-> <<w[c]>>]
       IN  /\ DOMAIN w # {}
           /\ channels' = Stored(channels, G)
           /\ updated' = Changed(channels, G)
  /\ status' = "running"
  /\ UNCHANGED <<outcome, error, step, answers>>

(* ... or there is none. *)
NoInput ==
  /\ status = "new"
  /\ \E w \in Inputs : DOMAIN w = {}
  /\ Ends("error", "empty input", "none")
  /\ UNCHANGED <<store, answers>>

Limit ==
  /\ status = "running"
  /\ ~MayGoOn
  /\ Ends("error", "recursion limit", "none")
  /\ UNCHANGED <<store, answers>>

Finish ==
  /\ status = "running"
  /\ MayGoOn
  /\ Active = {}
  /\ Ends("done", "none", "none")
  /\ UNCHANGED <<store, answers>>

Answer(n) ==
  /\ status = "running"
  /\ MayGoOn
  /\ n \in Active /\ NoAnswer(n)
  /\ \E a \in    [how : {"ok"}, wrote : Outputs[n]]
            \cup [how : {"err"}, wrote : {Nothing}]
            \cup [how : {"panic"}, wrote : {Nothing}] :
       /\ a.how = "err" => n \in Faulty
       /\ a.how = "panic" => n \in Panicky
       /\ answers' = [m \in DOMAIN answers \cup {n} |->
                        IF m = n THEN a ELSE answers[m]]
  /\ UNCHANGED <<result, store>>

AllAnswered == status = "running" /\ Active # {} /\ DOMAIN answers = Active

(* All nodes have returned writes. The run may stop here, if nobody        *)
(* listens to it any more.                                                 *)
Apply ==
  /\ AllAnswered /\ Wrong = {}
  /\ LET chs == Consumed(channels, Active)
         G   == Grouped(Active, Written)
     IN  /\ Failing(chs, G) = {}
         /\ channels' = Stored(chs, G)
         /\ updated' = Changed(chs, G)
  /\ step' = step + 1
  /\ answers' = Nothing
  /\ UNCHANGED result \/ Ends("closed", "none", "none")

(* All have returned writes, but some channels refuse theirs: the first of *)
(* these is reported.                                                      *)
Refuse ==
  /\ AllAnswered /\ Wrong = {}
  /\ LET chs == Consumed(channels, Active)
         G   == Grouped(Active, Written)
     IN  \E f \in Failing(chs, G) :
           /\ IsFirst(f, Failing(chs, G))
           /\ channels' = StoredUpTo(chs, G, f)
           /\ Ends("error", "channel", f)
  /\ answers' = Nothing
  /\ UNCHANGED <<step, updated>>

(* A panic that cannot be reported: that of the only node, or that of one  *)
(* which is not the first to go wrong.                                     *)
Uncaught(first) ==
  \E n \in Wrong : answers[n].how = "panic" /\ (n # first \/ Active = {n})

(* Some nodes have failed or panicked: the first of them is reported, if   *)
(* no panic goes uncaught. Nothing is applied.                             *)
Break ==
  /\ AllAnswered
  /\ \E first \in Wrong :
       /\ IsFirst(first, Wrong)
       /\ IF Uncaught(first) THEN Ends("vanished", "none", "none")
                             ELSE Ends("error", answers[first].how, first)
  /\ answers' = Nothing
  /\ UNCHANGED store

ANext ==
  \/ Begin \/ NoInput
  \/ Limit \/ Finish
  \/ \E n \in Nodes : Answer(n)
  \/ Apply \/ Refuse \/ Break

ASpec == AInit /\ [][ANext]_avars

=============================================================================
