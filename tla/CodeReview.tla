----------------------------- MODULE CodeReview -----------------------------
(***************************************************************************)
(* The program src/examples/plan_execute_review.rs: receive_pr, three      *)
(* checks side by side, a join, and a report; compiled by module           *)
(* GraphBuilder and run by module GraphRun. It runs the graph three times, *)
(* one run after the other, and they share nothing: it first streams the   *)
(* updates, then invokes it twice, and prints totals of what the last one  *)
(* returns. So a behaviour is either kind of run.                          *)
(*                                                                         *)
(* A list of findings is named after its reviewer. Checkpointers are left  *)
(* out: nobody resumes a run here.                                         *)
(***************************************************************************)
EXTENDS GraphRun
LOCAL INSTANCE SequencesExt

Start == "__start__"
Checks == {"security_check", "style_check", "perf_check"}
GraphNodes == Checks \cup {"receive_pr", "aggregate_report"}

(* The strings of the program as they are ordered.                         *)
NameOrder ==
  <<"__end__", Start, "aggregate_report", "branch:to:aggregate_report",
    "branch:to:perf_check", "branch:to:receive_pr", "branch:to:security_check",
    "branch:to:style_check", "findings",
    "join:perf_check+security_check+style_check:aggregate_report",
    "perf_check", "pr_content", "receive_pr", "report", "security_check",
    "style_check">>
Place == [x \in Range(NameOrder) |-> CHOOSE i \in DOMAIN NameOrder : NameOrder[i] = x]

(* The calls of the builder, and compile. *)
Builder == INSTANCE GraphBuilder WITH
  START <- Start, END <- "__end__", Names <- GraphNodes, Reserved <- {}, Order <- Place,
  StateChannels <- {"pr_content", "report", "findings"},
  Keys <- {}, EdgeCalls <- {}, PointCalls <- {}, BranchCalls <- {}, SequenceCalls <- {},
  nodes <- GraphNodes,
  edges <- {<<Start, "receive_pr">>, <<"aggregate_report", "__end__">>}
             \cup ({"receive_pr"} \X Checks),
  waitingEdges <- {[starts |-> Checks, end |-> "aggregate_report"]},
  branches <- {}, stage <- "building", error <- "none", program <- <<>>

Joins == {Builder!JoinTrigger(w) : w \in Builder!Joins}
Compiled == Builder!Compiled([c \in Joins |-> Checks])

(* The kinds of the channels. *)
ChannelKind ==
  [c \in Compiled.channels |->
     CASE c \in {"pr_content", "report"} -> "last"
       [] c = "findings"                 -> "binop"
       [] c \in Joins                    -> "barrier"
       [] OTHER                          -> "ephemeral"]

(* What the node functions return. *)
Update(fields) == [is |-> "object", fields |-> fields]
NodeReturns ==
  [n \in DOMAIN Compiled.triggers |->
     CASE n = "receive_pr"       -> {Update([pr_content |-> "pr", findings |-> "nobody"])}
       [] n = "security_check"   -> {Update([findings |-> "security"])}
       [] n = "style_check"      -> {Update([findings |-> "style"])}
       [] n = "perf_check"       -> {Update([findings |-> "perf"])}
       [] n = "aggregate_report" -> {Update([report |-> "review complete"])}
       [] OTHER                  -> {[is |-> "none"]}]

(* The severities of the findings of each reviewer. *)
Severities ==
  [nobody   |-> <<>>,
   security |-> <<"high", "medium">>,
   style    |-> <<"low", "low", "info">>,
   perf     |-> <<"medium", "low">>]

FindingsOf(who) ==
  [i \in DOMAIN Severities[who] |-> [reviewer |-> who, severity |-> Severities[who][i]]]

(* merge_findings_lists, over all the lists the channel has been given. *)
MergedFindings(lists) == FlattenSeq([i \in DOMAIN lists |-> FindingsOf(lists[i])])

(* by_severity and by_reviewer. *)
BySeverity(findings) ==
  [s \in {findings[i].severity : i \in DOMAIN findings} |->
     Cardinality({i \in DOMAIN findings : findings[i].severity = s})]
ByReviewer(findings) ==
  [r \in {findings[i].reviewer : i \in DOMAIN findings} |->
     Cardinality({i \in DOMAIN findings : findings[i].reviewer = r})]

-----------------------------------------------------------------------------
VARIABLE run   \* "stream" or "invoke"

cvars == <<gvars, run>>

(* The constants are those of the run that streams. *)
Invoking == INSTANCE GraphRun WITH Mode <- "values", Invoke <- TRUE

CInit == GInit /\ run \in {"stream", "invoke"}

CNext ==
  /\ run = "stream" => GNext
  /\ run = "invoke" => Invoking!GNext
  /\ UNCHANGED run

CSpec == CInit /\ [][CNext]_cvars

(* As in GFairSpec: the processes of this program wait for one another     *)
(* only, so that it is enough that one which can go on does.               *)
CFairSpec == CSpec /\ WF_cvars(CNext)

-----------------------------------------------------------------------------
(* The report is written on all the findings: aggregate_report starts only *)
(* when the three checks have run and what they wrote has been merged, in  *)
(* the order of their names, whatever order their threads ran in; every    *)
(* finding is there once.                                                  *)
ReportSeesAll ==
  "aggregate_report" \in tasks =>
    MergedFindings(input["aggregate_report"]["findings"])
      = FindingsOf("perf") \o FindingsOf("security") \o FindingsOf("style")

(* What invoke returns is the state after the report, and the totals the  *)
(* program prints of it are those of the three reviewers: seven findings,  *)
(* one of them "high" and one "info".                                      *)
TotalsAddUp ==
  run = "invoke" /\ caller = "returned" =>
    LET findings == MergedFindings(Invoking!Result.of["findings"])
    IN  /\ Len(findings) = 7
        /\ BySeverity(findings) = [high |-> 1, medium |-> 2, low |-> 3, info |-> 1]
        /\ ByReviewer(findings) = [security |-> 2, style |-> 3, perf |-> 2]

(* The receive loop prints a superstep per item: first receive_pr, then    *)
(* the three checks together, then aggregate_report; none is missing (the  *)
(* channel has room for all of them), split or twice there.                *)
SuperstepItems ==
  run = "stream" =>
  LET items == received \o queue
      shown == <<{"receive_pr"}, Checks, {"aggregate_report"}>>
  IN  /\ Len(items) <= Len(shown)
      /\ \A i \in DOMAIN items : DOMAIN items[i].data.of = shown[i]
      /\ outcome = "done" => Len(items) = Len(shown)

(* Every run ends with a report: the join is entered by all three checks   *)
(* and fires, the stream is closed, and its receiver has had three items.  *)
ReviewCompletes ==
  <>(/\ caller = "returned" /\ Len(received) = 3
     /\ channels["report"] = <<"review complete">>)

=============================================================================
