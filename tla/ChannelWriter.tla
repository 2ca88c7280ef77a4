--------------------------- MODULE ChannelWriter ---------------------------
(***************************************************************************)
(* What a task does once its node function has returned: the writers of    *)
(* the node assemble its writes (src/src/channel/channel_writer.rs, as     *)
(* called by execute_task_inner in src/src/pregel/task.rs). The compiler   *)
(* gives a node three sorts of writers (src/src/graph/compiled.rs):        *)
(*                                                                         *)
(*   state_writer     the fields of the update that are state channels     *)
(*   trigger_writer   a signal for every edge, a token for every join      *)
(*   branch_writer    the signals that a branch function decides on        *)
(*                                                                         *)
(* The outcome of a node function is a record: [is |-> "object", fields],  *)
(* a function from field names to values; or only [is |-> ...] "none",     *)
(* "other" (an update that is no object), "command", "error" or "panic".   *)
(*                                                                         *)
(* A write is a pair <<channel, value>>. A task writes a channel twice     *)
(* only if several of its edges and branches signal one node; the signals  *)
(* are all null then, and one is as good as many.                          *)
(***************************************************************************)
EXTENDS Sequences, FiniteSets

CONSTANTS
  StateChannels,   \* the channels of the graph's state
  Signals,         \* Signals[n]: trigger channels of the edges of n
  Arrivals,        \* Arrivals[n]: pairs <<join channel, token>>
  Routes,          \* Routes[n]: compiled branches, [name, to], to[key] the
                   \* trigger channels the branch writes for that key
  Path(_, _, _),   \* Path(n, name, state): the key the branch returns, or
  NoKey,           \* None
  Null             \* the value of a signal

(* Branches without a key, and keys that are no key of the map of ends:    *)
(* InvalidBranchTarget.                                                    *)
Silent(n, state) == {r \in Routes[n] : Path(n, r.name, state) = NoKey}
Lost(n, state) ==
  {r \in Routes[n] \ Silent(n, state) : Path(n, r.name, state) \notin DOMAIN r.to}

(* state_writer *)
StateWrites(outcome) ==
  IF outcome.is = "object"
  THEN {<<c, outcome.fields[c]>> : c \in DOMAIN outcome.fields \cap StateChannels}
  ELSE {}

(* Variant: a node does not arrive at its joins. *)
TriggerWritesEdges(n) == {<<c, Null>> : c \in Signals[n]}

(* trigger_writer *)
TriggerWrites(n) == {<<c, Null>> : c \in Signals[n]} \cup Arrivals[n]

(* Variant: the branch function is given the state with the node's own     *)
(* update in it.                                                           *)
BranchWritesOwn(n, state, outcome) ==
  LET own == [c \in DOMAIN state \cup {w[1] : w \in StateWrites(outcome)} |->
                LET old == IF c \in DOMAIN state THEN state[c] ELSE <<>>
                IN  IF \E w \in StateWrites(outcome) : w[1] = c
                    THEN Append(old, outcome.fields[c]) ELSE old]
  IN  UNION {{<<c, Null>> : c \in r.to[Path(n, r.name, own)]} :
               r \in {q \in Routes[n] : Path(n, q.name, own) \in DOMAIN q.to}}

(* branch_writer: every branch reads the state its task was prepared with. *)
BranchWrites(n, state, outcome) ==
  UNION {{<<c, Null>> : c \in r.to[Path(n, r.name, state)]} :
           r \in Routes[n] \ (Silent(n, state) \cup Lost(n, state))}

(* execute_task_inner returns Ok: the node function has returned an object *)
(* or nothing, and every branch has found its end. The first writer that   *)
(* fails takes the writes of all others with it.                           *)
Assembles(n, state, outcome) ==
  /\ outcome.is \in {"object", "none"}
  /\ Lost(n, state) = {}

(* The pairs as a function from channels to values. *)
AsFunction(pairs) ==
  [c \in {w[1] : w \in pairs} |-> (CHOOSE w \in pairs : w[1] = c)[2]]

(* assemble, for all writers of n. *)
Assembled(n, state, outcome) ==
  AsFunction(StateWrites(outcome) \cup TriggerWrites(n)
               \cup BranchWrites(n, state, outcome))

(* The writes a task of n may assemble from an outcome o, whichever ends   *)
(* its branches choose.                                                    *)
MayAssemble(n, o) ==
  {AsFunction(StateWrites(o) \cup TriggerWrites(n) \cup {<<c, Null>> : c \in S}) :
     S \in SUBSET (UNION {UNION {r.to[k] : k \in DOMAIN r.to} : r \in Routes[n]})}

=============================================================================
