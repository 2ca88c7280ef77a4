---------------------------- MODULE MemorySaver -----------------------------
(***************************************************************************)
(* The in-memory checkpoint storage of src/src/checkpoint/memory.rs, as    *)
(* operators on its state:                                                 *)
(*                                                                         *)
(*   stored   <<place, id>> to checkpoint; a place is a pair               *)
(*            <<thread_id, checkpoint_ns>>. Ids are positive numbers here: *)
(*            the code prints them as 16 hexadecimal digits, so that the   *)
(*            order of the strings, which the BTreeMap sorts by, is the    *)
(*            order of the numbers. 0 stands for no id.                    *)
(*   writes   <<place, id>> to the pending writes kept under it, one entry *)
(*            per task, in the order in which they were stored.            *)
(***************************************************************************)
EXTENDS Integers, Functions, Selections

EmptySaver == [stored |-> [k \in {} |-> k], writes |-> [k \in {} |-> k]]

Ids(saver, place) == {k[2] : k \in {j \in DOMAIN saver.stored : j[1] = place}}

(* find_entry: the checkpoint asked for or, without an id, the one with    *)
(* the greatest; the set of its id, empty if there is none.                *)
FindEntry(saver, place, id) ==
  {i \in Ids(saver, place) :
     IF id = 0 THEN \A j \in Ids(saver, place) : j <= i ELSE i = id}

Pending(saver, place, id) ==
  IF <<place, id>> \in DOMAIN saver.writes THEN saver.writes[<<place, id>>] ELSE <<>>

(* get_tuple: the set of what is found. *)
GetTuple(saver, place, id) ==
  {[checkpoint |-> saver.stored[<<place, i>>], pending |-> Pending(saver, place, i)] :
     i \in FindEntry(saver, place, id)}

(* put: a checkpoint replaces one that has the same id. *)
Put(saver, place, cp) ==
  LET key == <<place, cp.id>>
  IN  [stored |-> [k \in DOMAIN saver.stored \cup {key} |->
                     IF k = key THEN cp ELSE saver.stored[k]],
       writes |-> saver.writes]

(* put_writes for each entry of the sequence new in turn, all of different *)
(* tasks: what is kept of a task already is replaced. The id is given.     *)
PutWrites(saver, place, id, new) ==
  LET key  == <<place, id>>
      old  == Pending(saver, place, id)
      kept == {i \in DOMAIN old : old[i].task \notin {new[j].task : j \in DOMAIN new}}
  IN  IF new = <<>> THEN saver
      ELSE [stored |-> saver.stored,
            writes |-> [k \in DOMAIN saver.writes \cup {key} |->
                          IF k = key THEN Selected(old, kept) \o new
                                     ELSE saver.writes[k]]]

Elsewhere(f, thread) == Restrict(f, {k \in DOMAIN f : k[1][1] # thread})

(* Variant: the pending writes stay. *)
DeleteThreadKeepsWrites(saver, thread) ==
  [stored |-> Elsewhere(saver.stored, thread), writes |-> saver.writes]

(* delete_thread: all its namespaces, checkpoints and pending writes. *)
DeleteThread(saver, thread) ==
  [stored |-> Elsewhere(saver.stored, thread), writes |-> Elsewhere(saver.writes, thread)]

=============================================================================
