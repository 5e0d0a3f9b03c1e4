---------------------------- MODULE ContextStore ----------------------------
(***************************************************************************)
(* What the step context promises: a map whose writes are atomic, a log of *)
(* commands to which a write may add its own, and a file that holds one of *)
(* the states they went through, or cannot be read.                        *)
(***************************************************************************)
EXTENDS Sequences

CONSTANTS Key, Value, None

VARIABLES
  map,   \* key -> value or None
  log,   \* the command history
  disk   \* what the file holds

Whole(m, l) == [kind |-> "whole", map |-> m, log |-> l]
Unreadable == [kind |-> "unreadable"]
Absent == [kind |-> "absent"]

StoreInit ==
  /\ map = [k \in Key |-> None]
  /\ log = <<>>
  /\ disk = Absent

Update(ks, v) ==
  /\ map' = [k \in Key |-> IF k \in ks THEN v ELSE map[k]]
  /\ log' \in {log, Append(log, v)}
  /\ UNCHANGED disk

Tear == disk' = Unreadable /\ UNCHANGED <<map, log>>
Save == disk' = Whole(map, log) /\ UNCHANGED <<map, log>>

StoreNext ==
  \/ \E ks \in SUBSET Key, v \in Value : Update(ks, v)
  \/ Tear
  \/ Save

StoreSpec == StoreInit /\ [][StoreNext]_<<map, log, disk>>
=============================================================================
