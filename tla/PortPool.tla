------------------------------ MODULE PortPool ------------------------------
(***************************************************************************)
(* What the port allocator promises to the steps that share it: a pool of  *)
(* ports, each handed out at most once, that turns a request down only     *)
(* when nothing is left.  In which order the ports leave the pool is not   *)
(* part of the promise.  PortAllocator implements this specification.      *)
(***************************************************************************)
EXTENDS Naturals, Sequences

VARIABLES
  usable,   \* the ports the pool can ever hand out; {} until it is opened
  taken,    \* the ports that left the pool, handed out or reserved
  granted,  \* the ports handed out, in the order they were
  refused   \* whether a request was ever turned down

poolVars == <<usable, taken, granted, refused>>

PoolInit ==
  /\ usable = {}
  /\ taken = {}
  /\ granted = << >>
  /\ refused = FALSE

Open ==
  /\ usable = {}
  /\ usable' # {}
  /\ UNCHANGED <<taken, granted, refused>>

Grant ==
  /\ \E p \in usable \ taken :
       /\ taken' = taken \cup {p}
       /\ granted' = Append(granted, p)
  /\ UNCHANGED <<usable, refused>>

Reserve ==
  /\ \E p \in usable : taken' = taken \cup {p}
  /\ UNCHANGED <<usable, granted, refused>>

Refuse ==
  /\ usable # {}
  /\ usable \subseteq taken
  /\ refused' = TRUE
  /\ UNCHANGED <<usable, taken, granted>>

PoolNext == Open \/ Grant \/ Reserve \/ Refuse

PoolSpec == PoolInit /\ [][PoolNext]_poolVars
=============================================================================
