----------------------------- MODULE StepOrder -----------------------------
(***************************************************************************)
(* What starting a cluster promises about its steps: each runs at most     *)
(* once, and only after every step whose results it uses has completed.    *)
(* StepEngine implements this specification, sequential or in epochs.      *)
(***************************************************************************)
CONSTANTS
  Step,    \* the steps of the start-up
  Needs    \* the steps whose results a step uses

VARIABLES
  begun,      \* the steps that have started
  completed,  \* the steps that ended well
  failed      \* the steps that ended with an error

orderVars == <<begun, completed, failed>>

OrderInit ==
  /\ begun = {}
  /\ completed = {}
  /\ failed = {}

Begins ==
  /\ \E s \in Step \ begun :
       /\ Needs[s] \subseteq completed
       /\ begun' = begun \cup {s}
  /\ UNCHANGED <<completed, failed>>

Completes ==
  /\ \E s \in begun \ (completed \cup failed) : completed' = completed \cup {s}
  /\ UNCHANGED <<begun, failed>>

Fails ==
  /\ \E s \in begun \ (completed \cup failed) : failed' = failed \cup {s}
  /\ UNCHANGED <<begun, completed>>

OrderNext == Begins \/ Completes \/ Fails

OrderSpec == OrderInit /\ [][OrderNext]_orderVars
=============================================================================
