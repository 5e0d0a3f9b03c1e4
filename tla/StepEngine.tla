----------------------------- MODULE StepEngine -----------------------------
(***************************************************************************)
(* The engine that runs the start-up steps (commands/start/step/mod.rs).   *)
(* A plan is a sequence of epochs, an epoch a set of steps.  The steps of  *)
(* an epoch run in scoped threads that are all joined before the engine    *)
(* looks at their results; an epoch of one step runs in the main thread.   *)
(* execute_steps, the sequential mode, is a plan of one-step epochs.       *)
(*                                                                         *)
(* This module says when a step moves; what the step does is the business  *)
(* of the module that extends it.                                          *)
(***************************************************************************)
EXTENDS Integers, Sequences

CONSTANTS
  Step,    \* the steps
  Plans,   \* the plans a start may follow, sequences of sets of steps
  Needs    \* the steps whose results a step uses

ASSUME PlansAssumption ==
  \A p \in Plans :
    /\ p \in Seq(SUBSET Step)
    /\ Len(p) > 0
    /\ \A i, j \in 1..Len(p) : i # j => p[i] \cap p[j] = {}

\* Every plan puts a step in a later epoch than the steps it needs.
ASSUME NeedsAssumption ==
  \A p \in Plans : \A i \in 1..Len(p) : \A s \in p[i] : \A n \in Needs[s] :
    n \in Step /\ \E j \in 1..(i - 1) : n \in p[j]

VARIABLES
  plan,     \* the plan of this start
  epoch,    \* the epoch being run
  phase,    \* where each step is
  outcome   \* "running", "ok", "error" or "panicked" (the process aborted)

engineVars == <<plan, epoch, phase, outcome>>

Active == {"pre", "execute", "post"}
Phase == {"waiting", "done", "failed"} \cup Active
After == [pre |-> "execute", execute |-> "post", post |-> "done"]

EngineInit ==
  /\ plan \in Plans
  /\ epoch = 1
  /\ phase = [s \in Step |-> "waiting"]
  /\ outcome = "running"

\* Mutant: the engine does not hold a step back until its epoch.
MutIsDue(s) ==
  /\ outcome = "running"
  /\ \E i \in epoch..Len(plan) : s \in plan[i]

\* The step's thread exists: its epoch is the one being run.
IsDue(s) == outcome = "running" /\ s \in plan[epoch]

Enter(s, from, to) ==
  /\ IsDue(s)
  /\ phase[s] = from
  /\ phase' = [phase EXCEPT ![s] = to]

\* The step's thread starts with pre_execute; a phase that returns Ok leads to
\* the next one; one that returns Err ends the step.
Begin(s) == Enter(s, "waiting", "pre") /\ UNCHANGED <<plan, epoch, outcome>>

Pass(s) ==
  /\ phase[s] \in Active
  /\ Enter(s, phase[s], After[phase[s]])
  /\ UNCHANGED <<plan, epoch, outcome>>

Fail(s) ==
  /\ phase[s] \in Active
  /\ Enter(s, phase[s], "failed")
  /\ UNCHANGED <<plan, epoch, outcome>>

\* A panic in a thread is an error of the epoch ("Thread panicked"); in the main
\* thread it takes the process down.
Panic(s) ==
  /\ phase[s] \in Active
  /\ Enter(s, phase[s], "failed")
  /\ outcome' = IF plan[epoch] = {s} THEN "panicked" ELSE outcome
  /\ UNCHANGED <<plan, epoch>>

\* Mutants: the epoch ends with its first failure, the other threads left behind;
\* the join waits for success.
MutJoined ==
  \/ \A s \in plan[epoch] : phase[s] \in {"done", "failed"}
  \/ \E s \in plan[epoch] : phase[s] = "failed"
MutJoinedDone == \A s \in plan[epoch] : phase[s] = "done"

Joined == \A s \in plan[epoch] : phase[s] \in {"done", "failed"}
EpochFailed == \E s \in plan[epoch] : phase[s] = "failed"

\* Mutant: one epoch too many.
MutJoin ==
  /\ outcome = "running"
  /\ Joined
  /\ IF EpochFailed
     THEN outcome' = "error" /\ UNCHANGED epoch
     ELSE epoch' = epoch + 1 /\ UNCHANGED outcome
  /\ UNCHANGED <<plan, phase>>

\* Mutant: the failures of an epoch are collected and not returned.
MutJoinOk ==
  /\ outcome = "running"
  /\ Joined
  /\ IF ~EpochFailed /\ epoch < Len(plan)
     THEN epoch' = epoch + 1 /\ UNCHANGED outcome
     ELSE outcome' = "ok" /\ UNCHANGED epoch
  /\ UNCHANGED <<plan, phase>>

\* All threads of the epoch are joined: on to the next epoch, or the end.
Join ==
  /\ outcome = "running"
  /\ Joined
  /\ IF EpochFailed
     THEN outcome' = "error" /\ UNCHANGED epoch
     ELSE IF epoch < Len(plan)
          THEN epoch' = epoch + 1 /\ UNCHANGED outcome
          ELSE outcome' = "ok" /\ UNCHANGED epoch
  /\ UNCHANGED <<plan, phase>>

EngineNext ==
  \/ \E s \in Step : Begin(s) \/ Pass(s) \/ Fail(s) \/ Panic(s)
  \/ Join

EngineSpec == EngineInit /\ [][EngineNext]_engineVars

-----------------------------------------------------------------------------
EngineTypeOK ==
  /\ plan \in Plans
  /\ epoch \in 1..Len(plan)
  /\ phase \in [Step -> Phase]
  /\ outcome \in {"running", "ok", "error", "panicked"}

\* "All steps in an epoch must complete successfully before moving to the next
\* epoch" (step/mod.rs:377): once a step has started, every step of every earlier
\* epoch is done, however the threads interleave and whichever of them fail.
Barrier ==
  \A i \in 1..Len(plan) : \A s \in plan[i] :
    phase[s] # "waiting" =>
      \A j \in 1..(i - 1) : \A t \in plan[j] : phase[t] = "done"

\* When the engine returns, with success or an error, no step is still at work:
\* the teardown that follows (logs, dead containers) and a later stop see a
\* quiet system.
QuietWhenOver ==
  outcome \in {"ok", "error"} => \A s \in Step : phase[s] \notin Active

\* The engine reports success exactly when every step of the plan completed, and
\* an error only when a step failed.
OutcomeIsHonest ==
  /\ outcome = "ok" => \A i \in 1..Len(plan) : \A s \in plan[i] : phase[s] = "done"
  /\ outcome \in {"error", "panicked"} => \E s \in Step : phase[s] = "failed"

\* The engine implements the order the steps rely on.
In(phases) == {s \in Step : phase[s] \in phases}

Order == INSTANCE StepOrder WITH
  begun <- In(Phase \ {"waiting"}),
  completed <- In({"done"}),
  failed <- In({"failed"})

ImplementsOrder == Order!OrderSpec
=============================================================================
