----------------------------- MODULE StepContext -----------------------------
(***************************************************************************)
(* The context the steps share (SetupContext in step/mod.rs): a map behind *)
(* a mutex, and step_context.json.  set, set_multi and save_command insert *)
(* under the mutex, let it go, and save: save_to_file takes the mutex      *)
(* again, truncates the file and writes the map as it is by then.  A save  *)
(* that fails is only warned of.                                           *)
(*                                                                         *)
(* A call writes its own value, the thread and the number of the call, so  *)
(* that every write can be told from every other.                          *)
(***************************************************************************)
EXTENDS Integers, Sequences, FiniteSets

CONSTANTS
  Thread,    \* the steps of an epoch
  Key,       \* the keys they write
  MaxCalls,  \* bound on the calls of a thread
  None       \* no holder, no value

ASSUME ContextAssumption == MaxCalls \in Nat /\ None \notin Thread

VARIABLES
  state,    \* the map without command_history
  history,  \* the map's command_history
  lock,     \* who holds the mutex
  pc,       \* where each thread is in its call
  calls,    \* the calls each thread has made
  todo,     \* the keys its call has yet to insert
  seen,     \* the history its save_command has read
  file,     \* step_context.json
  lastSave, \* how the last save ended
  alive     \* the process runs

vars == <<state, history, lock, pc, calls, todo, seen, file, lastSave, alive>>

Value == Thread \X (1..MaxCalls)

\* set: a key.  set_multi: some keys.  save_command: a key, and the history.
Call ==
  {c \in [keys : SUBSET Key \ {{}}, command : BOOLEAN] :
     c.command => Cardinality(c.keys) = 1}

Whole(m, l) == [kind |-> "whole", map |-> m, log |-> l]
Unreadable == [kind |-> "unreadable"]
Absent == [kind |-> "absent"]

Inserting == {"insert", "append", "leave"}
Saving == {"create", "write"}

\* The call a thread is in, and the value it writes.
This(t) == calls[t][Len(calls[t])]
Mine(t) == <<t, Len(calls[t])>>

Init ==
  /\ state = [k \in Key |-> None]
  /\ history = <<>>
  /\ lock = None
  /\ pc = [t \in Thread |-> "idle"]
  /\ calls = [t \in Thread |-> <<>>]
  /\ todo = [t \in Thread |-> {}]
  /\ seen = [t \in Thread |-> <<>>]
  /\ file = Absent
  /\ lastSave = "none"
  /\ alive = TRUE

-----------------------------------------------------------------------------
\* Mutants: the call saves inside the block that holds
\* the mutex; the auto-save is forgotten; the file is written without the history.
MutReleased == lock
MutAfterInsert == "idle"
MutSnapshot == Whole(state, <<>>)

CanLock == lock = None
Released == None
AfterInsert == "save"
Snapshot == Whole(state, history)

At(t, here) == alive /\ pc[t] = here
Goto(t, there) == pc' = [pc EXCEPT ![t] = there]

Calls(t) ==
  /\ At(t, "idle")
  /\ Len(calls[t]) < MaxCalls
  /\ \E c \in Call :
       /\ calls' = [calls EXCEPT ![t] = Append(@, c)]
       /\ todo' = [todo EXCEPT ![t] = c.keys]
  /\ Goto(t, "enter")
  /\ UNCHANGED <<state, history, lock, seen, file, lastSave, alive>>

Enters(t) ==
  /\ At(t, "enter")
  /\ CanLock
  /\ lock' = t
  /\ Goto(t, "insert")
  /\ UNCHANGED <<state, history, calls, todo, seen, file, lastSave, alive>>

Inserts(t) ==
  /\ At(t, "insert")
  /\ \E k \in todo[t] :
       /\ state' = [state EXCEPT ![k] = Mine(t)]
       /\ todo' = [todo EXCEPT ![t] = @ \ {k}]
  /\ UNCHANGED <<history, lock, pc, calls, seen, file, lastSave, alive>>

\* save_command clones the history before it inserts the longer one.
ReadsHistory(t) ==
  /\ At(t, "insert")
  /\ todo[t] = {}
  /\ This(t).command
  /\ seen' = [seen EXCEPT ![t] = history]
  /\ Goto(t, "append")
  /\ UNCHANGED <<state, history, lock, calls, todo, file, lastSave, alive>>

Appends(t) ==
  /\ At(t, "append")
  /\ history' = Append(seen[t], Mine(t))
  /\ seen' = [seen EXCEPT ![t] = <<>>]
  /\ Goto(t, "leave")
  /\ UNCHANGED <<state, lock, calls, todo, file, lastSave, alive>>

\* The end of the block: the mutex is free before save_to_file asks for it.
Leaves(t) ==
  /\ \/ At(t, "leave")
     \/ At(t, "insert") /\ todo[t] = {} /\ ~This(t).command
  /\ lock' = Released
  /\ Goto(t, AfterInsert)
  /\ UNCHANGED <<state, history, calls, todo, seen, file, lastSave, alive>>

LocksToSave(t) ==
  /\ At(t, "save")
  /\ CanLock
  /\ lock' = t
  /\ Goto(t, "create")
  /\ UNCHANGED <<state, history, calls, todo, seen, file, lastSave, alive>>

\* File::create truncates: until the last write the file cannot be read.
CreatesFile(t) ==
  /\ At(t, "create")
  /\ file' = Unreadable
  /\ Goto(t, "write")
  /\ UNCHANGED <<state, history, lock, calls, todo, seen, lastSave, alive>>

Writes(t) ==
  /\ At(t, "write")
  /\ file' = Snapshot
  /\ lock' = None
  /\ lastSave' = "ok"
  /\ Goto(t, "idle")
  /\ UNCHANGED <<state, history, calls, todo, seen, alive>>

\* The directory or the file cannot be created, or the disk is full: a warning.
SaveFails(t) ==
  /\ \E here \in Saving : At(t, here)
  /\ lock' = None
  /\ lastSave' = "failed"
  /\ Goto(t, "idle")
  /\ UNCHANGED <<state, history, calls, todo, seen, file, alive>>

\* The process is killed; what it has written stays.
Dies ==
  /\ alive
  /\ alive' = FALSE
  /\ UNCHANGED <<state, history, lock, pc, calls, todo, seen, file, lastSave>>

Moves(t) ==
  \/ Enters(t) \/ Inserts(t) \/ ReadsHistory(t) \/ Appends(t) \/ Leaves(t)
  \/ LocksToSave(t) \/ CreatesFile(t) \/ Writes(t) \/ SaveFails(t)

Next == Dies \/ \E t \in Thread : Calls(t) \/ Moves(t)

\* The operating system keeps scheduling a thread inside a call.
Spec == Init /\ [][Next]_vars /\ \A t \in Thread : WF_vars(Moves(t))

-----------------------------------------------------------------------------
TypeOK ==
  /\ state \in [Key -> Value \cup {None}]
  /\ history \in Seq(Value)
  /\ lock \in Thread \cup {None}
  /\ lock # None => pc[lock] \in Inserting \cup Saving
  /\ pc \in [Thread -> {"idle", "enter", "save"} \cup Inserting \cup Saving]
  /\ calls \in [Thread -> Seq(Call)]
  /\ todo \in [Thread -> SUBSET Key]
  /\ seen \in [Thread -> Seq(Value)]
  /\ file.kind \in {"absent", "unreadable", "whole"}
  /\ lastSave \in {"none", "ok", "failed"}
  /\ alive \in BOOLEAN

\* "Automatically saves the state to file" (step/mod.rs:72): when no call is under
\* way and the last save did not fail, the file holds the whole context, whatever
\* the order in which the threads inserted and saved.
FileKeepsUp ==
  (\A t \in Thread : pc[t] \in {"idle", "enter"}) /\ lastSave # "failed" =>
    \/ file = Whole(state, history)
    \/ lastSave = "none" /\ history = <<>> /\ \A k \in Key : state[k] = None

\* A call takes effect when it gets the mutex: to every get and every save it is
\* as if its insertions happened at once, and a readable file is one of the states
\* the map went through, the one of its own save.
EffectiveMap ==
  IF lock # None /\ pc[lock] \in Inserting
  THEN [k \in Key |-> IF k \in todo[lock] THEN Mine(lock) ELSE state[k]]
  ELSE state

EffectiveHistory ==
  IF lock # None /\ pc[lock] \in {"insert", "append"} /\ This(lock).command
  THEN Append(history, Mine(lock))
  ELSE history

Store == INSTANCE ContextStore WITH
  map <- EffectiveMap, log <- EffectiveHistory, disk <- file

ImplementsStore == Store!StoreSpec

\* No call waits for ever: set does not ask for the mutex it holds, and a failed
\* save gives it back.
CallsReturn ==
  \A t \in Thread : pc[t] # "idle" ~> (pc[t] = "idle" \/ ~alive)
=============================================================================
