---------------------------- MODULE DevnetProofs ----------------------------
(***************************************************************************)
(* For any number of processes and run ids and histories of any length:    *)
(* a stop that succeeds leaves nothing behind, a start that succeeds is    *)
(* alone, the poison file says what happened, and no history of commands   *)
(* makes a later one fail by itself.                                       *)
(***************************************************************************)
EXTENDS Devnet, TLAPS

-----------------------------------------------------------------------------
(* Where a command can be.                                                 *)

Entering == {"check", "recover", "handle"}
Leaving == {"unmark", "unlink"}
Stopping == {"load", "remove", "kill", "networks", "unnet", "forget"}
Making == {"save", "saved", "volumes", "link", "linked", "config", "old_portainer",
           "portainer", "nets", "steps"}
Child == {"child_check", "child_recover", "child_report", "child_unlink"}
Ending == {"logs", "dead", "sweep", "over"} \cup Child
Cleaning == {"entries", "entry"}
Initializing == {"directories", "configure", "build"}

Places(c) ==
  CASE c = "none" -> {"off"}
    [] c = "status" -> Entering \cup {"report"} \cup Leaving
    [] c = "stop" -> Entering \cup {"mark"} \cup Stopping \cup Leaving
    [] c = "start" -> Entering \cup {"mark", "host"} \cup Stopping \cup Making \cup Ending
                        \cup Leaving
    [] c = "init" -> Entering \cup {"mark"} \cup Initializing \cup Leaving
    [] OTHER -> Entering \cup {"mark"} \cup Cleaning \cup Leaving

-----------------------------------------------------------------------------
(* The inductive invariant: types and places first.                        *)

\* What of a start comes before its first container, and before its first service.
BeforePortainer ==
  Entering \cup {"mark", "host"} \cup Stopping \cup (Making \ {"nets", "steps"})
BeforeServices == BeforePortainer \cup {"nets"}

Objects == UNION {Services(r) \cup {Portainer(r)} : r \in RunId}

Processes ==
  /\ cmd \in [Proc -> Commands \cup {"none"}]
  /\ pc \in [Proc -> UNION {Places(c) : c \in Commands \cup {"none"}}]
  /\ run \in [Proc -> RunId \cup {None}]
  /\ target \in [Proc -> RunId \cup {None}]
  /\ result \in [Proc -> {"ok", "error"}]
  /\ alone \in [Proc -> BOOLEAN] /\ smooth \in [Proc -> BOOLEAN]
  /\ DOMAIN todo = Proc /\ todo = [p \in Proc |-> todo[p]]
  /\ \A p \in Proc :
       /\ pc[p] \in Places(cmd[p])
       /\ run[p] # None <=> cmd[p] = "start"
       /\ result[p] = "error" => pc[p] \in Ending
       /\ pc[p] = "steps" => todo[p] \subseteq Services(run[p])

Machine ==
  /\ running \subseteq Objects /\ stopped \subseteq Objects /\ running \cap stopped = {}
  /\ networks \subseteq {Net(r) : r \in RunId}
  /\ current \in RunId \cup {None, "torn"}
  /\ latest \in RunId \cup {None}
  /\ poison \in BOOLEAN /\ config \in BOOLEAN
  /\ home \in {"clean", "dirty", "ready"}

\* A run id belongs to one start, which has no container yet when it makes its own.
Reserved ==
  /\ \A p, q \in Proc : run[p] # None /\ run[p] = run[q] => p = q
  /\ \A p \in Proc : run[p] # None =>
       /\ pc[p] \in BeforePortainer => \A c \in Containers : c[1] # run[p]
       /\ pc[p] \in BeforeServices => \A c \in Containers : IsService(c) => c[1] # run[p]
       /\ pc[p] = "steps" => todo[p] \cap Containers = {}

\* They all want the same port.
OnePortainer ==
  \A c, d \in running : c[2] = "portainer" /\ d[2] = "portainer" => c = d

-----------------------------------------------------------------------------
(* What a command that is alone on the machine has found and done.         *)

Solo(p) == Live(p) /\ alone[p]

ServicesThere == {c \in Containers : IsService(c)}

Exclusive == \A p, q \in Proc : Solo(p) /\ p # q => ~Live(q)

Marked(p) ==
  /\ pc[p] \in {"handle", "mark", "report"} => ~poison
  /\ pc[p] \in {"recover", "unlink"} => poison
  /\ cmd[p] \in {"stop", "init"} /\ pc[p] \notin Entering \cup {"mark"} => poison

Prepared(p) ==
  /\ pc[p] = "forget" => current # None
  /\ pc[p] = "linked" => latest = None
  /\ pc[p] = "portainer" => \A c \in running : c[2] # "portainer"
  /\ pc[p] = "steps" => Net(run[p]) \in networks

\* Until its first trouble.
Cleared(p) ==
  /\ pc[p] = "kill" => ServicesThere \subseteq todo[p]
  /\ pc[p] \in {"networks", "unnet", "forget"} \cup (Making \ {"steps"}) =>
       ServicesThere = {}
  /\ pc[p] = "unnet" => networks \subseteq todo[p]
  /\ pc[p] \in {"forget"} \cup (Making \ {"steps"}) => networks = {}
  /\ cmd[p] = "stop" /\ pc[p] \in Leaving =>
       ServicesThere = {} /\ networks = {} /\ current = None

Up(p) == cmd[p] = "start" /\ pc[p] \in Ending \cup Leaving /\ result[p] = "ok"

Built(p) ==
  /\ Up(p) \/ pc[p] \in (Making \ {"save", "saved"}) => current = run[p]
  /\ Up(p) \/ pc[p] \in {"config", "old_portainer", "portainer", "nets", "steps"} =>
       latest = run[p]
  /\ Up(p) \/ pc[p] \in {"nets", "steps"} => Portainer(run[p]) \in running
  /\ Up(p) \/ pc[p] = "steps" => networks = {Net(run[p])} /\ ServicesThere \subseteq running
  /\ pc[p] = "steps" => ServicesThere = Services(run[p]) \ todo[p]
  /\ Up(p) => ServicesThere = Services(run[p])
  /\ result[p] = "error" => home # "ready"

Progress ==
  \A p \in Proc : Solo(p) =>
    Marked(p) /\ Prepared(p) /\ (smooth[p] => Cleared(p) /\ Built(p))

\* The last command left a quiet machine.
Rested == last # NoCommand => Quiet

IInv ==
  /\ Processes /\ Machine /\ Reserved /\ OnePortainer
  /\ Exclusive /\ Progress /\ Rested
  /\ StopCleansUp /\ StartIsAlone /\ PoisonIsTruthful /\ NeverWedged

-----------------------------------------------------------------------------
(* The places, and what moves a command.                                   *)

\* What one command does, or has done to it.
Acts(p) ==
  \/ MainStep(p) \/ StopStep(p) \/ StartStep(p)
  \/ ListsEntries(p) \/ RemovesEntry(p) \/ Cleaned(p) \/ Initializes(p)
  \/ StopBreaks(p) \/ StepBreaks(p) \/ Warns(p) \/ Breaks(p) \/ Dies(p)

\* Every step is one of a command, a new command, or a container that stops.
LEMMA WhoMoves ==
  ASSUME [Next]_vars
  PROVE  \/ UNCHANGED vars
         \/ \E p \in Proc : Acts(p)
         \/ \E p \in Proc, c \in Commands : Invoke(p, c)
         \/ Crashes
BY DEF Next, Works, Troubled, Acts

\* Where each command can be.
LEMMA PlacesOf ==
  /\ Places("none") = {"off"}
  /\ Places("status") = Entering \cup {"report"} \cup Leaving
  /\ Places("stop") = Entering \cup {"mark"} \cup Stopping \cup Leaving
  /\ Places("start") = Entering \cup {"mark", "host"} \cup Stopping \cup Making \cup Ending
                         \cup Leaving
  /\ Places("init") = Entering \cup {"mark"} \cup Initializing \cup Leaving
  /\ Places("clean") = Entering \cup {"mark"} \cup Cleaning \cup Leaving
  /\ Places("clean_all") = Entering \cup {"mark"} \cup Cleaning \cup Leaving
BY DEF Places

\* Which a command always is.
LEMMA Where ==
  ASSUME Processes, NEW p \in Proc
  PROVE  /\ cmd[p] \in Commands \cup {"none"} /\ pc[p] \in Places(cmd[p])
         /\ cmd[p] = "none" <=> pc[p] = "off"
         /\ pc[p] \in {"host"} \cup Making \cup Ending => cmd[p] = "start"
         /\ pc[p] \in Stopping => cmd[p] \in {"stop", "start"}
         /\ pc[p] \in Initializing => cmd[p] = "init"
         /\ pc[p] \in Cleaning => cmd[p] \in {"clean", "clean_all"}
         /\ pc[p] = "report" => cmd[p] = "status"
         /\ pc[p] = "mark" => cmd[p] \in Commands \ {"status"}
<1>1. cmd[p] \in Commands \cup {"none"} /\ pc[p] \in Places(cmd[p])
  BY DEF Processes
<1> QED BY <1>1, PlacesOf
    DEF Commands, Entering, Leaving, Stopping, Making, Child, Ending, Cleaning, Initializing

\* The places a command may go to from where it is.
LEMMA Roads ==
  ASSUME Processes, NEW p \in Proc
  PROVE  /\ Live(p) => Entering \cup Leaving \subseteq Places(cmd[p])
         /\ pc[p] \in {"host"} \cup Making \cup Ending =>
              Stopping \cup Making \cup Ending \subseteq Places(cmd[p])
         /\ pc[p] \in Stopping => Stopping \subseteq Places(cmd[p])
         /\ pc[p] \in Stopping /\ cmd[p] # "stop" => "save" \in Places(cmd[p])
         /\ pc[p] \in Initializing => Initializing \subseteq Places(cmd[p])
         /\ pc[p] \in Cleaning => Cleaning \subseteq Places(cmd[p])
         /\ Live(p) /\ cmd[p] = "status" => "report" \in Places(cmd[p])
         /\ Live(p) /\ cmd[p] # "status" => "mark" \in Places(cmd[p])
         /\ pc[p] = "mark" => First[cmd[p]] \in Places(cmd[p]) \ {"steps"}
<1>1. pc[p] = "mark" => First[cmd[p]] \in Places(cmd[p]) \ {"steps"}
  <2> SUFFICES ASSUME pc[p] = "mark" PROVE First[cmd[p]] \in Places(cmd[p]) \ {"steps"}
    OBVIOUS
  <2>1. cmd[p] \in {"start", "stop", "clean", "clean_all", "init"}
    BY Where DEF Commands
  <2>2. First["start"] = "host" /\ First["stop"] = "load" /\ First["init"] = "directories"
        /\ First["clean"] = "entries" /\ First["clean_all"] = "entries"
    BY DEF First, Commands
  <2> QED BY <2>1, <2>2, PlacesOf DEF Stopping, Cleaning, Initializing
<1>2. cmd[p] \in Commands \cup {"none"} /\ (Live(p) => cmd[p] # "none")
  BY Where DEF Live
<1>3. Live(p) => Entering \cup Leaving \subseteq Places(cmd[p])
  BY <1>2, PlacesOf DEF Commands
<1>4. /\ Live(p) /\ cmd[p] = "status" => "report" \in Places(cmd[p])
      /\ Live(p) /\ cmd[p] # "status" => "mark" \in Places(cmd[p])
  BY <1>2, PlacesOf DEF Commands
<1>5. /\ pc[p] \in {"host"} \cup Making \cup Ending =>
           Stopping \cup Making \cup Ending \subseteq Places(cmd[p])
      /\ pc[p] \in Stopping => Stopping \subseteq Places(cmd[p])
      /\ pc[p] \in Stopping /\ cmd[p] # "stop" => "save" \in Places(cmd[p])
  BY Where, PlacesOf DEF Making
<1>6. /\ pc[p] \in Initializing => Initializing \subseteq Places(cmd[p])
      /\ pc[p] \in Cleaning => Cleaning \subseteq Places(cmd[p])
  BY Where, PlacesOf
<1> QED BY <1>1, <1>3, <1>4, <1>5, <1>6

\* A command that goes to `there', with `left' yet to do.
Goes(p, there, left) ==
  /\ UNCHANGED <<cmd, run, target, result, smooth, alone, last>>
  /\ pc' = [pc EXCEPT ![p] = there] /\ pc'[p] = there
  /\ todo' = [todo EXCEPT ![p] = left] /\ todo'[p] = left

\* Of a step that is no more than that.
LEMMA StepGoes ==
  ASSUME Processes, NEW p \in Proc, NEW there, Steps(p, there)
  PROVE  Goes(p, there, todo[p])
<1>1. /\ DOMAIN pc = Proc /\ pc' = [pc EXCEPT ![p] = there]
      /\ DOMAIN todo = Proc /\ todo = [q \in Proc |-> todo[q]] /\ todo' = todo
  BY DEF Processes, Steps, Goto
<1>2. todo' = [todo EXCEPT ![p] = todo[p]]
  BY <1>1
<1>3. pc'[p] = there
  BY <1>1
<1> QED BY <1>1, <1>2, <1>3 DEF Goes, Steps, Stays

\* Of a turn of a loop, or of the way into one.
LEMMA LoopGoes ==
  ASSUME Processes, NEW p \in Proc, NEW left,
         Stays, UNCHANGED smooth, todo' = [todo EXCEPT ![p] = left]
  PROVE  /\ UNCHANGED pc => Goes(p, pc[p], left)
         /\ \A there : Goto(p, there) => Goes(p, there, left)
<1>1. DOMAIN pc = Proc /\ DOMAIN todo = Proc /\ (UNCHANGED pc => pc' = [pc EXCEPT ![p] = pc[p]])
  BY DEF Processes
<1> QED BY <1>1 DEF Goes, Goto, Stays

\* A command that goes on.
Advances(p) ==
  /\ UNCHANGED <<cmd, run, alone, last>>
  /\ pc' = [pc EXCEPT ![p] = pc'[p]] /\ pc'[p] \in Places(cmd[p])
  /\ todo' = [todo EXCEPT ![p] = todo'[p]]
  /\ pc'[p] = "steps" => todo'[p] \subseteq Services(run[p])
  /\ target' = [target EXCEPT ![p] = target'[p]] /\ target'[p] \in RunId \cup {None}
  /\ result' = [result EXCEPT ![p] = result'[p]] /\ result'[p] \in {"ok", "error"}
  /\ result'[p] = "error" => pc'[p] \in Ending
  /\ smooth' = [smooth EXCEPT ![p] = smooth'[p]] /\ smooth'[p] \in {smooth[p], FALSE}

\* A command that goes where it may goes on.
LEMMA GoesOn ==
  ASSUME Processes, NEW p \in Proc, NEW there, NEW left, Goes(p, there, left),
         there \in Places(cmd[p]),
         there = "steps" => left \subseteq Services(run[p]),
         pc[p] \in Ending => there \in Ending \/ result[p] = "ok"
  PROVE  Advances(p)
<1>1. /\ target = [target EXCEPT ![p] = target[p]] /\ target[p] \in RunId \cup {None}
      /\ result = [result EXCEPT ![p] = result[p]] /\ result[p] \in {"ok", "error"}
      /\ smooth = [smooth EXCEPT ![p] = smooth[p]] /\ smooth[p] \in BOOLEAN
      /\ result[p] = "error" => pc[p] \in Ending
  BY DEF Processes
<1>2. result[p] = "error" => there \in Ending
  BY <1>1
<1> QED BY <1>1, <1>2 DEF Goes, Advances

\* So does one of whose step something outside went wrong.
LEMMA BumpsOn ==
  ASSUME Processes, NEW p \in Proc, NEW there, NEW left, Stays, Bump(p),
         pc' = [pc EXCEPT ![p] = there], todo' = [todo EXCEPT ![p] = left],
         there \in Places(cmd[p]), there # "steps",
         pc[p] \in Ending => there \in Ending
  PROVE  Advances(p)
<1>1. /\ target = [target EXCEPT ![p] = target[p]] /\ target[p] \in RunId \cup {None}
      /\ result = [result EXCEPT ![p] = result[p]] /\ result[p] \in {"ok", "error"}
      /\ result[p] = "error" => pc[p] \in Ending
      /\ DOMAIN pc = Proc /\ DOMAIN todo = Proc
  BY DEF Processes
<1>2. smooth' = [smooth EXCEPT ![p] = smooth'[p]] /\ smooth'[p] = FALSE
  BY DEF Processes, Bump
<1>3. pc'[p] = there /\ todo'[p] = left
  BY <1>1
<1> QED BY <1>1, <1>2, <1>3 DEF Advances, Stays

\* So does a start of which a step failed: it ends with the logs.
LEMMA LogsOn ==
  ASSUME Processes, NEW p \in Proc, pc[p] = "steps", NoCluster(p),
         smooth' = [smooth EXCEPT ![p] = smooth'[p]], smooth'[p] \in {smooth[p], FALSE}
  PROVE  Advances(p) /\ pc'[p] = "logs" /\ todo'[p] = {} /\ result'[p] = "error"
<1>1. target = [target EXCEPT ![p] = target[p]] /\ target[p] \in RunId \cup {None}
  BY DEF Processes
<1>2. /\ pc' = [pc EXCEPT ![p] = "logs"] /\ pc'[p] = "logs"
      /\ todo' = [todo EXCEPT ![p] = {}] /\ todo'[p] = {}
      /\ result' = [result EXCEPT ![p] = "error"] /\ result'[p] = "error"
  BY DEF NoCluster, Goto, Processes
<1>3. "logs" \in Places(cmd[p]) /\ "logs" \in Ending
  BY Roads DEF Making, Ending
<1> QED BY <1>1, <1>2, <1>3 DEF NoCluster, Advances

\* What an assignment does, and what the end of a process does.
LEMMA Gone ==
  ASSUME Processes, NEW p \in Proc
  PROVE  /\ \A there : Goto(p, there) => pc'[p] = there
         /\ \A left : todo' = [todo EXCEPT ![p] = left] => todo'[p] = left
BY DEF Processes, Goto

\* What a command that moves leaves alone, and where it goes.
LEMMA Moves ==
  ASSUME Processes, NEW p \in Proc, Acts(p)
  PROVE  Live(p) /\ (Advances(p) \/ \E how : Ends(p, how))
<1>1. CASE ChecksPoison(p)
  BY <1>1, StepGoes, GoesOn, Roads DEF ChecksPoison, At, Live, Entering, Child, Ending
<1>2. CASE Recovers(p)
  BY <1>2, StepGoes, GoesOn, Roads DEF Recovers, At, Live, Entering, Child, Ending
<1>3. CASE Handles(p)
  BY <1>3, StepGoes, GoesOn, Roads DEF Handles, At, Live, Child, Ending
<1>4. CASE Marks(p)
  BY <1>4, StepGoes, GoesOn, Roads DEF Marks, At, Live, Child, Ending
<1>5. CASE Reports(p)
  BY <1>5, StepGoes, GoesOn, Roads, Where DEF Reports, At, Live, Leaving
<1>6. CASE Unmarks(p)
  BY <1>6, StepGoes, GoesOn, Roads DEF Unmarks, At, Live, Leaving, Child, Ending
<1>7. CASE Unlinks(p)
  BY <1>7 DEF Unlinks, At, Live
<1>8. CASE LoadsRun(p)
  <2>1. pc[p] = "load" /\ UNCHANGED <<cmd, run, result, ghostVars>> /\ Goto(p, "remove")
    BY <1>8 DEF LoadsRun, At
  <2>2. target'[p] \in RunId \cup {None} /\ target' = [target EXCEPT ![p] = target'[p]]
        /\ todo' = [todo EXCEPT ![p] = todo'[p]]
    BY <1>8 DEF LoadsRun, Processes
  <2>3. pc'[p] = "remove" /\ pc' = [pc EXCEPT ![p] = "remove"]
    BY <2>1 DEF Goto, Processes
  <2>4. "remove" \in Places(cmd[p])
    BY <2>1, Roads DEF Stopping
  <2>5. /\ result = [result EXCEPT ![p] = result[p]] /\ result[p] = "ok"
        /\ smooth = [smooth EXCEPT ![p] = smooth[p]]
    BY <2>1 DEF Processes, Ending, Child
  <2> QED BY <2>1, <2>2, <2>3, <2>4, <2>5 DEF Advances, ghostVars, Live
<1>9. CASE RemovesService(p)
  BY <1>9, LoopGoes, GoesOn, Roads, Where DEF RemovesService, At, Live
<1>10. CASE ListsContainers(p)
  BY <1>10, LoopGoes, GoesOn, Roads, Where
    DEF ListsContainers, At, Live, Entering, Leaving, Stopping, Child, Ending, Cleaning,
      Initializing
<1>11. CASE Kills(p)
  BY <1>11, LoopGoes, GoesOn, Roads, Where DEF Kills, At, Live
<1>12. CASE DeletesRunNetworks(p)
  BY <1>12, StepGoes, GoesOn, Roads DEF DeletesRunNetworks, At, Live, Stopping, Child, Ending
<1>13. CASE ListsNetworks(p)
  BY <1>13, LoopGoes, GoesOn, Roads, Where
    DEF ListsNetworks, At, Live, Entering, Leaving, Stopping, Making, Child, Ending,
      Cleaning, Initializing
<1>14. CASE RemovesNetwork(p)
  BY <1>14, LoopGoes, GoesOn, Roads, Where DEF RemovesNetwork, At, Live
<1>15. CASE ForgetsRun(p)
  <2>1. pc[p] = "unnet" /\ "forget" \in Places(cmd[p])
    BY <1>15, Roads DEF ForgetsRun, At, Stopping
  <2>2. AfterStop(p) \in Places(cmd[p]) /\ AfterStop(p) # "steps"
    BY <2>1, Roads DEF AfterStop, Live, Leaving, Stopping
  <2> QED BY <1>15, <2>1, <2>2, StepGoes, GoesOn DEF ForgetsRun, Live, Ending, Child
<1>16. CASE DeletesRunId(p)
  <2>1. pc[p] = "forget"
    BY <1>16 DEF DeletesRunId, At
  <2>2. AfterStop(p) \in Places(cmd[p]) /\ AfterStop(p) # "steps"
    BY <2>1, Roads DEF AfterStop, Live, Leaving, Stopping
  <2> QED BY <1>16, <2>1, <2>2, StepGoes, GoesOn DEF DeletesRunId, Live, Ending, Child
<1>17. CASE ChecksHost(p)
  BY <1>17, StepGoes, GoesOn, Roads DEF ChecksHost, At, Live, Stopping, Child, Ending
<1>18. CASE SavesRunId(p)
  BY <1>18, StepGoes, GoesOn, Roads DEF SavesRunId, At, Live, Making, Child, Ending
<1>19. CASE MakesVolumes(p)
  BY <1>19, StepGoes, GoesOn, Roads DEF MakesVolumes, At, Live, Making, Child, Ending
<1>20. CASE LinksLatest(p)
  BY <1>20, StepGoes, GoesOn, Roads DEF LinksLatest, At, Live, Making, Child, Ending
<1>21. CASE LoadsConfig(p)
  BY <1>21, StepGoes, GoesOn, Roads DEF LoadsConfig, At, Live, Making, Child, Ending
<1>22. CASE RemovesPortainer(p)
  BY <1>22, StepGoes, GoesOn, Roads DEF RemovesPortainer, At, Live, Making, Child, Ending
<1>23. CASE RunsPortainer(p)
  BY <1>23, StepGoes, GoesOn, Roads DEF RunsPortainer, At, Live, Making, Child, Ending
<1>24. CASE CreatesNetworks(p)
  <2>1. pc[p] = "nets" /\ Goes(p, "steps", Services(run[p]))
    BY <1>24, LoopGoes DEF CreatesNetworks, At
  <2> QED BY <2>1, GoesOn, Roads DEF Live, Making, Ending, Child
<1>25. CASE Launches(p)
  <2>1. PICK c \in todo[p] : todo' = [todo EXCEPT ![p] = @ \ {c}]
    BY <1>25 DEF Launches
  <2>2. pc[p] = "steps" /\ Goes(p, "steps", todo[p] \ {c})
    BY <1>25, <2>1, LoopGoes DEF Launches, At
  <2>3. todo[p] \ {c} \subseteq Services(run[p]) /\ "steps" \in Places(cmd[p])
    BY <2>2 DEF Processes
  <2> QED BY <2>2, <2>3, GoesOn DEF Live
<1>26. CASE StepMisses(p)
  <2>1. pc[p] = "steps" /\ NoCluster(p) /\ UNCHANGED smooth
    BY <1>26 DEF StepMisses, At
  <2>2. smooth' = [smooth EXCEPT ![p] = smooth[p]] /\ smooth'[p] = smooth[p]
    BY <2>1 DEF Processes
  <2> QED BY <2>1, <2>2, LogsOn DEF Live
<1>27. CASE StepsDone(p)
  BY <1>27, StepGoes, GoesOn, Roads DEF StepsDone, At, Live, Making, Ending
<1>28. CASE PersistsLogs(p)
  BY <1>28, StepGoes, GoesOn, Roads DEF PersistsLogs, At, Live, Ending
<1>29. CASE ListsDead(p)
  BY <1>29, LoopGoes, GoesOn, Roads, Where
    DEF ListsDead, At, Live, Entering, Leaving, Stopping, Making, Child, Ending, Cleaning,
      Initializing
<1>30. CASE RemovesDead(p)
  BY <1>30, LoopGoes, GoesOn, Roads, Where DEF RemovesDead, At, Live
<1>31. CASE SpawnsStatus(p)
  BY <1>31, StepGoes, GoesOn, Roads DEF SpawnsStatus, At, Live, Child, Ending
<1>32. CASE ChildChecks(p)
  BY <1>32, StepGoes, GoesOn, Roads DEF ChildChecks, At, Live, Child, Ending
<1>33. CASE ChildRecovers(p)
  BY <1>33, StepGoes, GoesOn, Roads DEF ChildRecovers, At, Live, Child, Ending
<1>34. CASE ChildReports(p)
  BY <1>34, StepGoes, GoesOn, Roads DEF ChildReports, At, Live, Child, Ending
<1>35. CASE ChildUnlinks(p)
  BY <1>35, StepGoes, GoesOn, Roads DEF ChildUnlinks, At, Live, Child, Ending
<1>36. CASE Returns(p)
  BY <1>36, StepGoes, GoesOn, Roads DEF Returns, At, Live, Leaving
<1>37. CASE ListsEntries(p)
  BY <1>37, LoopGoes, GoesOn, Roads, Where
    DEF ListsEntries, At, Live, Entering, Leaving, Stopping, Making, Child, Ending,
      Cleaning, Initializing
<1>38. CASE RemovesEntry(p)
  BY <1>38, LoopGoes, GoesOn, Roads, Where DEF RemovesEntry, At, Live
<1>39. CASE Cleaned(p)
  BY <1>39, StepGoes, GoesOn, Roads DEF Cleaned, At, Live, Leaving, Child, Ending
<1>40. CASE Initializes(p)
  BY <1>40, StepGoes, GoesOn, Roads, Where DEF Initializes, At, Live, Leaving, Initializing
<1>41. CASE StopBreaks(p)
  <2>1. Live(p) /\ pc[p] \in Stopping
    BY <1>41 DEF StopBreaks, Live, Stopping
  <2>2. CASE cmd[p] = "stop"
    BY <1>41, <2>1, <2>2 DEF StopBreaks
  <2>3. CASE cmd[p] # "stop"
    <3>1. /\ todo' = [todo EXCEPT ![p] = {}] /\ Goto(p, "save") /\ Bump(p) /\ Stays
      BY <1>41, <2>3 DEF StopBreaks
    <3>2. "save" \in Places(cmd[p]) /\ pc[p] \notin Ending
      BY <2>1, <2>3, Roads DEF Stopping, Ending, Child
    <3> QED BY <2>1, <3>1, <3>2, BumpsOn DEF Goto
  <2> QED BY <2>2, <2>3
<1>42. CASE StepBreaks(p)
  <2>1. pc[p] = "steps" /\ NoCluster(p) /\ Bump(p)
    BY <1>42 DEF StepBreaks, At
  <2>2. smooth' = [smooth EXCEPT ![p] = smooth'[p]] /\ smooth'[p] = FALSE
    BY <2>1 DEF Processes, Bump
  <2> QED BY <2>1, <2>2, LogsOn DEF Live
<1>43. CASE Warns(p)
  <2>1. Live(p) /\ pc[p] \in Stopping \cup Ending /\ Bump(p) /\ Stays
    BY <1>43 DEF Warns, Live, Stopping, Ending, Child, At
  <2>2. CASE UNCHANGED pc
    <3>1. PICK left : todo' = [todo EXCEPT ![p] = left]
      BY <1>43, <2>2 DEF Warns, Processes
    <3>2. pc' = [pc EXCEPT ![p] = pc[p]] /\ pc[p] \in Places(cmd[p]) /\ pc[p] # "steps"
      BY <2>1, <2>2 DEF Processes, Stopping, Ending, Child
    <3> QED BY <2>1, <3>1, <3>2, BumpsOn
  <2>3. CASE ~UNCHANGED pc
    <3>1. PICK there \in {"networks", "over"} :
            Goto(p, there) /\ UNCHANGED todo
            /\ (there = "networks" <=> pc[p] \in Stopping)
      BY <1>43, <2>3 DEF Warns, At, Stopping
    <3>2. todo' = [todo EXCEPT ![p] = todo[p]]
      BY <3>1 DEF Processes
    <3>3. there \in Places(cmd[p]) /\ (pc[p] \in Ending => there \in Ending)
      BY <2>1, <3>1, Roads DEF Stopping, Ending, Child
    <3> QED BY <2>1, <3>1, <3>2, <3>3, BumpsOn DEF Goto
  <2> QED BY <2>2, <2>3
<1>44. CASE Breaks(p)
  BY <1>44 DEF Breaks, Live, At
<1>45. CASE Dies(p)
  BY <1>45 DEF Dies, Live, At
<1> QED BY <1>1, <1>2, <1>3, <1>4, <1>5, <1>6, <1>7, <1>8, <1>9, <1>10, <1>11, <1>12, <1>13,
    <1>14, <1>15, <1>16, <1>17, <1>18, <1>19, <1>20, <1>21, <1>22, <1>23, <1>24, <1>25,
    <1>26, <1>27, <1>28, <1>29, <1>30, <1>31, <1>32, <1>33, <1>34, <1>35, <1>36, <1>37,
    <1>38, <1>39, <1>40, <1>41, <1>42, <1>43, <1>44, <1>45
    DEF Acts, MainStep, StopStep, StartStep

-----------------------------------------------------------------------------
(* The commands themselves: what every step keeps of them.                 *)

\* A command that goes on stays a command of its kind.
LEMMA AdvancesKeeps ==
  ASSUME Processes, NEW p \in Proc, Live(p), Advances(p)
  PROVE  Processes'
<1>1. /\ cmd' \in [Proc -> Commands \cup {"none"}]
      /\ run' \in [Proc -> RunId \cup {None}]
      /\ target' \in [Proc -> RunId \cup {None}]
      /\ result' \in [Proc -> {"ok", "error"}]
      /\ alone' \in [Proc -> BOOLEAN] /\ smooth' \in [Proc -> BOOLEAN]
  <2>1. UNCHANGED <<cmd, run, alone>>
    BY DEF Advances
  <2>2. target' = [target EXCEPT ![p] = target'[p]] /\ target'[p] \in RunId \cup {None}
        /\ target \in [Proc -> RunId \cup {None}]
    BY DEF Processes, Advances
  <2>3. result' = [result EXCEPT ![p] = result'[p]] /\ result'[p] \in {"ok", "error"}
        /\ result \in [Proc -> {"ok", "error"}]
    BY DEF Processes, Advances
  <2>4. smooth' = [smooth EXCEPT ![p] = smooth'[p]] /\ smooth'[p] \in BOOLEAN
        /\ smooth \in [Proc -> BOOLEAN]
    BY DEF Processes, Advances
  <2>5. target' \in [Proc -> RunId \cup {None}]
    BY <2>2
  <2>6. result' \in [Proc -> {"ok", "error"}]
    BY <2>3
  <2>7. smooth' \in [Proc -> BOOLEAN]
    BY <2>4
  <2> QED BY <2>1, <2>5, <2>6, <2>7 DEF Processes
<1>2. DOMAIN todo' = Proc /\ todo' = [q \in Proc |-> todo'[q]]
  <2>1. todo' = [todo EXCEPT ![p] = todo'[p]] /\ DOMAIN todo = Proc
    BY DEF Processes, Advances
  <2> QED BY <2>1
<1>3. ASSUME NEW q \in Proc
      PROVE  /\ pc'[q] \in Places(cmd'[q])
             /\ run'[q] # None <=> cmd'[q] = "start"
             /\ result'[q] = "error" => pc'[q] \in Ending
             /\ pc'[q] = "steps" => todo'[q] \subseteq Services(run'[q])
  BY <1>3 DEF Processes, Advances
<1>4. pc' \in [Proc -> UNION {Places(c) : c \in Commands \cup {"none"}}]
  <2>1. DOMAIN pc' = Proc /\ pc' = [q \in Proc |-> pc'[q]]
    BY DEF Processes, Advances
  <2>2. \A q \in Proc : pc'[q] \in UNION {Places(c) : c \in Commands \cup {"none"}}
    BY <1>1, <1>3
  <2> QED BY <2>1, <2>2
<1> QED BY <1>1, <1>2, <1>3, <1>4 DEF Processes

\* One that ends is none.
LEMMA EndsKeeps ==
  ASSUME Processes, NEW p \in Proc, NEW how, Ends(p, how)
  PROVE  Processes' /\ ~Live(p)'
<1>1. /\ cmd' \in [Proc -> Commands \cup {"none"}]
      /\ run' \in [Proc -> RunId \cup {None}]
      /\ target' \in [Proc -> RunId \cup {None}]
      /\ result' \in [Proc -> {"ok", "error"}]
      /\ alone' \in [Proc -> BOOLEAN] /\ smooth' \in [Proc -> BOOLEAN]
  BY DEF Processes, Ends
<1>2. DOMAIN todo' = Proc /\ todo' = [q \in Proc |-> todo'[q]]
  BY DEF Processes, Ends
<1>3. cmd'[p] = "none" /\ pc'[p] = "off" /\ run'[p] = None /\ result'[p] = "ok"
  BY DEF Processes, Ends
<1>4. ASSUME NEW q \in Proc
      PROVE  /\ pc'[q] \in Places(cmd'[q])
             /\ run'[q] # None <=> cmd'[q] = "start"
             /\ result'[q] = "error" => pc'[q] \in Ending
             /\ pc'[q] = "steps" => todo'[q] \subseteq Services(run'[q])
  <2>1. CASE q = p
    BY <1>3, <2>1, PlacesOf
  <2>2. CASE q # p
    BY <2>2 DEF Processes, Ends
  <2> QED BY <2>1, <2>2
<1>5. pc' \in [Proc -> UNION {Places(c) : c \in Commands \cup {"none"}}]
  <2>1. DOMAIN pc' = Proc /\ pc' = [q \in Proc |-> pc'[q]]
    BY DEF Processes, Ends
  <2>2. \A q \in Proc : pc'[q] \in UNION {Places(c) : c \in Commands \cup {"none"}}
    BY <1>1, <1>4
  <2> QED BY <2>1, <2>2
<1> QED BY <1>1, <1>2, <1>3, <1>4, <1>5 DEF Processes, Live

\* A new one starts at the check of the poison file.
LEMMA InvokeKeeps ==
  ASSUME Processes, NEW p \in Proc, NEW c \in Commands, Invoke(p, c)
  PROVE  /\ Processes' /\ Live(p)' /\ pc'[p] = "check" /\ cmd'[p] = c
         /\ \A q \in Proc : q # p => pc'[q] = pc[q] /\ cmd'[q] = cmd[q] /\ run'[q] = run[q]
         /\ c # "start" => UNCHANGED run
         /\ c = "start" => run'[p] \in Fresh
         /\ run[p] = None
<1>1. pc[p] = "off" /\ cmd[p] = "none" /\ run[p] = None /\ result[p] = "ok"
  BY Where DEF Processes, Invoke, At
<1>2. /\ cmd' = [cmd EXCEPT ![p] = c] /\ pc' = [pc EXCEPT ![p] = "check"]
      /\ cmd'[p] = c /\ pc'[p] = "check"
      /\ UNCHANGED <<target, todo, result, smooth>>
  BY DEF Invoke, Goto, Processes
<1>3. /\ IF c = "start" THEN \E r \in Fresh : run' = [run EXCEPT ![p] = r] ELSE UNCHANGED run
      /\ alone' = [q \in Proc |-> IF q = p THEN \A o \in Proc : ~Live(o)
                              ELSE alone[q] /\ ~Live(q)]
  BY DEF Invoke
<1>4. run' \in [Proc -> RunId \cup {None}] /\ (run'[p] # None <=> c = "start")
      /\ (\A q \in Proc : q # p => run'[q] = run[q]) /\ (c = "start" => run'[p] \in Fresh)
  BY <1>1, <1>3, DevnetAssumption DEF Processes, Fresh
<1>5. /\ cmd' \in [Proc -> Commands \cup {"none"}]
      /\ alone' \in [Proc -> BOOLEAN] /\ smooth' \in [Proc -> BOOLEAN]
  BY <1>2, <1>3 DEF Processes
<1>6. "check" \in Places(c)
  BY PlacesOf DEF Commands, Entering
<1>7. ASSUME NEW q \in Proc
      PROVE  /\ pc'[q] \in Places(cmd'[q])
             /\ run'[q] # None <=> cmd'[q] = "start"
             /\ result'[q] = "error" => pc'[q] \in Ending
             /\ pc'[q] = "steps" => todo'[q] \subseteq Services(run'[q])
  <2>1. CASE q = p
    BY <1>1, <1>2, <1>4, <1>6, <2>1
  <2>2. CASE q # p
    BY <1>2, <1>4, <2>2 DEF Processes
  <2> QED BY <2>1, <2>2
<1>8. pc' \in [Proc -> UNION {Places(d) : d \in Commands \cup {"none"}}]
  <2>1. DOMAIN pc' = Proc /\ pc' = [q \in Proc |-> pc'[q]]
    BY <1>2 DEF Processes
  <2>2. \A q \in Proc : pc'[q] \in UNION {Places(d) : d \in Commands \cup {"none"}}
    BY <1>5, <1>7
  <2> QED BY <2>1, <2>2
<1>9. \A q \in Proc : q # p => pc'[q] = pc[q] /\ cmd'[q] = cmd[q] /\ run'[q] = run[q]
  BY <1>2, <1>4 DEF Processes
<1>10. Processes'
  BY <1>2, <1>4, <1>5, <1>7, <1>8 DEF Processes
<1> QED BY <1>1, <1>2, <1>3, <1>4, <1>9, <1>10 DEF Live

\* A container that stops is nothing to the commands, but that it spoils them.
LEMMA CrashesKeeps ==
  ASSUME Processes, Crashes
  PROVE  Processes' /\ (\A p \in Proc : Live(p) => ~smooth'[p])
<1>1. smooth' = [p \in Proc |-> ~Live(p)] /\ UNCHANGED <<procVars, alone>>
  BY DEF Crashes
<1>2. smooth' \in [Proc -> BOOLEAN] /\ (\A p \in Proc : Live(p) => ~smooth'[p])
  BY <1>1 DEF Live
<1>3. /\ UNCHANGED <<cmd, pc, run, target, todo, result, alone>>
  BY <1>1 DEF procVars
<1> QED BY <1>2, <1>3 DEF Processes

\* No two commands both run of which one is alone, and while one runs there is no
\* record of the last.
LEMMA OnlyOne ==
  ASSUME Processes, Exclusive, Rested, [Next]_vars
  PROVE  Exclusive' /\ Rested'
<1>1. CASE UNCHANGED vars
  BY <1>1 DEF vars, procVars, ghostVars, Exclusive, Rested, Solo, Live, Quiet
<1>2. ASSUME NEW p \in Proc, Acts(p) PROVE Exclusive' /\ Rested'
  <2>1. Live(p) /\ (Advances(p) \/ \E how : Ends(p, how))
    BY <1>2, Moves
  <2>2. last = NoCommand
    BY <2>1 DEF Rested, Quiet
  <2>3. CASE Advances(p)
    <3>1. UNCHANGED <<alone, last>> /\ (\A q \in Proc : q # p => pc'[q] = pc[q])
      BY <2>3 DEF Advances, Processes
    <3>2. \A q \in Proc : Live(q)' => Live(q)
      BY <2>1, <3>1 DEF Live
    <3> QED BY <2>2, <3>1, <3>2 DEF Exclusive, Rested, Solo
  <2>4. CASE \E how : Ends(p, how)
    <3>1. PICK how : Ends(p, how)
      BY <2>4
    <3>2. /\ ~Live(p)' /\ \A q \in Proc : q # p => pc'[q] = pc[q] /\ alone'[q] = alone[q]
      BY <3>1, EndsKeeps DEF Ends, Processes
    <3>3. Exclusive'
      BY <3>2 DEF Exclusive, Solo, Live
    <3>4. last' # NoCommand => alone[p]
      BY <3>1 DEF Ends
    <3>5. last' # NoCommand => \A q \in Proc : ~Live(q)'
      BY <2>1, <3>2, <3>4 DEF Exclusive, Solo, Live
    <3> QED BY <3>3, <3>5 DEF Rested, Quiet
  <2> QED BY <2>1, <2>3, <2>4
<1>3. ASSUME NEW p \in Proc, NEW c \in Commands, Invoke(p, c) PROVE Exclusive' /\ Rested'
  <2>1. \A q \in Proc : q # p => pc'[q] = pc[q]
    BY <1>3, InvokeKeeps
  <2>2. /\ alone' = [q \in Proc |-> IF q = p THEN \A o \in Proc : ~Live(o)
                              ELSE alone[q] /\ ~Live(q)]
        /\ last' = NoCommand
    BY <1>3 DEF Invoke
  <2>3. /\ \A q \in Proc : q # p => (alone'[q] => ~Live(q))
        /\ alone'[p] => \A o \in Proc : ~Live(o)
    BY <2>2
  <2>4. Exclusive'
    BY <2>1, <2>3 DEF Exclusive, Solo, Live
  <2> QED BY <2>2, <2>4 DEF Rested
<1>4. CASE Crashes
  BY <1>4 DEF Crashes, procVars, Exclusive, Rested, Solo, Live
<1> QED BY <1>1, <1>2, <1>3, <1>4, WhoMoves

-----------------------------------------------------------------------------
(* The machine: what a command makes is its own, and it makes it once.     *)

\* A start comes to its containers once.
LEMMA Onward ==
  ASSUME Processes, NEW p \in Proc, Acts(p)
  PROVE  /\ pc'[p] \in BeforePortainer => pc[p] \in BeforePortainer
         /\ pc'[p] \in BeforeServices => pc[p] \in BeforeServices
         /\ pc'[p] = "steps" =>
              \/ pc[p] = "nets" /\ todo'[p] = Services(run[p])
              \/ pc[p] = "steps" /\ todo'[p] \subseteq todo[p]
<1>1. CASE ChecksPoison(p)
  BY <1>1, StepGoes DEF ChecksPoison, Goes, At, BeforePortainer, BeforeServices, Entering
<1>2. CASE Recovers(p)
  BY <1>2, StepGoes, EndsKeeps
    DEF Recovers, Goes, At, Live, BeforePortainer, BeforeServices, Entering
<1>3. CASE Handles(p)
  BY <1>3, StepGoes, EndsKeeps
    DEF Handles, Goes, At, Live, BeforePortainer, BeforeServices, Entering
<1>4. CASE Marks(p)
  <2>1. pc[p] = "mark"
    BY <1>4 DEF Marks, At
  <2> QED BY <2>1, Roads, StepGoes, <1>4 DEF Marks, BeforePortainer, BeforeServices, Goes
<1>5. CASE Reports(p)
  BY <1>5, StepGoes
    DEF Reports, Goes, BeforePortainer, BeforeServices, Entering, Stopping, Making
<1>6. CASE Unmarks(p)
  BY <1>6, StepGoes, EndsKeeps
    DEF Unmarks, Goes, Live, BeforePortainer, BeforeServices, Entering, Stopping, Making
<1>7. CASE Unlinks(p)
  BY <1>7, EndsKeeps
    DEF Unlinks, Live, BeforePortainer, BeforeServices, Entering, Stopping, Making
<1>8. CASE LoadsRun(p)
  BY <1>8, Gone DEF LoadsRun, At, BeforePortainer, BeforeServices, Stopping
<1>9. CASE RemovesService(p)
  BY <1>9 DEF RemovesService
<1>10. CASE ListsContainers(p)
  BY <1>10, LoopGoes DEF ListsContainers, Goes, At, BeforePortainer, BeforeServices, Stopping
<1>11. CASE Kills(p)
  BY <1>11 DEF Kills
<1>12. CASE DeletesRunNetworks(p)
  BY <1>12, StepGoes
    DEF DeletesRunNetworks, Goes, At, BeforePortainer, BeforeServices, Stopping
<1>13. CASE ListsNetworks(p)
  BY <1>13, Gone DEF ListsNetworks, At, BeforePortainer, BeforeServices, Stopping
<1>14. CASE RemovesNetwork(p)
  BY <1>14 DEF RemovesNetwork
<1>15. CASE ForgetsRun(p)
  BY <1>15, StepGoes
    DEF ForgetsRun, AfterStop, Goes, At, BeforePortainer, BeforeServices, Stopping
<1>16. CASE DeletesRunId(p)
  BY <1>16, StepGoes, EndsKeeps
    DEF DeletesRunId, AfterStop, Goes, At, Live, BeforePortainer, BeforeServices, Stopping
<1>17. CASE ChecksHost(p)
  BY <1>17, StepGoes DEF ChecksHost, Goes, At, BeforePortainer, BeforeServices
<1>18. CASE SavesRunId(p)
  BY <1>18, StepGoes DEF SavesRunId, Goes, At, BeforePortainer, BeforeServices, Making
<1>19. CASE MakesVolumes(p)
  BY <1>19, StepGoes DEF MakesVolumes, Goes, At, BeforePortainer, BeforeServices, Making
<1>20. CASE LinksLatest(p)
  BY <1>20, StepGoes, EndsKeeps
    DEF LinksLatest, Goes, At, Live, BeforePortainer, BeforeServices, Making
<1>21. CASE LoadsConfig(p)
  BY <1>21, StepGoes, EndsKeeps
    DEF LoadsConfig, Goes, At, Live, BeforePortainer, BeforeServices, Making
<1>22. CASE RemovesPortainer(p)
  BY <1>22, StepGoes DEF RemovesPortainer, Goes, At, BeforePortainer, BeforeServices, Making
<1>23. CASE RunsPortainer(p)
  BY <1>23, StepGoes, EndsKeeps
    DEF RunsPortainer, Goes, At, Live, BeforePortainer, BeforeServices, Making
<1>24. CASE CreatesNetworks(p)
  <2>1. pc[p] = "nets" /\ pc'[p] = "steps" /\ todo'[p] = Services(run[p])
    BY <1>24, Gone DEF CreatesNetworks, At
  <2> QED BY <2>1 DEF BeforePortainer, BeforeServices, Entering, Stopping
<1>25. CASE Launches(p)
  BY <1>25 DEF Launches
<1>26. CASE StepMisses(p)
  BY <1>26, Gone
    DEF StepMisses, NoCluster, BeforePortainer, BeforeServices, Entering, Stopping, Making
<1>27. CASE StepsDone(p)
  BY <1>27, StepGoes
    DEF StepsDone, Goes, BeforePortainer, BeforeServices, Entering, Stopping, Making
<1>28. CASE PersistsLogs(p)
  BY <1>28, StepGoes
    DEF PersistsLogs, Goes, BeforePortainer, BeforeServices, Entering, Stopping, Making
<1>29. CASE ListsDead(p)
  BY <1>29, Gone DEF ListsDead, BeforePortainer, BeforeServices, Entering, Stopping, Making
<1>30. CASE RemovesDead(p)
  BY <1>30 DEF RemovesDead
<1>31. CASE SpawnsStatus(p)
  BY <1>31, StepGoes
    DEF SpawnsStatus, Goes, BeforePortainer, BeforeServices, Entering, Stopping, Making
<1>32. CASE ChildChecks(p)
  BY <1>32, StepGoes
    DEF ChildChecks, Goes, BeforePortainer, BeforeServices, Entering, Stopping, Making
<1>33. CASE ChildRecovers(p)
  BY <1>33, StepGoes
    DEF ChildRecovers, Goes, BeforePortainer, BeforeServices, Entering, Stopping, Making
<1>34. CASE ChildReports(p)
  BY <1>34, StepGoes
    DEF ChildReports, Goes, BeforePortainer, BeforeServices, Entering, Stopping, Making
<1>35. CASE ChildUnlinks(p)
  BY <1>35, StepGoes
    DEF ChildUnlinks, Goes, BeforePortainer, BeforeServices, Entering, Stopping, Making
<1>36. CASE Returns(p)
  BY <1>36, StepGoes, EndsKeeps
    DEF Returns, Goes, Live, BeforePortainer, BeforeServices, Entering, Stopping, Making
<1>37. CASE ListsEntries(p)
  BY <1>37, Gone DEF ListsEntries, BeforePortainer, BeforeServices, Entering, Stopping, Making
<1>38. CASE RemovesEntry(p)
  BY <1>38 DEF RemovesEntry
<1>39. CASE Cleaned(p)
  BY <1>39, StepGoes
    DEF Cleaned, Goes, BeforePortainer, BeforeServices, Entering, Stopping, Making
<1>40. CASE Initializes(p)
  BY <1>40, StepGoes
    DEF Initializes, Goes, BeforePortainer, BeforeServices, Entering, Stopping, Making
<1>41. CASE StopBreaks(p)
  BY <1>41, Gone, EndsKeeps DEF StopBreaks, Live, BeforePortainer, BeforeServices, Stopping
<1>42. CASE StepBreaks(p)
  BY <1>42, Gone
    DEF StepBreaks, NoCluster, BeforePortainer, BeforeServices, Entering, Stopping, Making
<1>43. CASE Warns(p)
  BY <1>43, Gone DEF Warns, At, BeforePortainer, BeforeServices, Entering, Stopping, Making
<1>44. CASE Breaks(p)
  BY <1>44, EndsKeeps
    DEF Breaks, Live, BeforePortainer, BeforeServices, Entering, Stopping, Making
<1>45. CASE Dies(p)
  BY <1>45, EndsKeeps
    DEF Dies, Live, BeforePortainer, BeforeServices, Entering, Stopping, Making
<1> QED BY <1>1, <1>2, <1>3, <1>4, <1>5, <1>6, <1>7, <1>8, <1>9, <1>10, <1>11, <1>12, <1>13,
    <1>14, <1>15, <1>16, <1>17, <1>18, <1>19, <1>20, <1>21, <1>22, <1>23, <1>24, <1>25,
    <1>26, <1>27, <1>28, <1>29, <1>30, <1>31, <1>32, <1>33, <1>34, <1>35, <1>36, <1>37,
    <1>38, <1>39, <1>40, <1>41, <1>42, <1>43, <1>44, <1>45
    DEF Acts, MainStep, StopStep, StartStep

\* What is only of a start has a run id.
LEMMA Starter ==
  ASSUME Processes, NEW p \in Proc, pc[p] \in {"host"} \cup Making \cup Ending
  PROVE  cmd[p] = "start" /\ run[p] \in RunId /\ run[p] # None
<1>1. cmd[p] = "start"
  BY Where
<1> QED BY <1>1 DEF Processes

Shrinks == running' \subseteq running /\ stopped' \subseteq stopped

\* A container of its own, Portainer or one of the steps.
Gains(p, c) ==
  /\ run[p] \in RunId /\ c \notin Containers
  /\ \/ running' = running \cup {c} /\ UNCHANGED stopped
     \/ UNCHANGED running /\ stopped' = stopped \cup {c}
  /\ \/ /\ c = Portainer(run[p]) /\ pc[p] = "portainer" /\ pc'[p] \in {"nets", "off"}
        /\ running' # running => \A d \in running : d[2] # "portainer"
     \/ /\ c \in Services(run[p]) /\ pc[p] = "steps" /\ pc'[p] \in {"steps", "logs"}
        /\ c \notin todo'[p]

Nets(p) ==
  \/ networks' \subseteq networks
  \/ run[p] \in RunId /\ networks' = networks \cup {Net(run[p])}

Typed ==
  /\ current \in RunId \cup {None, "torn"}
  /\ latest \in RunId \cup {None}
  /\ poison \in BOOLEAN /\ config \in BOOLEAN
  /\ home \in {"clean", "dirty", "ready"}

\* What a command does to docker and to the files.
LEMMA Makes ==
  ASSUME Processes, Machine, Reserved, NEW p \in Proc, Acts(p)
  PROVE  (Shrinks \/ \E c : Gains(p, c)) /\ Nets(p) /\ Typed'
<1>t. Typed
  BY DEF Machine, Typed
<1>1. CASE ChecksPoison(p)
  BY <1>1, <1>t DEF ChecksPoison, Shrinks, Nets, Typed, dockerVars, fileVars
<1>2. CASE Recovers(p)
  BY <1>2, <1>t DEF Recovers, Shrinks, Nets, Typed, dockerVars, fileVars
<1>3. CASE Handles(p)
  BY <1>3, <1>t DEF Handles, Shrinks, Nets, Typed, dockerVars, fileVars
<1>4. CASE Marks(p)
  BY <1>4, <1>t DEF Marks, Shrinks, Nets, Typed, dockerVars
<1>5. CASE Reports(p)
  BY <1>5, <1>t DEF Reports, Shrinks, Nets, Typed, dockerVars, fileVars
<1>6. CASE Unmarks(p)
  BY <1>6, <1>t DEF Unmarks, Shrinks, Nets, Typed, dockerVars, fileVars
<1>7. CASE Unlinks(p)
  BY <1>7, <1>t DEF Unlinks, Shrinks, Nets, Typed, dockerVars, fileVars
<1>8. CASE LoadsRun(p)
  BY <1>8, <1>t DEF LoadsRun, Shrinks, Nets, Typed, dockerVars, fileVars
<1>9. CASE RemovesService(p)
  BY <1>9, <1>t DEF RemovesService, Shrinks, Nets, Typed, fileVars
<1>10. CASE ListsContainers(p)
  BY <1>10, <1>t DEF ListsContainers, Shrinks, Nets, Typed, dockerVars, fileVars
<1>11. CASE Kills(p)
  BY <1>11, <1>t DEF Kills, Shrinks, Nets, Typed, fileVars
<1>12. CASE DeletesRunNetworks(p)
  BY <1>12, <1>t DEF DeletesRunNetworks, Shrinks, Nets, Typed, fileVars
<1>13. CASE ListsNetworks(p)
  BY <1>13, <1>t DEF ListsNetworks, Shrinks, Nets, Typed, dockerVars, fileVars
<1>14. CASE RemovesNetwork(p)
  BY <1>14, <1>t DEF RemovesNetwork, Shrinks, Nets, Typed, fileVars
<1>15. CASE ForgetsRun(p)
  BY <1>15, <1>t DEF ForgetsRun, Shrinks, Nets, Typed, dockerVars, fileVars
<1>16. CASE DeletesRunId(p)
  BY <1>16, <1>t DEF DeletesRunId, Shrinks, Nets, Typed, dockerVars
<1>17. CASE ChecksHost(p)
  BY <1>17, <1>t DEF ChecksHost, Shrinks, Nets, Typed, dockerVars, fileVars
<1>18. CASE SavesRunId(p)
  BY <1>18, <1>t, Starter DEF SavesRunId, Shrinks, Nets, Typed, dockerVars, Making, At
<1>19. CASE MakesVolumes(p)
  BY <1>19, <1>t DEF MakesVolumes, Shrinks, Nets, Typed, dockerVars
<1>20. CASE LinksLatest(p)
  BY <1>20, <1>t, Starter
    DEF LinksLatest, Shrinks, Nets, Typed, dockerVars, Making, At, Unlinked
<1>21. CASE LoadsConfig(p)
  BY <1>21, <1>t DEF LoadsConfig, Shrinks, Nets, Typed, dockerVars, fileVars
<1>22. CASE RemovesPortainer(p)
  BY <1>22, <1>t DEF RemovesPortainer, Shrinks, Nets, Typed, fileVars
<1>23. CASE RunsPortainer(p)
  <2>1. pc[p] = "portainer" /\ run[p] \in RunId /\ run[p] # None
    BY <1>23, Starter DEF RunsPortainer, At, Making
  <2>2. Portainer(run[p]) \notin Containers
    BY <2>1 DEF Reserved, BeforePortainer, Making, Portainer
  <2>3. \/ /\ running' = running \cup {Portainer(run[p])} /\ UNCHANGED stopped
           /\ Steps(p, "nets") /\ \A d \in running : d[2] # "portainer"
        \/ /\ stopped' = stopped \cup {Portainer(run[p])} /\ UNCHANGED running
           /\ Ends(p, "failed")
    BY <1>23 DEF RunsPortainer
  <2>4. pc'[p] \in {"nets", "off"}
    BY <2>3, Gone, EndsKeeps DEF Steps, Live
  <2>5. Gains(p, Portainer(run[p]))
    BY <2>1, <2>2, <2>3, <2>4 DEF Gains
  <2> QED BY <1>t, <1>23, <2>5 DEF RunsPortainer, Nets, Typed, fileVars
<1>24. CASE CreatesNetworks(p)
  BY <1>24, <1>t, Starter DEF CreatesNetworks, Shrinks, Nets, Typed, fileVars, Making, At
<1>25. CASE Launches(p)
  <2>1. pc[p] = "steps" /\ run[p] \in RunId /\ run[p] # None /\ pc'[p] = "steps"
    BY <1>25, Starter DEF Launches, At, Making
  <2>2. PICK c \in todo[p] : running' = running \cup {c} /\ todo' = [todo EXCEPT ![p] = @ \ {c}]
    BY <1>25 DEF Launches
  <2>3. c \in Services(run[p]) /\ c \notin Containers /\ c \notin todo'[p]
    BY <2>1, <2>2, Gone DEF Processes, Reserved
  <2>4. Gains(p, c)
    BY <1>25, <2>1, <2>2, <2>3 DEF Launches, Gains
  <2> QED BY <1>t, <1>25, <2>4 DEF Launches, Nets, Typed, fileVars
<1>26. CASE StepMisses(p)
  BY <1>26, <1>t DEF StepMisses, Shrinks, Nets, Typed, fileVars, NoCluster
<1>27. CASE StepsDone(p)
  BY <1>27, <1>t DEF StepsDone, Shrinks, Nets, Typed, dockerVars, fileVars
<1>28. CASE PersistsLogs(p)
  BY <1>28, <1>t DEF PersistsLogs, Shrinks, Nets, Typed, dockerVars, fileVars
<1>29. CASE ListsDead(p)
  BY <1>29, <1>t DEF ListsDead, Shrinks, Nets, Typed, dockerVars, fileVars
<1>30. CASE RemovesDead(p)
  BY <1>30, <1>t DEF RemovesDead, Shrinks, Nets, Typed, fileVars
<1>31. CASE SpawnsStatus(p)
  BY <1>31, <1>t DEF SpawnsStatus, Shrinks, Nets, Typed, dockerVars, fileVars
<1>32. CASE ChildChecks(p)
  BY <1>32, <1>t DEF ChildChecks, Shrinks, Nets, Typed, dockerVars, fileVars
<1>33. CASE ChildRecovers(p)
  BY <1>33, <1>t DEF ChildRecovers, Shrinks, Nets, Typed, dockerVars, fileVars
<1>34. CASE ChildReports(p)
  BY <1>34, <1>t DEF ChildReports, Shrinks, Nets, Typed, dockerVars, fileVars
<1>35. CASE ChildUnlinks(p)
  BY <1>35, <1>t DEF ChildUnlinks, Shrinks, Nets, Typed, dockerVars, fileVars
<1>36. CASE Returns(p)
  BY <1>36, <1>t DEF Returns, Shrinks, Nets, Typed, dockerVars, fileVars
<1>37. CASE ListsEntries(p)
  BY <1>37, <1>t DEF ListsEntries, Shrinks, Nets, Typed, dockerVars, fileVars
<1>38. CASE RemovesEntry(p)
  BY <1>38, <1>t DEF RemovesEntry, Shrinks, Nets, Typed, dockerVars
<1>39. CASE Cleaned(p)
  BY <1>39, <1>t DEF Cleaned, Shrinks, Nets, Typed, dockerVars, fileVars
<1>40. CASE Initializes(p)
  BY <1>40, <1>t DEF Initializes, Shrinks, Nets, Typed, dockerVars, fileVars
<1>41. CASE StopBreaks(p)
  BY <1>41, <1>t DEF StopBreaks, Shrinks, Nets, Typed, dockerVars, fileVars
<1>42. CASE StepBreaks(p)
  <2>1. pc[p] = "steps" /\ run[p] \in RunId /\ run[p] # None
    BY <1>42, Starter DEF StepBreaks, At, Making
  <2>2. pc'[p] = "logs" /\ todo'[p] = {} /\ UNCHANGED <<networks, fileVars>>
    BY <1>42, Gone DEF StepBreaks, NoCluster
  <2>3. PICK c \in todo[p] :
          \/ UNCHANGED <<running, stopped>>
          \/ stopped' = stopped \cup {c} /\ UNCHANGED running
          \/ running' = running \cup {c} /\ UNCHANGED stopped
    BY <1>42 DEF StepBreaks
  <2>4. c \in Services(run[p]) /\ c \notin Containers
    BY <2>1, <2>3 DEF Processes, Reserved
  <2>5. Shrinks \/ Gains(p, c)
    BY <2>1, <2>2, <2>3, <2>4 DEF Shrinks, Gains
  <2> QED BY <1>t, <2>2, <2>5 DEF Nets, Typed, fileVars
<1>43. CASE Warns(p)
  BY <1>43, <1>t DEF Warns, Shrinks, Nets, Typed, dockerVars, fileVars
<1>44. CASE Breaks(p)
  <2>1. pc'[p] = "off"
    BY <1>44, EndsKeeps DEF Breaks, Live
  <2>2. Shrinks \/ \E c : Gains(p, c)
    <3>1. CASE pc[p] = "portainer"
      <4>1. run[p] \in RunId /\ run[p] # None
        BY <3>1, Starter DEF Making
      <4>2. Portainer(run[p]) \notin Containers
        BY <3>1, <4>1 DEF Reserved, BeforePortainer, Making, Portainer
      <4>3. UNCHANGED running /\ stopped' \in {stopped, stopped \cup {Portainer(run[p])}}
        BY <1>44, <3>1 DEF Breaks, At
      <4> QED BY <2>1, <3>1, <4>1, <4>2, <4>3 DEF Shrinks, Gains
    <3>2. CASE pc[p] # "portainer"
      BY <1>44, <3>2 DEF Breaks, At, Shrinks
    <3> QED BY <3>1, <3>2
  <2> QED BY <1>t, <1>44, <2>2 DEF Breaks, Nets, Typed
<1>45. CASE Dies(p)
  BY <1>45, <1>t DEF Dies, Shrinks, Nets, Typed, dockerVars, fileVars
<1> QED BY <1>1, <1>2, <1>3, <1>4, <1>5, <1>6, <1>7, <1>8, <1>9, <1>10, <1>11, <1>12, <1>13,
    <1>14, <1>15, <1>16, <1>17, <1>18, <1>19, <1>20, <1>21, <1>22, <1>23, <1>24, <1>25,
    <1>26, <1>27, <1>28, <1>29, <1>30, <1>31, <1>32, <1>33, <1>34, <1>35, <1>36, <1>37,
    <1>38, <1>39, <1>40, <1>41, <1>42, <1>43, <1>44, <1>45
    DEF Acts, MainStep, StopStep, StartStep

\* What the names of the containers say.
LEMMA Names ==
  /\ DOMAIN Rank = {"lotus", "db"}
  /\ \A r : \A c \in Services(r) : c[1] = r /\ IsService(c) /\ c[2] # "portainer"
  /\ \A r : Portainer(r)[1] = r /\ Portainer(r)[2] = "portainer" /\ ~IsService(Portainer(r))
  /\ \A c \in Objects : IsService(c) => c \in Services(c[1])
<1>1. DOMAIN Rank = {"lotus", "db"}
  BY DEF Rank
<1>2. \A r : \A c \in Services(r) : c[1] = r /\ IsService(c) /\ c[2] # "portainer"
  BY <1>1 DEF Services, IsService
<1>3. \A r : Portainer(r)[1] = r /\ Portainer(r)[2] = "portainer" /\ ~IsService(Portainer(r))
  BY <1>1 DEF Portainer, IsService
<1>4. \A c \in Objects : IsService(c) => c \in Services(c[1])
  BY <1>2, <1>3 DEF Objects
<1> QED BY <1>1, <1>2, <1>3, <1>4

\* The machine stays what it is made of, with one Portainer at most.
LEMMA MachineKept ==
  ASSUME Processes, Machine, Reserved, OnePortainer, NEW p \in Proc, Acts(p)
  PROVE  Machine' /\ OnePortainer'
<1>1. Nets(p) /\ Typed'
  BY Makes
<1>2. networks' \subseteq {Net(r) : r \in RunId}
  BY <1>1 DEF Nets, Machine
<1>3. CASE Shrinks
  <2>1. running' \subseteq Objects /\ stopped' \subseteq Objects /\ running' \cap stopped' = {}
    BY <1>3 DEF Shrinks, Machine
  <2>2. OnePortainer'
    BY <1>3 DEF Shrinks, OnePortainer
  <2> QED BY <1>1, <1>2, <2>1, <2>2 DEF Machine, Typed
<1>4. ASSUME NEW c, Gains(p, c) PROVE Machine' /\ OnePortainer'
  <2>1. run[p] \in RunId /\ c \notin running /\ c \notin stopped
        /\ c \in Services(run[p]) \cup {Portainer(run[p])}
    BY <1>4 DEF Gains, Containers
  <2>2. c \in Objects
    BY <2>1 DEF Objects
  <2>3. \/ running' = running \cup {c} /\ stopped' = stopped
        \/ running' = running /\ stopped' = stopped \cup {c}
    BY <1>4 DEF Gains
  <2>4. running' \subseteq Objects /\ stopped' \subseteq Objects /\ running' \cap stopped' = {}
    BY <2>1, <2>2, <2>3 DEF Machine
  <2>5. running' # running => c[2] # "portainer" \/ \A d \in running : d[2] # "portainer"
    BY <1>4, Names DEF Gains
  <2>6. OnePortainer'
    BY <2>3, <2>5 DEF OnePortainer
  <2> QED BY <1>1, <1>2, <2>4, <2>6 DEF Machine, Typed
<1> QED BY <1>3, <1>4, Makes

\* What an act leaves of the others.
LEMMA Others ==
  ASSUME Processes, NEW p \in Proc, Acts(p)
  PROVE  /\ \A q \in Proc : q # p =>
              /\ pc'[q] = pc[q] /\ cmd'[q] = cmd[q] /\ run'[q] = run[q]
              /\ todo'[q] = todo[q] /\ alone'[q] = alone[q]
         /\ run'[p] \in {run[p], None}
         /\ Live(p)' => run'[p] = run[p] /\ alone'[p] = alone[p] /\ cmd'[p] = cmd[p]
<1>1. CASE Advances(p)
  BY <1>1 DEF Advances, Processes
<1>2. ASSUME NEW how, Ends(p, how)
      PROVE  /\ \A q \in Proc : q # p =>
                  /\ pc'[q] = pc[q] /\ cmd'[q] = cmd[q] /\ run'[q] = run[q]
                  /\ todo'[q] = todo[q] /\ alone'[q] = alone[q]
             /\ run'[p] = None
             /\ ~Live(p)'
  BY <1>2, EndsKeeps DEF Ends, Processes
<1> QED BY <1>1, <1>2, Moves

\* A run id stays that of one start.
LEMMA ReservedKept ==
  ASSUME Processes, Machine, Reserved, NEW p \in Proc, Acts(p)
  PROVE  Reserved'
<1>0. \A q \in Proc : run'[q] \in {run[q], None} /\ (q # p => run'[q] = run[q])
  BY Others
<1>1. \A q, o \in Proc : run'[q] # None /\ run'[q] = run'[o] => q = o
  BY <1>0 DEF Reserved
<1>2. ASSUME NEW q \in Proc, run'[q] # None, q # p
      PROVE  /\ pc'[q] \in BeforePortainer => \A c \in Containers' : c[1] # run'[q]
             /\ pc'[q] \in BeforeServices =>
                  \A c \in Containers' : IsService(c) => c[1] # run'[q]
             /\ pc'[q] = "steps" => todo'[q] \cap Containers' = {}
  <2>1. pc'[q] = pc[q] /\ run'[q] = run[q] /\ todo'[q] = todo[q] /\ run[p] # run[q]
    BY <1>2, Others DEF Reserved
  <2>2. ASSUME NEW c \in Containers' PROVE c \in Containers \/ c[1] # run[q]
    <3>1. CASE Shrinks
      BY <3>1 DEF Shrinks, Containers
    <3>2. ASSUME NEW d, Gains(p, d) PROVE c \in Containers \/ c[1] # run[q]
      <4>1. c \in Containers \/ c = d
        BY <3>2 DEF Gains, Containers
      <4>2. d[1] = run[p]
        BY <3>2, Names DEF Gains
      <4> QED BY <2>1, <4>1, <4>2
    <3> QED BY <3>1, <3>2, Makes
  <2>3. pc[q] = "steps" => \A c \in todo[q] : c[1] = run[q]
    BY Names DEF Processes
  <2> QED BY <1>2, <2>1, <2>2, <2>3 DEF Reserved
<1>3. ASSUME run'[p] # None
      PROVE  /\ pc'[p] \in BeforePortainer => \A c \in Containers' : c[1] # run'[p]
             /\ pc'[p] \in BeforeServices =>
                  \A c \in Containers' : IsService(c) => c[1] # run'[p]
             /\ pc'[p] = "steps" => todo'[p] \cap Containers' = {}
  <2>1. run'[p] = run[p] /\ run[p] # None
    BY <1>3, <1>0
  <2>2. CASE Shrinks
    <3>1. Containers' \subseteq Containers
      BY <2>2 DEF Shrinks, Containers
    <3>2. pc'[p] = "steps" => todo'[p] \cap Containers = {}
      BY <2>1, Onward, Names DEF Reserved, BeforeServices
    <3> QED BY <2>1, <3>1, <3>2, Onward DEF Reserved
  <2>3. ASSUME NEW d, Gains(p, d)
        PROVE  /\ pc'[p] \in BeforePortainer => \A c \in Containers' : c[1] # run'[p]
               /\ pc'[p] \in BeforeServices =>
                    \A c \in Containers' : IsService(c) => c[1] # run'[p]
               /\ pc'[p] = "steps" => todo'[p] \cap Containers' = {}
    <3>1. Containers' = Containers \cup {d}
      BY <2>3 DEF Gains, Containers
    <3>2. CASE pc[p] = "portainer"
      <4>1. d = Portainer(run[p]) /\ pc'[p] \in {"nets", "off"}
        BY <2>3, <3>2 DEF Gains
      <4>2. pc'[p] \notin BeforePortainer /\ pc'[p] # "steps"
        BY <4>1 DEF BeforePortainer, Entering, Stopping, Making
      <4>3. \A c \in Containers : IsService(c) => c[1] # run[p]
        BY <2>1, <3>2 DEF Reserved, BeforePortainer, Making
      <4> QED BY <2>1, <3>1, <4>1, <4>2, <4>3, Names
    <3>3. CASE pc[p] = "steps"
      <4>1. pc'[p] \in {"steps", "logs"} /\ d \notin todo'[p]
        BY <2>3, <3>3 DEF Gains
      <4>2. pc'[p] \notin BeforePortainer /\ pc'[p] \notin BeforeServices
        BY <4>1 DEF BeforeServices, BeforePortainer, Entering, Stopping, Making
      <4>3. pc'[p] = "steps" => todo'[p] \cap Containers = {}
        BY <2>1, <3>3, Onward DEF Reserved
      <4> QED BY <3>1, <4>1, <4>2, <4>3
    <3> QED BY <2>3, <3>2, <3>3 DEF Gains
  <2> QED BY <2>2, <2>3, Makes
<1> QED BY <1>1, <1>2, <1>3 DEF Reserved

\* So do they all, whatever the step.
LEMMA MachineStep ==
  ASSUME Processes, Machine, Reserved, OnePortainer, [Next]_vars
  PROVE  Processes' /\ Machine' /\ Reserved' /\ OnePortainer'
<1>1. CASE UNCHANGED vars
  BY <1>1
    DEF vars, procVars, dockerVars, fileVars, ghostVars, Processes, Machine, Reserved,
      OnePortainer, Containers
<1>2. ASSUME NEW p \in Proc, Acts(p)
      PROVE  Processes' /\ Machine' /\ Reserved' /\ OnePortainer'
  <2>1. Processes'
    BY <1>2, Moves, AdvancesKeeps, EndsKeeps
  <2> QED BY <1>2, <2>1, MachineKept, ReservedKept
<1>3. ASSUME NEW p \in Proc, NEW c \in Commands, Invoke(p, c)
      PROVE  Processes' /\ Machine' /\ Reserved' /\ OnePortainer'
  <2>1. UNCHANGED <<running, stopped, networks, poison, current, latest, config, home, todo>>
    BY <1>3 DEF Invoke, dockerVars, fileVars
  <2>2. /\ Processes' /\ pc'[p] = "check" /\ run[p] = None
        /\ \A q \in Proc : q # p => pc'[q] = pc[q] /\ run'[q] = run[q]
        /\ run'[p] = None \/ run'[p] \in Fresh
    BY <1>3, InvokeKeeps
  <2>3. Machine' /\ OnePortainer'
    BY <2>1 DEF Machine, OnePortainer
  <2>4. \A q, o \in Proc : run'[q] # None /\ run'[q] = run'[o] => q = o
    BY <2>2 DEF Reserved, Fresh
  <2>5. ASSUME NEW q \in Proc, run'[q] # None
        PROVE  /\ pc'[q] \in BeforePortainer => \A d \in Containers' : d[1] # run'[q]
               /\ pc'[q] \in BeforeServices =>
                    \A d \in Containers' : IsService(d) => d[1] # run'[q]
               /\ pc'[q] = "steps" => todo'[q] \cap Containers' = {}
    <3>1. Containers' = Containers
      BY <2>1 DEF Containers
    <3>2. CASE q = p
      BY <2>2, <2>5, <3>1, <3>2 DEF Fresh
    <3>3. CASE q # p
      BY <2>1, <2>2, <2>5, <3>1, <3>3 DEF Reserved
    <3> QED BY <3>2, <3>3
  <2>6. Reserved'
    BY <2>4, <2>5 DEF Reserved
  <2> QED BY <2>2, <2>3, <2>6
<1>4. CASE Crashes
  <2>1. PICK c \in running :
          IsService(c) /\ running' = running \ {c} /\ stopped' = stopped \cup {c}
    BY <1>4 DEF Crashes
  <2>2. UNCHANGED <<cmd, pc, run, target, todo, result, networks, poison, current, latest,
                    config, home>>
    BY <1>4 DEF Crashes, procVars, fileVars
  <2>3. Containers' = Containers
    BY <2>1 DEF Containers
  <2>4. Machine' /\ OnePortainer'
    BY <2>1, <2>2 DEF Machine, OnePortainer
  <2>5. Reserved'
    BY <2>2, <2>3 DEF Reserved
  <2> QED BY <1>4, <2>4, <2>5, CrashesKeeps
<1> QED BY <1>1, <1>2, <1>3, <1>4, WhoMoves

-----------------------------------------------------------------------------
(* A command alone on the machine: what it finds and what it does.         *)

\* A command that goes on keeps its name, its run and, but for a failed step, its
\* result, and no trouble of its own is forgotten.
LEMMA Stable ==
  ASSUME Processes, NEW p \in Proc, Acts(p), Live(p)'
  PROVE  /\ Live(p) /\ cmd'[p] = cmd[p] /\ run'[p] = run[p] /\ alone'[p] = alone[p]
         /\ smooth'[p] => smooth[p]
         /\ last' = last
<1>1. Live(p) /\ Advances(p)
  BY Moves, EndsKeeps
<1>2. smooth'[p] \in {smooth[p], FALSE}
  BY <1>1 DEF Advances
<1> QED BY <1>1, <1>2 DEF Advances, Processes

\* The poison file of a command on its way.
LEMMA MarkedKept ==
  ASSUME Processes, NEW p \in Proc, Acts(p), Live(p)', Marked(p)
  PROVE  Marked(p)'
<1>0. Live(p) /\ cmd'[p] = cmd[p]
  BY Stable
<1>1. CASE ChecksPoison(p)
  BY <1>0, <1>1, StepGoes DEF ChecksPoison, Goes, Marked, fileVars, Entering
<1>2. CASE Recovers(p)
  BY <1>0, <1>2, StepGoes, EndsKeeps DEF Recovers, Goes, Marked, Entering
<1>3. CASE Handles(p)
  BY <1>0, <1>3, StepGoes, EndsKeeps DEF Handles, Goes, At, Marked, fileVars
<1>4. CASE Marks(p)
  BY <1>0, <1>4, Where, StepGoes DEF Marks, First, Goes, At, Marked
<1>5. CASE Reports(p)
  BY <1>0, <1>5, Where, StepGoes DEF Reports, Goes, At, Marked
<1>6. CASE Unmarks(p)
  BY <1>0, <1>6, StepGoes, EndsKeeps DEF Unmarks, Goes, Marked, fileVars
<1>7. CASE Unlinks(p)
  BY <1>0, <1>7, EndsKeeps DEF Unlinks
<1>8. CASE LoadsRun(p)
  BY <1>0, <1>8, Gone DEF LoadsRun, At, Marked, fileVars, Entering
<1>9. CASE RemovesService(p)
  BY <1>0, <1>9 DEF RemovesService, Marked, fileVars
<1>10. CASE ListsContainers(p)
  BY <1>0, <1>10, Gone DEF ListsContainers, At, Marked, fileVars, Entering
<1>11. CASE Kills(p)
  BY <1>0, <1>11 DEF Kills, Marked, fileVars
<1>12. CASE DeletesRunNetworks(p)
  BY <1>0, <1>12, StepGoes DEF DeletesRunNetworks, Goes, At, Marked, fileVars, Entering
<1>13. CASE ListsNetworks(p)
  BY <1>0, <1>13, Gone DEF ListsNetworks, At, Marked, fileVars, Entering
<1>14. CASE RemovesNetwork(p)
  BY <1>0, <1>14 DEF RemovesNetwork, Marked, fileVars
<1>15. CASE ForgetsRun(p)
  BY <1>0, <1>15, StepGoes DEF ForgetsRun, AfterStop, Goes, At, Marked, fileVars, Entering
<1>16. CASE DeletesRunId(p)
  BY <1>0, <1>16, StepGoes, EndsKeeps DEF DeletesRunId, AfterStop, Goes, At, Marked, Entering
<1>17. CASE ChecksHost(p)
  BY <1>0, <1>17, Where, StepGoes DEF ChecksHost, Goes, At, Marked
<1>18. CASE SavesRunId(p)
  BY <1>0, <1>18, StepGoes DEF SavesRunId, Goes, At, Marked, Entering
<1>19. CASE MakesVolumes(p)
  BY <1>0, <1>19, StepGoes DEF MakesVolumes, Goes, At, Marked, Entering
<1>20. CASE LinksLatest(p)
  BY <1>0, <1>20, StepGoes, EndsKeeps DEF LinksLatest, Goes, At, Marked, Entering
<1>21. CASE LoadsConfig(p)
  BY <1>0, <1>21, StepGoes, EndsKeeps DEF LoadsConfig, Goes, At, Marked, fileVars, Entering
<1>22. CASE RemovesPortainer(p)
  BY <1>0, <1>22, StepGoes DEF RemovesPortainer, Goes, At, Marked, fileVars, Entering
<1>23. CASE RunsPortainer(p)
  BY <1>0, <1>23, StepGoes, EndsKeeps DEF RunsPortainer, Goes, At, Marked, fileVars, Entering
<1>24. CASE CreatesNetworks(p)
  BY <1>0, <1>24, Gone DEF CreatesNetworks, At, Marked, fileVars, Entering
<1>25. CASE Launches(p)
  BY <1>0, <1>25 DEF Launches, Marked, fileVars
<1>26. CASE StepMisses(p)
  BY <1>0, <1>26, Gone DEF StepMisses, NoCluster, At, Marked, fileVars, Entering
<1>27. CASE StepsDone(p)
  BY <1>0, <1>27, StepGoes DEF StepsDone, Goes, At, Marked, fileVars, Entering
<1>28. CASE PersistsLogs(p)
  BY <1>0, <1>28, StepGoes DEF PersistsLogs, Goes, At, Marked, fileVars, Entering
<1>29. CASE ListsDead(p)
  BY <1>0, <1>29, Gone DEF ListsDead, At, Marked, fileVars, Entering
<1>30. CASE RemovesDead(p)
  BY <1>0, <1>30 DEF RemovesDead, Marked, fileVars
<1>31. CASE SpawnsStatus(p)
  BY <1>0, <1>31, StepGoes DEF SpawnsStatus, Goes, At, Marked, fileVars, Entering
<1>32. CASE ChildChecks(p)
  BY <1>0, <1>32, StepGoes DEF ChildChecks, Goes, At, Marked, fileVars, Entering
<1>33. CASE ChildRecovers(p)
  BY <1>0, <1>33, Where, StepGoes DEF ChildRecovers, Goes, At, Marked, Child, Ending
<1>34. CASE ChildReports(p)
  BY <1>0, <1>34, StepGoes DEF ChildReports, Goes, At, Marked, fileVars, Entering
<1>35. CASE ChildUnlinks(p)
  BY <1>0, <1>35, Where, StepGoes DEF ChildUnlinks, Goes, At, Marked, Child, Ending
<1>36. CASE Returns(p)
  BY <1>0, <1>36, StepGoes, EndsKeeps DEF Returns, Goes, At, Marked, fileVars, Entering
<1>37. CASE ListsEntries(p)
  BY <1>0, <1>37, Gone DEF ListsEntries, At, Marked, fileVars, Entering
<1>38. CASE RemovesEntry(p)
  BY <1>0, <1>38, Where DEF RemovesEntry, At, Marked, Cleaning
<1>39. CASE Cleaned(p)
  BY <1>0, <1>39, StepGoes DEF Cleaned, Goes, At, Marked, fileVars, Entering
<1>40. CASE Initializes(p)
  BY <1>0, <1>40, StepGoes DEF Initializes, Goes, At, Marked, Entering
<1>41. CASE StopBreaks(p)
  BY <1>0, <1>41, Gone, EndsKeeps DEF StopBreaks, Marked, fileVars, Entering
<1>42. CASE StepBreaks(p)
  BY <1>0, <1>42, Gone DEF StepBreaks, NoCluster, At, Marked, fileVars, Entering
<1>43. CASE Warns(p)
  BY <1>0, <1>43, Gone DEF Warns, At, Marked, fileVars, Entering
<1>44. CASE Breaks(p)
  BY <1>44, EndsKeeps DEF Breaks
<1>45. CASE Dies(p)
  BY <1>45, EndsKeeps DEF Dies
<1> QED BY <1>1, <1>2, <1>3, <1>4, <1>5, <1>6, <1>7, <1>8, <1>9, <1>10, <1>11, <1>12, <1>13,
    <1>14, <1>15, <1>16, <1>17, <1>18, <1>19, <1>20, <1>21, <1>22, <1>23, <1>24, <1>25,
    <1>26, <1>27, <1>28, <1>29, <1>30, <1>31, <1>32, <1>33, <1>34, <1>35, <1>36, <1>37,
    <1>38, <1>39, <1>40, <1>41, <1>42, <1>43, <1>44, <1>45
    DEF Acts, MainStep, StopStep, StartStep

\* What it has just seen to is still so.
LEMMA PreparedKept ==
  ASSUME Processes, OnePortainer, NEW p \in Proc, Acts(p), Live(p)', Prepared(p)
  PROVE  Prepared(p)'
<1>0. Live(p) /\ run'[p] = run[p]
  BY Stable
<1>1. CASE ChecksPoison(p)
  BY <1>0, <1>1, StepGoes DEF ChecksPoison, Goes, Prepared
<1>2. CASE Recovers(p)
  BY <1>0, <1>2, StepGoes, EndsKeeps DEF Recovers, Goes, Prepared
<1>3. CASE Handles(p)
  BY <1>0, <1>3, StepGoes, EndsKeeps DEF Handles, Goes, Prepared
<1>4. CASE Marks(p)
  BY <1>0, <1>4, StepGoes, Where DEF Marks, First, Goes, At, Prepared
<1>5. CASE Reports(p)
  BY <1>0, <1>5, StepGoes DEF Reports, Goes, Prepared
<1>6. CASE Unmarks(p)
  BY <1>0, <1>6, StepGoes, EndsKeeps DEF Unmarks, Goes, Prepared
<1>7. CASE Unlinks(p)
  BY <1>0, <1>7, EndsKeeps DEF Unlinks
<1>8. CASE LoadsRun(p)
  BY <1>0, <1>8, Gone DEF LoadsRun, Prepared
<1>9. CASE RemovesService(p)
  BY <1>0, <1>9 DEF RemovesService, At, Prepared
<1>10. CASE ListsContainers(p)
  BY <1>0, <1>10, Gone DEF ListsContainers, Prepared
<1>11. CASE Kills(p)
  BY <1>0, <1>11 DEF Kills, At, Prepared
<1>12. CASE DeletesRunNetworks(p)
  BY <1>0, <1>12, StepGoes DEF DeletesRunNetworks, Goes, Prepared
<1>13. CASE ListsNetworks(p)
  BY <1>0, <1>13, Gone DEF ListsNetworks, Prepared
<1>14. CASE RemovesNetwork(p)
  BY <1>0, <1>14 DEF RemovesNetwork, At, Prepared
<1>15. CASE ForgetsRun(p)
  BY <1>0, <1>15, StepGoes DEF ForgetsRun, AfterStop, Goes, Prepared, fileVars
<1>16. CASE DeletesRunId(p)
  BY <1>0, <1>16, StepGoes, EndsKeeps DEF DeletesRunId, AfterStop, Goes, Prepared
<1>17. CASE ChecksHost(p)
  BY <1>0, <1>17, StepGoes DEF ChecksHost, Goes, Prepared
<1>18. CASE SavesRunId(p)
  BY <1>0, <1>18, StepGoes DEF SavesRunId, Goes, Prepared
<1>19. CASE MakesVolumes(p)
  BY <1>0, <1>19, StepGoes DEF MakesVolumes, Goes, Prepared
<1>20. CASE LinksLatest(p)
  BY <1>0, <1>20, StepGoes, EndsKeeps DEF LinksLatest, Unlinked, Goes, Prepared
<1>21. CASE LoadsConfig(p)
  BY <1>0, <1>21, StepGoes, EndsKeeps DEF LoadsConfig, Goes, Prepared
<1>22. CASE RemovesPortainer(p)
  <2>1. pc'[p] = "portainer"
    BY <1>22, StepGoes DEF RemovesPortainer, Goes
  <2>2. PICK found : /\ found = {c \in running : c[2] = "portainer"}
                     /\ IF found = {} THEN UNCHANGED running
                                      ELSE \E c \in found : running' = running \ {c}
    BY <1>22 DEF RemovesPortainer
  <2>3. \A c \in running' : c[2] # "portainer"
    BY <2>2 DEF OnePortainer
  <2> QED BY <2>1, <2>3 DEF Prepared
<1>23. CASE RunsPortainer(p)
  BY <1>0, <1>23, StepGoes, EndsKeeps DEF RunsPortainer, Goes, Prepared
<1>24. CASE CreatesNetworks(p)
  <2>1. pc'[p] = "steps" /\ networks' = networks \cup {Net(run[p])}
    BY <1>24, Gone DEF CreatesNetworks
  <2> QED BY <2>1, <1>0 DEF Prepared
<1>25. CASE Launches(p)
  BY <1>0, <1>25 DEF Launches, At, Prepared
<1>26. CASE StepMisses(p)
  BY <1>0, <1>26, Gone DEF StepMisses, NoCluster, Prepared
<1>27. CASE StepsDone(p)
  BY <1>0, <1>27, StepGoes DEF StepsDone, Goes, Prepared
<1>28. CASE PersistsLogs(p)
  BY <1>0, <1>28, StepGoes DEF PersistsLogs, Goes, Prepared
<1>29. CASE ListsDead(p)
  BY <1>0, <1>29, Gone DEF ListsDead, Prepared
<1>30. CASE RemovesDead(p)
  BY <1>0, <1>30 DEF RemovesDead, At, Prepared
<1>31. CASE SpawnsStatus(p)
  BY <1>0, <1>31, StepGoes DEF SpawnsStatus, Goes, Prepared
<1>32. CASE ChildChecks(p)
  BY <1>0, <1>32, StepGoes DEF ChildChecks, Goes, Prepared
<1>33. CASE ChildRecovers(p)
  BY <1>0, <1>33, StepGoes DEF ChildRecovers, Goes, Prepared
<1>34. CASE ChildReports(p)
  BY <1>0, <1>34, StepGoes DEF ChildReports, Goes, Prepared
<1>35. CASE ChildUnlinks(p)
  BY <1>0, <1>35, StepGoes DEF ChildUnlinks, Goes, Prepared
<1>36. CASE Returns(p)
  BY <1>0, <1>36, StepGoes, EndsKeeps DEF Returns, Goes, Prepared
<1>37. CASE ListsEntries(p)
  BY <1>0, <1>37, Gone DEF ListsEntries, Prepared
<1>38. CASE RemovesEntry(p)
  BY <1>0, <1>38 DEF RemovesEntry, At, Prepared
<1>39. CASE Cleaned(p)
  BY <1>0, <1>39, StepGoes DEF Cleaned, Goes, Prepared
<1>40. CASE Initializes(p)
  BY <1>0, <1>40, StepGoes DEF Initializes, Goes, Prepared
<1>41. CASE StopBreaks(p)
  BY <1>0, <1>41, Gone, EndsKeeps DEF StopBreaks, Prepared
<1>42. CASE StepBreaks(p)
  BY <1>0, <1>42, Gone DEF StepBreaks, NoCluster, Prepared
<1>43. CASE Warns(p)
  BY <1>0, <1>43, Gone DEF Warns, Prepared
<1>44. CASE Breaks(p)
  BY <1>44, EndsKeeps DEF Breaks
<1>45. CASE Dies(p)
  BY <1>45, EndsKeeps DEF Dies
<1> QED BY <1>1, <1>2, <1>3, <1>4, <1>5, <1>6, <1>7, <1>8, <1>9, <1>10, <1>11, <1>12, <1>13,
    <1>14, <1>15, <1>16, <1>17, <1>18, <1>19, <1>20, <1>21, <1>22, <1>23, <1>24, <1>25,
    <1>26, <1>27, <1>28, <1>29, <1>30, <1>31, <1>32, <1>33, <1>34, <1>35, <1>36, <1>37,
    <1>38, <1>39, <1>40, <1>41, <1>42, <1>43, <1>44, <1>45
    DEF Acts, MainStep, StopStep, StartStep

\* The containers that are not services are of no account.
LEMMA ServicesChange ==
  /\ UNCHANGED <<running, stopped>> => ServicesThere' = ServicesThere
  /\ \A c : /\ ~IsService(c)
           /\ Containers' \in {Containers, Containers \cup {c}, Containers \ {c}}
           => ServicesThere' = ServicesThere
  /\ \A c : running' = running \ {c} /\ stopped' = stopped \ {c} =>
           ServicesThere' = ServicesThere \ {c}
BY DEF ServicesThere, Containers, IsService

\* What it has removed stays removed, for there is nobody else.
LEMMA ClearedKept ==
  ASSUME Processes, NEW p \in Proc, Acts(p), Live(p)', smooth'[p], Cleared(p)
  PROVE  Cleared(p)'
<1>0. Live(p) /\ cmd'[p] = cmd[p] /\ run'[p] = run[p]
  BY Stable
<1>s. UNCHANGED <<running, stopped>> => ServicesThere' = ServicesThere
  BY ServicesChange
<1>1. CASE ChecksPoison(p)
  BY <1>0, <1>1, <1>s, StepGoes DEF ChecksPoison, Goes, Cleared, Making, Leaving
<1>2. CASE Recovers(p)
  BY <1>0, <1>2, <1>s, StepGoes, EndsKeeps DEF Recovers, Goes, Cleared, Making, Leaving
<1>3. CASE Handles(p)
  BY <1>0, <1>3, <1>s, StepGoes, EndsKeeps DEF Handles, Goes, Cleared, Making, Leaving
<1>4. CASE Marks(p)
  BY <1>0, <1>4, <1>s, Where, StepGoes DEF Marks, First, Goes, At, Cleared, Making, Leaving
<1>5. CASE Reports(p)
  BY <1>0, <1>5, <1>s, Where, StepGoes DEF Reports, Goes, At, Cleared, Making
<1>6. CASE Unmarks(p)
  BY <1>0, <1>6, <1>s, StepGoes, EndsKeeps
    DEF Unmarks, Goes, At, Cleared, Making, Leaving, dockerVars, fileVars
<1>7. CASE Unlinks(p)
  BY <1>0, <1>7, <1>s, EndsKeeps DEF Unlinks
<1>8. CASE LoadsRun(p)
  BY <1>0, <1>8, <1>s, Gone DEF LoadsRun, Cleared, Making, Leaving
<1>9. CASE RemovesService(p)
  BY <1>0, <1>9, <1>s DEF RemovesService, At, Cleared, Making, Leaving
<1>10. CASE ListsContainers(p)
  <2>1. pc'[p] = "kill" /\ todo'[p] = ServicesThere /\ UNCHANGED dockerVars
    BY <1>10, Gone DEF ListsContainers, ServicesThere, IsDevnet
  <2> QED BY <2>1, <1>s DEF Cleared, dockerVars, Making, Leaving
<1>11. CASE Kills(p)
  <2>1. PICK c \in todo[p] : /\ todo' = [todo EXCEPT ![p] = @ \ {c}]
                             /\ running' = running \ {c} /\ stopped' = stopped \ {c}
    BY <1>11 DEF Kills
  <2>2. pc[p] = "kill" /\ pc'[p] = "kill" /\ todo'[p] = todo[p] \ {c}
    BY <1>11, <2>1, Gone DEF Kills, At
  <2>3. ServicesThere' = ServicesThere \ {c}
    BY <2>1, ServicesChange
  <2> QED BY <2>2, <2>3 DEF Cleared, Making, Leaving
<1>12. CASE DeletesRunNetworks(p)
  BY <1>0, <1>12, <1>s, StepGoes DEF DeletesRunNetworks, Goes, At, Cleared, Making, Leaving
<1>13. CASE ListsNetworks(p)
  BY <1>0, <1>13, <1>s, Gone, EndsKeeps
    DEF ListsNetworks, Goes, At, Cleared, Making, Leaving, Stopping, Entering, dockerVars,
      fileVars
<1>14. CASE RemovesNetwork(p)
  <2>1. PICK n \in todo[p] : /\ todo' = [todo EXCEPT ![p] = @ \ {n}]
                             /\ networks' = IF Unused(n) THEN networks \ {n} ELSE networks
    BY <1>14 DEF RemovesNetwork
  <2>2. pc[p] = "unnet" /\ pc'[p] = "unnet" /\ todo'[p] = todo[p] \ {n}
        /\ UNCHANGED <<running, stopped>>
    BY <1>14, <2>1, Gone DEF RemovesNetwork, At
  <2>3. ServicesThere = {}
    BY <2>2 DEF Cleared
  <2>4. Unused(n)
    BY <2>3 DEF Unused, ServicesThere, Containers
  <2> QED BY <1>s, <2>1, <2>2, <2>3, <2>4 DEF Cleared, Leaving
<1>15. CASE ForgetsRun(p)
  BY <1>0, <1>15, <1>s, StepGoes
    DEF ForgetsRun, Goes, At, Cleared, Leaving, dockerVars, fileVars
<1>16. CASE DeletesRunId(p)
  BY <1>0, <1>16, <1>s DEF DeletesRunId, At, Cleared, dockerVars
<1>17. CASE ChecksHost(p)
  BY <1>0, <1>17, <1>s, StepGoes DEF ChecksHost, Goes, Cleared, Making, Leaving
<1>18. CASE SavesRunId(p)
  BY <1>0, <1>18, <1>s, StepGoes
    DEF SavesRunId, Goes, At, Cleared, Making, Leaving, dockerVars
<1>19. CASE MakesVolumes(p)
  BY <1>0, <1>19, <1>s, StepGoes
    DEF MakesVolumes, Goes, At, Cleared, Making, Leaving, dockerVars
<1>20. CASE LinksLatest(p)
  BY <1>0, <1>20, <1>s, StepGoes, EndsKeeps
    DEF LinksLatest, Goes, At, Cleared, Making, Leaving, dockerVars
<1>21. CASE LoadsConfig(p)
  BY <1>0, <1>21, <1>s, StepGoes, EndsKeeps
    DEF LoadsConfig, Goes, At, Cleared, Making, Leaving, dockerVars
<1>22. CASE RemovesPortainer(p)
  <2>1. pc[p] = "old_portainer" /\ pc'[p] = "portainer" /\ UNCHANGED <<stopped, networks>>
    BY <1>22, StepGoes DEF RemovesPortainer, Goes, At
  <2>2. running' = running \/ \E c \in running : c[2] = "portainer" /\ running' = running \ {c}
    BY <1>22 DEF RemovesPortainer
  <2>3. ServicesThere' = ServicesThere
    BY <2>1, <2>2, Names DEF ServicesThere, Containers, IsService
  <2> QED BY <2>1, <2>3 DEF Cleared, Making, Leaving
<1>23. CASE RunsPortainer(p)
  <2>1. /\ pc[p] = "portainer" /\ pc'[p] = "nets" /\ UNCHANGED <<stopped, networks>>
        /\ running' = running \cup {Portainer(run[p])}
    BY <1>23, StepGoes, EndsKeeps DEF RunsPortainer, Goes, At
  <2>2. ServicesThere' = ServicesThere
    BY <2>1, ServicesChange, Names DEF Containers
  <2> QED BY <2>1, <2>2 DEF Cleared, Making, Leaving
<1>24. CASE CreatesNetworks(p)
  BY <1>0, <1>24, <1>s, Where, Gone DEF CreatesNetworks, At, Cleared, Making
<1>25. CASE Launches(p)
  BY <1>0, <1>25, <1>s DEF Launches, At, Cleared
<1>26. CASE StepMisses(p)
  BY <1>0, <1>26, <1>s, Gone DEF StepMisses, NoCluster, Cleared, Making, Leaving
<1>27. CASE StepsDone(p)
  BY <1>0, <1>27, <1>s, Where, StepGoes DEF StepsDone, Goes, At, Cleared, Making
<1>28. CASE PersistsLogs(p)
  BY <1>0, <1>28, <1>s, StepGoes DEF PersistsLogs, Goes, Cleared, Making, Leaving
<1>29. CASE ListsDead(p)
  BY <1>0, <1>29, <1>s, Gone DEF ListsDead, Cleared, Making, Leaving
<1>30. CASE RemovesDead(p)
  BY <1>0, <1>30, <1>s DEF RemovesDead, At, Cleared, Making, Leaving
<1>31. CASE SpawnsStatus(p)
  BY <1>0, <1>31, <1>s, StepGoes DEF SpawnsStatus, Goes, Cleared, Making, Leaving
<1>32. CASE ChildChecks(p)
  BY <1>0, <1>32, <1>s, StepGoes DEF ChildChecks, Goes, Cleared, Making, Leaving
<1>33. CASE ChildRecovers(p)
  BY <1>0, <1>33, <1>s, StepGoes DEF ChildRecovers, Goes, Cleared, Making, Leaving
<1>34. CASE ChildReports(p)
  BY <1>0, <1>34, <1>s, StepGoes DEF ChildReports, Goes, Cleared, Making, Leaving
<1>35. CASE ChildUnlinks(p)
  BY <1>0, <1>35, <1>s, StepGoes DEF ChildUnlinks, Goes, Cleared, Making, Leaving
<1>36. CASE Returns(p)
  BY <1>0, <1>36, <1>s, Where, StepGoes, EndsKeeps
    DEF Returns, Goes, At, Cleared, Making, Ending
<1>37. CASE ListsEntries(p)
  BY <1>0, <1>37, <1>s, Gone DEF ListsEntries, Cleared, Making, Leaving
<1>38. CASE RemovesEntry(p)
  BY <1>0, <1>38, <1>s DEF RemovesEntry, At, Cleared, Making, Leaving
<1>39. CASE Cleaned(p)
  BY <1>0, <1>39, <1>s, Where, StepGoes DEF Cleaned, Goes, At, Cleared, Making, Cleaning
<1>40. CASE Initializes(p)
  BY <1>0, <1>40, <1>s, Where, StepGoes
    DEF Initializes, Goes, At, Cleared, Making, Initializing
<1>41. CASE StopBreaks(p)
  <2>1. CASE cmd[p] = "stop"
    BY <1>41, <2>1, EndsKeeps DEF StopBreaks
  <2>2. CASE cmd[p] # "stop"
    BY <1>41, <2>2 DEF StopBreaks, Bump, Processes
  <2> QED BY <2>1, <2>2
<1>42. CASE StepBreaks(p)
  <2>1. ~smooth'[p]
    BY <1>42 DEF StepBreaks, Bump, Processes
  <2> QED BY <2>1
<1>43. CASE Warns(p)
  <2>1. ~smooth'[p]
    BY <1>43 DEF Warns, Bump, Processes
  <2> QED BY <2>1
<1>44. CASE Breaks(p)
  BY <1>44, EndsKeeps DEF Breaks
<1>45. CASE Dies(p)
  BY <1>45, EndsKeeps DEF Dies
<1> QED BY <1>1, <1>2, <1>3, <1>4, <1>5, <1>6, <1>7, <1>8, <1>9, <1>10, <1>11, <1>12, <1>13,
    <1>14, <1>15, <1>16, <1>17, <1>18, <1>19, <1>20, <1>21, <1>22, <1>23, <1>24, <1>25,
    <1>26, <1>27, <1>28, <1>29, <1>30, <1>31, <1>32, <1>33, <1>34, <1>35, <1>36, <1>37,
    <1>38, <1>39, <1>40, <1>41, <1>42, <1>43, <1>44, <1>45
    DEF Acts, MainStep, StopStep, StartStep

\* What it has built stays there, for there is nobody else.
LEMMA BuiltKept ==
  ASSUME Processes, Machine, NEW p \in Proc, Acts(p), Live(p)', smooth'[p],
         Prepared(p), Cleared(p), Built(p)
  PROVE  Built(p)'
<1>0. Live(p) /\ cmd'[p] = cmd[p] /\ run'[p] = run[p]
  BY Stable
<1>s. UNCHANGED <<running, stopped>> => ServicesThere' = ServicesThere
  BY ServicesChange
<1>r. result[p] = "error" => pc[p] \in Ending
  BY DEF Processes
<1>1. CASE ChecksPoison(p)
  BY <1>0, <1>1, <1>s, <1>r, StepGoes
    DEF ChecksPoison, Goes, At, Built, Up, Leaving, Making, Child, Ending
<1>2. CASE Recovers(p)
  BY <1>0, <1>2, <1>s, <1>r, StepGoes, EndsKeeps
    DEF Recovers, Goes, Built, Up, Leaving, Making, Child, Ending
<1>3. CASE Handles(p)
  BY <1>0, <1>3, <1>s, <1>r, StepGoes, EndsKeeps
    DEF Handles, Goes, At, Built, Up, Leaving, Making, Child, Ending
<1>4. CASE Marks(p)
  BY <1>0, <1>4, <1>s, <1>r, Where, StepGoes
    DEF Marks, First, Goes, At, Built, Up, Leaving, Making, Child, Ending
<1>5. CASE Reports(p)
  BY <1>0, <1>5, <1>s, <1>r, Where, StepGoes DEF Reports, Goes, At, Built, Up, Making
<1>6. CASE Unmarks(p)
  BY <1>0, <1>6, <1>s, <1>r, StepGoes, EndsKeeps
    DEF Unmarks, Goes, At, Built, Up, fileVars, dockerVars, Leaving, Making
<1>7. CASE Unlinks(p)
  BY <1>0, <1>7, <1>s, <1>r, EndsKeeps DEF Unlinks
<1>8. CASE LoadsRun(p)
  BY <1>0, <1>8, <1>s, <1>r, Gone DEF LoadsRun, At, Built, Up, Leaving, Making, Child, Ending
<1>9. CASE RemovesService(p)
  BY <1>0, <1>9, <1>s, <1>r
    DEF RemovesService, At, Built, Up, Stays, fileVars, Leaving, Child, Ending
<1>10. CASE ListsContainers(p)
  BY <1>0, <1>10, <1>s, <1>r, Gone
    DEF ListsContainers, At, Built, Up, Stays, Leaving, Making, Child, Ending
<1>11. CASE Kills(p)
  BY <1>0, <1>11, <1>s, <1>r DEF Kills, At, Built, Up, Stays, fileVars, Leaving, Child, Ending
<1>12. CASE DeletesRunNetworks(p)
  BY <1>0, <1>12, <1>s, <1>r, StepGoes
    DEF DeletesRunNetworks, Goes, At, Built, Up, Leaving, Making, Child, Ending
<1>13. CASE ListsNetworks(p)
  BY <1>0, <1>13, <1>s, <1>r, Gone
    DEF ListsNetworks, At, Built, Up, Stays, Leaving, Making, Child, Ending
<1>14. CASE RemovesNetwork(p)
  BY <1>0, <1>14, <1>s, <1>r
    DEF RemovesNetwork, At, Built, Up, Stays, fileVars, Leaving, Child, Ending
<1>15. CASE ForgetsRun(p)
  BY <1>0, <1>15, <1>s, <1>r, StepGoes
    DEF ForgetsRun, AfterStop, Goes, At, Built, Up, Leaving, Making, Child, Ending
<1>16. CASE DeletesRunId(p)
  BY <1>0, <1>16, <1>s, <1>r, StepGoes, EndsKeeps
    DEF DeletesRunId, AfterStop, Goes, Built, Up, Leaving, Making, Child, Ending
<1>17. CASE ChecksHost(p)
  BY <1>0, <1>17, <1>s, <1>r, StepGoes
    DEF ChecksHost, Goes, At, Built, Up, Leaving, Making, Child, Ending
<1>18. CASE SavesRunId(p)
  BY <1>0, <1>18, <1>s, <1>r, StepGoes DEF SavesRunId, Goes, Built, Up, Leaving, Child, Ending
<1>19. CASE MakesVolumes(p)
  BY <1>0, <1>19, <1>s, <1>r, StepGoes
    DEF MakesVolumes, Goes, At, Built, Up, Leaving, Making, Child, Ending
<1>20. CASE LinksLatest(p)
  BY <1>0, <1>20, <1>s, <1>r, StepGoes, EndsKeeps
    DEF LinksLatest, Goes, At, Built, Up, Leaving, Making, Child, Ending
<1>21. CASE LoadsConfig(p)
  BY <1>0, <1>21, <1>s, <1>r, StepGoes, EndsKeeps
    DEF LoadsConfig, Goes, At, Built, Up, fileVars, Leaving, Making, Child, Ending
<1>22. CASE RemovesPortainer(p)
  <2>1. /\ pc[p] = "old_portainer" /\ pc'[p] = "portainer"
        /\ UNCHANGED <<current, latest, home, result>>
    BY <1>22, StepGoes DEF RemovesPortainer, Goes, At, fileVars
  <2> QED BY <1>0, <1>r, <2>1 DEF Built, Up, Making, Ending, Leaving, Child
<1>23. CASE RunsPortainer(p)
  <2>1. /\ pc[p] = "portainer" /\ pc'[p] = "nets"
        /\ running' = running \cup {Portainer(run[p])}
        /\ UNCHANGED <<current, latest, home, result>>
    BY <1>23, StepGoes, EndsKeeps DEF RunsPortainer, Goes, At, fileVars
  <2> QED BY <1>0, <1>r, <2>1 DEF Built, Up, Making, Ending, Leaving, Child
<1>24. CASE CreatesNetworks(p)
  <2>1. /\ pc[p] = "nets" /\ pc'[p] = "steps" /\ todo'[p] = Services(run[p])
        /\ networks' = networks \cup {Net(run[p])}
        /\ UNCHANGED <<running, stopped, current, latest, home, result>>
    BY <1>24, Gone DEF CreatesNetworks, At, fileVars, Stays
  <2>2. ServicesThere = {} /\ networks = {}
    BY <2>1 DEF Cleared, Making
  <2> QED BY <1>0, <1>r, <1>s, <2>1, <2>2 DEF Built, Up, Making, Ending, Leaving, Child
<1>25. CASE Launches(p)
  <2>1. PICK c \in todo[p] : running' = running \cup {c} /\ todo' = [todo EXCEPT ![p] = @ \ {c}]
    BY <1>25 DEF Launches
  <2>2. /\ pc[p] = "steps" /\ pc'[p] = "steps" /\ todo'[p] = todo[p] \ {c}
        /\ UNCHANGED <<stopped, networks, current, latest, home, result>>
    BY <1>25, <2>1, Gone DEF Launches, At, fileVars, Stays
  <2>3. c \in Services(run[p]) /\ IsService(c)
    BY <2>2, Names DEF Processes
  <2>4. ServicesThere' = ServicesThere \cup {c}
    BY <2>1, <2>2, <2>3 DEF ServicesThere, Containers
  <2>5. ServicesThere' \subseteq running' /\ ServicesThere' = Services(run[p]) \ todo'[p]
    BY <2>1, <2>2, <2>3, <2>4 DEF Built
  <2> QED BY <1>0, <1>r, <2>1, <2>2, <2>5 DEF Built, Up
<1>26. CASE StepMisses(p)
  <2>1. pc[p] = "steps" /\ home # "ready" /\ UNCHANGED home
    BY <1>26 DEF StepMisses, At, Prepared, NoCluster, fileVars
  <2>2. pc'[p] = "logs" /\ result'[p] = "error"
    BY <1>26, <2>1 DEF StepMisses, NoCluster, Goto, Processes
  <2> QED BY <2>1, <2>2 DEF Built, Up, Making
<1>27. CASE StepsDone(p)
  BY <1>0, <1>27, <1>s, <1>r, Where, StepGoes, EndsKeeps
    DEF StepsDone, Goes, At, Built, Up, Stays, fileVars, dockerVars
<1>28. CASE PersistsLogs(p)
  BY <1>0, <1>28, <1>s, <1>r, StepGoes
    DEF PersistsLogs, Goes, At, Built, Up, fileVars, dockerVars, Making, Ending
<1>29. CASE ListsDead(p)
  BY <1>0, <1>29, <1>s, <1>r, Gone
    DEF ListsDead, At, Built, Up, Stays, fileVars, dockerVars, Making, Ending
<1>30. CASE RemovesDead(p)
  <2>1. PICK c \in todo[p] : stopped' = stopped \ {c}
    BY <1>30 DEF RemovesDead
  <2>2. /\ pc[p] = "sweep" /\ pc'[p] = "sweep"
        /\ UNCHANGED <<running, networks, current, latest, home, result>>
    BY <1>30, <2>1 DEF RemovesDead, At, fileVars, Stays
  <2>3. ServicesThere \subseteq running => ServicesThere' = ServicesThere
    BY <2>1, <2>2 DEF ServicesThere, Containers, IsService
  <2> QED BY <1>0, <2>2, <2>3 DEF Built, Up
<1>31. CASE SpawnsStatus(p)
  BY <1>0, <1>31, <1>s, <1>r, StepGoes
    DEF SpawnsStatus, Goes, At, Built, Up, fileVars, dockerVars, Making, Ending
<1>32. CASE ChildChecks(p)
  BY <1>0, <1>32, <1>s, <1>r, StepGoes
    DEF ChildChecks, Goes, At, Built, Up, fileVars, dockerVars, Making, Child, Ending
<1>33. CASE ChildRecovers(p)
  BY <1>0, <1>33, <1>s, <1>r, StepGoes
    DEF ChildRecovers, Goes, At, Built, Up, dockerVars, Making, Child, Ending
<1>34. CASE ChildReports(p)
  BY <1>0, <1>34, <1>s, <1>r, StepGoes
    DEF ChildReports, Goes, At, Built, Up, fileVars, dockerVars, Making, Child, Ending
<1>35. CASE ChildUnlinks(p)
  BY <1>0, <1>35, <1>s, <1>r, StepGoes
    DEF ChildUnlinks, Goes, At, Built, Up, dockerVars, Making, Child, Ending
<1>36. CASE Returns(p)
  BY <1>0, <1>36, <1>s, <1>r, Where, StepGoes, EndsKeeps
    DEF Returns, Goes, At, Built, Up, fileVars, dockerVars, Ending
<1>37. CASE ListsEntries(p)
  BY <1>0, <1>37, <1>s, <1>r, Gone
    DEF ListsEntries, At, Built, Up, Stays, Leaving, Making, Child, Ending
<1>38. CASE RemovesEntry(p)
  BY <1>0, <1>38, <1>s, <1>r
    DEF RemovesEntry, At, Built, Up, Stays, Leaving, Making, Child, Ending
<1>39. CASE Cleaned(p)
  BY <1>0, <1>39, <1>s, <1>r, Where, StepGoes
    DEF Cleaned, Goes, At, Built, Up, Making, Cleaning
<1>40. CASE Initializes(p)
  BY <1>0, <1>40, <1>s, <1>r, Where, StepGoes
    DEF Initializes, Goes, At, Built, Up, Making, Initializing
<1>41. CASE StopBreaks(p)
  <2>1. CASE cmd[p] = "stop"
    BY <1>41, <2>1, EndsKeeps DEF StopBreaks
  <2>2. CASE cmd[p] # "stop"
    BY <1>41, <2>2 DEF StopBreaks, Bump, Processes
  <2> QED BY <2>1, <2>2
<1>42. CASE StepBreaks(p)
  <2>1. ~smooth'[p]
    BY <1>42 DEF StepBreaks, Bump, Processes
  <2> QED BY <2>1
<1>43. CASE Warns(p)
  <2>1. ~smooth'[p]
    BY <1>43 DEF Warns, Bump, Processes
  <2> QED BY <2>1
<1>44. CASE Breaks(p)
  BY <1>44, EndsKeeps DEF Breaks
<1>45. CASE Dies(p)
  BY <1>45, EndsKeeps DEF Dies
<1> QED BY <1>1, <1>2, <1>3, <1>4, <1>5, <1>6, <1>7, <1>8, <1>9, <1>10, <1>11, <1>12, <1>13,
    <1>14, <1>15, <1>16, <1>17, <1>18, <1>19, <1>20, <1>21, <1>22, <1>23, <1>24, <1>25,
    <1>26, <1>27, <1>28, <1>29, <1>30, <1>31, <1>32, <1>33, <1>34, <1>35, <1>36, <1>37,
    <1>38, <1>39, <1>40, <1>41, <1>42, <1>43, <1>44, <1>45
    DEF Acts, MainStep, StopStep, StartStep

\* What the end of a command that was alone comes to.
Fine(p, how) ==
  /\ how = "ok" => ~poison'
  /\ how = "ok" /\ smooth[p] /\ cmd[p] = "stop" =>
       ServicesThere' = {} /\ networks' = {} /\ current' = None
  /\ how = "ok" /\ smooth[p] /\ cmd[p] = "start" =>
       /\ ServicesThere' = Services(run[p]) /\ ServicesThere' \subseteq running'
       /\ Portainer(run[p]) \in running' /\ networks' = {Net(run[p])}
       /\ current' = run[p] /\ latest' = run[p]
  /\ how # "ok" /\ cmd[p] \in {"stop", "init"} /\ pc[p] \notin Entering \cup {"mark"} =>
       poison'
  /\ how = "failed" /\ smooth[p] =>
       \/ cmd[p] = "start" /\ (~config' \/ home' # "ready")
       \/ cmd[p] = "init" /\ home' # "clean"

\* A command that was alone goes on or ends so.
LEMMA EndsFine ==
  ASSUME Processes, NEW p \in Proc, Acts(p), Marked(p), Prepared(p),
         smooth[p] => Cleared(p) /\ Built(p)
  PROVE  Live(p)' \/ \E how : Ends(p, how) /\ Fine(p, how)
<1>s. UNCHANGED <<running, stopped>> => ServicesThere' = ServicesThere
  BY ServicesChange
<1>r. result[p] \in {"ok", "error"} /\ (result[p] = "error" => pc[p] \in Ending)
  BY DEF Processes
<1>1. CASE ChecksPoison(p)
  BY <1>1, StepGoes DEF ChecksPoison, Goes, Live
<1>2. CASE Recovers(p)
  BY <1>2, <1>s, <1>r, StepGoes DEF Recovers, Goes, Live, At, Marked
<1>3. CASE Handles(p)
  BY <1>3, <1>s, <1>r, StepGoes DEF Handles, Fine, Goes, Live, Marked, fileVars
<1>4. CASE Marks(p)
  BY <1>4, Where, StepGoes DEF Marks, First, Goes, At, Live
<1>5. CASE Reports(p)
  BY <1>5, StepGoes DEF Reports, Goes, Live
<1>6. CASE Unmarks(p)
  <2>1. pc[p] = "unmark" /\ UNCHANGED <<dockerVars, fileVars>>
    BY <1>6 DEF Unmarks, At
  <2>2. CASE poison
    BY <1>6, <2>2, StepGoes DEF Unmarks, Goes, Live
  <2>3. CASE ~poison
    <3>1. Ends(p, "ok")
      BY <1>6, <2>3 DEF Unmarks
    <3>2. Fine(p, "ok")
      BY <1>s, <1>r, <2>1, <2>3
        DEF Fine, Cleared, Built, Up, Leaving, Ending, Child, dockerVars, fileVars
    <3> QED BY <3>1, <3>2
  <2> QED BY <2>2, <2>3
<1>7. CASE Unlinks(p)
  <2>1. pc[p] = "unlink" /\ UNCHANGED <<dockerVars, current, latest>> /\ ~poison'
    BY <1>7 DEF Unlinks, At
  <2>2. Ends(p, "ok")
    BY <1>7, <2>1 DEF Unlinks, Marked
  <2>3. Fine(p, "ok")
    BY <1>s, <1>r, <2>1 DEF Fine, Cleared, Built, Up, Leaving, Ending, Child, dockerVars
  <2> QED BY <2>2, <2>3
<1>8. CASE LoadsRun(p)
  BY <1>8, Gone DEF LoadsRun, Live
<1>9. CASE RemovesService(p)
  BY <1>9 DEF RemovesService, At, Live
<1>10. CASE ListsContainers(p)
  BY <1>10, Gone DEF ListsContainers, Live
<1>11. CASE Kills(p)
  BY <1>11 DEF Kills, At, Live
<1>12. CASE DeletesRunNetworks(p)
  BY <1>12, StepGoes DEF DeletesRunNetworks, Goes, Live
<1>13. CASE ListsNetworks(p)
  BY <1>13, Gone DEF ListsNetworks, Live
<1>14. CASE RemovesNetwork(p)
  BY <1>14 DEF RemovesNetwork, At, Live
<1>15. CASE ForgetsRun(p)
  BY <1>15, StepGoes DEF ForgetsRun, AfterStop, Goes, Live
<1>16. CASE DeletesRunId(p)
  BY <1>16, <1>s, <1>r, StepGoes DEF DeletesRunId, AfterStop, Goes, Live, At, Prepared
<1>17. CASE ChecksHost(p)
  BY <1>17, StepGoes DEF ChecksHost, Goes, Live
<1>18. CASE SavesRunId(p)
  BY <1>18, StepGoes DEF SavesRunId, Goes, Live
<1>19. CASE MakesVolumes(p)
  BY <1>19, StepGoes DEF MakesVolumes, Goes, Live
<1>20. CASE LinksLatest(p)
  BY <1>20, <1>s, <1>r, StepGoes DEF LinksLatest, Goes, Live, At, Prepared
<1>21. CASE LoadsConfig(p)
  BY <1>21, <1>s, <1>r, Where, StepGoes
    DEF LoadsConfig, Fine, Goes, Live, At, fileVars, Making
<1>22. CASE RemovesPortainer(p)
  BY <1>22, StepGoes DEF RemovesPortainer, Goes, Live
<1>23. CASE RunsPortainer(p)
  BY <1>23, <1>s, <1>r, StepGoes DEF RunsPortainer, Goes, Live, At, Prepared
<1>24. CASE CreatesNetworks(p)
  BY <1>24, Gone DEF CreatesNetworks, Live
<1>25. CASE Launches(p)
  BY <1>25 DEF Launches, At, Live
<1>26. CASE StepMisses(p)
  BY <1>26, Gone DEF StepMisses, NoCluster, Live
<1>27. CASE StepsDone(p)
  BY <1>27, StepGoes DEF StepsDone, Goes, Live
<1>28. CASE PersistsLogs(p)
  BY <1>28, StepGoes DEF PersistsLogs, Goes, Live
<1>29. CASE ListsDead(p)
  BY <1>29, Gone DEF ListsDead, Live
<1>30. CASE RemovesDead(p)
  BY <1>30 DEF RemovesDead, At, Live
<1>31. CASE SpawnsStatus(p)
  BY <1>31, StepGoes DEF SpawnsStatus, Goes, Live
<1>32. CASE ChildChecks(p)
  BY <1>32, StepGoes DEF ChildChecks, Goes, Live
<1>33. CASE ChildRecovers(p)
  BY <1>33, StepGoes DEF ChildRecovers, Goes, Live
<1>34. CASE ChildReports(p)
  BY <1>34, StepGoes DEF ChildReports, Goes, Live
<1>35. CASE ChildUnlinks(p)
  BY <1>35, StepGoes DEF ChildUnlinks, Goes, Live
<1>36. CASE Returns(p)
  <2>1. pc[p] = "over" /\ UNCHANGED <<dockerVars, fileVars>> /\ cmd[p] = "start"
    BY <1>36, Where DEF Returns, At, Ending
  <2>2. CASE result[p] = "ok"
    BY <1>36, <2>2, StepGoes DEF Returns, Goes, Live
  <2>3. CASE result[p] # "ok"
    <3>1. Ends(p, "failed")
      BY <1>36, <2>3 DEF Returns
    <3>2. result[p] = "error"
      BY <2>3 DEF Processes
    <3>3. Fine(p, "failed")
      BY <2>1, <3>2 DEF Fine, Built, fileVars
    <3> QED BY <3>1, <3>3
  <2> QED BY <2>2, <2>3
<1>37. CASE ListsEntries(p)
  BY <1>37, Gone DEF ListsEntries, Live
<1>38. CASE RemovesEntry(p)
  BY <1>38 DEF RemovesEntry, At, Live
<1>39. CASE Cleaned(p)
  BY <1>39, StepGoes DEF Cleaned, Goes, Live
<1>40. CASE Initializes(p)
  BY <1>40, StepGoes DEF Initializes, Goes, Live
<1>41. CASE StopBreaks(p)
  <2>1. /\ pc[p] \in {"remove", "networks", "forget"}
        /\ UNCHANGED <<dockerVars, fileVars>>
    BY <1>41 DEF StopBreaks
  <2>2. CASE cmd[p] = "stop"
    <3>1. Ends(p, "broken")
      BY <1>41, <2>2 DEF StopBreaks
    <3>2. Fine(p, "broken")
      BY <2>1, <2>2 DEF Fine, Marked, fileVars
    <3> QED BY <3>1, <3>2
  <2>3. CASE cmd[p] # "stop"
    BY <1>41, <2>3, Gone DEF StopBreaks, Live
  <2> QED BY <2>2, <2>3
<1>42. CASE StepBreaks(p)
  BY <1>42, Gone DEF StepBreaks, NoCluster, Live
<1>43. CASE Warns(p)
  BY <1>43, Gone DEF Warns, Live
<1>44. CASE Breaks(p)
  BY <1>44, <1>s, <1>r DEF Breaks, Fine, Marked
<1>45. CASE Dies(p)
  BY <1>45, <1>s, <1>r DEF Dies, Fine, Marked, fileVars
<1> QED BY <1>1, <1>2, <1>3, <1>4, <1>5, <1>6, <1>7, <1>8, <1>9, <1>10, <1>11, <1>12, <1>13,
    <1>14, <1>15, <1>16, <1>17, <1>18, <1>19, <1>20, <1>21, <1>22, <1>23, <1>24, <1>25,
    <1>26, <1>27, <1>28, <1>29, <1>30, <1>31, <1>32, <1>33, <1>34, <1>35, <1>36, <1>37,
    <1>38, <1>39, <1>40, <1>41, <1>42, <1>43, <1>44, <1>45
    DEF Acts, MainStep, StopStep, StartStep

-----------------------------------------------------------------------------
(* The invariant holds, and what it says of the commands.                  *)

Asserted == StopCleansUp /\ StartIsAlone /\ PoisonIsTruthful /\ NeverWedged

\* Nothing is asserted of a machine where a command has just run among others.
LEMMA NothingAsserted ==
  last = NoCommand => Asserted
BY DEF NoCommand, Asserted, StopCleansUp, StartIsAlone, PoisonIsTruthful, NeverWedged, EndedOk

\* Nor in the next state.
LEMMA NothingAssertedNext ==
  last' = NoCommand => Asserted'
BY DEF NoCommand, Asserted, StopCleansUp, StartIsAlone, PoisonIsTruthful, NeverWedged, EndedOk

\* The end of one that was not alone is not on record.
LEMMA EndedAmongOthers ==
  ASSUME Processes, NEW p \in Proc, Acts(p), ~Live(p)', ~alone[p]
  PROVE  last' = NoCommand
<1>1. Live(p) /\ (Advances(p) \/ \E how : Ends(p, how))
  BY Moves
<1>2. CASE \E how : Ends(p, how)
  BY <1>2 DEF Ends
<1>3. CASE Advances(p)
  <2>1. Processes' /\ pc'[p] \in Places(cmd[p]) /\ cmd'[p] = cmd[p]
    BY <1>1, <1>3, AdvancesKeeps DEF Advances
  <2>2. cmd[p] \in Commands
    BY <1>1, Where DEF Live
  <2>3. "off" \notin Places(cmd[p])
    BY <2>2, PlacesOf
      DEF Commands, Entering, Leaving, Stopping, Making, Child, Ending, Cleaning,
        Initializing
  <2> QED BY <2>1, <2>3 DEF Live
<1> QED BY <1>1, <1>2, <1>3

\* What a command alone on the machine has made of it is as it should be.
LEMMA EndsAsserted ==
  ASSUME Processes, NEW p \in Proc, NEW how, Ends(p, how), alone[p], Fine(p, how)
  PROVE  Asserted'
<1> DEFINE mark == pc[p] \notin {"check", "recover", "handle", "mark"}
<1>1. last' = [cmd |-> cmd[p], end |-> how, smooth |-> smooth[p], run |-> run[p],
               marked |-> mark]
  BY DEF Ends
<1>2. /\ last'.cmd = cmd[p] /\ last'.end = how /\ last'.smooth = smooth[p]
      /\ last'.run = run[p] /\ last'.marked = mark
  BY <1>1
<1>3. mark <=> pc[p] \notin Entering \cup {"mark"}
  BY DEF Entering
<1> HIDE DEF mark
<1>4. StopCleansUp'
  BY <1>2 DEF StopCleansUp, EndedOk, Fine, ServicesThere
<1>5. StartIsAlone'
  <2> SUFFICES ASSUME EndedOk("start")' PROVE
        /\ ServicesThere' = Services(last'.run)
        /\ Services(last'.run) \cup {Portainer(last'.run)} \subseteq running'
        /\ networks' = {Net(last'.run)}
        /\ current' = last'.run /\ latest' = last'.run
    BY DEF StartIsAlone, ServicesThere
  <2>1. cmd[p] = "start" /\ how = "ok" /\ smooth[p]
    BY <1>2 DEF EndedOk
  <2> QED BY <1>2, <2>1 DEF Fine
<1>6. PoisonIsTruthful'
  BY <1>2, <1>3 DEF PoisonIsTruthful, Fine
<1>7. NeverWedged'
  BY <1>2 DEF NeverWedged, Fine
<1> QED BY <1>4, <1>5, <1>6, <1>7 DEF Asserted

\* A command alone on the machine keeps to its course.
LEMMA ProgressStep ==
  ASSUME Processes, Machine, OnePortainer, Exclusive, Progress, [Next]_vars
  PROVE  Progress'
<1>1. CASE UNCHANGED vars
  <2>1. UNCHANGED <<procVars, dockerVars, fileVars, alone, smooth>>
    BY <1>1 DEF vars, ghostVars
  <2>2. ASSUME NEW p \in Proc PROVE
          /\ Solo(p)' = Solo(p) /\ Marked(p)' = Marked(p) /\ Prepared(p)' = Prepared(p)
          /\ Cleared(p)' = Cleared(p) /\ Built(p)' = Built(p) /\ smooth'[p] = smooth[p]
    <3>1. ServicesThere' = ServicesThere
      BY <2>1, ServicesChange DEF dockerVars
    <3>2. Solo(p)' = Solo(p) /\ Marked(p)' = Marked(p) /\ Prepared(p)' = Prepared(p)
      BY <2>1 DEF Solo, Live, Marked, Prepared, procVars, dockerVars, fileVars
    <3>3. Cleared(p)' = Cleared(p) /\ Built(p)' = Built(p)
      BY <2>1, <3>1 DEF Cleared, Built, Up, procVars, dockerVars, fileVars
    <3> QED BY <2>1, <3>2, <3>3
  <2> QED BY <2>2 DEF Progress
<1>2. ASSUME NEW p \in Proc, Acts(p) PROVE Progress'
  <2> SUFFICES ASSUME NEW q \in Proc, Solo(q)'
               PROVE  /\ Marked(q)' /\ Prepared(q)'
                      /\ smooth'[q] => Cleared(q)' /\ Built(q)'
    BY DEF Progress
  <2>1. CASE q # p
    <3>1. Solo(q) /\ Live(p)
      BY <1>2, <2>1, Others, Moves DEF Solo, Live
    <3> QED BY <2>1, <3>1 DEF Exclusive
  <2>2. CASE q = p
    <3>1. Live(p)' /\ Live(p) /\ alone[p] /\ (smooth'[p] => smooth[p])
      BY <1>2, <2>2, Stable DEF Solo
    <3>2. Marked(p) /\ Prepared(p) /\ (smooth[p] => Cleared(p) /\ Built(p))
      BY <3>1 DEF Progress, Solo
    <3> QED BY <1>2, <2>2, <3>1, <3>2, MarkedKept, PreparedKept, ClearedKept, BuiltKept
  <2> QED BY <2>1, <2>2
<1>3. ASSUME NEW p \in Proc, NEW c \in Commands, Invoke(p, c) PROVE Progress'
  <2> SUFFICES ASSUME NEW q \in Proc, Solo(q)'
               PROVE  /\ Marked(q)' /\ Prepared(q)'
                      /\ smooth'[q] => Cleared(q)' /\ Built(q)'
    BY DEF Progress
  <2>1. q = p
    <3>1. q # p => pc'[q] = pc[q] /\ alone'[q] = (alone[q] /\ ~Live(q))
      BY <1>3, InvokeKeeps DEF Invoke
    <3> QED BY <3>1 DEF Solo, Live
  <2>2. pc'[p] = "check" /\ result'[p] = "ok"
    <3>1. result'[p] = "error" => pc'[p] \in Ending
      BY <1>3, InvokeKeeps DEF Processes
    <3> QED BY <1>3, <3>1, InvokeKeeps DEF Processes, Ending, Child
  <2> QED BY <2>1, <2>2
      DEF Marked, Prepared, Cleared, Built, Up, Entering, Leaving, Making, Ending, Child
<1>4. CASE Crashes
  <2>1. UNCHANGED <<cmd, pc, run, todo, networks, poison, latest, alone>>
        /\ current' = current /\ running' \subseteq running
    BY <1>4 DEF Crashes, procVars, fileVars
  <2>2. \A p \in Proc : Live(p)' => ~smooth'[p]
    BY <1>4, <2>1, CrashesKeeps DEF Live
  <2>3. ASSUME NEW p \in Proc, Solo(p)' PROVE Marked(p)' /\ Prepared(p)'
    <3>1. Marked(p) /\ Prepared(p)
      BY <2>1, <2>3 DEF Progress, Solo, Live
    <3> QED BY <2>1, <3>1 DEF Marked, Prepared
  <2> QED BY <2>2, <2>3 DEF Progress, Solo
<1> QED BY <1>1, <1>2, <1>3, <1>4, WhoMoves

\* And so what is asserted of the last command is true.
LEMMA AssertedStep ==
  ASSUME Processes, Exclusive, Progress, Rested, Asserted, [Next]_vars
  PROVE  Asserted'
<1>1. CASE UNCHANGED vars
  BY <1>1
    DEF vars, procVars, dockerVars, fileVars, ghostVars, Asserted, StopCleansUp,
      StartIsAlone, PoisonIsTruthful, NeverWedged, EndedOk, Quiet, Live, Containers
<1>2. ASSUME NEW p \in Proc, Acts(p) PROVE Asserted'
  <2>1. Live(p) /\ last = NoCommand
    BY <1>2, Moves DEF Rested, Quiet
  <2>2. CASE Live(p)'
    BY <1>2, <2>1, <2>2, Stable, NothingAssertedNext
  <2>3. CASE ~Live(p)' /\ ~alone[p]
    BY <1>2, <2>3, EndedAmongOthers, NothingAssertedNext
  <2>4. CASE ~Live(p)' /\ alone[p]
    <3>1. Marked(p) /\ Prepared(p) /\ (smooth[p] => Cleared(p) /\ Built(p))
      BY <2>1, <2>4 DEF Progress, Solo
    <3>2. PICK how : Ends(p, how) /\ Fine(p, how)
      BY <1>2, <2>4, <3>1, EndsFine
    <3> QED BY <2>4, <3>2, EndsAsserted
  <2> QED BY <2>2, <2>3, <2>4
<1>3. ASSUME NEW p \in Proc, NEW c \in Commands, Invoke(p, c) PROVE Asserted'
  BY <1>3, NothingAssertedNext DEF Invoke
<1>4. CASE Crashes
  BY <1>4, NothingAssertedNext DEF Crashes
<1> QED BY <1>1, <1>2, <1>3, <1>4, WhoMoves

\* At the start there is nothing.
LEMMA InitOk ==
  Init => IInv
<1> SUFFICES ASSUME Init PROVE IInv
  OBVIOUS
<1>1. /\ cmd = [p \in Proc |-> "none"] /\ pc = [p \in Proc |-> "off"]
      /\ run = [p \in Proc |-> None] /\ target = [p \in Proc |-> None]
      /\ todo = [p \in Proc |-> {}] /\ result = [p \in Proc |-> "ok"]
      /\ alone = [p \in Proc |-> TRUE] /\ smooth = [p \in Proc |-> TRUE]
      /\ running = {} /\ stopped = {} /\ networks = {}
      /\ poison = FALSE /\ current = None /\ latest = None
      /\ config \in BOOLEAN /\ home \in {"clean", "ready"} /\ last = NoCommand
  BY DEF Init
<1>2. Processes
  <2>1. pc \in [Proc -> UNION {Places(c) : c \in Commands \cup {"none"}}]
    BY <1>1, PlacesOf
  <2>2. \A p \in Proc : pc[p] \in Places(cmd[p])
    BY <1>1, PlacesOf
  <2> QED BY <1>1, <2>1, <2>2 DEF Processes
<1>3. Machine
  BY <1>1 DEF Machine
<1>4. Reserved /\ OnePortainer
  BY <1>1 DEF Reserved, OnePortainer
<1>5. Exclusive /\ Progress /\ Rested
  BY <1>1 DEF Exclusive, Progress, Rested, Solo, Live
<1> QED BY <1>1, <1>2, <1>3, <1>4, <1>5, NothingAsserted DEF IInv, Asserted

\* Every step keeps the invariant.
LEMMA NextOk ==
  IInv /\ [Next]_vars => IInv'
BY OnlyOne, MachineStep, ProgressStep, AssertedStep DEF IInv, Asserted

\* The invariant holds for any processes, run ids and bounds.
THEOREM DevnetInvariant == Spec => []IInv
BY InitOk, NextOk, PTL DEF Spec

\* Every variable keeps its type.
THEOREM DevnetTypeCorrect == Spec => []TypeOK
<1>1. IInv => TypeOK
  <2> SUFFICES ASSUME IInv PROVE TypeOK
    OBVIOUS
  <2>1. Processes /\ Machine
    BY DEF IInv
  <2>2. \A p \in Proc : Live(p) <=> cmd[p] # "none"
    BY <2>1, Where DEF Live
  <2>3. Containers \subseteq UNION {Services(r) \cup {Portainer(r)} : r \in RunId}
    BY <2>1 DEF Machine, Objects, Containers
  <2> QED BY <2>1, <2>2, <2>3 DEF Processes, Machine, TypeOK
<1> QED BY <1>1, DevnetInvariant, PTL

\* Two starts never hold the same run id, whatever else runs, and while a start has made
\* no container nothing on the machine has its run id: what generate_run_id reserves is
\* reserved.
THEOREM RunsAreReserved == Spec => []Reserved
<1>1. IInv => Reserved
  BY DEF IInv
<1> QED BY <1>1, DevnetInvariant, PTL

\* A stop that succeeds undisturbed has removed every container but Portainer, every
\* network and the current run, after any history of any number of commands.
THEOREM StopAlwaysCleansUp == Spec => []StopCleansUp
<1>1. IInv => StopCleansUp
  BY DEF IInv
<1> QED BY <1>1, DevnetInvariant, PTL

\* A start that succeeds undisturbed has its own cluster and nothing of an earlier one.
THEOREM StartIsAlwaysAlone == Spec => []StartIsAlone
<1>1. IInv => StartIsAlone
  BY DEF IInv
<1> QED BY <1>1, DevnetInvariant, PTL

\* The poison file is there after a stop or an init that did not end well, and never
\* after a command that did.
THEOREM PoisonTellsTheTruth == Spec => []PoisonIsTruthful
<1>1. IInv => PoisonIsTruthful
  BY DEF IInv
<1> QED BY <1>1, DevnetInvariant, PTL

\* No history of commands, failures, kills and crashes makes a later command fail by
\* itself.
THEOREM DevnetIsNeverWedged == Spec => []NeverWedged
<1>1. IInv => NeverWedged
  BY DEF IInv
<1> QED BY <1>1, DevnetInvariant, PTL

=============================================================================
