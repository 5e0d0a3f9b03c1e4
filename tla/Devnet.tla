------------------------------- MODULE Devnet -------------------------------
(***************************************************************************)
(* The commands of foc-devnet as processes on one machine: each is a       *)
(* process of its own, and they share docker and the home directory.       *)
(* main.rs wraps every command in the poison file; start runs all of stop  *)
(* before it makes its own run, and a `status' of its own after it.        *)
(*                                                                         *)
(* `running' and `stopped' are the containers, <<run, service>>; a network *)
(* is <<run, "net">>.  "lotus" stands for the containers of a run that are *)
(* known by their image (Lotus, its miner, the Curios), "db" for the       *)
(* databases, of stock images and known by their names only.               *)
(***************************************************************************)
EXTENDS Integers, FiniteSets

CONSTANTS
  Proc,   \* processes that may run at the same time
  RunId,  \* run ids
  MaxCommands, \* bound on the commands of a history
  MaxTroubles, \* bound on its failures, crashes and kills from outside
  None    \* no run id

ASSUME DevnetAssumption ==
  None \notin RunId /\ MaxCommands \in Nat /\ MaxTroubles \in Nat

VARIABLES
  cmd,      \* the command of each process
  pc,       \* where it is; "off" when there is none
  run,      \* start: the run id it reserved
  target,   \* stop: the run id it loaded
  todo,     \* what its loop has yet to go through
  result,   \* start: how the steps ended
  running, stopped, networks,
  poison,   \* state/.poison exists
  current,  \* state/current_runid.json: a run id, None, or "torn"
  latest,   \* state/latest
  config,   \* config.toml exists
  home,     \* the rest of the home directory: "clean", "dirty", "ready"
  alone,    \* a process that no other one has overlapped
  smooth,   \* a process for which docker and the file system always worked
  last,     \* the command that ended last, if it was alone and all is quiet
  commands, \* how many commands there have been
  troubles  \* how many failures, crashes and kills

procVars == <<cmd, pc, run, target, todo, result>>
dockerVars == <<running, stopped, networks>>
fileVars == <<poison, current, latest, config, home>>
ghostVars == <<alone, smooth, last>>
vars == <<procVars, dockerVars, fileVars, ghostVars, commands, troubles>>

Commands == {"start", "stop", "clean", "clean_all", "init", "status"}
Rank == [lotus |-> 1, db |-> 2]    \* the order of start; stop's is the reverse
Services(r) == {<<r, s>> : s \in DOMAIN Rank}
Portainer(r) == <<r, "portainer">>
Net(r) == <<r, "net">>
NoCommand == [cmd |-> "none"]

IsService(c) == c[2] \in DOMAIN Rank

\* Mutant: the databases, of stock images, are overlooked.
MutIsDevnet(c) == IsService(c) /\ c[2] # "db"

\* list_foc_devnet_containers: by image, and the databases by name.
IsDevnet(c) == IsService(c)

Live(p) == pc[p] # "off"
Containers == running \cup stopped

\* Mutant: the directory of the run is not reserved.
MutFresh == RunId

\* A run id that nothing refers to: generate_run_id reserves a new directory.
Fresh ==
  {r \in RunId :
     /\ \A c \in Containers \cup networks : c[1] # r
     /\ r \notin {current, latest}
     /\ \A p \in Proc : r \notin {run[p], target[p]}}

Init ==
  /\ cmd = [p \in Proc |-> "none"]
  /\ pc = [p \in Proc |-> "off"]
  /\ run = [p \in Proc |-> None]
  /\ target = [p \in Proc |-> None]
  /\ todo = [p \in Proc |-> {}]
  /\ result = [p \in Proc |-> "ok"]
  /\ running = {} /\ stopped = {} /\ networks = {}
  /\ poison = FALSE /\ current = None /\ latest = None
  /\ config \in BOOLEAN
  /\ home \in {"clean", "ready"}
  /\ home = "ready" => config
  /\ alone = [p \in Proc |-> TRUE]
  /\ smooth = [p \in Proc |-> TRUE]
  /\ last = NoCommand
  /\ commands = 0 /\ troubles = 0

-----------------------------------------------------------------------------
(* Moving on, going wrong and ending.                                      *)

At(p, here) == pc[p] = here
Goto(p, there) == pc' = [pc EXCEPT ![p] = there]
Bump(p) == smooth' = [smooth EXCEPT ![p] = FALSE]
Stays == UNCHANGED <<cmd, run, target, result, alone, last>>
Steps(p, there) == Goto(p, there) /\ Stays /\ UNCHANGED <<todo, smooth>>

\* The process is gone.  `marked' is set once it has written the poison file.
Ends(p, how) ==
  /\ last' = IF alone[p]
             THEN [cmd |-> cmd[p], end |-> how, smooth |-> smooth[p], run |-> run[p],
                   marked |-> pc[p] \notin {"check", "recover", "handle", "mark"}]
             ELSE NoCommand
  /\ cmd' = [cmd EXCEPT ![p] = "none"]
  /\ pc' = [pc EXCEPT ![p] = "off"]
  /\ run' = [run EXCEPT ![p] = None]
  /\ target' = [target EXCEPT ![p] = None]
  /\ todo' = [todo EXCEPT ![p] = {}]
  /\ result' = [result EXCEPT ![p] = "ok"]
  /\ alone' = [alone EXCEPT ![p] = TRUE]
  /\ smooth' = [smooth EXCEPT ![p] = TRUE]

-----------------------------------------------------------------------------
(* main.rs and poison.rs.  The child of start runs the same code.          *)

Invoke(p, c) ==
  /\ At(p, "off")
  /\ cmd' = [cmd EXCEPT ![p] = c]
  /\ Goto(p, "check")
  /\ IF c = "start" THEN \E r \in Fresh : run' = [run EXCEPT ![p] = r]
                    ELSE UNCHANGED run
  /\ alone' = [q \in Proc |-> IF q = p THEN \A o \in Proc : ~Live(o)
                              ELSE alone[q] /\ ~Live(q)]
  /\ last' = NoCommand
  /\ UNCHANGED <<target, todo, result, smooth, dockerVars, fileVars>>

ChecksPoison(p) ==
  /\ At(p, "check")
  /\ Steps(p, IF poison THEN "recover" ELSE "handle")
  /\ UNCHANGED <<dockerVars, fileVars>>

\* perform_recovery does nothing yet; remove_file fails on a file that is gone.
Recovers(p) ==
  /\ At(p, "recover")
  /\ poison' = FALSE
  /\ IF poison THEN Steps(p, "handle") ELSE Ends(p, "failed")
  /\ UNCHANGED <<dockerVars, current, latest, config, home>>

\* handle_*: init looks at the home directory before it writes the poison file.
Handles(p) ==
  /\ At(p, "handle")
  /\ CASE cmd[p] = "status" -> Steps(p, "report")
       [] cmd[p] = "init" -> IF home = "clean" THEN Steps(p, "mark") ELSE Ends(p, "failed")
       [] OTHER -> Steps(p, "mark")
  /\ UNCHANGED <<dockerVars, fileVars>>

First ==
  [c \in Commands |-> CASE c = "start" -> "host"
                        [] c = "stop" -> "load"
                        [] c = "init" -> "directories"
                        [] OTHER -> "entries"]

\* Mutant: stop does not write the poison file.
MutMarks(p) ==
  /\ At(p, "mark")
  /\ poison' = (cmd[p] # "stop" \/ poison)
  /\ Steps(p, First[cmd[p]])
  /\ UNCHANGED <<dockerVars, current, latest, config, home>>

Marks(p) ==
  /\ At(p, "mark")
  /\ poison' = TRUE
  /\ Steps(p, First[cmd[p]])
  /\ UNCHANGED <<dockerVars, current, latest, config, home>>

Reports(p) ==
  /\ At(p, "report")
  /\ Steps(p, "unmark")
  /\ UNCHANGED <<dockerVars, fileVars>>

\* remove_poison after a command that returned Ok.
Unmarks(p) ==
  /\ At(p, "unmark")
  /\ IF poison THEN Steps(p, "unlink") ELSE Ends(p, "ok")
  /\ UNCHANGED <<dockerVars, fileVars>>

Unlinks(p) ==
  /\ At(p, "unlink")
  /\ poison' = FALSE
  /\ Ends(p, IF poison THEN "ok" ELSE "failed")
  /\ UNCHANGED <<dockerVars, current, latest, config, home>>

MainStep(p) ==
  \/ ChecksPoison(p) \/ Recovers(p) \/ Handles(p) \/ Marks(p) \/ Reports(p)
  \/ Unmarks(p) \/ Unlinks(p)

-----------------------------------------------------------------------------
(* stop.rs, which start runs too: there its errors are only warned of.     *)

\* Without a run id that can be read, stop goes by the legacy names: no container
\* has one.
LoadsRun(p) ==
  /\ At(p, "load")
  /\ target' = [target EXCEPT ![p] = IF current \in RunId THEN current ELSE None]
  /\ todo' = [todo EXCEPT ![p] = IF current \in RunId THEN Services(current) ELSE {}]
  /\ Goto(p, "remove")
  /\ UNCHANGED <<cmd, run, result, ghostVars, dockerVars, fileVars>>

\* By name, the databases before Lotus: docker stop if it runs, docker rm if it exists.
RemovesService(p) ==
  /\ At(p, "remove")
  /\ \E c \in todo[p] :
       /\ \A d \in todo[p] : Rank[d[2]] <= Rank[c[2]]
       /\ running' = running \ {c}
       /\ stopped' = stopped \ {c}
       /\ todo' = [todo EXCEPT ![p] = @ \ {c}]
  /\ UNCHANGED <<pc, smooth, networks, fileVars>> /\ Stays

ListsContainers(p) ==
  /\ At(p, "remove") /\ todo[p] = {}
  /\ todo' = [todo EXCEPT ![p] = {c \in Containers : IsDevnet(c)}]
  /\ Goto(p, "kill")
  /\ UNCHANGED <<smooth, dockerVars, fileVars>> /\ Stays

\* docker rm -f.
Kills(p) ==
  /\ At(p, "kill")
  /\ \E c \in todo[p] :
       /\ todo' = [todo EXCEPT ![p] = @ \ {c}]
       /\ running' = running \ {c}
       /\ stopped' = stopped \ {c}
  /\ UNCHANGED <<pc, smooth, networks, fileVars>> /\ Stays

\* docker refuses to remove a network with a running container on it.
Unused(n) == \A c \in running : IsService(c) => c[1] # n[1]

DeletesRunNetworks(p) ==
  /\ At(p, "kill") /\ todo[p] = {}
  /\ networks' = networks \ {n \in {Net(target[p])} : Unused(n)}
  /\ Steps(p, "networks")
  /\ UNCHANGED <<running, stopped, fileVars>>

ListsNetworks(p) ==
  /\ At(p, "networks")
  /\ todo' = [todo EXCEPT ![p] = networks]
  /\ Goto(p, "unnet")
  /\ UNCHANGED <<smooth, dockerVars, fileVars>> /\ Stays

RemovesNetwork(p) ==
  /\ At(p, "unnet")
  /\ \E n \in todo[p] :
       /\ todo' = [todo EXCEPT ![p] = @ \ {n}]
       /\ networks' = IF Unused(n) THEN networks \ {n} ELSE networks
  /\ UNCHANGED <<pc, smooth, running, stopped, fileVars>> /\ Stays

AfterStop(p) == IF cmd[p] = "stop" THEN "unmark" ELSE "save"

ForgetsRun(p) ==
  /\ At(p, "unnet") /\ todo[p] = {}
  /\ Steps(p, IF current = None THEN AfterStop(p) ELSE "forget")
  /\ UNCHANGED <<dockerVars, fileVars>>

DeletesRunId(p) ==
  /\ At(p, "forget")
  /\ current' = None
  /\ IF current = None /\ cmd[p] = "stop" THEN Ends(p, "failed")
                                          ELSE Steps(p, AfterStop(p))
  /\ UNCHANGED <<dockerVars, poison, latest, config, home>>

\* An outside failure that stop returns.
StopBreaks(p) ==
  /\ pc[p] \in {"remove", "networks", "forget"}
  /\ IF cmd[p] = "stop"
     THEN Ends(p, "broken")
     ELSE /\ todo' = [todo EXCEPT ![p] = {}] /\ Goto(p, "save") /\ Bump(p) /\ Stays
  /\ UNCHANGED <<dockerVars, fileVars>>

StopStep(p) ==
  \/ LoadsRun(p) \/ RemovesService(p) \/ ListsContainers(p) \/ Kills(p)
  \/ DeletesRunNetworks(p) \/ ListsNetworks(p) \/ RemovesNetwork(p)
  \/ ForgetsRun(p) \/ DeletesRunId(p)

-----------------------------------------------------------------------------
(* start/mod.rs.                                                           *)

\* Mutant: start does not stop the existing cluster.
MutChecksHost(p) ==
  /\ At(p, "host")
  /\ Steps(p, "save")
  /\ UNCHANGED <<dockerVars, fileVars>>

\* check_host_docker_internal, then stop_existing_cluster.
ChecksHost(p) ==
  /\ At(p, "host")
  /\ Steps(p, "load")
  /\ UNCHANGED <<dockerVars, fileVars>>

\* fs::write truncates the file before it writes it.
SavesRunId(p) ==
  /\ \/ At(p, "save") /\ current' = "torn" /\ Steps(p, "saved")
     \/ At(p, "saved") /\ current' = run[p] /\ Steps(p, "volumes")
  /\ UNCHANGED <<dockerVars, poison, latest, config, home>>

\* The directories of the run: of those, docker/volumes is one init looks at.
MakesVolumes(p) ==
  /\ At(p, "volumes")
  /\ home' = IF home = "clean" THEN "dirty" ELSE home
  /\ Steps(p, "link")
  /\ UNCHANGED <<dockerVars, poison, current, latest, config>>

\* Mutant: an old link is left where it is.
MutUnlinked == latest
Unlinked == None

\* create_latest_symlink removes the old link, then makes its own.
LinksLatest(p) ==
  /\ \/ At(p, "link") /\ latest' = Unlinked /\ Steps(p, "linked")
     \/ At(p, "linked") /\ latest = None /\ latest' = run[p] /\ Steps(p, "config")
     \/ At(p, "linked") /\ latest # None /\ UNCHANGED latest /\ Ends(p, "failed")
  /\ UNCHANGED <<dockerVars, poison, current, config, home>>

LoadsConfig(p) ==
  /\ At(p, "config")
  /\ IF config THEN Steps(p, "old_portainer") ELSE Ends(p, "failed")
  /\ UNCHANGED <<dockerVars, fileVars>>

\* find_existing_portainer: the first that runs, and no other, is removed.
RemovesPortainer(p) ==
  /\ At(p, "old_portainer")
  /\ LET found == {c \in running : c[2] = "portainer"}
     IN  IF found = {} THEN UNCHANGED running
                       ELSE \E c \in found : running' = running \ {c}
  /\ Steps(p, "portainer")
  /\ UNCHANGED <<stopped, networks, fileVars>>

\* All of them want the first port of the range: docker creates the container of
\* a second one and cannot start it.
RunsPortainer(p) ==
  /\ At(p, "portainer")
  /\ IF \E c \in running : c[2] = "portainer"
     THEN stopped' = stopped \cup {Portainer(run[p])} /\ UNCHANGED running /\ Ends(p, "failed")
     ELSE running' = running \cup {Portainer(run[p])} /\ UNCHANGED stopped /\ Steps(p, "nets")
  /\ UNCHANGED <<networks, fileVars>>

CreatesNetworks(p) ==
  /\ At(p, "nets")
  /\ networks' = networks \cup {Net(run[p])}
  /\ todo' = [todo EXCEPT ![p] = Services(run[p])]
  /\ Goto(p, "steps")
  /\ UNCHANGED <<smooth, running, stopped, fileVars>> /\ Stays

\* The steps of the pipeline, as far as they leave containers.
Launches(p) ==
  /\ At(p, "steps")
  /\ home = "ready" /\ Net(run[p]) \in networks
  /\ \E c \in todo[p] :
       /\ \A d \in todo[p] : Rank[c[2]] <= Rank[d[2]]
       /\ running' = running \cup {c}
       /\ todo' = [todo EXCEPT ![p] = @ \ {c}]
  /\ UNCHANGED <<pc, smooth, stopped, networks, fileVars>> /\ Stays

\* What every failure of a step leaves.
NoCluster(p) ==
  /\ todo' = [todo EXCEPT ![p] = {}]
  /\ result' = [result EXCEPT ![p] = "error"]
  /\ Goto(p, "logs")
  /\ UNCHANGED <<cmd, run, target, alone, last, networks, fileVars>>

\* No binaries, no keys, or a network another command has removed.
StepMisses(p) ==
  /\ At(p, "steps") /\ todo[p] # {}
  /\ home # "ready" \/ Net(run[p]) \notin networks
  /\ NoCluster(p)
  /\ UNCHANGED <<smooth, running, stopped>>

\* Anything else: the container may be there, and may be running.
StepBreaks(p) ==
  /\ At(p, "steps") /\ todo[p] # {}
  /\ home = "ready" /\ Net(run[p]) \in networks
  /\ \E c \in todo[p] :
       /\ \A d \in todo[p] : Rank[c[2]] <= Rank[d[2]]
       /\ \/ UNCHANGED <<running, stopped>>
          \/ stopped' = stopped \cup {c} /\ UNCHANGED running
          \/ running' = running \cup {c} /\ UNCHANGED stopped
  /\ NoCluster(p)
  /\ Bump(p)

StepsDone(p) ==
  /\ At(p, "steps") /\ todo[p] = {}
  /\ Steps(p, "logs")
  /\ UNCHANGED <<dockerVars, fileVars>>

\* finalize_start_teardown: logs, dead containers, status; its errors are warned of.
PersistsLogs(p) ==
  /\ At(p, "logs")
  /\ Steps(p, "dead")
  /\ UNCHANGED <<dockerVars, fileVars>>

ListsDead(p) ==
  /\ At(p, "dead")
  /\ todo' = [todo EXCEPT ![p] = {c \in stopped : IsDevnet(c)}]
  /\ Goto(p, "sweep")
  /\ UNCHANGED <<smooth, dockerVars, fileVars>> /\ Stays

RemovesDead(p) ==
  /\ At(p, "sweep")
  /\ \E c \in todo[p] :
       /\ todo' = [todo EXCEPT ![p] = @ \ {c}]
       /\ stopped' = stopped \ {c}
  /\ UNCHANGED <<pc, smooth, running, networks, fileVars>> /\ Stays

\* write_post_start_status_log runs `foc-devnet status' and waits for it: main
\* again, to the end of its own remove_poison.  That it fails is only written down.
SpawnsStatus(p) ==
  /\ At(p, "sweep") /\ todo[p] = {}
  /\ Steps(p, "child_check")
  /\ UNCHANGED <<dockerVars, fileVars>>

ChildChecks(p) ==
  /\ At(p, "child_check")
  /\ Steps(p, IF poison THEN "child_recover" ELSE "child_report")
  /\ UNCHANGED <<dockerVars, fileVars>>

ChildRecovers(p) ==
  /\ At(p, "child_recover")
  /\ poison' = FALSE
  /\ Steps(p, IF poison THEN "child_report" ELSE "over")
  /\ UNCHANGED <<dockerVars, current, latest, config, home>>

ChildReports(p) ==
  /\ At(p, "child_report")
  /\ Steps(p, IF poison THEN "child_unlink" ELSE "over")
  /\ UNCHANGED <<dockerVars, fileVars>>

ChildUnlinks(p) ==
  /\ At(p, "child_unlink")
  /\ poison' = FALSE
  /\ Steps(p, "over")
  /\ UNCHANGED <<dockerVars, current, latest, config, home>>

Returns(p) ==
  /\ At(p, "over")
  /\ IF result[p] = "ok" THEN Steps(p, "unmark") ELSE Ends(p, "failed")
  /\ UNCHANGED <<dockerVars, fileVars>>

StartStep(p) ==
  \/ ChecksHost(p) \/ SavesRunId(p) \/ MakesVolumes(p) \/ LinksLatest(p) \/ LoadsConfig(p)
  \/ RemovesPortainer(p) \/ RunsPortainer(p) \/ CreatesNetworks(p)
  \/ Launches(p) \/ StepMisses(p) \/ StepsDone(p)
  \/ PersistsLogs(p) \/ ListsDead(p) \/ RemovesDead(p)
  \/ SpawnsStatus(p) \/ ChildChecks(p) \/ ChildRecovers(p) \/ ChildReports(p)
  \/ ChildUnlinks(p) \/ Returns(p)

-----------------------------------------------------------------------------
(* clean.rs, init/mod.rs, and what can end any command.                    *)

Entry(e) == <<e, "entry">>

ListsEntries(p) ==
  /\ At(p, "entries")
  /\ todo' = [todo EXCEPT ![p] =
       {Entry("state"), Entry("others")}
         \cup (IF cmd[p] = "clean_all" /\ config THEN {Entry("config")} ELSE {})]
  /\ Goto(p, "entry")
  /\ UNCHANGED <<smooth, dockerVars, fileVars>> /\ Stays

\* The entries come in the order of the directory.
RemovesEntry(p) ==
  /\ At(p, "entry")
  /\ \E e \in todo[p] :
       /\ todo' = [todo EXCEPT ![p] = @ \ {e}]
       /\ poison' = (poison /\ e # Entry("state"))
       /\ current' = IF e = Entry("state") THEN None ELSE current
       /\ latest' = IF e = Entry("state") THEN None ELSE latest
       /\ config' = (config /\ e # Entry("config"))
       /\ home' = IF e = Entry("others") THEN "clean" ELSE home
  /\ UNCHANGED <<pc, smooth, dockerVars>> /\ Stays

Cleaned(p) ==
  /\ At(p, "entry") /\ todo[p] = {}
  /\ Steps(p, "unmark")
  /\ UNCHANGED <<dockerVars, fileVars>>

\* create_directories, then the configuration if there is none, then the rest.
Initializes(p) ==
  /\ \/ At(p, "directories") /\ home' = "dirty" /\ UNCHANGED config /\ Steps(p, "configure")
     \/ At(p, "configure") /\ config' = TRUE /\ UNCHANGED home /\ Steps(p, "build")
     \/ At(p, "build") /\ home' = "ready" /\ UNCHANGED config /\ Steps(p, "unmark")
  /\ UNCHANGED <<dockerVars, poison, current, latest>>

\* A failure that is only warned of, in one turn of a loop or in the teardown.
Warns(p) ==
  /\ \/ /\ pc[p] \in {"kill", "unnet", "sweep"}
        /\ \E x \in todo[p] : todo' = [todo EXCEPT ![p] = @ \ {x}]
        /\ UNCHANGED pc
     \/ /\ At(p, "kill") /\ todo[p] = {}
        /\ Goto(p, "networks") /\ UNCHANGED todo
     \/ /\ pc[p] \in {"logs", "dead", "child_check", "child_report"}
        /\ Goto(p, "over") /\ UNCHANGED todo
  /\ Bump(p)
  /\ UNCHANGED <<dockerVars, fileVars>> /\ Stays

\* A failure that ends the command; a half-removed directory is a dirty one.
Breaks(p) ==
  /\ \/ pc[p] \in {"report", "host", "save", "volumes", "link", "config", "old_portainer",
                   "portainer", "nets", "directories", "configure", "build"}
        /\ UNCHANGED home
     \/ At(p, "entry") /\ home' = IF home = "ready" THEN "dirty" ELSE home
  /\ stopped' \in IF At(p, "portainer") THEN {stopped, stopped \cup {Portainer(run[p])}}
                                        ELSE {stopped}
  /\ Ends(p, "broken")
  /\ UNCHANGED <<running, networks, poison, current, latest, config>>

\* The process is killed, by the user or with the machine.
Dies(p) == Live(p) /\ Ends(p, "killed") /\ UNCHANGED <<dockerVars, fileVars>>

\* A container stops by itself.
Crashes ==
  /\ \E c \in running : IsService(c) /\ running' = running \ {c} /\ stopped' = stopped \cup {c}
  /\ smooth' = [p \in Proc |-> ~Live(p)]
  /\ last' = NoCommand
  /\ UNCHANGED <<procVars, networks, fileVars, alone>>

Works ==
  \E p \in Proc :
    \/ MainStep(p) \/ StopStep(p) \/ StartStep(p)
    \/ ListsEntries(p) \/ RemovesEntry(p) \/ Cleaned(p) \/ Initializes(p)

Troubled ==
  \/ \E p \in Proc : StopBreaks(p) \/ StepBreaks(p) \/ Warns(p) \/ Breaks(p) \/ Dies(p)
  \/ Crashes

Next ==
  \/ Works /\ UNCHANGED <<commands, troubles>>
  \/ /\ commands < MaxCommands
     /\ \E p \in Proc, c \in Commands : Invoke(p, c)
     /\ commands' = commands + 1 /\ UNCHANGED troubles
  \/ /\ troubles < MaxTroubles
     /\ Troubled
     /\ troubles' = troubles + 1 /\ UNCHANGED commands

Spec == Init /\ [][Next]_vars

-----------------------------------------------------------------------------
Quiet == \A p \in Proc : ~Live(p)
EndedOk(c) == Quiet /\ last.cmd = c /\ last.end = "ok" /\ last.smooth

TypeOK ==
  /\ cmd \in [Proc -> Commands \cup {"none"}]
  /\ \A p \in Proc : Live(p) <=> cmd[p] # "none"
  /\ run \in [Proc -> RunId \cup {None}]
  /\ target \in [Proc -> RunId \cup {None}]
  /\ \A p \in Proc : run[p] # None <=> cmd[p] = "start"
  /\ result \in [Proc -> {"ok", "error"}]
  /\ Containers \subseteq UNION {Services(r) \cup {Portainer(r)} : r \in RunId}
  /\ running \cap stopped = {}
  /\ networks \subseteq {Net(r) : r \in RunId}
  /\ current \in RunId \cup {None, "torn"}
  /\ latest \in RunId \cup {None}
  /\ {poison, config} \subseteq BOOLEAN
  /\ home \in {"clean", "dirty", "ready"}

\* A stop that succeeds undisturbed leaves no container of any run but Portainer,
\* no network and no current run, whatever came before it: commands killed halfway,
\* a clean while the cluster ran, two starts at once.
StopCleansUp ==
  EndedOk("stop") =>
    /\ \A c \in Containers : ~IsService(c)
    /\ networks = {}
    /\ current = None

\* A start that succeeds undisturbed leaves its own cluster, all of it, and nothing
\* of an earlier one; the current run and the latest run are its own.
StartIsAlone ==
  EndedOk("start") =>
    /\ {c \in Containers : IsService(c)} = Services(last.run)
    /\ Services(last.run) \cup {Portainer(last.run)} \subseteq running
    /\ networks = {Net(last.run)}
    /\ current = last.run /\ latest = last.run

\* After a command that nothing disturbed and that succeeded there is no poison
\* file; after a stop or an init that wrote it and did not succeed, however it
\* ended, there is one.
PoisonIsTruthful ==
  Quiet /\ last # NoCommand =>
    /\ last.end = "ok" => ~poison
    /\ last.marked /\ last.end # "ok" /\ last.cmd \in {"stop", "init"} => poison

\* No history makes a later command fail by itself: one that nothing disturbed and
\* for which docker and the file system worked fails only when it is start without
\* an initialized home directory or init with one that is not clean.
NeverWedged ==
  Quiet /\ last # NoCommand /\ last.end = "failed" /\ last.smooth =>
    \/ last.cmd = "start" /\ (~config \/ home # "ready")
    \/ last.cmd = "init" /\ home # "clean"
=============================================================================
