-------------------------------- MODULE Setup --------------------------------
(***************************************************************************)
(* The home directory of foc-devnet before a cluster is started: `init',   *)
(* `build', `config' and `clean' as processes of their own that share it,  *)
(* docker's images and the build container.  Any of them may fail or be    *)
(* killed between two steps, and then leaves what it has made so far.      *)
(*                                                                         *)
(* One project stands for Lotus and Curio: its location in config.toml,    *)
(* its repository under code/, its binaries in bin/.  A location is a url  *)
(* and a ref (commit, tag or branch), or a local directory.                *)
(***************************************************************************)
EXTENDS Integers, FiniteSets

CONSTANTS
  Proc,        \* processes that may run at the same time
  Ref,         \* commits, tags and branches
  Url,         \* git repositories
  DefaultUrl,  \* the one used when none is named
  DefaultRef,  \* the ref of the default configuration
  Entropy,     \* what --rand may draw; the deterministic mnemonic is "static"
  None, Torn, Mixed, \* nothing, half a file, a mixture
  MaxCommands, \* bound on the commands of a history
  MaxTroubles  \* bound on its failures and kills

ASSUME SetupAssumption ==
  /\ DefaultUrl \in Url /\ DefaultRef \in Ref
  /\ "static" \notin Entropy /\ "local" \notin Url /\ "part" \notin Url
  /\ None # Torn /\ {None, Torn} \cap (Entropy \cup {"static"}) = {}
  /\ None \notin Proc \cup Url \cup {"local"}
  /\ {None, Torn} \cap [url : Url \cup {"local"}, ref : Ref \cup {None}] = {}
  /\ None \notin [url : Url \cup {"local", "part"}, at : Ref \cup {None}, subs : BOOLEAN]

VARIABLES
  cmd,       \* the command of each process
  pc,        \* where it is; "off" when there is none
  seen,      \* the location it read from config.toml, or is about to write
  entropy,   \* init: the entropy of its mnemonic
  todo,      \* clean: the entries it has yet to remove
  config,    \* config.toml: a location, None or Torn
  dirs,      \* the other entries of the home directory that init looks at
  mnemonic, addresses, \* keys/: None, Torn, or the entropy they come from
  repo,      \* code/<project>
  bin,       \* its binaries: None, Torn, Mixed, or where they come from
  images,    \* docker images
  containers, \* the build containers of the project
  past,      \* what each process has been through
  last,      \* the command that ended last
  crossed,   \* two inits have overlapped
  commands, troubles

procVars == <<cmd, pc, seen, entropy, todo>>
keyVars == <<mnemonic, addresses>>
codeVars == <<repo, bin, images, containers>>
fileVars == <<config, dirs, keyVars, codeVars>>
vars == <<procVars, fileVars, past, last, crossed, commands, troubles>>

Commands == {"init", "init_no_docker_build", "build", "config", "clean", "clean_all"}
Inits == {"init", "init_no_docker_build"}
Cleans == {"clean", "clean_all"}
Dirs == {"keys", "code", "bin"}
Images == {"builder", "services"}

Local == [url |-> "local", ref |-> None]
Location == [url : Url, ref : Ref] \cup {Local}
Default == [url |-> DefaultUrl, ref |-> DefaultRef]

\* A location as it is written on the command line, the url left out or not.
Text == [url : {None, DefaultUrl} \cup Url, ref : Ref] \cup {Local}

\* resolve_with_default.
Resolve(text, url) == IF text.url = None THEN [text EXCEPT !.url = url] ELSE text

\* apply_location_override: the url of the location that is overridden, if it has one.
Override(text, old) == Resolve(text, IF old = Local THEN DefaultUrl ELSE old.url)

\* The states of a repository: a link to the local directory, what is left of a
\* removed one, a clone.  `at' is None on the default branch.
Link == [url |-> "local", at |-> None, subs |-> FALSE]
Part == [url |-> "part", at |-> None, subs |-> FALSE]
Cloned(u) == [url |-> u, at |-> None, subs |-> FALSE]
IsLink(r) == r # None /\ r.url = "local"
IsClone(r) == r # None /\ r.url \in Url
Source(r) == IF r = None THEN None ELSE [url |-> r.url, ref |-> r.at]

Live(p) == pc[p] # "off"
Whole == config \in Location
NoCommand == [cmd |-> "none"]
Ended(cs, how) == last.cmd \in cs /\ last.end = how
Calm == [alone |-> TRUE, after |-> "none", disturbed |-> FALSE]

\* An empty home directory, or one a former init has filled and a build perhaps used.
Init ==
  /\ cmd = [p \in Proc |-> "none"]
  /\ pc = [p \in Proc |-> "off"]
  /\ seen = [p \in Proc |-> None]
  /\ entropy = [p \in Proc |-> None]
  /\ todo = [p \in Proc |-> {}]
  /\ \/ /\ config = None /\ dirs = {} /\ mnemonic = None /\ addresses = None
        /\ repo = None /\ bin = None /\ images = {}
     \/ /\ config = Default /\ dirs = Dirs
        /\ mnemonic = "static" /\ addresses = "static"
        /\ repo = [url |-> DefaultUrl, at |-> DefaultRef, subs |-> TRUE]
        /\ bin \in {None, Default}
        /\ images = Images
  /\ containers = {}
  /\ past = [p \in Proc |-> Calm]
  /\ last = NoCommand /\ crossed = FALSE
  /\ commands = 0 /\ troubles = 0

-----------------------------------------------------------------------------
At(p, here) == pc[p] = here
Goto(p, there) ==
  /\ pc' = [pc EXCEPT ![p] = there]
  /\ last' = NoCommand
  /\ UNCHANGED cmd
Keeps(p, there) == Goto(p, there) /\ UNCHANGED <<seen, entropy, todo>>

\* The process is gone.
Ends(p, how) ==
  /\ last' = [cmd |-> cmd[p], end |-> how, seen |-> seen[p], past |-> past[p]]
  /\ cmd' = [cmd EXCEPT ![p] = "none"]
  /\ pc' = [pc EXCEPT ![p] = "off"]
  /\ seen' = [seen EXCEPT ![p] = None]
  /\ entropy' = [entropy EXCEPT ![p] = None]
  /\ todo' = [todo EXCEPT ![p] = {}]

First ==
  [c \in Commands |-> CASE c \in Inits -> "check"
                        [] c = "build" -> "read"
                        [] c = "config" -> "set"
                        [] OTHER -> "list"]

\* `after': the command before it, if that was a clean that worked and ran alone.
Invoke(p, c) ==
  /\ At(p, "off") /\ commands < MaxCommands
  /\ cmd' = [cmd EXCEPT ![p] = c]
  /\ pc' = [pc EXCEPT ![p] = First[c]]
  /\ past' = [q \in Proc |->
       IF q = p THEN [alone |-> \A o \in Proc : ~Live(o),
                      after |-> IF Ended(Cleans, "ok") /\ last.past.alone THEN last.cmd ELSE "none",
                      disturbed |-> FALSE]
       ELSE [past[q] EXCEPT !.alone = @ /\ ~Live(q)]]
  /\ crossed' = (crossed \/ (c \in Inits /\ \E q \in Proc : cmd[q] \in Inits))
  /\ last' = NoCommand
  /\ commands' = commands + 1
  /\ UNCHANGED <<seen, entropy, todo, fileVars, troubles>>

-----------------------------------------------------------------------------
(* init: the check, config.toml and the keys.                              *)

\* Mutants: keys/, or code/, is overlooked.
MutIsCleanButKeys == dirs \subseteq {"keys"}
MutIsClean == dirs \subseteq {"code"}

\* is_clean_for_init: config.toml, state/ and run/ do not count.
IsClean == dirs = {}

Checks(p) ==
  /\ At(p, "check")
  /\ IF IsClean THEN Keeps(p, "dirs") ELSE Ends(p, "failed")
  /\ UNCHANGED fileVars

CreatesDirectories(p) ==
  /\ At(p, "dirs")
  /\ dirs' = Dirs
  /\ Keeps(p, "config")
  /\ UNCHANGED <<config, keyVars, codeVars>>

\* fs::write truncates the file before it writes it.
Truncates(p, location) ==
  /\ config' = Torn
  /\ seen' = [seen EXCEPT ![p] = location]
  /\ Goto(p, "write")
  /\ UNCHANGED <<entropy, todo, dirs, keyVars, codeVars>>

\* An existing file is not read unless a location is to be overridden.
ReusesConfig(p) ==
  /\ At(p, "config") /\ config # None
  /\ Keeps(p, "mnemonic")
  /\ UNCHANGED fileVars

OverridesConfig(p) ==
  /\ At(p, "config") /\ Whole
  /\ \E t \in Text : Truncates(p, Override(t, config))

CannotOverride(p) ==
  /\ At(p, "config") /\ config = Torn
  /\ Ends(p, "failed")
  /\ UNCHANGED fileVars

GeneratesConfig(p) ==
  /\ At(p, "config") /\ config = None
  /\ \E l \in {Default} \cup {Override(t, Default) : t \in Text} : Truncates(p, l)

WritesConfig(p) ==
  /\ At(p, "write")
  /\ config' = seen[p]
  /\ IF cmd[p] = "config" THEN Ends(p, "ok") ELSE Keeps(p, "mnemonic")
  /\ UNCHANGED <<dirs, keyVars, codeVars>>

\* generate_keys: a mnemonic of its own with --rand, the same for all without.
StoresMnemonic(p) ==
  /\ At(p, "mnemonic")
  /\ \E e \in {"static"} \cup (Entropy \ {mnemonic, addresses}) :
       /\ \A q \in Proc : e # "static" => entropy[q] # e
       /\ entropy' = [entropy EXCEPT ![p] = e]
       /\ mnemonic' = e
  /\ dirs' = dirs \cup {"keys"}
  /\ Goto(p, "addresses")
  /\ UNCHANGED <<seen, todo, config, addresses, codeVars>>

SavesKeys(p) ==
  /\ At(p, "addresses")
  /\ addresses' = entropy[p]
  /\ dirs' = dirs \cup {"keys"}
  /\ Keeps(p, "repositories")
  /\ UNCHANGED <<config, mnemonic, codeVars>>

-----------------------------------------------------------------------------
(* The repository: init downloads it, build prepares it.                   *)

\* What a build container has mounted is gone with the repository.
RemovesRepository(left) ==
  /\ repo' = left
  /\ containers' = {IF c.local THEN c ELSE [c EXCEPT !.from = @ \cup {None}] : c \in containers}

\* download_repository: what is there already is taken as it is, but for a link.
Downloads(p) ==
  /\ At(p, "repositories") /\ Whole
  /\ seen' = [seen EXCEPT ![p] = config]
  /\ IF config # Local
     THEN /\ Goto(p, IF repo = None THEN "clone" ELSE "images")
          /\ UNCHANGED repo
     ELSE /\ repo = None => "code" \in dirs
          /\ repo' = IF repo = None THEN Link ELSE repo
          /\ Goto(p, "images")
  /\ UNCHANGED <<entropy, todo, config, dirs, keyVars, bin, images, containers>>

CannotDownload(p) ==
  /\ At(p, "repositories")
  /\ ~Whole \/ (config = Local /\ repo = None /\ "code" \notin dirs)
  /\ Ends(p, "failed")
  /\ UNCHANGED fileVars

\* git clone refuses a directory that is there.
Clones(p) ==
  /\ At(p, "clone")
  /\ IF repo = None
     THEN /\ repo' = Cloned(seen[p].url)
          /\ dirs' = dirs \cup {"code"}
          /\ Keeps(p, "checkout")
     ELSE Ends(p, "failed") /\ UNCHANGED <<repo, dirs>>
  /\ UNCHANGED <<config, keyVars, bin, images, containers>>

\* Through a link git works in the local directory.
ChecksOut(p) ==
  /\ At(p, "checkout")
  /\ IF repo \notin {None, Part}
     THEN /\ repo' = [repo EXCEPT !.at = seen[p].ref]
          /\ Keeps(p, IF cmd[p] = "build" THEN "image" ELSE "submodules")
     ELSE Ends(p, "failed") /\ UNCHANGED repo
  /\ UNCHANGED <<config, dirs, keyVars, bin, images, containers>>

UpdatesSubmodules(p) ==
  /\ At(p, "submodules")
  /\ IF repo \notin {None, Part}
     THEN repo' = [repo EXCEPT !.subs = TRUE] /\ Keeps(p, "images")
     ELSE Ends(p, "failed") /\ UNCHANGED repo
  /\ UNCHANGED <<config, dirs, keyVars, bin, images, containers>>

\* build_and_cache_docker_images: those that do not exist.
BuildsImages(p) ==
  /\ At(p, "images")
  /\ images' = IF cmd[p] = "init" THEN Images ELSE images
  /\ Ends(p, "ok")
  /\ UNCHANGED <<config, dirs, keyVars, repo, bin, containers>>

InitStep(p) ==
  \/ Checks(p) \/ CreatesDirectories(p)
  \/ ReusesConfig(p) \/ OverridesConfig(p) \/ CannotOverride(p) \/ GeneratesConfig(p)
  \/ WritesConfig(p) \/ StoresMnemonic(p) \/ SavesKeys(p)
  \/ Downloads(p) \/ CannotDownload(p) \/ Clones(p) \/ ChecksOut(p)
  \/ UpdatesSubmodules(p) \/ BuildsImages(p)

-----------------------------------------------------------------------------
(* build.                                                                  *)

Reads(p) ==
  /\ At(p, "read")
  /\ IF Whole
     THEN /\ seen' = [seen EXCEPT ![p] = config]
          /\ Goto(p, IF config = Local THEN "relink" ELSE "prepare")
          /\ UNCHANGED <<entropy, todo>>
     ELSE Ends(p, "failed")
  /\ UNCHANGED fileVars

\* prepare_local_source: whatever is there makes room for the link.
Relinks(p) ==
  /\ At(p, "relink")
  /\ RemovesRepository(None)
  /\ Keeps(p, "link")
  /\ UNCHANGED <<config, dirs, keyVars, bin, images>>

Links(p) ==
  /\ At(p, "link")
  /\ IF repo = None
     THEN repo' = Link /\ dirs' = dirs \cup {"code"} /\ Keeps(p, "image")
     ELSE Ends(p, "failed") /\ UNCHANGED <<repo, dirs>>
  /\ UNCHANGED <<config, keyVars, bin, images, containers>>

\* Mutant: a repository that is there needs no update.
MutPrepares(p) ==
  /\ At(p, "prepare")
  /\ Keeps(p, CASE repo = None -> "clone" [] IsClone(repo) -> "image" [] OTHER -> "remove_repo")
  /\ UNCHANGED fileVars

\* prepare_git_repo: a clone is fetched into, from the url it was made with.
Prepares(p) ==
  /\ At(p, "prepare")
  /\ Keeps(p, CASE repo = None -> "clone" [] IsClone(repo) -> "checkout" [] OTHER -> "remove_repo")
  /\ UNCHANGED fileVars

\* What is left of a clone may still have its .git, and cannot be fetched into.
FetchFails(p) ==
  /\ At(p, "prepare") /\ repo = Part
  /\ Ends(p, "failed")
  /\ UNCHANGED fileVars

RemovesOld(p) ==
  /\ At(p, "remove_repo")
  /\ RemovesRepository(None)
  /\ Keeps(p, "clone")
  /\ UNCHANGED <<config, dirs, keyVars, bin, images>>

FindsBuilder(p) ==
  /\ At(p, "image")
  /\ images' = images \cup {"builder"}
  /\ dirs' = dirs \cup {"bin"}
  /\ Keeps(p, "run")
  /\ UNCHANGED <<config, keyVars, repo, bin, containers>>

\* Mutant: every build container has a name of its own.
MutNameIsTaken == FALSE

\* The name of the container is that of the project.
NameIsTaken == containers # {}

\* Two that ran at once would make in the same directory.
RunsContainer(p) ==
  /\ At(p, "run")
  /\ IF NameIsTaken
     THEN Ends(p, "failed") /\ UNCHANGED containers
     ELSE /\ containers' =
               {[c EXCEPT !.from = @ \cup {Mixed}] : c \in containers} \cup
               {[by |-> p, local |-> IsLink(repo), out |-> "bin" \in dirs, copying |-> FALSE,
                 from |-> IF containers = {} THEN {} ELSE {Mixed}]}
          /\ Keeps(p, "wait")
  /\ UNCHANGED <<config, dirs, keyVars, repo, bin, images>>

\* The script in the container: make, then cp of one binary after the other.
Makes(c) ==
  /\ c \in containers /\ ~c.copying
  /\ containers' = (containers \ {c}) \cup
       {[c EXCEPT !.from = @ \cup {IF c.local THEN Local ELSE Source(repo)}]}
  /\ UNCHANGED <<procVars, config, dirs, keyVars, repo, bin, images, last>>

Copies(c) ==
  /\ c \in containers /\ ~c.copying /\ c.from # {} /\ None \notin c.from
  /\ containers' = (containers \ {c}) \cup {[c EXCEPT !.copying = TRUE]}
  /\ bin' = IF c.out THEN Torn ELSE bin
  /\ UNCHANGED <<procVars, config, dirs, keyVars, repo, images, last>>

Leaves(c) == containers' = containers \ {c} /\ UNCHANGED <<config, dirs, keyVars, repo, images>>

\* The build that waits for it gets its status.
Tells(c, how) ==
  IF c.by \in Proc THEN Ends(c.by, how) ELSE UNCHANGED <<procVars, last>>

Made(c) == IF Cardinality(c.from) = 1 THEN CHOOSE f \in c.from : TRUE ELSE Mixed

Finishes(c) ==
  /\ c \in containers /\ c.copying
  /\ bin' = IF c.out THEN Made(c) ELSE bin
  /\ Leaves(c)
  /\ Tells(c, "ok")

\* make or cp fails: without sources always.
MakeFails(c) ==
  /\ c \in containers /\ ~c.copying /\ None \in c.from
  /\ Leaves(c) /\ UNCHANGED bin
  /\ Tells(c, "broken")

BuildStep(p) ==
  \/ Reads(p) \/ Relinks(p) \/ Links(p) \/ Prepares(p) \/ FetchFails(p) \/ RemovesOld(p)
  \/ FindsBuilder(p) \/ RunsContainer(p)

-----------------------------------------------------------------------------
(* config and clean.                                                       *)

\* update_config_location: an omitted url is that of the project, whatever the file has.
Sets(p) ==
  /\ At(p, "set") /\ Whole
  /\ \E t \in Text : Truncates(p, Resolve(t, DefaultUrl))

CannotSet(p) ==
  /\ At(p, "set") /\ ~Whole
  /\ Ends(p, "failed")
  /\ UNCHANGED fileVars

\* Mutant: config.toml is kept even with --all.
MutToRemove(c) == dirs

\* The entries of the home directory that the command removes.
ToRemove(c) ==
  IF c = "clean_all" /\ config # None THEN dirs \cup {"config"} ELSE dirs

Lists(p) ==
  /\ At(p, "list")
  /\ todo' = [todo EXCEPT ![p] = ToRemove(cmd[p])]
  /\ Goto(p, "remove")
  /\ UNCHANGED <<seen, entropy, fileVars>>

RemovesConfig(p) ==
  /\ At(p, "remove") /\ "config" \in todo[p] /\ config # None
  /\ todo' = [todo EXCEPT ![p] = @ \ {"config"}]
  /\ config' = None
  /\ Goto(p, "remove")
  /\ UNCHANGED <<seen, entropy, dirs, keyVars, codeVars>>

\* What goes with a directory.  bin/ is gone for a container that has it mounted.
Empties(d) ==
  /\ IF d = "keys" THEN mnemonic' = None /\ addresses' = None ELSE UNCHANGED keyVars
  /\ CASE d = "code" -> RemovesRepository(None) /\ UNCHANGED bin
       [] d = "bin" -> /\ bin' = None
                       /\ containers' = {[c EXCEPT !.out = FALSE] : c \in containers}
                       /\ UNCHANGED repo
       [] OTHER -> UNCHANGED <<repo, bin, containers>>

RemovesDirectory(p) ==
  /\ At(p, "remove")
  /\ \E d \in todo[p] \cap dirs :
       /\ todo' = [todo EXCEPT ![p] = @ \ {d}]
       /\ dirs' = dirs \ {d}
       /\ Empties(d)
  /\ Goto(p, "remove")
  /\ UNCHANGED <<seen, entropy, config, images>>

\* Another clean was faster.
FindsNothing(p) ==
  /\ At(p, "remove")
  /\ \E e \in todo[p] : e \notin dirs /\ (e = "config" => config = None)
  /\ Ends(p, "failed")
  /\ UNCHANGED fileVars

\* With --images: docker keeps the image of a container.
Cleaned(p) ==
  /\ At(p, "remove") /\ todo[p] = {}
  /\ images' \in {images, IF containers = {} THEN {} ELSE images \cap {"builder"}}
  /\ Ends(p, "ok")
  /\ UNCHANGED <<config, dirs, keyVars, repo, bin, containers>>

CleanStep(p) ==
  \/ Sets(p) \/ CannotSet(p) \/ Lists(p) \/ RemovesConfig(p) \/ RemovesDirectory(p)
  \/ FindsNothing(p) \/ Cleaned(p)

-----------------------------------------------------------------------------
(* A step fails, or the command is killed.  What it was at is left half done.  *)

Halfway(p) ==
  \/ UNCHANGED fileVars
  \/ /\ At(p, "mnemonic") /\ mnemonic' = Torn /\ dirs' = dirs \cup {"keys"}
     /\ UNCHANGED <<config, addresses, codeVars>>
  \/ /\ At(p, "addresses") /\ addresses' = Torn /\ dirs' = dirs \cup {"keys"}
     /\ UNCHANGED <<config, mnemonic, codeVars>>
  \/ /\ At(p, "clone") /\ repo = None /\ repo' = Cloned(seen[p].url)
     /\ dirs' = dirs \cup {"code"}
     /\ UNCHANGED <<config, keyVars, bin, images, containers>>
  \/ /\ pc[p] \in {"relink", "remove_repo"} /\ ~IsLink(repo) /\ repo # None /\ RemovesRepository(Part)
     /\ UNCHANGED <<config, dirs, keyVars, bin, images>>
  \/ /\ At(p, "remove") /\ "keys" \in todo[p]
     /\ \/ mnemonic' = None /\ UNCHANGED addresses
        \/ addresses' = None /\ UNCHANGED mnemonic
     /\ UNCHANGED <<config, dirs, codeVars>>
  \/ /\ At(p, "remove") /\ "code" \in todo[p] /\ ~IsLink(repo) /\ repo # None /\ RemovesRepository(Part)
     /\ UNCHANGED <<config, dirs, keyVars, bin, images>>

Breaks(p) ==
  /\ pc[p] \notin {"off", "check", "wait"}
  /\ Halfway(p)
  /\ Ends(p, "broken")

\* A build that is killed leaves its container, which docker runs to its end.
Deserts(p) ==
  /\ At(p, "wait")
  /\ containers' = {IF c.by = p THEN [c EXCEPT !.by = None] ELSE c : c \in containers}
  /\ Ends(p, "broken")
  /\ UNCHANGED <<config, dirs, keyVars, repo, bin, images>>

\* make fails, or a cp, or somebody stops the container.
Dies(c) ==
  /\ c \in containers
  /\ Leaves(c) /\ UNCHANGED bin
  /\ Tells(c, "broken")

-----------------------------------------------------------------------------
\* A build is disturbed when another process changes the repository under it, or
\* removes a directory.
Disturbs(q) == cmd[q] = "build" /\ (repo' # repo \/ ~(dirs \subseteq dirs'))
Remembers(p) ==
  past' = [q \in Proc |->
    IF q # p THEN [past[q] EXCEPT !.disturbed = @ \/ Disturbs(q)]
    ELSE IF pc'[q] = "off" THEN Calm ELSE past[q]]

Trouble == troubles < MaxTroubles /\ troubles' = troubles + 1

Next ==
  \/ \E p \in Proc, c \in Commands : Invoke(p, c)
  \/ \E p \in Proc :
       /\ InitStep(p) \/ BuildStep(p) \/ CleanStep(p)
       /\ Remembers(p)
       /\ UNCHANGED <<crossed, commands, troubles>>
  \/ \E c \in containers :
       /\ Makes(c) \/ Copies(c) \/ Finishes(c) \/ MakeFails(c)
       /\ Remembers(c.by)
       /\ UNCHANGED <<crossed, commands, troubles>>
  \/ /\ \/ \E p \in Proc : (Breaks(p) \/ Deserts(p)) /\ Remembers(p)
        \/ \E c \in containers : Dies(c) /\ Remembers(c.by)
     /\ Trouble
     /\ UNCHANGED <<crossed, commands>>

Spec == Init /\ [][Next]_vars

-----------------------------------------------------------------------------
TypeOK ==
  /\ cmd \in [Proc -> Commands \cup {"none"}]
  /\ \A p \in Proc : Live(p) <=> cmd[p] # "none"
  /\ seen \in [Proc -> Location \cup {None}]
  /\ entropy \in [Proc -> Entropy \cup {"static", None}]
  /\ todo \in [Proc -> SUBSET (Dirs \cup {"config"})]
  /\ config \in Location \cup {None, Torn}
  /\ dirs \subseteq Dirs /\ images \subseteq Images
  /\ {mnemonic, addresses} \subseteq Entropy \cup {"static", Torn, None}
  /\ repo \in {None, Part} \cup [url : Url \cup {"local"}, at : Ref \cup {None}, subs : BOOLEAN]
  /\ Cardinality(containers) <= 1
  /\ \A c \in containers : c.by \in Proc => At(c.by, "wait")
  /\ past \in [Proc -> [alone : BOOLEAN, after : Cleans \cup {"none"}, disturbed : BOOLEAN]]

\* "Initialization completed successfully": an init that nothing overlapped leaves a
\* whole configuration, both key files, the repository at the ref of the configuration
\* with its submodules, and the images: whatever earlier commands left half done, it
\* does not take for its own.
InitIsComplete ==
  Ended(Inits, "ok") /\ last.past.alone =>
    /\ dirs = Dirs
    /\ config \in Location /\ {mnemonic, addresses} \cap {None, Torn} = {}
    /\ repo = IF config = Local THEN Link
              ELSE [url |-> config.url, at |-> config.ref, subs |-> TRUE]
    /\ last.cmd = "init" => images = Images

\* The addresses of the cluster come from addresses.json and the keys that are exported
\* from the mnemonic: as long as no two inits have overlapped, both are of the same
\* entropy, whatever was killed or removed in between.
KeysArePaired ==
  ~crossed /\ {mnemonic, addresses} \cap {None, Torn} = {} => mnemonic = addresses

\* A build that succeeded, and under which nobody changed the repository, has made all
\* binaries from the ref it read in the configuration, although an earlier build may
\* still run; the url it read counts only for a repository that is cloned anew.
BuildIsFaithful ==
  Ended({"build"}, "ok") /\ ~last.past.disturbed =>
    /\ bin = [url |-> repo.url, ref |-> last.seen.ref]
    /\ IsLink(repo) <=> last.seen = Local

\* "Run 'foc-devnet clean' first, then re-run init": after a clean init is accepted and
\* fails for no reason of its own, whatever the commands before have left; only a torn
\* configuration, which a plain clean preserves, is beyond it.
CleanRecovers ==
  Ended(Inits, "failed") /\ last.past.alone /\ last.past.after # "none" =>
    last.past.after = "clean" /\ config = Torn

\* "The application will clone the repo and build the executable from this commit"
\* (config.rs:24): a build that nobody disturbed has built the location it read.
DocBuildsConfigured ==
  Ended({"build"}, "ok") /\ ~last.past.disturbed => bin = last.seen
=============================================================================
