---------------------------- MODULE SetupProofs -----------------------------
(***************************************************************************)
(* For any number of processes, repositories and refs and histories of any *)
(* length: the keys are a pair, a build makes what it read, a clean clears *)
(* the way for an init, and an init that succeeds is complete.             *)
(***************************************************************************)
EXTENDS Setup, TLAPS, FiniteSetTheorems

-----------------------------------------------------------------------------
(* Where a command can be.                                                 *)

Early == {"dirs", "config", "write", "mnemonic"}
Fetching == {"clone", "checkout", "submodules"}
Initializing == {"check", "addresses", "repositories", "images"} \cup Early \cup Fetching
Preparing == {"relink", "link", "prepare", "remove_repo", "clone", "checkout"}
Making == {"image", "run", "wait"}

Places(c) ==
  CASE c = "none" -> {"off"}
    [] c \in Inits -> Initializing
    [] c = "build" -> {"read"} \cup Preparing \cup Making
    [] c = "config" -> {"set", "write"}
    [] OTHER -> {"list", "remove"}

-----------------------------------------------------------------------------
(* The inductive invariant: types first.                                   *)

Functions ==
  /\ cmd = [p \in Proc |-> cmd[p]] /\ pc = [p \in Proc |-> pc[p]]
  /\ seen = [p \in Proc |-> seen[p]] /\ entropy = [p \in Proc |-> entropy[p]]
  /\ todo = [p \in Proc |-> todo[p]]
  /\ past \in [Proc -> [alone : BOOLEAN, after : Cleans \cup {"none"}, disturbed : BOOLEAN]]

Proper(p) ==
  /\ cmd[p] \in Commands \cup {"none"} /\ pc[p] \in Places(cmd[p])
  /\ seen[p] \in Location \cup {None}
  /\ entropy[p] \in Entropy \cup {"static", None}
  /\ todo[p] \subseteq Dirs \cup {"config"}
  /\ pc[p] \in {"write"} \cup Fetching \cup Preparing \cup Making => seen[p] \in Location
  /\ pc[p] \in {"relink", "link"} => seen[p] = Local
  /\ pc[p] \in {"prepare", "remove_repo"} \cup Fetching => seen[p] # Local

Processes == Functions /\ \A p \in Proc : Proper(p)

\* What is in a directory is gone with it.
Files ==
  /\ config \in Location \cup {None, Torn}
  /\ dirs \subseteq Dirs /\ images \subseteq Images
  /\ mnemonic \in Entropy \cup {"static", Torn, None}
  /\ addresses \in Entropy \cup {"static", Torn, None}
  /\ repo \in {None, Part} \cup [url : Url \cup {"local"}, at : Ref \cup {None}, subs : BOOLEAN]
  /\ "keys" \notin dirs => mnemonic = None /\ addresses = None
  /\ "code" \notin dirs => repo = None

Container == [by : Proc \cup {None}, local : BOOLEAN, out : BOOLEAN, copying : BOOLEAN,
              from : SUBSET ({None, Mixed, Local, Source(None)}
                             \cup {Source(r) : r \in {Part} \cup
                                [url : Url \cup {"local"}, at : Ref \cup {None}, subs : BOOLEAN]})]

\* The name of the container is that of the project.
OneContainer ==
  /\ \A c, d \in containers : c = d
  /\ \A c \in containers :
       /\ c \in Container
       /\ c.by \in Proc => pc[c.by] = "wait"

-----------------------------------------------------------------------------
(* The keys.                                                               *)

\* An init that passed the check finds no key of another.
Paired ==
  /\ \A p, q \in Proc : cmd[p] \in Inits /\ cmd[q] \in Inits => p = q
  /\ \A p \in Proc : cmd[p] \in Inits =>
       /\ pc[p] \in Early => mnemonic = None /\ addresses = None
       /\ pc[p] = "addresses" => addresses = None /\ mnemonic \in {entropy[p], None}
  /\ {mnemonic, addresses} \cap {None, Torn} = {} => mnemonic = addresses

-----------------------------------------------------------------------------
(* A command that no other has overlapped.                                 *)

Solo(p) == Live(p) /\ past[p].alone

Exclusive == \A p, q \in Proc : Solo(p) /\ p # q => ~Live(q)
Rested == last # NoCommand /\ last.past.alone => \A p \in Proc : ~Live(p)

Complete ==
  repo = IF config = Local THEN Link
         ELSE [url |-> config.url, at |-> config.ref, subs |-> TRUE]

Fresh == {"check", "dirs"}
Unfetched == {"config", "write", "mnemonic", "addresses", "repositories", "clone"}
Keyed == {"repositories", "images"} \cup Fetching

\* An init that goes on alone has made everything up to where it is.
Initialized(p) ==
  /\ pc[p] = "dirs" => dirs = {}
  /\ pc[p] \notin Fresh => dirs = Dirs
  /\ pc[p] \in Unfetched => repo = None
  /\ pc[p] \in {"mnemonic", "addresses", "repositories"} => config # None
  /\ pc[p] = "addresses" => mnemonic \notin {None, Torn} /\ entropy[p] \notin {None, Torn}
  /\ pc[p] \in Keyed => mnemonic \notin {None, Torn} /\ addresses \notin {None, Torn}
  /\ pc[p] \in Fetching => seen[p] = config
  /\ pc[p] \in Fetching \cup {"images"} => config \in Location
  /\ pc[p] = "checkout" => repo = Cloned(config.url)
  /\ pc[p] = "submodules" => repo = [Cloned(config.url) EXCEPT !.at = config.ref]
  /\ pc[p] = "images" => Complete

\* One that comes after a clean finds nothing, with --all no configuration either.
Recovering(p) ==
  /\ pc[p] = "check" /\ past[p].after # "none" => dirs = {}
  /\ past[p].after = "clean_all" =>
       /\ pc[p] \in {"check", "dirs", "config"} => config = None
       /\ pc[p] \in {"mnemonic", "addresses", "repositories"} => config \in Location

\* A clean that goes on alone has the rest yet to do.
Clearing(p) ==
  pc[p] = "remove" =>
    /\ dirs \subseteq todo[p]
    /\ cmd[p] = "clean_all" /\ config # None => "config" \in todo[p]

Progress ==
  \A p \in Proc : Solo(p) =>
    /\ cmd[p] \in Inits => Initialized(p) /\ Recovering(p)
    /\ cmd[p] \in Cleans => Clearing(p)

\* What the last command that was alone has left is still there.
Left ==
  Ended(Cleans, "ok") /\ last.past.alone =>
    dirs = {} /\ (last.cmd = "clean_all" => config = None)

-----------------------------------------------------------------------------
(* A build under which nobody has changed anything.                        *)

Steady(p) == cmd[p] = "build" /\ ~past[p].disturbed

Ready(p) == IF seen[p] = Local THEN repo = Link ELSE IsClone(repo) /\ repo.at = seen[p].ref

\* What its binaries are to be made from.
Wanted(p) == [url |-> repo.url, ref |-> seen[p].ref]

Building ==
  /\ \A p \in Proc : Steady(p) =>
       /\ pc[p] = "checkout" => IsClone(repo)
       /\ pc[p] \in Making => Ready(p)
       /\ pc[p] \in {"run", "wait"} => "bin" \in dirs
  /\ \A c \in containers : c.by \in Proc /\ Steady(c.by) =>
       /\ c.local = (seen[c.by] = Local) /\ c.out
       /\ c.from \subseteq {Wanted(c.by)}
       /\ c.copying => c.from = {Wanted(c.by)}

\* The last build that succeeded has left no container.
Built == Ended({"build"}, "ok") => containers = {}

IInv ==
  /\ Processes /\ Files /\ OneContainer /\ (~crossed => Paired)
  /\ Exclusive /\ Rested /\ Progress /\ Left /\ Building /\ Built
  /\ InitIsComplete /\ BuildIsFaithful /\ CleanRecovers

-----------------------------------------------------------------------------
(* The places, and what moves a command.                                   *)

\* What one command does, or has done to it, and what a build container does.
Acts(p) ==
  /\ InitStep(p) \/ BuildStep(p) \/ CleanStep(p) \/ Breaks(p) \/ Deserts(p)
  /\ Remembers(p) /\ UNCHANGED crossed

Runs(c) ==
  /\ Makes(c) \/ Copies(c) \/ Finishes(c) \/ MakeFails(c) \/ Dies(c)
  /\ Remembers(c.by) /\ UNCHANGED crossed

\* Every step is one of a command, of the build container, or a new command.
LEMMA WhoMoves ==
  ASSUME [Next]_vars
  PROVE  \/ UNCHANGED vars
         \/ \E p \in Proc : Acts(p)
         \/ \E c \in containers : Runs(c)
         \/ \E p \in Proc, c \in Commands : Invoke(p, c)
BY DEF Next, Acts, Runs

\* Where each command can be.
LEMMA PlacesOf ==
  /\ Places("none") = {"off"}
  /\ \A c \in Inits : Places(c) = Initializing
  /\ Places("build") = {"read"} \cup Preparing \cup Making
  /\ Places("config") = {"set", "write"}
  /\ \A c \in Cleans : Places(c) = {"list", "remove"}
BY DEF Places, Inits, Cleans

\* And which command can be there.
LEMMA Where ==
  ASSUME NEW p, Proper(p)
  PROVE  /\ cmd[p] = "none" <=> pc[p] = "off"
         /\ pc[p] \in {"check", "dirs", "config", "mnemonic", "addresses", "repositories",
                       "submodules", "images"} => cmd[p] \in Inits
         /\ pc[p] \in {"read", "relink", "link", "prepare", "remove_repo"} \cup Making =>
              cmd[p] = "build"
         /\ pc[p] \in {"clone", "checkout"} => cmd[p] \in Inits \cup {"build"}
         /\ pc[p] = "write" => cmd[p] \in Inits \cup {"config"}
         /\ pc[p] = "set" => cmd[p] = "config"
         /\ pc[p] \in {"list", "remove"} => cmd[p] \in Cleans
<1>1. cmd[p] \in Inits \cup Cleans \cup {"build", "config", "none"} /\ pc[p] \in Places(cmd[p])
  BY DEF Proper, Commands, Inits, Cleans
<1> QED BY <1>1, PlacesOf DEF Initializing, Early, Fetching, Preparing, Making

\* A command goes on at a place of its own.
LEMMA Roads ==
  ASSUME NEW p, Proper(p)
  PROVE  /\ cmd[p] \in Inits => Places(cmd[p]) = Initializing
         /\ cmd[p] = "build" => Places(cmd[p]) = {"read"} \cup Preparing \cup Making
         /\ cmd[p] = "config" => Places(cmd[p]) = {"set", "write"}
         /\ cmd[p] \in Cleans => Places(cmd[p]) = {"list", "remove"}
BY PlacesOf

\* What a step leaves of the other processes.
Frame(p) ==
  /\ cmd' = [q \in Proc |-> cmd'[q]] /\ pc' = [q \in Proc |-> pc'[q]]
  /\ seen' = [q \in Proc |-> seen'[q]] /\ entropy' = [q \in Proc |-> entropy'[q]]
  /\ todo' = [q \in Proc |-> todo'[q]]
  /\ \A q \in Proc : q # p =>
       /\ cmd'[q] = cmd[q] /\ pc'[q] = pc[q] /\ seen'[q] = seen[q]
       /\ entropy'[q] = entropy[q] /\ todo'[q] = todo[q]

\* Of a step that only goes on.
LEMMA KeepsIs ==
  ASSUME Processes, NEW p \in Proc, NEW there, Keeps(p, there)
  PROVE  /\ Frame(p) /\ pc'[p] = there
         /\ UNCHANGED <<cmd, seen, entropy, todo>> /\ last' = NoCommand
<1>1. pc' = [pc EXCEPT ![p] = there] /\ UNCHANGED <<cmd, seen, entropy, todo>>
      /\ last' = NoCommand
  BY DEF Keeps, Goto
<1>2. DOMAIN pc = Proc
  BY DEF Processes, Functions
<1>3. /\ pc' = [q \in Proc |-> pc'[q]] /\ pc'[p] = there
      /\ \A q \in Proc : q # p => pc'[q] = pc[q]
  BY <1>1, <1>2
<1>4. /\ cmd' = [q \in Proc |-> cmd'[q]] /\ seen' = [q \in Proc |-> seen'[q]]
      /\ entropy' = [q \in Proc |-> entropy'[q]] /\ todo' = [q \in Proc |-> todo'[q]]
  BY <1>1 DEF Processes, Functions
<1> QED BY <1>1, <1>3, <1>4 DEF Frame

\* Of one that also writes down what it has seen, drawn or found.
LEMMA GotoIs ==
  ASSUME Processes, NEW p \in Proc, NEW there, Goto(p, there)
  PROVE  /\ pc'[p] = there /\ UNCHANGED cmd /\ last' = NoCommand
         /\ \A x : seen' = [seen EXCEPT ![p] = x] /\ UNCHANGED <<entropy, todo>> =>
              Frame(p) /\ seen'[p] = x
         /\ \A x : entropy' = [entropy EXCEPT ![p] = x] /\ UNCHANGED <<seen, todo>> =>
              Frame(p) /\ entropy'[p] = x
         /\ \A x : todo' = [todo EXCEPT ![p] = x] /\ UNCHANGED <<seen, entropy>> =>
              Frame(p) /\ todo'[p] = x
<1>1. pc' = [pc EXCEPT ![p] = there] /\ UNCHANGED cmd /\ last' = NoCommand
  BY DEF Goto
<1>2. /\ DOMAIN pc = Proc /\ DOMAIN seen = Proc /\ DOMAIN entropy = Proc /\ DOMAIN todo = Proc
      /\ cmd = [q \in Proc |-> cmd[q]] /\ seen = [q \in Proc |-> seen[q]]
      /\ entropy = [q \in Proc |-> entropy[q]] /\ todo = [q \in Proc |-> todo[q]]
  BY DEF Processes, Functions
<1>3. /\ pc' = [q \in Proc |-> pc'[q]] /\ pc'[p] = there
      /\ \A q \in Proc : q # p => pc'[q] = pc[q]
  BY <1>1, <1>2
<1>4. ASSUME NEW x, seen' = [seen EXCEPT ![p] = x], UNCHANGED <<entropy, todo>>
      PROVE  Frame(p) /\ seen'[p] = x
  <2>1. seen' = [q \in Proc |-> seen'[q]] /\ seen'[p] = x
        /\ \A q \in Proc : q # p => seen'[q] = seen[q]
    BY <1>2, <1>4
  <2> QED BY <1>1, <1>2, <1>3, <1>4, <2>1 DEF Frame
<1>5. ASSUME NEW x, entropy' = [entropy EXCEPT ![p] = x], UNCHANGED <<seen, todo>>
      PROVE  Frame(p) /\ entropy'[p] = x
  <2>1. entropy' = [q \in Proc |-> entropy'[q]] /\ entropy'[p] = x
        /\ \A q \in Proc : q # p => entropy'[q] = entropy[q]
    BY <1>2, <1>5
  <2> QED BY <1>1, <1>2, <1>3, <1>5, <2>1 DEF Frame
<1>6. ASSUME NEW x, todo' = [todo EXCEPT ![p] = x], UNCHANGED <<seen, entropy>>
      PROVE  Frame(p) /\ todo'[p] = x
  <2>1. todo' = [q \in Proc |-> todo'[q]] /\ todo'[p] = x
        /\ \A q \in Proc : q # p => todo'[q] = todo[q]
    BY <1>2, <1>6
  <2> QED BY <1>1, <1>2, <1>3, <1>6, <2>1 DEF Frame
<1> QED BY <1>1, <1>3, <1>4, <1>5, <1>6

\* And of one that ends.
LEMMA EndsIs ==
  ASSUME Processes, NEW p \in Proc, NEW how, Ends(p, how)
  PROVE  /\ Frame(p) /\ Proper(p)'
         /\ cmd'[p] = "none" /\ pc'[p] = "off"
         /\ last' = [cmd |-> cmd[p], end |-> how, seen |-> seen[p], past |-> past[p]]
<1>1. /\ DOMAIN cmd = Proc /\ DOMAIN pc = Proc /\ DOMAIN seen = Proc
      /\ DOMAIN entropy = Proc /\ DOMAIN todo = Proc
  BY DEF Processes, Functions
<1>2. /\ cmd' = [cmd EXCEPT ![p] = "none"] /\ pc' = [pc EXCEPT ![p] = "off"]
      /\ seen' = [seen EXCEPT ![p] = None] /\ entropy' = [entropy EXCEPT ![p] = None]
      /\ todo' = [todo EXCEPT ![p] = {}]
      /\ last' = [cmd |-> cmd[p], end |-> how, seen |-> seen[p], past |-> past[p]]
  BY DEF Ends
<1>3. cmd' = [q \in Proc |-> cmd'[q]] /\ cmd'[p] = "none"
      /\ \A q \in Proc : q # p => cmd'[q] = cmd[q]
  BY <1>1, <1>2
<1>4. pc' = [q \in Proc |-> pc'[q]] /\ pc'[p] = "off"
      /\ \A q \in Proc : q # p => pc'[q] = pc[q]
  BY <1>1, <1>2
<1>5. seen' = [q \in Proc |-> seen'[q]] /\ seen'[p] = None
      /\ \A q \in Proc : q # p => seen'[q] = seen[q]
  BY <1>1, <1>2
<1>6. entropy' = [q \in Proc |-> entropy'[q]] /\ entropy'[p] = None
      /\ \A q \in Proc : q # p => entropy'[q] = entropy[q]
  BY <1>1, <1>2
<1>7. todo' = [q \in Proc |-> todo'[q]] /\ todo'[p] = {}
      /\ \A q \in Proc : q # p => todo'[q] = todo[q]
  BY <1>1, <1>2
<1>8. Proper(p)'
  BY <1>3, <1>4, <1>5, <1>6, <1>7, PlacesOf DEF Proper, Fetching, Preparing, Making
<1> QED BY <1>2, <1>3, <1>4, <1>5, <1>6, <1>7, <1>8 DEF Frame

\* What is resolved is a location.
LEMMA Resolved ==
  /\ Local \in Location /\ Default \in Location
  /\ \A t \in Text, u \in Url : Resolve(t, u) \in Location
  /\ \A t \in Text, old \in Location : Override(t, old) \in Location
<1>1. Local \in Location /\ Default \in Location
  BY SetupAssumption DEF Location, Default
<1>2. ASSUME NEW t \in Text, NEW u \in Url PROVE Resolve(t, u) \in Location
  <2>1. CASE t = Local
    BY <1>1, <2>1, SetupAssumption DEF Resolve, Local
  <2>2. CASE t \in [url : {None, DefaultUrl} \cup Url, ref : Ref]
    <3>1. CASE t.url = None
      BY <2>2, <3>1 DEF Resolve, Location
    <3>2. CASE t.url # None
      <4>1. t.url \in Url /\ t.ref \in Ref /\ t = [url |-> t.url, ref |-> t.ref]
        BY <2>2, <3>2, SetupAssumption
      <4> QED BY <3>2, <4>1 DEF Resolve, Location
    <3> QED BY <3>1, <3>2
  <2> QED BY <2>1, <2>2 DEF Text
<1>3. ASSUME NEW t \in Text, NEW old \in Location PROVE Override(t, old) \in Location
  <2>1. old # Local => old.url \in Url
    BY DEF Location
  <2> QED BY <1>2, <2>1, SetupAssumption DEF Override
<1> QED BY <1>1, <1>2, <1>3

\* Of one that truncates config.toml.
LEMMA TruncatesIs ==
  ASSUME Processes, NEW p \in Proc, NEW l, Truncates(p, l)
  PROVE  /\ Frame(p) /\ pc'[p] = "write" /\ seen'[p] = l
         /\ UNCHANGED <<cmd, entropy, todo>> /\ last' = NoCommand
BY GotoIs DEF Truncates

\* A command that moves goes on at a place of its own, or ends.
LEMMA Moves ==
  ASSUME Processes, Files, NEW p \in Proc, Acts(p)
  PROVE  /\ Live(p) /\ Frame(p) /\ Proper(p)'
         /\ (cmd'[p] = cmd[p] /\ last' = NoCommand) \/ \E how : Ends(p, how)
<1>0. Proper(p)
  BY DEF Processes
<1>1. CASE Checks(p)
  BY <1>0, <1>1, KeepsIs, EndsIs, Roads, Where
    DEF Checks, At, Live, Proper, Initializing, Early, Fetching, Preparing, Making
<1>2. CASE CreatesDirectories(p)
  BY <1>0, <1>2, KeepsIs, Roads, Where
    DEF CreatesDirectories, At, Live, Proper, Initializing, Early, Fetching, Preparing,
      Making
<1>3. CASE ReusesConfig(p)
  BY <1>0, <1>3, KeepsIs, Roads, Where
    DEF ReusesConfig, At, Live, Proper, Initializing, Early, Fetching, Preparing, Making
<1>4. CASE OverridesConfig(p)
  <2>1. PICK l \in Location : Truncates(p, l)
    BY <1>4, Resolved, SetupAssumption DEF OverridesConfig, Whole
  <2>2. pc[p] = "config"
    BY <1>4 DEF OverridesConfig, At
  <2>3. Frame(p) /\ pc'[p] = "write" /\ seen'[p] = l /\ UNCHANGED <<cmd, entropy, todo>>
        /\ last' = NoCommand
    BY <2>1, TruncatesIs
  <2> QED BY <1>0, <2>2, <2>3, Roads, Where DEF Live, Proper, Initializing, Early, Fetching
<1>5. CASE CannotOverride(p)
  BY <1>5, EndsIs DEF CannotOverride, At, Live
<1>6. CASE GeneratesConfig(p)
  <2>1. PICK l \in Location : Truncates(p, l)
    BY <1>6, Resolved DEF GeneratesConfig
  <2>2. pc[p] = "config"
    BY <1>6 DEF GeneratesConfig, At
  <2>3. Frame(p) /\ pc'[p] = "write" /\ seen'[p] = l /\ UNCHANGED <<cmd, entropy, todo>>
        /\ last' = NoCommand
    BY <2>1, TruncatesIs
  <2> QED BY <1>0, <2>2, <2>3, Roads, Where DEF Live, Proper, Initializing, Early, Fetching
<1>7. CASE WritesConfig(p)
  BY <1>0, <1>7, KeepsIs, EndsIs, Roads, Where
    DEF WritesConfig, At, Live, Proper, Initializing, Early, Fetching
<1>8. CASE StoresMnemonic(p)
  <2>1. PICK e \in {"static"} \cup Entropy : entropy' = [entropy EXCEPT ![p] = e]
    BY <1>8 DEF StoresMnemonic
  <2>2. /\ pc[p] = "mnemonic" /\ Frame(p) /\ pc'[p] = "addresses" /\ entropy'[p] = e
        /\ UNCHANGED <<cmd, seen, todo>> /\ last' = NoCommand
    BY <1>8, <2>1, GotoIs DEF StoresMnemonic, At
  <2> QED BY <1>0, <2>2, Roads, Where
      DEF Live, Proper, Initializing, Fetching, Preparing, Making
<1>9. CASE SavesKeys(p)
  BY <1>0, <1>9, KeepsIs, Roads, Where
    DEF SavesKeys, At, Live, Proper, Initializing, Fetching, Preparing, Making
<1>10. CASE Downloads(p)
  <2>1. pc[p] = "repositories" /\ config \in Location
    BY <1>10 DEF Downloads, At, Whole
  <2>2. /\ Frame(p) /\ seen'[p] = config /\ UNCHANGED <<cmd, entropy, todo>> /\ last' = NoCommand
        /\ pc'[p] \in {"clone", "images"} /\ (pc'[p] = "clone" => config # Local)
    <3>1. seen' = [seen EXCEPT ![p] = config] /\ UNCHANGED <<entropy, todo>>
      BY <1>10 DEF Downloads
    <3>2. PICK there \in {"clone", "images"} :
            Goto(p, there) /\ (there = "clone" => config # Local)
      BY <1>10 DEF Downloads
    <3> QED BY <3>1, <3>2, GotoIs
  <2> QED BY <1>0, <2>1, <2>2, Roads, Where DEF Live, Proper, Initializing, Fetching
<1>11. CASE CannotDownload(p)
  BY <1>11, EndsIs DEF CannotDownload, At, Live
<1>12. CASE Clones(p)
  BY <1>0, <1>12, KeepsIs, EndsIs, Roads, Where
    DEF Clones, At, Live, Proper, Initializing, Fetching, Preparing, Making
<1>13. CASE ChecksOut(p)
  BY <1>0, <1>13, KeepsIs, EndsIs, Roads, Where
    DEF ChecksOut, At, Live, Proper, Initializing, Fetching, Making
<1>14. CASE UpdatesSubmodules(p)
  BY <1>0, <1>14, KeepsIs, EndsIs, Roads, Where
    DEF UpdatesSubmodules, At, Live, Proper, Initializing, Fetching
<1>15. CASE BuildsImages(p)
  BY <1>15, EndsIs DEF BuildsImages, At, Live
<1>16. CASE Reads(p)
  <2>1. pc[p] = "read"
    BY <1>16 DEF Reads, At
  <2>2. CASE Whole
    <3>1. /\ Frame(p) /\ seen'[p] = config /\ UNCHANGED <<cmd, entropy, todo>>
          /\ last' = NoCommand
          /\ pc'[p] = IF config = Local THEN "relink" ELSE "prepare"
      BY <1>16, <2>2, GotoIs DEF Reads
    <3> QED BY <1>0, <2>1, <2>2, <3>1, Roads, Where
        DEF Live, Proper, Whole, Fetching, Preparing
  <2>3. CASE ~Whole
    BY <1>16, <2>1, <2>3, EndsIs DEF Reads, Live
  <2> QED BY <2>2, <2>3
<1>17. CASE Relinks(p)
  BY <1>0, <1>17, KeepsIs, Roads, Where DEF Relinks, At, Live, Proper, Fetching, Preparing
<1>18. CASE Links(p)
  BY <1>0, <1>18, KeepsIs, EndsIs, Roads, Where DEF Links, At, Live, Proper, Fetching, Making
<1>19. CASE Prepares(p)
  BY <1>0, <1>19, KeepsIs, Roads, Where DEF Prepares, At, Live, Proper, Preparing
<1>20. CASE FetchFails(p)
  BY <1>20, EndsIs DEF FetchFails, At, Live
<1>21. CASE RemovesOld(p)
  BY <1>0, <1>21, KeepsIs, Roads, Where DEF RemovesOld, At, Live, Proper, Preparing
<1>22. CASE FindsBuilder(p)
  BY <1>0, <1>22, KeepsIs, Roads, Where DEF FindsBuilder, At, Live, Proper, Fetching, Making
<1>23. CASE RunsContainer(p)
  BY <1>0, <1>23, KeepsIs, EndsIs, Roads, Where
    DEF RunsContainer, At, Live, Proper, Fetching, Preparing, Making
<1>24. CASE Sets(p)
  <2>1. PICK l \in Location : Truncates(p, l)
    BY <1>24, Resolved, SetupAssumption DEF Sets, Whole
  <2>2. pc[p] = "set"
    BY <1>24 DEF Sets, At
  <2>3. Frame(p) /\ pc'[p] = "write" /\ seen'[p] = l /\ UNCHANGED <<cmd, entropy, todo>>
        /\ last' = NoCommand
    BY <2>1, TruncatesIs
  <2> QED BY <1>0, <2>2, <2>3, Roads, Where DEF Live, Proper, Fetching
<1>25. CASE CannotSet(p)
  BY <1>25, EndsIs DEF CannotSet, At, Live
<1>26. CASE Lists(p)
  <2>1. pc[p] \in {"list", "remove"} /\ UNCHANGED <<seen, entropy>> /\ Goto(p, "remove")
    BY <1>26 DEF Lists, At
  <2>2. PICK x : x \subseteq Dirs \cup {"config"} /\ todo' = [todo EXCEPT ![p] = x]
    BY <1>26 DEF Lists, ToRemove, Files
  <2>3. Frame(p) /\ pc'[p] = "remove" /\ todo'[p] = x /\ UNCHANGED cmd /\ last' = NoCommand
    BY <2>1, <2>2, GotoIs
  <2> QED BY <1>0, <2>1, <2>2, <2>3, Roads, Where
      DEF Live, Proper, Fetching, Preparing, Making
<1>27. CASE RemovesConfig(p)
  <2>1. pc[p] \in {"list", "remove"} /\ UNCHANGED <<seen, entropy>> /\ Goto(p, "remove")
    BY <1>27 DEF RemovesConfig, At
  <2>2. PICK x : x \subseteq todo[p] /\ todo' = [todo EXCEPT ![p] = x]
    BY <1>27 DEF RemovesConfig
  <2>3. Frame(p) /\ pc'[p] = "remove" /\ todo'[p] = x /\ UNCHANGED cmd /\ last' = NoCommand
    BY <2>1, <2>2, GotoIs
  <2> QED BY <1>0, <2>1, <2>2, <2>3, Roads, Where
      DEF Live, Proper, Fetching, Preparing, Making
<1>28. CASE RemovesDirectory(p)
  <2>1. pc[p] \in {"list", "remove"} /\ UNCHANGED <<seen, entropy>> /\ Goto(p, "remove")
    BY <1>28 DEF RemovesDirectory, At
  <2>2. PICK x : x \subseteq todo[p] /\ todo' = [todo EXCEPT ![p] = x]
    BY <1>28 DEF RemovesDirectory
  <2>3. Frame(p) /\ pc'[p] = "remove" /\ todo'[p] = x /\ UNCHANGED cmd /\ last' = NoCommand
    BY <2>1, <2>2, GotoIs
  <2> QED BY <1>0, <2>1, <2>2, <2>3, Roads, Where
      DEF Live, Proper, Fetching, Preparing, Making
<1>29. CASE FindsNothing(p)
  BY <1>29, EndsIs DEF FindsNothing, At, Live
<1>30. CASE Cleaned(p)
  BY <1>30, EndsIs DEF Cleaned, At, Live
<1>31. CASE Breaks(p)
  BY <1>31, EndsIs DEF Breaks, At, Live
<1>32. CASE Deserts(p)
  BY <1>32, EndsIs DEF Deserts, At, Live
<1> QED BY <1>1, <1>2, <1>3, <1>4, <1>5, <1>6, <1>7, <1>8, <1>9, <1>10, <1>11, <1>12, <1>13,
    <1>14, <1>15, <1>16, <1>17, <1>18, <1>19, <1>20, <1>21, <1>22, <1>23, <1>24, <1>25,
    <1>26, <1>27, <1>28, <1>29, <1>30, <1>31, <1>32 DEF Acts, InitStep, BuildStep, CleanStep

\* What each command has been through: of the one that moves nothing changes, unless it
\* ends; the others may be disturbed.
LEMMA PastIs ==
  ASSUME Processes, NEW p, Remembers(p)
  PROVE  /\ past' \in [Proc -> [alone : BOOLEAN, after : Cleans \cup {"none"},
                                disturbed : BOOLEAN]]
         /\ p \in Proc => past'[p] = IF pc'[p] = "off" THEN Calm ELSE past[p]
         /\ \A q \in Proc : q # p =>
              /\ past'[q].alone = past[q].alone /\ past'[q].after = past[q].after
              /\ past'[q].disturbed = (past[q].disturbed \/ Disturbs(q))
<1> DEFINE P == [alone : BOOLEAN, after : Cleans \cup {"none"}, disturbed : BOOLEAN]
<1>1. past \in [Proc -> P]
  BY DEF Processes, Functions
<1>2. past' = [q \in Proc |->
        IF q # p THEN [past[q] EXCEPT !.disturbed = @ \/ Disturbs(q)]
        ELSE IF pc'[q] = "off" THEN Calm ELSE past[q]]
  BY DEF Remembers
<1>3. Calm \in P
  BY DEF Calm
<1>4. ASSUME NEW q \in Proc, q # p
      PROVE  /\ past'[q] \in P
             /\ past'[q].alone = past[q].alone /\ past'[q].after = past[q].after
             /\ past'[q].disturbed = (past[q].disturbed \/ Disturbs(q))
  <2>1. past'[q] = [past[q] EXCEPT !.disturbed = past[q].disturbed \/ Disturbs(q)]
    BY <1>2, <1>4
  <2>2. past[q] \in P
    BY <1>1
  <2>3. (past[q].disturbed \/ Disturbs(q)) \in BOOLEAN
    OBVIOUS
  <2> HIDE DEF P
  <2>4. \A b \in BOOLEAN : /\ [past[q] EXCEPT !.disturbed = b] \in P
                           /\ [past[q] EXCEPT !.disturbed = b].alone = past[q].alone
                           /\ [past[q] EXCEPT !.disturbed = b].after = past[q].after
                           /\ [past[q] EXCEPT !.disturbed = b].disturbed = b
    BY <2>2 DEF P
  <2> QED BY <2>1, <2>3, <2>4
<1>5. p \in Proc => past'[p] = IF pc'[p] = "off" THEN Calm ELSE past[p]
  BY <1>2
<1>6. \A q \in Proc : past'[q] \in P
  BY <1>1, <1>3, <1>4, <1>5
<1>7. past' = [q \in Proc |-> past'[q]]
  BY <1>2
<1>8. past' \in [Proc -> P]
  BY <1>6, <1>7
<1> QED BY <1>4, <1>5, <1>8

\* So a command that moves keeps the commands what they are.
LEMMA ActsKeeps ==
  ASSUME Processes, Files, NEW p \in Proc, Acts(p)
  PROVE  Processes'
<1>1. Frame(p) /\ Proper(p)'
  BY Moves
<1>2. Functions'
  BY <1>1, PastIs DEF Acts, Functions, Frame
<1>3. ASSUME NEW q \in Proc, q # p PROVE Proper(q)'
  <2>1. cmd'[q] = cmd[q] /\ pc'[q] = pc[q] /\ seen'[q] = seen[q] /\ entropy'[q] = entropy[q]
        /\ todo'[q] = todo[q]
    BY <1>1, <1>3 DEF Frame
  <2>2. Proper(q)
    BY DEF Processes
  <2> QED BY <2>1, <2>2 DEF Proper
<1> QED BY <1>1, <1>2, <1>3 DEF Processes

\* So does the build container: it ends the build that waits for it or moves none.
LEMMA RunsKeeps ==
  ASSUME Processes, OneContainer, NEW c \in containers, Runs(c)
  PROVE  /\ Processes'
         /\ UNCHANGED <<config, dirs, keyVars, repo, images>>
         /\ \A q \in Proc :
              /\ Live(q)' => /\ cmd'[q] = cmd[q] /\ pc'[q] = pc[q] /\ seen'[q] = seen[q]
                             /\ entropy'[q] = entropy[q] /\ todo'[q] = todo[q]
                             /\ past'[q] = past[q] /\ Live(q)
              /\ Live(q) /\ ~Live(q)' => q = c.by
<1>1. /\ UNCHANGED <<config, dirs, keyVars, repo, images>>
      /\ UNCHANGED <<procVars, last>> \/ (c.by \in Proc /\ \E how : Ends(c.by, how))
  <2>1. CASE Makes(c) \/ Copies(c)
    BY <2>1 DEF Makes, Copies, procVars, keyVars
  <2>2. CASE Finishes(c) \/ MakeFails(c) \/ Dies(c)
    <3>1. UNCHANGED <<config, dirs, keyVars, repo, images>>
      BY <2>2 DEF Finishes, MakeFails, Dies, Leaves
    <3>2. \E how : Tells(c, how)
      BY <2>2 DEF Finishes, MakeFails, Dies
    <3> QED BY <3>1, <3>2 DEF Tells, procVars
  <2> QED BY <2>1, <2>2 DEF Runs
<1>2. UNCHANGED procVars => UNCHANGED <<cmd, pc, seen, entropy, todo>>
  BY DEF procVars
<1>3. \A q \in Proc : ~Disturbs(q)
  BY <1>1 DEF Disturbs
<1>4. Remembers(c.by)
  BY DEF Runs
<1>5. ASSUME NEW q \in Proc
      PROVE  past'[q] = IF pc'[q] = "off" /\ q = c.by THEN Calm ELSE past[q]
  <2>1. CASE q = c.by
    BY <1>4, <2>1, PastIs
  <2>2. CASE q # c.by
    <3>1. /\ past'[q].alone = past[q].alone /\ past'[q].after = past[q].after
          /\ past'[q].disturbed = (past[q].disturbed \/ Disturbs(q))
          /\ past'[q] \in [alone : BOOLEAN, after : Cleans \cup {"none"}, disturbed : BOOLEAN]
      BY <1>4, <2>2, PastIs
    <3>2. past[q] \in [alone : BOOLEAN, after : Cleans \cup {"none"}, disturbed : BOOLEAN]
      BY DEF Processes, Functions
    <3>3. past'[q].disturbed = past[q].disturbed
      BY <1>3, <3>1, <3>2
    <3> QED BY <2>2, <3>1, <3>2, <3>3
  <2> QED BY <2>1, <2>2
<1>6. CASE UNCHANGED <<procVars, last>>
  <2>1. UNCHANGED <<cmd, pc, seen, entropy, todo>>
    BY <1>2, <1>6
  <2>2. Functions'
    BY <1>4, <2>1, PastIs DEF Processes, Functions
  <2>3. ASSUME NEW q \in Proc PROVE Proper(q)'
    <3>1. Proper(q)
      BY DEF Processes
    <3> QED BY <2>1, <3>1 DEF Proper
  <2> QED BY <1>1, <1>5, <2>1, <2>2, <2>3 DEF Processes, Live
<1>7. CASE c.by \in Proc /\ \E how : Ends(c.by, how)
  <2>1. Frame(c.by) /\ Proper(c.by)' /\ pc'[c.by] = "off"
    BY <1>7, EndsIs
  <2>2. Functions'
    BY <1>4, <2>1, PastIs DEF Functions, Frame
  <2>3. ASSUME NEW q \in Proc, q # c.by
        PROVE  /\ Proper(q)'
               /\ cmd'[q] = cmd[q] /\ pc'[q] = pc[q] /\ seen'[q] = seen[q]
               /\ entropy'[q] = entropy[q] /\ todo'[q] = todo[q]
    <3>1. /\ cmd'[q] = cmd[q] /\ pc'[q] = pc[q] /\ seen'[q] = seen[q]
          /\ entropy'[q] = entropy[q] /\ todo'[q] = todo[q]
      BY <2>1, <2>3 DEF Frame
    <3>2. Proper(q)
      BY DEF Processes
    <3> QED BY <3>1, <3>2 DEF Proper
  <2> QED BY <1>1, <1>5, <2>1, <2>2, <2>3 DEF Processes, Live
<1> QED BY <1>1, <1>6, <1>7

\* A new command starts at its first place.
LEMMA InvokeKeeps ==
  ASSUME Processes, NEW p \in Proc, NEW c \in Commands, Invoke(p, c)
  PROVE  /\ Processes' /\ ~Live(p) /\ cmd'[p] = c /\ pc'[p] = First[c] /\ pc'[p] # "off"
         /\ \A q \in Proc : q # p =>
              /\ cmd'[q] = cmd[q] /\ pc'[q] = pc[q]
              /\ past'[q].alone = (past[q].alone /\ ~Live(q))
              /\ past'[q].after = past[q].after /\ past'[q].disturbed = past[q].disturbed
         /\ past'[p].alone = (\A o \in Proc : ~Live(o))
         /\ past'[p].after = IF Ended(Cleans, "ok") /\ last.past.alone THEN last.cmd ELSE "none"
         /\ UNCHANGED <<seen, entropy, todo, fileVars>> /\ last' = NoCommand
<1> DEFINE P == [alone : BOOLEAN, after : Cleans \cup {"none"}, disturbed : BOOLEAN]
<1> DEFINE mine == [alone |-> \A o \in Proc : ~Live(o),
                    after |-> IF Ended(Cleans, "ok") /\ last.past.alone THEN last.cmd ELSE "none",
                    disturbed |-> FALSE]
<1>1. /\ pc[p] = "off" /\ cmd' = [cmd EXCEPT ![p] = c] /\ pc' = [pc EXCEPT ![p] = First[c]]
      /\ past' = [q \in Proc |-> IF q = p THEN mine
                                 ELSE [past[q] EXCEPT !.alone = @ /\ ~Live(q)]]
      /\ UNCHANGED <<seen, entropy, todo, fileVars>> /\ last' = NoCommand
  BY DEF Invoke, At
<1>2. /\ mine \in P /\ mine.alone = (\A o \in Proc : ~Live(o))
      /\ mine.after = IF Ended(Cleans, "ok") /\ last.past.alone THEN last.cmd ELSE "none"
  <2>1. \A b \in BOOLEAN, a \in Cleans \cup {"none"} :
          /\ [alone |-> b, after |-> a, disturbed |-> FALSE] \in P
          /\ [alone |-> b, after |-> a, disturbed |-> FALSE].alone = b
          /\ [alone |-> b, after |-> a, disturbed |-> FALSE].after = a
    OBVIOUS
  <2>2. (\A o \in Proc : ~Live(o)) \in BOOLEAN
        /\ (IF Ended(Cleans, "ok") /\ last.past.alone THEN last.cmd ELSE "none")
             \in Cleans \cup {"none"}
    BY DEF Ended
  <2> HIDE DEF P
  <2> QED BY <2>1, <2>2
<1> HIDE DEF mine
<1>3. past \in [Proc -> P] /\ DOMAIN cmd = Proc /\ DOMAIN pc = Proc
  BY DEF Processes, Functions
<1>4. ASSUME NEW q \in Proc, q # p
      PROVE  /\ past'[q] \in P /\ past'[q].alone = (past[q].alone /\ ~Live(q))
             /\ past'[q].after = past[q].after /\ past'[q].disturbed = past[q].disturbed
  <2>1. past'[q] = [past[q] EXCEPT !.alone = past[q].alone /\ ~Live(q)]
    BY <1>1, <1>4
  <2>2. (past[q].alone /\ ~Live(q)) \in BOOLEAN /\ past[q] \in P
    BY <1>3
  <2>3. \A b \in BOOLEAN : /\ [past[q] EXCEPT !.alone = b] \in P
                           /\ [past[q] EXCEPT !.alone = b].alone = b
                           /\ [past[q] EXCEPT !.alone = b].after = past[q].after
                           /\ [past[q] EXCEPT !.alone = b].disturbed = past[q].disturbed
    BY <2>2
  <2> QED BY <2>1, <2>2, <2>3
<1>5. past'[p] = mine /\ past' = [q \in Proc |-> past'[q]]
  BY <1>1
<1>6. past' \in [Proc -> P]
  <2>1. \A q \in Proc : past'[q] \in P
    BY <1>2, <1>4, <1>5
  <2> QED BY <1>5, <2>1
<1>7. /\ cmd' = [q \in Proc |-> cmd'[q]] /\ pc' = [q \in Proc |-> pc'[q]]
      /\ cmd'[p] = c /\ pc'[p] = First[c]
      /\ \A q \in Proc : q # p => cmd'[q] = cmd[q] /\ pc'[q] = pc[q]
  BY <1>1, <1>3
<1>8. Functions'
  BY <1>1, <1>6, <1>7 DEF Processes, Functions
<1>9. First[c] \in Places(c) \cap {"check", "read", "set", "list"}
  <2>1. First[c] = CASE c \in Inits -> "check"
                        [] c = "build" -> "read"
                        [] c = "config" -> "set"
                        [] OTHER -> "list"
    BY DEF First
  <2>2. c \in Inits \cup Cleans \cup {"build", "config"}
    BY DEF Commands, Inits, Cleans
  <2>3. c \notin {"build", "config"} \/ c \notin Inits \cup Cleans
    BY DEF Inits, Cleans
  <2>4. c \notin Inits \/ c \notin Cleans
    BY DEF Inits, Cleans
  <2> QED BY <2>1, <2>2, <2>3, <2>4, PlacesOf DEF Initializing
<1>10. ASSUME NEW q \in Proc PROVE Proper(q)'
  <2>1. Proper(q)
    BY DEF Processes
  <2>2. CASE q = p
    BY <1>1, <1>7, <1>9, <2>1, <2>2 DEF Proper, Fetching, Preparing, Making
  <2>3. CASE q # p
    BY <1>1, <1>7, <2>1, <2>3 DEF Proper
  <2> QED BY <2>2, <2>3
<1> QED BY <1>1, <1>2, <1>4, <1>5, <1>7, <1>8, <1>9, <1>10 DEF Processes, Live

-----------------------------------------------------------------------------
(* The files and the container, step by step.                              *)

\* The records that a repository can be.
LEMMA Repositories ==
  LET R == [url : Url \cup {"local"}, at : Ref \cup {None}, subs : BOOLEAN] IN
  /\ Link \in R /\ \A u \in Url : Cloned(u) \in R
  /\ \A r \in R, l \in Location : [r EXCEPT !.at = l.ref] \in R
  /\ \A r \in R : [r EXCEPT !.subs = TRUE] \in R
  /\ \A l \in Location : l # Local => l.url \in Url
<1>1. \A l \in Location : l.ref \in Ref \cup {None} /\ (l # Local => l.url \in Url)
  BY DEF Location, Local
<1>2. \A r \in [url : Url \cup {"local"}, at : Ref \cup {None}, subs : BOOLEAN],
         x \in Ref \cup {None} :
           [r EXCEPT !.at = x] \in
             [url : Url \cup {"local"}, at : Ref \cup {None}, subs : BOOLEAN]
  OBVIOUS
<1> QED BY <1>1, <1>2 DEF Link, Cloned

\* A command keeps the files what they are.
LEMMA FilesKept ==
  ASSUME Processes, Files, NEW p \in Proc, Acts(p)
  PROVE  Files'
<1>0. Proper(p)
  BY DEF Processes
<1>1. CASE Checks(p)
  BY <1>1 DEF Checks, Files, fileVars, keyVars, codeVars
<1>2. CASE CreatesDirectories(p)
  BY <1>0, <1>2 DEF CreatesDirectories, Files, keyVars, codeVars
<1>3. CASE ReusesConfig(p)
  BY <1>3 DEF ReusesConfig, Files, fileVars, keyVars, codeVars
<1>4. CASE OverridesConfig(p)
  BY <1>0, <1>4 DEF OverridesConfig, Truncates, Files, keyVars, codeVars
<1>5. CASE CannotOverride(p)
  BY <1>5 DEF CannotOverride, Files, fileVars, keyVars, codeVars
<1>6. CASE GeneratesConfig(p)
  BY <1>0, <1>6 DEF GeneratesConfig, Truncates, Files, keyVars, codeVars
<1>7. CASE WritesConfig(p)
  BY <1>0, <1>7 DEF WritesConfig, Proper, Files, keyVars, codeVars
<1>8. CASE StoresMnemonic(p)
  BY <1>0, <1>8 DEF StoresMnemonic, Dirs, Files, codeVars
<1>9. CASE SavesKeys(p)
  BY <1>0, <1>9 DEF SavesKeys, Proper, Dirs, Files, codeVars
<1>10. CASE Downloads(p)
  BY <1>0, <1>10, Repositories DEF Downloads, Files, keyVars
<1>11. CASE CannotDownload(p)
  BY <1>11 DEF CannotDownload, Files, fileVars, keyVars, codeVars
<1>12. CASE Clones(p)
  BY <1>0, <1>12, Repositories DEF Clones, At, Proper, Fetching, Dirs, Files, keyVars
<1>13. CASE ChecksOut(p)
  BY <1>0, <1>13, Repositories DEF ChecksOut, At, Proper, Fetching, Files, keyVars
<1>14. CASE UpdatesSubmodules(p)
  BY <1>0, <1>14, Repositories DEF UpdatesSubmodules, Files, keyVars
<1>15. CASE BuildsImages(p)
  BY <1>0, <1>15 DEF BuildsImages, Files, keyVars
<1>16. CASE Reads(p)
  BY <1>16 DEF Reads, Files, fileVars, keyVars, codeVars
<1>17. CASE Relinks(p)
  BY <1>0, <1>17 DEF Relinks, RemovesRepository, Files, keyVars
<1>18. CASE Links(p)
  BY <1>0, <1>18, Repositories DEF Links, Dirs, Files, keyVars
<1>19. CASE Prepares(p)
  BY <1>19 DEF Prepares, Files, fileVars, keyVars, codeVars
<1>20. CASE FetchFails(p)
  BY <1>20 DEF FetchFails, Files, fileVars, keyVars, codeVars
<1>21. CASE RemovesOld(p)
  BY <1>0, <1>21 DEF RemovesOld, RemovesRepository, Files, keyVars
<1>22. CASE FindsBuilder(p)
  BY <1>0, <1>22 DEF FindsBuilder, Dirs, Images, Files, keyVars
<1>23. CASE RunsContainer(p)
  BY <1>0, <1>23 DEF RunsContainer, Files, keyVars
<1>24. CASE Sets(p)
  BY <1>0, <1>24 DEF Sets, Truncates, Files, keyVars, codeVars
<1>25. CASE CannotSet(p)
  BY <1>25 DEF CannotSet, Files, fileVars, keyVars, codeVars
<1>26. CASE Lists(p)
  BY <1>26 DEF Lists, Files, fileVars, keyVars, codeVars
<1>27. CASE RemovesConfig(p)
  BY <1>0, <1>27 DEF RemovesConfig, Files, keyVars, codeVars
<1>28. CASE RemovesDirectory(p)
  BY <1>28 DEF RemovesDirectory, Empties, RemovesRepository, Files, keyVars
<1>29. CASE FindsNothing(p)
  BY <1>29 DEF FindsNothing, Files, fileVars, keyVars, codeVars
<1>30. CASE Cleaned(p)
  BY <1>0, <1>30 DEF Cleaned, Files, fileVars, keyVars, codeVars
<1>31. CASE Breaks(p)
  BY <1>0, <1>31, Repositories
    DEF Breaks, Halfway, RemovesRepository, At, Proper, Fetching, Dirs, Files, fileVars,
      keyVars, codeVars
<1>32. CASE Deserts(p)
  BY <1>0, <1>32 DEF Deserts, Files, keyVars
<1> QED BY <1>1, <1>2, <1>3, <1>4, <1>5, <1>6, <1>7, <1>8, <1>9, <1>10, <1>11, <1>12, <1>13,
    <1>14, <1>15, <1>16, <1>17, <1>18, <1>19, <1>20, <1>21, <1>22, <1>23, <1>24, <1>25,
    <1>26, <1>27, <1>28, <1>29, <1>30, <1>31, <1>32 DEF Acts, InitStep, BuildStep, CleanStep

\* As a build starts it.
NewContainer(p) ==
  [by |-> p, local |-> IsLink(repo), out |-> "bin" \in dirs, copying |-> FALSE, from |-> {}]

\* A command leaves the container as it is, takes something from under it, deserts it,
\* or has started it: there was none.
LEMMA ContainerOf ==
  ASSUME NEW p \in Proc, Acts(p)
  PROVE  /\ \/ UNCHANGED containers
            \/ RemovesRepository(None) \/ RemovesRepository(Part)
            \/ /\ containers' = {[c EXCEPT !.out = FALSE] : c \in containers}
               /\ "bin" \in dirs /\ "bin" \notin dirs'
            \/ Deserts(p)
            \/ /\ pc[p] = "run" /\ containers = {} /\ containers' = {NewContainer(p)}
               /\ Keeps(p, "wait") /\ UNCHANGED <<repo, dirs>>
         /\ pc[p] = "wait" => Deserts(p)
<1>1. CASE Checks(p)
  BY <1>1 DEF Checks, At, fileVars, codeVars
<1>2. CASE CreatesDirectories(p)
  BY <1>2 DEF CreatesDirectories, At, fileVars, codeVars
<1>3. CASE ReusesConfig(p)
  BY <1>3 DEF ReusesConfig, At, fileVars, codeVars
<1>4. CASE OverridesConfig(p)
  BY <1>4 DEF OverridesConfig, Truncates, At, fileVars, codeVars
<1>5. CASE CannotOverride(p)
  BY <1>5 DEF CannotOverride, At, fileVars, codeVars
<1>6. CASE GeneratesConfig(p)
  BY <1>6 DEF GeneratesConfig, Truncates, At, fileVars, codeVars
<1>7. CASE WritesConfig(p)
  BY <1>7 DEF WritesConfig, At, fileVars, codeVars
<1>8. CASE StoresMnemonic(p)
  BY <1>8 DEF StoresMnemonic, At, fileVars, codeVars
<1>9. CASE SavesKeys(p)
  BY <1>9 DEF SavesKeys, At, fileVars, codeVars
<1>10. CASE Downloads(p)
  BY <1>10 DEF Downloads, At, fileVars, codeVars
<1>11. CASE CannotDownload(p)
  BY <1>11 DEF CannotDownload, At, fileVars, codeVars
<1>12. CASE Clones(p)
  BY <1>12 DEF Clones, At, fileVars, codeVars
<1>13. CASE ChecksOut(p)
  BY <1>13 DEF ChecksOut, At, fileVars, codeVars
<1>14. CASE UpdatesSubmodules(p)
  BY <1>14 DEF UpdatesSubmodules, At, fileVars, codeVars
<1>15. CASE BuildsImages(p)
  BY <1>15 DEF BuildsImages, At, fileVars, codeVars
<1>16. CASE Reads(p)
  BY <1>16 DEF Reads, At, fileVars, codeVars
<1>17. CASE Relinks(p)
  BY <1>17 DEF Relinks, At, fileVars, codeVars
<1>18. CASE Links(p)
  BY <1>18 DEF Links, At, fileVars, codeVars
<1>19. CASE Prepares(p)
  BY <1>19 DEF Prepares, At, fileVars, codeVars
<1>20. CASE FetchFails(p)
  BY <1>20 DEF FetchFails, At, fileVars, codeVars
<1>21. CASE RemovesOld(p)
  BY <1>21 DEF RemovesOld, At, fileVars, codeVars
<1>22. CASE FindsBuilder(p)
  BY <1>22 DEF FindsBuilder, At, fileVars, codeVars
<1>23. CASE RunsContainer(p)
  <2>1. pc[p] = "run"
    BY <1>23 DEF RunsContainer, At
  <2>2. CASE NameIsTaken
    BY <1>23, <2>1, <2>2 DEF RunsContainer
  <2>3. CASE ~NameIsTaken
    <3>1. containers = {}
      BY <2>3 DEF NameIsTaken
    <3>2. containers' = {[c EXCEPT !.from = @ \cup {Mixed}] : c \in containers} \cup
            {[by |-> p, local |-> IsLink(repo), out |-> "bin" \in dirs, copying |-> FALSE,
              from |-> IF containers = {} THEN {} ELSE {Mixed}]}
          /\ Keeps(p, "wait") /\ UNCHANGED <<repo, dirs>>
      BY <1>23, <2>3 DEF RunsContainer
    <3>3. containers' = {NewContainer(p)}
      BY <3>1, <3>2 DEF NewContainer
    <3> QED BY <2>1, <3>1, <3>2, <3>3
  <2> QED BY <2>2, <2>3
<1>24. CASE Sets(p)
  BY <1>24 DEF Sets, Truncates, At, fileVars, codeVars
<1>25. CASE CannotSet(p)
  BY <1>25 DEF CannotSet, At, fileVars, codeVars
<1>26. CASE Lists(p)
  BY <1>26 DEF Lists, At, fileVars, codeVars
<1>27. CASE RemovesConfig(p)
  BY <1>27 DEF RemovesConfig, At, fileVars, codeVars
<1>28. CASE RemovesDirectory(p)
  BY <1>28 DEF RemovesDirectory, Empties, At
<1>29. CASE FindsNothing(p)
  BY <1>29 DEF FindsNothing, At, fileVars, codeVars
<1>30. CASE Cleaned(p)
  BY <1>30 DEF Cleaned, At, fileVars, codeVars
<1>31. CASE Breaks(p)
  BY <1>31 DEF Breaks, Halfway, At, fileVars, codeVars
<1>32. CASE Deserts(p)
  BY <1>32
<1> QED BY <1>1, <1>2, <1>3, <1>4, <1>5, <1>6, <1>7, <1>8, <1>9, <1>10, <1>11, <1>12, <1>13,
    <1>14, <1>15, <1>16, <1>17, <1>18, <1>19, <1>20, <1>21, <1>22, <1>23, <1>24, <1>25,
    <1>26, <1>27, <1>28, <1>29, <1>30, <1>31, <1>32 DEF Acts, InitStep, BuildStep, CleanStep

\* So there is one at most, and the build that waits for it is there to wait.
LEMMA ContainerKept ==
  ASSUME Processes, Files, OneContainer, NEW p \in Proc, Acts(p)
  PROVE  OneContainer'
<1>1. Frame(p)
  BY Moves
<1>2. ASSUME NEW d \in containers, d.by \in Proc, d.by # p PROVE pc'[d.by] = "wait"
  BY <1>1, <1>2 DEF OneContainer, Frame
<1>3. CASE pc[p] # "wait" /\ UNCHANGED containers
  BY <1>2, <1>3 DEF OneContainer
<1>4. CASE pc[p] # "wait" /\ \E x : RemovesRepository(x)
  <2>1. \A d \in containers' : \E c \in containers :
          d = IF c.local THEN c ELSE [c EXCEPT !.from = @ \cup {None}]
    BY <1>4 DEF RemovesRepository
  <2>2. \A c \in containers :
          c \in Container /\ [c EXCEPT !.from = c.from \cup {None}] \in Container
    BY DEF OneContainer, Container
  <2>3. \A c \in containers : c.by = [c EXCEPT !.from = c.from \cup {None}].by
    BY <2>2 DEF Container
  <2>4. \A d \in containers' : d \in Container /\ \E c \in containers : d.by = c.by
    BY <2>1, <2>2, <2>3
  <2>5. \A c, d \in containers' : c = d
    BY <2>1 DEF OneContainer
  <2>6. \A d \in containers' : d.by \in Proc => pc'[d.by] = "wait"
    BY <1>2, <1>4, <2>4 DEF OneContainer
  <2> QED BY <2>4, <2>5, <2>6 DEF OneContainer
<1>5. CASE pc[p] # "wait" /\ containers' = {[c EXCEPT !.out = FALSE] : c \in containers}
  <2>1. \A c \in containers :
          [c EXCEPT !.out = FALSE] \in Container /\ [c EXCEPT !.out = FALSE].by = c.by
    BY DEF OneContainer, Container
  <2>2. \A d \in containers' : d \in Container /\ \E c \in containers : d.by = c.by
    BY <1>5, <2>1
  <2>3. \A c, d \in containers' : c = d
    BY <1>5 DEF OneContainer
  <2>4. \A d \in containers' : d.by \in Proc => pc'[d.by] = "wait"
    BY <1>2, <1>5, <2>2 DEF OneContainer
  <2> QED BY <2>2, <2>3, <2>4 DEF OneContainer
<1>6. CASE Deserts(p)
  <2>1. \A c \in containers :
          [c EXCEPT !.by = None] \in Container /\ [c EXCEPT !.by = None].by = None
    BY DEF OneContainer, Container
  <2>2. containers' = {IF c.by = p THEN [c EXCEPT !.by = None] ELSE c : c \in containers}
    BY <1>6 DEF Deserts
  <2> QED BY <1>2, <2>1, <2>2, SetupAssumption DEF OneContainer
<1>7. CASE containers' = {NewContainer(p)} /\ Keeps(p, "wait")
  <2>1. NewContainer(p) \in Container /\ NewContainer(p).by = p
    <3>1. IsLink(repo) \in BOOLEAN /\ ("bin" \in dirs) \in BOOLEAN
      BY DEF IsLink
    <3>2. \A a, b \in BOOLEAN :
            [by |-> p, local |-> a, out |-> b, copying |-> FALSE, from |-> {}] \in Container
      BY DEF Container
    <3> QED BY <3>1, <3>2 DEF NewContainer
  <2>2. pc'[p] = "wait"
    BY <1>7, KeepsIs
  <2> QED BY <1>7, <2>1, <2>2 DEF OneContainer
<1> QED BY <1>3, <1>4, <1>5, <1>6, <1>7, ContainerOf

\* What a container does to itself.
LEMMA ContainerRuns ==
  ASSUME OneContainer, Files, NEW c \in containers, Runs(c)
  PROVE  \/ /\ containers' =
                 {[c EXCEPT !.from = c.from \cup {IF c.local THEN Local ELSE Source(repo)}]}
            /\ ~c.copying /\ UNCHANGED <<bin, last, procVars>>
         \/ /\ containers' = {[c EXCEPT !.copying = TRUE]} /\ c.from # {}
            /\ UNCHANGED <<last, procVars>>
         \/ /\ containers' = {} /\ Tells(c, "ok") /\ c.copying
            /\ bin' = IF c.out THEN Made(c) ELSE bin
         \/ containers' = {} /\ Tells(c, "broken")
<1>1. containers = {c}
  BY DEF OneContainer
<1>2. CASE Makes(c)
  BY <1>1, <1>2 DEF Makes
<1>3. CASE Copies(c)
  BY <1>1, <1>3 DEF Copies
<1>4. CASE Finishes(c)
  BY <1>1, <1>4 DEF Finishes, Leaves
<1>5. CASE MakeFails(c)
  BY <1>1, <1>5 DEF MakeFails, Leaves
<1>6. CASE Dies(c)
  BY <1>1, <1>6 DEF Dies, Leaves
<1> QED BY <1>2, <1>3, <1>4, <1>5, <1>6 DEF Runs

\* And what it leaves of the invariant on it.
LEMMA ContainerRunsKept ==
  ASSUME Processes, OneContainer, Files, NEW c \in containers, Runs(c)
  PROVE  OneContainer'
<1>1. c \in Container /\ (c.by \in Proc => pc[c.by] = "wait")
  BY DEF OneContainer
<1>2. CASE containers' = {}
  BY <1>2 DEF OneContainer
<1>3. ASSUME UNCHANGED procVars, NEW d \in Container, containers' = {d}, d.by = c.by
      PROVE  OneContainer'
  <2>1. UNCHANGED pc
    BY <1>3 DEF procVars
  <2> QED BY <1>1, <1>3, <2>1 DEF OneContainer
<1>4. /\ [c EXCEPT !.copying = TRUE] \in Container /\ [c EXCEPT !.copying = TRUE].by = c.by
      /\ \A x \in {Local} \cup {Source(repo)} :
           /\ [c EXCEPT !.from = c.from \cup {x}] \in Container
           /\ [c EXCEPT !.from = c.from \cup {x}].by = c.by
  <2>1. {Local, Source(repo)} \subseteq
          ({None, Mixed, Local, Source(None)}
                             \cup {Source(r) : r \in {Part} \cup
                                [url : Url \cup {"local"}, at : Ref \cup {None}, subs : BOOLEAN]})
    BY DEF Files
  <2> QED BY <1>1, <2>1 DEF Container
<1> QED BY <1>2, <1>3, <1>4, ContainerRuns

-----------------------------------------------------------------------------
(* The keys.                                                               *)

\* A command removes keys or leaves them as they are, but for an init that makes them
\* or fails at it.
LEMMA KeysOf ==
  ASSUME Processes, Files, NEW p \in Proc, Acts(p)
  PROVE  \/ /\ mnemonic' \in {mnemonic, None} /\ addresses' \in {addresses, None}
            /\ pc'[p] # "addresses"
            /\ pc'[p] \in Early /\ cmd'[p] \in Inits =>
                 pc[p] \in Early \/ (mnemonic = None /\ addresses = None)
         \/ StoresMnemonic(p) \/ SavesKeys(p)
         \/ /\ cmd[p] \in Inits /\ pc'[p] = "off"
            /\ mnemonic' = Torn \/ addresses' = Torn
<1>0. Proper(p)
  BY DEF Processes
<1>1. CASE Checks(p)
  BY <1>1, KeepsIs, EndsIs DEF Checks, IsClean, Files, Early, keyVars, fileVars
<1>2. CASE CreatesDirectories(p)
  BY <1>2, KeepsIs DEF CreatesDirectories, At, Early, keyVars
<1>3. CASE ReusesConfig(p)
  BY <1>3, KeepsIs DEF ReusesConfig, At, Early, keyVars, fileVars
<1>4. CASE OverridesConfig(p)
  <2>1. PICK l : Truncates(p, l) /\ pc[p] = "config"
    BY <1>4 DEF OverridesConfig, At
  <2> QED BY <2>1, TruncatesIs DEF Truncates, Early, keyVars
<1>5. CASE CannotOverride(p)
  BY <1>5, EndsIs DEF CannotOverride, Early, keyVars, fileVars
<1>6. CASE GeneratesConfig(p)
  <2>1. PICK l : Truncates(p, l) /\ pc[p] = "config"
    BY <1>6 DEF GeneratesConfig, At
  <2> QED BY <2>1, TruncatesIs DEF Truncates, Early, keyVars
<1>7. CASE WritesConfig(p)
  BY <1>7, KeepsIs, EndsIs DEF WritesConfig, At, Early, keyVars
<1>8. CASE StoresMnemonic(p)
  BY <1>8
<1>9. CASE SavesKeys(p)
  BY <1>9
<1>10. CASE Downloads(p)
  <2>1. PICK there \in {"clone", "images"} : Goto(p, there)
    BY <1>10 DEF Downloads
  <2>2. mnemonic' \in {mnemonic, None} /\ addresses' \in {addresses, None}
    BY <1>10 DEF Downloads, Empties, keyVars, fileVars
  <2> QED BY <2>1, <2>2, GotoIs, EndsIs DEF Early
<1>11. CASE CannotDownload(p)
  BY <1>11, EndsIs DEF CannotDownload, Early, keyVars, fileVars
<1>12. CASE Clones(p)
  BY <1>12, KeepsIs, EndsIs DEF Clones, Early, keyVars
<1>13. CASE ChecksOut(p)
  BY <1>13, KeepsIs, EndsIs DEF ChecksOut, Early, keyVars
<1>14. CASE UpdatesSubmodules(p)
  BY <1>14, KeepsIs, EndsIs DEF UpdatesSubmodules, Early, keyVars
<1>15. CASE BuildsImages(p)
  BY <1>15, EndsIs DEF BuildsImages, Early, keyVars
<1>16. CASE Reads(p)
  <2>1. (\E there \in {"relink", "prepare"} : Goto(p, there)) \/ Ends(p, "failed")
    BY <1>16 DEF Reads
  <2>2. mnemonic' \in {mnemonic, None} /\ addresses' \in {addresses, None}
    BY <1>16 DEF Reads, Empties, keyVars, fileVars
  <2> QED BY <2>1, <2>2, GotoIs, EndsIs DEF Early
<1>17. CASE Relinks(p)
  BY <1>17, KeepsIs DEF Relinks, Early, keyVars
<1>18. CASE Links(p)
  BY <1>18, KeepsIs, EndsIs DEF Links, Early, keyVars
<1>19. CASE Prepares(p)
  BY <1>19, KeepsIs DEF Prepares, Early, keyVars, fileVars
<1>20. CASE FetchFails(p)
  BY <1>20, EndsIs DEF FetchFails, Early, keyVars, fileVars
<1>21. CASE RemovesOld(p)
  BY <1>21, KeepsIs DEF RemovesOld, Early, keyVars
<1>22. CASE FindsBuilder(p)
  BY <1>22, KeepsIs DEF FindsBuilder, Early, keyVars
<1>23. CASE RunsContainer(p)
  BY <1>23, KeepsIs, EndsIs DEF RunsContainer, Early, keyVars
<1>24. CASE Sets(p)
  <2>1. PICK l \in Location : Truncates(p, l)
    BY <1>24, Resolved, SetupAssumption DEF Sets, Whole
  <2>2. pc'[p] = "write" /\ UNCHANGED cmd /\ UNCHANGED <<mnemonic, addresses>>
    BY <2>1, TruncatesIs DEF Truncates, keyVars
  <2>3. cmd[p] \notin Inits
    BY <1>0, <1>24, Where DEF Sets, At, Inits
  <2> QED BY <2>2, <2>3
<1>25. CASE CannotSet(p)
  BY <1>25, EndsIs DEF CannotSet, Early, keyVars, fileVars
<1>26. CASE Lists(p)
  <2>1. Goto(p, "remove")
    BY <1>26 DEF Lists
  <2>2. mnemonic' \in {mnemonic, None} /\ addresses' \in {addresses, None}
    BY <1>26 DEF Lists, Empties, keyVars, fileVars
  <2> QED BY <2>1, <2>2, GotoIs, EndsIs DEF Early
<1>27. CASE RemovesConfig(p)
  <2>1. Goto(p, "remove")
    BY <1>27 DEF RemovesConfig
  <2>2. mnemonic' \in {mnemonic, None} /\ addresses' \in {addresses, None}
    BY <1>27 DEF RemovesConfig, Empties, keyVars, fileVars
  <2> QED BY <2>1, <2>2, GotoIs, EndsIs DEF Early
<1>28. CASE RemovesDirectory(p)
  <2>1. Goto(p, "remove")
    BY <1>28 DEF RemovesDirectory
  <2>2. mnemonic' \in {mnemonic, None} /\ addresses' \in {addresses, None}
    BY <1>28 DEF RemovesDirectory, Empties, keyVars, fileVars
  <2> QED BY <2>1, <2>2, GotoIs, EndsIs DEF Early
<1>29. CASE FindsNothing(p)
  BY <1>29, EndsIs DEF FindsNothing, Early, keyVars, fileVars
<1>30. CASE Cleaned(p)
  BY <1>30, EndsIs DEF Cleaned, Early, keyVars
<1>31. CASE Breaks(p)
  <2>1. pc'[p] = "off"
    BY <1>31, EndsIs DEF Breaks
  <2>2. \/ mnemonic' \in {mnemonic, None} /\ addresses' \in {addresses, None}
        \/ pc[p] \in {"mnemonic", "addresses"} /\ (mnemonic' = Torn \/ addresses' = Torn)
    BY <1>31 DEF Breaks, Halfway, At, keyVars, fileVars
  <2> QED BY <1>0, <2>1, <2>2, Where DEF Early
<1>32. CASE Deserts(p)
  BY <1>32, EndsIs DEF Deserts, Early, keyVars
<1> QED BY <1>1, <1>2, <1>3, <1>4, <1>5, <1>6, <1>7, <1>8, <1>9, <1>10, <1>11, <1>12, <1>13,
    <1>14, <1>15, <1>16, <1>17, <1>18, <1>19, <1>20, <1>21, <1>22, <1>23, <1>24, <1>25,
    <1>26, <1>27, <1>28, <1>29, <1>30, <1>31, <1>32 DEF Acts, InitStep, BuildStep, CleanStep

\* Two that are none of two others.
LEMMA Apart ==
  ASSUME NEW m, NEW a, NEW x, NEW y
  PROVE  {m, a} \cap {x, y} = {} <=> m \notin {x, y} /\ a \notin {x, y}
OBVIOUS

\* The keys of an init stay a pair as long as there is no other.
LEMMA KeysKept ==
  ASSUME Processes, Files, Paired, NEW p \in Proc, Acts(p)
  PROVE  Paired'
<1>0. /\ Frame(p) /\ Proper(p)' /\ Proper(p)
      /\ cmd'[p] = cmd[p] \/ (cmd'[p] = "none" /\ pc'[p] = "off")
  BY Moves, EndsIs DEF Processes
<1>1. \A q \in Proc : cmd'[q] \in Inits => cmd[q] \in Inits /\ cmd'[q] = cmd[q]
  BY <1>0 DEF Frame, Inits
<1>2. \A q, r \in Proc : cmd'[q] \in Inits /\ cmd'[r] \in Inits => q = r
  BY <1>1 DEF Paired
<1>3. \A q \in Proc : q # p => pc'[q] = pc[q] /\ entropy'[q] = entropy[q]
  BY <1>0 DEF Frame
<1>4. CASE /\ mnemonic' \in {mnemonic, None} /\ addresses' \in {addresses, None}
           /\ pc'[p] # "addresses"
           /\ pc'[p] \in Early /\ cmd'[p] \in Inits =>
                pc[p] \in Early \/ (mnemonic = None /\ addresses = None)
  <2>1. {mnemonic', addresses'} \cap {None, Torn} = {} => mnemonic' = addresses'
    BY <1>4, Apart DEF Paired
  <2>2. ASSUME NEW q \in Proc, cmd'[q] \in Inits
        PROVE  /\ pc'[q] \in Early => mnemonic' = None /\ addresses' = None
               /\ pc'[q] = "addresses" => addresses' = None /\ mnemonic' \in {entropy'[q], None}
    BY <1>1, <1>3, <1>4, <2>2 DEF Paired
  <2> QED BY <1>2, <2>1, <2>2 DEF Paired
<1>5. CASE StoresMnemonic(p)
  <2>1. /\ pc[p] = "mnemonic" /\ UNCHANGED addresses
        /\ pc'[p] = "addresses" /\ mnemonic' = entropy'[p]
    <3>1. PICK e : entropy' = [entropy EXCEPT ![p] = e] /\ mnemonic' = e
      BY <1>5 DEF StoresMnemonic
    <3> QED BY <1>5, <3>1, GotoIs DEF StoresMnemonic, At
  <2>2. cmd[p] \in Inits
    BY <1>0, <2>1, Where
  <2>3. addresses = None
    BY <2>1, <2>2 DEF Paired, Early
  <2>4. \A q \in Proc : cmd'[q] \in Inits => q = p
    BY <1>1, <2>2 DEF Paired
  <2> QED BY <1>2, <2>1, <2>3, <2>4 DEF Paired, Early
<1>6. CASE SavesKeys(p)
  <2>1. /\ pc[p] = "addresses" /\ UNCHANGED mnemonic /\ pc'[p] = "repositories"
        /\ addresses' = entropy[p]
    BY <1>6, KeepsIs DEF SavesKeys, At
  <2>2. cmd[p] \in Inits
    BY <1>0, <2>1, Where
  <2>3. mnemonic \in {entropy[p], None}
    BY <2>1, <2>2 DEF Paired
  <2>4. \A q \in Proc : cmd'[q] \in Inits => q = p
    BY <1>1, <2>2 DEF Paired
  <2> QED BY <1>2, <2>1, <2>3, <2>4 DEF Paired, Early
<1>7. CASE cmd[p] \in Inits /\ pc'[p] = "off" /\ (mnemonic' = Torn \/ addresses' = Torn)
  <2>1. cmd'[p] = "none"
    BY <1>0, <1>7, PlacesOf DEF Proper, Initializing, Early, Fetching
  <2>2. \A q \in Proc : cmd'[q] \notin Inits
    BY <1>1, <1>7, <2>1 DEF Paired, Inits
  <2> QED BY <1>7, <2>2 DEF Paired
<1> QED BY <1>4, <1>5, <1>6, <1>7, KeysOf

\* A container touches no key.
LEMMA KeysKeptByRun ==
  ASSUME Processes, OneContainer, Paired, NEW c \in containers, Runs(c)
  PROVE  Paired'
<1>1. /\ UNCHANGED <<mnemonic, addresses>>
      /\ \A q \in Proc : cmd'[q] \in Inits =>
           cmd'[q] = cmd[q] /\ pc'[q] = pc[q] /\ entropy'[q] = entropy[q]
  <2>1. \A q \in Proc : cmd'[q] \in Inits => Live(q)'
    BY RunsKeeps, PlacesOf DEF Processes, Proper, Live, Initializing, Early, Fetching
  <2> QED BY <2>1, RunsKeeps DEF keyVars
<1> QED BY <1>1 DEF Paired

\* A second init crosses the first.
LEMMA KeysKeptByInvoke ==
  ASSUME Processes, Paired, NEW p \in Proc, NEW c \in Commands, Invoke(p, c)
  PROVE  crossed' \/ Paired'
<1>1. /\ UNCHANGED <<mnemonic, addresses, entropy>> /\ cmd'[p] = c
      /\ \A q \in Proc : q # p => cmd'[q] = cmd[q] /\ pc'[q] = pc[q]
  BY InvokeKeeps DEF fileVars, keyVars
<1>2. ~crossed' => c \notin Inits \/ \A q \in Proc : cmd[q] \notin Inits
  BY DEF Invoke
<1>3. c \in Inits => pc'[p] = "check"
  BY InvokeKeeps DEF First, Inits
<1> QED BY <1>1, <1>2, <1>3 DEF Paired, Early

-----------------------------------------------------------------------------
(* A command that is alone.                                                *)

\* Who is alone when a command has moved is that command, and was so before.
LEMMA SoloActs ==
  ASSUME Processes, Files, Exclusive, NEW p \in Proc, Acts(p)
  PROVE  /\ Exclusive'
         /\ \A q \in Proc : Solo(q)' => q = p /\ Solo(p) /\ past'[p] = past[p]
         /\ Solo(p) => \A q \in Proc : q # p => ~Live(q) /\ ~Live(q)'
<1>1. Frame(p) /\ Live(p) /\ Remembers(p)
  BY Moves DEF Acts
<1>2. \A q \in Proc : q # p => pc'[q] = pc[q] /\ past'[q].alone = past[q].alone
  BY <1>1, PastIs DEF Frame
<1>3. pc'[p] # "off" => past'[p] = past[p]
  BY <1>1, PastIs
<1>4. \A q \in Proc : Solo(q)' => q = p /\ Solo(p) /\ past'[p] = past[p]
  BY <1>1, <1>2, <1>3 DEF Solo, Live, Exclusive
<1>5. Solo(p) => \A q \in Proc : q # p => ~Live(q) /\ ~Live(q)'
  BY <1>2 DEF Exclusive, Live
<1>6. Exclusive'
  BY <1>4, <1>5 DEF Exclusive
<1> QED BY <1>4, <1>5, <1>6

\* A clone that is checked out and has its submodules updated.
LEMMA Twice ==
  ASSUME NEW u, NEW r
  PROVE  [[Cloned(u) EXCEPT !.at = r] EXCEPT !.subs = TRUE]
         = [url |-> u, at |-> r, subs |-> TRUE]
<1>1. Cloned(u) \in [url : {u}, at : {None}, subs : BOOLEAN]
  BY DEF Cloned
<1>2. \A c \in [url : {u}, at : {None}, subs : BOOLEAN] :
        [c EXCEPT !.at = r] \in [url : {u}, at : {r}, subs : BOOLEAN]
  OBVIOUS
<1>3. \A c \in [url : {u}, at : {r}, subs : BOOLEAN] :
        /\ [c EXCEPT !.subs = TRUE] \in [url : {u}, at : {r}, subs : BOOLEAN]
        /\ [c EXCEPT !.subs = TRUE].subs = TRUE
  OBVIOUS
<1>4. \A c \in [url : {u}, at : {r}, subs : BOOLEAN] :
        c.subs = TRUE => c = [url |-> u, at |-> r, subs |-> TRUE]
  OBVIOUS
<1> QED BY <1>1, <1>2, <1>3, <1>4

\* An init that is alone goes on from what it has made.
LEMMA InitGoesOn ==
  ASSUME Processes, Files, NEW p \in Proc, Acts(p), cmd[p] \in Inits, Live(p)',
         Initialized(p), Recovering(p), past'[p] = past[p]
  PROVE  Initialized(p)' /\ Recovering(p)'
<1>0. Proper(p) /\ pc'[p] # "off"
  BY DEF Processes, Live
<1>a. /\ \A l \in Location : l \notin {None, Torn}
      /\ \A e \in Entropy \cup {"static"} : e \notin {None, Torn}
  BY SetupAssumption DEF Location, Local
<1>b. cmd[p] # "build" /\ cmd[p] # "config" /\ cmd[p] \notin Cleans
  BY DEF Inits, Cleans
<1>1. CASE Checks(p)
  BY <1>0, <1>1, KeepsIs, EndsIs
    DEF Checks, IsClean, At, Initialized, Recovering, Fresh, Unfetched, Keyed, Fetching,
      fileVars
<1>2. CASE CreatesDirectories(p)
  BY <1>0, <1>2, KeepsIs
    DEF CreatesDirectories, Files, At, Initialized, Recovering, Keyed, Fetching, codeVars
<1>3. CASE ReusesConfig(p)
  BY <1>0, <1>a, <1>3, KeepsIs
    DEF ReusesConfig, At, Initialized, Recovering, Fresh, Unfetched, Keyed, Fetching,
      fileVars, codeVars
<1>4. CASE OverridesConfig(p)
  <2>1. PICK l : Truncates(p, l) /\ pc[p] = "config"
    BY <1>4 DEF OverridesConfig, At
  <2>2. pc'[p] = "write" /\ UNCHANGED <<dirs, mnemonic, addresses, repo>>
    BY <2>1, TruncatesIs DEF Truncates, keyVars, codeVars
  <2> QED BY <2>1, <2>2 DEF Initialized, Recovering, Fresh, Unfetched, Keyed, Fetching
<1>5. CASE CannotOverride(p)
  BY <1>0, <1>5, EndsIs DEF CannotOverride
<1>6. CASE GeneratesConfig(p)
  <2>1. PICK l : Truncates(p, l) /\ pc[p] = "config"
    BY <1>6 DEF GeneratesConfig, At
  <2>2. pc'[p] = "write" /\ UNCHANGED <<dirs, mnemonic, addresses, repo>>
    BY <2>1, TruncatesIs DEF Truncates, keyVars, codeVars
  <2> QED BY <2>1, <2>2 DEF Initialized, Recovering, Fresh, Unfetched, Keyed, Fetching
<1>7. CASE WritesConfig(p)
  BY <1>0, <1>a, <1>b, <1>7, KeepsIs, EndsIs
    DEF WritesConfig, Proper, At, Initialized, Recovering, Fresh, Unfetched, Keyed,
      Fetching, codeVars
<1>8. CASE StoresMnemonic(p)
  <2>1. PICK e \in Entropy \cup {"static"} :
          entropy' = [entropy EXCEPT ![p] = e] /\ mnemonic' = e
    BY <1>8 DEF StoresMnemonic
  <2>2. /\ pc[p] = "mnemonic" /\ pc'[p] = "addresses" /\ entropy'[p] = e
        /\ UNCHANGED <<seen, config, addresses, repo>> /\ dirs' = dirs \cup {"keys"}
    BY <1>8, <2>1, GotoIs DEF StoresMnemonic, At, codeVars
  <2>3. dirs' = Dirs /\ repo = None /\ config # None
    BY <2>2 DEF Initialized, Fresh, Unfetched, Dirs
  <2> QED BY <1>a, <2>1, <2>2, <2>3 DEF Initialized, Recovering, Keyed, Fetching
<1>9. CASE SavesKeys(p)
  BY <1>0, <1>a, <1>9, KeepsIs
    DEF SavesKeys, Dirs, At, Initialized, Recovering, Fresh, Unfetched, Fetching, codeVars
<1>10. CASE Downloads(p)
  <2>1. /\ pc[p] = "repositories" /\ config \in Location /\ repo = None
        /\ UNCHANGED <<config, dirs, mnemonic, addresses>>
        /\ seen' = [seen EXCEPT ![p] = config] /\ UNCHANGED <<entropy, todo>>
    BY <1>10 DEF Downloads, At, Whole, keyVars, Initialized, Unfetched
  <2>2. CASE config # Local
    <3>1. Goto(p, "clone") /\ UNCHANGED repo
      BY <1>10, <2>1, <2>2 DEF Downloads
    <3>2. pc'[p] = "clone" /\ seen'[p] = config
      BY <2>1, <3>1, GotoIs
    <3> QED BY <2>1, <3>1, <3>2 DEF Initialized, Recovering, Fresh, Keyed
  <2>3. CASE config = Local
    <3>1. Goto(p, "images") /\ repo' = Link
      BY <1>10, <2>1, <2>3 DEF Downloads
    <3>2. pc'[p] = "images"
      BY <2>1, <3>1, GotoIs
    <3> QED BY <2>1, <2>3, <3>1, <3>2
        DEF Initialized, Recovering, Fresh, Unfetched, Keyed, Fetching, Complete
  <2> QED BY <2>2, <2>3
<1>11. CASE CannotDownload(p)
  BY <1>0, <1>11, EndsIs DEF CannotDownload
<1>12. CASE Clones(p)
  <2>1. pc[p] = "clone" /\ UNCHANGED <<config, mnemonic, addresses>>
    BY <1>12 DEF Clones, At, keyVars
  <2>2. repo' = Cloned(seen[p].url) /\ dirs' = dirs \cup {"code"} /\ Keeps(p, "checkout")
    BY <1>0, <1>12, EndsIs DEF Clones
  <2>3. pc'[p] = "checkout" /\ UNCHANGED <<seen, entropy>>
    BY <2>2, KeepsIs
  <2>4. dirs' = Dirs
    BY <2>1, <2>2 DEF Initialized, Fresh, Dirs
  <2> QED BY <2>1, <2>2, <2>3, <2>4 DEF Initialized, Recovering, Unfetched, Keyed, Fetching
<1>13. CASE ChecksOut(p)
  <2>1. pc[p] = "checkout" /\ UNCHANGED <<config, dirs, mnemonic, addresses>>
    BY <1>13 DEF ChecksOut, At, keyVars
  <2>2. repo' = [repo EXCEPT !.at = seen[p].ref] /\ Keeps(p, "submodules")
    BY <1>0, <1>b, <1>13, EndsIs DEF ChecksOut
  <2>3. pc'[p] = "submodules" /\ UNCHANGED <<seen, entropy>>
    BY <2>2, KeepsIs
  <2> QED BY <2>1, <2>2, <2>3 DEF Initialized, Recovering, Fresh, Unfetched, Keyed, Fetching
<1>14. CASE UpdatesSubmodules(p)
  <2>1. pc[p] = "submodules" /\ UNCHANGED <<config, dirs, mnemonic, addresses>>
    BY <1>14 DEF UpdatesSubmodules, At, keyVars
  <2>2. repo' = [repo EXCEPT !.subs = TRUE] /\ Keeps(p, "images")
    BY <1>0, <1>14, EndsIs DEF UpdatesSubmodules
  <2>3. pc'[p] = "images" /\ UNCHANGED <<seen, entropy>>
    BY <2>2, KeepsIs
  <2>4. config # Local
    BY <1>0, <2>1 DEF Initialized, Fetching, Proper
  <2>5. \A u, r : [[Cloned(u) EXCEPT !.at = r] EXCEPT !.subs = TRUE]
                  = [url |-> u, at |-> r, subs |-> TRUE]
    BY Twice
  <2>6. repo' = [url |-> config.url, at |-> config.ref, subs |-> TRUE]
    BY <2>1, <2>2, <2>5 DEF Initialized
  <2>7. Complete'
    BY <2>1, <2>4, <2>6 DEF Complete
  <2> QED BY <2>1, <2>2, <2>3, <2>7
      DEF Initialized, Recovering, Fresh, Unfetched, Keyed, Fetching
<1>15. CASE BuildsImages(p)
  BY <1>0, <1>15, EndsIs DEF BuildsImages
<1>16. CASE Reads(p)
  BY <1>0, <1>b, <1>16, Where DEF Reads, At
<1>17. CASE Relinks(p)
  BY <1>0, <1>b, <1>17, Where DEF Relinks, At
<1>18. CASE Links(p)
  BY <1>0, <1>b, <1>18, Where DEF Links, At
<1>19. CASE Prepares(p)
  BY <1>0, <1>b, <1>19, Where DEF Prepares, At
<1>20. CASE FetchFails(p)
  BY <1>0, <1>b, <1>20, Where DEF FetchFails, At
<1>21. CASE RemovesOld(p)
  BY <1>0, <1>b, <1>21, Where DEF RemovesOld, At
<1>22. CASE FindsBuilder(p)
  BY <1>0, <1>b, <1>22, Where DEF FindsBuilder, At, Making
<1>23. CASE RunsContainer(p)
  BY <1>0, <1>b, <1>23, Where DEF RunsContainer, At, Making
<1>24. CASE Sets(p)
  BY <1>0, <1>b, <1>24, Where DEF Sets, At
<1>25. CASE CannotSet(p)
  BY <1>0, <1>b, <1>25, Where DEF CannotSet, At
<1>26. CASE Lists(p)
  BY <1>0, <1>b, <1>26, Where DEF Lists, At
<1>27. CASE RemovesConfig(p)
  BY <1>0, <1>b, <1>27, Where DEF RemovesConfig, At
<1>28. CASE RemovesDirectory(p)
  BY <1>0, <1>b, <1>28, Where DEF RemovesDirectory, At
<1>29. CASE FindsNothing(p)
  BY <1>0, <1>b, <1>29, Where DEF FindsNothing, At
<1>30. CASE Cleaned(p)
  BY <1>0, <1>b, <1>30, Where DEF Cleaned, At
<1>31. CASE Breaks(p)
  BY <1>0, <1>31, EndsIs DEF Breaks
<1>32. CASE Deserts(p)
  BY <1>0, <1>32, EndsIs DEF Deserts
<1> QED BY <1>1, <1>2, <1>3, <1>4, <1>5, <1>6, <1>7, <1>8, <1>9, <1>10, <1>11, <1>12, <1>13,
    <1>14, <1>15, <1>16, <1>17, <1>18, <1>19, <1>20, <1>21, <1>22, <1>23, <1>24, <1>25,
    <1>26, <1>27, <1>28, <1>29, <1>30, <1>31, <1>32 DEF Acts, InitStep, BuildStep, CleanStep

\* So does a clean.
LEMMA CleanGoesOn ==
  ASSUME Processes, Files, NEW p \in Proc, Acts(p), cmd[p] \in Cleans, Live(p)', Clearing(p)
  PROVE  Clearing(p)'
<1>0. Proper(p) /\ pc'[p] # "off" /\ cmd[p] \notin Inits \cup {"build", "config"}
  BY DEF Processes, Live, Inits, Cleans
<1>1. pc[p] \in {"list", "remove"}
  BY <1>0, PlacesOf DEF Proper
<1>2. CASE Lists(p)
  <2>1. todo' = [todo EXCEPT ![p] = ToRemove(cmd[p])] /\ Goto(p, "remove")
        /\ UNCHANGED <<seen, entropy, config, dirs>>
    BY <1>2 DEF Lists, fileVars
  <2>2. todo'[p] = ToRemove(cmd[p]) /\ cmd'[p] = cmd[p]
    BY <2>1, GotoIs
  <2> QED BY <2>1, <2>2 DEF Clearing, ToRemove
<1>3. CASE RemovesConfig(p)
  <2>1. /\ todo' = [todo EXCEPT ![p] = todo[p] \ {"config"}] /\ Goto(p, "remove")
        /\ UNCHANGED <<seen, entropy, dirs>> /\ config' = None /\ pc[p] = "remove"
    BY <1>3 DEF RemovesConfig, At
  <2>2. todo'[p] = todo[p] \ {"config"}
    BY <2>1, GotoIs
  <2> QED BY <2>1, <2>2 DEF Clearing, Files, Dirs
<1>4. CASE RemovesDirectory(p)
  <2>1. PICK d \in dirs : todo' = [todo EXCEPT ![p] = todo[p] \ {d}] /\ dirs' = dirs \ {d}
    BY <1>4 DEF RemovesDirectory
  <2>2. Goto(p, "remove") /\ UNCHANGED <<seen, entropy, config>> /\ pc[p] = "remove"
    BY <1>4 DEF RemovesDirectory, At
  <2>3. todo'[p] = todo[p] \ {d} /\ cmd'[p] = cmd[p]
    BY <2>1, <2>2, GotoIs
  <2>4. d # "config"
    BY DEF Files, Dirs
  <2> QED BY <2>1, <2>2, <2>3, <2>4 DEF Clearing
<1>5. CASE FindsNothing(p) \/ Cleaned(p) \/ Breaks(p) \/ Deserts(p)
  BY <1>0, <1>5, EndsIs DEF FindsNothing, Cleaned, Breaks, Deserts
<1>6. CASE Sets(p) \/ CannotSet(p)
  BY <1>1, <1>6 DEF Sets, CannotSet, At
<1>7. CASE InitStep(p)
  BY <1>1, <1>7
    DEF InitStep, Checks, CreatesDirectories, ReusesConfig, OverridesConfig, CannotOverride,
      GeneratesConfig, WritesConfig, StoresMnemonic, SavesKeys, Downloads, CannotDownload,
      Clones, ChecksOut, UpdatesSubmodules, BuildsImages, At
<1>8. CASE BuildStep(p)
  BY <1>1, <1>8
    DEF BuildStep, Reads, Relinks, Links, Prepares, FetchFails, RemovesOld, FindsBuilder,
      RunsContainer, At
<1> QED BY <1>2, <1>3, <1>4, <1>5, <1>6, <1>7, <1>8 DEF Acts, CleanStep

\* What a command that is alone has made is there when it goes on.
LEMMA ProgressKept ==
  ASSUME Processes, Files, Exclusive, Progress, NEW p \in Proc, Acts(p)
  PROVE  Progress'
<1>1. SUFFICES ASSUME NEW q \in Proc, Solo(q)'
               PROVE  /\ cmd'[q] \in Inits => Initialized(q)' /\ Recovering(q)'
                      /\ cmd'[q] \in Cleans => Clearing(q)'
  BY DEF Progress
<1>2. q = p /\ Solo(p) /\ past'[p] = past[p] /\ Live(p)'
  BY <1>1, SoloActs DEF Solo
<1>3. cmd'[p] = cmd[p]
  BY <1>2, Moves, EndsIs DEF Live
<1> QED BY <1>2, <1>3, InitGoesOn, CleanGoesOn DEF Progress

-----------------------------------------------------------------------------
(* How a command ends.                                                     *)

\* Which actions a command ends well with, and at which an init may fail.
LEMMA Outcome ==
  ASSUME Processes, NEW p \in Proc, Acts(p)
  PROVE  \/ last' = NoCommand
         \/ /\ last'.cmd = cmd[p] /\ last'.past = past[p] /\ last'.seen = seen[p]
            /\ pc'[p] = "off" /\ cmd'[p] = "none"
            /\ last'.end = "ok" => BuildsImages(p) \/ Cleaned(p) \/ cmd[p] = "config"
            /\ last'.end = "failed" =>
                 \/ Checks(p) \/ CannotOverride(p) \/ CannotDownload(p) \/ Clones(p)
                 \/ ChecksOut(p) \/ UpdatesSubmodules(p) \/ cmd[p] \notin Inits
<1>0. Proper(p)
  BY DEF Processes
<1>a. "build" \notin Inits /\ "config" \notin Inits /\ \A c \in Cleans : c \notin Inits
  BY DEF Inits, Cleans
<1>1. CASE Checks(p)
  BY <1>1, KeepsIs, EndsIs DEF Checks
<1>2. CASE CreatesDirectories(p)
  BY <1>2, KeepsIs DEF CreatesDirectories
<1>3. CASE ReusesConfig(p)
  BY <1>3, KeepsIs DEF ReusesConfig
<1>4. CASE OverridesConfig(p)
  BY <1>4 DEF OverridesConfig, Truncates, Goto
<1>5. CASE CannotOverride(p)
  BY <1>5, EndsIs DEF CannotOverride
<1>6. CASE GeneratesConfig(p)
  BY <1>6 DEF GeneratesConfig, Truncates, Goto
<1>7. CASE WritesConfig(p)
  BY <1>7, KeepsIs, EndsIs DEF WritesConfig
<1>8. CASE StoresMnemonic(p)
  BY <1>8 DEF StoresMnemonic, Goto
<1>9. CASE SavesKeys(p)
  BY <1>9, KeepsIs DEF SavesKeys
<1>10. CASE Downloads(p)
  BY <1>10 DEF Downloads, Goto
<1>11. CASE CannotDownload(p)
  BY <1>11, EndsIs DEF CannotDownload
<1>12. CASE Clones(p)
  BY <1>12, KeepsIs, EndsIs DEF Clones
<1>13. CASE ChecksOut(p)
  BY <1>13, KeepsIs, EndsIs DEF ChecksOut
<1>14. CASE UpdatesSubmodules(p)
  BY <1>14, KeepsIs, EndsIs DEF UpdatesSubmodules
<1>15. CASE BuildsImages(p)
  BY <1>15, EndsIs DEF BuildsImages
<1>16. CASE Reads(p)
  BY <1>0, <1>a, <1>16, Where, EndsIs DEF Reads, At, Goto
<1>17. CASE Relinks(p)
  BY <1>17, KeepsIs DEF Relinks
<1>18. CASE Links(p)
  BY <1>0, <1>a, <1>18, Where, KeepsIs, EndsIs DEF Links, At
<1>19. CASE Prepares(p)
  BY <1>19, KeepsIs DEF Prepares
<1>20. CASE FetchFails(p)
  BY <1>0, <1>a, <1>20, Where, EndsIs DEF FetchFails, At
<1>21. CASE RemovesOld(p)
  BY <1>21, KeepsIs DEF RemovesOld
<1>22. CASE FindsBuilder(p)
  BY <1>22, KeepsIs DEF FindsBuilder
<1>23. CASE RunsContainer(p)
  BY <1>0, <1>a, <1>23, Where, KeepsIs, EndsIs DEF RunsContainer, At, Making
<1>24. CASE Sets(p)
  BY <1>24 DEF Sets, Truncates, Goto
<1>25. CASE CannotSet(p)
  BY <1>0, <1>a, <1>25, Where, EndsIs DEF CannotSet, At
<1>26. CASE Lists(p)
  BY <1>26 DEF Lists, Goto
<1>27. CASE RemovesConfig(p)
  BY <1>27 DEF RemovesConfig, Goto
<1>28. CASE RemovesDirectory(p)
  BY <1>28 DEF RemovesDirectory, Goto
<1>29. CASE FindsNothing(p)
  BY <1>0, <1>a, <1>29, Where, EndsIs DEF FindsNothing, At
<1>30. CASE Cleaned(p)
  BY <1>30, EndsIs DEF Cleaned
<1>31. CASE Breaks(p)
  BY <1>31, EndsIs DEF Breaks
<1>32. CASE Deserts(p)
  BY <1>32, EndsIs DEF Deserts
<1> QED BY <1>1, <1>2, <1>3, <1>4, <1>5, <1>6, <1>7, <1>8, <1>9, <1>10, <1>11, <1>12, <1>13,
    <1>14, <1>15, <1>16, <1>17, <1>18, <1>19, <1>20, <1>21, <1>22, <1>23, <1>24, <1>25,
    <1>26, <1>27, <1>28, <1>29, <1>30, <1>31, <1>32 DEF Acts, InitStep, BuildStep, CleanStep

\* An init that succeeds, alone, is complete; one that fails after a clean does so for
\* a torn configuration.
LEMMA InitEnds ==
  ASSUME Processes, Files, Progress, NEW p \in Proc, Acts(p)
  PROVE  InitIsComplete' /\ CleanRecovers'
<1>0. Proper(p) /\ Live(p)
  BY Moves DEF Processes
<1>a. /\ \A l \in Location : l \notin {None, Torn}
      /\ \A u \in Url : Cloned(u) \notin {None, Part}
      /\ \A u \in Url, r \in Ref \cup {None} : [Cloned(u) EXCEPT !.at = r] \notin {None, Part}
  <2>1. \A l \in Location : l \notin {None, Torn}
    BY SetupAssumption DEF Location, Local
  <2>2. \A c \in [url : Url, at : Ref \cup {None}, subs : BOOLEAN] : c \notin {None, Part}
    <3>1. \A c \in [url : Url, at : Ref \cup {None}, subs : BOOLEAN] :
            c \in [url : Url \cup {"local", "part"}, at : Ref \cup {None}, subs : BOOLEAN]
      OBVIOUS
    <3>2. Part.url \notin Url
      BY SetupAssumption DEF Part
    <3> QED BY <3>1, <3>2, SetupAssumption
  <2>3. \A u \in Url : Cloned(u) \in [url : Url, at : Ref \cup {None}, subs : BOOLEAN]
    BY DEF Cloned
  <2>4. \A c \in [url : Url, at : Ref \cup {None}, subs : BOOLEAN], r \in Ref \cup {None} :
          [c EXCEPT !.at = r] \in [url : Url, at : Ref \cup {None}, subs : BOOLEAN]
    OBVIOUS
  <2> QED BY <2>1, <2>2, <2>3, <2>4
<1>1. CASE last' = NoCommand
  BY <1>1 DEF InitIsComplete, CleanRecovers, Ended, NoCommand, Inits
<1>2. CASE last' # NoCommand
  <2>1. /\ last'.cmd = cmd[p] /\ last'.past = past[p]
        /\ pc'[p] = "off"
        /\ last'.end = "ok" => BuildsImages(p) \/ Cleaned(p) \/ cmd[p] = "config"
        /\ last'.end = "failed" =>
             \/ Checks(p) \/ CannotOverride(p) \/ CannotDownload(p) \/ Clones(p)
             \/ ChecksOut(p) \/ UpdatesSubmodules(p) \/ cmd[p] \notin Inits
    BY <1>2, Outcome
  <2>2. InitIsComplete'
    <3>1. SUFFICES ASSUME last'.cmd \in Inits, last'.end = "ok", last'.past.alone
                   PROVE  InitIsComplete'
      BY DEF InitIsComplete, Ended
    <3>2. BuildsImages(p) /\ cmd[p] \in Inits /\ Solo(p)
      BY <1>0, <2>1, <3>1, Where DEF Solo, Cleaned, At, Cleans, Inits
    <3>3. Initialized(p) /\ pc[p] = "images"
      BY <3>2 DEF Progress, BuildsImages, At
    <3>4. /\ UNCHANGED <<config, dirs, mnemonic, addresses, repo>>
          /\ cmd[p] = "init" => images' = Images
      BY <3>2 DEF BuildsImages, keyVars
    <3>5. /\ dirs = Dirs /\ config \in Location /\ Complete
          /\ mnemonic \notin {None, Torn} /\ addresses \notin {None, Torn}
      BY <3>3 DEF Initialized, Fresh, Fetching, Keyed
    <3>6. {mnemonic, addresses} \cap {None, Torn} = {}
      BY <3>5
    <3> QED BY <2>1, <3>4, <3>5, <3>6 DEF InitIsComplete, Complete
  <2>3. CleanRecovers'
    <3>1. SUFFICES ASSUME last'.cmd \in Inits, last'.end = "failed", last'.past.alone,
                          last'.past.after # "none"
                   PROVE  last'.past.after = "clean" /\ config' = Torn
      BY DEF CleanRecovers, Ended
    <3>2. /\ cmd[p] \in Inits /\ Solo(p) /\ past[p].after # "none"
          /\ past[p].after \in {"clean", "clean_all"}
      <4>1. past[p].after \in Cleans \cup {"none"}
        BY DEF Processes, Functions
      <4> QED BY <1>0, <2>1, <3>1, <4>1 DEF Solo, Cleans
    <3>3. Initialized(p) /\ Recovering(p)
      BY <3>2 DEF Progress
    <3>4. CASE Checks(p)
      BY <2>1, <3>2, <3>3, <3>4, KeepsIs DEF Checks, IsClean, Recovering, At
    <3>5. CASE CannotOverride(p)
      <4>1. pc[p] = "config" /\ config = Torn /\ UNCHANGED config
        BY <3>5 DEF CannotOverride, At, fileVars
      <4>2. past[p].after # "clean_all"
        BY <3>3, <4>1, SetupAssumption DEF Recovering
      <4> QED BY <2>1, <3>2, <4>1, <4>2
    <3>6. CASE CannotDownload(p)
      <4>1. pc[p] = "repositories" /\ config # None /\ dirs = Dirs /\ UNCHANGED config
        BY <3>3, <3>6 DEF CannotDownload, At, fileVars, Initialized, Fresh
      <4>2. config = Torn
        BY <3>6, <4>1 DEF CannotDownload, Whole, Files, Dirs
      <4>3. past[p].after # "clean_all"
        BY <1>a, <3>3, <4>1, <4>2 DEF Recovering
      <4> QED BY <2>1, <3>2, <4>1, <4>2, <4>3
    <3>7. CASE Clones(p)
      BY <2>1, <3>3, <3>7, KeepsIs DEF Clones, At, Initialized, Unfetched
    <3>8. CASE ChecksOut(p) \/ UpdatesSubmodules(p)
      <4>1. pc[p] \in {"checkout", "submodules"} /\ repo \in {None, Part}
        BY <1>0, <2>1, <3>2, <3>8, KeepsIs DEF ChecksOut, UpdatesSubmodules, At
      <4>2. /\ config \in Location /\ config # Local
        BY <1>0, <3>3, <4>1 DEF Initialized, Fetching, Proper
      <4>3. config.url \in Url /\ config.ref \in Ref
        BY <4>2 DEF Location
      <4> QED BY <1>a, <3>3, <4>1, <4>3 DEF Initialized
    <3> QED BY <2>1, <3>1, <3>2, <3>4, <3>5, <3>6, <3>7, <3>8
  <2> QED BY <2>2, <2>3
<1> QED BY <1>1, <1>2

\* What a clean that was alone has left, and nobody is about.
LEMMA Afterwards ==
  ASSUME Processes, Files, Exclusive, Progress, NEW p \in Proc, Acts(p)
  PROVE  Left' /\ Rested'
<1>0. Proper(p) /\ Live(p)
  BY Moves DEF Processes
<1>1. CASE last' = NoCommand
  BY <1>1 DEF Left, Rested, Ended, NoCommand, Cleans
<1>2. CASE last' # NoCommand
  <2>1. /\ last'.cmd = cmd[p] /\ last'.past = past[p] /\ pc'[p] = "off"
        /\ last'.end = "ok" => BuildsImages(p) \/ Cleaned(p) \/ cmd[p] = "config"
    BY <1>2, Outcome
  <2>2. Left'
    <3>1. SUFFICES ASSUME last'.cmd \in Cleans, last'.end = "ok", last'.past.alone
                   PROVE  dirs' = {} /\ (last'.cmd = "clean_all" => config' = None)
      BY DEF Left, Ended
    <3>2. Cleaned(p) /\ cmd[p] \in Cleans /\ Solo(p)
      BY <1>0, <2>1, <3>1, Where DEF Solo, BuildsImages, At, Cleans, Inits
    <3>3. Clearing(p) /\ pc[p] = "remove" /\ todo[p] = {} /\ UNCHANGED <<config, dirs>>
      BY <3>2 DEF Progress, Cleaned, At
    <3> QED BY <2>1, <3>2, <3>3 DEF Clearing
  <2>3. Rested'
    BY <1>0, <2>1, SoloActs DEF Rested, Solo, Live
  <2> QED BY <2>2, <2>3
<1> QED BY <1>1, <1>2

\* What a container does to itself ends no command but its build.
LEMMA RunsEnds ==
  ASSUME Processes, OneContainer, Files, NEW c \in containers, Runs(c)
  PROVE  \/ UNCHANGED last
         \/ /\ c.by \in Proc /\ last'.cmd = "build" /\ last'.cmd = cmd[c.by]
            /\ last'.past = past[c.by] /\ last'.seen = seen[c.by] /\ Live(c.by)
            /\ ~Live(c.by)' /\ containers' = {}
            /\ last'.end = "ok" => c.copying /\ bin' = IF c.out THEN Made(c) ELSE bin
<1>1. c.by \in Proc => pc[c.by] = "wait" /\ cmd[c.by] = "build"
  BY Where DEF OneContainer, Processes, Making
<1>2. CASE UNCHANGED last
  BY <1>2
<1>3. CASE /\ containers' = {} /\ Tells(c, "ok") /\ c.copying
           /\ bin' = IF c.out THEN Made(c) ELSE bin
  BY <1>1, <1>3, EndsIs DEF Tells, Live
<1>4. CASE containers' = {} /\ Tells(c, "broken")
  BY <1>1, <1>4, EndsIs DEF Tells, Live
<1> QED BY <1>2, <1>3, <1>4, ContainerRuns

\* The commands that are alone do not notice.
LEMMA RunsLeaves ==
  ASSUME Processes, OneContainer, Files, Exclusive, Rested, Progress, Left,
         InitIsComplete, CleanRecovers, NEW c \in containers, Runs(c)
  PROVE  (Exclusive /\ Rested /\ Progress /\ Left /\ InitIsComplete /\ CleanRecovers)'
<1>1. UNCHANGED <<config, dirs, mnemonic, addresses, repo, images>>
  BY RunsKeeps DEF keyVars
<1>2. \A q \in Proc : Live(q)' =>
        /\ cmd'[q] = cmd[q] /\ pc'[q] = pc[q] /\ seen'[q] = seen[q]
        /\ entropy'[q] = entropy[q] /\ todo'[q] = todo[q] /\ past'[q] = past[q] /\ Live(q)
  BY RunsKeeps
<1>3. Exclusive'
  BY <1>2 DEF Exclusive, Solo
<1>4. Progress'
  <2>1. SUFFICES ASSUME NEW q \in Proc, Solo(q)'
                 PROVE  /\ cmd'[q] \in Inits => Initialized(q)' /\ Recovering(q)'
                        /\ cmd'[q] \in Cleans => Clearing(q)'
    BY DEF Progress
  <2>2. /\ cmd'[q] = cmd[q] /\ pc'[q] = pc[q] /\ seen'[q] = seen[q]
        /\ entropy'[q] = entropy[q] /\ todo'[q] = todo[q] /\ past'[q] = past[q] /\ Solo(q)
    BY <1>2, <2>1 DEF Solo
  <2>3. Initialized(q) => Initialized(q)'
    BY <1>1, <2>2 DEF Initialized, Complete
  <2>4. Recovering(q) => Recovering(q)'
    BY <1>1, <2>2 DEF Recovering
  <2>5. Clearing(q) => Clearing(q)'
    BY <1>1, <2>2 DEF Clearing
  <2> QED BY <2>2, <2>3, <2>4, <2>5 DEF Progress
<1>5. CASE UNCHANGED last
  BY <1>1, <1>2, <1>3, <1>4, <1>5 DEF Rested, Left, InitIsComplete, CleanRecovers, Ended
<1>6. CASE /\ c.by \in Proc /\ last'.cmd = "build" /\ last'.past = past[c.by]
           /\ Live(c.by) /\ ~Live(c.by)'
  <2>1. Rested'
    BY <1>2, <1>6 DEF Rested, Exclusive, Solo
  <2> QED BY <1>3, <1>4, <1>6, <2>1
      DEF Left, InitIsComplete, CleanRecovers, Ended, Inits, Cleans
<1> QED BY <1>5, <1>6, RunsEnds

\* A new command finds what the one before it has left.
LEMMA InvokeLeaves ==
  ASSUME Processes, OneContainer, Files, Exclusive, Progress, Left, Building,
         NEW p \in Proc, NEW c \in Commands, Invoke(p, c)
  PROVE  /\ (Exclusive /\ Rested /\ Progress /\ Left /\ InitIsComplete /\ CleanRecovers)'
         /\ (Files /\ OneContainer /\ Building /\ Built /\ BuildIsFaithful)'
<1>1. /\ ~Live(p) /\ cmd'[p] = c /\ pc'[p] = First[c]
      /\ \A q \in Proc : q # p =>
           /\ cmd'[q] = cmd[q] /\ pc'[q] = pc[q]
           /\ past'[q].alone = (past[q].alone /\ ~Live(q))
           /\ past'[q].after = past[q].after /\ past'[q].disturbed = past[q].disturbed
      /\ past'[p].alone = (\A o \in Proc : ~Live(o))
      /\ past'[p].after = IF Ended(Cleans, "ok") /\ last.past.alone THEN last.cmd ELSE "none"
      /\ last' = NoCommand
  BY InvokeKeeps
<1>2. /\ UNCHANGED <<config, dirs, mnemonic, addresses, repo, bin, images, containers>>
      /\ UNCHANGED <<seen, entropy, todo>>
  BY InvokeKeeps DEF fileVars, keyVars, codeVars
<1>3. pc'[p] \in {"check", "read", "set", "list"}
  <2>1. First[c] = CASE c \in Inits -> "check"
                        [] c = "build" -> "read"
                        [] c = "config" -> "set"
                        [] OTHER -> "list"
    BY DEF First
  <2> QED BY <1>1, <2>1
<1>a. c \in Inits => pc'[p] = "check"
  BY <1>1 DEF First, Inits
<1>4. (Rested /\ Left /\ InitIsComplete /\ CleanRecovers /\ Built /\ BuildIsFaithful)'
  BY <1>1
    DEF Rested, Left, InitIsComplete, CleanRecovers, Built, BuildIsFaithful, Ended,
      NoCommand, Inits, Cleans
<1>5. \A q \in Proc : Solo(q)' => q = p /\ \A o \in Proc : ~Live(o)
  BY <1>1 DEF Solo, Live
<1>6. Exclusive'
  BY <1>1, <1>5 DEF Exclusive, Live
<1>7. Files'
  BY <1>2 DEF Files
<1>8. OneContainer'
  BY <1>1, <1>2 DEF OneContainer, Live
<1>9. Progress'
  <2>1. Ended(Cleans, "ok") /\ last.past.alone =>
          dirs = {} /\ (last.cmd = "clean_all" => config = None)
    BY DEF Left
  <2>2. c \in Inits => Initialized(p)'
    BY <1>a DEF Initialized, Fresh, Unfetched, Keyed, Fetching
  <2>3. Recovering(p)'
    BY <1>1, <1>2, <1>3, <2>1 DEF Recovering
  <2>4. Clearing(p)'
    BY <1>3 DEF Clearing
  <2> QED BY <1>1, <1>5, <2>2, <2>3, <2>4 DEF Progress
<1>10. Building'
  <2>1. ASSUME NEW q \in Proc, Steady(q)'
        PROVE  /\ pc'[q] = "checkout" => IsClone(repo')
               /\ pc'[q] \in Making => Ready(q)'
               /\ pc'[q] \in {"run", "wait"} => "bin" \in dirs'
    <3>1. CASE q = p
      BY <1>3, <3>1 DEF Making
    <3>2. CASE q # p
      <4>1. Steady(q) /\ pc'[q] = pc[q]
        BY <1>1, <2>1, <3>2 DEF Steady
      <4> QED BY <1>2, <4>1 DEF Building, Ready
    <3> QED BY <3>1, <3>2
  <2>2. ASSUME NEW d \in containers', d.by \in Proc, Steady(d.by)'
        PROVE  /\ d.local = (seen'[d.by] = Local) /\ d.out
               /\ d.from \subseteq {Wanted(d.by)'}
               /\ d.copying => d.from = {Wanted(d.by)'}
    <3>1. d \in containers /\ d.by # p
      BY <1>1, <1>2, <2>2 DEF OneContainer, Live
    <3>2. Steady(d.by)
      BY <1>1, <2>2, <3>1 DEF Steady
    <3> QED BY <1>2, <2>2, <3>1, <3>2 DEF Building, Wanted
  <2> QED BY <2>1, <2>2 DEF Building
<1> QED BY <1>4, <1>6, <1>7, <1>8, <1>9, <1>10

-----------------------------------------------------------------------------
(* A build.                                                                *)

\* A repository that is ready for a build is there.
LEMMA ReadyIs ==
  ASSUME NEW q, Ready(q)
  PROVE  repo \notin {None, Part} /\ (IsLink(repo) <=> seen[q] = Local)
<1>1. Link # None /\ Link # Part /\ Link.url = "local"
  <2>1. Link \in [url : Url \cup {"local", "part"}, at : Ref \cup {None}, subs : BOOLEAN]
    BY DEF Link
  <2>2. Link.url = "local" /\ Part.url = "part"
    BY DEF Link, Part
  <2> QED BY <2>1, <2>2, SetupAssumption
<1>2. Part.url \notin Url /\ "local" \notin Url
  BY SetupAssumption DEF Part
<1> QED BY <1>1, <1>2 DEF Ready, IsLink, IsClone

\* A build that nobody disturbs goes on with the repository it has prepared.
LEMMA BuildGoesOn ==
  ASSUME Processes, Files, Building, NEW p \in Proc, Acts(p), Steady(p), Live(p)'
  PROVE  /\ pc'[p] = "checkout" => IsClone(repo')
         /\ pc'[p] \in Making => Ready(p)'
         /\ pc'[p] \in {"run", "wait"} => "bin" \in dirs'
<1>0. /\ Proper(p) /\ pc'[p] # "off"
      /\ cmd[p] = "build" /\ cmd[p] \notin Inits \cup Cleans \cup {"config"}
  BY DEF Processes, Live, Steady, Inits, Cleans
<1>a. /\ pc[p] = "checkout" => IsClone(repo)
      /\ pc[p] \in Making => Ready(p)
      /\ pc[p] \in {"run", "wait"} => "bin" \in dirs
  BY DEF Building
<1>1. CASE Checks(p)
  BY <1>0, <1>1, Where DEF Checks, At
<1>2. CASE CreatesDirectories(p)
  BY <1>0, <1>2, Where DEF CreatesDirectories, At
<1>3. CASE ReusesConfig(p)
  BY <1>0, <1>3, Where DEF ReusesConfig, At
<1>4. CASE OverridesConfig(p)
  BY <1>0, <1>4, Where DEF OverridesConfig, At
<1>5. CASE CannotOverride(p)
  BY <1>0, <1>5, Where DEF CannotOverride, At
<1>6. CASE GeneratesConfig(p)
  BY <1>0, <1>6, Where DEF GeneratesConfig, At
<1>7. CASE WritesConfig(p)
  BY <1>0, <1>7, Where DEF WritesConfig, At
<1>8. CASE StoresMnemonic(p)
  BY <1>0, <1>8, Where DEF StoresMnemonic, At
<1>9. CASE SavesKeys(p)
  BY <1>0, <1>9, Where DEF SavesKeys, At
<1>10. CASE Downloads(p)
  BY <1>0, <1>10, Where DEF Downloads, At
<1>11. CASE CannotDownload(p)
  BY <1>0, <1>11, Where DEF CannotDownload, At
<1>12. CASE Clones(p)
  <2>1. pc[p] = "clone"
    BY <1>12 DEF Clones, At
  <2>2. repo' = Cloned(seen[p].url) /\ Keeps(p, "checkout")
    BY <1>0, <1>12, EndsIs DEF Clones
  <2>3. seen[p].url \in Url
    BY <1>0, <2>1, Repositories DEF Proper, Fetching
  <2>4. IsClone(repo')
    <3>1. repo' \in [url : Url \cup {"local", "part"}, at : Ref \cup {None}, subs : BOOLEAN]
          /\ repo'.url = seen[p].url
      BY <2>2, <2>3 DEF Cloned
    <3> QED BY <2>3, <3>1, SetupAssumption DEF IsClone
  <2> QED BY <2>2, <2>4, KeepsIs DEF Making
<1>13. CASE ChecksOut(p)
  <2>1. pc[p] = "checkout" /\ IsClone(repo)
    BY <1>a, <1>13 DEF ChecksOut, At
  <2>2. repo' = [repo EXCEPT !.at = seen[p].ref] /\ Keeps(p, "image")
    BY <1>0, <1>13, EndsIs DEF ChecksOut
  <2>3. pc'[p] = "image" /\ seen'[p] = seen[p]
    BY <2>2, KeepsIs
  <2>4. seen[p] # Local /\ seen[p].ref \in Ref
    BY <1>0, <2>1 DEF Proper, Fetching, Location
  <2>5. repo \in [url : Url \cup {"local"}, at : Ref \cup {None}, subs : BOOLEAN]
    BY <2>1, SetupAssumption DEF Files, IsClone, Part
  <2>6. /\ repo' \in [url : Url \cup {"local", "part"}, at : Ref \cup {None}, subs : BOOLEAN]
        /\ repo'.url = repo.url /\ repo'.at = seen[p].ref
    BY <2>2, <2>4, <2>5
  <2>7. IsClone(repo')
    BY <2>1, <2>6, SetupAssumption DEF IsClone
  <2> QED BY <2>3, <2>4, <2>6, <2>7 DEF Ready
<1>14. CASE UpdatesSubmodules(p)
  BY <1>0, <1>14, Where DEF UpdatesSubmodules, At
<1>15. CASE BuildsImages(p)
  BY <1>0, <1>15, Where DEF BuildsImages, At
<1>16. CASE Reads(p)
  <2>1. \E there \in {"relink", "prepare"} : Goto(p, there)
    BY <1>0, <1>16, EndsIs DEF Reads
  <2> QED BY <2>1, GotoIs DEF Making
<1>17. CASE Relinks(p)
  BY <1>0, <1>17, KeepsIs, EndsIs DEF Relinks, Making
<1>18. CASE Links(p)
  BY <1>0, <1>18, KeepsIs, EndsIs DEF Links, At, Proper, Ready
<1>19. CASE Prepares(p)
  BY <1>19, KeepsIs DEF Prepares, Making, fileVars, codeVars
<1>20. CASE FetchFails(p)
  BY <1>0, <1>20, KeepsIs, EndsIs DEF FetchFails, Making
<1>21. CASE RemovesOld(p)
  BY <1>0, <1>21, KeepsIs, EndsIs DEF RemovesOld, Making
<1>22. CASE FindsBuilder(p)
  BY <1>0, <1>a, <1>22, KeepsIs DEF FindsBuilder, At, Ready, Making
<1>23. CASE RunsContainer(p)
  BY <1>0, <1>a, <1>23, KeepsIs, EndsIs DEF RunsContainer, At, Ready, Making
<1>24. CASE Sets(p)
  BY <1>0, <1>24, Where DEF Sets, At
<1>25. CASE CannotSet(p)
  BY <1>0, <1>25, Where DEF CannotSet, At
<1>26. CASE Lists(p)
  BY <1>0, <1>26, Where DEF Lists, At
<1>27. CASE RemovesConfig(p)
  BY <1>0, <1>27, Where DEF RemovesConfig, At
<1>28. CASE RemovesDirectory(p)
  BY <1>0, <1>28, Where DEF RemovesDirectory, At
<1>29. CASE FindsNothing(p)
  BY <1>0, <1>29, Where DEF FindsNothing, At
<1>30. CASE Cleaned(p)
  BY <1>0, <1>30, Where DEF Cleaned, At
<1>31. CASE Breaks(p)
  BY <1>0, <1>31, EndsIs DEF Breaks
<1>32. CASE Deserts(p)
  BY <1>0, <1>32, EndsIs DEF Deserts
<1> QED BY <1>1, <1>2, <1>3, <1>4, <1>5, <1>6, <1>7, <1>8, <1>9, <1>10, <1>11, <1>12, <1>13,
    <1>14, <1>15, <1>16, <1>17, <1>18, <1>19, <1>20, <1>21, <1>22, <1>23, <1>24, <1>25,
    <1>26, <1>27, <1>28, <1>29, <1>30, <1>31, <1>32 DEF Acts, InitStep, BuildStep, CleanStep

\* Nor does the container that works for it have anything taken from under it.
LEMMA BuildingKept ==
  ASSUME Processes, Files, OneContainer, Building, NEW p \in Proc, Acts(p)
  PROVE  Building'
<1>0. Frame(p) /\ Remembers(p) /\ Live(p)
  BY Moves DEF Acts
<1>1. ASSUME NEW q \in Proc, q # p, Steady(q)'
      PROVE  /\ Steady(q) /\ repo' = repo /\ dirs \subseteq dirs'
             /\ pc'[q] = pc[q] /\ seen'[q] = seen[q]
  <2>1. cmd'[q] = cmd[q] /\ pc'[q] = pc[q] /\ seen'[q] = seen[q]
    BY <1>0, <1>1 DEF Frame
  <2>2. ~past[q].disturbed /\ ~Disturbs(q)
    BY <1>0, <1>1, PastIs DEF Steady
  <2> QED BY <1>1, <2>1, <2>2 DEF Steady, Disturbs
<1>2. Steady(p)' => Steady(p) /\ Live(p)'
  <2>1. SUFFICES ASSUME Steady(p)' PROVE Steady(p) /\ Live(p)'
    OBVIOUS
  <2>2. cmd'[p] = cmd[p] /\ cmd'[p] = "build" /\ pc'[p] # "off"
    BY <2>1, Moves, EndsIs, PlacesOf DEF Steady, Proper, Preparing, Making
  <2>3. past'[p] = past[p]
    BY <1>0, <2>2, PastIs
  <2> QED BY <2>1, <2>2, <2>3 DEF Steady, Live
<1>3. ASSUME NEW q \in Proc, Steady(q)'
      PROVE  /\ pc'[q] = "checkout" => IsClone(repo')
             /\ pc'[q] \in Making => Ready(q)'
             /\ pc'[q] \in {"run", "wait"} => "bin" \in dirs'
  <2>1. CASE q = p
    BY <1>2, <1>3, <2>1, BuildGoesOn
  <2>2. CASE q # p
    BY <1>1, <1>3, <2>2 DEF Building, Ready
  <2> QED BY <2>1, <2>2
<1>4. ASSUME NEW d \in containers', d.by \in Proc, Steady(d.by)'
      PROVE  /\ d.local = (seen'[d.by] = Local) /\ d.out
             /\ d.from \subseteq {Wanted(d.by)'}
             /\ d.copying => d.from = {Wanted(d.by)'}
  <2>0. pc'[d.by] = "wait"
    BY <1>4, ContainerKept DEF OneContainer
  <2>1. ASSUME NEW c \in containers, c.by = d.by
        PROVE  /\ d.by # p /\ Steady(d.by) /\ repo' = repo /\ dirs \subseteq dirs'
               /\ seen'[d.by] = seen[d.by] /\ repo \notin {None, Part}
               /\ Wanted(d.by)' = Wanted(d.by)
    <3>1. pc[d.by] = "wait"
      BY <1>4, <2>1 DEF OneContainer
    <3>2. d.by # p
      BY <2>0, <3>1, ContainerOf, EndsIs DEF Deserts
    <3>3. /\ Steady(d.by) /\ repo' = repo /\ dirs \subseteq dirs' /\ seen'[d.by] = seen[d.by]
      BY <1>1, <1>4, <3>2
    <3>4. repo \notin {None, Part}
      BY <1>4, <3>1, <3>3, ReadyIs DEF Building, Making
    <3> QED BY <3>2, <3>3, <3>4 DEF Wanted
  <2>2. CASE d \in containers
    BY <1>4, <2>1, <2>2 DEF Building
  <2>3. ASSUME NEW x \in {None, Part}, RemovesRepository(x) PROVE FALSE
    <3>1. PICK c \in containers :
            d = IF c.local THEN c ELSE [c EXCEPT !.from = c.from \cup {None}]
      BY <2>3 DEF RemovesRepository
    <3>2. c \in Container
      BY DEF OneContainer
    <3>3. d.by = c.by
      BY <3>1, <3>2 DEF Container
    <3> QED BY <2>1, <2>3, <3>3 DEF RemovesRepository
  <2>4. CASE /\ containers' = {[c EXCEPT !.out = FALSE] : c \in containers}
             /\ "bin" \in dirs /\ "bin" \notin dirs'
    <3>1. PICK c \in containers : d = [c EXCEPT !.out = FALSE]
      BY <2>4
    <3>2. d.by = c.by
      BY <3>1 DEF OneContainer, Container
    <3> QED BY <2>1, <2>4, <3>2
  <2>5. CASE Deserts(p)
    <3>1. PICK c \in containers : d = IF c.by = p THEN [c EXCEPT !.by = None] ELSE c
      BY <2>5 DEF Deserts
    <3>2. c \in Container
      BY DEF OneContainer
    <3>3. c.by = p => d.by = None
      BY <3>1, <3>2 DEF Container
    <3>4. d = c
      BY <1>4, <3>1, <3>3, SetupAssumption
    <3> QED BY <2>2, <3>4
  <2>6. CASE /\ pc[p] = "run" /\ containers' = {NewContainer(p)}
             /\ Keeps(p, "wait") /\ UNCHANGED <<repo, dirs>>
    <3>1. d = NewContainer(p) /\ d.by = p
      BY <2>6 DEF NewContainer
    <3>2. Steady(p) /\ Ready(p) /\ "bin" \in dirs
      BY <1>2, <1>4, <2>6, <3>1 DEF Building, Making
    <3>3. seen'[p] = seen[p]
      BY <2>6, KeepsIs
    <3>4. IsLink(repo) <=> seen[p] = Local
      BY <3>2, ReadyIs
    <3>5. d.local = IsLink(repo) /\ d.out /\ d.from = {} /\ ~d.copying
      BY <3>1, <3>2 DEF NewContainer
    <3>6. IsLink(repo) \in BOOLEAN
      BY DEF IsLink
    <3> QED BY <3>1, <3>3, <3>4, <3>5, <3>6
  <2> QED BY <2>2, <2>3, <2>4, <2>5, <2>6, ContainerOf
<1> QED BY <1>3, <1>4 DEF Building

\* No command ends a build well but its container.
LEMMA NoBuildEnds ==
  ASSUME Processes, NEW p \in Proc, Acts(p)
  PROVE  (Built /\ BuildIsFaithful)'
<1>0. Proper(p)
  BY DEF Processes
<1>1. ~(last'.cmd = "build" /\ last'.end = "ok")
  <2>1. CASE last' = NoCommand
    BY <2>1 DEF NoCommand
  <2>2. CASE last' # NoCommand
    <3>1. /\ last'.end = "ok" => BuildsImages(p) \/ Cleaned(p) \/ cmd[p] = "config"
          /\ last'.cmd = cmd[p]
      BY <2>2, Outcome
    <3>2. BuildsImages(p) \/ Cleaned(p) => cmd[p] \in Inits \cup Cleans
      BY <1>0, Where DEF BuildsImages, Cleaned, At
    <3> QED BY <2>2, <3>1, <3>2, Outcome DEF Inits, Cleans
  <2> QED BY <2>1, <2>2
<1> QED BY <1>1 DEF Built, BuildIsFaithful, Ended

\* A container makes what its build has asked for, and tells it when it is done.
LEMMA BuildingKeptByRun ==
  ASSUME Processes, Files, OneContainer, Building, Built, BuildIsFaithful,
         NEW c \in containers, Runs(c)
  PROVE  (Building /\ Built /\ BuildIsFaithful)'
<1>1. /\ UNCHANGED <<repo, dirs>>
      /\ \A q \in Proc : Live(q)' =>
           /\ cmd'[q] = cmd[q] /\ pc'[q] = pc[q] /\ seen'[q] = seen[q]
           /\ past'[q] = past[q]
  BY RunsKeeps
<1>2. ASSUME NEW q \in Proc, Steady(q)'
      PROVE  /\ Steady(q) /\ pc'[q] = pc[q] /\ seen'[q] = seen[q]
             /\ Wanted(q)' = Wanted(q) /\ (Ready(q)' <=> Ready(q))
  <2>1. pc'[q] # "off"
    BY <1>2, RunsKeeps, PlacesOf DEF Processes, Proper, Steady, Preparing, Making
  <2>2. cmd'[q] = cmd[q] /\ pc'[q] = pc[q] /\ seen'[q] = seen[q] /\ past'[q] = past[q]
    BY <1>1, <2>1 DEF Live
  <2> QED BY <1>1, <1>2, <2>2 DEF Steady, Wanted, Ready
<1>3. \A q \in Proc : Steady(q)' =>
        /\ pc'[q] = "checkout" => IsClone(repo')
        /\ pc'[q] \in Making => Ready(q)'
        /\ pc'[q] \in {"run", "wait"} => "bin" \in dirs'
  BY <1>1, <1>2 DEF Building
<1>4. c \in Container /\ containers = {c}
  BY DEF OneContainer
<1>5. ASSUME c.by \in Proc, Steady(c.by)
      PROVE  /\ c.local = (seen[c.by] = Local) /\ c.out /\ c.from \subseteq {Wanted(c.by)}
             /\ c.copying => c.from = {Wanted(c.by)}
             /\ Ready(c.by)
  BY <1>5 DEF Building, OneContainer, Making
<1>6. Building'
  <2>1. CASE containers' = {}
    BY <1>3, <2>1 DEF Building
  <2>2. ASSUME containers' = {[c EXCEPT !.copying = TRUE]}, c.from # {}
        PROVE  Building'
    <3>1. /\ [c EXCEPT !.copying = TRUE].by = c.by /\ [c EXCEPT !.copying = TRUE].from = c.from
          /\ [c EXCEPT !.copying = TRUE].local = c.local /\ [c EXCEPT !.copying = TRUE].out = c.out
      BY <1>4 DEF Container
    <3>2. c.by \in Proc /\ Steady(c.by)' =>
            /\ c.local = (seen'[c.by] = Local) /\ c.out /\ c.from = {Wanted(c.by)'}
      BY <1>2, <1>5, <2>2
    <3> QED BY <1>3, <2>2, <3>1, <3>2 DEF Building
  <2>3. ASSUME containers' =
                 {[c EXCEPT !.from = c.from \cup {IF c.local THEN Local ELSE Source(repo)}]},
               ~c.copying
        PROVE  Building'
    <3> DEFINE x == IF c.local THEN Local ELSE Source(repo)
    <3> DEFINE d == [c EXCEPT !.from = c.from \cup {x}]
    <3>1. d.by = c.by /\ d.from = c.from \cup {x} /\ d.local = c.local /\ d.out = c.out
          /\ d.copying = c.copying
      BY <1>4 DEF Container
    <3>2. c.by \in Proc /\ Steady(c.by) => x = Wanted(c.by)
      <4>1. SUFFICES ASSUME c.by \in Proc, Steady(c.by) PROVE x = Wanted(c.by)
        OBVIOUS
      <4>2. Ready(c.by) /\ c.local = (seen[c.by] = Local) /\ repo \notin {None, Part}
        BY <1>5, <4>1, ReadyIs
      <4>3. CASE seen[c.by] = Local
        <5>1. c.local /\ repo = Link
          BY <4>2, <4>3 DEF Ready
        <5>2. Link.url = "local" /\ Local.ref = None /\ Local = [url |-> "local", ref |-> None]
          BY DEF Link, Local
        <5>3. Wanted(c.by) = Local
          BY <4>3, <5>1, <5>2 DEF Wanted
        <5> QED BY <5>1, <5>3
      <4>4. CASE seen[c.by] # Local
        BY <4>2, <4>4 DEF Ready, Wanted, Source
      <4> QED BY <4>3, <4>4
    <3> HIDE DEF x
    <3>3. c.by \in Proc /\ Steady(c.by)' =>
            /\ c.local = (seen'[c.by] = Local) /\ c.out
            /\ c.from \cup {x} \subseteq {Wanted(c.by)'}
      BY <1>2, <1>5, <3>2
    <3>4. containers' = {d}
      BY <2>3 DEF x
    <3> HIDE DEF d
    <3> QED BY <1>3, <2>3, <3>1, <3>3, <3>4 DEF Building
  <2> QED BY <2>1, <2>2, <2>3, ContainerRuns
<1>7. CASE UNCHANGED last
  <2>1. ~Ended({"build"}, "ok")
    BY <1>4 DEF Built
  <2>2. ~Ended({"build"}, "ok")'
    BY <1>7, <2>1 DEF Ended
  <2> QED BY <1>6, <2>2 DEF Built, BuildIsFaithful
<1>8. CASE /\ c.by \in Proc /\ last'.cmd = cmd[c.by] /\ last'.cmd = "build"
           /\ last'.past = past[c.by] /\ last'.seen = seen[c.by] /\ containers' = {}
           /\ last'.end = "ok" => c.copying /\ bin' = IF c.out THEN Made(c) ELSE bin
  <2>1. BuildIsFaithful'
    <3>1. SUFFICES ASSUME last'.end = "ok", ~last'.past.disturbed
                   PROVE  /\ bin' = [url |-> repo'.url, ref |-> last'.seen.ref]
                          /\ IsLink(repo') <=> last'.seen = Local
      BY DEF BuildIsFaithful, Ended
    <3>2. Steady(c.by)
      BY <1>8, <3>1 DEF Steady
    <3>3. c.out /\ c.from = {Wanted(c.by)} /\ Ready(c.by) /\ bin' = Made(c)
      BY <1>5, <1>8, <3>1, <3>2
    <3>4. Made(c) = Wanted(c.by)
      BY <3>3, FS_Singleton DEF Made
    <3> QED BY <1>1, <1>8, <3>3, <3>4, ReadyIs DEF Wanted
  <2> QED BY <1>6, <1>8, <2>1 DEF Built
<1> QED BY <1>7, <1>8, RunsEnds

-----------------------------------------------------------------------------
(* Init and Next.                                                          *)

\* An empty home directory, or one that an init has filled, satisfies the invariant.
LEMMA InitHolds == Init => IInv
<1>0. SUFFICES ASSUME Init PROVE IInv
  OBVIOUS
<1>1. /\ cmd = [p \in Proc |-> "none"] /\ pc = [p \in Proc |-> "off"]
      /\ seen = [p \in Proc |-> None] /\ entropy = [p \in Proc |-> None]
      /\ todo = [p \in Proc |-> {}] /\ past = [p \in Proc |-> Calm]
      /\ containers = {} /\ last = NoCommand
  BY <1>0 DEF Init
<1>2. Processes
  <2>1. Calm \in [alone : BOOLEAN, after : Cleans \cup {"none"}, disturbed : BOOLEAN]
    BY DEF Calm
  <2>2. Functions
    BY <1>1, <2>1 DEF Functions
  <2>3. \A p \in Proc : Proper(p)
    BY <1>1, PlacesOf DEF Proper, Fetching, Preparing, Making
  <2> QED BY <2>2, <2>3 DEF Processes
<1>3. Files
  <2>1. CASE /\ config = None /\ dirs = {} /\ mnemonic = None /\ addresses = None
             /\ repo = None /\ images = {}
    BY <2>1 DEF Files
  <2>2. CASE /\ config = Default /\ dirs = Dirs /\ mnemonic = "static" /\ addresses = "static"
             /\ repo = [url |-> DefaultUrl, at |-> DefaultRef, subs |-> TRUE] /\ images = Images
    <3>1. \A b \in BOOLEAN : [url |-> DefaultUrl, at |-> DefaultRef, subs |-> b]
                               \in [url : Url \cup {"local"}, at : Ref \cup {None}, subs : BOOLEAN]
      BY SetupAssumption
    <3> QED BY <2>2, <3>1, Resolved DEF Files, Dirs
  <2> QED BY <1>0, <2>1, <2>2 DEF Init
<1>4. Paired
  <2>1. \A p \in Proc : cmd[p] \notin Inits
    BY <1>1 DEF Inits
  <2>2. mnemonic = addresses
    BY <1>0 DEF Init
  <2> QED BY <2>1, <2>2 DEF Paired
<1>5. OneContainer /\ Exclusive /\ Rested /\ Progress
  BY <1>1 DEF OneContainer, Exclusive, Rested, Progress, Solo, Live
<1>6. \A cs, how : "none" \notin cs => ~Ended(cs, how)
  BY <1>1 DEF Ended, NoCommand
<1>7. Left /\ Built /\ InitIsComplete /\ BuildIsFaithful /\ CleanRecovers
  BY <1>6 DEF Left, Built, InitIsComplete, BuildIsFaithful, CleanRecovers, Inits, Cleans
<1>8. Building
  BY <1>1 DEF Building, Steady
<1> QED BY <1>2, <1>3, <1>4, <1>5, <1>7, <1>8 DEF IInv

\* Every step keeps the invariant.
LEMMA NextKeeps == IInv /\ [Next]_vars => IInv'
<1>0. SUFFICES ASSUME IInv, [Next]_vars PROVE IInv'
  OBVIOUS
<1>1. /\ Processes /\ Files /\ OneContainer /\ (~crossed => Paired)
      /\ Exclusive /\ Rested /\ Progress /\ Left /\ Building /\ Built
      /\ InitIsComplete /\ BuildIsFaithful /\ CleanRecovers
  BY <1>0 DEF IInv
<1>2. ASSUME NEW p \in Proc, Acts(p) PROVE IInv'
  <2>1. Processes' /\ Files' /\ OneContainer'
    BY <1>1, <1>2, ActsKeeps, FilesKept, ContainerKept
  <2>2. ~crossed' => Paired'
    BY <1>1, <1>2, KeysKept DEF Acts
  <2>3. Exclusive' /\ Rested' /\ Progress' /\ Left' /\ InitIsComplete' /\ CleanRecovers'
    BY <1>1, <1>2, SoloActs, ProgressKept, Afterwards, InitEnds
  <2>4. Building' /\ Built' /\ BuildIsFaithful'
    BY <1>1, <1>2, BuildingKept, NoBuildEnds
  <2> QED BY <2>1, <2>2, <2>3, <2>4 DEF IInv
<1>3. ASSUME NEW c \in containers, Runs(c) PROVE IInv'
  <2>1. Processes' /\ OneContainer'
    BY <1>1, <1>3, RunsKeeps, ContainerRunsKept
  <2>2. Files'
    <3>1. UNCHANGED <<config, dirs, mnemonic, addresses, repo, images>>
      BY <1>1, <1>3, RunsKeeps DEF keyVars
    <3> QED BY <1>1, <3>1 DEF Files
  <2>3. ~crossed' => Paired'
    BY <1>1, <1>3, KeysKeptByRun DEF Runs
  <2>4. Exclusive' /\ Rested' /\ Progress' /\ Left' /\ InitIsComplete' /\ CleanRecovers'
    BY <1>1, <1>3, RunsLeaves
  <2>5. Building' /\ Built' /\ BuildIsFaithful'
    BY <1>1, <1>3, BuildingKeptByRun
  <2> QED BY <2>1, <2>2, <2>3, <2>4, <2>5 DEF IInv
<1>4. ASSUME NEW p \in Proc, NEW c \in Commands, Invoke(p, c) PROVE IInv'
  <2>1. Processes'
    BY <1>1, <1>4, InvokeKeeps
  <2>2. ~crossed' => Paired'
    <3>1. crossed => crossed'
      BY <1>4 DEF Invoke
    <3> QED BY <1>1, <1>4, <3>1, KeysKeptByInvoke
  <2> QED BY <1>1, <1>4, <2>1, <2>2, InvokeLeaves DEF IInv
<1>5. CASE UNCHANGED vars
  <2>1. /\ UNCHANGED <<cmd, pc, seen, entropy, todo, config, dirs, mnemonic, addresses>>
        /\ UNCHANGED <<repo, bin, images, containers, past, last, crossed>>
    BY <1>5 DEF vars, procVars, fileVars, keyVars, codeVars
  <2>2. Processes'
    BY <1>1, <2>1 DEF Processes, Functions, Proper
  <2>3. Files' /\ OneContainer'
    BY <1>1, <2>1 DEF Files, OneContainer
  <2>4. ~crossed' => Paired'
    BY <1>1, <2>1 DEF Paired
  <2>5. Exclusive' /\ Rested'
    BY <1>1, <2>1 DEF Exclusive, Rested, Solo, Live
  <2>6. Progress'
    BY <1>1, <2>1 DEF Progress, Solo, Live, Initialized, Recovering, Clearing, Complete
  <2>7. Left' /\ Built' /\ InitIsComplete' /\ BuildIsFaithful' /\ CleanRecovers'
    BY <1>1, <2>1 DEF Left, Built, InitIsComplete, BuildIsFaithful, CleanRecovers, Ended
  <2>8. Building'
    BY <1>1, <2>1 DEF Building, Steady, Ready, Wanted
  <2> QED BY <2>2, <2>3, <2>4, <2>5, <2>6, <2>7, <2>8 DEF IInv
<1> QED BY <1>0, <1>2, <1>3, <1>4, <1>5, WhoMoves

-----------------------------------------------------------------------------
(* What the invariant says.                                                *)

\* Holds in every state that a history of commands, failures and kills can reach.
THEOREM SetupInvariant == Spec => []IInv
<1> QED BY InitHolds, NextKeeps, PTL DEF Spec

\* The processes, the files and the build container have their types; there is one
\* container at most, and a build that has one waits for it.
THEOREM SetupTypeCorrect == Spec => []TypeOK
<1>1. IInv => TypeOK
  <2>1. SUFFICES ASSUME IInv PROVE TypeOK
    OBVIOUS
  <2>2. Processes /\ Files /\ OneContainer
    BY <2>1 DEF IInv
  <2>3. Cardinality(containers) <= 1
    <3>1. CASE containers = {}
      BY <3>1, FS_EmptySet
    <3>2. CASE containers # {}
      <4>1. PICK c : containers = {c}
        BY <2>2, <3>2 DEF OneContainer
      <4>2. Cardinality({c}) = 1
        BY FS_Singleton
      <4> QED BY <4>1, <4>2
    <3> QED BY <3>1, <3>2
  <2>4. \A p \in Proc : Live(p) <=> cmd[p] # "none"
    BY <2>2, Where DEF Processes, Live
  <2>5. /\ cmd \in [Proc -> Commands \cup {"none"}]
        /\ seen \in [Proc -> Location \cup {None}]
        /\ entropy \in [Proc -> Entropy \cup {"static", None}]
        /\ todo \in [Proc -> SUBSET (Dirs \cup {"config"})]
    <3>1. \A p \in Proc :
            /\ cmd[p] \in Commands \cup {"none"} /\ seen[p] \in Location \cup {None}
            /\ entropy[p] \in Entropy \cup {"static", None}
            /\ todo[p] \in SUBSET (Dirs \cup {"config"})
      BY <2>2 DEF Processes, Proper
    <3> QED BY <2>2, <3>1 DEF Processes, Functions
  <2> QED BY <2>2, <2>3, <2>4, <2>5 DEF TypeOK, Processes, Functions, Files, OneContainer, At
<1> QED BY <1>1, SetupInvariant, PTL

\* commands/init/keys.rs: as long as no two inits have overlapped, the addresses and the
\* mnemonic are of the same entropy whenever both are whole.
THEOREM KeysAlwaysPaired == Spec => []KeysArePaired
<1>1. IInv => KeysArePaired
  BY DEF IInv, Paired, KeysArePaired
<1> QED BY <1>1, SetupInvariant, PTL

\* commands/init/mod.rs: an init that succeeds and that nothing overlapped is complete,
\* whatever the commands before it have left half done.
THEOREM InitAlwaysComplete == Spec => []InitIsComplete
<1>1. IInv => InitIsComplete
  BY DEF IInv
<1> QED BY <1>1, SetupInvariant, PTL

\* commands/build/: a build that succeeds, and under which nobody changed the repository,
\* has made its binaries from the ref it read, whatever else is running.
THEOREM BuildAlwaysFaithful == Spec => []BuildIsFaithful
<1>1. IInv => BuildIsFaithful
  BY DEF IInv
<1> QED BY <1>1, SetupInvariant, PTL

\* commands/clean/ and is_clean_for_init: after a clean that was alone an init is refused
\* for nothing but a torn configuration that the clean has preserved.
THEOREM CleanAlwaysRecovers == Spec => []CleanRecovers
<1>1. IInv => CleanRecovers
  BY DEF IInv
<1> QED BY <1>1, SetupInvariant, PTL
=============================================================================
