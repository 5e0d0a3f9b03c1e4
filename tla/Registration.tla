---------------------------- MODULE Registration ----------------------------
(***************************************************************************)
(* The steps "PDP Service Provider Registration" and "PDP Provider         *)
(* Endorsement": the providers register one after the other, the first     *)
(* ones are approved, the first of those endorsed, and all of it is read   *)
(* back from the chain.  Each transaction and each question to the chain   *)
(* is a container of its own that is run with a name and not removed:      *)
(* docker refuses a second one with that name.  A transaction whose        *)
(* command failed may have reached the chain.                              *)
(***************************************************************************)
EXTENDS Integers, Sequences, FiniteSets

CONSTANTS
  MaxSp,     \* MAX_PDP_SP_COUNT
  MaxTries,  \* DEFAULT_MAX_RETRIES
  MaxFaults  \* bound on the failures from outside

ASSUME RegistrationAssumption ==
  MaxSp \in Nat /\ MaxTries \in Nat \ {0} /\ MaxFaults \in Nat

VARIABLES
  cfg,         \* how many providers are active, approved, endorsed
  stage, sp,   \* what is being done, and for which provider
  tries,       \* attempts the check at hand has made
  registry,    \* on chain: the providers in the order of their ids
  approved,    \* on chain: the ids of the approved list
  endorsed,    \* on chain: the ids of the endorsed list, in its order
  reverted,    \* whether the last endorsement was mined and reverted
  isApproved, providerId, isEndorsed,  \* context: pdp_sp_<n>_...
  known,       \* the ids registration has collected and not yet stored
  idFile,      \* the provider id files
  errors,      \* providers with an error
  names,       \* containers that exist
  left,        \* those an earlier run has left
  faults       \* failures from outside so far

chainVars == <<registry, approved, endorsed, reverted>>
contextVars == <<isApproved, providerId, isEndorsed, idFile>>
fixedVars == <<cfg, left>>
loopVars == <<known, errors>>
dockerVars == <<names, faults>>
vars == <<fixedVars, stage, sp, chainVars, contextVars, tries, loopVars, dockerVars>>

Sp == 1..MaxSp
Active == 1..cfg.active

\* Config::validate.
Configs ==
  {c \in [active : 0..MaxSp, approved : 0..MaxSp, endorsed : 0..MaxSp] :
     c.endorsed <= c.approved /\ c.approved <= c.active}

\* The number of its place in the registry; 0 is no provider.
IdOf(p) == IF \E i \in DOMAIN registry : registry[i] = p
           THEN CHOOSE i \in DOMAIN registry : registry[i] = p
           ELSE 0

\* Mutant: the name says nothing of the provider.
MutHelper(kind, n) == <<kind, 0>>

\* Containers are named for what they do and for a provider, its id or address.
Helper(kind, n) == <<kind, n>>

\* The two kinds whose names do not say which run they belong to.
Foreign == {Helper("receipt", 1), Helper("list", 0)}

Init ==
  /\ cfg \in Configs
  /\ stage = "register" /\ sp = 1
  /\ tries = 0
  /\ registry = <<>> /\ approved = {} /\ endorsed = <<>> /\ reverted = FALSE
  /\ isApproved = [p \in Sp |-> "unset"]
  /\ providerId = [p \in Sp |-> 0]
  /\ isEndorsed = [p \in Sp |-> FALSE]
  /\ idFile = [p \in Sp |-> 0]
  /\ known = [p \in Sp |-> 0]
  /\ errors = {}
  /\ left \in SUBSET Foreign    \* by a stop that failed
  /\ names = left
  /\ faults = 0

-----------------------------------------------------------------------------
(* docker run --name, and moving on.                                       *)

Works(h) == h \notin names /\ names' = names \cup {h} /\ UNCHANGED faults

\* The name is taken, or something outside the program fails; the container may
\* have been made.
Fails(h) ==
  \/ h \in names /\ UNCHANGED <<names, faults>>
  \/ /\ h \notin names /\ faults < MaxFaults
     /\ faults' = faults + 1
     /\ names' \in {names, names \cup {h}}

\* Whether a transaction may have been sent by a command that failed.
Sent(h) == IF h \in names THEN {FALSE} ELSE BOOLEAN

Goto(next) == stage' = next /\ UNCHANGED sp
From(next) == stage' = next /\ sp' = 1
Skip == stage' = stage /\ sp' = sp + 1
Again(next) == stage' = next /\ sp' = sp + 1

-----------------------------------------------------------------------------
(* execute of the registration: errors are collected, the loop goes on.    *)

Registers ==
  /\ stage = "register" /\ sp \in Active
  /\ Works(Helper("register", sp))
  /\ registry' = Append(registry, sp)
  /\ Goto("query")
  /\ UNCHANGED <<fixedVars, approved, endorsed, reverted, contextVars, tries, loopVars>>

RegistrationFails ==
  /\ stage = "register" /\ sp \in Active
  /\ Fails(Helper("register", sp))
  /\ \E sent \in Sent(Helper("register", sp)) :
       registry' = IF sent THEN Append(registry, sp) ELSE registry
  /\ errors' = errors \cup {sp}
  /\ Skip
  /\ UNCHANGED <<fixedVars, approved, endorsed, reverted, contextVars, tries, known>>

\* Mutant: one provider too few is approved.
MutShouldApprove(p) == p < cfg.approved
ShouldApprove(p) == p <= cfg.approved

\* The provider's id, and is_approved before the approval is sent.
Queries ==
  /\ stage = "query"
  /\ Works(Helper("query", sp))
  /\ isApproved' = [isApproved EXCEPT ![sp] = IF ShouldApprove(sp) THEN "true" ELSE "false"]
  /\ known' = [known EXCEPT ![sp] = IdOf(sp)]
  /\ IF ShouldApprove(sp) THEN Goto("approve") ELSE Again("register")
  /\ UNCHANGED <<fixedVars, chainVars, providerId, isEndorsed, idFile, tries, errors>>

QueryFails ==
  /\ stage = "query"
  /\ Fails(Helper("query", sp))
  /\ errors' = errors \cup {sp}
  /\ Again("register")
  /\ UNCHANGED <<fixedVars, chainVars, contextVars, tries, known>>

Approves ==
  /\ stage = "approve"
  /\ Works(Helper("approve", known[sp]))
  /\ approved' = approved \cup {known[sp]}
  /\ Again("register")
  /\ UNCHANGED <<fixedVars, registry, endorsed, reverted, contextVars, tries, loopVars>>

\* Mutant: the error of an approval is logged and not kept.
MutApprovalFails ==
  /\ stage = "approve"
  /\ Fails(Helper("approve", known[sp]))
  /\ Again("register")
  /\ UNCHANGED <<fixedVars, chainVars, contextVars, tries, loopVars>>

ApprovalFails ==
  /\ stage = "approve"
  /\ Fails(Helper("approve", known[sp]))
  /\ \E sent \in Sent(Helper("approve", known[sp])) :
       approved' = IF sent THEN approved \cup {known[sp]} ELSE approved
  /\ errors' = errors \cup {sp}
  /\ known' = [known EXCEPT ![sp] = 0]
  /\ Again("register")
  /\ UNCHANGED <<fixedVars, registry, endorsed, reverted, contextVars, tries>>

\* One error and no id is stored, those of the other providers included.
AllRegistered ==
  /\ stage = "register" /\ sp \notin Active
  /\ From(IF errors = {} THEN "save" ELSE "failed")
  /\ UNCHANGED <<fixedVars, chainVars, contextVars, tries, loopVars, dockerVars>>

Saves ==
  /\ stage = "save" /\ sp \in Active
  /\ idFile' = [idFile EXCEPT ![sp] = known[sp]]
  /\ providerId' = [providerId EXCEPT ![sp] = known[sp]]
  /\ Skip
  /\ UNCHANGED <<fixedVars, chainVars, isApproved, isEndorsed, tries, loopVars, dockerVars>>

AllSaved ==
  /\ stage = "save" /\ sp \notin Active
  /\ From("verify_id")
  /\ UNCHANGED <<fixedVars, chainVars, contextVars, tries, loopVars, dockerVars>>

\* Lotus does not run, or a file cannot be read or written.
Breaks ==
  /\ stage \in {"register", "save", "verify_id", "ready", "endorse", "list"}
  /\ stage \in {"register", "endorse"} => sp = 1
  /\ faults < MaxFaults /\ faults' = faults + 1
  /\ Goto("failed")
  /\ UNCHANGED <<fixedVars, chainVars, contextVars, tries, loopVars, names>>

-----------------------------------------------------------------------------
(* post_execute of the registration: each check is retried, with the name  *)
(* of its first attempt.                                                   *)

Checks == {"verify_id", "verify_approved", "count"}
Subject == CASE stage = "verify_id" -> sp
             [] stage = "verify_approved" -> idFile[sp]
             [] OTHER -> 0

\* What the check compares with what it was told.
AnswerIsRight ==
  CASE stage = "verify_id" -> IdOf(sp) = idFile[sp]
    [] stage = "verify_approved" -> idFile[sp] \in approved
    [] OTHER -> Len(registry) = cfg.active

AfterId == IF sp < cfg.approved THEN Goto("verify_approved") ELSE Again("verify_id")

Answers ==
  /\ stage \in Checks /\ (stage = "verify_id" => sp \in Active)
  /\ Works(Helper(stage, Subject))
  /\ tries' = 0
  /\ IF ~AnswerIsRight THEN Goto("failed")
     ELSE CASE stage = "verify_id" -> AfterId
            [] stage = "verify_approved" -> Again("verify_id")
            [] OTHER -> From("ready")
  /\ UNCHANGED <<fixedVars, chainVars, contextVars, loopVars>>

\* Mutant: one attempt too many.
MutGivesUp(n) == n > MaxTries
GivesUp(n) == n = MaxTries

\* retry_with_fixed_delay.
NoAnswer ==
  /\ stage \in Checks /\ (stage = "verify_id" => sp \in Active)
  /\ Fails(Helper(stage, Subject))
  /\ tries' = tries + 1
  /\ Goto(IF GivesUp(tries') THEN "failed" ELSE stage)
  /\ UNCHANGED <<fixedVars, chainVars, contextVars, loopVars>>

AllVerified ==
  /\ stage = "verify_id" /\ sp \notin Active
  /\ From("count")
  /\ UNCHANGED <<fixedVars, chainVars, contextVars, tries, loopVars, dockerVars>>

-----------------------------------------------------------------------------
(* The endorsement.                                                        *)

\* pre_execute goes by what the context says of the approval.
MayEndorse == \A p \in 1..cfg.endorsed : providerId[p] # 0 /\ isApproved[p] = "true"

PreEndorses ==
  /\ stage = "ready"
  /\ From(IF ~MayEndorse THEN "failed" ELSE IF cfg.endorsed = 0 THEN "ok" ELSE "endorse")
  /\ UNCHANGED <<fixedVars, chainVars, contextVars, tries, loopVars, dockerVars>>

\* Mined, and reverted or not: the receipt says which.
Endorses ==
  /\ stage = "endorse" /\ sp <= cfg.endorsed
  /\ LET h == Helper("endorse", providerId[sp])
     IN  /\ h \notin names /\ names' = names \cup {h}
         /\ \/ /\ endorsed' = Append(endorsed, providerId[sp])
               /\ reverted' = FALSE /\ UNCHANGED faults
            \/ /\ faults < MaxFaults /\ faults' = faults + 1
               /\ reverted' = TRUE /\ UNCHANGED endorsed
  /\ Goto("receipt")
  /\ UNCHANGED <<fixedVars, registry, approved, contextVars, tries, loopVars>>

EndorsementFails ==
  /\ stage = "endorse" /\ sp <= cfg.endorsed
  /\ LET h == Helper("endorse", providerId[sp])
     IN  /\ Fails(h)
         /\ \E sent \in Sent(h) :
              endorsed' = IF sent THEN Append(endorsed, providerId[sp]) ELSE endorsed
  /\ Goto("failed")
  /\ UNCHANGED <<fixedVars, registry, approved, reverted, contextVars, tries, loopVars>>

Receipt ==
  /\ stage = "receipt"
  /\ Works(Helper("receipt", providerId[sp]))
  /\ IF reverted THEN Goto("failed") ELSE Again("endorse")
  /\ UNCHANGED <<fixedVars, chainVars, contextVars, tries, loopVars>>

NoReceipt ==
  /\ stage = "receipt"
  /\ Fails(Helper("receipt", providerId[sp]))
  /\ Goto("failed")
  /\ UNCHANGED <<fixedVars, chainVars, contextVars, tries, loopVars>>

AllEndorsed ==
  /\ stage = "endorse" /\ sp > cfg.endorsed
  /\ From("list")
  /\ UNCHANGED <<fixedVars, chainVars, contextVars, tries, loopVars, dockerVars>>

Agrees(p) == p <= Len(endorsed) /\ endorsed[p] = providerId[p]

\* post_execute compares the list place by place with the order of the providers.
Lists ==
  /\ stage = "list"
  /\ Works(Helper("list", 0))
  /\ isEndorsed' = [p \in Sp |-> /\ p <= cfg.endorsed /\ cfg.endorsed <= Len(endorsed)
                                /\ \A q \in 1..p : Agrees(q)]
  /\ Goto(IF \A p \in 1..cfg.endorsed : Agrees(p) THEN "ok" ELSE "failed")
  /\ UNCHANGED <<fixedVars, chainVars, isApproved, providerId, idFile, tries, loopVars>>

NoList ==
  /\ stage = "list"
  /\ Fails(Helper("list", 0))
  /\ Goto("failed")
  /\ UNCHANGED <<fixedVars, chainVars, contextVars, tries, loopVars>>

Next ==
  \/ Registers \/ RegistrationFails \/ Queries \/ QueryFails \/ Approves \/ ApprovalFails
  \/ AllRegistered \/ Saves \/ AllSaved
  \/ Answers \/ NoAnswer \/ AllVerified
  \/ PreEndorses \/ Endorses \/ EndorsementFails \/ Receipt \/ NoReceipt \/ AllEndorsed
  \/ Lists \/ NoList \/ Breaks

Spec == Init /\ [][Next]_vars

-----------------------------------------------------------------------------
TypeOK ==
  /\ cfg \in Configs
  /\ stage \in Checks \cup { "register", "query", "approve", "save", "ready", "endorse",
                             "receipt", "list", "ok", "failed" }
  /\ sp \in 1..(MaxSp + 1)
  /\ tries \in 0..MaxTries
  /\ registry \in Seq(Sp) /\ Len(registry) <= MaxSp
  /\ approved \subseteq 1..Len(registry)
  /\ endorsed \in Seq(1..MaxSp)
  /\ reverted \in BOOLEAN
  /\ isApproved \in [Sp -> {"unset", "true", "false"}]
  /\ {providerId, idFile, known} \subseteq [Sp -> 0..MaxSp]
  /\ isEndorsed \in [Sp -> BOOLEAN]
  /\ errors \subseteq Sp
  /\ left \subseteq names
  /\ faults \in 0..MaxFaults

\* When both steps succeeded, context, files and chain say the same of every
\* provider: its id, whether it is approved, whether it is endorsed.  The flags
\* are set before the transactions and in the face of late ones.
SuccessMatchesChain ==
  stage = "ok" =>
    /\ \A p \in Active :
         /\ providerId[p] = IdOf(p) /\ idFile[p] = IdOf(p) /\ IdOf(p) # 0
         /\ isApproved[p] = (IF IdOf(p) \in approved THEN "true" ELSE "false")
         /\ isEndorsed[p] <=> \E i \in DOMAIN endorsed : endorsed[i] = IdOf(p)
    /\ approved = {IdOf(p) : p \in 1..cfg.approved}
    /\ Len(endorsed) = cfg.endorsed

\* No provider is ever endorsed on chain that is not approved there, although the
\* endorsement asks the context and the context is ahead of the chain.
EndorsedAreApproved == \A i \in DOMAIN endorsed : endorsed[i] \in approved

\* The steps fail for no reason of their own: without a failure from outside, and
\* without a container an earlier run has left, no name is taken, the ids come in
\* the order that is expected and every check passes.
FailureHasACause ==
  stage = "failed" => faults > 0 \/ left # {}
=============================================================================
