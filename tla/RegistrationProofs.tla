------------------------- MODULE RegistrationProofs -------------------------
(***************************************************************************)
(* For every number of providers, attempts and failures: a registration    *)
(* and endorsement that succeeded agree with the chain, what is endorsed   *)
(* is approved, and a step that fails was given a reason.                  *)
(***************************************************************************)
EXTENDS Registration, TLAPS

\* The types, the numbers apart from the rest.
Numbers ==
  /\ cfg.active \in Nat /\ cfg.approved \in Nat /\ cfg.endorsed \in Nat
  /\ cfg.endorsed <= cfg.approved /\ cfg.approved <= cfg.active /\ cfg.active <= MaxSp
  /\ sp \in Nat /\ 1 <= sp /\ sp <= MaxSp + 1
  /\ tries \in Nat /\ tries <= MaxTries
  /\ faults \in Nat /\ faults <= MaxFaults

Shapes ==
  /\ cfg \in Configs
  /\ stage \in Checks \cup { "register", "query", "approve", "save", "ready", "endorse",
                             "receipt", "list", "ok", "failed" }
  /\ registry \in Seq(Sp) /\ endorsed \in Seq(Sp)
  /\ Len(registry) <= MaxSp /\ approved \subseteq 1..Len(registry)
  /\ reverted \in BOOLEAN
  /\ isApproved \in [Sp -> {"unset", "true", "false"}]
  /\ providerId \in [Sp -> 0..MaxSp] /\ idFile \in [Sp -> 0..MaxSp]
  /\ known \in [Sp -> 0..MaxSp]
  /\ isEndorsed \in [Sp -> BOOLEAN]
  /\ errors \subseteq Sp
  /\ left \subseteq names

\* How far each stage counts.
Registering == {"register", "query", "approve"}
Endorsing == {"endorse", "receipt"}
Verifying == {"verify_id", "verify_approved"}

Counted ==
  /\ stage \in {"register", "save", "verify_id"} => sp <= cfg.active + 1
  /\ stage \in {"query", "approve"} => sp <= cfg.active
  /\ stage = "verify_approved" => sp <= cfg.approved
  /\ stage = "endorse" => sp <= cfg.endorsed + 1
  /\ stage = "receipt" => sp <= cfg.endorsed
  /\ stage \in Checks => tries < MaxTries
  /\ stage \notin Checks \cup {"failed"} => tries = 0

\* The ids are places in the registry, which has no more of them than providers were
\* gone through.
Registered ==
  /\ stage = "register" => Len(registry) < sp
  /\ stage \in {"query", "approve"} =>
       Len(registry) <= sp /\ \E i \in 1..Len(registry) : registry[i] = sp
  /\ stage = "approve" => known[sp] \in 1..Len(registry)

\* Without an error the ids come in the order of the providers.
Numbered(n) == Len(registry) = n /\ \A i \in 1..n : registry[i] = i
Listed(n) == Len(endorsed) = n /\ \A i \in 1..n : endorsed[i] = i
Flag(p) == IF p <= cfg.approved THEN "true" ELSE "false"

InOrder ==
  errors = {} =>
    /\ stage = "register" => Numbered(sp - 1)
    /\ stage \in {"query", "approve"} => Numbered(sp)
    /\ stage \in Registering =>
         /\ \A p \in Active : p < sp => known[p] = p /\ isApproved[p] = Flag(p)
         /\ approved = {p \in 1..cfg.approved : p < sp}
    /\ stage = "approve" =>
         known[sp] = sp /\ isApproved[sp] = Flag(sp) /\ sp <= cfg.approved

\* What the stages after the registration find.
Later == stage \notin Registering \cup {"failed"}

Stored ==
  Later =>
    /\ Numbered(cfg.active) /\ approved = 1..cfg.approved
    /\ \A p \in Active :
         /\ isApproved[p] = Flag(p)
         /\ stage = "save" => known[p] = p
         /\ (stage = "save" => p < sp) => idFile[p] = p /\ providerId[p] = p

Endorsed ==
  /\ stage \notin Endorsing \cup {"list", "ok", "failed"} => Listed(0)
  /\ stage = "endorse" => Listed(sp - 1)
  /\ stage = "receipt" => IF reverted THEN faults > 0 ELSE Listed(sp)
  /\ stage \in {"list", "ok"} => Listed(cfg.endorsed)
  /\ stage \notin {"ok", "failed"} => \A p \in Sp : ~isEndorsed[p]
  /\ stage = "ok" => \A p \in Sp : isEndorsed[p] <=> p <= cfg.endorsed

\* While nothing was left behind and nothing has gone wrong outside, each name is for
\* a provider whose turn is yet to come.
Below(ns, kind, n) == \A p \in 0..MaxSp : Helper(kind, p) \in ns => p < n

Unused ==
  faults = 0 /\ left = {} =>
    /\ stage # "failed" /\ errors = {} /\ tries = 0
    /\ stage = "register" => Below(names, "register", sp)
    /\ stage \in {"query", "approve"} => Below(names, "register", sp + 1)
    /\ stage \in {"register", "query"} => Below(names, "query", sp)
    /\ stage = "approve" => Below(names, "query", sp + 1)
    /\ stage \in Registering => Below(names, "approve", sp)
    /\ stage \in Registering \cup {"save"} =>
         Below(names, "verify_id", 0) /\ Below(names, "verify_approved", 0)
    /\ stage = "verify_id" => Below(names, "verify_id", sp)
    /\ stage = "verify_approved" => Below(names, "verify_id", sp + 1)
    /\ stage \in Verifying => Below(names, "verify_approved", sp)
    /\ stage \in Registering \cup {"save"} \cup Checks => Below(names, "count", 0)
    /\ stage \notin Endorsing \cup {"list", "ok"} =>
         Below(names, "endorse", 0) /\ Below(names, "receipt", 0)
    /\ stage = "endorse" => Below(names, "endorse", sp)
    /\ stage = "receipt" => Below(names, "endorse", sp + 1)
    /\ stage \in Endorsing => Below(names, "receipt", sp)
    /\ stage # "ok" => Below(names, "list", 0)

IInv ==
  /\ Numbers /\ Shapes
  /\ Counted /\ Registered /\ InOrder /\ Stored /\ Endorsed /\ Unused
  /\ EndorsedAreApproved

\* The two parts of the type invariant are all of it.
LEMMA TypeParts == Numbers /\ Shapes => TypeOK
<1> SUFFICES ASSUME Numbers, Shapes PROVE TypeOK
  OBVIOUS
<1>1. sp \in 1..(MaxSp + 1) /\ tries \in 0..MaxTries /\ faults \in 0..MaxFaults
  BY RegistrationAssumption DEF Numbers
<1>2. endorsed \in Seq(1..MaxSp)
  BY DEF Shapes, Sp
<1> QED BY <1>1, <1>2 DEF Shapes, TypeOK

\* A provider that is in the registry has a place there, and that is its id.
LEMMA IdIsPlace ==
  ASSUME registry \in Seq(Sp), NEW p, \E i \in 1..Len(registry) : registry[i] = p
  PROVE  IdOf(p) \in 1..Len(registry) /\ registry[IdOf(p)] = p
<1>1. DOMAIN registry = 1..Len(registry)
  OBVIOUS
<1> QED BY <1>1 DEF IdOf

\* In an orderly registry each provider has its own number for an id.
LEMMA IdInOrder ==
  ASSUME registry \in Seq(Sp), NEW n \in Nat, Numbered(n), NEW p \in 1..n
  PROVE  IdOf(p) = p
<1>1. IdOf(p) \in 1..Len(registry) /\ registry[IdOf(p)] = p
  BY IdIsPlace DEF Numbered
<1> QED BY <1>1 DEF Numbered

\* A sequence with one more element at its end.
LEMMA Appended ==
  ASSUME NEW S, NEW q \in Seq(S), NEW e \in S
  PROVE  /\ Append(q, e) \in Seq(S) /\ Len(q) \in Nat /\ Len(Append(q, e)) = Len(q) + 1
         /\ \A i \in 1..Len(q) : Append(q, e)[i] = q[i]
         /\ Append(q, e)[Len(q) + 1] = e
OBVIOUS

\* A command that works has taken its name, and left all others as they were.
LEMMA WorksFacts ==
  ASSUME NEW kind, NEW m \in 0..MaxSp, Works(Helper(kind, m))
  PROVE  /\ faults' = faults /\ names \subseteq names'
         /\ \A k : \A b \in Nat : k # kind /\ Below(names, k, b) => Below(names', k, b)
         /\ \A b \in Nat : m < b /\ Below(names, kind, b) => Below(names', kind, b)
BY DEF Works, Below, Helper

\* A bound on the names that are taken can be put higher.
LEMMA BelowWeaker ==
  ASSUME NEW ns, NEW k, NEW b \in Nat, NEW c \in Nat, b <= c, Below(ns, k, b)
  PROVE  Below(ns, k, c)
BY RegistrationAssumption DEF Below

\* A command fails because its name is taken, or for a reason from outside.
LEMMA FailsFacts ==
  ASSUME Numbers, NEW h, Fails(h)
  PROVE  /\ faults' \in Nat /\ faults' <= MaxFaults /\ names \subseteq names'
         /\ faults' = 0 => faults = 0 /\ h \in names /\ names' = names
BY RegistrationAssumption DEF Numbers, Fails

\* A registration that begins, whatever an earlier run has left.
LEMMA InitIInv == Init => IInv
<1> SUFFICES ASSUME Init PROVE IInv
  OBVIOUS
<1>1. Numbers
  BY RegistrationAssumption DEF Numbers, Init, Configs
<1>2. Shapes
  <2>1. 0 \in 0..MaxSp
    BY RegistrationAssumption
  <2>2. <<>> \in Seq(Sp) /\ Len(<<>>) = 0
    OBVIOUS
  <2>3. /\ registry \in Seq(Sp) /\ endorsed \in Seq(Sp) /\ Len(registry) = 0
        /\ approved = {} /\ errors = {} /\ left \subseteq names /\ stage = "register"
        /\ reverted = FALSE /\ cfg \in Configs
    BY <2>2 DEF Init
  <2>4. /\ isApproved \in [Sp -> {"unset", "true", "false"}]
        /\ providerId \in [Sp -> 0..MaxSp] /\ idFile \in [Sp -> 0..MaxSp]
        /\ known \in [Sp -> 0..MaxSp] /\ isEndorsed \in [Sp -> BOOLEAN]
    BY <2>1 DEF Init
  <2>5. Len(registry) <= MaxSp /\ approved \subseteq 1..Len(registry)
    BY <2>3, RegistrationAssumption
  <2> QED BY <2>3, <2>4, <2>5 DEF Shapes
<1>3. Counted /\ Registered
  BY <1>1, RegistrationAssumption DEF Counted, Registered, Checks, Init, Numbers
<1>4. InOrder /\ Stored /\ Endorsed /\ EndorsedAreApproved
  BY <1>1 DEF InOrder, Stored, Later, Registering, Endorsed, Endorsing, Listed,
            EndorsedAreApproved, Numbered, Active, Init, Numbers
<1>5. Unused
  BY DEF Unused, Below, Init, Registering, Checks, Endorsing, Verifying
<1> QED BY <1>1, <1>2, <1>3, <1>4, <1>5 DEF IInv

\* Every step of the registration and of the endorsement.
LEMMA NextIInv ==
  ASSUME IInv, [Next]_vars
  PROVE  IInv'
<1>0. MaxSp \in Nat /\ MaxTries \in Nat /\ 0 < MaxTries /\ MaxFaults \in Nat
  BY RegistrationAssumption
<1> USE <1>0 DEF IInv, chainVars, contextVars, fixedVars, loopVars, dockerVars
<1>1. CASE Registers
  <2> USE <1>1 DEF Registers, Goto
  <2>1. sp \in Active /\ sp \in Sp /\ sp \in 0..MaxSp /\ sp <= cfg.active
    BY DEF Active, Sp, Numbers, Counted
  <2>2. /\ registry' \in Seq(Sp) /\ Len(registry) \in Nat /\ Len(registry') = Len(registry) + 1
        /\ \A i \in 1..Len(registry) : registry'[i] = registry[i]
        /\ registry'[Len(registry) + 1] = sp
    BY <2>1, Appended DEF Shapes
  <2>3. Numbers'
    BY <2>1, WorksFacts DEF Numbers
  <2>4. Shapes'
    <3>1. approved \subseteq 1..Len(registry') /\ Len(registry') <= MaxSp
      BY <2>1, <2>2 DEF Shapes, Registered, Numbers
    <3>2. left' \subseteq names'
      BY <2>1, WorksFacts DEF Shapes
    <3> QED BY <2>1, <2>2, <3>1, <3>2 DEF Shapes, Checks
  <2>5. Counted'
    BY DEF Counted, Checks, Numbers, Active
  <2>6. Registered'
    BY <2>1, <2>2 DEF Registered
  <2>7. InOrder'
    BY <2>1, <2>2 DEF InOrder, Registering, Active, Numbered, Flag, Numbers
  <2>8. Stored'
    BY DEF Stored, Later, Registering, Checks, Active, Numbered, Flag
  <2>9. Endorsed'
    BY DEF Endorsed, Endorsing, Checks, Listed
  <2>10. Unused'
    <3>1. sp + 1 \in Nat /\ (Below(names, "register", sp) => Below(names, "register", sp + 1))
      BY <2>1, BelowWeaker DEF Numbers
    <3>2. Below(names, "register", sp) => Below(names', "register", sp + 1)
      BY <2>1, <3>1, WorksFacts DEF Numbers
    <3> QED BY <2>1, <3>1, <3>2, WorksFacts DEF Unused, Registering, Endorsing, Verifying,
                                        Checks, Numbers
  <2>11. EndorsedAreApproved'
    BY <2>2 DEF EndorsedAreApproved
  <2> QED BY <2>3, <2>4, <2>5, <2>6, <2>7, <2>8, <2>9, <2>10, <2>11
<1>2. CASE RegistrationFails
  <2> USE <1>2 DEF RegistrationFails, Skip, Sent
  <2>1. sp \in Active /\ sp \in Sp /\ sp \in 0..MaxSp /\ sp <= cfg.active
    BY DEF Active, Sp, Numbers, Counted
  <2>2. /\ registry' \in Seq(Sp) /\ Len(registry) \in Nat
        /\ Len(registry) <= Len(registry') /\ Len(registry') <= Len(registry) + 1
    BY <2>1, Appended DEF Shapes
  <2>3. Numbers'
    BY <2>1, FailsFacts DEF Numbers
  <2>4. Shapes'
    <3>1. approved \subseteq 1..Len(registry') /\ Len(registry') <= MaxSp
      BY <2>1, <2>2 DEF Shapes, Registered, Numbers
    <3>2. errors' \subseteq Sp /\ left' \subseteq names'
      BY <2>1, FailsFacts DEF Shapes
    <3> QED BY <2>1, <2>2, <3>1, <3>2 DEF Shapes, Checks
  <2>5. Counted'
    BY <2>1 DEF Counted, Checks, Numbers
  <2>6. Registered'
    BY <2>1, <2>2 DEF Registered, Numbers
  <2>7. InOrder'
    BY DEF InOrder
  <2>8. Stored'
    BY DEF Stored, Later, Registering
  <2>9. Endorsed' /\ EndorsedAreApproved'
    BY DEF Endorsed, Endorsing, Checks, Listed, EndorsedAreApproved
  <2>10. Unused'
    <3>1. ~(faults = 0 /\ left = {} /\ Helper("register", sp) \in names)
      BY <2>1 DEF Unused, Below, Helper, Numbers, Counted
    <3>2. ~(faults' = 0 /\ left' = {})
      BY <3>1, FailsFacts
    <3> QED BY <3>2 DEF Unused
  <2> QED BY <2>3, <2>4, <2>5, <2>6, <2>7, <2>8, <2>9, <2>10
<1>3. CASE Queries
  <2> USE <1>3 DEF Queries, Goto, Again, ShouldApprove
  <2>1. sp \in Active /\ sp \in Sp /\ sp \in 0..MaxSp /\ sp <= cfg.active
    BY DEF Active, Sp, Numbers, Counted
  <2>2. IdOf(sp) \in 1..Len(registry) /\ IdOf(sp) \in 0..MaxSp /\ Len(registry) \in Nat
    <3>1. registry \in Seq(Sp) /\ Len(registry) <= MaxSp
      BY DEF Shapes
    <3>2. IdOf(sp) \in 1..Len(registry)
      BY <3>1, IdIsPlace DEF Registered
    <3> HIDE <1>3
    <3> QED BY <3>1, <3>2
  <2>3. /\ known' \in [Sp -> 0..MaxSp] /\ known'[sp] = IdOf(sp)
        /\ \A p \in Sp \ {sp} : known'[p] = known[p] /\ isApproved'[p] = isApproved[p]
        /\ isApproved' \in [Sp -> {"unset", "true", "false"}] /\ isApproved'[sp] = Flag(sp)
    BY <2>1, <2>2 DEF Shapes, Flag
  <2>4. Numbers'
    BY <2>1, WorksFacts DEF Numbers
  <2>5. Shapes'
    BY <2>1, <2>2, <2>3, WorksFacts DEF Shapes, Checks, Numbers
  <2>6. Counted'
    BY DEF Counted, Checks, Numbers, Active
  <2>7. Registered'
    BY <2>1, <2>2, <2>3 DEF Registered, Numbers
  <2>8. InOrder'
    <3>1. errors = {} => Numbered(sp) /\ IdOf(sp) = sp
      BY <2>1, IdInOrder DEF InOrder, Shapes, Numbers
    <3>2. Active \subseteq Sp
      BY <2>1 DEF Active, Sp, Numbers
    <3> QED BY <2>1, <2>3, <3>1, <3>2 DEF InOrder, Registering, Active, Numbered, Flag,
                                        Numbers
  <2>9. Stored'
    BY DEF Stored, Later, Registering
  <2>10. Endorsed' /\ EndorsedAreApproved'
    BY DEF Endorsed, Endorsing, Checks, Listed, EndorsedAreApproved
  <2>11. Unused'
    <3>1. sp + 1 \in Nat /\ (Below(names, "approve", sp) => Below(names, "approve", sp + 1))
      BY <2>1, BelowWeaker DEF Numbers
    <3>2. Below(names, "query", sp) => Below(names', "query", sp + 1)
      BY <2>1, <3>1, BelowWeaker, WorksFacts DEF Numbers
    <3>3. CASE ShouldApprove(sp)
      BY <2>1, <3>1, <3>2, <3>3, WorksFacts DEF Unused, Registering, Endorsing, Verifying,
                                        Checks, Numbers
    <3>4. CASE ~ShouldApprove(sp)
      BY <2>1, <3>1, <3>2, <3>4, WorksFacts DEF Unused, Registering, Endorsing, Verifying,
                                        Checks, Numbers
    <3> QED BY <3>3, <3>4
  <2> QED BY <2>4, <2>5, <2>6, <2>7, <2>8, <2>9, <2>10, <2>11
<1>4. CASE QueryFails
  <2> USE <1>4 DEF QueryFails, Again
  <2>1. sp \in Active /\ sp \in Sp /\ sp \in 0..MaxSp /\ sp <= cfg.active
    BY DEF Active, Sp, Numbers, Counted
  <2>2. Numbers'
    BY <2>1, FailsFacts DEF Numbers
  <2>3. Shapes'
    BY <2>1, FailsFacts DEF Shapes, Checks, Numbers
  <2>4. Counted'
    BY <2>1 DEF Counted, Checks, Numbers
  <2>5. Registered'
    BY <2>1 DEF Registered, Numbers, Shapes
  <2>6. InOrder'
    BY DEF InOrder
  <2>7. Stored'
    BY DEF Stored, Later, Registering
  <2>8. Endorsed' /\ EndorsedAreApproved'
    BY DEF Endorsed, Endorsing, Checks, Listed, EndorsedAreApproved
  <2>9. Unused'
    <3>1. ~(faults = 0 /\ left = {} /\ Helper("query", sp) \in names)
      BY <2>1 DEF Unused, Below, Helper, Numbers, Counted
    <3>2. ~(faults' = 0 /\ left' = {})
      BY <3>1, FailsFacts
    <3> QED BY <3>2 DEF Unused
  <2> QED BY <2>2, <2>3, <2>4, <2>5, <2>6, <2>7, <2>8, <2>9
<1>5. CASE Approves
  <2> USE <1>5 DEF Approves, Again
  <2>1. sp \in Active /\ sp \in Sp /\ sp \in 0..MaxSp /\ sp <= cfg.active
    BY DEF Active, Sp, Numbers, Counted
  <2>2. known[sp] \in 1..Len(registry) /\ known[sp] \in 0..MaxSp /\ Len(registry) \in Nat
    BY <2>1 DEF Registered, Shapes, Numbers
  <2>3. Numbers'
    BY <2>1, <2>2, WorksFacts DEF Numbers
  <2>4. Shapes'
    BY <2>1, <2>2, WorksFacts DEF Shapes, Checks
  <2>5. Counted'
    BY DEF Counted, Checks, Numbers, Active
  <2>6. Registered'
    BY <2>1 DEF Registered, Numbers, Shapes
  <2>7. InOrder'
    BY <2>1 DEF InOrder, Registering, Active, Numbered, Flag, Numbers
  <2>8. Stored'
    BY DEF Stored, Later, Registering
  <2>9. Endorsed' /\ EndorsedAreApproved'
    BY DEF Endorsed, Endorsing, Checks, Listed, EndorsedAreApproved
  <2>10. Unused'
    <3>1. errors = {} => known[sp] = sp
      BY DEF InOrder
    <3>2. sp + 1 \in Nat /\ (Below(names, "approve", sp) => Below(names, "approve", sp + 1))
      BY <2>1, BelowWeaker DEF Numbers
    <3>3. errors = {} /\ Below(names, "approve", sp) => Below(names', "approve", sp + 1)
      BY <2>1, <3>1, <3>2, WorksFacts DEF Numbers
    <3> QED BY <2>1, <2>2, <3>1, <3>2, <3>3, WorksFacts, BelowWeaker DEF Unused,
                                        Registering, Endorsing, Verifying, Checks, Numbers
  <2> QED BY <2>3, <2>4, <2>5, <2>6, <2>7, <2>8, <2>9, <2>10
<1>6. CASE ApprovalFails
  <2> USE <1>6 DEF ApprovalFails, Again, Sent
  <2>1. sp \in Active /\ sp \in Sp /\ sp \in 0..MaxSp /\ sp <= cfg.active
    BY DEF Active, Sp, Numbers, Counted
  <2>2. Numbers'
    BY <2>1, FailsFacts DEF Numbers
  <2>3. Shapes'
    <3>0. 0 \in 0..MaxSp /\ known \in [Sp -> 0..MaxSp]
      BY DEF Shapes
    <3>1. known' \in [Sp -> 0..MaxSp]
      BY <3>0
    <3>2. approved \subseteq approved' /\ approved' \subseteq 1..Len(registry)
      BY DEF Shapes, Registered
    <3> QED BY <2>1, <3>1, <3>2, FailsFacts DEF Shapes, Checks
  <2>4. Counted'
    BY <2>1 DEF Counted, Checks, Numbers
  <2>5. Registered'
    BY <2>1 DEF Registered, Numbers, Shapes
  <2>6. InOrder'
    BY DEF InOrder
  <2>7. Stored'
    BY DEF Stored, Later, Registering
  <2>8. Endorsed' /\ EndorsedAreApproved'
    BY DEF Endorsed, Endorsing, Checks, Listed, EndorsedAreApproved
  <2>9. Unused'
    <3>1. ~(faults = 0 /\ left = {} /\ Helper("approve", known[sp]) \in names)
      BY <2>1 DEF Unused, Below, Helper, Numbers, InOrder, Registering
    <3>2. ~(faults' = 0 /\ left' = {})
      BY <3>1, FailsFacts
    <3> QED BY <3>2 DEF Unused
  <2> QED BY <2>2, <2>3, <2>4, <2>5, <2>6, <2>7, <2>8, <2>9
<1>7. CASE AllRegistered
  <2> USE <1>7 DEF AllRegistered, From
  <2>1. Numbers'
    BY DEF Numbers, Counted, Active
  <2>2. Shapes'
    BY DEF Shapes, Checks, Active, Sp, Numbers
  <2>3. Counted'
    BY DEF Counted, Checks, Numbers, Active
  <2>4. Registered'
    BY DEF Registered, Checks, Numbers
  <2>5. InOrder'
    BY DEF InOrder, Registering, Checks, Active, Numbered, Flag, Numbers
  <2>6. Stored'
    <3>1. errors = {} => sp = cfg.active + 1
      BY DEF Active, Counted, Numbers
    <3>2. errors = {} => Numbered(cfg.active)
      BY <3>1 DEF InOrder, Registering, Numbers
    <3>4. errors = {} => approved = 1..cfg.approved
      <4>1. \A p \in 1..cfg.approved : p < cfg.active + 1
        BY DEF Numbers
      <4> QED BY <3>1, <4>1 DEF InOrder, Registering
    <3>3. errors = {} => \A p \in Active : known[p] = p /\ isApproved[p] = Flag(p)
      BY <3>1 DEF InOrder, Registering, Numbers, Active
    <3> QED BY <3>2, <3>3, <3>4 DEF Stored, Later, Registering, Active, Numbered, Flag,
                                    Numbers
  <2>7. Endorsed' /\ EndorsedAreApproved'
    BY DEF Endorsed, Endorsing, Checks, Listed, EndorsedAreApproved
  <2>8. Unused'
    BY DEF Unused, Below, Registering, Endorsing, Verifying, Checks, Helper, Numbers
  <2> QED BY <2>1, <2>2, <2>3, <2>4, <2>5, <2>6, <2>7, <2>8
<1>8. CASE Saves
  <2> USE <1>8 DEF Saves, Skip
  <2>1. sp \in Active /\ sp \in Sp /\ sp \in 0..MaxSp /\ sp <= cfg.active
    BY DEF Active, Sp, Numbers, Counted
  <2>2. /\ known[sp] = sp
        /\ idFile' \in [Sp -> 0..MaxSp] /\ providerId' \in [Sp -> 0..MaxSp]
        /\ idFile'[sp] = known[sp] /\ providerId'[sp] = known[sp]
        /\ \A p \in Sp \ {sp} : idFile'[p] = idFile[p] /\ providerId'[p] = providerId[p]
    BY <2>1 DEF Stored, Later, Registering, Shapes
  <2>3. Active \subseteq Sp
    BY DEF Active, Sp, Numbers
  <2>4. Numbers'
    BY DEF Numbers, Counted, Active
  <2>5. Shapes'
    BY <2>1, <2>2 DEF Shapes, Checks
  <2>6. Counted'
    BY DEF Counted, Checks, Numbers, Active
  <2>7. Registered' /\ InOrder'
    BY DEF Registered, InOrder, Registering, Checks
  <2>8. Stored'
    BY <2>1, <2>2, <2>3 DEF Stored, Later, Registering, Active, Numbered, Flag, Numbers
  <2>9. Endorsed' /\ EndorsedAreApproved'
    BY DEF Endorsed, Endorsing, Checks, Listed, EndorsedAreApproved
  <2>10. Unused'
    BY DEF Unused, Below, Registering, Endorsing, Verifying, Checks, Helper, Numbers
  <2> QED BY <2>4, <2>5, <2>6, <2>7, <2>8, <2>9, <2>10
<1>9. CASE AllSaved
  <2> USE <1>9 DEF AllSaved, From
  <2>1. Numbers'
    BY DEF Numbers, Counted, Active
  <2>2. Shapes'
    BY DEF Shapes, Checks, Active, Sp, Numbers
  <2>3. Counted'
    BY DEF Counted, Checks, Numbers, Active
  <2>4. Registered' /\ InOrder'
    BY DEF Registered, InOrder, Registering, Checks
  <2>5. Stored'
    <3>1. \A p \in Active : p < sp
      BY DEF Active, Counted, Numbers
    <3> QED BY <3>1 DEF Stored, Later, Registering, Active, Numbered, Flag
  <2>6. Endorsed' /\ EndorsedAreApproved'
    BY DEF Endorsed, Endorsing, Checks, Listed, EndorsedAreApproved
  <2>7. Unused'
    BY DEF Unused, Below, Registering, Endorsing, Verifying, Checks, Helper, Numbers
  <2> QED BY <2>1, <2>2, <2>3, <2>4, <2>5, <2>6, <2>7
<1>10. CASE Answers
  <2> USE <1>10 DEF Answers, Goto, From, Again, AfterId
  <2>1. /\ stage \in Verifying => sp \in Active /\ sp \in 0..MaxSp /\ idFile[sp] = sp
        /\ Subject \in 0..MaxSp
        /\ stage \in Verifying => Subject = sp
    BY DEF Subject, Checks, Verifying, Stored, Later, Registering, Counted, Active, Numbers
  <2>2. AnswerIsRight
    <3>1. stage = "verify_id" => IdOf(sp) = sp
      BY <2>1, IdInOrder DEF Verifying, Stored, Later, Registering, Shapes, Active, Numbers
    <3>2. stage = "verify_approved" => sp \in approved
      BY DEF Counted, Stored, Later, Registering, Numbers
    <3> QED BY <2>1, <3>1, <3>2 DEF AnswerIsRight, Checks, Verifying, Stored, Later,
                                    Registering, Numbered
  <2>3. Numbers'
    BY <2>1, <2>2, WorksFacts DEF Numbers, Counted, Active, Checks, Verifying
  <2>4. Shapes'
    BY <2>1, <2>2, WorksFacts DEF Shapes, Checks
  <2>5. Counted'
    BY <2>1, <2>2 DEF Counted, Checks, Numbers, Active
  <2>6. Registered' /\ InOrder'
    BY DEF Registered, InOrder, Registering, Checks
  <2>7. Stored'
    BY DEF Stored, Later, Registering, Checks, Active, Numbered, Flag
  <2>8. Endorsed' /\ EndorsedAreApproved'
    BY DEF Endorsed, Endorsing, Checks, Listed, EndorsedAreApproved
  <2>9. Unused'
    <3>1. CASE stage = "verify_id"
      <4>1. /\ sp + 1 \in Nat
            /\ Below(names, "verify_id", sp) => Below(names, "verify_id", sp + 1)
        BY <2>1, <3>1, BelowWeaker DEF Numbers, Verifying
      <4>2. Below(names, "verify_id", sp) => Below(names', "verify_id", sp + 1)
        BY <2>1, <3>1, <4>1, WorksFacts DEF Numbers, Verifying
      <4>3. Below(names, "verify_approved", sp) => Below(names', "verify_approved", sp + 1)
        BY <2>1, <3>1, <4>1, BelowWeaker, WorksFacts DEF Numbers, Verifying
      <4> QED BY <2>1, <2>2, <3>1, <4>1, <4>2, <4>3, WorksFacts DEF Unused, Registering,
                                        Endorsing, Verifying, Checks, Numbers
    <3>2. CASE stage = "verify_approved"
      <4>1. sp + 1 \in Nat
        BY DEF Numbers
      <4>2. Below(names, "verify_id", sp + 1) => Below(names', "verify_id", sp + 1)
        BY <2>1, <3>2, <4>1, WorksFacts
      <4>3. /\ Below(names, "verify_approved", sp) => Below(names, "verify_approved", sp + 1)
            /\ Below(names, "verify_approved", sp + 1) =>
                 Below(names', "verify_approved", sp + 1)
        BY <2>1, <3>2, <4>1, BelowWeaker, WorksFacts DEF Numbers, Verifying
      <4> QED BY <2>1, <2>2, <3>2, <4>1, <4>2, <4>3, WorksFacts DEF Unused, Registering,
                                        Endorsing, Verifying, Checks, Numbers
    <3>3. CASE stage = "count"
      BY <2>1, <2>2, <3>3, WorksFacts DEF Unused, Registering, Endorsing, Verifying, Checks,
                                        Numbers
    <3> QED BY <3>1, <3>2, <3>3 DEF Checks
  <2> QED BY <2>3, <2>4, <2>5, <2>6, <2>7, <2>8, <2>9
<1>11. CASE NoAnswer
  <2> USE <1>11 DEF NoAnswer, Goto, GivesUp
  <2>1. Numbers'
    BY FailsFacts DEF Numbers, Counted
  <2>2. Shapes'
    BY FailsFacts DEF Shapes, Checks
  <2>3. Counted'
    BY DEF Counted, Checks, Numbers, Active
  <2>4. Registered' /\ InOrder'
    BY DEF Registered, InOrder, Registering, Checks
  <2>5. Stored'
    BY DEF Stored, Later, Registering, Checks, Active, Numbered, Flag
  <2>6. Endorsed' /\ EndorsedAreApproved'
    BY DEF Endorsed, Endorsing, Checks, Listed, EndorsedAreApproved
  <2>7. Unused'
    <3>1. ~(faults = 0 /\ left = {} /\ Helper(stage, Subject) \in names)
      <4>1. stage \in Verifying =>
              sp \in 0..MaxSp /\ Subject = sp /\ ~(sp < sp)
        BY DEF Subject, Checks, Verifying, Stored, Later, Registering, Counted, Active,
               Numbers
      <4>2. stage = "count" => Subject = 0 /\ 0 \in 0..MaxSp
        BY DEF Subject
      <4> QED BY <4>1, <4>2 DEF Unused, Below, Verifying, Checks, Registering
    <3>2. ~(faults' = 0 /\ left' = {})
      BY <3>1, FailsFacts
    <3> QED BY <3>2 DEF Unused
  <2> QED BY <2>1, <2>2, <2>3, <2>4, <2>5, <2>6, <2>7
<1>12. CASE AllVerified
  <2> USE <1>12 DEF AllVerified, From
  <2>1. Numbers'
    BY DEF Numbers, Counted, Active
  <2>2. Shapes'
    BY DEF Shapes, Checks, Active, Sp, Numbers
  <2>3. Counted'
    BY DEF Counted, Checks, Numbers, Active
  <2>4. Registered' /\ InOrder'
    BY DEF Registered, InOrder, Registering, Checks
  <2>5. Stored'
    BY DEF Stored, Later, Registering, Checks, Active, Numbered, Flag
  <2>6. Endorsed' /\ EndorsedAreApproved'
    BY DEF Endorsed, Endorsing, Checks, Listed, EndorsedAreApproved
  <2>7. Unused'
    BY DEF Unused, Below, Registering, Endorsing, Verifying, Checks, Helper, Numbers
  <2> QED BY <2>1, <2>2, <2>3, <2>4, <2>5, <2>6, <2>7
<1>13. CASE PreEndorses
  <2> USE <1>13 DEF PreEndorses, From, MayEndorse
  <2>1. Numbers'
    BY DEF Numbers, Counted, Active
  <2>2. Shapes'
    BY DEF Shapes, Checks, Active, Sp, Numbers
  <2>3. Counted'
    BY DEF Counted, Checks, Numbers, Active
  <2>4. Registered' /\ InOrder'
    BY DEF Registered, InOrder, Registering, Checks
  <2>5. Stored'
    BY DEF Stored, Later, Registering, Checks, Active, Numbered, Flag
  <2>6. Endorsed'
    <3>1. \A p \in Sp : p \in Nat /\ 0 < p
      BY DEF Sp
    <3> QED BY <3>1 DEF Endorsed, Endorsing, Checks, Listed, Numbers
  <2>7. Unused'
    <3>1. \A p \in 1..cfg.endorsed : p \in Active /\ p <= cfg.approved /\ p # 0
      BY DEF Active, Numbers
    <3>2. MayEndorse
      BY <3>1 DEF Stored, Later, Registering, Flag
    <3>3. Below(names, "endorse", 0) /\ Below(names, "receipt", 0) =>
            Below(names, "endorse", 1) /\ Below(names, "receipt", 1)
      BY BelowWeaker
    <3> QED BY <3>2, <3>3 DEF Unused, Registering, Endorsing, Verifying, Checks, Numbers
  <2>8. EndorsedAreApproved'
    BY DEF EndorsedAreApproved
  <2> QED BY <2>1, <2>2, <2>3, <2>4, <2>5, <2>6, <2>7, <2>8
<1>14. CASE Endorses
  <2> USE <1>14 DEF Endorses, Goto
  <2>1. sp \in Active /\ sp \in Sp /\ sp \in 0..MaxSp /\ providerId[sp] = sp /\ sp \in approved
    BY DEF Active, Sp, Numbers, Stored, Later, Registering, Counted, Endorsing
  <2>2. /\ endorsed' \in Seq(Sp) /\ Len(endorsed) = sp - 1 /\ DOMAIN endorsed = 1..(sp - 1)
        /\ IF reverted' THEN endorsed' = endorsed
           ELSE /\ Len(endorsed') = sp /\ DOMAIN endorsed' = 1..sp /\ endorsed'[sp] = sp
                /\ \A i \in 1..(sp - 1) : endorsed'[i] = endorsed[i]
    <3>1. endorsed \in Seq(Sp) /\ Len(endorsed) = sp - 1
      BY DEF Shapes, Endorsed, Listed, Endorsing
    <3>2. \/ reverted' /\ endorsed' = endorsed
          \/ ~reverted' /\ endorsed' = Append(endorsed, sp)
      BY <2>1
    <3>3. Append(endorsed, sp) \in Seq(Sp) /\ Len(Append(endorsed, sp)) = sp
      BY <2>1, <3>1 DEF Numbers
    <3>4. /\ Append(endorsed, sp)[sp] = sp
          /\ \A i \in 1..(sp - 1) : Append(endorsed, sp)[i] = endorsed[i]
      BY <2>1, <3>1 DEF Numbers
    <3>5. DOMAIN endorsed = 1..(sp - 1) /\ DOMAIN Append(endorsed, sp) = 1..sp
      BY <3>1, <3>3
    <3> QED BY <3>1, <3>2, <3>3, <3>4, <3>5
  <2>3. /\ reverted' \in BOOLEAN /\ faults' \in Nat /\ faults' <= MaxFaults
        /\ reverted' => faults' > 0
        /\ ~reverted' => faults' = faults
    <3>1. \/ reverted' = FALSE /\ faults' = faults
          \/ reverted' = TRUE /\ faults < MaxFaults /\ faults' = faults + 1
      OBVIOUS
    <3>2. faults \in Nat /\ faults <= MaxFaults
      BY DEF Numbers
    <3> HIDE <1>14
    <3>3. CASE reverted' = FALSE /\ faults' = faults
      BY <3>2, <3>3
    <3>4. CASE reverted' = TRUE /\ faults < MaxFaults /\ faults' = faults + 1
      <4>1. faults' \in Nat /\ faults' <= MaxFaults /\ faults' > 0
        BY <3>2, <3>4
      <4> QED BY <3>4, <4>1, Zenon
    <3> QED BY <3>1, <3>3, <3>4
  <2>4. names' = names \cup {Helper("endorse", sp)}
    BY <2>1
  <2>5. Numbers'
    BY <2>3 DEF Numbers
  <2>6. Shapes'
    BY <2>1, <2>2, <2>3, <2>4 DEF Shapes, Checks
  <2>7. Counted'
    BY DEF Counted, Checks, Numbers, Active
  <2>8. Registered' /\ InOrder'
    BY DEF Registered, InOrder, Registering, Checks
  <2>9. Stored'
    BY DEF Stored, Later, Registering, Checks, Active, Numbered, Flag
  <2>10. Endorsed'
    BY <2>1, <2>2, <2>3 DEF Endorsed, Endorsing, Checks, Listed, Numbers
  <2>11. Unused'
    <3>1. faults' = 0 => faults = 0
      BY <2>3 DEF Numbers
    <3>3. \A k : \A b \in Nat : k # "endorse" /\ Below(names, k, b) => Below(names', k, b)
      BY <2>4 DEF Below, Helper
    <3>4. sp + 1 \in Nat /\ (Below(names, "endorse", sp) => Below(names', "endorse", sp + 1))
      <4>1. sp \in Nat
        BY DEF Numbers
      <4> QED BY <2>4, <4>1 DEF Below, Helper
    <3>5. names' = names \cup {Helper("endorse", sp)} /\ stage = "endorse" /\ stage' = "receipt"
          /\ UNCHANGED <<left, errors, tries, sp>>
      BY <2>4
    <3> HIDE <1>14
    <3> QED BY <3>1, <3>3, <3>4, <3>5 DEF Unused, Registering, Endorsing, Verifying, Checks,
                                        Numbers
  <2>12. EndorsedAreApproved'
    <3>1. ASSUME NEW i \in DOMAIN endorsed' PROVE endorsed'[i] \in approved
      BY <2>1, <2>2, <3>1 DEF EndorsedAreApproved, Numbers
    <3> QED BY <3>1 DEF EndorsedAreApproved
  <2> QED BY <2>5, <2>6, <2>7, <2>8, <2>9, <2>10, <2>11, <2>12
<1>15. CASE EndorsementFails
  <2> USE <1>15 DEF EndorsementFails, Goto, Sent
  <2>1. sp \in Active /\ sp \in Sp /\ sp \in 0..MaxSp /\ providerId[sp] = sp /\ sp \in approved
    BY DEF Active, Sp, Numbers, Stored, Later, Registering, Counted, Endorsing
  <2>2. /\ endorsed' \in Seq(Sp)
        /\ \A i \in DOMAIN endorsed' :
             \/ i \in DOMAIN endorsed /\ endorsed'[i] = endorsed[i]
             \/ endorsed'[i] = sp
    BY <2>1, Appended DEF Shapes
  <2>3. Numbers'
    BY <2>1, FailsFacts DEF Numbers
  <2>4. Shapes'
    BY <2>1, <2>2, FailsFacts DEF Shapes, Checks
  <2>5. Counted'
    BY DEF Counted, Checks, Numbers, Active
  <2>6. Registered' /\ InOrder'
    BY DEF Registered, InOrder, Registering, Checks
  <2>7. Stored'
    BY DEF Stored, Later, Registering, Checks, Active, Numbered, Flag
  <2>8. Endorsed'
    BY DEF Endorsed, Endorsing, Checks, Listed
  <2>9. Unused'
    <3>1. ~(faults = 0 /\ left = {} /\ Helper("endorse", providerId[sp]) \in names)
      BY <2>1 DEF Unused, Below, Helper, Numbers, Endorsing
    <3>2. ~(faults' = 0 /\ left' = {})
      BY <3>1, FailsFacts
    <3> QED BY <3>2 DEF Unused
  <2>10. EndorsedAreApproved'
    BY <2>1, <2>2 DEF EndorsedAreApproved
  <2> QED BY <2>3, <2>4, <2>5, <2>6, <2>7, <2>8, <2>9, <2>10
<1>16. CASE Receipt
  <2> USE <1>16 DEF Receipt, Goto, Again
  <2>1. sp \in Active /\ sp \in Sp /\ sp \in 0..MaxSp /\ providerId[sp] = sp /\ sp \in approved
    BY DEF Active, Sp, Numbers, Stored, Later, Registering, Counted, Endorsing
  <2>2. Numbers'
    BY <2>1, WorksFacts DEF Numbers, Counted
  <2>3. Shapes'
    BY <2>1, WorksFacts DEF Shapes, Checks
  <2>4. Counted'
    BY DEF Counted, Checks, Numbers, Active
  <2>5. Registered' /\ InOrder'
    BY DEF Registered, InOrder, Registering, Checks
  <2>6. Stored'
    BY DEF Stored, Later, Registering, Checks, Active, Numbered, Flag
  <2>7. Endorsed' /\ EndorsedAreApproved'
    BY DEF Endorsed, Endorsing, Checks, Listed, EndorsedAreApproved
  <2>8. Unused'
    <3>1. /\ sp + 1 \in Nat
          /\ Below(names, "endorse", sp + 1) => Below(names', "endorse", sp + 1)
      BY <2>1, WorksFacts DEF Numbers
    <3>2. Below(names, "receipt", sp) => Below(names', "receipt", sp + 1)
      BY <2>1, <3>1, BelowWeaker, WorksFacts DEF Numbers
    <3>3. faults = 0 => ~reverted
      BY DEF Endorsed, Endorsing, Numbers
    <3> QED BY <2>1, <3>1, <3>2, <3>3, WorksFacts DEF Unused, Registering, Endorsing,
                                        Verifying, Checks, Numbers
  <2> QED BY <2>2, <2>3, <2>4, <2>5, <2>6, <2>7, <2>8
<1>17. CASE NoReceipt
  <2> USE <1>17 DEF NoReceipt, Goto
  <2>1. sp \in Active /\ sp \in Sp /\ sp \in 0..MaxSp /\ providerId[sp] = sp /\ sp \in approved
    BY DEF Active, Sp, Numbers, Stored, Later, Registering, Counted, Endorsing
  <2>2. Numbers'
    BY <2>1, FailsFacts DEF Numbers
  <2>3. Shapes'
    BY <2>1, FailsFacts DEF Shapes, Checks
  <2>4. Counted'
    BY DEF Counted, Checks, Numbers, Active
  <2>5. Registered' /\ InOrder'
    BY DEF Registered, InOrder, Registering, Checks
  <2>6. Stored'
    BY DEF Stored, Later, Registering, Checks, Active, Numbered, Flag
  <2>7. Endorsed' /\ EndorsedAreApproved'
    BY DEF Endorsed, Endorsing, Checks, Listed, EndorsedAreApproved
  <2>8. Unused'
    <3>1. ~(faults = 0 /\ left = {} /\ Helper("receipt", providerId[sp]) \in names)
      BY <2>1 DEF Unused, Below, Helper, Numbers, Endorsing
    <3>2. ~(faults' = 0 /\ left' = {})
      BY <3>1, FailsFacts
    <3> QED BY <3>2 DEF Unused
  <2> QED BY <2>2, <2>3, <2>4, <2>5, <2>6, <2>7, <2>8
<1>18. CASE AllEndorsed
  <2> USE <1>18 DEF AllEndorsed, From
  <2>1. Numbers'
    BY DEF Numbers, Counted, Active
  <2>2. Shapes'
    BY DEF Shapes, Checks, Active, Sp, Numbers
  <2>3. Counted'
    BY DEF Counted, Checks, Numbers, Active
  <2>4. Registered' /\ InOrder'
    BY DEF Registered, InOrder, Registering, Checks
  <2>5. Stored'
    BY DEF Stored, Later, Registering, Checks, Active, Numbered, Flag
  <2>6. Endorsed'
    <3>1. sp - 1 = cfg.endorsed
      BY DEF Counted, Numbers
    <3> QED BY <3>1 DEF Endorsed, Endorsing, Checks, Listed
  <2>7. Unused'
    BY DEF Unused, Below, Registering, Endorsing, Verifying, Checks, Helper, Numbers
  <2>8. EndorsedAreApproved'
    BY DEF EndorsedAreApproved
  <2> QED BY <2>1, <2>2, <2>3, <2>4, <2>5, <2>6, <2>7, <2>8
<1>19. CASE Lists
  <2> USE <1>19 DEF Lists, Goto, Agrees
  <2>1. 0 \in 0..MaxSp
    OBVIOUS
  <2>2. /\ Listed(cfg.endorsed)
        /\ \A p \in 1..cfg.endorsed : Agrees(p)
    BY DEF Endorsed, Listed, Agrees, Stored, Later, Registering, Endorsing, Active, Numbers
  <2>3. isEndorsed' \in [Sp -> BOOLEAN]
    BY DEF Numbers
  <2>4. ASSUME NEW p \in Sp PROVE isEndorsed'[p] <=> p <= cfg.endorsed
    <3>1. p <= cfg.endorsed => \A q \in 1..p : Agrees(q)
      BY <2>2 DEF Sp, Numbers
    <3>2. isEndorsed'[p] = (/\ p <= cfg.endorsed /\ cfg.endorsed <= Len(endorsed)
                            /\ \A q \in 1..p : Agrees(q))
      OBVIOUS
    <3>3. cfg.endorsed <= Len(endorsed)
      BY <2>2 DEF Listed, Numbers
    <3> QED BY <3>1, <3>2, <3>3 DEF Numbers
  <2>5. Numbers'
    BY <2>1, WorksFacts DEF Numbers
  <2>6. Shapes'
    BY <2>1, <2>3, WorksFacts DEF Shapes, Checks
  <2>7. Counted'
    BY DEF Counted, Checks, Numbers, Active
  <2>8. Registered' /\ InOrder'
    BY DEF Registered, InOrder, Registering, Checks
  <2>9. Stored'
    BY DEF Stored, Later, Registering, Checks, Active, Numbered, Flag
  <2>10. Endorsed' /\ EndorsedAreApproved'
    BY <2>2, <2>4 DEF Endorsed, Endorsing, Checks, Listed, EndorsedAreApproved
  <2>11. Unused'
    BY <2>1, <2>2, WorksFacts DEF Unused, Registering, Endorsing, Verifying, Checks, Numbers
  <2> QED BY <2>5, <2>6, <2>7, <2>8, <2>9, <2>10, <2>11
<1>20. CASE NoList
  <2> USE <1>20 DEF NoList, Goto
  <2>1. Numbers'
    BY FailsFacts DEF Numbers
  <2>2. Shapes'
    BY FailsFacts DEF Shapes, Checks
  <2>3. Counted'
    BY DEF Counted, Checks, Numbers, Active
  <2>4. Registered' /\ InOrder'
    BY DEF Registered, InOrder, Registering, Checks
  <2>5. Stored'
    BY DEF Stored, Later, Registering, Checks, Active, Numbered, Flag
  <2>6. Endorsed' /\ EndorsedAreApproved'
    BY DEF Endorsed, Endorsing, Checks, Listed, EndorsedAreApproved
  <2>7. Unused'
    <3>1. ~(faults = 0 /\ left = {} /\ Helper("list", 0) \in names)
      BY DEF Unused, Below, Helper, Numbers, Endorsing
    <3>2. ~(faults' = 0 /\ left' = {})
      BY <3>1, FailsFacts
    <3> QED BY <3>2 DEF Unused
  <2> QED BY <2>1, <2>2, <2>3, <2>4, <2>5, <2>6, <2>7
<1>21. CASE Breaks
  <2> USE <1>21 DEF Breaks, Goto
  <2>1. Numbers'
    BY DEF Numbers, Counted, Active
  <2>2. Shapes'
    BY DEF Shapes, Checks, Active, Sp, Numbers
  <2>3. Counted'
    BY DEF Counted, Checks, Numbers, Active
  <2>4. Registered' /\ InOrder'
    BY DEF Registered, InOrder, Registering, Checks
  <2>5. Stored'
    BY DEF Stored, Later, Registering, Checks, Active, Numbered, Flag
  <2>6. Endorsed' /\ EndorsedAreApproved'
    BY DEF Endorsed, Endorsing, Checks, Listed, EndorsedAreApproved
  <2>7. Unused'
    BY DEF Unused, Below, Registering, Endorsing, Verifying, Checks, Helper, Numbers
  <2> QED BY <2>1, <2>2, <2>3, <2>4, <2>5, <2>6, <2>7
<1>22. CASE UNCHANGED vars
  <2> USE <1>22 DEF vars
  <2>1. Numbers' /\ Shapes' /\ Counted'
    BY DEF Numbers, Shapes, Counted
  <2>2. Registered' /\ InOrder'
    BY DEF Registered, InOrder, Numbered, Active, Flag
  <2>3. Stored' /\ Endorsed'
    BY DEF Stored, Numbered, Active, Flag, Later, Endorsed, Listed
  <2>4. Unused' /\ EndorsedAreApproved'
    BY DEF Unused, EndorsedAreApproved
  <2> QED BY <2>1, <2>2, <2>3, <2>4
<1> QED
  BY <1>1, <1>2, <1>3, <1>4, <1>5, <1>6, <1>7, <1>8, <1>9, <1>10, <1>11, <1>12, <1>13, <1>14,
     <1>15, <1>16, <1>17, <1>18, <1>19, <1>20, <1>21, <1>22 DEF Next

\* The inductive invariant holds of the specification.
LEMMA InvariantIInv == Spec => []IInv
BY InitIInv, NextIInv, PTL DEF Spec

-----------------------------------------------------------------------------
\* Every variable keeps its type: ids are places in the registry, no check is tried
\* more often than it may be, and no container that was left is gone.
THEOREM TypeCorrect == Spec => []TypeOK
<1>1. IInv => TypeOK
  BY TypeParts DEF IInv
<1> QED BY <1>1, InvariantIInv, PTL

\* Endorsement goes by the context, and the context by what registration was told;
\* still no provider is endorsed on chain that is not approved there.
THEOREM EndorsedOnlyApproved == Spec => []EndorsedAreApproved
<1>1. IInv => EndorsedAreApproved
  BY DEF IInv
<1> QED BY <1>1, InvariantIInv, PTL

\* Without a failure from outside and without a container an earlier run has left, the
\* two steps do not fail: no name is taken twice, the ids come as they are expected.
THEOREM FailureIsCaused == Spec => []FailureHasACause
<1>1. IInv => FailureHasACause
  BY DEF IInv, Unused, Numbers, FailureHasACause
<1> QED BY <1>1, InvariantIInv, PTL

\* What success says is true on chain: the context and the files have each provider's
\* own id, and exactly the first ones are approved and endorsed.
THEOREM SuccessIsTrue == Spec => []SuccessMatchesChain
<1>1. IInv => SuccessMatchesChain
  <2> SUFFICES ASSUME IInv, stage = "ok" PROVE SuccessMatchesChain
    BY DEF SuccessMatchesChain
  <2> USE DEF IInv
  <2>1. /\ Numbered(cfg.active) /\ approved = 1..cfg.approved
        /\ \A p \in Active : isApproved[p] = Flag(p) /\ idFile[p] = p /\ providerId[p] = p
    BY DEF Stored, Later, Registering
  <2>2. Listed(cfg.endorsed) /\ \A p \in Sp : isEndorsed[p] <=> p <= cfg.endorsed
    BY DEF Endorsed, Endorsing
  <2>3. ASSUME NEW p \in Active PROVE IdOf(p) = p /\ p \in Sp /\ p \in Nat /\ p # 0
    <3>1. p \in 1..cfg.active /\ cfg.active \in Nat /\ registry \in Seq(Sp)
      BY DEF Active, Numbers, Shapes
    <3>2. IdOf(p) = p
      BY <2>1, <3>1, IdInOrder
    <3> QED BY <3>1, <3>2, RegistrationAssumption DEF Sp, Numbers
  <2>4. \A p \in 1..cfg.approved : p \in Active
    BY DEF Active, Numbers
  <2>5. approved = {IdOf(p) : p \in 1..cfg.approved}
    BY <2>1, <2>3, <2>4
  <2>6. ASSUME NEW p \in Active
        PROVE  isApproved[p] = (IF IdOf(p) \in approved THEN "true" ELSE "false")
    <3>1. p \in approved <=> p <= cfg.approved
      BY <2>1 DEF Active, Numbers
    <3> QED BY <2>1, <2>3, <3>1 DEF Flag
  <2>7. ASSUME NEW p \in Active
        PROVE  isEndorsed[p] <=> \E i \in DOMAIN endorsed : endorsed[i] = IdOf(p)
    <3>1. DOMAIN endorsed = 1..cfg.endorsed /\ \A i \in 1..cfg.endorsed : endorsed[i] = i
      BY <2>2 DEF Listed, Shapes
    <3>2. p <= cfg.endorsed <=> p \in 1..cfg.endorsed
      BY DEF Active, Numbers
    <3> QED BY <2>2, <2>3, <3>1, <3>2
  <2> QED BY <2>1, <2>2, <2>3, <2>5, <2>6, <2>7 DEF SuccessMatchesChain, Listed
<1> QED BY <1>1, InvariantIInv, PTL
=============================================================================
