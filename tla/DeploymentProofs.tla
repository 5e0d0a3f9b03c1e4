---------------------------- MODULE DeploymentProofs ----------------------------
(***************************************************************************)
(* Proofs about Deployment, for any contracts, any number of starts and    *)
(* any number of failures.  The invariant relates four places where an     *)
(* address is kept - the chain, the script, deployments.json and the       *)
(* output - and the parser is a recursive function over the output: the    *)
(* proof goes through it line by line, by induction.                       *)
(***************************************************************************)
EXTENDS Deployment, SequenceTheorems, WellFoundedInduction, TLAPS

-----------------------------------------------------------------------------
(* The parser.                                                             *)

\* Induction over the naturals, for a set of them.
LEMMA Induction ==
  ASSUME NEW S, 0 \in S, \A n \in Nat : n \in S => n + 1 \in S
  PROVE  Nat \subseteq S
<1> SUFFICES ASSUME Nat \ S # {} PROVE FALSE
  OBVIOUS
<1> DEFINE R == {ss \in Nat \X Nat : ss[1] < ss[2]}
<1>1. IsWellFoundedOn(R, Nat)
  BY NatLessThanWellFounded, Zenon DEF OpToRel
<1>2. PICK m \in Nat \ S : \A y \in Nat \ S : ~(<<y, m>> \in R)
  <2> HIDE DEF R
  <2> QED BY <1>1, WFMin
<1>3. \A y \in Nat \ S : ~(y < m)
  BY <1>2
<1>4. m - 1 \in Nat /\ m - 1 \in S
  BY <1>3
<1>5. (m - 1) + 1 \in S
  BY <1>4
<1> QED BY <1>5

\* The parser before the first line.
Start == [inSummary |-> FALSE, addresses |-> [n \in {} |-> None]]

\* g is what the parser has after each of the first m lines.
Reads(g, output, m) ==
  g = [i \in 0..m |-> IF i = 0 THEN Start ELSE ParseLine(g[i - 1], output[i])]

\* There is such a function, so that the recursive one is it.
LEMMA ParserReads ==
  ASSUME NEW output
  PROVE  \A m \in Nat : \E g : Reads(g, output, m)
<1> DEFINE S == {m \in Nat : \E g : Reads(g, output, m)}
<1>1. 0 \in S
  <2> DEFINE g == [i \in 0..0 |-> Start]
  <2>1. Reads(g, output, 0)
    BY DEF Reads
  <2> QED BY <2>1
<1>2. ASSUME NEW m \in Nat, m \in S PROVE m + 1 \in S
  <2>1. PICK g : Reads(g, output, m)
    BY <1>2
  <2> DEFINE h == [i \in 0..(m + 1) |->
                     IF i = m + 1 THEN ParseLine(g[m], output[i]) ELSE g[i]]
  <2>2. ASSUME NEW i \in 0..(m + 1)
        PROVE  h[i] = IF i = 0 THEN Start ELSE ParseLine(h[i - 1], output[i])
    <3>1. CASE i = m + 1
      <4>1. i - 1 = m /\ i # 0 /\ m \in 0..(m + 1) /\ m # m + 1
        BY <3>1
      <4>2. h[i] = ParseLine(g[m], output[i]) /\ h[m] = g[m]
        BY <3>1, <4>1
      <4> HIDE DEF h
      <4> QED BY <4>1, <4>2
    <3>2. CASE i # m + 1
      <4>1. i \in 0..m /\ h[i] = g[i]
        BY <3>2
      <4>2. g[i] = IF i = 0 THEN Start ELSE ParseLine(g[i - 1], output[i])
        BY <2>1, <4>1 DEF Reads
      <4>3. i # 0 => i - 1 \in 0..(m + 1) /\ i - 1 # m + 1
        BY <3>2
      <4>4. i # 0 => h[i - 1] = g[i - 1]
        BY <4>3
      <4> HIDE DEF h
      <4> QED BY <4>1, <4>2, <4>4
    <3> QED BY <3>1, <3>2
  <2>3. h = [i \in 0..(m + 1) |-> h[i]]
    OBVIOUS
  <2>4. Reads(h, output, m + 1)
    <3> HIDE DEF h
    <3> QED BY <2>2, <2>3 DEF Reads
  <2> HIDE DEF h
  <2> QED BY <2>4
<1> HIDE DEF S
<1>3. Nat \subseteq S
  BY <1>1, <1>2, Induction
<1> QED BY <1>3 DEF S

\* What the parser returns is what it has after the last line.
LEMMA ParseReads ==
  ASSUME NEW output, Len(output) \in Nat
  PROVE  \E g : Reads(g, output, Len(output)) /\ Parse(output) = g[Len(output)].addresses
<1> DEFINE g == CHOOSE g : Reads(g, output, Len(output))
<1>1. Reads(g, output, Len(output))
  BY ParserReads
<1>2. Parse(output) = g[Len(output)].addresses
  BY DEF Parse, Reads, Start
<1> QED BY <1>1, <1>2

\* One line: it is taken or not, and opens or ends the summary.
LEMMA LineIsRead ==
  ASSUME NEW s, NEW l
  PROVE  LET t == ParseLine(s, l)
         IN  /\ t.inSummary <=> InSummary(l, s.inSummary)
             /\ ~Takes(l, s.inSummary) => t.addresses = s.addresses
             /\ Takes(l, s.inSummary) =>
                  /\ DOMAIN t.addresses = DOMAIN s.addresses \cup {l.name}
                  /\ t.addresses[l.name] = l.address
                  /\ \A n \in DOMAIN s.addresses \ {l.name} :
                       t.addresses[n] = s.addresses[n]
<1> DEFINE new == [n \in DOMAIN s.addresses \cup {l.name} |->
                     IF n = l.name THEN l.address ELSE s.addresses[n]]
           t == ParseLine(s, l)
<1>1. t.inSummary = InSummary(l, s.inSummary)
  BY Zenon DEF ParseLine
<1>2. t.addresses = IF Takes(l, s.inSummary) THEN new ELSE s.addresses
  BY Zenon DEF ParseLine
<1>3. /\ DOMAIN new = DOMAIN s.addresses \cup {l.name}
      /\ new[l.name] = l.address
      /\ \A n \in DOMAIN s.addresses \ {l.name} : new[n] = s.addresses[n]
  OBVIOUS
<1> HIDE DEF new, t
<1> QED BY <1>1, <1>2, <1>3, Zenon DEF t

-----------------------------------------------------------------------------
(* The inductive invariant.                                                *)

\* An address that is known is that contract on the chain, and what is on the chain is
\* known there.
LiveOn(addresses, deployed) ==
  /\ \A n \in Names : addresses[n] # None =>
       addresses[n] \in DOMAIN deployed /\ deployed[addresses[n]] = n
  /\ \A i \in DOMAIN deployed : addresses[deployed[i]] = i

\* What is on the chain, and who knows it, stage by stage.
OnChain ==
  /\ stage \in {"off", "clear", "clear_write"} => chain = <<>> /\ pre = Nowhere
  /\ stage = "predeploy" =>
       Len(chain) = at - 1 /\ \A i \in DOMAIN chain : chain[i] = Predeployed[i]
  /\ stage = "load" => Len(chain) = 0
  /\ stage = "script" => Len(chain) <= Len(Predeployed) + at - 1
  /\ stage \in {"predeploy", "load"} => LiveOn(pre, chain) /\ pre[Announced] = None
  /\ stage \in {"script", "parse", "ok"} => LiveOn(known, chain)
  /\ stage = "script" => \A j \in 1..(at - 1) : known[Contracts[j]] # None
  /\ stage \in {"parse", "ok"} => \A n \in Names : known[n] # None
  /\ \A i, j \in DOMAIN chain : chain[i] = chain[j] => i = j

\* deployments.json: torn while it is written and after a failure, without any address
\* of the devnet when the script begins.
OnDisk ==
  /\ cache = Torn => stage = "clear_write" \/ faults > 0
  /\ stage = "clear_write" => held \in Files /\ held.devnet = Nowhere
  /\ stage \in {"predeploy", "load"} =>
       cache = None \/ (cache \in Files /\ cache.devnet = Nowhere)
  /\ stage = "script" => cache = None \/ cache \in Files
  /\ stage = "failed" => cache = Torn

\* Lines of output.
Kinds == {"noise", "announced", "summary", "pair", "network"}
Lines == [kind : Kinds, name : Names \cup {"title", "usdfc"}, address : Nat \cup {None}]

\* The output: of the announced contract one line or none, before the summary.
Announcement == Line("announced", Announced, known[Announced])
Before(m) == \A i \in 1..m : lines[i].kind = "noise" \/ lines[i] = Announcement

\* A whole output of which m lines came before the summary.
Closed(m) ==
  /\ Len(lines) = m + Len(Contracts) + 3
  /\ Before(m) /\ \E i \in 1..m : lines[i] = Announcement
  /\ lines[m + 1] = Line("summary", "title", None)
  /\ \A j \in DOMAIN Contracts :
       LET n == Contracts[j]
       IN  lines[m + 1 + j] = Line(IF n = Announced THEN "noise" ELSE "pair", n, known[n])
  /\ lines[m + Len(Contracts) + 2].kind = "network"
  /\ lines[m + Len(Contracts) + 3].kind = "pair"

\* The output, stage by stage.
Output ==
  /\ lines \in Seq(Lines)
  /\ stage \in {"clear", "clear_write"} => lines = <<>>
  /\ stage \in {"predeploy", "load"} => \A i \in DOMAIN lines : lines[i].kind = "noise"
  /\ stage = "script" =>
       IF known[Announced] = None
       THEN \A i \in DOMAIN lines : lines[i].kind = "noise"
       ELSE Before(Len(lines)) /\ \E i \in DOMAIN lines : lines[i] = Announcement
  /\ stage = "parse" => \E m \in 0..Len(lines) : Closed(m)

\* All of it.
DeploymentInv == TypeOK /\ OnChain /\ OnDisk /\ Output /\ FailureHasACause

\* What is known of the constants.
LEMMA Sizes ==
  /\ Len(Contracts) \in Nat \ {0} /\ Len(Predeployed) \in Nat
  /\ DOMAIN Contracts = 1..Len(Contracts) /\ DOMAIN Predeployed = 1..Len(Predeployed)
  /\ \A j \in 1..Len(Contracts) : Contracts[j] \in Names
  /\ \A n \in Names : n \in STRING /\ \E j \in 1..Len(Contracts) : Contracts[j] = n
  /\ \A i \in 1..Len(Predeployed) : Predeployed[i] \in Names
  /\ Nowhere \in Addresses /\ \A n \in Names : Nowhere[n] = None
<1>1. Contracts \in Seq(STRING) /\ Predeployed \in Seq(Names) /\ Len(Contracts) > 0
  BY DeploymentAssumption
<1>2. /\ Len(Contracts) \in Nat \ {0} /\ Len(Predeployed) \in Nat
      /\ DOMAIN Contracts = 1..Len(Contracts) /\ DOMAIN Predeployed = 1..Len(Predeployed)
  BY <1>1
<1>3. \A j \in 1..Len(Contracts) : Contracts[j] \in Names /\ Contracts[j] \in STRING
  BY <1>1, <1>2 DEF Names
<1>4. \A n \in Names : n \in STRING /\ \E j \in 1..Len(Contracts) : Contracts[j] = n
  BY <1>2, <1>3 DEF Names
<1>5. \A i \in 1..Len(Predeployed) : Predeployed[i] \in Names
  BY <1>1, <1>2
<1>6. Nowhere \in Addresses /\ \A n \in Names : Nowhere[n] = None
  BY DEF Addresses, Nowhere
<1> QED BY <1>2, <1>3, <1>4, <1>5, <1>6

\* The parser of a whole output, after i lines: what it has are known addresses, of
\* the announced contract and of the pairs it has passed.
ReadUpTo(s, i, m) ==
  /\ s.inSummary <=> (m < i /\ i <= m + Len(Contracts) + 1)
  /\ DOMAIN s.addresses \subseteq Names
  /\ \A n \in DOMAIN s.addresses : s.addresses[n] = known[n]
  /\ \A k \in 1..m : k <= i /\ lines[k] = Announcement => Announced \in DOMAIN s.addresses
  /\ \A j \in DOMAIN Contracts :
       Contracts[j] # Announced /\ m + 1 + j <= i => Contracts[j] \in DOMAIN s.addresses

\* One more line of a whole output.
LEMMA ReadsOn ==
  ASSUME NEW m \in Nat, Closed(m), NEW i \in 0..(Len(lines) - 1), NEW s, ReadUpTo(s, i, m)
  PROVE  ReadUpTo(ParseLine(s, lines[i + 1]), i + 1, m)
<1> DEFINE l == lines[i + 1]
           t == ParseLine(s, l)
           K == Len(Contracts)
<1>1. /\ K \in Nat \ {0} /\ DOMAIN Contracts = 1..K /\ Announced \in Names
      /\ Len(lines) = m + K + 3 /\ i \in Nat
  BY Sizes, DeploymentAssumption DEF Closed
<1>2. /\ t.inSummary <=> InSummary(l, s.inSummary)
      /\ ~Takes(l, s.inSummary) => t.addresses = s.addresses
      /\ Takes(l, s.inSummary) =>
           /\ DOMAIN t.addresses = DOMAIN s.addresses \cup {l.name}
           /\ t.addresses[l.name] = l.address
           /\ \A n \in DOMAIN s.addresses \ {l.name} : t.addresses[n] = s.addresses[n]
  BY LineIsRead
<1> HIDE DEF t, K
<1>3. CASE i + 1 <= m
  <2>1. /\ i + 1 \in 1..m /\ ~s.inSummary
        /\ l.kind = "noise" \/ l = Announcement
    BY <1>1, <1>3 DEF Closed, Before, ReadUpTo, K
  <2>2. Takes(l, s.inSummary) <=> l.kind = "announced"
    BY <2>1 DEF Takes
  <2>3. l = Announcement =>
          l.kind = "announced" /\ l.name = Announced /\ l.address = known[Announced]
    BY DEF Announcement, Line
  <2>4. l.kind \in {"noise", "announced"} /\ ~InSummary(l, s.inSummary)
    BY <2>1, <2>3 DEF InSummary
  <2> HIDE DEF l
  <2>5. \A k \in 1..m : k <= i + 1 => k <= i \/ k = i + 1
    BY <1>1
  <2>6. ~t.inSummary /\ ~(m < i + 1)
    BY <1>1, <1>2, <1>3, <2>4
  <2>7. \A j \in DOMAIN Contracts : ~(m + 1 + j <= i + 1)
    BY <1>1, <1>3
  <2>8. CASE l.kind = "noise"
    <3>1. l # Announcement /\ t.addresses = s.addresses
      BY <1>2, <2>2, <2>3, <2>8
    <3> QED BY <2>5, <2>6, <2>7, <3>1 DEF ReadUpTo, l, t
  <2>9. CASE l = Announcement
    <3>1. /\ DOMAIN t.addresses = DOMAIN s.addresses \cup {Announced}
          /\ t.addresses[Announced] = known[Announced]
          /\ \A n \in DOMAIN s.addresses \ {Announced} : t.addresses[n] = s.addresses[n]
      BY <1>2, <2>2, <2>3, <2>9
    <3> QED BY <1>1, <2>6, <2>7, <3>1 DEF ReadUpTo, l, t
  <2> QED BY <2>1, <2>8, <2>9
<1>4. CASE i = m
  <2>1. l.kind = "summary" /\ ~s.inSummary
    <3>1. l = Line("summary", "title", None)
      BY <1>4 DEF Closed
    <3>2. ~s.inSummary
      BY <1>1, <1>4 DEF ReadUpTo, K
    <3> QED BY <3>1, <3>2 DEF Line
  <2>2. ~Takes(l, s.inSummary) /\ InSummary(l, s.inSummary)
    BY <2>1 DEF Takes, InSummary
  <2> HIDE DEF l
  <2>3. t.inSummary /\ t.addresses = s.addresses
    BY <1>2, <2>2
  <2>4. \A k \in 1..m : k <= i
    BY <1>4
  <2>5. \A j \in DOMAIN Contracts : ~(m + 1 + j <= i + 1)
    BY <1>1, <1>4
  <2>6. m < i + 1 /\ i + 1 <= m + K + 1
    BY <1>1, <1>4
  <2> QED BY <2>3, <2>4, <2>5, <2>6 DEF ReadUpTo, l, t, K
<1>5. CASE m < i /\ i <= m + K
  <2> DEFINE j == i - m
             n == Contracts[j]
  <2>1. /\ j \in DOMAIN Contracts /\ m + 1 + j = i + 1 /\ n \in Names /\ s.inSummary
        /\ l = Line(IF n = Announced THEN "noise" ELSE "pair", n, known[n])
    <3>1. j \in 1..K /\ m + 1 + j = i + 1
      BY <1>1, <1>5
    <3>2. n \in Names
      BY <3>1, Sizes DEF K
    <3>3. s.inSummary
      BY <1>1, <1>5 DEF ReadUpTo, K
    <3> HIDE DEF j
    <3>4. lines[m + 1 + j] = Line(IF n = Announced THEN "noise" ELSE "pair", n, known[n])
      BY <1>1, <3>1 DEF Closed
    <3> QED BY <1>1, <3>1, <3>2, <3>3, <3>4
  <2>2. /\ l.kind = IF n = Announced THEN "noise" ELSE "pair"
        /\ l.name = n /\ l.address = known[n]
    BY <2>1 DEF Line
  <2>3. InSummary(l, s.inSummary) /\ (Takes(l, s.inSummary) <=> n # Announced)
    BY <2>1, <2>2 DEF InSummary, Takes
  <2>4. t.inSummary /\ m < i + 1 /\ i + 1 <= m + K + 1 /\ \A k \in 1..m : k <= i
    BY <1>1, <1>2, <1>5, <2>3
  <2>5. \A c \in DOMAIN Contracts : m + 1 + c <= i + 1 => m + 1 + c <= i \/ c = j
    BY <1>1
  <2> HIDE DEF l, j, n
  <2>6. CASE n = Announced
    <3>1. t.addresses = s.addresses
      BY <1>2, <2>3, <2>6
    <3> QED BY <2>4, <2>5, <2>6, <3>1 DEF ReadUpTo, l, t, K, n
  <2>7. CASE n # Announced
    <3>1. /\ DOMAIN t.addresses = DOMAIN s.addresses \cup {n}
          /\ t.addresses[n] = known[n]
          /\ \A c \in DOMAIN s.addresses \ {n} : t.addresses[c] = s.addresses[c]
      BY <1>2, <2>2, <2>3, <2>7
    <3> QED BY <2>1, <2>4, <2>5, <3>1 DEF ReadUpTo, l, t, K, n
  <2> QED BY <2>6, <2>7
<1>6. CASE i = m + K + 1
  <2>1. l.kind = "network"
    BY <1>1, <1>6 DEF Closed, K
  <2>2. ~InSummary(l, s.inSummary) /\ ~Takes(l, s.inSummary)
    BY <2>1 DEF InSummary, Takes
  <2> HIDE DEF l
  <2>3. ~t.inSummary /\ t.addresses = s.addresses
    BY <1>2, <2>2
  <2>4. ~(i + 1 <= m + K + 1) /\ \A k \in 1..m : k <= i
    BY <1>1, <1>6
  <2>5. \A c \in DOMAIN Contracts : m + 1 + c <= i
    BY <1>1, <1>6
  <2> QED BY <2>3, <2>4, <2>5 DEF ReadUpTo, l, t, K
<1>7. CASE i = m + K + 2
  <2>1. l.kind = "pair" /\ ~s.inSummary
    BY <1>1, <1>7 DEF Closed, ReadUpTo, K
  <2>2. ~InSummary(l, s.inSummary) /\ ~Takes(l, s.inSummary)
    BY <2>1 DEF InSummary, Takes
  <2> HIDE DEF l
  <2>3. ~t.inSummary /\ t.addresses = s.addresses
    BY <1>2, <2>2
  <2>4. ~(i + 1 <= m + K + 1) /\ \A k \in 1..m : k <= i
    BY <1>1, <1>7
  <2>5. \A c \in DOMAIN Contracts : m + 1 + c <= i
    BY <1>1, <1>7
  <2> QED BY <2>3, <2>4, <2>5 DEF ReadUpTo, l, t, K
<1> QED BY <1>1, <1>3, <1>4, <1>5, <1>6, <1>7

\* From a whole output the parser gets the known addresses, all of them and no more.
LEMMA ParsesWhatIsKnown ==
  ASSUME TypeOK, NEW m \in Nat, Closed(m)
  PROVE  DOMAIN Parse(lines) = Names /\ \A n \in Names : Parse(lines)[n] = known[n]
<1>1. Len(lines) = m + Len(Contracts) + 3 /\ Len(lines) \in Nat
  BY Sizes DEF Closed
<1>2. PICK g : Reads(g, lines, Len(lines)) /\ Parse(lines) = g[Len(lines)].addresses
  BY <1>1, ParseReads
<1>3. \A i \in 0..Len(lines) : g[i] = IF i = 0 THEN Start ELSE ParseLine(g[i - 1], lines[i])
  BY <1>2 DEF Reads
<1> DEFINE S == {i \in Nat : i <= Len(lines) => ReadUpTo(g[i], i, m)}
<1>4. 0 \in S
  <2>1. g[0] = Start
    BY <1>1, <1>3
  <2>2. Start.inSummary = FALSE
    BY Zenon DEF Start
  <2>3. DOMAIN Start.addresses = {}
    <3>1. Start.addresses = [n \in {} |-> None]
      BY Zenon DEF Start
    <3> QED BY <3>1
  <2>4. ReadUpTo(Start, 0, m)
    BY <2>2, <2>3, Sizes DEF ReadUpTo
  <2> QED BY <2>1, <2>4
<1>5. ASSUME NEW i \in Nat, i \in S PROVE i + 1 \in S
  <2> SUFFICES ASSUME i + 1 <= Len(lines) PROVE ReadUpTo(g[i + 1], i + 1, m)
    OBVIOUS
  <2>1. i \in 0..(Len(lines) - 1) /\ ReadUpTo(g[i], i, m)
    BY <1>1, <1>5
  <2>2. g[i + 1] = ParseLine(g[i], lines[i + 1])
    BY <1>1, <1>3, <2>1
  <2> QED BY <2>1, <2>2, ReadsOn
<1> HIDE DEF S
<1>6. Nat \subseteq S
  BY <1>4, <1>5, Induction
<1>7. ReadUpTo(g[Len(lines)], Len(lines), m)
  BY <1>1, <1>6 DEF S
<1>8. ASSUME NEW n \in Names PROVE n \in DOMAIN g[Len(lines)].addresses
  <2>1. CASE n = Announced
    <3>1. PICK k \in 1..m : lines[k] = Announcement
      BY DEF Closed
    <3>2. k <= Len(lines)
      BY <1>1, Sizes
    <3> QED BY <1>7, <2>1, <3>1, <3>2 DEF ReadUpTo
  <2>2. CASE n # Announced
    <3>1. PICK j \in 1..Len(Contracts) : Contracts[j] = n
      BY Sizes
    <3>2. j \in DOMAIN Contracts /\ m + 1 + j <= Len(lines)
      BY <1>1, Sizes
    <3> QED BY <1>7, <2>2, <3>1, <3>2 DEF ReadUpTo
  <2> QED BY <2>1, <2>2
<1> QED BY <1>2, <1>7, <1>8 DEF ReadUpTo

-----------------------------------------------------------------------------
(* The actions.                                                            *)

\* Appending to the chain or to the output.
LEMMA Appends ==
  ASSUME NEW S, NEW s \in Seq(S), NEW e \in S
  PROVE  /\ Append(s, e) \in Seq(S) /\ Len(Append(s, e)) = Len(s) + 1
         /\ Len(s) \in Nat /\ DOMAIN s = 1..Len(s)
         /\ DOMAIN Append(s, e) = 1..(Len(s) + 1)
         /\ \A i \in 1..Len(s) : Append(s, e)[i] = s[i]
         /\ Append(s, e)[Len(s) + 1] = e
OBVIOUS

\* A contract is deployed where it was not, and its new address is known.
LEMMA Deployed ==
  ASSUME NEW addresses, NEW deployed \in Seq(Names), LiveOn(addresses, deployed),
         NEW n \in Names, addresses[n] = None,
         NEW more, more[n] = Len(deployed) + 1,
         \A c \in Names \ {n} : more[c] = addresses[c]
  PROVE  LiveOn(more, Append(deployed, n))
<1> DEFINE longer == Append(deployed, n)
<1>1. /\ Len(deployed) \in Nat
      /\ DOMAIN deployed = 1..Len(deployed) /\ DOMAIN longer = 1..(Len(deployed) + 1)
      /\ \A i \in 1..Len(deployed) : longer[i] = deployed[i]
      /\ longer[Len(deployed) + 1] = n
  BY Appends
<1> HIDE DEF longer
<1>2. ASSUME NEW c \in Names, more[c] # None
      PROVE  more[c] \in DOMAIN longer /\ longer[more[c]] = c
  <2>1. CASE c = n
    BY <1>1, <2>1
  <2>2. CASE c # n
    <3>1. addresses[c] \in 1..Len(deployed) /\ deployed[addresses[c]] = c
      BY <1>1, <1>2, <2>2 DEF LiveOn
    <3> QED BY <1>1, <2>2, <3>1
  <2> QED BY <2>1, <2>2
<1>3. ASSUME NEW i \in DOMAIN longer PROVE more[longer[i]] = i
  <2>1. CASE i = Len(deployed) + 1
    BY <1>1, <2>1
  <2>2. CASE i \in 1..Len(deployed)
    <3>1. deployed[i] \in Names /\ addresses[deployed[i]] = i
      BY <1>1, <2>2 DEF LiveOn
    <3>2. deployed[i] # n
      BY <2>2, <3>1, DeploymentAssumption
    <3> QED BY <1>1, <2>2, <3>1, <3>2
  <2> QED BY <1>1, <2>1, <2>2
<1> QED BY <1>2, <1>3 DEF LiveOn, longer

\* What is known is on the chain once.
LEMMA NeverTwice ==
  ASSUME NEW addresses, NEW deployed, LiveOn(addresses, deployed)
  PROVE  \A i, j \in DOMAIN deployed : deployed[i] = deployed[j] => i = j
BY DEF LiveOn

\* Nothing is on an empty chain.
LEMMA NothingIsLive == LiveOn(Nowhere, <<>>)
BY Sizes DEF LiveOn

\* It holds before the first start.
LEMMA InitDeployment == Init => DeploymentInv
<1> SUFFICES ASSUME Init PROVE DeploymentInv
  OBVIOUS
<1>1. TypeOK
  <2>1. Cached(Nowhere) \in Files
    BY Sizes DEF Cached, Files
  <2> QED BY <2>1, Sizes, DeploymentAssumption DEF Init, TypeOK, IsWhole
<1>2. OnChain
  BY DEF Init, OnChain
<1>3. OnDisk
  <2>1. Cached(Nowhere) \in Files
    BY Sizes DEF Cached, Files
  <2> QED BY <2>1, DeploymentAssumption DEF Init, OnDisk
<1>4. Output
  BY DEF Init, Output
<1> QED BY <1>1, <1>2, <1>3, <1>4 DEF DeploymentInv, Init, FailureHasACause

\* The actions, one by one: a start has a chain of its own.
LEMMA StartsKeeps ==
  ASSUME DeploymentInv, Starts
  PROVE  DeploymentInv'
<1>1. TypeOK'
  BY Sizes, DeploymentAssumption DEF DeploymentInv, TypeOK, Starts, Goto, IsWhole
<1>2. OnChain'
  BY DEF OnChain, Starts, Goto
<1>3. OnDisk'
  BY DEF DeploymentInv, OnDisk, Starts, Goto
<1>4. Output'
  BY DEF Output, Starts, Goto
<1> QED BY <1>1, <1>2, <1>3, <1>4 DEF DeploymentInv, FailureHasACause, Starts, Goto

\* The step clears what is cached, if it can read it.
LEMMA ClearsKeeps ==
  ASSUME DeploymentInv, Clears
  PROVE  DeploymentInv'
<1>1. /\ stage = "clear" /\ chain = <<>> /\ pre = Nowhere /\ lines = <<>>
      /\ stage' \in {"predeploy", "load", "clear_write"} /\ at' = 1
      /\ UNCHANGED <<chain, pre, known, lines, saved, starts, faults>>
  BY DEF Clears, Goto, DeploymentInv, OnChain, Output
<1>2. CASE NothingToClear /\ UNCHANGED <<cache, held>> /\ stage' \in {"predeploy", "load"}
  <2>1. cache = None \/ (cache \in Files /\ cache.devnet = Nowhere)
    BY <1>2 DEF NothingToClear, DeploymentInv, TypeOK
  <2>2. TypeOK'
    BY <1>1, <1>2, Sizes DEF DeploymentInv, TypeOK, IsWhole
  <2>3. OnChain'
    BY <1>1, <1>2, NothingIsLive, Sizes, DeploymentAssumption DEF OnChain
  <2>4. OnDisk'
    BY <1>1, <1>2, <2>1 DEF DeploymentInv, OnDisk
  <2>5. Output'
    BY <1>1, <1>2 DEF DeploymentInv, Output
  <2> QED BY <1>1, <2>2, <2>3, <2>4, <2>5 DEF DeploymentInv, FailureHasACause
<1>3. CASE /\ ~NothingToClear /\ ~Unreadable
           /\ held' = Cleared(cache) /\ cache' = Torn /\ stage' = "clear_write"
  <2>1. cache \in Files
    BY <1>3 DEF NothingToClear, Unreadable, IsWhole, DeploymentInv, TypeOK
  <2>2. held' \in Files /\ held'.devnet = Nowhere
    BY <1>3, <2>1, Sizes DEF Cleared, Files
  <2>3. TypeOK'
    BY <1>1, <1>3, <2>2 DEF DeploymentInv, TypeOK, IsWhole
  <2>4. OnChain'
    BY <1>1, <1>3 DEF OnChain
  <2>5. OnDisk'
    BY <1>3, <2>2 DEF OnDisk
  <2>6. Output'
    BY <1>1, <1>3 DEF DeploymentInv, Output
  <2> QED BY <1>1, <1>3, <2>3, <2>4, <2>5, <2>6 DEF DeploymentInv, FailureHasACause
<1> QED BY <1>2, <1>3 DEF Clears, Goto

\* It cannot read a file that is torn.
LEMMA CannotClearKeeps ==
  ASSUME DeploymentInv, CannotClear
  PROVE  DeploymentInv'
<1>1. /\ stage = "clear" /\ cache = Torn /\ stage' = "failed" /\ at' = 1 /\ faults > 0
      /\ UNCHANGED <<chain, cache, held, pre, known, lines, saved, starts, faults>>
  BY DEF CannotClear, Unreadable, Goto, DeploymentInv, OnDisk
<1>2. TypeOK'
  BY <1>1, Sizes DEF DeploymentInv, TypeOK, IsWhole
<1>3. OnChain' /\ OnDisk' /\ Output'
  BY <1>1 DEF DeploymentInv, OnChain, OnDisk, Output
<1> QED BY <1>1, <1>2, <1>3 DEF DeploymentInv, FailureHasACause

\* The file is whole again.
LEMMA WritesClearedKeeps ==
  ASSUME DeploymentInv, WritesCleared
  PROVE  DeploymentInv'
<1>1. /\ stage = "clear_write" /\ chain = <<>> /\ pre = Nowhere /\ lines = <<>>
      /\ held \in Files /\ held.devnet = Nowhere /\ cache' = held
      /\ stage' \in {"predeploy", "load"} /\ at' = 1
      /\ UNCHANGED <<chain, held, pre, known, lines, saved, starts, faults>>
  BY DEF WritesCleared, Goto, DeploymentInv, OnChain, OnDisk, Output
<1>2. TypeOK'
  BY <1>1, Sizes DEF DeploymentInv, TypeOK, IsWhole
<1>3. OnChain'
  BY <1>1, NothingIsLive, Sizes, DeploymentAssumption DEF OnChain
<1>4. OnDisk'
  BY <1>1, DeploymentAssumption DEF OnDisk
<1>5. Output'
  BY <1>1 DEF DeploymentInv, Output
<1> QED BY <1>1, <1>2, <1>3, <1>4, <1>5 DEF DeploymentInv, FailureHasACause

\* A contract is deployed before the script: it is another one than those before.
LEMMA PredeploysKeeps ==
  ASSUME DeploymentInv, Predeploys
  PROVE  DeploymentInv'
<1> DEFINE n == Predeployed[at]
<1>1. /\ stage = "predeploy" /\ stage' = stage /\ at' = at + 1 /\ at \in 1..Len(Predeployed)
      /\ chain' = Append(chain, n) /\ n \in Names /\ n # Announced
      /\ pre' = [pre EXCEPT ![n] = Len(chain')]
      /\ lines' = Append(lines, Line("noise", n, Len(chain')))
      /\ UNCHANGED <<cache, held, known, saved, starts, faults>>
  <2>1. at \in 1..Len(Predeployed)
    BY Sizes DEF Predeploys, DeploymentInv, TypeOK
  <2>2. n \in Names /\ n # Announced
    BY <2>1, Sizes, DeploymentAssumption
  <2> QED BY <2>1, <2>2 DEF Predeploys
<1>2. /\ LiveOn(pre, chain) /\ pre[Announced] = None /\ pre \in Addresses
      /\ Len(chain) = at - 1 /\ \A i \in DOMAIN chain : chain[i] = Predeployed[i]
      /\ chain \in Seq(Names) /\ lines \in Seq(Lines)
  BY <1>1 DEF DeploymentInv, TypeOK, OnChain, Output
<1> HIDE DEF n
<1>3. /\ chain' \in Seq(Names) /\ Len(chain') = at /\ Len(chain) = at - 1
      /\ DOMAIN chain = 1..Len(chain) /\ DOMAIN chain' = 1..at
      /\ \A i \in 1..Len(chain) : chain'[i] = chain[i]
      /\ chain'[at] = n
  <2>1. Append(chain, n) \in Seq(Names) /\ Len(Append(chain, n)) = Len(chain) + 1
    BY <1>1, <1>2, Appends
  <2>2. /\ DOMAIN chain = 1..Len(chain) /\ DOMAIN Append(chain, n) = 1..(Len(chain) + 1)
        /\ \A i \in 1..Len(chain) : Append(chain, n)[i] = chain[i]
        /\ Append(chain, n)[Len(chain) + 1] = n
    BY <1>1, <1>2, Appends
  <2>3. Len(chain) + 1 = at
    BY <1>1, <1>2
  <2> QED BY <1>1, <1>2, <2>1, <2>2, <2>3
<1>4. pre[n] = None
  <2>1. SUFFICES ASSUME pre[n] # None PROVE FALSE
    OBVIOUS
  <2>2. pre[n] \in 1..(at - 1) /\ chain[pre[n]] = n
    BY <1>1, <1>2, <1>3, <2>1 DEF LiveOn
  <2>3. Predeployed[pre[n]] = Predeployed[at]
    BY <1>2, <1>3, <2>2 DEF n
  <2>4. pre[n] \in DOMAIN Predeployed /\ at \in DOMAIN Predeployed
    BY <1>1, <2>2, Sizes
  <2>5. pre[n] = at
    BY <2>3, <2>4, DeploymentAssumption
  <2> QED BY <1>1, <2>2, <2>5
<1>5. pre' \in Addresses
  <2>1. at \in 1 .. (Len(Contracts) + Len(Predeployed))
    BY <1>1, Sizes
  <2> QED BY <1>1, <1>2, <1>3, <2>1 DEF Addresses
<1>6. LiveOn(pre', chain')
  <2>1. pre'[n] = Len(chain) + 1 /\ \A c \in Names \ {n} : pre'[c] = pre[c]
    BY <1>1, <1>2, <1>3 DEF Addresses
  <2>2. LiveOn(pre', Append(chain, n))
    BY <1>1, <1>2, <1>4, <2>1, Deployed
  <2> QED BY <1>1, <2>2
<1>7. TypeOK'
  BY <1>1, <1>3, <1>5 DEF DeploymentInv, TypeOK
<1>8. OnChain'
  <2>1. pre'[Announced] = None
    BY <1>1, <1>2, DeploymentAssumption DEF Addresses
  <2>2. \A i \in DOMAIN chain' : chain'[i] = Predeployed[i]
    <3>1. \A i \in 1..at : i = at \/ i \in 1..Len(chain)
      BY <1>1, <1>3
    <3> QED BY <1>2, <1>3, <3>1 DEF n
  <2>3. \A i, j \in DOMAIN chain' : chain'[i] = chain'[j] => i = j
    BY <1>6, NeverTwice
  <2>4. Len(chain') = at' - 1
    BY <1>1, <1>3
  <2> QED BY <1>1, <1>6, <2>1, <2>2, <2>3, <2>4 DEF OnChain
<1>9. OnDisk'
  BY <1>1 DEF DeploymentInv, OnDisk
<1>10. Output'
  <2>1. Line("noise", n, Len(chain')) \in Lines
    BY <1>1, <1>3, Sizes DEF Line, Lines, Kinds
  <2>2. /\ lines' \in Seq(Lines) /\ DOMAIN lines = 1..Len(lines) /\ Len(lines) \in Nat
        /\ DOMAIN lines' = 1..(Len(lines) + 1)
        /\ \A i \in 1..Len(lines) : lines'[i] = lines[i]
        /\ lines'[Len(lines) + 1] = Line("noise", n, Len(chain'))
    BY <1>1, <1>2, <2>1, Appends
  <2>3. lines'[Len(lines) + 1].kind = "noise"
    BY <2>2 DEF Line
  <2>4. \A i \in DOMAIN lines' : lines'[i].kind = "noise"
    BY <1>1, <2>2, <2>3 DEF DeploymentInv, Output
  <2> QED BY <1>1, <2>2, <2>4 DEF Output
<1> QED BY <1>1, <1>7, <1>8, <1>9, <1>10 DEF DeploymentInv, FailureHasACause, OnChain

\* The script knows what was deployed before it, and nothing of an older chain.
LEMMA LoadsKeeps ==
  ASSUME DeploymentInv, Loads
  PROVE  DeploymentInv'
<1>1. /\ stage \in {"predeploy", "load"} /\ stage' = "script" /\ at' = 1
      /\ UNCHANGED <<chain, cache, held, pre, lines, saved, starts, faults>>
  BY DEF Loads, Goto
<1>2. known' = pre
  <2>1. pre \in Addresses /\ (cache = None \/ cache.devnet = Nowhere)
    BY <1>1 DEF DeploymentInv, TypeOK, OnDisk
  <2>2. \A n \in Names : cache # None => cache.devnet[n] = None
    BY <2>1, Sizes
  <2>3. known' = [n \in Names |-> IF pre[n] # None THEN pre[n]
                                  ELSE IF cache = None THEN None ELSE cache.devnet[n]]
    BY DEF Loads
  <2>4. known' = [n \in Names |-> pre[n]]
    BY <2>2, <2>3
  <2>5. pre = [n \in Names |-> pre[n]]
    BY <2>1 DEF Addresses
  <2> QED BY <2>4, <2>5
<1>3. TypeOK'
  BY <1>1, <1>2, Sizes DEF DeploymentInv, TypeOK, IsWhole
<1>4. OnChain'
  <2>1. Len(chain) <= Len(Predeployed)
    BY <1>1, Sizes DEF DeploymentInv, OnChain, TypeOK
  <2>2. LiveOn(known, chain)'
    BY <1>1, <1>2 DEF DeploymentInv, OnChain, LiveOn
  <2> QED BY <1>1, <2>1, <2>2, Sizes DEF DeploymentInv, OnChain
<1>5. OnDisk'
  BY <1>1 DEF DeploymentInv, OnDisk
<1>6. Output'
  <2>1. known'[Announced] = None /\ \A i \in DOMAIN lines : lines[i].kind = "noise"
    BY <1>1, <1>2 DEF DeploymentInv, OnChain, Output
  <2>2. lines \in Seq(Lines) /\ DOMAIN lines = 1..Len(lines)
    BY DEF DeploymentInv, Output
  <2> QED BY <1>1, <2>1, <2>2 DEF Output, Before
<1> QED BY <1>1, <1>3, <1>4, <1>5, <1>6 DEF DeploymentInv, FailureHasACause

\* The script: it deploys what it has no address of, and says so of the announced one.
LEMMA DeploysKeeps ==
  ASSUME DeploymentInv, Deploys
  PROVE  DeploymentInv'
<1> DEFINE n == Contracts[at]
           l == Line(IF n = Announced THEN "announced" ELSE "noise", n, Len(chain'))
<1>1. /\ stage = "script" /\ stage' = stage /\ at' = at + 1 /\ at \in 1..Len(Contracts)
      /\ n \in Names
      /\ UNCHANGED <<held, pre, saved, starts, faults>>
  <2>1. at \in 1..Len(Contracts)
    BY Sizes DEF Deploys, DeploymentInv, TypeOK
  <2>2. n \in Names
    BY <2>1, Sizes
  <2> QED BY <2>1, <2>2 DEF Deploys
<1>2. /\ TypeOK /\ LiveOn(known, chain) /\ known \in Addresses
      /\ Len(chain) <= Len(Predeployed) + at - 1
      /\ \A j \in 1..(at - 1) : known[Contracts[j]] # None
      /\ chain \in Seq(Names) /\ lines \in Seq(Lines)
      /\ cache = None \/ cache \in Files
      /\ known[Announced] = None => \A i \in DOMAIN lines : lines[i].kind = "noise"
      /\ known[Announced] # None =>
           Before(Len(lines)) /\ \E i \in DOMAIN lines : lines[i] = Announcement
  BY <1>1 DEF DeploymentInv, TypeOK, OnChain, OnDisk, Output
<1>3. \A j \in 1..at : j = at \/ j \in 1..(at - 1)
  BY <1>1
<1>4. CASE known[n] # None
  <2>1. UNCHANGED <<chain, known, cache, lines>>
    BY <1>4 DEF Deploys
  <2>2. TypeOK'
    BY <1>1, <2>1, Sizes DEF DeploymentInv, TypeOK, IsWhole
  <2>3. Len(chain) <= Len(Predeployed) + (at + 1) - 1
    <3>1. Len(chain) \in Nat
      BY <1>2
    <3> QED BY <1>1, <1>2, <3>1, Sizes
  <2>4. \A j \in 1..((at + 1) - 1) : known[Contracts[j]] # None
    BY <1>1, <1>2, <1>3, <1>4
  <2>5. OnChain'
    BY <1>1, <1>2, <2>1, <2>3, <2>4 DEF DeploymentInv, OnChain
  <2>6. OnDisk' /\ Output'
    BY <1>1, <2>1 DEF DeploymentInv, OnDisk, Output, Before, Announcement
  <2> QED BY <1>1, <2>1, <2>2, <2>5, <2>6 DEF DeploymentInv, FailureHasACause
<1>5. CASE known[n] = None
  <2>1. /\ chain' = Append(chain, n)
        /\ known' = [known EXCEPT ![n] = Len(chain')]
        /\ Records(n, Len(chain'))
        /\ lines' = Append(lines, l)
    BY <1>5 DEF Deploys
  <2> HIDE DEF n
  <2>2. /\ chain' \in Seq(Names) /\ Len(chain') = Len(chain) + 1 /\ Len(chain) \in Nat
        /\ DOMAIN chain' = 1..Len(chain')
    BY <1>1, <1>2, <2>1, Appends
  <2>3. Len(chain') \in 1 .. (Len(Contracts) + Len(Predeployed))
    BY <1>1, <1>2, <2>2, Sizes
  <2>4. known' \in Addresses
    BY <1>1, <1>2, <2>1, <2>3 DEF Addresses
  <2>5. LiveOn(known', chain')
    <3>1. known'[n] = Len(chain) + 1 /\ \A c \in Names \ {n} : known'[c] = known[c]
      BY <1>1, <1>2, <2>1, <2>2 DEF Addresses
    <3>2. LiveOn(known', Append(chain, n))
      BY <1>1, <1>2, <1>5, <3>1, Deployed
    <3> QED BY <2>1, <3>2
  <2>6. known'[n] = Len(chain') /\ \A c \in Names \ {n} : known'[c] = known[c]
    BY <1>1, <1>2, <2>1 DEF Addresses
  <2>7. Len(chain') # None
    BY <2>3, Sizes, DeploymentAssumption
  <2>8. cache' \in Files
    <3>1. (IF cache = None THEN Nowhere ELSE cache.devnet) \in Addresses
      BY <1>2, Sizes DEF Files
    <3>2. [(IF cache = None THEN Nowhere ELSE cache.devnet) EXCEPT ![n] = Len(chain')] \in Addresses
      BY <2>3, <3>1 DEF Addresses
    <3>3. cache' = Cached([(IF cache = None THEN Nowhere ELSE cache.devnet)
                             EXCEPT ![n] = Len(chain')])
      BY <2>1 DEF Records
    <3> QED BY <3>2, <3>3 DEF Cached, Files
  <2>9. TypeOK'
    BY <1>1, <2>2, <2>4, <2>8 DEF DeploymentInv, TypeOK
  <2>10. OnChain'
    <3>1. Len(chain') <= Len(Predeployed) + (at + 1) - 1
      BY <1>1, <1>2, <2>2, Sizes
    <3>2. \A j \in 1..((at + 1) - 1) : known'[Contracts[j]] # None
      <4>1. SUFFICES ASSUME NEW j \in 1..at PROVE known'[Contracts[j]] # None
        BY <1>1
      <4>2. Contracts[j] \in Names
        BY <1>1, Sizes
      <4>3. CASE Contracts[j] = n
        BY <2>6, <2>7, <4>3
      <4>4. CASE Contracts[j] # n
        <5>1. known[Contracts[j]] # None
          BY <1>2, <1>3, <4>1, <4>4 DEF n
        <5> QED BY <2>6, <4>2, <4>4, <5>1
      <4> QED BY <4>3, <4>4
    <3>3. \A i, j \in DOMAIN chain' : chain'[i] = chain'[j] => i = j
      BY <2>5, NeverTwice
    <3> QED BY <1>1, <2>5, <3>1, <3>2, <3>3 DEF OnChain
  <2>11. OnDisk'
    BY <1>1, <2>8, DeploymentAssumption DEF OnDisk
  <2>12. Output'
    <3> HIDE DEF l
    <3>1. l \in Lines
      BY <1>1, <2>3 DEF l, Line, Lines, Kinds
    <3>2. /\ lines' \in Seq(Lines) /\ DOMAIN lines = 1..Len(lines) /\ Len(lines) \in Nat
          /\ Len(lines') = Len(lines) + 1 /\ DOMAIN lines' = 1..(Len(lines) + 1)
          /\ \A i \in 1..Len(lines) : lines'[i] = lines[i]
          /\ lines'[Len(lines) + 1] = l
      BY <1>2, <2>1, <3>1, Appends
    <3>3. n # Announced => l.kind = "noise" /\ Announcement' = Announcement
      BY <2>6, DeploymentAssumption DEF l, Line, Announcement
    <3>4. n = Announced => l = Announcement'
      BY <2>6 DEF l, Announcement
    <3>5. \A i \in 1..(Len(lines) + 1) : i = Len(lines) + 1 \/ i \in 1..Len(lines)
      BY <3>2
    <3>6. CASE n = Announced
      <4>1. known'[Announced] # None /\ known[Announced] = None
        BY <1>5, <2>6, <2>7, <3>6
      <4>2. \A i \in 1..Len(lines) : lines'[i].kind = "noise"
        BY <1>2, <3>2, <4>1
      <4>3. lines'[Len(lines) + 1] = Announcement'
        BY <3>2, <3>4, <3>6
      <4>4. Before(Len(lines))'
        BY <3>2, <3>5, <4>2, <4>3 DEF Before
      <4> QED BY <1>1, <3>2, <4>1, <4>3, <4>4 DEF Output
    <3>7. CASE n # Announced
      <4>1. l.kind = "noise" /\ Announcement' = Announcement
        BY <3>3, <3>7
      <4>2. known'[Announced] = known[Announced]
        BY <2>6, <3>7, DeploymentAssumption
      <4>3. CASE known[Announced] = None
        <5>1. \A i \in DOMAIN lines' : lines'[i].kind = "noise"
          BY <1>2, <3>2, <3>5, <4>1, <4>3
        <5> QED BY <1>1, <3>2, <4>2, <4>3, <5>1 DEF Output
      <4>4. CASE known[Announced] # None
        <5>1. Before(Len(lines))'
          BY <1>2, <3>2, <3>5, <4>1, <4>4 DEF Before
        <5>2. \E i \in DOMAIN lines' : lines'[i] = Announcement'
          BY <1>2, <3>2, <4>1, <4>4
        <5> QED BY <1>1, <3>2, <4>2, <4>4, <5>1, <5>2 DEF Output
      <4> QED BY <4>3, <4>4
    <3> QED BY <3>6, <3>7
  <2> QED BY <1>1, <2>9, <2>10, <2>11, <2>12 DEF DeploymentInv, FailureHasACause, OnChain
<1> QED BY <1>4, <1>5

\* u has the m lines of s and then the k lines of t.
Joins(u, s, t, m, k) ==
  /\ u \in Seq(Lines) /\ Len(u) = m + k
  /\ \A i \in 1..m : u[i] = s[i]
  /\ \A i \in 1..k : u[m + i] = t[i]

\* One output after another.
LEMMA Concatenates ==
  ASSUME NEW s \in Seq(Lines), NEW t \in Seq(Lines), NEW m \in Nat, NEW k \in Nat,
         Len(s) = m, Len(t) = k
  PROVE  Joins(s \o t, s, t, m, k)
<1>1. s \o t \in Seq(Lines) /\ Len(s \o t) = m + k
  BY ConcatProperties
<1>2. \A i \in 1..(m + k) : (s \o t)[i] = IF i <= m THEN s[i] ELSE t[i - m]
  BY ConcatProperties
<1>3. /\ \A i \in 1..m : i \in 1..(m + k) /\ i <= m
      /\ \A i \in 1..k : m + i \in 1..(m + k) /\ ~(m + i <= m) /\ (m + i) - m = i
  OBVIOUS
<1> QED BY <1>1, <1>2, <1>3 DEF Joins

\* The whole output: what came before, the summary, the section of the network.
LEMMA PrintsKeeps ==
  ASSUME DeploymentInv, Prints
  PROVE  DeploymentInv'
<1> DEFINE title == <<Line("summary", "title", None)>>
           pairs == [j \in DOMAIN Contracts |->
                       LET n == Contracts[j]
                       IN  Line(IF n = Announced THEN "noise" ELSE "pair", n, known[n])]
           rest == <<Line("network", "title", None), Line("pair", "usdfc", Deployer)>>
<1>1. PICK m \in Nat : m = Len(lines)
  BY DEF DeploymentInv, Output
<1>2. PICK K \in Nat : K = Len(Contracts)
  BY Sizes
<1>3. /\ stage = "script" /\ stage' = "parse" /\ at' = 1 /\ at = K + 1
      /\ lines' = lines \o Summary
      /\ UNCHANGED <<chain, cache, held, pre, known, saved, starts, faults>>
  BY <1>2, Sizes DEF Prints, Goto, DeploymentInv, TypeOK
<1>4. \A n \in Names : known[n] # None
  <2>1. \A j \in 1..K : known[Contracts[j]] # None
    BY <1>3, <1>2, Sizes DEF DeploymentInv, OnChain
  <2> QED BY <2>1, <1>2, Sizes
<1>5. /\ lines \in Seq(Lines) /\ m \in Nat /\ K \in Nat
      /\ DOMAIN lines = 1..m /\ known \in Addresses
      /\ Before(m) /\ \E i \in 1..m : lines[i] = Announcement
  <2>1. lines \in Seq(Lines) /\ known \in Addresses
    BY DEF DeploymentInv, TypeOK, Output
  <2>2. Before(m) /\ \E i \in DOMAIN lines : lines[i] = Announcement
    BY <1>1, <1>3, <1>4, DeploymentAssumption DEF DeploymentInv, Output
  <2> QED BY <1>1, <2>1, <2>2, <1>2, Sizes
<1>6. title \in Seq(Lines) /\ Len(title) = 1 /\ title[1] = Line("summary", "title", None)
  <2>1. Line("summary", "title", None) \in Lines
    BY DEF Line, Lines, Kinds
  <2> QED BY <2>1
<1>7. pairs \in Seq(Lines) /\ Len(pairs) = K
  <2>1. ASSUME NEW j \in 1..K PROVE pairs[j] \in Lines
    <3>1. Contracts[j] \in Names /\ Contracts[j] \in STRING
      BY <1>2, Sizes
    <3>2. known[Contracts[j]] \in Nat \cup {None}
      BY <1>5, <3>1, <1>2, Sizes DEF Addresses
    <3>3. pairs[j] = Line(IF Contracts[j] = Announced THEN "noise" ELSE "pair",
                          Contracts[j], known[Contracts[j]])
      BY <1>2, Sizes
    <3> QED BY <3>1, <3>2, <3>3 DEF Line, Lines, Kinds
  <2>2. pairs \in [1..K -> Lines]
    BY <2>1, <1>2, Sizes
  <2> HIDE DEF pairs
  <2> QED BY <1>5, <2>2
<1>8. /\ rest \in Seq(Lines) /\ Len(rest) = 2
      /\ rest[1].kind = "network" /\ rest[2].kind = "pair"
  <2>1. Line("network", "title", None) \in Lines /\ Line("pair", "usdfc", Deployer) \in Lines
    BY DEF Line, Lines, Kinds, Deployer
  <2> QED BY <2>1 DEF Line
<1>9. Summary = (title \o pairs) \o rest
  BY DEF Summary
<1>10. \A j \in 1..K : pairs[j] = Line(IF Contracts[j] = Announced THEN "noise" ELSE "pair",
                                      Contracts[j], known[Contracts[j]])
  BY <1>2, Sizes
<1> HIDE DEF title, pairs, rest
<1>11. /\ title \o pairs \in Seq(Lines) /\ Len(title \o pairs) = 1 + K
      /\ (title \o pairs)[1] = title[1]
      /\ \A j \in 1..K : (title \o pairs)[1 + j] = pairs[j]
  <2>1. Joins(title \o pairs, title, pairs, 1, K)
    BY <1>5, <1>6, <1>7, Concatenates
  <2>2. 1 \in 1..1
    OBVIOUS
  <2> QED BY <2>1, <2>2 DEF Joins
<1>12. /\ Summary \in Seq(Lines) /\ Len(Summary) = K + 3
       /\ Summary[1] = title[1] /\ \A j \in 1..K : Summary[1 + j] = pairs[j]
       /\ Summary[K + 2] = rest[1] /\ Summary[K + 3] = rest[2]
  <2>1. Joins(Summary, title \o pairs, rest, 1 + K, 2)
    <3>1. 1 + K \in Nat /\ 2 \in Nat
      BY <1>5
    <3>2. Joins((title \o pairs) \o rest, title \o pairs, rest, 1 + K, 2)
      BY <1>8, <1>11, <3>1, Concatenates
    <3> QED BY <1>9, <3>2
  <2>2. /\ 1 \in 1..(1 + K) /\ 1 \in 1..2 /\ 2 \in 1..2
        /\ \A j \in 1..K : 1 + j \in 1..(1 + K)
        /\ (1 + K) + 1 = K + 2 /\ (1 + K) + 2 = K + 3
    BY <1>5
  <2> QED BY <1>11, <2>1, <2>2 DEF Joins
<1>13. /\ lines' \in Seq(Lines) /\ Len(lines') = m + K + 3
       /\ \A i \in 1..m : lines'[i] = lines[i]
       /\ \A i \in 1..(K + 3) : lines'[m + i] = Summary[i]
  <2>1. K + 3 \in Nat /\ m + (K + 3) = m + K + 3
    BY <1>5
  <2>2. Joins(lines \o Summary, lines, Summary, m, K + 3)
    BY <1>1, <1>5, <1>12, <2>1, Concatenates
  <2> QED BY <1>3, <2>1, <2>2 DEF Joins
<1>14. Closed(m)'
  <2>1. /\ lines'[m + 1] = Line("summary", "title", None)
        /\ lines'[m + K + 2].kind = "network" /\ lines'[m + K + 3].kind = "pair"
    <3>1. 1 \in 1..(K + 3) /\ K + 2 \in 1..(K + 3) /\ K + 3 \in 1..(K + 3)
      BY <1>5
    <3>2. lines'[m + 1] = Summary[1] /\ lines'[m + (K + 2)] = Summary[K + 2]
          /\ lines'[m + (K + 3)] = Summary[K + 3]
      BY <1>13, <3>1
    <3>3. m + (K + 2) = m + K + 2 /\ m + (K + 3) = m + K + 3
      BY <1>5
    <3> QED BY <1>6, <1>8, <1>12, <3>2, <3>3
  <2>2. ASSUME NEW j \in 1..K
        PROVE  lines'[m + 1 + j] = Line(IF Contracts[j] = Announced THEN "noise" ELSE "pair",
                                        Contracts[j], known'[Contracts[j]])
    <3>1. 1 + j \in 1..(K + 3) /\ m + (1 + j) = m + 1 + j
      BY <1>5
    <3>2. lines'[m + (1 + j)] = Summary[1 + j] /\ Summary[1 + j] = pairs[j]
      BY <1>12, <1>13, <3>1
    <3>3. known'[Contracts[j]] = known[Contracts[j]]
      BY <1>3
    <3> QED BY <1>10, <3>1, <3>2, <3>3
  <2>3. Before(m)' /\ \E i \in 1..m : lines'[i] = Announcement'
    BY <1>3, <1>5, <1>13 DEF Before, Announcement
  <2> QED BY <1>13, <2>1, <2>2, <2>3, <1>2 DEF Closed
<1>15. TypeOK'
  BY <1>3, <1>2, Sizes DEF DeploymentInv, TypeOK, IsWhole
<1>16. OnChain' /\ OnDisk'
  BY <1>3, <1>4 DEF DeploymentInv, OnChain, OnDisk, LiveOn
<1>17. Output'
  <2>1. m \in 0..Len(lines')
    BY <1>5, <1>13
  <2> QED BY <1>3, <1>13, <1>14, <2>1 DEF Output
<1> QED BY <1>3, <1>15, <1>16, <1>17 DEF DeploymentInv, FailureHasACause

\* The step saves what it has parsed: the known addresses, each on the chain.
LEMMA SavesKeeps ==
  ASSUME DeploymentInv, Saves
  PROVE  DeploymentInv' /\ AddressesAreLive'
<1>1. /\ stage = "parse" /\ stage' = "ok" /\ at' = 1 /\ saved' = Parse(lines)
      /\ UNCHANGED <<chain, cache, held, pre, known, lines, starts, faults>>
  BY DEF Saves, Goto
<1>2. TypeOK'
  BY <1>1, Sizes DEF DeploymentInv, TypeOK, IsWhole
<1>3. OnChain' /\ OnDisk' /\ Output'
  BY <1>1 DEF DeploymentInv, OnChain, OnDisk, Output, LiveOn
<1>4. PICK m \in 0..Len(lines) : Closed(m)
  BY <1>1 DEF DeploymentInv, Output
<1>5. m \in Nat
  BY DEF DeploymentInv, Output
<1>6. DOMAIN saved' = Names /\ \A n \in Names : saved'[n] = known[n]
  BY <1>1, <1>4, <1>5, ParsesWhatIsKnown DEF DeploymentInv
<1>7. \A n \in Names : known[n] \in DOMAIN chain /\ chain[known[n]] = n
  BY <1>1 DEF DeploymentInv, OnChain, LiveOn
<1> QED BY <1>1, <1>2, <1>3, <1>6, <1>7 DEF DeploymentInv, FailureHasACause,
                                        AddressesAreLive

\* A start that breaks off leaves what it has done.
LEMMA BreaksKeeps ==
  ASSUME DeploymentInv, Breaks
  PROVE  DeploymentInv'
<1>1. /\ stage' = "broken" /\ at' = 1 /\ faults \in 0..(MaxFaults - 1) /\ faults' = faults + 1
      /\ UNCHANGED <<chain, cache, held, pre, known, lines, saved, starts>>
  BY DeploymentAssumption DEF Breaks, Goto, DeploymentInv, TypeOK
<1>2. TypeOK'
  BY <1>1, Sizes, DeploymentAssumption DEF DeploymentInv, TypeOK, IsWhole
<1>3. OnChain' /\ OnDisk' /\ Output'
  BY <1>1 DEF DeploymentInv, OnChain, OnDisk, Output
<1> QED BY <1>1, <1>2, <1>3 DEF DeploymentInv, FailureHasACause

\* Every step keeps the invariant, and with it what is saved at the end is live.
LEMMA NextDeployment ==
  ASSUME DeploymentInv, AddressesAreLive, [Next]_vars
  PROVE  DeploymentInv' /\ AddressesAreLive'
<1>1. CASE UNCHANGED vars
  BY <1>1
    DEF vars, DeploymentInv, TypeOK, OnChain, OnDisk, Output, FailureHasACause, Before,
      Closed, Announcement, AddressesAreLive
<1>2. CASE Saves
  BY <1>2, SavesKeeps
<1>3. CASE Next /\ ~Saves
  <2>1. DeploymentInv'
    BY <1>3, StartsKeeps, ClearsKeeps, CannotClearKeeps, WritesClearedKeeps,
      PredeploysKeeps, LoadsKeeps, DeploysKeeps, PrintsKeeps, BreaksKeeps DEF Next
  <2>2. stage' # "ok"
    BY <1>3
      DEF Next, Starts, Clears, CannotClear, WritesCleared, Predeploys, Loads, Deploys,
        Prints, Breaks, Goto
  <2> QED BY <2>1, <2>2 DEF AddressesAreLive
<1> QED BY <1>1, <1>2, <1>3

\* The invariant holds over all starts.
THEOREM DeploymentInvariant == Spec => [](DeploymentInv /\ AddressesAreLive)
<1>1. Init => DeploymentInv /\ AddressesAreLive
  BY InitDeployment DEF Init, AddressesAreLive
<1> QED BY <1>1, NextDeployment, PTL DEF Spec

\* What is on the chain, in deployments.json and known to the script is well formed:
\* every address is one of the chain's, and a file that is whole still has the addresses
\* of the other networks.
THEOREM DeploymentTypeCorrect == Spec => []TypeOK
<1>1. DeploymentInv => TypeOK
  BY DEF DeploymentInv
<1> QED BY <1>1, DeploymentInvariant, PTL

\* What a successful step saves is every contract's address on the chain of this start
\* and nothing else, whatever earlier starts have left behind.
THEOREM SavedAddressesAreLive == Spec => []AddressesAreLive
BY DeploymentInvariant, PTL

\* No contract is deployed twice on a chain, and the step itself fails only at a file
\* that a broken start has left half written.
THEOREM DeploymentFailureIsCaused == Spec => []FailureHasACause
<1>1. DeploymentInv => FailureHasACause
  BY DEF DeploymentInv
<1> QED BY <1>1, DeploymentInvariant, PTL
=============================================================================
