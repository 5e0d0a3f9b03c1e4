------------------------- MODULE SetupContextProofs -------------------------
(***************************************************************************)
(* The two things the steps share through SetupContext.  The allocator,    *)
(* for every port space and every set of ranges: the loop of allocate()    *)
(* finds the first free port, none is handed out twice or outside the      *)
(* range, a refusal means that it is used up, and it implements PortPool.  *)
(* The context, for every set of threads and keys and any number of calls: *)
(* the mutex is held by the one thread in a block of it, the file keeps up *)
(* with the map, and both implement ContextStore.                          *)
(***************************************************************************)
EXTENDS PortAllocator, StepContext, WellFoundedInduction, TLAPS

-----------------------------------------------------------------------------
(* The port allocator.                                                     *)

\* A non-empty set of naturals contains its minimum: what FirstFree rests on.
LEMMA MinProperty ==
  ASSUME NEW S \in SUBSET Nat, S # {}
  PROVE  Min(S) \in S /\ \A y \in S : Min(S) <= y
<1> DEFINE R == {ss \in Nat \X Nat : ss[1] < ss[2]}
<1>1. IsWellFoundedOn(R, Nat)
  BY NatLessThanWellFounded, Zenon DEF OpToRel
<1>2. PICK x \in S : \A y \in S : ~(<<y, x>> \in R)
  <2> HIDE DEF R
  <2> QED BY <1>1, WFMin
<1>3. \A y \in S : ~(y < x)
  BY <1>2
<1>4. \A y \in S : x <= y
  BY <1>3
<1> QED BY <1>4 DEF Min

\* Induction over the naturals, for a set of them.
LEMMA Induction ==
  ASSUME NEW S, 0 \in S, \A n \in Nat : n \in S => n + 1 \in S
  PROVE  Nat \subseteq S
<1> SUFFICES ASSUME Nat \ S # {} PROVE FALSE
  OBVIOUS
<1> DEFINE m == Min(Nat \ S)
<1>1. m \in Nat \ S /\ \A y \in Nat \ S : m <= y
  BY MinProperty
<1> HIDE DEF m
<1>2. m - 1 \in Nat /\ m - 1 \in S
  BY <1>1
<1>3. (m - 1) + 1 \in S
  BY <1>2
<1> QED BY <1>1, <1>3

-----------------------------------------------------------------------------
\* The inductive invariant: the range is a legal one, the cursor is inside it
\* (at its start when the end wraps), and `allocated' holds every port that was
\* ever handed out or reserved.
Opened == status \in {"ready", "panicked"}
Handed == {granted[i] : i \in 1..Len(granted)}

Bounded ==
  /\ Opened => count # 0 /\ start + (count - 1) <= MaxPort /\ next \in InRange
  /\ Opened /\ Overflows => next = start /\ allocated \subseteq {start}
  /\ allocated \subseteq IF Opened THEN InRange ELSE {}

Remembered ==
  /\ Handed \subseteq allocated
  /\ reserved \subseteq allocated
  /\ Opened \/ ~refused
  /\ ~Opened => want = 0

PortInv == PortTypeOK /\ Bounded /\ Remembered /\ NoPortGivenTwice /\ RefusesOnlyWhenFull

\* The port a successful allocation returns is a free one of the range, whatever
\* the cursor, and the cursor it leaves behind is in the range.
LEMMA FirstFreeIsFree ==
  ASSUME PortInv, status = "ready", Free # {}
  PROVE  /\ FirstFree \in InRange \ allocated
         /\ Overflows => FirstFree = start
         /\ ~Overflows => Advance(FirstFree) \in InRange
         /\ Overflows => Advance(FirstFree) = start
<1> USE PortAllocatorAssumption
<1> USE DEF PortInv, PortTypeOK, Bounded, Opened, Port
<1>1. start \in InRange /\ InRange \subseteq Port
  BY DEF InRange
<1>2. Visited \subseteq InRange
  BY <1>1 DEF Visited
<1>3. Free \subseteq Nat /\ Ahead \subseteq Free
  <2>1. Port \subseteq Nat
    OBVIOUS
  <2> QED BY <1>1, <1>2, <2>1 DEF Free, Ahead
<1>4. FirstFree \in Free
  BY <1>3, MinProperty DEF FirstFree
<1>5. FirstFree \in InRange \ allocated
  BY <1>2, <1>4 DEF Free
<1>6. Overflows => FirstFree = start
  BY <1>4 DEF Free, Visited
<1>7. ~Overflows => Advance(FirstFree) \in InRange
  BY <1>5 DEF Advance, End, Overflows, InRange
<1>8. Overflows => Advance(FirstFree) = start
  BY <1>5, <1>1 DEF Advance, End, Overflows, InRange
<1> QED BY <1>5, <1>6, <1>7, <1>8

LEMMA InitPortInv == PortInit => PortInv
<1> SUFFICES ASSUME PortInit PROVE PortInv
  OBVIOUS
<1> USE PortAllocatorAssumption DEF PortInit, Port
<1>1. PortTypeOK
  <2>1. 0 \in 0..MaxPort /\ 0 \in 0..MaxWant
    BY DEF PortAllocatorAssumption
  <2>2. granted \in Seq(Port)
    OBVIOUS
  <2> QED BY <2>1, <2>2 DEF PortTypeOK
<1>2. Bounded /\ Remembered
  BY DEF Bounded, Remembered, Opened, Handed
<1>3. NoPortGivenTwice /\ RefusesOnlyWhenFull
  BY DEF NoPortGivenTwice, RefusesOnlyWhenFull
<1> QED BY <1>1, <1>2, <1>3 DEF PortInv

\* Appending a port nobody was given yet keeps the history duplicate free.
LEMMA GrantKeepsHistory ==
  ASSUME NEW p \in Port, PortInv, p \notin allocated,
         granted' = Append(granted, p), UNCHANGED reserved
  PROVE  /\ granted' \in Seq(Port)
         /\ NoPortGivenTwice'
         /\ Handed' \subseteq Handed \cup {p}
<1> USE DEF PortInv
<1>1. granted \in Seq(Port) /\ Len(granted) \in Nat
  BY DEF PortTypeOK
<1>2. /\ Len(granted') = Len(granted) + 1
      /\ \A i \in 1..Len(granted) : granted'[i] = granted[i]
      /\ granted'[Len(granted) + 1] = p
      /\ granted' \in Seq(Port)
  BY <1>1
<1>3. \A i \in 1..Len(granted) : granted[i] # p
  BY DEF Remembered, Handed
<1>4. p \notin reserved
  BY DEF Remembered
<1>5. \A i, j \in 1..Len(granted') : i # j => granted'[i] # granted'[j]
  BY <1>1, <1>2, <1>3 DEF NoPortGivenTwice
<1>6. \A i \in 1..Len(granted') : granted'[i] \notin reserved'
  BY <1>1, <1>2, <1>4 DEF NoPortGivenTwice
<1>7. Handed' \subseteq Handed \cup {p}
  BY <1>1, <1>2 DEF Handed
<1> QED BY <1>2, <1>5, <1>6, <1>7 DEF NoPortGivenTwice

LEMMA NextPortInv ==
  ASSUME PortInv, [PortNext]_portVars
  PROVE  PortInv'
<1> USE PortAllocatorAssumption DEF PortAllocatorAssumption, PortInv, Port
<1>1. CASE UNCHANGED portVars
  BY <1>1 DEF portVars, fields, PortTypeOK, Bounded, Remembered, NoPortGivenTwice,
              RefusesOnlyWhenFull, Opened, Handed, InRange, Overflows
<1>2. ASSUME NEW r \in Ranges, New(r[1], r[2])
      PROVE  PortInv'
  <2> DEFINE s == r[1]
             c == r[2]
  <2>1. s \in 0..MaxPort /\ c \in 0..MaxPort
    OBVIOUS
  <2> HIDE DEF s, c
  <2>2. status = "uninit" /\ UNCHANGED <<checks, want, granted, reserved, refused>>
    BY <1>2 DEF New
  <2>3. ~Opened /\ allocated = {} /\ want = 0 /\ refused = FALSE
    BY <2>2 DEF Opened, Bounded, Remembered, PortTypeOK
  <2>4. CASE Fits(s, c)
    <3>1. /\ status' = "ready" /\ start' = s /\ count' = c /\ next' = s
          /\ allocated' = {}
      BY <1>2, <2>3, <2>4 DEF New, s, c
    <3>2. PortTypeOK'
      BY <3>1, <2>1, <2>2, <2>3 DEF PortTypeOK
    <3>3. Bounded'
      BY <3>1, <2>1, <2>4 DEF Bounded, Fits, Opened, InRange
    <3>4. Remembered' /\ NoPortGivenTwice' /\ RefusesOnlyWhenFull'
      BY <3>1, <2>2, <2>3
         DEF Remembered, NoPortGivenTwice, RefusesOnlyWhenFull, Handed, Opened
    <3> QED BY <3>2, <3>3, <3>4
  <2>5. CASE ~Fits(s, c)
    <3>1. status' = "rejected" /\ UNCHANGED fields
      BY <1>2, <2>5 DEF New, s, c
    <3> QED
      BY <3>1, <2>2, <2>3
         DEF fields, PortTypeOK, Bounded, Remembered, NoPortGivenTwice,
             RefusesOnlyWhenFull, Opened, Handed, InRange, Overflows
  <2> QED BY <2>4, <2>5
<1>3. ASSUME NEW n \in 1..MaxWant, Requests(n)
      PROVE  PortInv'
  BY <1>3 DEF Requests, fields, PortTypeOK, Bounded, Remembered, NoPortGivenTwice,
              RefusesOnlyWhenFull, Opened, Handed, InRange, Overflows
<1>4. CASE AllocateOk
  <2> USE <1>4 DEF AllocateOk
  <2>1. /\ FirstFree \in InRange \ allocated
        /\ Overflows => FirstFree = start
        /\ ~Overflows => Advance(FirstFree) \in InRange
        /\ Overflows => Advance(FirstFree) = start
    BY FirstFreeIsFree
  <2>2. Opened /\ InRange \subseteq Port /\ start \in InRange
    BY DEF Opened, Bounded, InRange, PortTypeOK
  <2>3. /\ granted' \in Seq(Port) /\ NoPortGivenTwice'
        /\ Handed' \subseteq Handed \cup {FirstFree}
    BY <2>1, <2>2, GrantKeepsHistory
  <2>4. UNCHANGED <<InRange, Overflows, Opened>>
    BY DEF InRange, Overflows, Opened
  <2>5. next' \in InRange
    BY <2>1, <2>2
  <2>6. want' \in 0..MaxWant
    BY DEF PortTypeOK
  <2>7. PortTypeOK'
    BY <2>1, <2>2, <2>3, <2>5, <2>6 DEF PortTypeOK
  <2>8. Bounded'
    BY <2>1, <2>2, <2>4, <2>5 DEF Bounded
  <2>9. Remembered'
    BY <2>2, <2>3, <2>4 DEF Remembered
  <2>10. RefusesOnlyWhenFull'
    BY <2>1, <2>4 DEF RefusesOnlyWhenFull
  <2> QED BY <2>3, <2>7, <2>8, <2>9, <2>10
<1>5. CASE AllocateErr
  <2> USE <1>5 DEF AllocateErr
  <2>1. UNCHANGED <<InRange, Overflows, Opened, Handed>>
    BY DEF InRange, Overflows, Opened, Handed
  <2>2. next' = next
    BY DEF Bounded, Opened
  <2>3. IF Overflows THEN ~checks /\ allocated = {start} ELSE InRange \subseteq allocated
    BY <2>1 DEF Free, Visited, Panics, Bounded, Opened
  <2>4. PortTypeOK'
    BY <2>2 DEF PortTypeOK
  <2>5. Bounded' /\ Remembered' /\ NoPortGivenTwice' /\ RefusesOnlyWhenFull'
    BY <2>1, <2>2, <2>3
       DEF Bounded, Remembered, NoPortGivenTwice, RefusesOnlyWhenFull, Opened
  <2> QED BY <2>4, <2>5
<1>6. CASE AllocatePanic
  BY <1>6 DEF AllocatePanic, fields, PortTypeOK, Bounded, Remembered,
              NoPortGivenTwice, RefusesOnlyWhenFull, Opened, Handed, InRange,
              Overflows
<1>7. ASSUME NEW p \in Port, MarkAllocated(p)
      PROVE  PortInv'
  <2> USE <1>7 DEF MarkAllocated, Marked
  <2>1. UNCHANGED <<InRange, Overflows, Opened, Handed>>
    BY DEF InRange, Overflows, Opened, Handed
  <2>2. Opened /\ p \in InRange /\ ~Overflows
    BY DEF Opened, Bounded, InRange, End, Overflows, PortTypeOK
  <2>3. PortTypeOK'
    BY DEF PortTypeOK
  <2>4. Bounded' /\ Remembered' /\ RefusesOnlyWhenFull'
    BY <2>1, <2>2 DEF Bounded, Remembered, RefusesOnlyWhenFull
  <2>5. \A i \in 1..Len(granted) : granted[i] \notin reserved'
    BY DEF NoPortGivenTwice, Remembered, Handed
  <2>6. NoPortGivenTwice'
    BY <2>5 DEF NoPortGivenTwice
  <2> QED BY <2>3, <2>4, <2>6
<1>8. CASE MarkPanic
  BY <1>8 DEF MarkPanic, fields, PortTypeOK, Bounded, Remembered,
              NoPortGivenTwice, RefusesOnlyWhenFull, Opened, Handed, InRange,
              Overflows
<1> QED
  BY <1>1, <1>2, <1>3, <1>4, <1>5, <1>6, <1>7, <1>8 DEF PortNext

LEMMA InvariantPortInv == PortSpec => []PortInv
BY InitPortInv, NextPortInv, PTL DEF PortSpec

-----------------------------------------------------------------------------
(* The loop of allocate().                                                 *)

\* The loop before its first iteration, and the function of its iterations.
Before == [found |-> FALSE, port |-> next, next |-> next]
Runs(g, m) == g = [i \in 0..m |-> IF i = 0 THEN Before ELSE ScanStep(g[i - 1])]

LEMMA LoopRuns == \A m \in Nat : \E g : Runs(g, m)
<1> DEFINE S == {m \in Nat : \E g : Runs(g, m)}
<1>1. 0 \in S
  <2> DEFINE g == [i \in 0..0 |-> Before]
  <2>1. Runs(g, 0)
    BY DEF Runs
  <2> QED BY <2>1
<1>2. ASSUME NEW m \in Nat, m \in S PROVE m + 1 \in S
  <2>1. PICK g : Runs(g, m)
    BY <1>2
  <2> DEFINE h == [i \in 0..(m + 1) |-> IF i = m + 1 THEN ScanStep(g[m]) ELSE g[i]]
  <2>2. \A i \in 0..(m + 1) : h[i] = IF i = 0 THEN Before ELSE ScanStep(h[i - 1])
    <3> SUFFICES ASSUME NEW i \in 0..(m + 1)
                 PROVE  h[i] = IF i = 0 THEN Before ELSE ScanStep(h[i - 1])
      OBVIOUS
    <3>1. CASE i = m + 1
      <4>1. i - 1 = m /\ i # 0 /\ m \in 0..(m + 1) /\ m # m + 1
        BY <3>1
      <4>2. h[i] = ScanStep(g[m]) /\ h[m] = g[m]
        BY <3>1, <4>1
      <4> HIDE DEF h
      <4> QED BY <4>1, <4>2
    <3>2. CASE i # m + 1
      <4>1. i \in 0..m /\ h[i] = g[i]
        BY <3>2
      <4>2. g[i] = IF i = 0 THEN Before ELSE ScanStep(g[i - 1])
        BY <2>1, <4>1 DEF Runs
      <4>3. i # 0 => i - 1 \in 0..(m + 1) /\ i - 1 # m + 1
        BY <3>2
      <4>4. i # 0 => h[i - 1] = g[i - 1]
        BY <4>3
      <4> HIDE DEF h
      <4> QED BY <4>1, <4>2, <4>4
    <3> QED BY <3>1, <3>2
  <2>3. h = [i \in 0..(m + 1) |-> h[i]]
    OBVIOUS
  <2>4. Runs(h, m + 1)
    <3> HIDE DEF h
    <3> QED BY <2>2, <2>3 DEF Runs
  <2> HIDE DEF h
  <2> QED BY <2>4
<1> HIDE DEF S
<1>3. Nat \subseteq S
  BY <1>1, <1>2, Induction
<1> QED BY <1>3 DEF S

\* What the loop has done is a run of it.
LEMMA ScanRuns ==
  ASSUME count \in Nat
  PROVE  \E g : Runs(g, count) /\ Scan = g[count]
<1> DEFINE g == CHOOSE g : Runs(g, count)
<1>1. Runs(g, count)
  BY LoopRuns
<1>2. Scan = g[count]
  BY DEF Scan, Runs, Before
<1> QED BY <1>1, <1>2
\* Where the cursor is after i iterations, as long as the loop found nothing.
Cursor(i) ==
  IF Overflows THEN start
  ELSE IF next + i < start + count THEN next + i ELSE next + i - count

\* The loop before iteration i + 1: it found nothing and has seen that what it
\* visited is taken, or it found what the specification names.
Scanned(s, i) ==
  IF s.found
  THEN Free # {} /\ s.port = FirstFree /\ s.next = Advance(FirstFree)
  ELSE s.next = Cursor(i) /\ \A j \in 0..(i - 1) : Cursor(j) \in allocated

\* The cursor goes round the range and is back after `count' iterations.
LEMMA CursorMoves ==
  ASSUME PortInv, status = "ready", ~Panics
  PROVE  /\ start \in Nat /\ count \in Nat \ {0} /\ next \in InRange
         /\ Cursor(0) = next /\ Cursor(count) = next
         /\ \A i \in 0..(count - 1) :
              Cursor(i) \in Visited /\ Advance(Cursor(i)) = Cursor(i + 1)
         /\ \A p \in Visited : \E i \in 0..(count - 1) : Cursor(i) = p
<1> USE PortAllocatorAssumption DEF PortAllocatorAssumption
<1>1. /\ start \in Nat /\ count \in Nat \ {0} /\ next \in start..(start + count - 1)
      /\ start + count <= MaxPort + 1 /\ MaxPort \in Nat
      /\ Overflows => next = start /\ start + count = MaxPort + 1
      /\ ~Overflows => start + count <= MaxPort
  BY DEF PortInv, PortTypeOK, Bounded, Opened, Port, InRange, Overflows
<1>2. Cursor(0) = next /\ Cursor(count) = next
  BY <1>1 DEF Cursor
<1>3. ASSUME NEW i \in 0..(count - 1)
      PROVE  Cursor(i) \in Visited /\ Advance(Cursor(i)) = Cursor(i + 1)
  <2>1. CASE Overflows
    BY <1>1, <2>1 DEF Cursor, Visited, Advance, End
  <2>2. CASE ~Overflows
    <3>1. i \in Nat /\ i < count
      BY <1>1
    <3>2. CASE next + i < start + count
      BY <1>1, <2>2, <3>1, <3>2 DEF Cursor, Visited, Advance, End, InRange
    <3>3. CASE ~(next + i < start + count)
      BY <1>1, <2>2, <3>1, <3>3 DEF Cursor, Visited, Advance, End, InRange
    <3> QED BY <3>2, <3>3
  <2> QED BY <2>1, <2>2
<1>4. ASSUME NEW p \in Visited PROVE \E i \in 0..(count - 1) : Cursor(i) = p
  <2>1. CASE Overflows
    <3>1. Cursor(0) = p /\ 0 \in 0..(count - 1)
      BY <1>1, <2>1 DEF Cursor, Visited
    <3> QED BY <3>1
  <2>2. CASE ~Overflows
    <3>1. p \in start..(start + count - 1)
      BY <2>2 DEF Visited, InRange
    <3>2. CASE p >= next
      <4>1. p - next \in 0..(count - 1) /\ Cursor(p - next) = p
        BY <1>1, <2>2, <3>1, <3>2 DEF Cursor
      <4> QED BY <4>1
    <3>3. CASE ~(p >= next)
      <4>1. p - next + count \in 0..(count - 1) /\ Cursor(p - next + count) = p
        BY <1>1, <2>2, <3>1, <3>3 DEF Cursor
      <4> QED BY <4>1
    <3> QED BY <3>2, <3>3
  <2> QED BY <2>1, <2>2
<1> QED BY <1>1, <1>2, <1>3, <1>4 DEF InRange

\* A cursor that comes upon a free port after taken ones only has found the first.
LEMMA CursorFinds ==
  ASSUME PortInv, status = "ready", ~Panics, NEW i \in 0..(count - 1),
         Cursor(i) \notin allocated, \A j \in 0..(i - 1) : Cursor(j) \in allocated
  PROVE  Free # {} /\ Cursor(i) = FirstFree
<1> USE PortAllocatorAssumption DEF PortAllocatorAssumption
<1>1. /\ start \in Nat /\ count \in Nat \ {0} /\ next \in start..(start + count - 1)
      /\ Cursor(i) \in Visited /\ Cursor(0) = next
  BY CursorMoves DEF InRange
<1>2. Cursor(i) \in Free
  BY <1>1 DEF Free
<1>3. CASE Overflows
  <2>1. next = start
    BY <1>3 DEF PortInv, Bounded, Opened
  <2>2. Visited = {start}
    BY <1>3, <2>1 DEF Visited
  <2>3. Free = {start} /\ Cursor(i) = start
    BY <1>2, <2>2 DEF Free
  <2>4. Min({start}) = start
    BY <1>1, MinProperty
  <2>5. Ahead = {start}
    BY <2>1, <2>3, <1>1 DEF Ahead
  <2> QED BY <2>3, <2>4, <2>5 DEF FirstFree
<1>4. CASE ~Overflows
  <2>1. Free \in SUBSET Nat /\ Ahead \in SUBSET Nat /\ Ahead \subseteq Free
        /\ \A p \in Free : p \in start..(start + count - 1) /\ p \notin allocated
    BY <1>1, <1>4 DEF Free, Visited, InRange, Ahead
  <2>2. CASE next + i < start + count
    <3>1. Cursor(i) = next + i /\ Cursor(i) \in Ahead
      BY <1>1, <1>2, <1>4, <2>2 DEF Cursor, Ahead
    <3>2. ASSUME NEW p \in Ahead PROVE p >= next + i
      <4>1. p \in Free /\ p >= next /\ p \in Nat
        BY <2>1 DEF Ahead
      <4>2. CASE p < next + i
        <5>1. p - next \in 0..(i - 1) /\ Cursor(p - next) = p
          BY <1>1, <1>4, <2>1, <2>2, <4>1, <4>2 DEF Cursor
        <5> QED BY <2>1, <4>1, <5>1
      <4> QED BY <1>1, <4>1, <4>2
    <3>3. Min(Ahead) \in Ahead /\ \A y \in Ahead : Min(Ahead) <= y
      BY <2>1, <3>1, MinProperty
    <3>4. Min(Ahead) = next + i
      <4>1. Min(Ahead) \in Nat /\ Min(Ahead) <= next + i /\ Min(Ahead) >= next + i
        BY <2>1, <3>1, <3>2, <3>3
      <4> QED BY <1>1, <4>1
    <3> QED BY <1>2, <3>1, <3>4 DEF FirstFree
  <2>3. CASE ~(next + i < start + count)
    <3>1. Cursor(i) = next + i - count
      BY <1>4, <2>3 DEF Cursor
    <3>2. Ahead = {}
      <4> SUFFICES ASSUME NEW p \in Ahead PROVE FALSE
        OBVIOUS
      <4>1. p \in Free /\ p >= next /\ p \in Nat
        BY <2>1 DEF Ahead
      <4>2. p - next \in 0..(i - 1) /\ Cursor(p - next) = p
        BY <1>1, <1>4, <2>1, <2>3, <4>1 DEF Cursor
      <4> QED BY <2>1, <4>1, <4>2
    <3>3. ASSUME NEW p \in Free PROVE p >= next + i - count
      <4>1. p \in Nat /\ p >= start
        BY <1>1, <2>1
      <4>2. p < next
        BY <1>1, <3>2, <4>1 DEF Ahead
      <4>3. CASE p < next + i - count
        <5>1. p - next + count \in 0..(i - 1) /\ Cursor(p - next + count) = p
          BY <1>1, <1>4, <2>3, <4>1, <4>2, <4>3 DEF Cursor
        <5> QED BY <2>1, <5>1
      <4> QED BY <1>1, <4>1, <4>3
    <3>4. Min(Free) \in Free /\ \A y \in Free : Min(Free) <= y
      BY <1>2, <2>1, MinProperty
    <3>5. Min(Free) = next + i - count
      <4>1. Min(Free) \in Nat /\ Min(Free) <= next + i - count
            /\ Min(Free) >= next + i - count
        BY <1>2, <2>1, <3>1, <3>3, <3>4
      <4> QED BY <1>1, <4>1
    <3> QED BY <1>2, <3>1, <3>2, <3>5 DEF FirstFree
  <2> QED BY <2>2, <2>3
<1> QED BY <1>3, <1>4

\* The loop, iteration after iteration.
LEMMA LoopScans ==
  ASSUME PortInv, status = "ready", ~Panics, NEW g, Runs(g, count)
  PROVE  \A i \in 0..count : Scanned(g[i], i)
<1>1. count \in Nat \ {0} /\ Cursor(0) = next
  BY CursorMoves
<1>2. \A i \in 0..count : g[i] = IF i = 0 THEN Before ELSE ScanStep(g[i - 1])
  BY DEF Runs
<1> DEFINE S == {i \in Nat : i \in 0..count => Scanned(g[i], i)}
<1>3. 0 \in S
  <2>1. g[0] = Before
    BY <1>1, <1>2
  <2>2. Scanned(g[0], 0)
    BY <1>1, <2>1 DEF Scanned, Before
  <2> QED BY <2>2
<1>4. ASSUME NEW i \in Nat, i \in S PROVE i + 1 \in S
  <2> SUFFICES ASSUME i + 1 \in 0..count PROVE Scanned(g[i + 1], i + 1)
    OBVIOUS
  <2>1. i \in 0..(count - 1) /\ Scanned(g[i], i)
    BY <1>1, <1>4
  <2>2. g[i + 1] = ScanStep(g[i])
    BY <1>2
  <2>3. Advance(Cursor(i)) = Cursor(i + 1)
    BY <2>1, CursorMoves
  <2>4. CASE g[i].found
    BY <2>1, <2>2, <2>4 DEF Scanned, ScanStep
  <2>5. CASE ~g[i].found /\ Cursor(i) \notin allocated
    <3>1. Free # {} /\ Cursor(i) = FirstFree
      BY <2>1, <2>5, CursorFinds DEF Scanned
    <3>2. g[i].next = Cursor(i)
      BY <2>1, <2>5 DEF Scanned
    <3>3. (g[i].next \notin allocated) = TRUE
      BY <2>5, <3>2
    <3>4. g[i + 1] = [found |-> TRUE, port |-> Cursor(i), next |-> Advance(Cursor(i))]
      BY <2>2, <2>5, <3>2, <3>3, Zenon DEF ScanStep
    <3> QED BY <3>1, <3>4 DEF Scanned
  <2>6. CASE ~g[i].found /\ Cursor(i) \in allocated
    <3>1. g[i].next = Cursor(i)
      BY <2>1, <2>6 DEF Scanned
    <3>2. (g[i].next \notin allocated) = FALSE
      BY <2>6, <3>1
    <3>3. g[i + 1] = [found |-> FALSE, port |-> Cursor(i), next |-> Cursor(i + 1)]
      BY <2>2, <2>3, <2>6, <3>1, <3>2, Zenon DEF ScanStep
    <3>4. \A j \in 0..i : j = i \/ j \in 0..(i - 1)
      OBVIOUS
    <3>5. \A j \in 0..((i + 1) - 1) : Cursor(j) \in allocated
      BY <2>1, <2>6, <3>4 DEF Scanned
    <3> QED BY <3>3, <3>5 DEF Scanned
  <2> QED BY <2>4, <2>5, <2>6
<1> HIDE DEF S
<1>5. Nat \subseteq S
  BY <1>3, <1>4, Induction
<1> QED BY <1>1, <1>5 DEF S

\* A loop that found a port found the first one; one that has gone all the way round
\* without has seen every port taken and is where it began.
LEMMA LoopInv ==
  ASSUME PortInv PROVE LoopFindsFirstFree
<1> SUFFICES ASSUME status = "ready", ~Panics
             PROVE  /\ Scan.found <=> Free # {}
                    /\ Scan.found => Scan.port = FirstFree /\ Scan.next = Advance(FirstFree)
                    /\ ~Scan.found => Scan.next = IF Overflows THEN start ELSE next
  BY DEF LoopFindsFirstFree
<1>1. count \in Nat \ {0} /\ Cursor(count) = next
  BY CursorMoves
<1>2. PICK g : Runs(g, count) /\ Scan = g[count]
  BY <1>1, ScanRuns
<1>3. Scanned(Scan, count)
  BY <1>1, <1>2, LoopScans
<1>4. CASE Scan.found
  BY <1>3, <1>4 DEF Scanned
<1>5. CASE ~Scan.found
  <2>1. Scan.next = next /\ \A j \in 0..(count - 1) : Cursor(j) \in allocated
    BY <1>1, <1>3, <1>5 DEF Scanned
  <2>2. Free = {}
    BY <2>1, CursorMoves DEF Free
  <2>3. Overflows => next = start
    BY DEF PortInv, Bounded, Opened
  <2> QED BY <1>5, <2>1, <2>2, <2>3
<1> QED BY <1>4, <1>5

-----------------------------------------------------------------------------
\* The allocator's state is always well formed, whatever ports there are and
\* whatever range a configuration asks for.
THEOREM PortTypeCorrect == PortSpec => []PortTypeOK
<1>1. PortInv => PortTypeOK
  BY DEF PortInv
<1> QED BY <1>1, InvariantPortInv, PTL

\* allocate() never returns a port twice nor one that was reserved first.
THEOREM PortsAreUnique == PortSpec => []NoPortGivenTwice
<1>1. PortInv => NoPortGivenTwice
  BY DEF PortInv
<1> QED BY <1>1, InvariantPortInv, PTL

\* Everything handed out, and the cursor, stay inside the configured range.
THEOREM PortsStayInRange == PortSpec => []StaysInRange
<1>1. PortInv => StaysInRange
  BY PortAllocatorAssumption
     DEF PortAllocatorAssumption, PortInv, PortTypeOK, Bounded, StaysInRange, Opened,
         InRange, Port
<1> QED BY <1>1, InvariantPortInv, PTL

\* allocate() fails only when it has nothing left, or in a release build, with the
\* range that ends at the last port, when it has handed out the first of its ports.
THEOREM RefusalMeansFull == PortSpec => []RefusesOnlyWhenFull
<1>1. PortInv => RefusesOnlyWhenFull
  BY DEF PortInv
<1> QED BY <1>1, InvariantPortInv, PTL

\* The loop of allocate() finds the first free port from the cursor on, going round
\* the range, or ends where it began when there is none: every theorem about the
\* closed form is one about the loop.
THEOREM LoopFindsTheFirst == PortSpec => []LoopFindsFirstFree
BY LoopInv, InvariantPortInv, PTL

-----------------------------------------------------------------------------
\* Every step of the allocator is a step of the pool or leaves it alone.
LEMMA StepImplementsPool ==
  ASSUME PortInv, PortInv', [PortNext]_portVars
  PROVE  [Pool!PoolNext]_(Pool!poolVars)
<1> USE PortAllocatorAssumption
    DEF PortAllocatorAssumption, Pool!PoolNext, Pool!poolVars
<1> DEFINE usable == IF status \in {"uninit", "rejected"} THEN {}
                     ELSE IF Overflows THEN {start} ELSE InRange
<1>1. CASE UNCHANGED portVars
  BY <1>1 DEF portVars, fields, Overflows, InRange
<1>2. ASSUME NEW r \in Ranges, New(r[1], r[2])
      PROVE  [Pool!PoolNext]_(Pool!poolVars)
  <2>1. status = "uninit" /\ UNCHANGED <<granted, refused, allocated>>
    BY <1>2 DEF New, fields
  <2>2. CASE status' = "ready"
    <3>1. usable' # {}
      <4>1. start' \in Nat /\ count' \in Nat
        BY DEF PortInv, PortTypeOK, Port
      <4>2. count' # 0
        BY <2>2 DEF PortInv, Bounded, Opened
      <4>3. \A s, c \in Nat : c # 0 => s \in s .. (s + c - 1)
        OBVIOUS
      <4>4. start' \in start' .. (start' + count' - 1)
        BY <4>1, <4>2, <4>3
      <4> QED BY <2>2, <4>4 DEF InRange
    <3> QED BY <2>1, <3>1 DEF Pool!Open
  <2>3. CASE status' = "rejected"
    BY <2>1, <2>3
  <2> QED BY <1>2, <2>2, <2>3 DEF New
<1>3. ASSUME NEW n \in 1..MaxWant, Requests(n)
      PROVE  [Pool!PoolNext]_(Pool!poolVars)
  BY <1>3 DEF Requests, fields, Overflows, InRange
<1>4. CASE AllocateOk
  <2> USE <1>4 DEF AllocateOk
  <2>1. FirstFree \in InRange \ allocated /\ (Overflows => FirstFree = start)
    BY FirstFreeIsFree
  <2>2. FirstFree \in usable \ allocated
    BY <2>1
  <2>3. usable' = usable
    BY DEF Overflows, InRange
  <2> QED BY <2>2, <2>3 DEF Pool!Grant
<1>5. CASE AllocateErr
  <2> USE <1>5 DEF AllocateErr
  <2>1. usable' = usable
    BY DEF Overflows, InRange
  <2>2. start \in InRange
    BY DEF PortInv, Bounded, Opened, InRange, PortTypeOK, Port
  <2>3. usable # {} /\ usable \subseteq allocated
    BY <2>2 DEF Free, Visited
  <2> QED BY <2>1, <2>3 DEF Pool!Refuse
<1>6. CASE AllocatePanic
  BY <1>6 DEF AllocatePanic, fields, Overflows, InRange
<1>7. ASSUME NEW p \in Port, MarkAllocated(p)
      PROVE  [Pool!PoolNext]_(Pool!poolVars)
  <2> USE <1>7 DEF MarkAllocated, Marked
  <2>1. usable' = usable
    BY DEF Overflows, InRange
  <2>2. ~Overflows /\ p \in InRange
    BY DEF PortInv, Bounded, Opened, InRange, End, Overflows, PortTypeOK, Port
  <2>3. p \in usable
    BY <2>2
  <2> QED BY <2>1, <2>3 DEF Pool!Reserve
<1>8. CASE MarkPanic
  BY <1>8 DEF MarkPanic, fields, Overflows, InRange
<1> QED
  BY <1>1, <1>2, <1>3, <1>4, <1>5, <1>6, <1>7, <1>8 DEF PortNext

\* The allocator implements the pool: each port leaves it at most once and a
\* request is turned down only when every usable port is taken.
THEOREM AllocatorImplementsPool == PortSpec => ImplementsPool
<1>1. PortInit => Pool!PoolInit
  BY DEF PortInit, Pool!PoolInit
<1>2. PortInv /\ PortInv' /\ [PortNext]_portVars => [Pool!PoolNext]_(Pool!poolVars)
  BY StepImplementsPool
<1> QED
  BY <1>1, <1>2, InvariantPortInv, PTL DEF PortSpec, ImplementsPool, Pool!PoolSpec

-----------------------------------------------------------------------------
(* The context.                                                            *)

\* Who is in a block of the mutex holds it, and a call that is under way was made.
Holding ==
  \A t \in Thread :
    /\ pc[t] \in Inserting \cup Saving => lock = t
    /\ pc[t] # "idle" => Len(calls[t]) \in 1..MaxCalls

\* The longer history starts with the history there is, as nobody else has the mutex;
\* all keys are in by then.
Appending ==
  \A t \in Thread :
    /\ pc[t] \in {"append", "leave"} => todo[t] = {} /\ This(t).command
    /\ pc[t] = "append" => seen[t] = history

ContextInv == TypeOK /\ Holding /\ Appending

\* The value of a call under way is a value of the store.
LEMMA MineIsValue ==
  ASSUME Holding, NEW t \in Thread, pc[t] # "idle"
  PROVE  Mine(t) \in Value
BY DEF Holding, Mine, Value

\* A step of one thread leaves the others where they are.
LEMMA GotoMoves ==
  ASSUME TypeOK, NEW t \in Thread, NEW there, Goto(t, there),
         there \in {"idle", "enter", "save"} \cup Inserting \cup Saving
  PROVE  /\ pc' \in [Thread -> {"idle", "enter", "save"} \cup Inserting \cup Saving]
         /\ pc'[t] = there /\ \A u \in Thread \ {t} : pc'[u] = pc[u]
BY DEF TypeOK, Goto

\* No call is under way when an epoch begins.
LEMMA InitContextInv == Init => ContextInv
<1> SUFFICES ASSUME Init PROVE ContextInv
  OBVIOUS
<1>1. TypeOK
  BY DEF Init, TypeOK, Absent
<1>2. Holding /\ Appending
  BY DEF Init, Holding, Appending, Inserting, Saving
<1> QED BY <1>1, <1>2 DEF ContextInv

\* Every step of a call, and the death of the process.
LEMMA NextContextInv ==
  ASSUME ContextInv, [Next]_vars
  PROVE  ContextInv'
<1> USE ContextAssumption DEF ContextInv, At
<1>1. CASE Dies
  BY <1>1 DEF Dies, TypeOK, Holding, Appending, This
<1>2. ASSUME NEW t \in Thread, Calls(t) PROVE ContextInv'
  <2> USE <1>2 DEF Calls
  <2>1. PICK c \in Call : /\ calls' = [calls EXCEPT ![t] = Append(calls[t], c)]
                          /\ todo' = [todo EXCEPT ![t] = c.keys]
    OBVIOUS
  <2>2. /\ pc' \in [Thread -> {"idle", "enter", "save"} \cup Inserting \cup Saving]
        /\ pc'[t] = "enter" /\ \A u \in Thread \ {t} : pc'[u] = pc[u]
    BY GotoMoves
  <2>3. calls[t] \in Seq(Call) /\ Len(calls[t]) \in Nat /\ c.keys \in SUBSET Key
    <3>1. c \in [keys : SUBSET Key \ {{}}, command : BOOLEAN]
      BY DEF Call
    <3>2. calls[t] \in Seq(Call)
      BY DEF TypeOK
    <3> QED BY <3>1, <3>2
  <2>4. Append(calls[t], c) \in Seq(Call) /\ Len(Append(calls[t], c)) = Len(calls[t]) + 1
    BY <2>3
  <2>5. /\ calls' \in [Thread -> Seq(Call)] /\ todo' \in [Thread -> SUBSET Key]
        /\ Len(calls'[t]) \in 1..MaxCalls
        /\ \A u \in Thread \ {t} : calls'[u] = calls[u] /\ todo'[u] = todo[u]
    BY <2>1, <2>3, <2>4 DEF TypeOK
  <2>6. lock # t
    BY DEF TypeOK, Inserting, Saving
  <2>7. TypeOK'
    BY <2>2, <2>5, <2>6 DEF TypeOK
  <2>8. Holding'
    BY <2>2, <2>5, <2>6 DEF Holding, Inserting, Saving
  <2>9. Appending'
    BY <2>2, <2>5 DEF Appending, This
  <2> QED BY <2>7, <2>8, <2>9
<1>3. ASSUME NEW t \in Thread, Enters(t) PROVE ContextInv'
  <2> USE <1>3 DEF Enters, CanLock
  <2>1. /\ pc' \in [Thread -> {"idle", "enter", "save"} \cup Inserting \cup Saving]
        /\ pc'[t] = "insert" /\ \A u \in Thread \ {t} : pc'[u] = pc[u]
    BY GotoMoves DEF Inserting
  <2>2. TypeOK'
    BY <2>1 DEF TypeOK, Inserting
  <2>3. Holding'
    BY <2>1 DEF Holding
  <2>4. Appending'
    BY <2>1 DEF Appending, This
  <2> QED BY <2>2, <2>3, <2>4
<1>4. ASSUME NEW t \in Thread, Inserts(t) PROVE ContextInv'
  <2> USE <1>4 DEF Inserts
  <2>1. Mine(t) \in Value
    BY MineIsValue
  <2>2. TypeOK'
    BY <2>1 DEF TypeOK
  <2>3. Holding'
    BY DEF Holding
  <2>4. Appending'
    BY DEF Appending, This, TypeOK
  <2> QED BY <2>2, <2>3, <2>4
<1>5. ASSUME NEW t \in Thread, ReadsHistory(t) PROVE ContextInv'
  <2> USE <1>5 DEF ReadsHistory
  <2>1. /\ pc' \in [Thread -> {"idle", "enter", "save"} \cup Inserting \cup Saving]
        /\ pc'[t] = "append" /\ \A u \in Thread \ {t} : pc'[u] = pc[u]
    BY GotoMoves DEF Inserting
  <2>2. TypeOK'
    BY <2>1 DEF TypeOK, Inserting
  <2>3. Holding'
    BY <2>1 DEF Holding, Inserting
  <2>4. Appending'
    BY <2>1 DEF Appending, This, TypeOK
  <2> QED BY <2>2, <2>3, <2>4
<1>6. ASSUME NEW t \in Thread, Appends(t) PROVE ContextInv'
  <2> USE <1>6 DEF Appends
  <2>1. /\ pc' \in [Thread -> {"idle", "enter", "save"} \cup Inserting \cup Saving]
        /\ pc'[t] = "leave" /\ \A u \in Thread \ {t} : pc'[u] = pc[u]
    BY GotoMoves DEF Inserting
  <2>2. history' \in Seq(Value) /\ seen' \in [Thread -> Seq(Value)]
    BY MineIsValue DEF TypeOK
  <2>3. TypeOK'
    BY <2>1, <2>2 DEF TypeOK, Inserting
  <2>4. Holding'
    BY <2>1 DEF Holding, Inserting
  <2>5. \A u \in Thread \ {t} : pc[u] # "append"
    BY DEF Holding, Inserting
  <2>6. Appending'
    BY <2>1, <2>5 DEF Appending, This
  <2> QED BY <2>3, <2>4, <2>6
<1>7. ASSUME NEW t \in Thread, Leaves(t) PROVE ContextInv'
  <2> USE <1>7 DEF Leaves, Released, AfterInsert
  <2>1. /\ pc' \in [Thread -> {"idle", "enter", "save"} \cup Inserting \cup Saving]
        /\ pc'[t] = "save" /\ \A u \in Thread \ {t} : pc'[u] = pc[u]
    BY GotoMoves
  <2>2. TypeOK'
    BY <2>1 DEF TypeOK
  <2>3. Holding'
    BY <2>1 DEF Holding, Inserting, Saving
  <2>4. Appending'
    BY <2>1 DEF Appending, This
  <2> QED BY <2>2, <2>3, <2>4
<1>8. ASSUME NEW t \in Thread, LocksToSave(t) PROVE ContextInv'
  <2> USE <1>8 DEF LocksToSave, CanLock
  <2>1. /\ pc' \in [Thread -> {"idle", "enter", "save"} \cup Inserting \cup Saving]
        /\ pc'[t] = "create" /\ \A u \in Thread \ {t} : pc'[u] = pc[u]
    BY GotoMoves DEF Saving
  <2>2. TypeOK'
    BY <2>1 DEF TypeOK, Saving
  <2>3. Holding'
    BY <2>1 DEF Holding
  <2>4. Appending'
    BY <2>1 DEF Appending, This
  <2> QED BY <2>2, <2>3, <2>4
<1>9. ASSUME NEW t \in Thread, CreatesFile(t) PROVE ContextInv'
  <2> USE <1>9 DEF CreatesFile
  <2>1. /\ pc' \in [Thread -> {"idle", "enter", "save"} \cup Inserting \cup Saving]
        /\ pc'[t] = "write" /\ \A u \in Thread \ {t} : pc'[u] = pc[u]
    BY GotoMoves DEF Saving
  <2>2. TypeOK'
    BY <2>1 DEF TypeOK, Saving, Unreadable
  <2>3. Holding'
    BY <2>1 DEF Holding, Saving
  <2>4. Appending'
    BY <2>1 DEF Appending, This
  <2> QED BY <2>2, <2>3, <2>4
<1>10. ASSUME NEW t \in Thread, Writes(t) \/ SaveFails(t) PROVE ContextInv'
  <2> USE <1>10 DEF Writes, SaveFails
  <2>1. /\ pc' \in [Thread -> {"idle", "enter", "save"} \cup Inserting \cup Saving]
        /\ pc'[t] = "idle" /\ \A u \in Thread \ {t} : pc'[u] = pc[u]
    BY GotoMoves
  <2>2. TypeOK'
    BY <2>1 DEF TypeOK, Snapshot, Whole
  <2>3. Holding'
    BY <2>1 DEF Holding, Inserting, Saving
  <2>4. Appending'
    BY <2>1 DEF Appending, This
  <2> QED BY <2>2, <2>3, <2>4
<1>11. CASE UNCHANGED vars
  BY <1>11 DEF vars, TypeOK, Holding, Appending, This
<1> QED
  BY <1>1, <1>2, <1>3, <1>4, <1>5, <1>6, <1>7, <1>8, <1>9, <1>10, <1>11 DEF Next, Moves

\* The inductive invariant holds of the specification.
LEMMA InvariantContextInv == Spec => []ContextInv
BY InitContextInv, NextContextInv, PTL DEF Spec

-----------------------------------------------------------------------------
\* Every variable keeps its type, and the mutex is held by a thread in a block of it.
THEOREM ContextTypeCorrect == Spec => []TypeOK
<1>1. ContextInv => TypeOK
  BY DEF ContextInv
<1> QED BY <1>1, InvariantContextInv, PTL

\* save_to_file writes the map as it is when it has the mutex: however many threads
\* insert and save in whatever order, a quiet context whose last save did not fail
\* has a file that holds all of it.
THEOREM FileIsCurrent == Spec => []FileKeepsUp
<1>1. Init => FileKeepsUp
  BY DEF Init, FileKeepsUp
<1>2. ContextInv /\ FileKeepsUp /\ [Next]_vars => FileKeepsUp'
  <2> SUFFICES ASSUME ContextInv, FileKeepsUp, [Next]_vars PROVE FileKeepsUp'
    OBVIOUS
  <2> DEFINE Quiet == \A t \in Thread : pc[t] \in {"idle", "enter"}
  <2> USE DEF ContextInv, At
  <2>1. CASE Dies \/ UNCHANGED vars
    BY <2>1 DEF Dies, vars, FileKeepsUp
  <2>2. ASSUME NEW t \in Thread, Calls(t) PROVE FileKeepsUp'
    <3>1. pc[t] = "idle" /\ \A u \in Thread \ {t} : pc'[u] = pc[u]
      BY <2>2, GotoMoves DEF Calls
    <3> QED BY <2>2, <3>1 DEF Calls, FileKeepsUp
  <2>3. ASSUME NEW t \in Thread, Writes(t) PROVE FileKeepsUp'
    BY <2>3 DEF Writes, FileKeepsUp, Snapshot
  <2>4. ASSUME NEW t \in Thread, SaveFails(t) PROVE FileKeepsUp'
    BY <2>4 DEF SaveFails, FileKeepsUp
  <2>5. ASSUME NEW t \in Thread,
               \/ Enters(t) \/ Inserts(t) \/ ReadsHistory(t) \/ Appends(t) \/ Leaves(t)
               \/ LocksToSave(t) \/ CreatesFile(t)
        PROVE  FileKeepsUp'
    <3>1. ~Quiet'
      BY <2>5 DEF TypeOK, Enters, Inserts, ReadsHistory, Appends, Leaves, LocksToSave,
                  CreatesFile, Goto, AfterInsert
    <3> QED BY <3>1 DEF FileKeepsUp
  <2> QED BY <2>1, <2>2, <2>3, <2>4, <2>5 DEF Next, Moves
<1> QED BY <1>1, <1>2, InvariantContextInv, PTL DEF Spec

-----------------------------------------------------------------------------
\* A step of the context is one of the store, or none: the insertions of a call all
\* count from the moment it has the mutex.
LEMMA StepImplementsStore ==
  ASSUME ContextInv, [Next]_vars
  PROVE  [Store!StoreNext]_<<EffectiveMap, EffectiveHistory, file>>
<1> USE ContextAssumption DEF ContextInv, At
<1> DEFINE Same == UNCHANGED <<EffectiveMap, EffectiveHistory, file>>
<1>0. state \in [Key -> Value \cup {None}]
  BY DEF TypeOK
<1>1. CASE Dies \/ UNCHANGED vars
  BY <1>1 DEF Dies, vars, EffectiveMap, EffectiveHistory, Mine, This
<1>2. ASSUME NEW t \in Thread, Calls(t) PROVE Same
  <2>1. lock # t /\ \A u \in Thread \ {t} : /\ pc'[u] = pc[u] /\ calls'[u] = calls[u]
                                            /\ todo'[u] = todo[u]
    BY <1>2, GotoMoves DEF Calls, TypeOK, Inserting, Saving
  <2>2. lock \in Thread \cup {None} /\ UNCHANGED <<state, history, lock, file>>
    BY <1>2 DEF Calls, TypeOK
  <2> QED BY <2>1, <2>2 DEF EffectiveMap, EffectiveHistory, Mine, This
<1>3. ASSUME NEW t \in Thread, Enters(t) PROVE Store!Update(todo[t], Mine(t))
  <2> USE <1>3 DEF Enters, CanLock
  <2>1. pc'[t] = "insert" /\ lock = None /\ lock' = t
    BY GotoMoves DEF Inserting
  <2>2. EffectiveMap = state /\ EffectiveHistory = history
    BY <2>1 DEF EffectiveMap, EffectiveHistory
  <2>3. EffectiveMap' = [k \in Key |-> IF k \in todo[t] THEN Mine(t) ELSE state[k]]
    BY <2>1 DEF EffectiveMap, Inserting, Mine
  <2>4. EffectiveHistory' \in {history, Append(history, Mine(t))}
    BY <2>1 DEF EffectiveHistory, Mine
  <2> QED BY <2>2, <2>3, <2>4 DEF Store!Update
<1>4. ASSUME NEW t \in Thread, Inserts(t) PROVE Same
  <2> USE <1>4 DEF Inserts
  <2>1. lock = t /\ pc[t] \in Inserting
    BY DEF Holding, Inserting
  <2>2. PICK k \in todo[t] : /\ state' = [state EXCEPT ![k] = Mine(t)]
                             /\ todo' = [todo EXCEPT ![t] = todo[t] \ {k}]
    OBVIOUS
  <2>3. EffectiveMap' = EffectiveMap
    <3>1. EffectiveMap = [j \in Key |-> IF j \in todo[t] THEN Mine(t) ELSE state[j]]
      BY <2>1 DEF EffectiveMap
    <3>2. EffectiveMap' = [j \in Key |-> IF j \in todo'[t] THEN Mine(t) ELSE state'[j]]
      BY <2>1 DEF EffectiveMap, Mine
    <3>3. todo'[t] = todo[t] \ {k}
      BY <2>2 DEF TypeOK
    <3>4. \A j \in Key : state'[j] = IF j = k THEN Mine(t) ELSE state[j]
      BY <1>0, <2>2
    <3> QED BY <2>2, <3>1, <3>2, <3>3, <3>4
  <2> QED BY <2>1, <2>3 DEF EffectiveHistory, Mine, This
<1>5. ASSUME NEW t \in Thread, ReadsHistory(t) PROVE Same
  <2> USE <1>5 DEF ReadsHistory
  <2>1. pc[t] = "insert" /\ pc'[t] = "append" /\ lock = t
    BY GotoMoves DEF Holding, Inserting
  <2> QED BY <2>1 DEF EffectiveMap, EffectiveHistory, Mine, This, Inserting
<1>6. ASSUME NEW t \in Thread, Appends(t) PROVE Same
  <2> USE <1>6 DEF Appends
  <2>1. pc[t] = "append" /\ pc'[t] = "leave" /\ lock = t /\ seen[t] = history /\ This(t).command
    BY GotoMoves DEF Holding, Appending, Inserting
  <2> QED BY <2>1 DEF EffectiveMap, EffectiveHistory, Mine, This, Inserting
<1>7. ASSUME NEW t \in Thread, Leaves(t) PROVE Same
  <2> USE <1>7 DEF Leaves, Released, AfterInsert
  <2>1. pc[t] \in Inserting /\ lock = t /\ lock' = None /\ todo[t] = {}
    BY DEF Holding, Appending, Inserting
  <2>2. EffectiveMap = state /\ EffectiveMap' = state
    BY <1>0, <2>1 DEF EffectiveMap
  <2>3. EffectiveHistory = history /\ EffectiveHistory' = history
    BY <2>1 DEF EffectiveHistory
  <2> QED BY <2>2, <2>3
<1>8. ASSUME NEW t \in Thread, LocksToSave(t) PROVE Same
  <2>1. pc'[t] = "create" /\ lock = None /\ lock' = t
    BY <1>8, GotoMoves DEF LocksToSave, CanLock, Saving
  <2> QED BY <1>8, <2>1 DEF LocksToSave, EffectiveMap, EffectiveHistory, Inserting
<1>9. ASSUME NEW t \in Thread, CreatesFile(t) PROVE Store!Tear
  <2>1. pc[t] = "create" /\ pc'[t] = "write" /\ lock = t
    BY <1>9, GotoMoves DEF CreatesFile, Holding, Saving
  <2> QED BY <1>9, <2>1 DEF CreatesFile, Store!Tear, Store!Unreadable, Unreadable,
                            EffectiveMap, EffectiveHistory, Inserting
<1>10. ASSUME NEW t \in Thread, Writes(t) PROVE Store!Save
  <2>1. pc[t] = "write" /\ lock = t /\ lock' = None
    BY <1>10 DEF Writes, Holding, Saving
  <2> QED BY <1>10, <2>1 DEF Writes, Store!Save, Store!Whole, Snapshot, Whole,
                             EffectiveMap, EffectiveHistory, Inserting
<1>11. ASSUME NEW t \in Thread, SaveFails(t) PROVE Same
  <2>1. pc[t] \in Saving /\ lock = t /\ lock' = None
    BY <1>11 DEF SaveFails, Holding
  <2> QED BY <1>11, <2>1 DEF SaveFails, EffectiveMap, EffectiveHistory, Inserting, Saving
<1>12. ASSUME NEW t \in Thread, Enters(t) PROVE Store!StoreNext
  <2>1. todo[t] \in SUBSET Key /\ Mine(t) \in Value
    BY <1>12, MineIsValue DEF TypeOK, Enters
  <2> QED BY <1>3, <1>12, <2>1 DEF Store!StoreNext
<1> QED
  BY <1>1, <1>2, <1>4, <1>5, <1>6, <1>7, <1>8, <1>9, <1>10, <1>11, <1>12
  DEF Next, Moves, Store!StoreNext

\* The context keeps the store's promise: atomic writes, and a file that is one of
\* the states the map went through, or cannot be read.
THEOREM ContextImplementsStore == Spec => ImplementsStore
<1>1. Init => Store!StoreInit
  BY ContextAssumption DEF Init, Store!StoreInit, Store!Absent, Absent, EffectiveMap,
                           EffectiveHistory
<1>2. ContextInv /\ [Next]_vars => [Store!StoreNext]_<<EffectiveMap, EffectiveHistory, file>>
  BY StepImplementsStore
<1> QED BY <1>1, <1>2, InvariantContextInv, PTL DEF Spec, ImplementsStore, Store!StoreSpec
=============================================================================
