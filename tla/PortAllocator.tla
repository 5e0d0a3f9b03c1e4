--------------------------- MODULE PortAllocator ---------------------------
(***************************************************************************)
(* PortAllocator (port_allocator.rs) behind the mutex of SetupContext      *)
(* (step/mod.rs): a contiguous range of u16 ports, scanned round-robin     *)
(* from a cursor.  The steps of an epoch call it from several threads;     *)
(* the mutex is held for a whole call, so the calls are serialised and     *)
(* `want' below is the number of ports the call in progress still owes.    *)
(*                                                                         *)
(* Arithmetic is u16 arithmetic: `start + count' may be MaxPort + 1, which *)
(* `new' lets through.  A build with overflow checks (`checks') panics     *)
(* there, a release build wraps to 0.                                      *)
(***************************************************************************)
EXTENDS Integers, Sequences, FiniteSetsExt

CONSTANTS
  MaxPort,         \* u16::MAX
  Ranges,          \* the <<start, count>> pairs a configuration may ask for
  MaxWant          \* the largest allocate_multiple request

ASSUME PortAllocatorAssumption ==
  /\ MaxPort \in Nat \ {0}
  /\ Ranges \subseteq (0..MaxPort) \X (0..MaxPort)
  /\ MaxWant \in Nat \ {0}

VARIABLES
  checks,     \* TRUE in a debug build, FALSE in a release build
  status,     \* "uninit", "ready", "rejected" (new failed) or "panicked"
  start, count, allocated, next,   \* the fields of struct PortAllocator
  want,       \* ports the call that holds the mutex still has to allocate
  granted,    \* history: what allocate() returned, in order
  reserved,   \* history: ports marked before anybody was given them
  refused     \* history: whether an allocate() returned an error

fields == <<start, count, allocated, next>>
portVars == <<checks, status, fields, want, granted, reserved, refused>>

Port == 0..MaxPort

\* The range the configuration asked for, and `start + count' as u16.
InRange == start .. (start + count - 1)
Overflows == start + count > MaxPort
Panics == Overflows /\ checks
End == IF Overflows THEN start + count - (MaxPort + 1) ELSE start + count

\* self.next += 1; if self.next >= end { self.next = self.start }
Advance(p) ==
  LET q == IF p = MaxPort THEN 0 ELSE p + 1
  IN  IF q >= End THEN start ELSE q

\* Mutant: the loop stops before the last port.
MutVisitedShort ==
  IF Overflows THEN {next, start} ELSE start .. (start + count - 2)

\* The ports one call looks at: the whole range, or, when `end' wrapped to a
\* value no port is below, the cursor and the start it is reset to.
Visited == IF Overflows THEN {next, start} ELSE InRange
Free == Visited \ allocated
Ahead == {p \in Free : p >= next}
\* Mutant: the cursor is handed out unchecked.
MutFirstFreeUnchecked == next
FirstFree == IF Ahead # {} THEN Min(Ahead) ELSE Min(Free)

\* Mutant: the cursor advances only past ports that are taken.
MutScanStepLate(s) ==
  IF s.found THEN s
  ELSE [ found |-> s.next \notin allocated,
         port  |-> s.next,
         next  |-> IF s.next \in allocated THEN Advance(s.next) ELSE s.next ]

\* allocate()'s loop, one iteration: `port = next', advance, test.
ScanStep(s) ==
  IF s.found THEN s
  ELSE [ found |-> s.next \notin allocated,
         port  |-> s.next,
         next  |-> Advance(s.next) ]

\* The state of the loop after `count' iterations.
Scan ==
  LET scan[i \in 0..count] ==
        IF i = 0 THEN [found |-> FALSE, port |-> next, next |-> next]
        ELSE ScanStep(scan[i - 1])
  IN  scan[count]

-----------------------------------------------------------------------------
PortInit ==
  /\ checks \in BOOLEAN
  /\ status = "uninit"
  /\ start = 0 /\ count = 0 /\ next = 0
  /\ allocated = {}
  /\ want = 0
  /\ granted = << >>
  /\ reserved = {}
  /\ refused = FALSE

\* The check of new(): count is not 0 and start + (count - 1) is a u16.
Fits(s, c) == c # 0 /\ s + (c - 1) <= MaxPort

New(s, c) ==
  /\ status = "uninit"
  /\ IF Fits(s, c)
     THEN /\ status' = "ready"
          /\ start' = s /\ count' = c /\ next' = s
          /\ UNCHANGED allocated
     ELSE /\ status' = "rejected"
          /\ UNCHANGED fields
  /\ UNCHANGED <<checks, want, granted, reserved, refused>>

\* allocate_port is a call for one port, allocate_multiple_ports for n of them.
Requests(n) ==
  /\ status = "ready" /\ want = 0
  /\ want' = n
  /\ UNCHANGED <<checks, status, fields, granted, reserved, refused>>

AllocateOk ==
  /\ status = "ready" /\ want > 0
  /\ ~Panics
  /\ Free # {}
  /\ allocated' = allocated \cup {FirstFree}
  /\ next' = Advance(FirstFree)
  /\ granted' = Append(granted, FirstFree)
  /\ want' = want - 1
  /\ UNCHANGED <<checks, status, start, count, reserved, refused>>

\* The whole call fails: what it had allocated before stays allocated.
AllocateErr ==
  /\ status = "ready" /\ want > 0
  /\ ~Panics
  /\ Free = {}
  /\ next' = IF Overflows THEN start ELSE next
  /\ want' = 0
  /\ refused' = TRUE
  /\ UNCHANGED <<checks, status, start, count, allocated, granted, reserved>>

AllocatePanic ==
  /\ status = "ready" /\ want > 0
  /\ Panics
  /\ status' = "panicked"
  /\ want' = 0
  /\ UNCHANGED <<checks, fields, granted, reserved, refused>>

\* Mutant: a reserved port is not entered in the set.
MutMarkNotKept(p) == allocated

Marked(p) == allocated \cup {p}

\* mark_allocated: silent when the port is already in the set, and the cursor
\* stays where it is.  An error changes nothing.
MarkAllocated(p) ==
  /\ status = "ready" /\ want = 0
  /\ p >= start
  /\ ~Panics
  /\ p < End
  /\ allocated' = Marked(p)
  /\ reserved' = IF p \in allocated THEN reserved ELSE reserved \cup {p}
  /\ UNCHANGED <<checks, status, start, count, next, want, granted, refused>>

\* Any port panics: the bounds test and the text of the error both add.
MarkPanic ==
  /\ status = "ready" /\ want = 0
  /\ Panics
  /\ status' = "panicked"
  /\ UNCHANGED <<checks, fields, want, granted, reserved, refused>>

PortNext ==
  \/ \E r \in Ranges : New(r[1], r[2])
  \/ \E n \in 1..MaxWant : Requests(n)
  \/ AllocateOk
  \/ AllocateErr
  \/ AllocatePanic
  \/ \E p \in Port : MarkAllocated(p)
  \/ MarkPanic

PortSpec == PortInit /\ [][PortNext]_portVars

-----------------------------------------------------------------------------
PortTypeOK ==
  /\ checks \in BOOLEAN
  /\ status \in {"uninit", "ready", "rejected", "panicked"}
  /\ start \in Port /\ count \in Port /\ next \in Port
  /\ allocated \subseteq Port
  /\ want \in 0..MaxWant
  /\ granted \in Seq(Port)
  /\ reserved \subseteq Port
  /\ refused \in BOOLEAN

\* No call ever returns a port that an earlier call returned or that was
\* reserved (for Portainer) first, whatever the calls before it and whether or
\* not the range ends at the last port: "each allocation is unique"
\* (port_allocator.rs:14).
NoPortGivenTwice ==
  /\ \A i, j \in 1..Len(granted) : i # j => granted[i] # granted[j]
  /\ \A i \in 1..Len(granted) : granted[i] \notin reserved

\* What is handed out or reserved lies in the configured range, and so does the
\* cursor: "within the configured range" (port_allocator.rs:14).
StaysInRange ==
  status \in {"ready", "panicked"} =>
    /\ allocated \subseteq InRange
    /\ next \in InRange
    /\ InRange \subseteq Port

\* An allocation fails only when the range is used up: the scan of `count' steps
\* from any cursor misses no port.  The exception is the range that ends at the last
\* u16 port: a debug build never gets as far as a refusal, and a release build refuses
\* when it has handed out the first port, and no other, however long the range is.
RefusesOnlyWhenFull ==
  refused => IF Overflows THEN ~checks /\ allocated = {start}
             ELSE InRange \subseteq allocated

\* The loop finds exactly the port the specification names and leaves the cursor
\* where the specification does, in every reachable state of the allocator.
LoopFindsFirstFree ==
  status = "ready" /\ ~Panics =>
    /\ Scan.found <=> Free # {}
    /\ Scan.found => Scan.port = FirstFree /\ Scan.next = Advance(FirstFree)
    /\ ~Scan.found => Scan.next = IF Overflows THEN start ELSE next

\* The allocator is a pool that hands every usable port out at most once.
Pool == INSTANCE PortPool WITH
  usable <- IF status \in {"uninit", "rejected"} THEN {}
            ELSE IF Overflows THEN {start} ELSE InRange,
  taken <- allocated

ImplementsPool == Pool!PoolSpec
=============================================================================
