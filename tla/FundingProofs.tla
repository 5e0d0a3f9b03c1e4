----------------------------- MODULE FundingProofs -----------------------------
(***************************************************************************)
(* Proofs about Funding, for any number of users, providers and threads,   *)
(* any supply, any limit on the tries and any bound on the failures.  The  *)
(* invariant says where each nonce of the deployer is - not sent, in the   *)
(* pool, or on chain - relative to the batches of threads; that numbers    *)
(* taken from batches leave no gap is arithmetic of div and mod, and what  *)
(* the deployer has left is a recursive sum, reasoned about by induction.  *)
(***************************************************************************)
EXTENDS Funding, WellFoundedInduction, TLAPS

-----------------------------------------------------------------------------
(* Arithmetic.                                                             *)

\* Induction over the naturals, for a set of them.
LEMMA Induction ==
  ASSUME NEW S, 0 \in S, \A n \in Nat : n \in S => n + 1 \in S
  PROVE  Nat \subseteq S
<1> SUFFICES ASSUME Nat \ S # {} PROVE FALSE
  OBVIOUS
<1> DEFINE R == {ss \in Nat \X Nat : ss[1] < ss[2]}
<1>1. IsWellFoundedOn(R, Nat)
  BY NatLessThanWellFounded, Zenon DEF OpToRel
<1>2. PICK m \in Nat \ S : \A y \in Nat \ S : ~(<<y, m>> \in R)
  <2> HIDE DEF R
  <2> QED BY <1>1, WFMin
<1>3. \A y \in Nat \ S : ~(y < m)
  BY <1>2
<1>4. m - 1 \in Nat /\ m - 1 \in S
  BY <1>3
<1>5. (m - 1) + 1 \in S
  BY <1>4
<1> QED BY <1>5

\* What is known of the constants and of the accounts.
LEMMA Constants ==
  /\ MaxSp \in Nat /\ Supply \in Nat /\ MaxFaults \in Nat
  /\ Users \in Nat \ {0} /\ Batch \in Nat \ {0} /\ MaxTries \in Nat \ {0}
BY FundingAssumption

\* Quotient and remainder.
LEMMA Division ==
  ASSUME NEW n \in Nat, NEW d \in Nat \ {0}
  PROVE  /\ n = (n \div d) * d + (n % d)
         /\ n \div d \in Nat /\ n % d \in 0..(d - 1) /\ n \div d <= n
         /\ \A m \in Nat : n <= m => n \div d <= m \div d
OBVIOUS

\* batch_idx * MAX_CONCURRENT_TRANSFERS + batch_transfer_idx + 1 numbers the accounts
\* without a gap, whatever the size of a batch.
LEMMA NonceIsNumber ==
  ASSUME NEW a \in Nat \ {0}
  PROVE  NonceOf(a) = a
<1>1. a - 1 = ((a - 1) \div Batch) * Batch + ((a - 1) % Batch)
  BY Constants, Division
<1>2. (a - 1) \div Batch \in Nat /\ (a - 1) % Batch \in Nat
  BY Constants, Division
<1>3. BatchOf(a) - 1 = (a - 1) \div Batch
  BY <1>2 DEF BatchOf
<1>4. (BatchOf(a) - 1) * Batch = a - 1 - ((a - 1) % Batch)
  <2>1. ((a - 1) \div Batch) * Batch \in Nat
    BY <1>2, Constants
  <2>2. ((a - 1) \div Batch) * Batch = a - 1 - ((a - 1) % Batch)
    BY <1>1, <1>2, <2>1
  <2> QED BY <1>3, <2>2
<1> QED BY <1>2, <1>4 DEF NonceOf

\* Batches are in the order of the accounts.
LEMMA Batches ==
  ASSUME NEW a \in Nat \ {0}
  PROVE  /\ BatchOf(a) \in 1..a
         /\ \A b \in Nat \ {0} : a <= b => BatchOf(a) <= BatchOf(b)
<1>1. a - 1 \in Nat /\ Batch \in Nat \ {0}
  BY Constants
<1>2. (a - 1) \div Batch \in Nat /\ (a - 1) \div Batch <= a - 1
  BY <1>1, Division
<1>3. ASSUME NEW b \in Nat \ {0}, a <= b
      PROVE  (a - 1) \div Batch <= (b - 1) \div Batch /\ (b - 1) \div Batch \in Nat
  BY <1>1, <1>3, Division
<1> QED BY <1>2, <1>3 DEF BatchOf

\* The first batch is not empty, and no batch between two others is.
LEMMA NextBatch ==
  ASSUME NEW a \in Nat \ {0}, NEW i \in 1..BatchOf(a)
  PROVE  \E b \in 1..a : BatchOf(b) = i
<1> DEFINE b == (i - 1) * Batch + 1
<1>1. a - 1 \in Nat /\ Batch \in Nat \ {0}
  BY Constants
<1>2. a - 1 = ((a - 1) \div Batch) * Batch + ((a - 1) % Batch)
  BY Constants, Division
<1>3. (a - 1) \div Batch \in Nat
  BY <1>1, Division
<1>4. (a - 1) % Batch \in Nat
  BY <1>1, Division
<1>5. i - 1 \in Nat /\ i - 1 <= (a - 1) \div Batch
  BY <1>3 DEF BatchOf
<1>6. (i - 1) * Batch \in Nat /\ (i - 1) * Batch <= ((a - 1) \div Batch) * Batch
  BY <1>1, <1>5, <1>3
<1>7. b \in 1..a
  <2>1. ((a - 1) \div Batch) * Batch <= a - 1
    BY <1>1, <1>2, <1>3, <1>4
  <2> QED BY <1>1, <1>6, <2>1
<1>8. (b - 1) \div Batch = i - 1
  <2>1. ((i - 1) * Batch) \div Batch = i - 1
    BY <1>1, <1>5
  <2> QED BY <2>1, <1>6
<1> HIDE DEF b
<1>9. BatchOf(b) = i
  BY <1>5, <1>8 DEF BatchOf
<1> QED BY <1>7, <1>9

-----------------------------------------------------------------------------
(* What the accounts up to a given one are to get.                         *)

\* f is the sums up to m.
Sums(f, m) == f = [a \in 0..m |-> IF a = 0 THEN 0 ELSE f[a - 1] + Amount(a)]

\* There is such a function, so that the recursive Sum is one.
LEMMA SumExists == \A m \in Nat : \E f : Sums(f, m)
<1> DEFINE S == {m \in Nat : \E f : Sums(f, m)}
<1>1. 0 \in S
  <2> DEFINE f == [a \in 0..0 |-> 0]
  <2>1. Sums(f, 0)
    BY DEF Sums
  <2> QED BY <2>1
<1>2. ASSUME NEW m \in Nat, m \in S PROVE m + 1 \in S
  <2>1. PICK f : Sums(f, m)
    BY <1>2
  <2> DEFINE g == [a \in 0..(m + 1) |-> IF a = m + 1 THEN f[m] + Amount(a) ELSE f[a]]
  <2>2. ASSUME NEW a \in 0..(m + 1)
        PROVE  g[a] = IF a = 0 THEN 0 ELSE g[a - 1] + Amount(a)
    <3>1. CASE a = m + 1
      <4>1. a - 1 = m /\ a # 0 /\ m \in 0..(m + 1) /\ m # m + 1
        BY <3>1
      <4>2. g[a] = f[m] + Amount(a) /\ g[m] = f[m]
        BY <3>1, <4>1
      <4> HIDE DEF g
      <4> QED BY <4>1, <4>2
    <3>2. CASE a # m + 1
      <4>1. a \in 0..m /\ g[a] = f[a]
        BY <3>2
      <4>2. f[a] = IF a = 0 THEN 0 ELSE f[a - 1] + Amount(a)
        BY <2>1, <4>1 DEF Sums
      <4>3. a # 0 => a - 1 \in 0..(m + 1) /\ a - 1 # m + 1
        BY <3>2
      <4>4. a # 0 => g[a - 1] = f[a - 1]
        BY <4>3
      <4> HIDE DEF g
      <4> QED BY <4>1, <4>2, <4>4
    <3> QED BY <3>1, <3>2
  <2>3. g = [a \in 0..(m + 1) |-> g[a]]
    OBVIOUS
  <2>4. Sums(g, m + 1)
    <3> HIDE DEF g
    <3> QED BY <2>2, <2>3 DEF Sums
  <2> HIDE DEF g
  <2> QED BY <2>4
<1> HIDE DEF S
<1>3. Nat \subseteq S
  BY <1>1, <1>2, Induction
<1> QED BY <1>3 DEF S

\* Sum is what its definition says.
LEMMA SumEquation ==
  ASSUME NEW a \in Account
  PROVE  Sum[a] = IF a = 0 THEN 0 ELSE Sum[a - 1] + Amount(a)
<1>1. Users + MaxSp \in Nat
  BY Constants
<1>2. \E f : Sums(f, Users + MaxSp)
  BY <1>1, SumExists
<1>3. Sums(Sum, Users + MaxSp)
  BY <1>2 DEF Sums, Sum
<1> QED BY <1>3 DEF Sums, Account

\* A sum is a number and grows with the accounts.
LEMMA SumGrows ==
  /\ Sum[0] = 0
  /\ \A a \in Account : Sum[a] \in Nat
  /\ \A a \in Account \ {0} : Sum[a] = Sum[a - 1] + Amount(a)
  /\ \A a, b \in Account : a <= b => Sum[a] <= Sum[b]
<1>1. 0 \in Account
  BY Constants DEF Account
<1>2. Sum[0] = 0
  BY <1>1, SumEquation
<1>3. \A a \in Account \ {0} : Sum[a] = Sum[a - 1] + Amount(a)
  BY SumEquation
<1> DEFINE S == {n \in Nat : n \in Account =>
                   Sum[n] \in Nat /\ \A a \in 0..n : Sum[a] \in Nat /\ Sum[a] <= Sum[n]}
<1>4. 0 \in S
  BY <1>2
<1>5. ASSUME NEW n \in Nat, n \in S PROVE n + 1 \in S
  <2> SUFFICES ASSUME n + 1 \in Account
               PROVE  /\ Sum[n + 1] \in Nat
                      /\ \A a \in 0..(n + 1) : Sum[a] \in Nat /\ Sum[a] <= Sum[n + 1]
    OBVIOUS
  <2>1. n \in Account
    BY Constants DEF Account
  <2>2. (n + 1) - 1 = n /\ n + 1 \in Account \ {0}
    OBVIOUS
  <2>3. Sum[n + 1] = Sum[n] + Amount(n + 1)
    BY <1>3, <2>2
  <2>4. Sum[n] \in Nat /\ \A a \in 0..n : Sum[a] \in Nat /\ Sum[a] <= Sum[n]
    BY <1>5, <2>1
  <2>5. Sum[n + 1] \in Nat /\ Sum[n] <= Sum[n + 1]
    BY <2>3, <2>4 DEF Amount
  <2>6. \A a \in 0..(n + 1) : a = n + 1 \/ a \in 0..n
    OBVIOUS
  <2>7. ASSUME NEW a \in 0..(n + 1) PROVE Sum[a] \in Nat /\ Sum[a] <= Sum[n + 1]
    <3>1. CASE a = n + 1
      BY <2>5, <3>1
    <3>2. CASE a \in 0..n
      <4>1. Sum[a] \in Nat /\ Sum[a] <= Sum[n]
        BY <2>4, <3>2
      <4> QED BY <2>4, <2>5, <4>1
    <3> QED BY <2>6, <3>1, <3>2
  <2> QED BY <2>5, <2>7
<1> HIDE DEF S
<1>6. Nat \subseteq S
  BY <1>4, <1>5, Induction
<1>7. \A n \in Account :
        Sum[n] \in Nat /\ \A a \in 0..n : Sum[a] \in Nat /\ Sum[a] <= Sum[n]
  <2>1. Account \subseteq Nat
    BY Constants DEF Account
  <2> QED BY <1>6, <2>1 DEF S
<1>8. ASSUME NEW a \in Account, NEW b \in Account, a <= b PROVE Sum[a] <= Sum[b]
  <2>1. a \in 0..b
    BY <1>8, Constants DEF Account
  <2> QED BY <1>7, <2>1
<1> QED BY <1>2, <1>3, <1>7, <1>8

-----------------------------------------------------------------------------
(* The inductive invariant.                                                *)

\* A loop of checks has not used up its tries as long as it goes on.
Counting ==
  /\ stage = "verify_fil" => \A a \in Account : ~Is(a, "done") => tries[a] < MaxTries
  /\ stage \in {"check", "verify"} => \A a \in Account : a >= who => tries[a] < MaxTries
  /\ stage \in {"fil", "verify_fil", "deploy", "check", "transfer"} => who = 1
  /\ stage \in {"fil", "verify_fil", "deploy", "check"} => batch = 1

\* The first step: what is sent once is mined once, and what was seen is there.
Filling ==
  /\ stage \in {"fil", "verify_fil"} => pool \cap fil = {}
  /\ stage = "fil" => \A a \in 0..Last : Is(a, "idle") => a \notin pool \cup fil
  /\ stage = "verify_fil" =>
       \A a \in (0..Last) \ errors : thread[a] \in {"funded", "done"} => a \in fil
  /\ stage \in {"deploy", "check", "transfer", "verify", "ok"} => fil = 0..Last
  /\ stage \in {"deploy", "check"} => pool = {}

\* The second step: a thread that has not sent has no number in the pool or on chain,
\* one that returned is mined, and the batches before are over.
Sending ==
  /\ stage = "transfer" =>
       /\ \A a \in 1..Last :
            /\ ~Is(a, "funded")
            /\ Is(a, "idle") => a \notin pool /\ a >= nonce
            /\ Is(a, "sending") => BatchOf(a) = batch /\ (a \in pool \/ a < nonce)
            /\ Is(a, "done") /\ a \notin errors => a \notin pool /\ a < nonce
            /\ BatchOf(a) < batch => Is(a, "done")
            /\ BatchOf(a) > batch => Is(a, "idle")
       /\ \A a \in pool : a >= nonce
       /\ \E a \in 1..Last : BatchOf(a) = batch
  /\ stage \in {"verify", "ok"} => pool = {} /\ nonce = Last + 1

\* Where the tokens are: mined transfers have moved them, if there were enough.
Balance ==
  /\ stage \in {"fil", "verify_fil", "deploy"} =>
       nonce = 0 /\ \A a \in Account : tokens[a] = 0
  /\ stage = "check" => nonce = 1
  /\ stage \in {"check", "transfer", "verify", "ok"} =>
       /\ nonce >= 1
       /\ \A a \in Account \ {0} :
            /\ a >= nonce => tokens[a] = 0
            /\ a < nonce => tokens[a] \in {0, Amount(a)}
       /\ Sum[Last] <= Supply =>
            /\ tokens[0] = Supply - Sum[nonce - 1]
            /\ \A a \in 1..(nonce - 1) : tokens[a] = Amount(a)

\* The accounts that the last check has passed have their tokens.
Checked ==
  /\ stage \in {"verify", "ok"} => \A a \in 1..(who - 1) : tokens[a] = Amount(a)
  /\ stage = "ok" => who = Last + 1

\* Nothing is recorded as failed before something has failed outside.
Caused == faults = 0 => errors = {}

FundingInv ==
  /\ TypeOK /\ Counting /\ Filling /\ Sending /\ Balance /\ Checked /\ Caused
  /\ FailureHasACause

\* What the accounts are.
LEMMA Accounts ==
  ASSUME TypeOK
  PROVE  /\ active \in Nat /\ Last \in Nat \ {0} /\ Last <= Users + MaxSp
         /\ 0..Last \subseteq Account /\ 1..Last \subseteq Account \ {0}
         /\ 0 \in Account /\ Account \subseteq Nat
         /\ \A a \in 1..Last : NonceOf(a) = a /\ BatchOf(a) \in 1..a
         /\ \A a \in Account : Amount(a) \in {1, 2}
<1>1. active \in 0..MaxSp
  BY DEF TypeOK
<1>2. active \in Nat /\ Last \in Nat \ {0} /\ Last <= Users + MaxSp
  BY <1>1, Constants DEF Last
<1>3. \A a \in 1..Last : NonceOf(a) = a /\ BatchOf(a) \in 1..a
  BY <1>2, NonceIsNumber, Batches
<1> QED BY <1>2, <1>3, Constants DEF Account, Amount

\* Where a thread is.
Threads == {"idle", "funded", "sending", "done"}

\* A stage begins with threads and tries of its own.
LEMMA Begins ==
  ASSUME NEW next, Enter(next)
  PROVE  /\ stage' = next
         /\ thread' \in [Account -> Threads] /\ tries' \in [Account -> 0..MaxTries]
         /\ \A a \in Account : thread'[a] = "idle" /\ tries'[a] = 0
BY Constants DEF Enter, Idle, Fresh, Threads

\* A step of one thread leaves the others where they are.
LEMMA Moves ==
  ASSUME TypeOK, NEW a \in Account, NEW there \in Threads, Becomes(a, there)
  PROVE  /\ thread' \in [Account -> Threads] /\ thread'[a] = there
         /\ \A b \in Account \ {a} : thread'[b] = thread[b]
BY DEF TypeOK, Becomes, Threads

\* What waits in the pool during the transfers are transfers.
LEMMA PoolOfTransfers ==
  ASSUME FundingInv, stage = "transfer"
  PROVE  /\ nonce \in Nat \ {0} /\ pool \subseteq 1..Last
         /\ \A a \in pool : NonceOf(a) = a /\ a >= nonce
<1>1. pool \subseteq 0..Last /\ nonce \in Nat \ {0}
  BY DEF FundingInv, TypeOK, Balance
<1>2. \A a \in pool : a >= nonce
  BY DEF FundingInv, Sending
<1>3. pool \subseteq 1..Last
  BY <1>1, <1>2
<1> QED BY <1>1, <1>2, <1>3, Accounts DEF FundingInv

\* The pool takes what it is sent the first time.
LEMMA NeverRefused ==
  ASSUME FundingInv, stage = "transfer", NEW a \in 1..Last, Is(a, "idle")
  PROVE  ~Refused(a)
<1>1. a \notin pool /\ a >= nonce
  BY DEF FundingInv, Sending
<1>2. NonceOf(a) = a
  BY Accounts DEF FundingInv
<1> QED BY <1>1, <1>2, PoolOfTransfers, Accounts DEF Refused, FundingInv

\* While nothing failed, what is next on chain waits in the pool.
LEMMA NeverStuck ==
  ASSUME FundingInv, stage = "transfer", faults = 0,
         NEW a \in 1..Last, Is(a, "sending"), a \in pool
  PROVE  ~Stuck
<1> SUFFICES ASSUME Stuck PROVE FALSE
  OBVIOUS
<1>1. /\ errors = {} /\ nonce \in 1..a /\ a \in Nat /\ nonce \in 1..Last
      /\ BatchOf(a) = batch
  <2>1. Last \in Nat
    BY Accounts DEF FundingInv
  <2> QED BY <2>1, PoolOfTransfers DEF FundingInv, Caused, Sending
<1>2. BatchOf(nonce) <= batch /\ BatchOf(nonce) \in Nat /\ batch \in Nat
  BY <1>1, Batches
<1>3. ~Is(nonce, "idle")
  <2>1. CASE BatchOf(nonce) = batch
    BY <1>1, <2>1 DEF Stuck, InBatch
  <2>2. CASE BatchOf(nonce) < batch
    BY <1>1, <2>2 DEF FundingInv, Sending, Is
  <2> QED BY <1>2, <2>1, <2>2
<1>4. ~Is(nonce, "done")
  BY <1>1 DEF FundingInv, Sending
<1>5. Is(nonce, "sending")
  <2>1. nonce \in Account /\ thread \in [Account -> Threads]
    BY <1>1, Accounts DEF FundingInv, TypeOK, Threads
  <2>2. thread[nonce] \in Threads
    BY <2>1
  <2>3. ~Is(nonce, "funded")
    BY <1>1 DEF FundingInv, Sending
  <2> QED BY <1>3, <1>4, <2>2, <2>3 DEF Is, Threads
<1>6. nonce \in pool
  BY <1>1, <1>5 DEF FundingInv, Sending
<1> QED BY <1>6, PoolOfTransfers DEF Stuck

\* The actions, one by one: an account is sent FIL.
LEMMA SendsFilKeeps ==
  ASSUME FundingInv, NEW a \in 0..Last, SendsFil(a)
  PROVE  FundingInv'
<1>1. TypeOK'
  BY Accounts DEF TypeOK, FundingInv, SendsFil, Becomes, Last
<1>2. Counting'
  BY DEF Counting, FundingInv, SendsFil
<1>3. Filling'
  BY Accounts DEF Filling, FundingInv, SendsFil, Is, Becomes, TypeOK
<1>4. Sending'
  BY DEF Sending, SendsFil
<1>5. Balance'
  BY DEF Balance, FundingInv, SendsFil
<1>6. Checked'
  BY DEF Checked, SendsFil
<1>7. Caused'
  BY DEF Caused, FundingInv, SendsFil
<1>8. FailureHasACause'
  BY DEF FailureHasACause, SendsFil
<1> QED BY <1>1, <1>2, <1>3, <1>4, <1>5, <1>6, <1>7, <1>8 DEF FundingInv

\* The command fails, with or without the message in the pool.
LEMMA SendFilFailsKeeps ==
  ASSUME FundingInv, NEW a \in 0..Last, SendFilFails(a)
  PROVE  FundingInv'
<1>1. TypeOK'
  <2>1. a \in Account
    BY Accounts DEF FundingInv
  <2>2. thread' \in [Account -> Threads]
    BY <2>1, Moves DEF FundingInv, SendFilFails, Threads
  <2>3. errors' \cup pool' \cup fil' \subseteq 0..Last
    BY DEF SendFilFails, FundingInv, TypeOK
  <2>4. faults' \in 0..MaxFaults
    BY Constants DEF SendFilFails, Fault, FundingInv, TypeOK
  <2> QED BY <2>2, <2>3, <2>4 DEF SendFilFails, FundingInv, TypeOK, Threads, Last
<1>2. Counting'
  BY DEF Counting, FundingInv, SendFilFails
<1>3. Filling'
  BY Accounts DEF Filling, FundingInv, SendFilFails, Is, Becomes, TypeOK
<1>4. Sending'
  BY DEF Sending, SendFilFails
<1>5. Balance'
  BY DEF Balance, FundingInv, SendFilFails
<1>6. Checked'
  BY DEF Checked, SendFilFails
<1>7. Caused'
  BY DEF Caused, FundingInv, SendFilFails, Fault, TypeOK
<1>8. FailureHasACause'
  BY DEF FailureHasACause, SendFilFails
<1> QED BY <1>1, <1>2, <1>3, <1>4, <1>5, <1>6, <1>7, <1>8 DEF FundingInv

\* All threads of the first step have returned.
LEMMA JoinFilKeeps ==
  ASSUME FundingInv, JoinFil
  PROVE  FundingInv'
<1>1. TypeOK'
  <2>1. PICK next \in {"verify_fil", "deploy", "failed"} : Enter(next)
    BY DEF JoinFil
  <2>2. /\ stage' = next /\ thread' \in [Account -> Threads]
        /\ tries' \in [Account -> 0..MaxTries]
    BY <2>1, Begins
  <2> QED BY <2>2 DEF JoinFil, chainVars, FundingInv, TypeOK, Threads, Last
<1>2. Counting'
  BY Constants DEF Counting, FundingInv, JoinFil, Enter, Fresh
<1>3. Filling'
  BY Accounts DEF Filling, FundingInv, JoinFil, AllDone, Enter, Idle, chainVars, Last
<1>4. Sending'
  BY DEF Sending, JoinFil, Enter
<1>5. Balance'
  BY DEF Balance, FundingInv, JoinFil, Enter, chainVars
<1>6. Checked'
  BY DEF Checked, JoinFil, Enter
<1>7. Caused'
  BY DEF Caused, FundingInv, JoinFil
<1>8. FailureHasACause'
  <2>1. stage' = "failed" => errors # {}
    BY Begins DEF JoinFil
  <2>2. errors # {} => faults > 0
    BY DEF FundingInv, Caused, TypeOK
  <2> QED BY <2>1, <2>2 DEF JoinFil, FailureHasACause
<1> QED BY <1>1, <1>2, <1>3, <1>4, <1>5, <1>6, <1>7, <1>8 DEF FundingInv

\* A message is mined.
LEMMA MinesFilKeeps ==
  ASSUME FundingInv, NEW a \in 0..Last, MinesFil(a)
  PROVE  FundingInv'
<1>1. TypeOK'
  BY DEF TypeOK, FundingInv, MinesFil, Last
<1>2. Counting'
  BY DEF Counting, FundingInv, MinesFil, Is
<1>3. Filling'
  BY DEF Filling, FundingInv, MinesFil, Is, Last, Account
<1>4. Sending'
  BY DEF Sending, MinesFil
<1>5. Balance'
  BY DEF Balance, FundingInv, MinesFil
<1>6. Checked'
  BY DEF Checked, MinesFil
<1>7. Caused'
  BY DEF Caused, FundingInv, MinesFil
<1>8. FailureHasACause'
  BY DEF FailureHasACause, MinesFil
<1> QED BY <1>1, <1>2, <1>3, <1>4, <1>5, <1>6, <1>7, <1>8 DEF FundingInv

\* A thread sees its balance.
LEMMA SeesFilKeeps ==
  ASSUME FundingInv, NEW a \in 0..Last, SeesFil(a)
  PROVE  FundingInv'
<1>1. TypeOK'
  <2>1. a \in Account
    BY Accounts DEF FundingInv
  <2>2. thread' \in [Account -> Threads]
    BY <2>1, Moves DEF FundingInv, SeesFil, Threads
  <2>3. tries' \in [Account -> 0..MaxTries]
    BY <2>1, Constants DEF SeesFil, FundingInv, TypeOK
  <2> QED BY <2>2, <2>3 DEF SeesFil, chainVars, FundingInv, TypeOK, Threads, Last
<1>2. Counting'
  <2>1. a \in Account /\ stage = "verify_fil"
    BY Accounts DEF FundingInv, SeesFil
  <2>2. \A b \in Account \ {a} : thread'[b] = thread[b]
    BY <2>1, Moves DEF FundingInv, SeesFil, Threads
  <2>3. tries' = [tries EXCEPT ![a] = 0] /\ tries \in [Account -> 0..MaxTries]
    BY DEF SeesFil, FundingInv, TypeOK
  <2> QED BY <2>1, <2>2, <2>3, Constants DEF SeesFil, FundingInv, Counting, Is
<1>3. Filling'
  BY Accounts DEF Filling, FundingInv, SeesFil, Becomes, chainVars, TypeOK, Last
<1>4. Sending'
  BY DEF Sending, SeesFil
<1>5. Balance'
  BY DEF Balance, FundingInv, SeesFil, chainVars
<1>6. Checked'
  BY DEF Checked, SeesFil
<1>7. Caused'
  BY DEF Caused, FundingInv, SeesFil
<1>8. FailureHasACause'
  BY DEF FailureHasACause, SeesFil
<1> QED BY <1>1, <1>2, <1>3, <1>4, <1>5, <1>6, <1>7, <1>8 DEF FundingInv

\* A thread does not see its balance, or fails to read it.
LEMMA MissesFilKeeps ==
  ASSUME FundingInv, NEW a \in 0..Last, MissesFil(a)
  PROVE  FundingInv'
<1>1. TypeOK'
  <2>1. a \in Account /\ tries[a] \in 0..(MaxTries - 1)
    BY Accounts, Constants DEF FundingInv, TypeOK, Counting, MissesFil
  <2>2. thread' \in [Account -> Threads]
    BY <2>1, Moves DEF FundingInv, MissesFil, Threads, TypeOK
  <2>3. tries' \in [Account -> 0..MaxTries]
    BY <2>1, Constants DEF MissesFil, FundingInv, TypeOK
  <2>4. faults' \in 0..MaxFaults
    BY Constants DEF MissesFil, Fault, FundingInv, TypeOK
  <2>5. errors' \cup pool' \cup fil' \subseteq 0..Last
    BY DEF MissesFil, chainVars, FundingInv, TypeOK
  <2> QED BY <2>2, <2>3, <2>4, <2>5
      DEF MissesFil, chainVars, FundingInv, TypeOK, Threads, Last
<1>2. Counting'
  <2>1. a \in Account /\ stage = "verify_fil" /\ tries[a] \in 0..(MaxTries - 1)
    BY Accounts, Constants DEF FundingInv, TypeOK, Counting, MissesFil
  <2>2. tries' = [tries EXCEPT ![a] = tries[a] + 1] /\ tries \in [Account -> 0..MaxTries]
    BY DEF MissesFil, FundingInv, TypeOK
  <2>3. ASSUME NEW b \in Account, ~Is(b, "done")' PROVE tries'[b] < MaxTries
    <3>1. CASE b = a
      <4>1. ~GivesUp(tries'[a])
        BY <2>1, <2>3, <3>1, Moves DEF MissesFil, FundingInv, Is, Threads
      <4> QED BY <2>1, <2>2, <3>1, <4>1, Constants DEF GivesUp
    <3>2. CASE b # a
      <4>1. thread'[b] = thread[b]
        BY <2>1, <3>2, Moves DEF MissesFil, FundingInv, Threads
      <4> QED BY <2>1, <2>2, <2>3, <3>2, <4>1 DEF FundingInv, Counting, Is
    <3> QED BY <3>1, <3>2
  <2> QED BY <2>1, <2>3 DEF MissesFil, FundingInv, Counting
<1>3. Filling'
  BY Accounts DEF Filling, FundingInv, MissesFil, Becomes, chainVars, TypeOK, Last
<1>4. Sending'
  BY DEF Sending, MissesFil
<1>5. Balance'
  BY DEF Balance, FundingInv, MissesFil, chainVars
<1>6. Checked'
  BY DEF Checked, MissesFil
<1>7. Caused'
  BY DEF Caused, FundingInv, MissesFil, Fault, TypeOK
<1>8. FailureHasACause'
  BY DEF FailureHasACause, MissesFil
<1> QED BY <1>1, <1>2, <1>3, <1>4, <1>5, <1>6, <1>7, <1>8 DEF FundingInv

\* All threads have checked their balance.
LEMMA JoinVerifiedKeeps ==
  ASSUME FundingInv, JoinVerified
  PROVE  FundingInv'
<1>1. TypeOK'
  <2>1. PICK next \in {"verify_fil", "deploy", "failed"} : Enter(next)
    BY DEF JoinVerified
  <2>2. /\ stage' = next /\ thread' \in [Account -> Threads]
        /\ tries' \in [Account -> 0..MaxTries]
    BY <2>1, Begins
  <2> QED BY <2>2 DEF JoinVerified, chainVars, FundingInv, TypeOK, Threads, Last
<1>2. Counting'
  BY DEF Counting, FundingInv, JoinVerified, Enter
<1>3. Filling'
  BY Constants, Accounts
    DEF Filling, FundingInv, JoinVerified, AllDone, Enter, Idle, Fresh, chainVars, Is,
      TypeOK, Last, Account
<1>4. Sending'
  BY DEF Sending, JoinVerified, Enter
<1>5. Balance'
  BY DEF Balance, FundingInv, JoinVerified, Enter, chainVars
<1>6. Checked'
  BY DEF Checked, JoinVerified, Enter
<1>7. Caused'
  BY DEF Caused, FundingInv, JoinVerified
<1>8. FailureHasACause'
  <2>1. stage' = "failed" => errors # {}
    BY Begins DEF JoinVerified
  <2>2. errors # {} => faults > 0
    BY DEF FundingInv, Caused, TypeOK
  <2> QED BY <2>1, <2>2 DEF JoinVerified, FailureHasACause
<1> QED BY <1>1, <1>2, <1>3, <1>4, <1>5, <1>6, <1>7, <1>8 DEF FundingInv

\* The token is deployed, or its deployment fails.
LEMMA DeploysKeeps ==
  ASSUME FundingInv, Deploys
  PROVE  FundingInv'
<1>1. TypeOK'
  <2>1. PICK next \in {"check", "failed"} : Enter(next)
    BY DEF Deploys
  <2>2. /\ stage' = next /\ thread' \in [Account -> Threads]
        /\ tries' \in [Account -> 0..MaxTries]
    BY <2>1, Begins
  <2>3. faults' \in 0..MaxFaults
    BY Constants DEF Deploys, Fault, FundingInv, TypeOK
  <2>4. nonce' \in 0..(Last + 1) /\ tokens' \in [Account -> 0..Supply]
    BY Accounts, Constants DEF Deploys, FundingInv, TypeOK
  <2> QED BY <2>2, <2>3, <2>4 DEF Deploys, FundingInv, TypeOK, Threads, Last
<1>2. Counting'
  BY Constants DEF Counting, FundingInv, Deploys, Enter, Fresh
<1>3. Filling'
  BY DEF Filling, FundingInv, Deploys, Enter, Last, Account
<1>4. Sending'
  BY DEF Sending, Deploys, Enter
<1>5. Balance'
  <2>1. CASE stage' = "check"
    <3>1. nonce' = 1 /\ tokens' = [tokens EXCEPT ![0] = Supply]
      BY <2>1, Begins DEF Deploys
    <3>2. tokens'[0] = Supply /\ \A a \in Account \ {0} : tokens'[a] = 0
      BY <3>1, Accounts DEF Deploys, FundingInv, Balance, TypeOK
    <3>3. \A a \in Account \ {0} : a \in Nat /\ a >= 1
      BY Accounts DEF FundingInv
    <3> QED BY <2>1, <3>1, <3>2, <3>3, SumGrows, Constants DEF Balance
  <2>2. CASE stage' = "failed"
    BY <2>2 DEF Balance
  <2> QED BY <2>1, <2>2, Begins DEF Deploys
<1>6. Checked'
  BY DEF Checked, Deploys, Enter
<1>7. Caused'
  BY DEF Caused, FundingInv, Deploys, Fault, TypeOK
<1>8. FailureHasACause'
  BY DEF FailureHasACause, FundingInv, Deploys, Enter, Fault, TypeOK
<1> QED BY <1>1, <1>2, <1>3, <1>4, <1>5, <1>6, <1>7, <1>8 DEF FundingInv

\* The check before the transfers finds no tokens.
LEMMA FindsNoneKeeps ==
  ASSUME FundingInv, FindsNone
  PROVE  FundingInv'
<1>1. TypeOK'
  BY Constants DEF TypeOK, FundingInv, FindsNone, Enter, Idle, Fresh, chainVars, Last
<1>2. Counting'
  BY DEF Counting, FundingInv, FindsNone, Enter
<1>3. Filling'
  BY DEF Filling, FundingInv, FindsNone, Enter, chainVars, Last
<1>4. Sending'
  <2>1. stage' = "transfer" /\ \A a \in Account : thread'[a] = "idle"
    BY Begins DEF FindsNone
  <2>2. pool' = {} /\ nonce' = 1 /\ batch' = 1 /\ Last' = Last
    BY DEF FindsNone, chainVars, FundingInv, Filling, Balance, Counting, Last
  <2>3. Last \in Nat \ {0} /\ 1..Last \subseteq Account
    BY Accounts DEF FundingInv
  <2>4. \A a \in 1..Last : BatchOf(a) \in Nat /\ BatchOf(a) >= 1
    BY <2>3, Accounts DEF FundingInv
  <2>5. BatchOf(1) = 1 /\ 1 \in 1..Last
    BY <2>3, Accounts DEF FundingInv
  <2> QED BY <2>1, <2>2, <2>3, <2>4, <2>5 DEF Sending, Is
<1>5. Balance'
  BY DEF Balance, FundingInv, FindsNone, Enter, chainVars, Last
<1>6. Checked'
  BY DEF Checked, FindsNone, Enter
<1>7. Caused'
  BY DEF Caused, FundingInv, FindsNone
<1>8. FailureHasACause'
  BY DEF FailureHasACause, FindsNone, Enter
<1> QED BY <1>1, <1>2, <1>3, <1>4, <1>5, <1>6, <1>7, <1>8 DEF FundingInv

\* A thread sends its transfer with a number of its own.
LEMMA TransfersKeeps ==
  ASSUME FundingInv, NEW a \in 1..Last, Transfers(a)
  PROVE  FundingInv'
<1>1. TypeOK'
  <2>1. a \in Account /\ a \in 0..Last
    BY Accounts DEF FundingInv
  <2>2. thread' \in [Account -> Threads]
    BY <2>1, Moves DEF FundingInv, Transfers, Threads
  <2>3. errors' \cup pool' \cup fil' \subseteq 0..Last
    BY <2>1 DEF Transfers, FundingInv, TypeOK
  <2> QED BY <2>2, <2>3 DEF Transfers, FundingInv, TypeOK, Threads, Last
<1>2. Counting'
  BY DEF Counting, FundingInv, Transfers
<1>3. Filling'
  BY DEF Filling, FundingInv, Transfers, Last
<1>4. Sending'
  <2>1. a \in Account /\ 1..Last \subseteq Account /\ stage = "transfer"
    BY Accounts DEF FundingInv, Transfers
  <2>2. thread'[a] = "sending" /\ \A b \in Account \ {a} : thread'[b] = thread[b]
    BY <2>1, Moves DEF FundingInv, Transfers, Threads
  <2>3. BatchOf(a) = batch /\ a >= nonce
    BY DEF Transfers, InBatch, FundingInv, Sending
  <2>4. /\ pool' = pool \cup {a}
        /\ UNCHANGED <<stage, batch, errors, nonce>> /\ Last' = Last
    BY DEF Transfers, Last
  <2> QED BY <2>1, <2>2, <2>3, <2>4 DEF FundingInv, Sending, Is
<1>5. Balance'
  BY DEF Balance, FundingInv, Transfers, Last
<1>6. Checked'
  BY DEF Checked, Transfers
<1>7. Caused'
  BY DEF Caused, FundingInv, Transfers
<1>8. FailureHasACause'
  BY DEF FailureHasACause, Transfers
<1> QED BY <1>1, <1>2, <1>3, <1>4, <1>5, <1>6, <1>7, <1>8 DEF FundingInv

\* The command of a thread fails: it is no refusal of the pool.
LEMMA TransferFailsKeeps ==
  ASSUME FundingInv, NEW a \in 1..Last, TransferFails(a)
  PROVE  FundingInv'
<1>1. TypeOK'
  <2>1. a \in Account /\ a \in 0..Last /\ ~Refused(a)
    BY Accounts, NeverRefused DEF FundingInv, TransferFails
  <2>2. thread' \in [Account -> Threads]
    BY <2>1, Moves DEF FundingInv, TransferFails, Threads
  <2>3. errors' \cup pool' \cup fil' \subseteq 0..Last
    BY <2>1 DEF TransferFails, FundingInv, TypeOK
  <2>4. faults' \in 0..MaxFaults
    BY <2>1, Constants DEF TransferFails, Fault, FundingInv, TypeOK
  <2> QED BY <2>2, <2>3, <2>4 DEF TransferFails, FundingInv, TypeOK, Threads, Last
<1>2. Counting'
  BY DEF Counting, FundingInv, TransferFails
<1>3. Filling'
  BY DEF Filling, FundingInv, TransferFails, Last
<1>4. Sending'
  <2>1. a \in Account /\ 1..Last \subseteq Account /\ stage = "transfer"
    BY Accounts DEF FundingInv, TransferFails
  <2>2. thread'[a] = "done" /\ \A b \in Account \ {a} : thread'[b] = thread[b]
    BY <2>1, Moves DEF FundingInv, TransferFails, Threads
  <2>3. BatchOf(a) = batch /\ a >= nonce
    BY DEF TransferFails, InBatch, FundingInv, Sending
  <2>4. /\ pool' \in {pool, pool \cup {a}} /\ errors' = errors \cup {a}
        /\ UNCHANGED <<stage, batch, nonce>> /\ Last' = Last
    BY DEF TransferFails, Last
  <2> QED BY <2>1, <2>2, <2>3, <2>4 DEF FundingInv, Sending, Is
<1>5. Balance'
  BY DEF Balance, FundingInv, TransferFails, Last
<1>6. Checked'
  BY DEF Checked, TransferFails
<1>7. Caused'
  <2>1. Fault
    BY NeverRefused DEF TransferFails
  <2> QED BY <2>1 DEF Fault, Caused, FundingInv, TypeOK
<1>8. FailureHasACause'
  BY DEF FailureHasACause, TransferFails
<1> QED BY <1>1, <1>2, <1>3, <1>4, <1>5, <1>6, <1>7, <1>8 DEF FundingInv

\* The transfer with the next number is mined; the deployer still has enough for it
\* when the supply is enough for all.
LEMMA MinesKeeps ==
  ASSUME FundingInv, NEW a \in 1..Last, Mines(a)
  PROVE  FundingInv'
<1>1. TypeOK'
  <2>1. stage = "transfer" /\ nonce = a
    BY Accounts DEF Mines, FundingInv, Sending
  <2>2. /\ tokens[a] = 0 /\ a \in Account /\ 0 \in Account /\ a # 0
        /\ Amount(a) \in Nat /\ tokens[0] \in 0..Supply
    BY <2>1, Accounts DEF FundingInv, Balance, TypeOK
  <2>3. tokens' \in [Account -> 0..Supply]
    BY <2>2, Constants DEF Mines, FundingInv, TypeOK
  <2>4. nonce' \in 0..(Last + 1)
    BY <2>1, Accounts DEF Mines, FundingInv
  <2>5. errors' \cup pool' \cup fil' \subseteq 0..Last
    BY DEF Mines, FundingInv, TypeOK
  <2> QED BY <2>3, <2>4, <2>5 DEF Mines, FundingInv, TypeOK, Last
<1>2. Counting'
  BY DEF Counting, FundingInv, Mines
<1>3. Filling'
  BY DEF Filling, FundingInv, Mines, Last
<1>4. Sending'
  <2>1. stage = "transfer" /\ nonce = a
    BY Accounts DEF Mines, FundingInv, Sending
  <2>2. /\ pool' = pool \ {a} /\ nonce' = nonce + 1 /\ pool \subseteq 1..Last
        /\ UNCHANGED <<stage, batch, thread, errors>> /\ Last' = Last
    BY <2>1, PoolOfTransfers DEF Mines, Last
  <2>3. a \in pool /\ a \in Nat /\ Last \in Nat
    BY Accounts DEF Mines, FundingInv
  <2> QED BY <2>1, <2>2, <2>3 DEF FundingInv, Sending, Is
<1>5. Balance'
  <2>1. stage = "transfer" /\ nonce = a /\ nonce' = a + 1 /\ stage' = stage /\ Last' = Last
    BY Accounts DEF Mines, FundingInv, Sending, Last
  <2>2. /\ tokens[a] = 0 /\ a \in Account /\ a \in Nat \ {0}
        /\ Amount(a) \in Nat /\ tokens \in [Account -> 0..Supply] /\ 0 \in Account
        /\ Account \subseteq Nat /\ Last \in Account /\ a <= Last
    BY <2>1, Accounts DEF FundingInv, Balance, TypeOK
  <2>3. \A b \in Account \ {0, a} : tokens'[b] = tokens[b]
    BY <2>2 DEF Mines
  <2>4. tokens'[a] \in {0, Amount(a)}
    BY <2>2 DEF Mines
  <2>5. ASSUME Sum[Last] <= Supply
        PROVE  tokens'[0] = Supply - Sum[a] /\ tokens'[a] = Amount(a)
    <3>1. /\ Sum[a] = Sum[a - 1] + Amount(a) /\ Sum[a] <= Sum[Last]
          /\ Sum[a] \in Nat /\ Sum[Last] \in Nat
      BY <2>2, SumGrows
    <3>2. tokens[0] = Supply - Sum[a - 1]
      BY <2>1, <2>5 DEF FundingInv, Balance
    <3>3. a - 1 \in Account
      BY <2>2, Constants DEF Account
    <3>4. Sum[a - 1] \in Nat
      BY <3>3, SumGrows
    <3>5. Amount(a) <= tokens[0]
      BY <2>2, <2>5, <3>1, <3>2, <3>4, Constants
    <3>6. tokens' = [tokens EXCEPT ![0] = tokens[0] - Amount(a), ![a] = tokens[a] + Amount(a)]
      BY <3>5 DEF Mines
    <3>7. tokens'[0] = tokens[0] - Amount(a) /\ tokens'[a] = 0 + Amount(a)
      BY <2>2, <3>6
    <3> QED BY <2>2, <3>1, <3>2, <3>4, <3>7, Constants
  <2>6. \A b \in 1..a : b = a \/ b \in 1..(a - 1)
    BY <2>2
  <2>7. 1..a \subseteq Account
    BY <2>2, Constants DEF Account
  <2> QED BY <2>1, <2>2, <2>3, <2>4, <2>5, <2>6, <2>7 DEF FundingInv, Balance
<1>6. Checked'
  <2>1. stage = "transfer"
    BY DEF Mines, FundingInv, Sending
  <2> QED BY <2>1 DEF Mines, Checked
<1>7. Caused'
  BY DEF Caused, FundingInv, Mines
<1>8. FailureHasACause'
  BY DEF FailureHasACause, Mines
<1> QED BY <1>1, <1>2, <1>3, <1>4, <1>5, <1>6, <1>7, <1>8 DEF FundingInv

\* A thread sees its transfer mined.
LEMMA ReturnsKeeps ==
  ASSUME FundingInv, NEW a \in 1..Last, Returns(a)
  PROVE  FundingInv'
<1>1. TypeOK'
  BY Accounts DEF TypeOK, FundingInv, Returns, Becomes, chainVars, Last
<1>2. Counting'
  BY DEF Counting, FundingInv, Returns
<1>3. Filling'
  BY DEF Filling, FundingInv, Returns, chainVars, Last
<1>4. Sending'
  BY DEF Sending, FundingInv, Returns, Is, Becomes, chainVars, Last
<1>5. Balance'
  BY DEF Balance, FundingInv, Returns, chainVars, Last
<1>6. Checked'
  BY DEF Checked, Returns
<1>7. Caused'
  BY DEF Caused, FundingInv, Returns
<1>8. FailureHasACause'
  BY DEF FailureHasACause, Returns
<1> QED BY <1>1, <1>2, <1>3, <1>4, <1>5, <1>6, <1>7, <1>8 DEF FundingInv

\* A thread gives up: nothing holds its transfer back unless something has failed.
LEMMA TimesOutKeeps ==
  ASSUME FundingInv, NEW a \in 1..Last, TimesOut(a)
  PROVE  FundingInv'
<1>1. TypeOK'
  <2>1. a \in Account /\ a \in 0..Last
    BY Accounts DEF FundingInv
  <2>2. thread' \in [Account -> Threads]
    BY <2>1, Moves DEF FundingInv, TimesOut, Threads
  <2>3. errors' \cup pool' \cup fil' \subseteq 0..Last
    BY <2>1 DEF TimesOut, chainVars, FundingInv, TypeOK
  <2>4. faults' \in 0..MaxFaults
    BY Constants DEF TimesOut, Fault, FundingInv, TypeOK
  <2> QED BY <2>2, <2>3, <2>4 DEF TimesOut, chainVars, FundingInv, TypeOK, Threads, Last
<1>2. Counting'
  BY DEF Counting, FundingInv, TimesOut
<1>3. Filling'
  BY DEF Filling, FundingInv, TimesOut, chainVars, Last
<1>4. Sending'
  BY DEF Sending, FundingInv, TimesOut, Is, Becomes, chainVars, Last
<1>5. Balance'
  BY DEF Balance, FundingInv, TimesOut, chainVars, Last
<1>6. Checked'
  BY DEF Checked, TimesOut
<1>7. Caused'
  <2>1. CASE Stuck
    <3>1. faults # 0 /\ UNCHANGED faults
      BY <2>1, NeverStuck DEF TimesOut
    <3> QED BY <3>1 DEF Caused
  <2>2. CASE ~Stuck
    BY <2>2 DEF TimesOut, Fault, Caused, FundingInv, TypeOK
  <2> QED BY <2>1, <2>2
<1>8. FailureHasACause'
  BY DEF FailureHasACause, TimesOut
<1> QED BY <1>1, <1>2, <1>3, <1>4, <1>5, <1>6, <1>7, <1>8 DEF FundingInv

\* A batch is over: the next one has accounts, or all transfers are mined.
LEMMA JoinBatchKeeps ==
  ASSUME FundingInv, JoinBatch
  PROVE  FundingInv'
<1>1. TypeOK'
  <2>1. CASE \E b \in 1..Last : BatchOf(b) > batch
    <3>1. PICK b \in 1..Last : BatchOf(b) > batch
      BY <2>1
    <3>2. batch + 1 \in 1..(Users + MaxSp + 1)
      BY <3>1, Accounts, Constants DEF FundingInv, TypeOK
    <3> QED BY <2>1, <3>2 DEF JoinBatch, chainVars, FundingInv, TypeOK, Last
  <2>2. CASE ~\E b \in 1..Last : BatchOf(b) > batch
    <3>1. PICK next \in {"verify", "failed"} : Enter(next) /\ UNCHANGED batch
      BY <2>2 DEF JoinBatch
    <3>2. /\ stage' = next /\ thread' \in [Account -> Threads]
          /\ tries' \in [Account -> 0..MaxTries]
      BY <3>1, Begins
    <3> QED BY <3>1, <3>2 DEF JoinBatch, chainVars, FundingInv, TypeOK, Threads, Last
  <2> QED BY <2>1, <2>2
<1>2. Counting'
  <2>1. CASE stage' = "verify"
    <3>1. \A a \in Account : tries'[a] = 0
      BY <2>1, Begins DEF JoinBatch
    <3> QED BY <2>1, <3>1, Constants DEF Counting
  <2>2. CASE stage' \in {"transfer", "failed"}
    BY <2>2 DEF JoinBatch, FundingInv, Counting
  <2>3. stage' \in {"transfer", "verify", "failed"}
    BY Begins DEF JoinBatch
  <2> QED BY <2>1, <2>2, <2>3
<1>3. Filling'
  BY DEF Filling, FundingInv, JoinBatch, Enter, chainVars, Last, Account
<1>4. Sending'
  <2>1. /\ stage = "transfer" /\ Last' = Last /\ UNCHANGED <<errors, pool, nonce>>
        /\ \A a \in 1..Last : BatchOf(a) = batch => Is(a, "done")
    BY DEF JoinBatch, BatchOver, AllDone, InBatch, chainVars, Last
  <2>2. Last \in Nat /\ batch \in Nat \ {0} /\ \A a \in 1..Last : BatchOf(a) \in Nat
    BY Accounts, Constants DEF FundingInv, TypeOK
  <2>3. CASE \E b \in 1..Last : BatchOf(b) > batch
    <3>1. PICK b \in 1..Last : BatchOf(b) > batch
      BY <2>3
    <3>2. batch' = batch + 1 /\ UNCHANGED <<stage, thread, tries>>
      BY <2>3 DEF JoinBatch
    <3>3. PICK c \in 1..b : BatchOf(c) = batch + 1
      BY <2>2, <3>1, NextBatch
    <3>4. c \in 1..Last
      BY <2>2, <3>3
    <3> QED BY <2>1, <2>2, <3>2, <3>3, <3>4 DEF FundingInv, Sending, Is
  <2>4. CASE ~\E b \in 1..Last : BatchOf(b) > batch
    <3>1. \A a \in 1..Last : Is(a, "done")
      BY <2>1, <2>2, <2>4 DEF FundingInv, Sending
    <3>2. stage' = IF errors = {} THEN "verify" ELSE "failed"
      BY <2>4, Begins DEF JoinBatch
    <3>3. CASE errors = {}
      <4>1. \A a \in 1..Last : a \notin pool /\ a < nonce
        BY <2>1, <3>1, <3>3 DEF FundingInv, Sending
      <4>2. pool = {}
        BY <2>1, <4>1, PoolOfTransfers
      <4>3. nonce = Last + 1
        <5>1. Last \in 1..Last /\ nonce \in 0..(Last + 1)
          BY <2>2, Accounts DEF FundingInv, TypeOK
        <5> QED BY <2>2, <4>1, <5>1
      <4> QED BY <2>1, <3>2, <3>3, <4>2, <4>3 DEF Sending
    <3>4. CASE errors # {}
      BY <3>2, <3>4 DEF Sending
    <3> QED BY <3>3, <3>4
  <2> QED BY <2>3, <2>4
<1>5. Balance'
  BY DEF Balance, FundingInv, JoinBatch, Enter, chainVars, Last
<1>6. Checked'
  <2>1. who' = 1 /\ stage' # "ok"
    BY Begins DEF JoinBatch, FundingInv, Counting
  <2> QED BY <2>1 DEF Checked
<1>7. Caused'
  BY DEF Caused, FundingInv, JoinBatch
<1>8. FailureHasACause'
  <2>1. stage' = "failed" => errors # {}
    BY Begins DEF JoinBatch
  <2>2. errors # {} => faults > 0
    BY DEF FundingInv, Caused, TypeOK
  <2> QED BY <2>1, <2>2 DEF JoinBatch, FailureHasACause
<1> QED BY <1>1, <1>2, <1>3, <1>4, <1>5, <1>6, <1>7, <1>8 DEF FundingInv

\* A balance is read, and is short only where the supply is.
LEMMA SeesKeeps ==
  ASSUME FundingInv, Sees
  PROVE  FundingInv'
<1>1. TypeOK'
  <2>1. who' \in 1..(Last + 1)
    BY Accounts DEF Sees, LastToVerify, FundingInv, TypeOK
  <2> QED BY <2>1 DEF Sees, chainVars, FundingInv, TypeOK, Last
<1>2. Counting'
  <2>1. /\ stage = "verify" /\ stage' \in {"verify", "failed"} /\ tries' = tries
        /\ who' \in {who, who + 1} /\ who \in Nat
    BY Accounts DEF Sees, FundingInv, TypeOK
  <2>2. \A a \in Account : a >= who' => a >= who
    BY <2>1, Accounts DEF FundingInv
  <2> QED BY <2>1, <2>2 DEF Counting, FundingInv
<1>3. Filling'
  BY DEF Filling, FundingInv, Sees, chainVars, Last, Account
<1>4. Sending'
  BY DEF Sending, FundingInv, Sees, chainVars, Last
<1>5. Balance'
  BY DEF Balance, FundingInv, Sees, chainVars, Last
<1>6. Checked'
  <2>1. /\ stage = "verify" /\ nonce = Last + 1 /\ who \in 1..Last /\ Last \in Nat
        /\ who \in Account \ {0} /\ Last' = Last /\ tokens' = tokens
    BY Accounts DEF Sees, LastToVerify, chainVars, FundingInv, Sending, TypeOK, Last
  <2>2. Amount(who) \in {1, 2} /\ tokens[who] \in {0, Amount(who)}
    BY <2>1, Accounts DEF FundingInv, Balance
  <2>3. CASE tokens[who] >= Amount(who)
    <3>1. tokens[who] = Amount(who) /\ who' = who + 1 /\ stage' = "verify"
      BY <2>1, <2>2, <2>3 DEF Sees
    <3>2. \A a \in 1..((who + 1) - 1) : a = who \/ a \in 1..(who - 1)
      BY <2>1
    <3> QED BY <2>1, <3>1, <3>2 DEF FundingInv, Checked
  <2>4. CASE ~(tokens[who] >= Amount(who))
    BY <2>1, <2>4 DEF Sees, Checked
  <2> QED BY <2>3, <2>4
<1>7. Caused'
  BY DEF Caused, FundingInv, Sees
<1>8. FailureHasACause'
  <2>1. /\ stage = "verify" /\ nonce = Last + 1 /\ who \in 1..Last /\ Last \in Nat
        /\ who \in Account \ {0} /\ Last' = Last /\ tokens' = tokens
    BY Accounts DEF Sees, LastToVerify, chainVars, FundingInv, Sending, TypeOK, Last
  <2>2. Amount(who) \in {1, 2} /\ tokens[who] \in {0, Amount(who)}
    BY <2>1, Accounts DEF FundingInv, Balance
  <2>3. CASE Sum[Last] <= Supply
    <3>1. tokens[who] = Amount(who)
      BY <2>1, <2>3 DEF FundingInv, Balance
    <3>2. stage' = "verify"
      BY <2>1, <2>2, <3>1 DEF Sees
    <3> QED BY <3>2 DEF FailureHasACause
  <2>4. CASE ~(Sum[Last] <= Supply)
    <3>1. Last \in Account
      BY <2>1, Accounts DEF FundingInv
    <3>2. Sum[Last] > Supply
      BY <2>4, <3>1, SumGrows, Constants
    <3> QED BY <2>1, <3>2 DEF FailureHasACause
  <2> QED BY <2>3, <2>4
<1> QED BY <1>1, <1>2, <1>3, <1>4, <1>5, <1>6, <1>7, <1>8 DEF FundingInv

\* A balance cannot be read.
LEMMA MissesKeeps ==
  ASSUME FundingInv, Misses
  PROVE  FundingInv'
<1>1. TypeOK'
  <2>1. who \in Account /\ tries[who] \in 0..(MaxTries - 1)
    BY Accounts, Constants DEF Misses, LastToVerify, FundingInv, TypeOK, Counting
  <2>2. tries' \in [Account -> 0..MaxTries]
    BY <2>1, Constants DEF Misses, FundingInv, TypeOK
  <2>3. faults' \in 0..MaxFaults
    BY Constants DEF Misses, Fault, FundingInv, TypeOK
  <2>4. stage' \in {stage, "failed"}
    BY DEF Misses
  <2> QED BY <2>2, <2>3, <2>4 DEF Misses, chainVars, FundingInv, TypeOK, Last
<1>2. Counting'
  <2>1. /\ stage \in {"check", "verify"} /\ who \in Account
        /\ tries[who] \in 0..(MaxTries - 1)
        /\ tries' = [tries EXCEPT ![who] = tries[who] + 1]
        /\ tries \in [Account -> 0..MaxTries] /\ UNCHANGED <<who, batch>>
    BY Accounts, Constants DEF Misses, LastToVerify, FundingInv, TypeOK, Counting
  <2>2. CASE GivesUp(tries'[who])
    BY <2>2 DEF Misses, Counting
  <2>3. CASE ~GivesUp(tries'[who])
    <3>1. tries'[who] < MaxTries /\ stage' = stage
      BY <2>1, <2>3, Constants DEF Misses, GivesUp
    <3>2. \A a \in Account : a >= who => tries'[a] < MaxTries
      BY <2>1, <3>1 DEF FundingInv, Counting
    <3> QED BY <2>1, <3>1, <3>2 DEF FundingInv, Counting
  <2> QED BY <2>2, <2>3
<1>3. Filling'
  BY DEF Filling, FundingInv, Misses, chainVars, Last
<1>4. Sending'
  BY DEF Sending, FundingInv, Misses, chainVars, Last
<1>5. Balance'
  BY DEF Balance, FundingInv, Misses, chainVars, Last
<1>6. Checked'
  BY DEF Checked, FundingInv, Misses, chainVars
<1>7. Caused'
  BY DEF Caused, FundingInv, Misses, Fault, TypeOK
<1>8. FailureHasACause'
  BY DEF FailureHasACause, FundingInv, Misses, Fault, TypeOK
<1> QED BY <1>1, <1>2, <1>3, <1>4, <1>5, <1>6, <1>7, <1>8 DEF FundingInv

\* All balances are there.
LEMMA VerifiedKeeps ==
  ASSUME FundingInv, Verified
  PROVE  FundingInv'
<1>1. TypeOK'
  BY DEF TypeOK, FundingInv, Verified, chainVars, Last
<1>2. Counting'
  BY DEF Counting, Verified
<1>3. Filling'
  BY DEF Filling, FundingInv, Verified, chainVars, Last
<1>4. Sending'
  BY DEF Sending, FundingInv, Verified, chainVars, Last
<1>5. Balance'
  BY DEF Balance, FundingInv, Verified, chainVars, Last
<1>6. Checked'
  BY Constants DEF Checked, FundingInv, Verified, LastToVerify, chainVars, TypeOK, Last
<1>7. Caused'
  BY DEF Caused, FundingInv, Verified
<1>8. FailureHasACause'
  BY DEF FailureHasACause, Verified
<1> QED BY <1>1, <1>2, <1>3, <1>4, <1>5, <1>6, <1>7, <1>8 DEF FundingInv

-----------------------------------------------------------------------------
\* It holds before the first message.
LEMMA InitFundingInv == Init => FundingInv
<1> SUFFICES ASSUME Init PROVE FundingInv
  OBVIOUS
<1>1. TypeOK
  <2>1. active \in 0..MaxSp /\ active \in Nat /\ Last \in Nat \ {0}
    BY Constants DEF Init, Last
  <2>2. thread \in [Account -> {"idle", "funded", "sending", "done"}]
    BY DEF Init, Idle
  <2>3. tries \in [Account -> 0..MaxTries] /\ tokens \in [Account -> 0..Supply]
    BY Constants DEF Init, Fresh
  <2>4. batch \in 1..(Users + MaxSp + 1) /\ faults \in 0..MaxFaults
    BY Constants DEF Init
  <2> QED BY <2>1, <2>2, <2>3, <2>4 DEF Init, TypeOK
<1>2. Counting /\ Caused /\ FailureHasACause
  BY DEF Init, Counting, Caused, FailureHasACause
<1>3. Filling
  BY DEF Init, Filling
<1>4. Sending /\ Checked
  BY DEF Init, Sending, Checked
<1>5. Balance
  BY DEF Init, Balance
<1> QED BY <1>1, <1>2, <1>3, <1>4, <1>5 DEF FundingInv

\* Every step keeps it.
LEMMA NextFundingInv ==
  ASSUME FundingInv, [Next]_vars
  PROVE  FundingInv'
<1>1. CASE UNCHANGED vars
  BY <1>1
    DEF vars, chainVars, FundingInv, TypeOK, Counting, Filling, Sending, Balance, Checked,
      Caused, FailureHasACause, Is, Last
<1>2. ASSUME NEW a \in 0..Last,
             SendsFil(a) \/ SendFilFails(a) \/ MinesFil(a) \/ SeesFil(a) \/ MissesFil(a)
      PROVE  FundingInv'
  BY <1>2, SendsFilKeeps, SendFilFailsKeeps, MinesFilKeeps, SeesFilKeeps, MissesFilKeeps
<1>3. CASE JoinFil \/ JoinVerified \/ Deploys
  BY <1>3, JoinFilKeeps, JoinVerifiedKeeps, DeploysKeeps
<1>4. ASSUME NEW a \in 1..Last,
             Transfers(a) \/ TransferFails(a) \/ Mines(a) \/ Returns(a) \/ TimesOut(a)
      PROVE  FundingInv'
  BY <1>4, TransfersKeeps, TransferFailsKeeps, MinesKeeps, ReturnsKeeps, TimesOutKeeps
<1>5. CASE FindsNone \/ JoinBatch \/ Sees \/ Misses \/ Verified
  BY <1>5, FindsNoneKeeps, JoinBatchKeeps, SeesKeeps, MissesKeeps, VerifiedKeeps
<1> QED BY <1>1, <1>2, <1>3, <1>4, <1>5 DEF Next

\* From the first message to the end of both steps the invariant holds.
THEOREM FundingInvariant == Spec => []FundingInv
BY InitFundingInv, NextFundingInv, PTL DEF Spec

\* The state of both steps is well formed: no loop outlives its tries, no nonce is
\* beyond the last account's, and no balance beyond the supply.
THEOREM FundingTypeCorrect == Spec => []TypeOK
<1>1. FundingInv => TypeOK
  BY DEF FundingInv
<1> QED BY <1>1, FundingInvariant, PTL

\* After success every account has its FIL and exactly its tokens, and nothing that
\* could change this is left in the pool.
THEOREM SuccessIsPaid == Spec => []SuccessMeansPaid
<1>1. ASSUME FundingInv, stage = "ok"
      PROVE  fil = 0..Last /\ pool = {} /\ \A a \in 1..Last : tokens[a] = Amount(a)
  <2>1. fil = 0..Last /\ pool = {} /\ who = Last + 1
    BY <1>1 DEF FundingInv, Filling, Sending, Checked
  <2>2. \A a \in 1..(who - 1) : tokens[a] = Amount(a)
    BY <1>1 DEF FundingInv, Checked
  <2>3. Last \in Nat
    BY <1>1, Accounts DEF FundingInv
  <2> QED BY <2>1, <2>2, <2>3
<1>2. FundingInv => SuccessMeansPaid
  BY <1>1 DEF SuccessMeansPaid
<1> QED BY <1>2, FundingInvariant, PTL

\* Without a failure outside, and with a supply for all, both steps succeed whatever
\* the number of accounts, the size of the batches and the order of the threads.
THEOREM FundingFailureIsCaused == Spec => []FailureHasACause
<1>1. FundingInv => FailureHasACause
  BY DEF FundingInv
<1> QED BY <1>1, FundingInvariant, PTL
=============================================================================
