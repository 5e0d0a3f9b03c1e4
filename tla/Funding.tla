------------------------------ MODULE Funding ------------------------------
(***************************************************************************)
(* The steps "Fund Ethereum Accounts" and "MockUSDFC Token Distribution",  *)
(* with the deployment of the token between them.  The first sends FIL to  *)
(* all accounts from a thread each; Lotus numbers the messages.  The       *)
(* second sends tokens in batches of threads, and numbers the transactions *)
(* itself: one that is lost leaves a gap the later ones wait behind.       *)
(*                                                                         *)
(* Account 0 stands for the deployers; the users come next, then the       *)
(* service providers.  Amounts are in units of 100,000 tokens.             *)
(***************************************************************************)
EXTENDS Integers, FiniteSets

CONSTANTS
  Users,     \* USER_ACCOUNT_COUNT
  MaxSp,     \* MAX_PDP_SP_COUNT
  Batch,     \* MAX_CONCURRENT_TRANSFERS
  Supply,    \* MOCK_USDFC_INITIAL_SUPPLY
  MaxTries,  \* DEFAULT_MAX_RETRIES
  MaxFaults  \* bound on failures and delays from outside

ASSUME FundingAssumption ==
  /\ {MaxSp, Supply, MaxFaults} \subseteq Nat
  /\ {Users, Batch, MaxTries} \subseteq Nat \ {0}

VARIABLES
  active,  \* service providers of this start
  stage,   \* what is being done
  batch,   \* the batch of transfers
  who,     \* the account whose tokens are being checked
  thread,  \* the thread of each account: "idle", "funded", "sending", "done"
  tries,   \* checks of each account that found nothing or failed
  errors,  \* accounts with an error
  pool,    \* accounts whose message or transaction waits to be mined
  fil,     \* accounts that have their FIL
  nonce,   \* the next nonce of the token's deployer on chain
  tokens,  \* the tokens of each account
  faults   \* failures and delays so far

chainVars == <<pool, fil, nonce, tokens>>
vars == <<active, stage, batch, who, thread, tries, errors, chainVars, faults>>

Account == 0 .. (Users + MaxSp)
Last == Users + active
Amount(a) == IF a <= Users THEN 1 ELSE 2
Idle == [a \in Account |-> "idle"]
Fresh == [a \in Account |-> 0]

Init ==
  /\ active \in 0..MaxSp
  /\ stage = "fil" /\ batch = 1 /\ who = 1
  /\ thread = Idle /\ tries = Fresh /\ errors = {}
  /\ pool = {} /\ fil = {} /\ nonce = 0
  /\ tokens = [a \in Account |-> 0]
  /\ faults = 0

\* Something outside fails or takes longer than the program waits for it.
Fault == faults < MaxFaults /\ faults' = faults + 1

Is(a, state) == thread[a] = state
Becomes(a, state) == thread' = [thread EXCEPT ![a] = state]
AllDone(accounts) == \A a \in accounts : Is(a, "done")
Enter(next) == stage' = next /\ thread' = Idle /\ tries' = Fresh

\* Mutant: one attempt too many.
MutGivesUp(n) == n > MaxTries
GivesUp(n) == n = MaxTries

-----------------------------------------------------------------------------
(* FIL.  `lotus send' returns when the message is in the pool.             *)

SendsFil(a) ==
  /\ stage = "fil" /\ Is(a, "idle")
  /\ pool' = pool \cup {a}
  /\ Becomes(a, "done")
  /\ UNCHANGED <<active, stage, batch, who, tries, errors, fil, nonce, tokens, faults>>

SendFilFails(a) ==
  /\ stage = "fil" /\ Is(a, "idle")
  /\ Fault
  /\ pool' \in {pool, pool \cup {a}}
  /\ errors' = errors \cup {a}
  /\ Becomes(a, "done")
  /\ UNCHANGED <<active, stage, batch, who, tries, fil, nonce, tokens>>

JoinFil ==
  /\ stage = "fil" /\ AllDone(0..Last)
  /\ Enter(IF errors = {} THEN "verify_fil" ELSE "failed")
  /\ UNCHANGED <<active, batch, who, errors, chainVars, faults>>

MinesFil(a) ==
  /\ stage \in {"fil", "verify_fil"} /\ a \in pool
  /\ pool' = pool \ {a}
  /\ fil' = fil \cup {a}
  /\ UNCHANGED <<active, stage, batch, who, thread, tries, errors, nonce, tokens, faults>>

\* The balance of the account, then its pending nonce, with tries for each.
SeesFil(a) ==
  /\ stage = "verify_fil" /\ a \in fil
  /\ \/ Is(a, "idle") /\ Becomes(a, "funded")
     \/ Is(a, "funded") /\ Becomes(a, "done")
  /\ tries' = [tries EXCEPT ![a] = 0]
  /\ UNCHANGED <<active, stage, batch, who, errors, chainVars, faults>>

MissesFil(a) ==
  /\ stage = "verify_fil" /\ ~Is(a, "done")
  /\ Fault
  /\ tries' = [tries EXCEPT ![a] = @ + 1]
  /\ IF GivesUp(tries'[a])
     THEN Becomes(a, "done") /\ errors' = errors \cup {a}
     ELSE UNCHANGED <<thread, errors>>
  /\ UNCHANGED <<active, stage, batch, who, chainVars>>

JoinVerified ==
  /\ stage = "verify_fil" /\ AllDone(0..Last)
  /\ Enter(IF errors = {} THEN "deploy" ELSE "failed")
  /\ UNCHANGED <<active, batch, who, errors, chainVars, faults>>

\* One transaction, which uses nonce 0 and mints the supply.
Deploys ==
  /\ stage = "deploy"
  /\ \/ /\ nonce' = 1 /\ tokens' = [tokens EXCEPT ![0] = Supply]
        /\ Enter("check") /\ UNCHANGED faults
     \/ Fault /\ Enter("failed") /\ UNCHANGED <<nonce, tokens>>
  /\ UNCHANGED <<active, batch, who, errors, pool, fil>>

-----------------------------------------------------------------------------
(* Tokens.  `cast send' returns when the transaction is mined.             *)

\* The balances are looked at first; in a new cluster those of users are empty.
FindsNone ==
  /\ stage = "check" /\ tokens[who] < Amount(who)
  /\ Enter("transfer")
  /\ UNCHANGED <<active, batch, who, errors, chainVars, faults>>

BatchOf(a) == (a - 1) \div Batch + 1
InBatch == {a \in 1..Last : BatchOf(a) = batch}

\* Mutant: the nonces of every batch start at one.
MutNonceOf(a) == ((a - 1) % Batch) + 1

\* batch_idx * MAX_CONCURRENT_TRANSFERS + batch_transfer_idx + 1.
NonceOf(a) == ((BatchOf(a) - 1) * Batch) + ((a - 1) % Batch) + 1

\* What the pool refuses: a nonce that is used up or waiting.
Refused(a) == NonceOf(a) < nonce \/ \E b \in pool : NonceOf(b) = NonceOf(a)

Transfers(a) ==
  /\ stage = "transfer" /\ a \in InBatch /\ Is(a, "idle")
  /\ ~Refused(a)
  /\ pool' = pool \cup {a}
  /\ Becomes(a, "sending")
  /\ UNCHANGED <<active, stage, batch, who, tries, errors, fil, nonce, tokens, faults>>

TransferFails(a) ==
  /\ stage = "transfer" /\ a \in InBatch /\ Is(a, "idle")
  /\ IF Refused(a) THEN UNCHANGED <<pool, faults>>
                   ELSE Fault /\ pool' \in {pool, pool \cup {a}}
  /\ errors' = errors \cup {a}
  /\ Becomes(a, "done")
  /\ UNCHANGED <<active, stage, batch, who, tries, fil, nonce, tokens>>

\* In the order of the nonces; a transfer of more than there is reverts.
Mines(a) ==
  /\ stage \in {"transfer", "verify"} /\ a \in pool
  /\ NonceOf(a) = nonce
  /\ pool' = pool \ {a}
  /\ nonce' = nonce + 1
  /\ tokens' = IF Amount(a) <= tokens[0]
               THEN [tokens EXCEPT ![0] = @ - Amount(a), ![a] = @ + Amount(a)]
               ELSE tokens
  /\ UNCHANGED <<active, stage, batch, who, thread, tries, errors, fil, faults>>

\* The command ends well, whatever the receipt says.
Returns(a) ==
  /\ stage = "transfer" /\ Is(a, "sending") /\ a \notin pool
  /\ Becomes(a, "done")
  /\ UNCHANGED <<active, stage, batch, who, tries, errors, chainVars, faults>>

\* Behind a gap that nobody will fill, or when the chain is slow, it gives up.
Stuck ==
  /\ \A a \in InBatch : ~Is(a, "idle")
  /\ \A a \in pool : NonceOf(a) # nonce

TimesOut(a) ==
  /\ stage = "transfer" /\ Is(a, "sending") /\ a \in pool
  /\ IF Stuck THEN UNCHANGED faults ELSE Fault
  /\ errors' = errors \cup {a}
  /\ Becomes(a, "done")
  /\ UNCHANGED <<active, stage, batch, who, tries, chainVars>>

\* Mutant: a batch is waited for until all of it has succeeded.
MutBatchOver == AllDone(InBatch) /\ InBatch \cap errors = {}
BatchOver == AllDone(InBatch)

\* A batch with errors does not keep the next one from being sent.
JoinBatch ==
  /\ stage = "transfer" /\ BatchOver
  /\ IF \E a \in 1..Last : BatchOf(a) > batch
     THEN batch' = batch + 1 /\ UNCHANGED <<stage, thread, tries>>
     ELSE Enter(IF errors = {} THEN "verify" ELSE "failed") /\ UNCHANGED batch
  /\ UNCHANGED <<active, who, errors, chainVars, faults>>

\* Mutant: the last account is not looked at.
MutLastToVerify == Last - 1
LastToVerify == Last

\* post_execute, one account after the other.
Sees ==
  /\ stage = "verify" /\ who <= LastToVerify
  /\ IF tokens[who] >= Amount(who)
     THEN who' = who + 1 /\ UNCHANGED stage
     ELSE stage' = "failed" /\ UNCHANGED who
  /\ UNCHANGED <<active, batch, thread, tries, errors, chainVars, faults>>

Misses ==
  /\ stage \in {"check", "verify"} /\ who <= LastToVerify
  /\ Fault
  /\ tries' = [tries EXCEPT ![who] = @ + 1]
  /\ stage' = IF GivesUp(tries'[who]) THEN "failed" ELSE stage
  /\ UNCHANGED <<active, batch, who, thread, errors, chainVars>>

Verified ==
  /\ stage = "verify" /\ who > LastToVerify
  /\ stage' = "ok"
  /\ UNCHANGED <<active, batch, who, thread, tries, errors, chainVars, faults>>

Next ==
  \/ \E a \in 0..Last :
       SendsFil(a) \/ SendFilFails(a) \/ MinesFil(a) \/ SeesFil(a) \/ MissesFil(a)
  \/ JoinFil \/ JoinVerified \/ Deploys
  \/ \E a \in 1..Last :
       Transfers(a) \/ TransferFails(a) \/ Mines(a) \/ Returns(a) \/ TimesOut(a)
  \/ FindsNone \/ JoinBatch \/ Sees \/ Misses \/ Verified

\* Threads are scheduled, the chain mines what it can, and commands give up.
Spec == Init /\ [][Next]_vars /\ WF_vars(Next)

-----------------------------------------------------------------------------
Over == stage \in {"ok", "failed"}
Sum[a \in 0 .. (Users + MaxSp)] == IF a = 0 THEN 0 ELSE Sum[a - 1] + Amount(a)

TypeOK ==
  /\ active \in 0..MaxSp
  /\ stage \in {"fil", "verify_fil", "deploy", "check", "transfer", "verify", "ok", "failed"}
  /\ batch \in 1 .. (Users + MaxSp + 1)
  /\ who \in 1..(Last + 1)
  /\ thread \in [Account -> {"idle", "funded", "sending", "done"}]
  /\ tries \in [Account -> 0..MaxTries]
  /\ errors \cup pool \cup fil \subseteq 0..Last
  /\ nonce \in 0..(Last + 1)
  /\ tokens \in [Account -> 0..Supply]
  /\ faults \in 0..MaxFaults

\* When both steps succeeded every account has its FIL and exactly its tokens, and
\* no transfer is left that could still take effect.
SuccessMeansPaid ==
  stage = "ok" =>
    /\ fil = 0..Last
    /\ \A a \in 1..Last : tokens[a] = Amount(a)
    /\ pool = {}

\* The steps fail for no reason of their own: while nothing outside fails and the
\* supply covers the transfers, the nonces the batches choose make every transfer
\* take effect, whatever the order in which the threads come to the chain.
FailureHasACause ==
  stage = "failed" => faults > 0 \/ Sum[Last] > Supply

\* Both steps end: threads behind a gap in the nonces are not waited for for ever.
FundingEnds == <>Over

\* active_pdp_sp_count "Must satisfy: ... <= MAX_PDP_SP_COUNT" (config.rs:269), and
\* validate() accepts it: a start with any such number of providers does not fail
\* while nothing outside fails.
DocEveryCountIsFunded == stage = "failed" => faults > 0
=============================================================================
