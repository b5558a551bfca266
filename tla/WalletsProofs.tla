---------------------------- MODULE WalletsProofs ----------------------------
(* Theorems about Wallets, for any wallets, jobs, fees, prices and bounds. *)
EXTENDS Wallets, SumProofs, TLAPS

-----------------------------------------------------------------------------
(* The derived identity.                                                   *)

\* While a call waits for its signature the original signer is the one it set, or
\* was closed; afterwards the keypair belongs to him.
KeyInv ==
  ~disturbed =>
    /\ deriving = {} /\ Initialized => derived = DerivedFrom[original]
    /\ deriving # {} => \E w : deriving = {w} /\ original \in {w, NoWallet}

LEMMA KeyInit == Init => KeyInv
BY DEF Init, KeyInv, Initialized

LEMMA KeyNext == KeyInv /\ [Next]_vars => KeyInv'
<1> SUFFICES ASSUME KeyInv, [Next]_vars PROVE KeyInv'
  OBVIOUS
<1>1. ASSUME NEW w, DeriveFrom(w) PROVE KeyInv'
  BY <1>1 DEF DeriveFrom, NewOriginal, KeyInv
<1>2. ASSUME NEW w, Derived(w) PROVE KeyInv'
  <2>1. w \in deriving /\ deriving' = deriving \ {w} /\ derived' = DerivedFrom[w]
        /\ original' = original /\ disturbed' = disturbed
    BY <1>2 DEF Derived
  <2>2. ~disturbed => deriving' = {} /\ original \in {w, NoWallet}
    BY <2>1 DEF KeyInv
  <2>3. QED
    BY <2>1, <2>2 DEF KeyInv, Initialized
<1>3. ASSUME NEW w, DeriveFails(w) PROVE KeyInv'
  BY <1>3 DEF DeriveFails, KeyInv
<1>4. CASE CloseDerived
  BY <1>4 DEF CloseDerived, KeyInv, Initialized
<1>5. CASE UNCHANGED derivedVars
  BY <1>5 DEF derivedVars, KeyInv, Initialized
<1>6. \A j \in Jobs : PaysDerived(j) => UNCHANGED derivedVars
  BY DEF PaysDerived, Fund, Withdraw, WithdrawAll, WithdrawRest
<1>7. Derives => CloseDerived \/ \E w : DeriveFrom(w) \/ Derived(w) \/ DeriveFails(w)
  BY DEF Derives
<1>8. UNCHANGED derivedVars \/ Derives
  BY <1>6 DEF Next, vars
<1>9. QED
  BY <1>1, <1>2, <1>3, <1>4, <1>5, <1>7, <1>8

(* Unless two calls of deriveFrom overlapped, or a user refused to sign,   *)
(* the derived identity always gives its SOL back to the wallet its key is *)
(* derived from, whatever else the instance pays meanwhile.                *)
THEOREM KeysAreOfTheirOrigin == Spec => []KeyIsOfItsOrigin
<1>1. KeyInv => KeyIsOfItsOrigin
  BY DEF KeyInv, KeyIsOfItsOrigin
<1>2. QED
  BY <1>1, KeyInit, KeyNext, PTL DEF Spec

-----------------------------------------------------------------------------
(* A Transaction object is paid for once.                                  *)

Everywhere == network \cup landed \cup bounced

TxShape(tx) ==
  tx = [by |-> tx.by, from |-> tx.from, to |-> tx.to, amount |-> tx.amount,
        payer |-> tx.payer, hash |-> tx.hash]

JobShape(job) ==
  DOMAIN job = {"kind", "step", "tx", "saw", "keys", "signed", "client", "sends"}

\* What a job holds, if it is about to be sent or is an object, is its own.
JobOK(j, job) ==
  /\ JobShape(job)
  /\ job.step = "ready" => job.kind # "none"
  /\ job.step = "ready" \/ job.kind = "object" => TxShape(job.tx) /\ job.tx.by = j

\* All that was ever sent of an object is the transaction that its caller holds.
SentOnce ==
  \A tx \in Everywhere :
    /\ tx.by \in Jobs /\ jobs[tx.by].kind # "none"
    /\ jobs[tx.by].kind = "object" => tx = jobs[tx.by].tx /\ tx.hash # NoHash

PayInv ==
  /\ DOMAIN jobs = Jobs
  /\ \A j \in Jobs : JobOK(j, jobs[j])
  /\ SentOnce
  /\ clock \in 0 .. MaxClock

LEMMA PayInit == Init => PayInv
<1> SUFFICES ASSUME Init PROVE PayInv
  OBVIOUS
<1>1. DOMAIN jobs = Jobs /\ Everywhere = {}
        /\ \A j \in Jobs : jobs[j] = NoJob
  BY DEF Init, Everywhere
<1>2. \A j : JobOK(j, NoJob)
  BY DEF JobOK, JobShape, NoJob
<1>3. 0 \in 0 .. MaxClock
  BY RpcAssumption
<1>4. QED
  BY <1>1, <1>2, <1>3 DEF Init, PayInv, SentOnce

\* One job takes a step; it keeps its kind and, as an object, what it sends.
Goes(j) ==
  /\ DOMAIN jobs' = Jobs /\ \A i \in Jobs : i # j => jobs'[i] = jobs[i]
  /\ JobOK(j, jobs'[j])
  /\ jobs[j].kind # "none" => jobs'[j].kind = jobs[j].kind
  /\ jobs[j].kind = "object" => jobs'[j].tx = jobs[j].tx

(* Such a step keeps the invariant if nothing new is sent.                 *)
LEMMA GoesOn ==
  ASSUME PayInv, NEW j \in Jobs, Goes(j), Everywhere' \subseteq Everywhere, clock' = clock
  PROVE  PayInv'
<1>1. \A i \in Jobs : JobOK(i, jobs'[i])
  BY DEF PayInv, Goes
<1>2. SentOnce'
  <2> SUFFICES ASSUME NEW tx \in Everywhere'
               PROVE  /\ tx.by \in Jobs /\ jobs'[tx.by].kind # "none"
                      /\ jobs'[tx.by].kind = "object" =>
                           tx = jobs'[tx.by].tx /\ tx.hash # NoHash
    BY DEF SentOnce
  <2>1. /\ tx.by \in Jobs /\ jobs[tx.by].kind # "none"
        /\ jobs[tx.by].kind = "object" => tx = jobs[tx.by].tx /\ tx.hash # NoHash
    BY DEF PayInv, SentOnce
  <2>2. QED
    BY <2>1 DEF Goes
<1>3. (\A i \in Jobs : JobOK(i, jobs[i]))'
  BY <1>1 DEF JobOK, JobShape, TxShape
<1>4. QED
  BY <1>2, <1>3 DEF PayInv, Goes

(* A new transaction has the shape of one.                                 *)
LEMMA NewShape ==
  ASSUME NEW j, NEW from, NEW to, NEW amount
  PROVE  /\ TxShape(NewTransaction(j, from, to, amount))
         /\ NewTransaction(j, from, to, amount).by = j
BY DEF NewTransaction, TxShape

LEMMA TransferGoes ==
  ASSUME PayInv, NEW j \in Jobs, NEW kind, NEW to, NEW amount, Transfer(j, kind, to, amount)
  PROVE  Goes(j)
<1> DEFINE tx == NewTransaction(j, identity, to, amount)
<1>1. TxShape(tx) /\ tx.by = j
  BY NewShape
<1> HIDE DEF tx
<1>2. /\ kind # "none" /\ jobs[j].kind = "none"
      /\ jobs' = [jobs EXCEPT ![j].kind = kind, ![j].step = "ready", ![j].tx = tx]
  BY DEF Transfer, tx
<1>3. QED
  BY <1>1, <1>2 DEF PayInv, Goes, JobOK, JobShape

LEMMA StartGoes ==
  ASSUME PayInv, NEW j \in Jobs, NEW kind \in {"fund", "withdraw", "withdrawAll"},
         NEW from, NEW to, NEW amount, jobs[j].kind \in {"none", kind},
         StartTransfer(j, kind, from, to, amount)
  PROVE  Goes(j)
<1> DEFINE tx == NewTransaction(j, from, to, amount)
<1>1. TxShape(tx) /\ tx.by = j
  BY NewShape
<1> HIDE DEF tx
<1>2. jobs' = [jobs EXCEPT ![j].kind = kind, ![j].step = "ready", ![j].keys = {from},
                           ![j].tx = tx]
  BY DEF StartTransfer, tx
<1>3. QED
  BY <1>1, <1>2 DEF PayInv, Goes, JobOK, JobShape

LEMMA RetryGoes ==
  ASSUME PayInv, NEW j \in Jobs, Retry(j)
  PROVE  Goes(j)
<1> DEFINE again == NewTransaction(j, identity, jobs[j].tx.to, jobs[j].tx.amount)
           tx == IF jobs[j].kind = "object" THEN jobs[j].tx ELSE again
           signed == IF jobs[j].kind = "object" THEN jobs[j].signed ELSE {}
<1>1. TxShape(again) /\ again.by = j
  BY NewShape
<1>2. /\ jobs' = [jobs EXCEPT ![j].step = "ready", ![j].tx = tx, ![j].signed = signed]
      /\ jobs[j].kind \in {"object", "transfer"}
  BY DEF Retry, PayInv
<1> HIDE DEF again
<1>3. TxShape(tx) /\ tx.by = j
  BY <1>1 DEF PayInv, JobOK
<1>4. jobs[j].kind = "object" => tx = jobs[j].tx
  OBVIOUS
<1> HIDE DEF tx, signed
<1>5. QED
  BY <1>2, <1>3, <1>4 DEF PayInv, Goes, JobOK, JobShape

LEMMA FundUploadGoes ==
  ASSUME PayInv, NEW j \in Jobs, FundUpload(j)
  PROVE  Goes(j)
<1> DEFINE toFund == MissingFunds(loaded[client])
           new == [NewTransaction(j, client, Node, toFund) EXCEPT !.payer = client]
           tx == IF toFund = 0 THEN NoTx ELSE new
           step == IF toFund = 0 THEN "upload" ELSE "ready"
<1>1. TxShape(new) /\ new.by = j
  BY DEF NewTransaction, TxShape
<1>2. /\ jobs[j].kind = "upload"
      /\ jobs' = [jobs EXCEPT ![j].step = step, ![j].saw = loaded[client],
                              ![j].keys = {client}, ![j].tx = tx]
  BY DEF FundUpload
<1>3. step = "ready" => TxShape(tx) /\ tx.by = j
  BY <1>1
<1> HIDE DEF tx, step
<1>4. QED
  BY <1>2, <1>3 DEF PayInv, Goes, JobOK, JobShape

(* The others change neither what a job sends nor, once it has one, its    *)
(* kind, and leave it in a step from which nothing is sent.                *)
LEMMA QuietGoes ==
  ASSUME PayInv, NEW j \in Jobs,
         \/ Confirm(j) \/ GiveUp(j) \/ WithdrawAll(j)
         \/ Upload(j) \/ Unload(j) \/ Connect(j) \/ ConnectFails(j)
         \/ Credited(j) \/ Store(j) \/ ReadLoaded(j) \/ WithdrawLoaded(j)
  PROVE  Goes(j)
<1> USE DEF PayInv, Goes, JobOK, JobShape
<1>1. CASE Confirm(j)
  BY <1>1 DEF Confirm, Confirmed
<1>2. CASE GiveUp(j)
  BY <1>2 DEF GiveUp
<1>3. CASE WithdrawAll(j)
  BY <1>3 DEF WithdrawAll
<1>4. CASE Upload(j) \/ Unload(j)
  BY <1>4 DEF Upload, Unload, UseClient
<1>5. CASE Connect(j)
  BY <1>5 DEF Connect
<1>6. CASE ConnectFails(j)
  BY <1>6 DEF ConnectFails
<1>7. CASE Credited(j)
  BY <1>7 DEF Credited
<1>8. CASE Store(j)
  BY <1>8 DEF Store
<1>9. CASE ReadLoaded(j)
  BY <1>9 DEF ReadLoaded
<1>10. CASE WithdrawLoaded(j)
  BY <1>10 DEF WithdrawLoaded
<1>11. QED
  BY <1>1, <1>2, <1>3, <1>4, <1>5, <1>6, <1>7, <1>8, <1>9, <1>10

(* An object that is sent again is what was sent before.                   *)
LEMMA SubmitOK ==
  ASSUME PayInv, NEW j \in Jobs, Submit(j), clock' = clock
  PROVE  PayInv'
<1> DEFINE tx == WithHash(jobs[j].tx)
           step == jobs'[j].step
<1>1. /\ JobOK(j, jobs[j]) /\ jobs[j].step = "ready" /\ jobs[j].kind # "none"
      /\ TxShape(jobs[j].tx) /\ jobs[j].tx.by = j
  BY DEF PayInv, Submit, JobOK
<1>2. clock # NoHash
  BY RpcAssumption DEF PayInv
<1>3. TxShape(tx) /\ tx.by = j /\ tx.hash # NoHash
        /\ (jobs[j].tx.hash # NoHash => tx = jobs[j].tx)
  <2>1. CASE jobs[j].tx.hash = NoHash
    BY <1>1, <1>2, <2>1 DEF WithHash, TxShape
  <2>2. CASE jobs[j].tx.hash # NoHash
    BY <1>1, <2>2 DEF WithHash, TxShape
  <2>3. QED
    BY <2>1, <2>2
<1>4. /\ DOMAIN jobs' = Jobs /\ \A i \in Jobs : i # j => jobs'[i] = jobs[i]
      /\ jobs'[j].kind = jobs[j].kind /\ jobs'[j].tx = tx /\ JobShape(jobs'[j])
      /\ Everywhere' \subseteq Everywhere \cup {tx}
  BY <1>1 DEF Submit, PayInv, Everywhere, JobOK, JobShape
<1> HIDE DEF tx
<1>5. \A i \in Jobs : JobOK(i, jobs'[i])
  BY <1>1, <1>3, <1>4 DEF PayInv, JobOK
<1>6. SentOnce'
  <2> SUFFICES ASSUME NEW s \in Everywhere'
               PROVE  /\ s.by \in Jobs /\ jobs'[s.by].kind # "none"
                      /\ jobs'[s.by].kind = "object" =>
                           s = jobs'[s.by].tx /\ s.hash # NoHash
    BY DEF SentOnce
  <2>1. CASE s = tx
    BY <1>1, <1>3, <1>4, <2>1
  <2>2. CASE s \in Everywhere
    <3>1. /\ s.by \in Jobs /\ jobs[s.by].kind # "none"
          /\ jobs[s.by].kind = "object" => s = jobs[s.by].tx /\ s.hash # NoHash
      BY <2>2 DEF PayInv, SentOnce
    <3>2. QED
      BY <1>3, <1>4, <3>1
  <2>3. QED
    BY <1>4, <2>1, <2>2
<1>7. (\A i \in Jobs : JobOK(i, jobs[i]))'
  BY <1>5 DEF JobOK, JobShape, TxShape
<1>8. QED
  BY <1>4, <1>6, <1>7 DEF PayInv

(* What only happens in the network sends nothing.                         *)
LEMMA NetworkOK ==
  ASSUME PayInv, Network \/ (\E w : SetIdentity(w))
  PROVE  PayInv'
<1>1. jobs' = jobs /\ Everywhere' \subseteq Everywhere
  BY DEF Network, Land, Lose, Tick, SetIdentity, Everywhere
<1>2. clock' \in 0 .. MaxClock
  BY RpcAssumption DEF PayInv, Network, Land, Lose, Tick, SetIdentity
<1>3. QED
  BY <1>1, <1>2 DEF PayInv, SentOnce, JobOK, JobShape, TxShape

LEMMA PayNext == PayInv /\ [Next]_vars => PayInv'
<1> SUFFICES ASSUME PayInv, [Next]_vars PROVE PayInv'
  OBVIOUS
<1> DEFINE Still == Everywhere' \subseteq Everywhere /\ clock' = clock
<1>1. ASSUME NEW j \in Jobs, Pays(j) PROVE PayInv'
  <2>1. CASE Submit(j)
    <3>1. clock' = clock
      BY <2>1 DEF Submit
    <3>2. QED
      BY <2>1, <3>1, SubmitOK
  <2>2. CASE Confirm(j) \/ GiveUp(j)
    <3>1. Still
      BY <2>2 DEF Confirm, GiveUp, Everywhere
    <3>2. QED
      BY <2>2, <3>1, QuietGoes, GoesOn
  <2>3. CASE Retry(j)
    <3>1. Still
      BY <2>3 DEF Retry, Everywhere
    <3>2. QED
      BY <2>3, <3>1, RetryGoes, GoesOn
  <2>4. ASSUME NEW kind, NEW to, NEW a, Transfer(j, kind, to, a) PROVE PayInv'
    <3>1. Still
      BY <2>4 DEF Transfer, Everywhere
    <3>2. QED
      BY <2>4, <3>1, TransferGoes, GoesOn
  <2>5. QED
    BY <1>1, <2>1, <2>2, <2>3, <2>4 DEF Pays
<1>2. CASE Network \/ \E w : SetIdentity(w)
  BY <1>2, NetworkOK
<1>3. CASE Derives \/ UNCHANGED vars
  <2>1. UNCHANGED rpcVars
    BY <1>3 DEF Derives, DeriveFrom, Derived, DeriveFails, CloseDerived, vars
  <2>2. QED
    BY <2>1 DEF rpcVars, PayInv, SentOnce, Everywhere, JobOK, JobShape, TxShape
<1>4. ASSUME NEW j \in Jobs, PaysDerived(j) PROVE PayInv'
  <2>1. ASSUME NEW a, Fund(j, a) \/ Withdraw(j, a) PROVE PayInv'
    <3>1. Still
      BY <2>1 DEF Fund, Withdraw, Everywhere
    <3>2. Goes(j)
      BY <2>1, StartGoes DEF Fund, Withdraw
    <3>3. QED
      BY <3>1, <3>2, GoesOn
  <2>2. CASE WithdrawAll(j)
    <3>1. Still
      BY <2>2 DEF WithdrawAll, Everywhere
    <3>2. QED
      BY <2>2, <3>1, QuietGoes, GoesOn
  <2>3. CASE WithdrawRest(j)
    <3>1. Still
      BY <2>3 DEF WithdrawRest, Everywhere
    <3>2. CASE Initialized
      <4>1. jobs[j].kind = "withdrawAll"
              /\ StartTransfer(j, "withdrawAll", derived, original, jobs[j].saw)
        BY <2>3, <3>2 DEF WithdrawRest, WithdrawSeen
      <4>2. Goes(j)
        BY <4>1, StartGoes
      <4>3. QED
        BY <3>1, <4>2, GoesOn
    <3>3. CASE ~Initialized
      <4>1. jobs' = [jobs EXCEPT ![j].step = "failed"]
        BY <2>3, <3>3 DEF WithdrawRest
      <4>2. Goes(j)
        BY <4>1 DEF PayInv, Goes, JobOK, JobShape
      <4>3. QED
        BY <3>1, <4>2, GoesOn
    <3>4. QED
      BY <3>2, <3>3
  <2>4. QED
    BY <1>4, <2>1, <2>2, <2>3 DEF PaysDerived
<1>5. ASSUME NEW j \in Jobs, Bundlr(j) PROVE PayInv'
  <2>1. Still
    BY <1>5 DEF Bundlr, Upload, Unload, UseClient, Connect, ConnectFails, FundUpload,
       Credited, Store, ReadLoaded, WithdrawLoaded, Everywhere
  <2>2. Goes(j)
    BY <1>5, FundUploadGoes, QuietGoes DEF Bundlr
  <2>3. QED
    BY <2>1, <2>2, GoesOn
<1>6. QED
  BY <1>1, <1>2, <1>3, <1>4, <1>5 DEF Next

(* A caller who sends a Transaction object again, because he was told that *)
(* it failed, never pays twice: whatever else is under way, however often  *)
(* he tries and however blockhashes expire.                                *)
THEOREM ObjectsArePaidOnce == Spec => []SameObjectPaysOnce
<1>1. ASSUME PayInv, NEW j \in Jobs, jobs[j].kind = "object"
      PROVE  Cardinality({tx \in landed : tx.by = j}) <= 1
  <2>1. {tx \in landed : tx.by = j} \subseteq {jobs[j].tx}
    BY <1>1 DEF PayInv, SentOnce, Everywhere
  <2>2. IsFiniteSet({jobs[j].tx}) /\ Cardinality({jobs[j].tx}) = 1
    BY FS_Singleton
  <2>3. QED
    BY <2>1, <2>2, FS_Subset
<1>2. PayInv => SameObjectPaysOnce
  BY <1>1 DEF SameObjectPaysOnce
<1>3. QED
  BY <1>2, PayInit, PayNext, PTL DEF Spec

-----------------------------------------------------------------------------
(* What is refused: the balances and amounts are integers, and a job knows *)
(* what it is about to pay for.                                            *)

Payments == TransactionsOf(Int)

JobTypes ==
  [kind : Kinds, step : Steps, tx : Payments \cup {NoTx}, saw : Int, keys : SUBSET Wallets,
   signed : SUBSET Wallets, client : Wallets \cup {NoWallet}, sends : Nat]

\* What withdrawAll sends is signed by the wallet it empties, and moves what was read.
OfWithdrawAll(job) ==
  job.kind = "withdrawAll" /\ job.step = "ready" =>
    job.keys = {job.tx.from} /\ job.tx.amount = job.saw /\ job.tx.hash = NoHash

\* What an upload funds makes up for what the balance lacked.
OfUpload(job) ==
  job.kind = "upload" /\ job.step \in {"ready", "sent", "upload"} =>
    IF job.tx = NoTx THEN job.saw >= Price ELSE job.saw + job.tx.amount = Price

JobFine(job) ==
  /\ job \in JobTypes
  /\ job.step = "ready" \/ job.kind \in {"object", "transfer"} => job.tx \in Payments
  /\ job.step \in {"connecting", "connected", "upload"} => job.kind \in {"upload", "unload"}
  /\ job.kind \in {"upload", "unload"} => job.client \in Wallets
  /\ OfWithdrawAll(job)
  /\ OfUpload(job)

Typed ==
  /\ sol \in [Wallets -> Int] /\ loaded \in [Wallets -> Int]
  /\ identity \in Wallets /\ client \in Wallets \cup {NoWallet}
  /\ original \in Wallets \cup {NoWallet} /\ derived \in Wallets \cup {NoWallet}
  /\ deriving \subseteq DOMAIN DerivedFrom
  /\ Everywhere \subseteq Payments

\* A withdrawAll that has not been sent yet.
Unsent(job) == job.kind = "withdrawAll" /\ job.step \in {"read", "ready"}

JobsFine ==
  /\ DOMAIN jobs = Jobs
  /\ \A j \in Jobs : /\ JobFine(jobs[j])
                     /\ Unsent(jobs[j]) => \A tx \in Everywhere : tx.by # j
                     /\ jobs[j].step = "connected" => client # NoWallet

MoneyInv == Typed /\ JobsFine

LEMMA MoneyInit == Init => MoneyInv
<1> SUFFICES ASSUME Init PROVE MoneyInv
  OBVIOUS
<1>1. Everywhere = {} /\ DOMAIN jobs = Jobs /\ \A j \in Jobs : jobs[j] = NoJob
  BY DEF Init, Everywhere
<1>2. JobFine(NoJob) /\ ~Unsent(NoJob) /\ NoJob.step # "connected"
  BY DEF NoJob, JobFine, JobTypes, OfWithdrawAll, OfUpload, Unsent, Kinds, Steps
<1>3. JobsFine
  BY <1>1, <1>2 DEF JobsFine
<1>4. Typed
  BY <1>1, WalletsAssumption, RpcAssumption DEF Init, Typed
<1>5. QED
  BY <1>3, <1>4 DEF MoneyInv

\* One job takes a step that sends nothing.
Advances(j) ==
  /\ DOMAIN jobs' = Jobs /\ \A i \in Jobs : i # j => jobs'[i] = jobs[i]
  /\ JobFine(jobs'[j])
  /\ Unsent(jobs'[j]) => Unsent(jobs[j]) \/ jobs[j].kind = "none"
  /\ jobs'[j].step = "connected" => client' # NoWallet

(* Such a step keeps what is known of all jobs.                            *)
LEMMA MovesOn ==
  ASSUME PayInv, JobsFine, NEW j \in Jobs, Advances(j), Everywhere' \subseteq Everywhere,
         client' = client \/ client' # NoWallet
  PROVE  JobsFine'
<1>1. \A i \in Jobs : JobFine(jobs'[i])
  BY DEF Advances, JobsFine
<1>2. \A i \in Jobs : jobs'[i].step = "connected" => client' # NoWallet
  BY DEF Advances, JobsFine
<1>3. ASSUME NEW i \in Jobs, Unsent(jobs'[i]), NEW tx \in Everywhere' PROVE tx.by # i
  <2>1. Unsent(jobs[i]) \/ jobs[i].kind = "none"
    BY <1>3 DEF Advances
  <2>2. CASE Unsent(jobs[i])
    BY <1>3, <2>2 DEF JobsFine
  <2>3. CASE jobs[i].kind = "none"
    BY <1>3, <2>3 DEF PayInv, SentOnce
  <2>4. QED
    BY <2>1, <2>2, <2>3
<1>4. QED
  BY <1>1, <1>2, <1>3 DEF JobsFine, Advances, JobFine, Unsent, OfWithdrawAll, OfUpload

LEMMA NewPayment ==
  ASSUME NEW j \in Jobs, NEW from \in Wallets, NEW to \in Wallets, NEW amount \in Int,
         identity \in Wallets
  PROVE  /\ NewTransaction(j, from, to, amount) \in Payments
         /\ NewTransaction(j, from, to, amount).from = from
         /\ NewTransaction(j, from, to, amount).amount = amount
         /\ NewTransaction(j, from, to, amount).hash = NoHash
BY DEF NewTransaction, Payments, TransactionsOf

LEMMA PaymentTypes ==
  ASSUME NEW tx \in Payments
  PROVE  /\ tx.by \in Jobs /\ tx.from \in Wallets /\ tx.to \in Wallets /\ tx.amount \in Int
         /\ tx.payer \in Wallets /\ tx.hash \in (0 .. MaxClock) \cup {NoHash}
         /\ tx # NoTx
BY NoTxAssumption DEF Payments, TransactionsOf

LEMMA TransferMoves ==
  ASSUME MoneyInv, NEW j \in Jobs, NEW kind, NEW to \in Identities, NEW amount \in Amounts,
         Transfer(j, kind, to, amount)
  PROVE  Advances(j)
<1> DEFINE tx == NewTransaction(j, identity, to, amount)
<1>1. tx \in Payments
  <2>1. to \in Wallets /\ amount \in Int /\ identity \in Wallets
    BY WalletsAssumption, RpcAssumption DEF MoneyInv, Typed
  <2>2. QED
    BY <2>1, NewPayment
<1> HIDE DEF tx
<1>2. /\ kind \in {"object", "transfer"} /\ jobs[j].kind = "none"
      /\ jobs' = [jobs EXCEPT ![j].kind = kind, ![j].step = "ready", ![j].tx = tx]
  BY DEF Transfer, tx
<1>3. /\ jobs'[j] \in JobTypes /\ DOMAIN jobs' = Jobs
      /\ \A i \in Jobs : i # j => jobs'[i] = jobs[i]
  <2>1. DOMAIN jobs = Jobs /\ jobs[j] \in JobTypes
    BY DEF MoneyInv, JobsFine, JobFine
  <2>2. kind \in Kinds /\ "ready" \in Steps
    BY <1>1, <1>2 DEF Kinds, Steps
  <2>3. QED
    BY <1>1, <1>2, <2>1, <2>2 DEF JobTypes
<1>4. jobs'[j].kind = kind /\ jobs'[j].step = "ready" /\ jobs'[j].tx = tx
  BY <1>1, <1>2 DEF MoneyInv, JobsFine, JobFine, JobTypes
<1>5. QED
  BY <1>1, <1>2, <1>3, <1>4 DEF MoneyInv, JobsFine, Advances, JobFine,
     OfWithdrawAll, OfUpload, Unsent

LEMMA StartMoves ==
  ASSUME MoneyInv, NEW j \in Jobs, NEW kind \in {"fund", "withdraw", "withdrawAll"},
         NEW from \in Wallets, NEW to \in Wallets, NEW amount \in Int,
         kind = "withdrawAll" => Unsent(jobs[j]) /\ amount = jobs[j].saw,
         kind # "withdrawAll" => jobs[j].kind = "none",
         StartTransfer(j, kind, from, to, amount)
  PROVE  Advances(j)
<1> DEFINE tx == NewTransaction(j, from, to, amount)
<1>1. tx \in Payments /\ tx.from = from /\ tx.amount = amount /\ tx.hash = NoHash
  BY NewPayment DEF MoneyInv, Typed
<1> HIDE DEF tx
<1>2. jobs' = [jobs EXCEPT ![j].kind = kind, ![j].step = "ready", ![j].keys = {from},
                           ![j].tx = tx]
  BY DEF StartTransfer, tx
<1>3. /\ jobs'[j] \in JobTypes /\ DOMAIN jobs' = Jobs
      /\ \A i \in Jobs : i # j => jobs'[i] = jobs[i]
  <2>1. DOMAIN jobs = Jobs /\ jobs[j] \in JobTypes
    BY DEF MoneyInv, JobsFine, JobFine
  <2>2. kind \in Kinds /\ "ready" \in Steps
    BY <1>1, <1>2 DEF Kinds, Steps
  <2>3. QED
    BY <1>1, <1>2, <2>1, <2>2 DEF JobTypes
<1>4. /\ jobs'[j].kind = kind /\ jobs'[j].step = "ready" /\ jobs'[j].tx = tx
      /\ jobs'[j].keys = {from} /\ jobs'[j].saw = jobs[j].saw
  BY <1>1, <1>2 DEF MoneyInv, JobsFine, JobFine, JobTypes
<1>5. QED
  BY <1>1, <1>2, <1>3, <1>4 DEF MoneyInv, JobsFine, Advances, JobFine,
     OfWithdrawAll, OfUpload, Unsent

LEMMA RetryMoves ==
  ASSUME MoneyInv, NEW j \in Jobs, Retry(j)
  PROVE  Advances(j)
<1> DEFINE again == NewTransaction(j, identity, jobs[j].tx.to, jobs[j].tx.amount)
           tx == IF jobs[j].kind = "object" THEN jobs[j].tx ELSE again
           signed == IF jobs[j].kind = "object" THEN jobs[j].signed ELSE {}
<1>1. jobs[j].kind \in {"object", "transfer"} /\ jobs[j].tx \in Payments
  BY DEF Retry, MoneyInv, JobsFine, JobFine
<1>2. again \in Payments
  BY <1>1, PaymentTypes, NewPayment DEF MoneyInv, Typed
<1>3. jobs' = [jobs EXCEPT ![j].step = "ready", ![j].tx = tx, ![j].signed = signed]
  BY DEF Retry, MoneyInv, JobsFine
<1> HIDE DEF again
<1>4. tx \in Payments
  BY <1>1, <1>2
<1>5. signed \in SUBSET Wallets
  BY DEF MoneyInv, JobsFine, JobFine, JobTypes
<1> HIDE DEF tx, signed
<1>6. /\ jobs'[j] \in JobTypes /\ DOMAIN jobs' = Jobs
      /\ \A i \in Jobs : i # j => jobs'[i] = jobs[i]
  <2>1. DOMAIN jobs = Jobs /\ jobs[j] \in JobTypes
    BY DEF MoneyInv, JobsFine, JobFine
  <2>2. "ready" \in Steps
    BY <1>3, <1>4, <1>5 DEF Kinds, Steps
  <2>3. QED
    BY <1>3, <1>4, <1>5, <2>1, <2>2 DEF JobTypes
<1>7. jobs'[j].kind = jobs[j].kind /\ jobs'[j].step = "ready" /\ jobs'[j].tx = tx
  BY <1>1, <1>3, <1>4, <1>5 DEF MoneyInv, JobsFine, JobFine, JobTypes
<1>8. QED
  BY <1>1, <1>3, <1>4, <1>5, <1>6, <1>7 DEF MoneyInv, JobsFine, Advances, JobFine,
     OfWithdrawAll, OfUpload, Unsent

LEMMA FundUploadMoves ==
  ASSUME MoneyInv, NEW j \in Jobs, FundUpload(j)
  PROVE  Advances(j)
<1> DEFINE balance == loaded[client]
           toFund == MissingFunds(balance)
           new == [NewTransaction(j, client, Node, toFund) EXCEPT !.payer = client]
           tx == IF toFund = 0 THEN NoTx ELSE new
           step == IF toFund = 0 THEN "upload" ELSE "ready"
           keys == {client}
<1>1. client \in Wallets /\ jobs[j].kind = "upload"
  BY DEF FundUpload, MoneyInv, Typed, JobsFine
<1>2. /\ balance \in Int /\ Price \in Int /\ toFund \in Int
      /\ toFund = 0 => balance >= Price
      /\ toFund # 0 => balance + toFund = Price
  BY <1>1, BundlrAssumption DEF MissingFunds, MoneyInv, Typed
<1>3. new \in Payments /\ new.amount = toFund
  <2>1. /\ NewTransaction(j, client, Node, toFund) \in Payments
        /\ NewTransaction(j, client, Node, toFund).amount = toFund
    BY <1>1, <1>2, BundlrAssumption, NewPayment DEF MoneyInv, Typed
  <2>2. QED
    BY <1>1, <2>1 DEF Payments, TransactionsOf
<1>4. new # NoTx
  BY <1>3, PaymentTypes
<1>5. jobs' = [jobs EXCEPT ![j].step = step, ![j].saw = balance, ![j].keys = keys,
                           ![j].tx = tx]
  BY DEF FundUpload
<1>6. /\ step \in {"upload", "ready"} /\ tx \in Payments \cup {NoTx}
      /\ step = "ready" => tx \in Payments
      /\ IF tx = NoTx THEN balance >= Price ELSE balance + tx.amount = Price
  BY <1>2, <1>3, <1>4
<1>7. keys \in SUBSET Wallets
  BY <1>1
<1> HIDE DEF tx, step, balance, toFund, new, keys
<1>8. /\ jobs'[j] \in JobTypes /\ DOMAIN jobs' = Jobs
      /\ \A i \in Jobs : i # j => jobs'[i] = jobs[i]
  <2>1. DOMAIN jobs = Jobs /\ jobs[j] \in JobTypes
    BY DEF MoneyInv, JobsFine, JobFine
  <2>2. step \in Steps
    BY <1>2, <1>5, <1>6 DEF Kinds, Steps
  <2>3. QED
    BY <1>2, <1>5, <1>6, <1>7, <2>1, <2>2 DEF JobTypes
<1>9. /\ jobs'[j].kind = jobs[j].kind /\ jobs'[j].step = step /\ jobs'[j].tx = tx
      /\ jobs'[j].saw = balance /\ jobs'[j].client = jobs[j].client
  BY <1>1, <1>2, <1>5, <1>6 DEF MoneyInv, JobsFine, JobFine, JobTypes
<1>10. QED
  BY <1>1, <1>2, <1>5, <1>6, <1>8, <1>9 DEF MoneyInv, JobsFine, Advances, JobFine,
     OfWithdrawAll, OfUpload, Unsent

(* The others set fields one at a time, and nothing of a payment.          *)
LEMMA QuietMoves ==
  ASSUME MoneyInv, NEW j \in Jobs,
         \/ Confirm(j) \/ GiveUp(j) \/ WithdrawAll(j)
         \/ Upload(j) \/ Unload(j) \/ Connect(j) \/ ConnectFails(j)
         \/ Credited(j) \/ Store(j) \/ ReadLoaded(j) \/ WithdrawLoaded(j)
  PROVE  Advances(j)
<1> USE DEF JobsFine, Advances, JobFine, JobTypes, OfWithdrawAll, OfUpload, Unsent, Kinds, Steps
<1>0. JobsFine /\ Typed
  BY DEF MoneyInv
<1>1. CASE Confirm(j)
  BY <1>0, <1>1 DEF Confirm, Confirmed
<1>2. CASE GiveUp(j)
  BY <1>0, <1>2 DEF GiveUp
<1>3. CASE WithdrawAll(j)
  <2>1. sol[derived] \in Int
    BY <1>0, <1>3 DEF WithdrawAll, Initialized, Typed
  <2>2. /\ jobs' = [jobs EXCEPT ![j].kind = "withdrawAll", ![j].step = "read",
                                 ![j].saw = sol[derived]]
        /\ jobs[j].kind = "none"
    BY <1>3 DEF WithdrawAll
  <2> HIDE DEF Advances, OfWithdrawAll, OfUpload, Unsent
  <2>3. /\ jobs'[j] \in JobTypes /\ DOMAIN jobs' = Jobs
        /\ \A i \in Jobs : i # j => jobs'[i] = jobs[i]
    <3>1. DOMAIN jobs = Jobs /\ jobs[j] \in JobTypes
      BY <1>0
    <3>2. "withdrawAll" \in Kinds /\ "read" \in Steps
      OBVIOUS
    <3> HIDE DEF JobsFine, JobFine, Kinds, Steps
    <3>3. QED
      BY <2>1, <2>2, <3>1, <3>2
  <2>4. jobs'[j].kind = "withdrawAll" /\ jobs'[j].step = "read"
    BY <1>0, <2>2
  <2> HIDE DEF JobsFine, JobTypes, Kinds, Steps
  <2>5. QED
    BY <2>2, <2>3, <2>4 DEF Advances, OfWithdrawAll, OfUpload, Unsent
<1>4. ASSUME NEW kind \in {"upload", "unload"}, UseClient(j, kind) PROVE Advances(j)
  <2> DEFINE owner == IF client = NoWallet THEN identity ELSE client
             step == IF client = NoWallet THEN "connecting" ELSE "connected"
  <2>1. /\ owner \in Wallets /\ step \in {"connecting", "connected"} /\ client' = client
        /\ step = "connected" => client # NoWallet
        /\ jobs[j].kind = "none"
        /\ jobs' = [jobs EXCEPT ![j].kind = kind, ![j].client = owner, ![j].step = step]
    BY <1>0, <1>4 DEF UseClient, Typed, bundlrVars
  <2> HIDE DEF owner, step
  <2>2. QED
    BY <1>0, <2>1
<1>5. CASE Connect(j)
  <2>1. jobs[j].client # NoWallet
    BY <1>0, <1>5, RpcAssumption DEF Connect
  <2>2. QED
    BY <1>0, <1>5, <2>1 DEF Connect
<1>6. CASE ConnectFails(j)
  BY <1>0, <1>6 DEF ConnectFails
<1>7. CASE Credited(j)
  BY <1>0, <1>7 DEF Credited
<1>8. CASE Store(j)
  BY <1>0, <1>8 DEF Store
<1>9. CASE ReadLoaded(j)
  <2>1. loaded[jobs[j].client] - MinimumBalance \in Int
    BY <1>0, <1>9, BundlrAssumption DEF ReadLoaded, Typed
  <2> DEFINE rest == loaded[jobs[j].client] - MinimumBalance
  <2>2. /\ jobs[j].kind = "unload"
        /\ \/ jobs' = [jobs EXCEPT ![j].step = "read", ![j].saw = rest]
           \/ jobs' = [jobs EXCEPT ![j].step = "done"]
    BY <1>9 DEF ReadLoaded
  <2> HIDE DEF rest
  <2> HIDE DEF Advances, OfWithdrawAll, OfUpload, Unsent
  <2>3. /\ jobs'[j] \in JobTypes /\ DOMAIN jobs' = Jobs
        /\ \A i \in Jobs : i # j => jobs'[i] = jobs[i]
    BY <1>0, <2>1, <2>2 DEF rest
  <2>4. /\ jobs'[j].kind = "unload" /\ jobs'[j].step \in {"read", "done"}
        /\ jobs'[j].client = jobs[j].client
    BY <1>0, <2>2
  <2>5. jobs[j].client \in Wallets
    BY <1>0, <2>2
  <2> HIDE DEF JobsFine, JobTypes, Kinds, Steps
  <2>6. QED
    BY <2>2, <2>3, <2>4, <2>5 DEF Advances, OfWithdrawAll, OfUpload, Unsent
<1>10. CASE WithdrawLoaded(j)
  BY <1>0, <1>10 DEF WithdrawLoaded
<1>11. QED
  BY <1>1, <1>2, <1>3, <1>4, <1>5, <1>6, <1>7, <1>8, <1>9, <1>10 DEF Upload, Unload

LEMMA SubmitMoney ==
  ASSUME PayInv, MoneyInv, NEW j \in Jobs, Submit(j), UNCHANGED <<derivedVars, bundlrVars>>
  PROVE  MoneyInv'
<1> DEFINE tx == WithHash(jobs[j].tx)
           step == jobs'[j].step
           signed == Signatures(jobs[j])
<1>1. jobs[j] \in JobTypes /\ jobs[j].tx \in Payments /\ jobs[j].step = "ready"
      /\ jobs[j].tx.by = j
  BY DEF Submit, MoneyInv, JobsFine, JobFine, PayInv, JobOK
<1>2. tx \in Payments /\ tx.amount = jobs[j].tx.amount /\ tx.by = j
  BY <1>1 DEF WithHash, Payments, TransactionsOf, PayInv
<1>3. jobs[j].tx # NoTx /\ tx # NoTx
  BY <1>1, <1>2, PaymentTypes
<1>4. signed \in SUBSET Wallets
  BY <1>1 DEF Signatures, JobTypes, MoneyInv, Typed
<1>5. /\ jobs' = [jobs EXCEPT ![j].tx = tx, ![j].sends = @ + 1, ![j].signed = signed,
                              ![j].step = step]
      /\ step \in {"sent", "failed"} /\ client' = client
      /\ Everywhere' \subseteq Everywhere \cup {tx}
  BY <1>1 DEF Submit, Everywhere, bundlrVars, MoneyInv, JobsFine, JobTypes
<1> HIDE DEF tx, step, signed
<1>6. /\ JobFine(jobs'[j]) /\ DOMAIN jobs' = Jobs /\ ~Unsent(jobs'[j])
      /\ jobs'[j].step # "connected" /\ \A i \in Jobs : i # j => jobs'[i] = jobs[i]
  BY <1>1, <1>2, <1>3, <1>4, <1>5 DEF MoneyInv, JobsFine, JobFine, JobTypes,
     OfWithdrawAll, OfUpload, Unsent, Kinds, Steps
<1>7. JobsFine'
  <2>1. ASSUME NEW i \in Jobs
        PROVE  /\ JobFine(jobs'[i])
               /\ Unsent(jobs'[i]) => \A t \in Everywhere' : t.by # i
               /\ jobs'[i].step = "connected" => client' # NoWallet
    <3>1. CASE i = j
      BY <1>6, <3>1
    <3>2. CASE i # j
      BY <1>2, <1>5, <1>6, <3>2 DEF MoneyInv, JobsFine
    <3>3. QED
      BY <3>1, <3>2
  <2>2. QED
    BY <1>6, <2>1 DEF JobsFine, JobFine, Unsent, OfWithdrawAll, OfUpload
<1>8. Typed'
  BY <1>2, <1>5 DEF Submit, MoneyInv, Typed, derivedVars, bundlrVars
<1>9. QED
  BY <1>7, <1>8 DEF MoneyInv

LEMMA NetworkMoney ==
  ASSUME MoneyInv, Network \/ (\E w \in Identities : SetIdentity(w)),
         UNCHANGED <<derivedVars, bundlrVars>>
  PROVE  MoneyInv'
<1>1. jobs' = jobs /\ Everywhere' \subseteq Everywhere /\ client' = client
  BY DEF Network, Land, Lose, Tick, SetIdentity, Everywhere, bundlrVars
<1>2. JobsFine'
  BY <1>1 DEF MoneyInv, JobsFine, JobFine, Unsent, OfWithdrawAll, OfUpload
<1>3. sol' \in [Wallets -> Int]
  <2>1. ASSUME NEW tx \in network, Land(tx) PROVE sol' \in [Wallets -> Int]
    <3>1. /\ tx.from \in Wallets /\ tx.to \in Wallets /\ tx.payer \in Wallets
          /\ tx.amount \in Int
      BY PaymentTypes DEF MoneyInv, Typed, Everywhere
    <3>2. sol \in [Wallets -> Int] /\ Fee \in Int
      BY RpcAssumption DEF MoneyInv, Typed
    <3>3. Charged(tx) \in [Wallets -> Int]
      BY <3>1, <3>2 DEF Charged
    <3>4. Moved(tx) \in [Wallets -> Int]
      BY <3>1, <3>3 DEF Moved
    <3>5. QED
      BY <2>1, <3>3, <3>4 DEF Land
  <2>2. QED
    BY <2>1 DEF Network, Lose, Tick, SetIdentity, MoneyInv, Typed
<1>4. identity' \in Wallets
  BY WalletsAssumption DEF Network, Land, Lose, Tick, SetIdentity, MoneyInv, Typed
<1>5. Typed'
  BY <1>1, <1>3, <1>4 DEF MoneyInv, Typed, derivedVars, bundlrVars
<1>6. QED
  BY <1>2, <1>5 DEF MoneyInv

LEMMA DerivesMoney ==
  ASSUME MoneyInv, Derives, UNCHANGED bundlrVars
  PROVE  MoneyInv'
<1>1. UNCHANGED rpcVars
  BY DEF Derives, DeriveFrom, Derived, DeriveFails, CloseDerived
<1>2. JobsFine'
  BY <1>1 DEF rpcVars, bundlrVars, MoneyInv, JobsFine, JobFine, Unsent, OfWithdrawAll,
     OfUpload, Everywhere
<1>3. /\ original' \in Wallets \cup {NoWallet} /\ derived' \in Wallets \cup {NoWallet}
      /\ deriving' \subseteq DOMAIN DerivedFrom
  BY WalletsAssumption DEF MoneyInv, Typed, Derives, DeriveFrom, NewOriginal, Derived,
     DeriveFails, CloseDerived
<1>4. QED
  BY <1>1, <1>2, <1>3 DEF MoneyInv, Typed, rpcVars, bundlrVars, Everywhere

\* Of all that the jobs do, only the node of Bundlr moves a balance at once.
LEMMA BundlrTyped ==
  ASSUME MoneyInv, NEW j \in Jobs, Bundlr(j), UNCHANGED derivedVars
  PROVE  Typed' /\ Everywhere' = Everywhere /\ (client' = client \/ client' # NoWallet)
<1> DEFINE owner == jobs[j].client
<1>0. /\ jobs[j] \in JobTypes /\ OfUpload(jobs[j])
      /\ jobs[j].kind \in {"upload", "unload"} => owner \in Wallets
      /\ jobs[j].step \in {"connecting", "connected", "upload"} => owner \in Wallets
  BY DEF MoneyInv, JobsFine, JobFine
<1>1. Everywhere' = Everywhere /\ identity' = identity
  BY DEF Bundlr, Upload, Unload, UseClient, Connect, ConnectFails, FundUpload,
     Credited, Store, ReadLoaded, WithdrawLoaded, Everywhere
<1>2. client' = client \/ client' \in Wallets
  BY <1>0 DEF Bundlr, Upload, Unload, UseClient, Connect, ConnectFails, FundUpload,
     Credited, Store, ReadLoaded, WithdrawLoaded, bundlrVars
<1>3. loaded \in [Wallets -> Int] /\ sol \in [Wallets -> Int]
  BY DEF MoneyInv, Typed
<1>4. /\ loaded' \in [Wallets -> Int] /\ sol' \in [Wallets -> Int]
  <2>1. CASE Credited(j)
    <3>1. jobs[j].tx \in landed => jobs[j].tx.from \in Wallets /\ jobs[j].tx.amount \in Int
      BY PaymentTypes DEF MoneyInv, Typed, Everywhere
    <3>2. QED
      BY <1>3, <2>1, <3>1 DEF Credited
  <2>2. CASE Store(j)
    <3>1. owner \in Wallets /\ Cost \in Int
      BY <1>0, <2>2, BundlrAssumption DEF Store
    <3>2. QED
      BY <1>3, <2>2, <3>1 DEF Store
  <2>3. CASE WithdrawLoaded(j)
    <3>1. jobs[j].saw \in Int
      BY <1>0 DEF JobTypes
    <3>2. \/ UNCHANGED <<loaded, sol>>
          \/ /\ loaded' = [loaded EXCEPT ![client] = @ - jobs[j].saw]
             /\ sol' = [sol EXCEPT ![Node] = @ - jobs[j].saw, ![client] = @ + jobs[j].saw]
      BY <2>3 DEF WithdrawLoaded
    <3>3. QED
      BY <1>3, <3>1, <3>2
  <2>4. QED
    BY <1>3, <2>1, <2>2, <2>3 DEF Bundlr, Upload, Unload, UseClient, Connect, ConnectFails,
       FundUpload, ReadLoaded, bundlrVars
<1>5. Typed'
  BY <1>1, <1>2, <1>4 DEF MoneyInv, Typed, derivedVars
<1>6. QED
  BY <1>1, <1>2, <1>5, RpcAssumption

LEMMA MoneyNext == PayInv /\ MoneyInv /\ [Next]_vars => MoneyInv'
<1> SUFFICES ASSUME PayInv, MoneyInv, [Next]_vars PROVE MoneyInv'
  OBVIOUS
<1> DEFINE Still == UNCHANGED <<sol, clock, network, landed, bounced, identity,
                                derivedVars, bundlrVars>>
<1>1. ASSUME NEW j \in Jobs, Advances(j), Still PROVE MoneyInv'
  <2>1. Everywhere' = Everywhere /\ client' = client
    BY <1>1 DEF Everywhere, bundlrVars
  <2>2. JobsFine'
    BY <1>1, <2>1, MovesOn DEF MoneyInv
  <2>3. Typed'
    BY <1>1, <2>1 DEF MoneyInv, Typed, derivedVars, bundlrVars
  <2>4. QED
    BY <2>2, <2>3 DEF MoneyInv
<1>2. ASSUME NEW j \in Jobs, Pays(j), UNCHANGED <<derivedVars, bundlrVars>> PROVE MoneyInv'
  <2>1. CASE Submit(j)
    BY <1>2, <2>1, SubmitMoney
  <2>2. CASE Confirm(j) \/ GiveUp(j)
    <3>1. Still
      BY <1>2, <2>2 DEF Confirm, GiveUp
    <3>2. QED
      BY <1>1, <2>2, <3>1, QuietMoves
  <2>3. CASE Retry(j)
    <3>1. Still
      BY <1>2, <2>3 DEF Retry
    <3>2. QED
      BY <1>1, <2>3, <3>1, RetryMoves
  <2>4. ASSUME NEW kind, NEW to \in Identities, NEW a \in Amounts, Transfer(j, kind, to, a)
        PROVE  MoneyInv'
    <3>1. Still
      BY <1>2, <2>4 DEF Transfer
    <3>2. QED
      BY <1>1, <2>4, <3>1, TransferMoves
  <2>5. QED
    BY <1>2, <2>1, <2>2, <2>3, <2>4 DEF Pays
<1>3. CASE (Network \/ \E w \in Identities : SetIdentity(w))
             /\ UNCHANGED <<derivedVars, bundlrVars>>
  BY <1>3, NetworkMoney
<1>4. CASE Derives /\ UNCHANGED bundlrVars
  BY <1>4, DerivesMoney
<1>5. ASSUME NEW j \in Jobs, PaysDerived(j), UNCHANGED bundlrVars PROVE MoneyInv'
  <2>1. /\ Initialized => original \in Wallets /\ derived \in Wallets
        /\ Amounts \subseteq Int
    BY WalletsAssumption, RpcAssumption DEF MoneyInv, Typed, Initialized
  <2>2. Still
    BY <1>5 DEF PaysDerived, Fund, Withdraw, WithdrawAll, WithdrawRest
  <2>3. ASSUME NEW a \in Amounts, Fund(j, a) \/ Withdraw(j, a) PROVE Advances(j)
    <3>1. a \in Int /\ original \in Wallets /\ derived \in Wallets /\ jobs[j].kind = "none"
      BY <2>1, <2>3 DEF Fund, Withdraw
    <3>2. \/ StartTransfer(j, "fund", original, derived, a)
          \/ StartTransfer(j, "withdraw", derived, original, a)
      BY <2>3 DEF Fund, Withdraw
    <3>3. QED
      BY <3>1, <3>2, StartMoves
  <2>4. ASSUME WithdrawAll(j) PROVE Advances(j)
    BY <2>4, QuietMoves
  <2>5. ASSUME WithdrawRest(j) PROVE Advances(j)
    <3>1. Unsent(jobs[j]) /\ jobs[j].saw \in Int
      BY <2>5 DEF WithdrawRest, Unsent, MoneyInv, JobsFine, JobFine, JobTypes
    <3>2. CASE Initialized
      <4>1. StartTransfer(j, "withdrawAll", derived, original, jobs[j].saw)
        BY <2>5, <3>2 DEF WithdrawRest, WithdrawSeen
      <4>2. QED
        BY <2>1, <3>1, <3>2, <4>1, StartMoves
    <3>3. CASE ~Initialized
      <4>1. jobs' = [jobs EXCEPT ![j].step = "failed"] /\ jobs[j].kind = "withdrawAll"
        BY <2>5, <3>3 DEF WithdrawRest
      <4>2. QED
        <5>1. DOMAIN jobs = Jobs /\ JobFine(jobs[j])
          BY DEF MoneyInv, JobsFine
        <5>2. "failed" \in Steps
          BY DEF Steps
        <5>3. /\ jobs'[j] \in JobTypes /\ DOMAIN jobs' = Jobs
              /\ \A i \in Jobs : i # j => jobs'[i] = jobs[i]
              /\ jobs'[j].kind = "withdrawAll" /\ jobs'[j].step = "failed"
          BY <4>1, <5>1, <5>2 DEF JobFine, JobTypes
        <5>4. QED
          BY <5>3 DEF Advances, JobFine, OfWithdrawAll, OfUpload, Unsent
    <3>4. QED
      BY <3>2, <3>3
  <2>6. Advances(j)
    BY <1>5, <2>3, <2>4, <2>5 DEF PaysDerived
  <2>7. QED
    BY <1>1, <2>2, <2>6
<1>6. ASSUME NEW j \in Jobs, Bundlr(j), UNCHANGED derivedVars PROVE MoneyInv'
  <2>1. Advances(j)
    BY <1>6, FundUploadMoves, QuietMoves DEF Bundlr
  <2>2. QED
    BY <1>6, <2>1, BundlrTyped, MovesOn DEF MoneyInv
<1>7. CASE UNCHANGED vars
  BY <1>7 DEF vars, rpcVars, derivedVars, bundlrVars, MoneyInv, Typed, JobsFine, JobFine,
     Unsent, OfWithdrawAll, OfUpload, Everywhere
<1>8. QED
  BY <1>2, <1>3, <1>4, <1>5, <1>6, <1>7 DEF Next

(* Jobs hold what they are about to pay for: the whole balance that was    *)
(* read, signed for by its wallet, or what was missing from a balance.     *)
THEOREM Invariant == Spec => [](PayInv /\ MoneyInv)
<1>1. QED
  BY PayInit, PayNext, MoneyInit, MoneyNext, PTL DEF Spec

\* Of all actions, one refuses a transfer, and one an upload.
LEMMA OnlySubmitRefuses ==
  ASSUME MoneyInv, [Next]_vars, NEW j \in Jobs, jobs[j].kind = "withdrawAll",
         jobs[j].step = "ready", jobs'[j].step = "failed"
  PROVE  Submit(j)
<1>1. DOMAIN jobs = Jobs /\ jobs' # jobs /\ jobs'[j] # jobs[j]
  BY DEF MoneyInv, JobsFine
<1>2. ASSUME NEW i \in Jobs, Pays(i) PROVE Submit(j)
  BY <1>1, <1>2 DEF Pays, Transfer, Submit, Confirm, GiveUp, Retry
<1>3. ASSUME NEW i \in Jobs, PaysDerived(i) PROVE FALSE
  BY <1>1, <1>3 DEF PaysDerived, Fund, Withdraw, StartTransfer, WithdrawAll, WithdrawRest,
     WithdrawSeen
<1>4. ASSUME NEW i \in Jobs, Bundlr(i) PROVE FALSE
  <2>1. /\ jobs[i].step \in {"connecting", "connected", "upload", "sent", "read"}
           \/ jobs[i].kind = "none"
        /\ \E k : jobs' = [jobs EXCEPT ![i] = k]
    BY <1>4 DEF Bundlr, Upload, Unload, UseClient, Connect, ConnectFails, FundUpload,
       Credited, Store, ReadLoaded, WithdrawLoaded
  <2>2. QED
    BY <1>1, <2>1
<1>5. Network \/ Derives \/ (\E w : SetIdentity(w)) \/ UNCHANGED vars => jobs' = jobs
  BY DEF Network, Land, Lose, Tick, Derives, DeriveFrom, Derived, DeriveFails, CloseDerived,
     SetIdentity, vars, rpcVars
<1>6. QED
  BY <1>1, <1>2, <1>3, <1>4, <1>5 DEF Next

LEMMA OnlyStoreRefuses ==
  ASSUME MoneyInv, [Next]_vars, NEW j \in Jobs, jobs[j].kind = "upload",
         jobs[j].step = "upload", jobs'[j].step = "failed"
  PROVE  Store(j)
<1>1. DOMAIN jobs = Jobs /\ jobs' # jobs /\ jobs'[j] # jobs[j]
  BY DEF MoneyInv, JobsFine
<1>2. ASSUME NEW i \in Jobs, Pays(i) PROVE FALSE
  BY <1>1, <1>2 DEF Pays, Transfer, Submit, Confirm, GiveUp, Retry
<1>3. ASSUME NEW i \in Jobs, PaysDerived(i) PROVE FALSE
  BY <1>1, <1>3 DEF PaysDerived, Fund, Withdraw, StartTransfer, WithdrawAll, WithdrawRest,
     WithdrawSeen
<1>4. ASSUME NEW i \in Jobs, Bundlr(i) PROVE Store(j)
  <2>1. \/ Store(i)
        \/ /\ jobs[i].step \in {"connecting", "connected", "sent", "read"}
              \/ jobs[i].kind = "none"
           /\ \E k : jobs' = [jobs EXCEPT ![i] = k]
    BY <1>4 DEF Bundlr, Upload, Unload, UseClient, Connect, ConnectFails, FundUpload,
       Credited, ReadLoaded, WithdrawLoaded
  <2>2. Store(i) => i = j
    BY <1>1 DEF Store
  <2>3. QED
    BY <1>1, <2>1, <2>2
<1>5. Network \/ Derives \/ (\E w : SetIdentity(w)) \/ UNCHANGED vars => jobs' = jobs
  BY DEF Network, Land, Lose, Tick, Derives, DeriveFrom, Derived, DeriveFails, CloseDerived,
     SetIdentity, vars, rpcVars
<1>6. QED
  BY <1>1, <1>2, <1>3, <1>4, <1>5 DEF Next

(* A withdrawal of all the SOL of a derived identity, whose fee the        *)
(* identity pays, is refused only for a race, whatever the fee and however *)
(* many jobs pay at once.                                                  *)
THEOREM WithdrawalsAreOnlyRefusedIfRaced == Spec => WithdrawAllIsOnlyRefusedIfRaced
<1> DEFINE Raced ==
      \A j \in Jobs :
        /\ jobs[j].kind = "withdrawAll" /\ jobs[j].step = "ready"
        /\ jobs'[j].step = "failed"
        => \/ jobs[j].tx.payer # identity
           \/ sol[identity] < Fee
           \/ sol[jobs[j].tx.from] < jobs[j].saw
           \/ identity = jobs[j].tx.from
<1>1. ASSUME PayInv, MoneyInv, [Next]_vars PROVE Raced
  <2> SUFFICES ASSUME NEW j \in Jobs, jobs[j].kind = "withdrawAll",
                      jobs[j].step = "ready", jobs'[j].step = "failed",
                      jobs[j].tx.payer = identity, ~(sol[identity] < Fee),
                      ~(sol[jobs[j].tx.from] < jobs[j].saw), identity # jobs[j].tx.from
               PROVE  FALSE
    OBVIOUS
  <2> DEFINE job == jobs[j]
             tx == WithHash(job.tx)
  <2>1. Submit(j)
    BY <1>1, OnlySubmitRefuses
  <2>2. /\ job \in JobTypes /\ job.tx \in Payments /\ job.tx.by = j
        /\ job.keys = {job.tx.from} /\ job.tx.amount = job.saw /\ job.tx.hash = NoHash
        /\ \A t \in Everywhere : t.by # j
    BY <1>1 DEF MoneyInv, JobsFine, JobFine, OfWithdrawAll, Unsent, PayInv, JobOK
  <2>3. IsSigned(job)
    BY <2>2 DEF IsSigned, Signatures
  <2>4. /\ tx.hash = clock /\ tx.by = j /\ tx.from = job.tx.from /\ tx.payer = identity
        /\ tx.amount = job.saw
    BY <2>2 DEF WithHash, Payments, TransactionsOf
  <2>5. tx.hash + Lifetime >= clock
    BY <1>1, <2>4, RpcAssumption DEF PayInv
  <2>6. tx \notin landed \cup bounced
    BY <2>2, <2>4 DEF Everywhere
  <2>7. Affordable(tx)
    <3>1. /\ sol \in [Wallets -> Int] /\ identity \in Wallets /\ tx.from \in Wallets
          /\ job.saw \in Int /\ Fee \in Int
      BY <1>1, <2>2, <2>4, PaymentTypes, RpcAssumption DEF MoneyInv, Typed, JobTypes
    <3>2. Charged(tx)[tx.from] = sol[tx.from]
      BY <2>4, <3>1 DEF Charged
    <3>3. QED
      BY <2>4, <3>1, <3>2 DEF Affordable
  <2> HIDE DEF tx
  <2>8. jobs'[j].step = "sent"
    <3>1. IsSigned(job) /\ Sendable(tx)
      BY <2>3, <2>5, <2>6, <2>7 DEF Sendable
    <3>2. QED
      BY <1>1, <2>1, <2>2, <3>1 DEF Submit, tx, JobTypes, MoneyInv, JobsFine
  <2>9. QED
    BY <2>8
<1>2. QED
  BY <1>1, Invariant, PTL DEF Spec, WithdrawAllIsOnlyRefusedIfRaced

(* An upload whose balance was topped up is refused only if somebody else  *)
(* took from the balance, or if it topped up that of another client, at    *)
(* any price and cost.                                                     *)
THEOREM UploadsAreOnlyRefusedIfRaced == Spec => UploadIsOnlyRefusedIfRaced
<1> DEFINE Funded(job) == IF job.tx = NoTx THEN 0 ELSE job.tx.amount
           Raced ==
             \A j \in Jobs :
               /\ jobs[j].kind = "upload" /\ jobs[j].step = "upload"
               /\ jobs'[j].step = "failed"
               => \/ jobs[j].keys # {jobs[j].client}
                  \/ loaded[jobs[j].client] < jobs[j].saw + Funded(jobs[j])
<1>1. ASSUME MoneyInv, [Next]_vars PROVE Raced
  <2> SUFFICES ASSUME NEW j \in Jobs, jobs[j].kind = "upload",
                      jobs[j].step = "upload", jobs'[j].step = "failed"
               PROVE  loaded[jobs[j].client] < jobs[j].saw + Funded(jobs[j])
    OBVIOUS
  <2>1. Store(j)
    BY <1>1, OnlyStoreRefuses
  <2>2. /\ jobs[j] \in JobTypes /\ jobs[j].client \in Wallets
        /\ OfUpload(jobs[j]) /\ jobs[j].saw \in Int
    BY <1>1 DEF MoneyInv, JobsFine, JobFine, JobTypes
  <2>3. ~(loaded[jobs[j].client] >= Cost)
    BY <1>1, <2>1, <2>2 DEF Store, MoneyInv, JobsFine, JobTypes
  <2>4. loaded[jobs[j].client] \in Int
    BY <1>1, <2>2 DEF MoneyInv, Typed
  <2>5. jobs[j].saw + Funded(jobs[j]) >= Price
    BY <2>2, BundlrAssumption DEF OfUpload
  <2>6. Funded(jobs[j]) \in Int
    BY <2>2, PaymentTypes DEF JobTypes
  <2> HIDE DEF Funded
  <2>7. QED
    BY <2>2, <2>3, <2>4, <2>5, <2>6, BundlrAssumption
<1>2. QED
  BY <1>1, Invariant, PTL DEF Spec, UploadIsOnlyRefusedIfRaced

-----------------------------------------------------------------------------
(* SOL is only spent: the wallets never hold more than wallets and         *)
(* balances at first, nor do the users' wallets with what is loaded at the *)
(* node and what the node has been paid but has not credited yet.          *)

UsersOf(s) == [w \in Wallets |-> IF w = Node THEN 0 ELSE s[w]]

\* What the node was paid for an upload and has not credited.
Owed(job, paid) ==
  IF job.kind = "upload" /\ job.step = "sent" /\ job.tx \in paid THEN job.tx.amount ELSE 0

Due == [j \in Jobs |-> Owed(jobs[j], landed)]

\* What all wallets held and had loaded at first.
Total ==
  CHOOSE t \in 0 .. MaxSol :
    \E s \in 0 .. t : AddsUp(FirstSol, s) /\ AddsUp(FirstLoaded, t - s)

LEMMA TotalHeld ==
  /\ Total \in 0 .. MaxSol
  /\ \E s \in 0 .. Total : AddsUp(FirstSol, s) /\ AddsUp(FirstLoaded, Total - s)
<1>1. PICK s \in 0 .. MaxSol, l \in 0 .. MaxSol :
        AddsUp(FirstSol, s) /\ l <= MaxSol - s /\ AddsUp(FirstLoaded, l)
  BY WalletsAssumption, RpcAssumption
<1>2. MaxSol \in Nat
  BY RpcAssumption
<1>3. s + l \in 0 .. MaxSol /\ s \in 0 .. s + l /\ (s + l) - s = l
  BY <1>1, <1>2
<1>4. AddsUp(FirstLoaded, (s + l) - s)
  BY <1>1, <1>3
<1>5. \E t \in 0 .. MaxSol :
        \E r \in 0 .. t : AddsUp(FirstSol, r) /\ AddsUp(FirstLoaded, t - r)
  BY <1>1, <1>3, <1>4
<1>6. QED
  BY <1>5 DEF Total

\* The wallets hold at least n less than there was.
Room(s, n) ==
  /\ s \in [Wallets -> Nat] /\ n \in Nat
  /\ \E t \in Nat : AddsUp(s, t) /\ t + n <= Total

\* And so do users, their balances and what is due together.
Spare(users, balances, due, n) ==
  /\ users \in [Wallets -> Nat] /\ balances \in [Wallets -> Nat] /\ due \in [Jobs -> Nat]
  /\ n \in Nat
  /\ \E u, b, d \in Nat : /\ AddsUp(users, u) /\ AddsUp(balances, b) /\ AddsUp(due, d)
                          /\ u + b + d + n <= Total

\* Who gives leaves room, and who gets uses it.
LEMMA RoomTaken ==
  ASSUME NEW s, NEW n, Room(s, n), NEW w \in Wallets, NEW m \in Nat, m <= s[w]
  PROVE  Room([s EXCEPT ![w] = @ - m], n + m)
<1> DEFINE r == [s EXCEPT ![w] = @ - m]
<1>1. s \in [Wallets -> Nat] /\ n \in Nat /\ Total \in 0 .. MaxSol /\ MaxSol \in Nat
  BY TotalHeld, RpcAssumption DEF Room
<1>2. PICK t \in Nat : AddsUp(s, t) /\ t + n <= Total
  BY DEF Room
<1>3. AddsUp(r, t - m)
  BY <1>1, <1>2, SumShrinks
<1>4. s[w] <= t /\ s[w] \in Nat
  BY <1>1, <1>2, SumBounds
<1>5. r \in [Wallets -> Nat]
  BY <1>1, <1>4
<1> HIDE DEF r
<1>6. t - m \in Nat /\ n + m \in Nat /\ (t - m) + (n + m) <= Total
  BY <1>1, <1>2, <1>4
<1>7. Room(r, n + m)
  BY <1>3, <1>5, <1>6 DEF Room
<1>8. QED
  BY <1>7 DEF r

LEMMA RoomGiven ==
  ASSUME NEW s, NEW n, Room(s, n), NEW w \in Wallets, NEW m \in Nat, m <= n
  PROVE  Room([s EXCEPT ![w] = @ + m], n - m)
<1> DEFINE r == [s EXCEPT ![w] = @ + m]
<1>1. s \in [Wallets -> Nat] /\ n \in Nat /\ Total \in 0 .. MaxSol /\ MaxSol \in Nat
  BY TotalHeld, RpcAssumption DEF Room
<1>2. PICK t \in Nat : AddsUp(s, t) /\ t + n <= Total
  BY DEF Room
<1>3. AddsUp(r, t + m)
  BY <1>1, <1>2, SumGrows
<1>4. r \in [Wallets -> Nat]
  BY <1>1
<1> HIDE DEF r
<1>5. t + m \in Nat /\ n - m \in Nat /\ (t + m) + (n - m) <= Total
  BY <1>1, <1>2
<1>6. Room(r, n - m)
  BY <1>3, <1>4, <1>5 DEF Room
<1>7. QED
  BY <1>6 DEF r

LEMMA RoomBounds ==
  ASSUME NEW s, NEW n, Room(s, n), NEW w \in Wallets
  PROVE  Room(s, 0) /\ s[w] \in 0 .. MaxSol
<1>1. s \in [Wallets -> Nat] /\ n \in Nat /\ Total \in 0 .. MaxSol /\ MaxSol \in Nat
  BY TotalHeld, RpcAssumption DEF Room
<1>2. PICK t \in Nat : AddsUp(s, t) /\ t + n <= Total
  BY DEF Room
<1>3. s[w] <= t /\ s[w] \in Nat
  BY <1>1, <1>2, SumBounds
<1>4. t + 0 <= Total /\ s[w] \in 0 .. MaxSol
  BY <1>1, <1>2, <1>3
<1>5. QED
  BY <1>1, <1>2, <1>4 DEF Room

LEMMA SpareTaken ==
  ASSUME NEW users, NEW balances, NEW due, NEW n, Spare(users, balances, due, n), NEW m \in Nat
  PROVE  /\ \A w \in Wallets :
              m <= users[w] => Spare([users EXCEPT ![w] = @ - m], balances, due, n + m)
         /\ \A w \in Wallets :
              m <= balances[w] => Spare(users, [balances EXCEPT ![w] = @ - m], due, n + m)
         /\ \A j \in Jobs :
              m <= due[j] => Spare(users, balances, [due EXCEPT ![j] = @ - m], n + m)
<1>1. /\ users \in [Wallets -> Nat] /\ balances \in [Wallets -> Nat] /\ due \in [Jobs -> Nat]
      /\ n \in Nat /\ Total \in 0 .. MaxSol /\ MaxSol \in Nat
  BY TotalHeld, RpcAssumption DEF Spare
<1>2. PICK u, b, d \in Nat : /\ AddsUp(users, u) /\ AddsUp(balances, b) /\ AddsUp(due, d)
                             /\ u + b + d + n <= Total
  BY DEF Spare
<1>3. ASSUME NEW w \in Wallets, m <= users[w]
      PROVE  Spare([users EXCEPT ![w] = @ - m], balances, due, n + m)
  <2> DEFINE r == [users EXCEPT ![w] = @ - m]
  <2>1. AddsUp(r, u - m)
    BY <1>1, <1>2, <1>3, SumShrinks
  <2>2. users[w] <= u /\ users[w] \in Nat
    BY <1>1, <1>2, SumBounds
  <2>3. r \in [Wallets -> Nat]
    BY <1>1, <1>3, <2>2
  <2> HIDE DEF r
  <2>4. u - m \in Nat /\ n + m \in Nat /\ (u - m) + b + d + (n + m) <= Total
    BY <1>1, <1>2, <1>3, <2>2
  <2>5. Spare(r, balances, due, n + m)
    BY <1>1, <1>2, <2>1, <2>3, <2>4 DEF Spare
  <2>6. QED
    BY <2>5 DEF r
<1>4. ASSUME NEW w \in Wallets, m <= balances[w]
      PROVE  Spare(users, [balances EXCEPT ![w] = @ - m], due, n + m)
  <2> DEFINE r == [balances EXCEPT ![w] = @ - m]
  <2>1. AddsUp(r, b - m)
    BY <1>1, <1>2, <1>4, SumShrinks
  <2>2. balances[w] <= b /\ balances[w] \in Nat
    BY <1>1, <1>2, SumBounds
  <2>3. r \in [Wallets -> Nat]
    BY <1>1, <1>4, <2>2
  <2> HIDE DEF r
  <2>4. b - m \in Nat /\ n + m \in Nat /\ u + (b - m) + d + (n + m) <= Total
    BY <1>1, <1>2, <1>4, <2>2
  <2>5. Spare(users, r, due, n + m)
    BY <1>1, <1>2, <2>1, <2>3, <2>4 DEF Spare
  <2>6. QED
    BY <2>5 DEF r
<1>5. ASSUME NEW j \in Jobs, m <= due[j]
      PROVE  Spare(users, balances, [due EXCEPT ![j] = @ - m], n + m)
  <2> DEFINE r == [due EXCEPT ![j] = @ - m]
  <2>1. AddsUp(r, d - m)
    BY <1>1, <1>2, <1>5, SumShrinks
  <2>2. due[j] <= d /\ due[j] \in Nat
    BY <1>1, <1>2, SumBounds
  <2>3. r \in [Jobs -> Nat]
    BY <1>1, <1>5, <2>2
  <2> HIDE DEF r
  <2>4. d - m \in Nat /\ n + m \in Nat /\ u + b + (d - m) + (n + m) <= Total
    BY <1>1, <1>2, <1>5, <2>2
  <2>5. Spare(users, balances, r, n + m)
    BY <1>1, <1>2, <2>1, <2>3, <2>4 DEF Spare
  <2>6. QED
    BY <2>5 DEF r
<1>6. QED
  BY <1>3, <1>4, <1>5

LEMMA SpareGiven ==
  ASSUME NEW users, NEW balances, NEW due, NEW n, Spare(users, balances, due, n),
         NEW m \in Nat, m <= n
  PROVE  /\ \A w \in Wallets : Spare([users EXCEPT ![w] = @ + m], balances, due, n - m)
         /\ \A w \in Wallets : Spare(users, [balances EXCEPT ![w] = @ + m], due, n - m)
         /\ \A j \in Jobs : Spare(users, balances, [due EXCEPT ![j] = @ + m], n - m)
<1>1. /\ users \in [Wallets -> Nat] /\ balances \in [Wallets -> Nat] /\ due \in [Jobs -> Nat]
      /\ n \in Nat /\ Total \in 0 .. MaxSol /\ MaxSol \in Nat
  BY TotalHeld, RpcAssumption DEF Spare
<1>2. PICK u, b, d \in Nat : /\ AddsUp(users, u) /\ AddsUp(balances, b) /\ AddsUp(due, d)
                             /\ u + b + d + n <= Total
  BY DEF Spare
<1>3. /\ u + m \in Nat /\ b + m \in Nat /\ d + m \in Nat /\ n - m \in Nat
      /\ (u + m) + b + d + (n - m) <= Total /\ u + (b + m) + d + (n - m) <= Total
      /\ u + b + (d + m) + (n - m) <= Total
  BY <1>1, <1>2
<1>4. ASSUME NEW w \in Wallets
      PROVE  /\ Spare([users EXCEPT ![w] = @ + m], balances, due, n - m)
             /\ Spare(users, [balances EXCEPT ![w] = @ + m], due, n - m)
  <2> DEFINE r == [users EXCEPT ![w] = @ + m]
             q == [balances EXCEPT ![w] = @ + m]
  <2>1. AddsUp(r, u + m) /\ AddsUp(q, b + m)
    BY <1>1, <1>2, SumGrows
  <2>2. r \in [Wallets -> Nat] /\ q \in [Wallets -> Nat]
    BY <1>1
  <2> HIDE DEF r, q
  <2>3. Spare(r, balances, due, n - m)
    BY <1>1, <1>2, <1>3, <2>1, <2>2 DEF Spare
  <2>4. Spare(users, q, due, n - m)
    BY <1>1, <1>2, <1>3, <2>1, <2>2 DEF Spare
  <2>5. QED
    BY <2>3, <2>4 DEF r, q
<1>5. ASSUME NEW j \in Jobs
      PROVE  Spare(users, balances, [due EXCEPT ![j] = @ + m], n - m)
  <2> DEFINE r == [due EXCEPT ![j] = @ + m]
  <2>1. AddsUp(r, d + m)
    BY <1>1, <1>2, SumGrows
  <2>2. r \in [Jobs -> Nat]
    BY <1>1
  <2> HIDE DEF r
  <2>3. Spare(users, balances, r, n - m)
    BY <1>1, <1>2, <1>3, <2>1, <2>2 DEF Spare
  <2>4. QED
    BY <2>3 DEF r
<1>6. QED
  BY <1>4, <1>5

LEMMA SpareBounds ==
  ASSUME NEW users, NEW balances, NEW due, NEW n, Spare(users, balances, due, n)
  PROVE  /\ Spare(users, balances, due, 0)
         /\ \A w \in Wallets : balances[w] \in 0 .. MaxSol
<1>1. /\ users \in [Wallets -> Nat] /\ balances \in [Wallets -> Nat] /\ due \in [Jobs -> Nat]
      /\ n \in Nat /\ Total \in 0 .. MaxSol /\ MaxSol \in Nat
  BY TotalHeld, RpcAssumption DEF Spare
<1>2. PICK u, b, d \in Nat : /\ AddsUp(users, u) /\ AddsUp(balances, b) /\ AddsUp(due, d)
                             /\ u + b + d + n <= Total
  BY DEF Spare
<1>3. ASSUME NEW w \in Wallets PROVE balances[w] \in 0 .. MaxSol
  <2>1. balances[w] <= b /\ balances[w] \in Nat
    BY <1>1, <1>2, SumBounds
  <2>2. QED
    BY <1>1, <1>2, <2>1
<1>4. u + b + d + 0 <= Total
  BY <1>1, <1>2
<1>5. QED
  BY <1>1, <1>2, <1>3, <1>4 DEF Spare

-----------------------------------------------------------------------------
(* What a job sends and reads is within the bounds, and never of the node. *)
Sane(j, job) ==
  /\ job.saw \in 0 .. MaxSol /\ job.sends \in 0 .. MaxSends /\ job.client # Node
  /\ job.kind = "none" => job.tx = NoTx
  /\ job.tx # NoTx =>
       /\ job.tx.amount \in 0 .. MaxSol /\ job.tx.from # Node /\ job.tx.by = j
       /\ job.kind = "upload" => job.tx.to = Node

SolInv ==
  /\ Room(sol, 0)
  /\ Spare(UsersOf(sol), loaded, Due, 0)
  /\ \A tx \in Everywhere : tx.amount \in 0 .. MaxSol /\ tx.from # Node
  /\ \A j \in Jobs : Sane(j, jobs[j])
  /\ identity # Node /\ client # Node /\ original # Node /\ derived # Node
  /\ disturbed \in BOOLEAN

(* First, what is held fits by the assumption, and nothing is due.         *)
LEMMA InitSol == Init => SolInv
<1> SUFFICES ASSUME Init PROVE SolInv
  OBVIOUS
<1>1. PICK s \in Nat, l \in Nat :
        AddsUp(FirstSol, s) /\ AddsUp(FirstLoaded, l) /\ s + l = Total
  <2>1. PICK s \in 0 .. Total : AddsUp(FirstSol, s) /\ AddsUp(FirstLoaded, Total - s)
    BY TotalHeld
  <2>2. s \in Nat /\ Total - s \in Nat /\ s + (Total - s) = Total
    BY TotalHeld, RpcAssumption
  <2>3. QED
    BY <2>1, <2>2
<1>2. /\ FirstSol \in [Wallets -> Nat] /\ FirstLoaded \in [Wallets -> Nat]
      /\ Total \in Nat /\ Node \in Wallets
  BY WalletsAssumption, RpcAssumption, BundlrAssumption, TotalHeld
<1>3. Room(FirstSol, 0)
  BY <1>1, <1>2 DEF Room
<1> DEFINE users == UsersOf(FirstSol)
           none  == [j \in Jobs |-> 0]
<1>4. PICK u \in Nat : AddsUp(users, u) /\ u <= s
  <2>1. FirstSol[Node] \in Nat /\ FirstSol[Node] <= s
    BY <1>1, <1>2, SumBounds
  <2>2. AddsUp([FirstSol EXCEPT ![Node] = 0], s - FirstSol[Node] + 0)
    <3>1. 0 \in Nat /\ s \in Nat
      BY <1>2
    <3>2. QED
      BY <1>1, <1>2, <3>1, SumChanges
  <2>3. users = [FirstSol EXCEPT ![Node] = 0]
    BY <1>2 DEF UsersOf
  <2>4. s - FirstSol[Node] + 0 \in Nat /\ s - FirstSol[Node] + 0 <= s
    BY <1>1, <1>2, <2>1
  <2>5. QED
    BY <2>2, <2>3, <2>4
<1>5. AddsUp(none, 0)
  BY SumOfNothing
<1>6. users \in [Wallets -> Nat] /\ none \in [Jobs -> Nat] /\ u + l + 0 + 0 <= Total
  BY <1>1, <1>2, <1>4 DEF UsersOf
<1>7. Due = none
  BY DEF Init, Due, Owed, NoJob
<1> HIDE DEF users, none
<1>8. Spare(users, FirstLoaded, none, 0)
  BY <1>1, <1>2, <1>4, <1>5, <1>6 DEF Spare
<1>9. Spare(UsersOf(sol), loaded, Due, 0)
  BY <1>7, <1>8 DEF Init, users
<1>10. \A j \in Jobs : Sane(j, jobs[j])
  <2>1. NoJob.saw = 0 /\ NoJob.sends = 0 /\ NoJob.client = NoWallet /\ NoJob.tx = NoTx
    BY DEF NoJob
  <2>2. NoWallet # Node
    BY <1>2, RpcAssumption
  <2>3. QED
    BY <2>1, <2>2, RpcAssumption DEF Init, Sane
<1>11. /\ identity # Node /\ client # Node /\ original # Node /\ derived # Node
       /\ disturbed \in BOOLEAN /\ Everywhere = {}
  BY <1>2, WalletsAssumption, RpcAssumption DEF Init, Everywhere
<1>12. QED
  BY <1>3, <1>9, <1>10, <1>11 DEF Init, SolInv

\* One job takes a step after which nothing is due for it.
Settles(j) ==
  /\ DOMAIN jobs' = Jobs /\ \A i \in Jobs : i # j => jobs'[i] = jobs[i]
  /\ Sane(j, jobs'[j])
  /\ Owed(jobs'[j], landed') = 0

(* Every step of a job settles: one that only changes its step, unless     *)
(* it is sent, and those that build, sign and send what it pays.           *)
LEMMA StepSettles ==
  ASSUME MoneyInv, SolInv, NEW j \in Jobs, NEW step, step # "sent",
         jobs' = [jobs EXCEPT ![j].step = step]
  PROVE  Settles(j)
<1>1. DOMAIN jobs = Jobs /\ jobs[j] \in JobTypes /\ Sane(j, jobs[j])
  BY DEF MoneyInv, JobsFine, JobFine, SolInv
<1>2. /\ jobs'[j].kind = jobs[j].kind /\ jobs'[j].step = step /\ jobs'[j].tx = jobs[j].tx
      /\ jobs'[j].saw = jobs[j].saw /\ jobs'[j].client = jobs[j].client
      /\ jobs'[j].sends = jobs[j].sends
  BY <1>1 DEF JobTypes
<1>3. DOMAIN jobs' = Jobs /\ \A i \in Jobs : i # j => jobs'[i] = jobs[i]
  BY <1>1
<1>4. QED
  BY <1>1, <1>2, <1>3 DEF Settles, Sane, Owed

LEMMA NewSane ==
  ASSUME NEW j \in Jobs, NEW from \in Wallets, NEW to \in Wallets, NEW amount \in 0 .. MaxSol,
         from # Node, SolInv, MoneyInv
  PROVE  LET tx == NewTransaction(j, from, to, amount)
         IN  /\ tx # NoTx /\ tx.amount \in 0 .. MaxSol /\ tx.from # Node /\ tx.by = j
             /\ tx.to = to
<1>1. amount \in Int /\ identity \in Wallets
  BY RpcAssumption DEF MoneyInv, Typed
<1>2. NewTransaction(j, from, to, amount) # NoTx
  BY <1>1, NewPayment, PaymentTypes
<1>3. QED
  BY <1>2 DEF NewTransaction

LEMMA TransferSettles ==
  ASSUME MoneyInv, SolInv, NEW j \in Jobs, NEW kind, NEW to \in Identities,
         NEW amount \in Amounts, Transfer(j, kind, to, amount)
  PROVE  Settles(j)
<1> DEFINE tx == NewTransaction(j, identity, to, amount)
<1>1. to \in Wallets /\ amount \in 0 .. MaxSol /\ identity \in Wallets /\ identity # Node
  BY WalletsAssumption DEF MoneyInv, Typed, SolInv
<1>2. tx # NoTx /\ tx.amount \in 0 .. MaxSol /\ tx.from # Node /\ tx.by = j
  BY <1>1, NewSane
<1>3. /\ kind \in {"object", "transfer"}
      /\ jobs' = [jobs EXCEPT ![j].kind = kind, ![j].step = "ready", ![j].tx = tx]
  BY DEF Transfer
<1> HIDE DEF tx
<1>4. DOMAIN jobs = Jobs /\ jobs[j] \in JobTypes /\ Sane(j, jobs[j])
  BY DEF MoneyInv, JobsFine, JobFine, SolInv
<1>5. /\ jobs'[j].kind = kind /\ jobs'[j].step = "ready" /\ jobs'[j].tx = tx
      /\ jobs'[j].saw = jobs[j].saw /\ jobs'[j].client = jobs[j].client
      /\ jobs'[j].sends = jobs[j].sends
  BY <1>3, <1>4 DEF JobTypes
<1>6. DOMAIN jobs' = Jobs /\ \A i \in Jobs : i # j => jobs'[i] = jobs[i]
  BY <1>3, <1>4
<1>7. QED
  BY <1>2, <1>3, <1>4, <1>5, <1>6 DEF Settles, Sane, Owed

LEMMA StartSettles ==
  ASSUME MoneyInv, SolInv, NEW j \in Jobs, NEW kind \in {"fund", "withdraw", "withdrawAll"},
         NEW from \in Wallets, from # Node, NEW to \in Wallets, NEW amount \in 0 .. MaxSol,
         StartTransfer(j, kind, from, to, amount)
  PROVE  Settles(j)
<1> DEFINE tx == NewTransaction(j, from, to, amount)
<1>1. tx # NoTx /\ tx.amount \in 0 .. MaxSol /\ tx.from # Node /\ tx.by = j
  BY NewSane
<1>2. jobs' = [jobs EXCEPT ![j].kind = kind, ![j].step = "ready", ![j].keys = {from},
                           ![j].tx = tx]
  BY DEF StartTransfer
<1> HIDE DEF tx
<1>3. DOMAIN jobs = Jobs /\ jobs[j] \in JobTypes /\ Sane(j, jobs[j])
  BY DEF MoneyInv, JobsFine, JobFine, SolInv
<1>4. /\ jobs'[j].kind = kind /\ jobs'[j].step = "ready" /\ jobs'[j].tx = tx
      /\ jobs'[j].saw = jobs[j].saw /\ jobs'[j].client = jobs[j].client
      /\ jobs'[j].sends = jobs[j].sends
  BY <1>2, <1>3 DEF JobTypes
<1>5. DOMAIN jobs' = Jobs /\ \A i \in Jobs : i # j => jobs'[i] = jobs[i]
  BY <1>2, <1>3
<1>6. QED
  BY <1>1, <1>3, <1>4, <1>5 DEF Settles, Sane, Owed

LEMMA RetrySettles ==
  ASSUME MoneyInv, SolInv, NEW j \in Jobs, Retry(j)
  PROVE  Settles(j)
<1> DEFINE again == NewTransaction(j, identity, jobs[j].tx.to, jobs[j].tx.amount)
           tx == IF jobs[j].kind = "object" THEN jobs[j].tx ELSE again
           signed == IF jobs[j].kind = "object" THEN jobs[j].signed ELSE {}
<1>1. /\ DOMAIN jobs = Jobs /\ jobs[j] \in JobTypes /\ Sane(j, jobs[j])
      /\ jobs[j].kind \in {"object", "transfer"} /\ jobs[j].tx \in Payments
      /\ identity \in Wallets /\ identity # Node
  BY DEF Retry, MoneyInv, JobsFine, JobFine, SolInv, Typed
<1>2. /\ jobs[j].tx # NoTx /\ jobs[j].tx.to \in Wallets /\ jobs[j].tx.amount \in 0 .. MaxSol
      /\ jobs[j].tx.from # Node /\ jobs[j].tx.by = j
  BY <1>1, PaymentTypes DEF Sane
<1>3. again # NoTx /\ again.amount \in 0 .. MaxSol /\ again.from # Node /\ again.by = j
  BY <1>1, <1>2, NewSane
<1> HIDE DEF again
<1>4. tx # NoTx /\ tx.amount \in 0 .. MaxSol /\ tx.from # Node /\ tx.by = j
  BY <1>2, <1>3
<1>5. jobs' = [jobs EXCEPT ![j].step = "ready", ![j].tx = tx, ![j].signed = signed]
  BY <1>1 DEF Retry, again
<1> HIDE DEF tx, signed
<1>6. /\ jobs'[j].kind = jobs[j].kind /\ jobs'[j].step = "ready" /\ jobs'[j].tx = tx
      /\ jobs'[j].saw = jobs[j].saw /\ jobs'[j].client = jobs[j].client
      /\ jobs'[j].sends = jobs[j].sends
  BY <1>1, <1>5 DEF JobTypes
<1>7. DOMAIN jobs' = Jobs /\ \A i \in Jobs : i # j => jobs'[i] = jobs[i]
  BY <1>1, <1>5
<1>8. QED
  BY <1>1, <1>4, <1>6, <1>7 DEF Settles, Sane, Owed

LEMMA FundUploadSettles ==
  ASSUME MoneyInv, SolInv, NEW j \in Jobs, FundUpload(j)
  PROVE  Settles(j)
<1> DEFINE balance == loaded[client]
           toFund == MissingFunds(balance)
           paid == NewTransaction(j, client, Node, toFund)
           new == [paid EXCEPT !.payer = client]
           tx == IF toFund = 0 THEN NoTx ELSE new
           step == IF toFund = 0 THEN "upload" ELSE "ready"
           keys == {client}
<1>1. /\ client \in Wallets /\ client # Node /\ Node \in Wallets /\ jobs[j].kind = "upload"
      /\ DOMAIN jobs = Jobs /\ jobs[j] \in JobTypes /\ Sane(j, jobs[j])
  BY BundlrAssumption DEF FundUpload, MoneyInv, Typed, JobsFine, JobFine, SolInv
<1>2. balance \in 0 .. MaxSol
  BY <1>1, SpareBounds DEF SolInv
<1>3. toFund \in 0 .. MaxSol
  <2>1. Price \in Nat /\ Price <= MaxSol /\ MaxSol \in Nat
    BY BundlrAssumption, WalletsAssumption, RpcAssumption
  <2> HIDE DEF balance
  <2>2. QED
    BY <1>2, <2>1 DEF MissingFunds
<1> HIDE DEF toFund
<1>4. /\ paid # NoTx /\ paid.amount \in 0 .. MaxSol /\ paid.from # Node /\ paid.by = j
      /\ paid.to = Node /\ paid \in Payments
  <2>1. toFund \in Int /\ identity \in Wallets
    BY <1>3, RpcAssumption DEF MoneyInv, Typed
  <2>2. QED
    BY <1>1, <1>3, <2>1, NewSane, NewPayment
<1> HIDE DEF paid
<1>5. /\ new \in Payments /\ new.amount = paid.amount /\ new.from = paid.from
      /\ new.by = paid.by /\ new.to = paid.to
  BY <1>1, <1>4 DEF Payments, TransactionsOf
<1>6. /\ jobs' = [jobs EXCEPT ![j].step = step, ![j].saw = balance, ![j].keys = keys,
                              ![j].tx = tx]
      /\ step # "sent"
  BY DEF FundUpload, toFund, paid
<1> HIDE DEF new, step, keys, balance
<1>7. tx # NoTx => /\ tx.amount \in 0 .. MaxSol /\ tx.from # Node /\ tx.by = j
                   /\ tx.to = Node
  BY <1>4, <1>5
<1> HIDE DEF tx
<1>8. /\ jobs'[j].kind = jobs[j].kind /\ jobs'[j].step = step /\ jobs'[j].tx = tx
      /\ jobs'[j].saw = balance /\ jobs'[j].client = jobs[j].client
      /\ jobs'[j].sends = jobs[j].sends
  BY <1>1, <1>6 DEF JobTypes
<1>9. DOMAIN jobs' = Jobs /\ \A i \in Jobs : i # j => jobs'[i] = jobs[i]
  BY <1>1, <1>6
<1>10. QED
  BY <1>1, <1>2, <1>6, <1>7, <1>8, <1>9 DEF Settles, Sane, Owed

LEMMA SubmitSettles ==
  ASSUME PayInv, MoneyInv, SolInv, NEW j \in Jobs, Submit(j)
  PROVE  /\ Settles(j)
         /\ \A tx \in Everywhere' : tx.amount \in 0 .. MaxSol /\ tx.from # Node
<1> DEFINE old == jobs[j].tx
           tx == WithHash(old)
           step == jobs'[j].step
           signed == Signatures(jobs[j])
<1>1. /\ DOMAIN jobs = Jobs /\ jobs[j] \in JobTypes /\ Sane(j, jobs[j])
      /\ old \in Payments /\ jobs[j].kind # "none" /\ jobs[j].sends < MaxSends
  BY DEF Submit, MoneyInv, JobsFine, JobFine, PayInv, JobOK, SolInv
<1>2. old # NoTx
  BY <1>1, PaymentTypes
<1>3. /\ tx \in Payments /\ tx.amount = old.amount /\ tx.by = old.by
      /\ tx.from = old.from /\ tx.to = old.to
  BY <1>1 DEF WithHash, Payments, TransactionsOf, PayInv
<1>4. tx # NoTx
  BY <1>3, PaymentTypes
<1>5. /\ jobs' = [jobs EXCEPT ![j].tx = tx, ![j].sends = @ + 1, ![j].signed = signed,
                              ![j].step = step]
      /\ landed' = landed /\ Everywhere' \subseteq Everywhere \cup {tx}
      /\ step = "sent" => tx \notin landed
  BY <1>1 DEF Submit, Everywhere, JobTypes, Sendable
<1>6. tx.amount \in 0 .. MaxSol /\ tx.from # Node /\ tx.by = j
      /\ (jobs[j].kind = "upload" => tx.to = Node)
  BY <1>1, <1>2, <1>3 DEF Sane
<1> HIDE DEF tx, step, signed, old
<1>7. /\ jobs'[j].kind = jobs[j].kind /\ jobs'[j].step = step /\ jobs'[j].tx = tx
      /\ jobs'[j].saw = jobs[j].saw /\ jobs'[j].client = jobs[j].client
      /\ jobs'[j].sends = jobs[j].sends + 1
  BY <1>1, <1>5 DEF JobTypes
<1>8. DOMAIN jobs' = Jobs /\ \A i \in Jobs : i # j => jobs'[i] = jobs[i]
  BY <1>1, <1>5
<1>9. jobs[j].sends + 1 \in 0 .. MaxSends
  BY <1>1, RpcAssumption DEF Sane
<1>10. Sane(j, jobs'[j])
  BY <1>1, <1>6, <1>7, <1>9 DEF Sane
<1>11. Owed(jobs'[j], landed') = 0
  BY <1>5, <1>7 DEF Owed
<1>12. QED
  BY <1>5, <1>6, <1>8, <1>10, <1>11 DEF Settles, SolInv

\* The others only change the step, or what was read.
LEMMA ReadSettles ==
  ASSUME MoneyInv, SolInv, NEW j \in Jobs,
         NEW kind \in Kinds, kind \in {jobs[j].kind, "withdrawAll"},
         kind = "withdrawAll" => jobs[j].kind = "none",
         NEW saw \in 0 .. MaxSol,
         jobs' = [jobs EXCEPT ![j].kind = kind, ![j].step = "read", ![j].saw = saw]
  PROVE  Settles(j)
<1>1. DOMAIN jobs = Jobs /\ jobs[j] \in JobTypes /\ Sane(j, jobs[j])
  BY DEF MoneyInv, JobsFine, JobFine, SolInv
<1>2. /\ jobs'[j].kind = kind /\ jobs'[j].step = "read" /\ jobs'[j].tx = jobs[j].tx
      /\ jobs'[j].saw = saw /\ jobs'[j].client = jobs[j].client
      /\ jobs'[j].sends = jobs[j].sends
  BY <1>1 DEF JobTypes
<1>3. DOMAIN jobs' = Jobs /\ \A i \in Jobs : i # j => jobs'[i] = jobs[i]
  BY <1>1
<1>4. QED
  BY <1>1, <1>2, <1>3 DEF Settles, Sane, Owed

LEMMA UseClientSettles ==
  ASSUME MoneyInv, SolInv, NEW j \in Jobs, NEW kind \in {"upload", "unload"},
         UseClient(j, kind)
  PROVE  Settles(j)
<1> DEFINE owner == IF client = NoWallet THEN identity ELSE client
           step == IF client = NoWallet THEN "connecting" ELSE "connected"
<1>1. /\ jobs' = [jobs EXCEPT ![j].kind = kind, ![j].client = owner, ![j].step = step]
      /\ jobs[j].kind = "none" /\ owner # Node /\ step # "sent"
  BY DEF UseClient, SolInv
<1>2. DOMAIN jobs = Jobs /\ jobs[j] \in JobTypes /\ Sane(j, jobs[j])
  BY DEF MoneyInv, JobsFine, JobFine, SolInv
<1> HIDE DEF owner, step
<1>3. /\ jobs'[j].kind = kind /\ jobs'[j].step = step /\ jobs'[j].tx = jobs[j].tx
      /\ jobs'[j].saw = jobs[j].saw /\ jobs'[j].client = owner
      /\ jobs'[j].sends = jobs[j].sends
  BY <1>1, <1>2 DEF JobTypes
<1>4. DOMAIN jobs' = Jobs /\ \A i \in Jobs : i # j => jobs'[i] = jobs[i]
  BY <1>1, <1>2
<1>5. QED
  BY <1>1, <1>2, <1>3, <1>4 DEF Settles, Sane, Owed

LEMMA PaysSettles ==
  ASSUME PayInv, MoneyInv, SolInv, NEW j \in Jobs, Pays(j)
  PROVE  /\ Settles(j)
         /\ \A tx \in Everywhere' : tx.amount \in 0 .. MaxSol /\ tx.from # Node
         /\ UNCHANGED <<sol, landed, identity>>
<1>1. UNCHANGED <<sol, landed, identity>>
  BY DEF Pays, Submit, Confirm, GiveUp, Retry, Transfer
<1>2. CASE Submit(j)
  BY <1>1, <1>2, SubmitSettles
<1>3. ~Submit(j) => Everywhere' = Everywhere
  BY DEF Pays, Confirm, GiveUp, Retry, Transfer, Everywhere
<1>4. CASE Confirm(j)
  <2>1. /\ jobs' = [jobs EXCEPT ![j].step = Confirmed(jobs[j].tx)]
        /\ Confirmed(jobs[j].tx) # "sent"
    BY <1>4 DEF Confirm, Confirmed
  <2>2. Settles(j)
    BY <2>1, StepSettles
  <2>3. QED
    BY <1>1, <1>2, <1>3, <2>2 DEF SolInv
<1>5. CASE GiveUp(j)
  <2>1. jobs' = [jobs EXCEPT ![j].step = "failed"]
    BY <1>5 DEF GiveUp
  <2>2. Settles(j)
    BY <2>1, StepSettles
  <2>3. QED
    BY <1>1, <1>2, <1>3, <2>2 DEF SolInv
<1>6. QED
  BY <1>1, <1>2, <1>3, <1>4, <1>5, RetrySettles, TransferSettles DEF Pays, SolInv

LEMMA PaysDerivedSettles ==
  ASSUME MoneyInv, SolInv, NEW j \in Jobs, PaysDerived(j)
  PROVE  Settles(j)
<1>1. Initialized => /\ original \in Wallets /\ derived \in Wallets
                     /\ original # Node /\ derived # Node
  BY DEF MoneyInv, Typed, Initialized, SolInv
<1>2. ASSUME NEW a \in Amounts, Fund(j, a) \/ Withdraw(j, a) PROVE Settles(j)
  <2>1. \/ StartTransfer(j, "fund", original, derived, a)
        \/ StartTransfer(j, "withdraw", derived, original, a)
    BY <1>2 DEF Fund, Withdraw
  <2>2. Initialized /\ a \in 0 .. MaxSol
    BY <1>2, WalletsAssumption DEF Fund, Withdraw
  <2>3. QED
    BY <1>1, <2>1, <2>2, StartSettles
<1>3. CASE WithdrawAll(j)
  <2>1. /\ jobs' = [jobs EXCEPT ![j].kind = "withdrawAll", ![j].step = "read",
                                 ![j].saw = sol[derived]]
        /\ jobs[j].kind = "none" /\ Initialized
    BY <1>3 DEF WithdrawAll
  <2>2. sol[derived] \in 0 .. MaxSol /\ "withdrawAll" \in Kinds
    BY <1>1, <2>1, RoomBounds DEF SolInv, Kinds
  <2>3. QED
    BY <2>1, <2>2, ReadSettles
<1>4. CASE WithdrawRest(j)
  <2>1. CASE Initialized
    <3>1. StartTransfer(j, "withdrawAll", derived, original, jobs[j].saw)
      BY <1>4, <2>1 DEF WithdrawRest, WithdrawSeen
    <3>2. jobs[j].saw \in 0 .. MaxSol
      BY DEF SolInv, Sane
    <3>3. QED
      BY <1>1, <2>1, <3>1, <3>2, StartSettles
  <2>2. CASE ~Initialized
    BY <1>4, <2>2, StepSettles DEF WithdrawRest
  <2>3. QED
    BY <2>1, <2>2
<1>5. QED
  BY <1>2, <1>3, <1>4 DEF PaysDerived

LEMMA BundlrSettles ==
  ASSUME MoneyInv, SolInv, NEW j \in Jobs, Bundlr(j)
  PROVE  Settles(j)
<1>1. CASE Upload(j) \/ Unload(j)
  BY <1>1, UseClientSettles DEF Upload, Unload
<1>2. CASE Connect(j)
  BY <1>2, StepSettles DEF Connect
<1>3. CASE ConnectFails(j)
  BY <1>3, StepSettles DEF ConnectFails
<1>4. CASE FundUpload(j)
  BY <1>4, FundUploadSettles
<1>5. CASE Credited(j)
  BY <1>5, StepSettles DEF Credited
<1>6. CASE Store(j)
  <2>1. jobs' = [jobs EXCEPT ![j].step = "done"] \/ jobs' = [jobs EXCEPT ![j].step = "failed"]
    BY <1>6 DEF Store
  <2>2. QED
    BY <2>1, StepSettles
<1>7. CASE ReadLoaded(j)
  <2> DEFINE balance == loaded[jobs[j].client]
  <2>1. CASE MayTake(balance)
    <3>1. jobs[j].client \in Wallets /\ jobs[j].kind = "unload" /\ DOMAIN jobs = Jobs
          /\ jobs[j] \in JobTypes
      BY <1>7 DEF ReadLoaded, MoneyInv, JobsFine, JobFine
    <3>2. balance \in 0 .. MaxSol
      BY <3>1, SpareBounds DEF SolInv
    <3>3. /\ jobs' = [jobs EXCEPT ![j].step = "read", ![j].saw = balance - MinimumBalance]
          /\ balance >= MinimumBalance
      BY <1>7, <2>1 DEF ReadLoaded, MayTake
    <3> HIDE DEF balance
    <3>4. balance - MinimumBalance \in 0 .. MaxSol
      BY <3>2, <3>3, BundlrAssumption, RpcAssumption
    <3>5. jobs' = [jobs EXCEPT ![j].kind = "unload", ![j].step = "read",
                               ![j].saw = balance - MinimumBalance]
      BY <3>1, <3>3 DEF JobTypes
    <3>6. "unload" \in Kinds
      BY DEF Kinds
    <3>7. QED
      BY <3>1, <3>4, <3>5, <3>6, ReadSettles
  <2>2. CASE ~MayTake(balance)
    BY <1>7, <2>2, StepSettles DEF ReadLoaded
  <2>3. QED
    BY <2>1, <2>2
<1>8. CASE WithdrawLoaded(j)
  <2>1. jobs' = [jobs EXCEPT ![j].step = "done"] \/ jobs' = [jobs EXCEPT ![j].step = "failed"]
    BY <1>8 DEF WithdrawLoaded
  <2>2. QED
    BY <2>1, StepSettles
<1>9. QED
  BY <1>1, <1>2, <1>3, <1>4, <1>5, <1>6, <1>7, <1>8 DEF Bundlr

(* Such a step keeps every job sane, and nobody else's dues change.        *)
LEMMA SettlesSane ==
  ASSUME SolInv, NEW j \in Jobs, Settles(j)
  PROVE  \A i \in Jobs : Sane(i, jobs'[i])
BY DEF SolInv, Settles

LEMMA SettlesDue ==
  ASSUME MoneyInv, NEW j \in Jobs, Settles(j), landed' = landed
  PROVE  Due' = [Due EXCEPT ![j] = 0]
<1>1. Due' = [i \in Jobs |-> Owed(jobs'[i], landed')]
  BY DEF Due, Owed
<1>2. \A i \in Jobs : Due'[i] = IF i = j THEN 0 ELSE Due[i]
  BY <1>1 DEF Due, Settles
<1>3. QED
  BY <1>1, <1>2 DEF Due

\* What is due for a job may be credited to a wallet's balance, or forgotten.
LEMMA Forgotten ==
  ASSUME NEW users, NEW balances, NEW due, Spare(users, balances, due, 0), NEW j \in Jobs
  PROVE  /\ Spare(users, balances, [due EXCEPT ![j] = 0], 0)
         /\ \A w \in Wallets :
              Spare(users, [balances EXCEPT ![w] = @ + due[j]], [due EXCEPT ![j] = 0], 0)
<1>1. PICK m \in Nat : m = due[j]
  BY DEF Spare
<1> DEFINE less == [due EXCEPT ![j] = @ - m]
           none == [due EXCEPT ![j] = 0]
<1>2. less = none
  <2>1. due \in [Jobs -> Nat] /\ due[j] - m = 0
    BY <1>1 DEF Spare
  <2>2. QED
    BY <2>1
<1>3. Spare(users, balances, less, 0 + m)
  <2>1. m <= due[j]
    BY <1>1
  <2>2. QED
    BY <2>1, SpareTaken
<1>4. Spare(users, balances, less, 0)
  BY <1>3, SpareBounds
<1>5. ASSUME NEW w \in Wallets PROVE Spare(users, [balances EXCEPT ![w] = @ + m], less, 0)
  <2> DEFINE r == [balances EXCEPT ![w] = @ + m]
  <2>1. m <= 0 + m
    OBVIOUS
  <2>2. Spare(users, r, less, (0 + m) - m)
    BY <1>3, <2>1, SpareGiven
  <2> HIDE DEF r
  <2>3. Spare(users, r, less, 0)
    BY <2>2, SpareBounds
  <2>4. QED
    BY <2>3 DEF r
<1>6. /\ Spare(users, balances, none, 0)
      /\ \A w \in Wallets : Spare(users, [balances EXCEPT ![w] = @ + due[j]], none, 0)
  BY <1>1, <1>2, <1>4, <1>5
<1>7. QED
  BY <1>6 DEF none

\* A step that only settles a job keeps both sums.
LEMMA SettlesSum ==
  ASSUME MoneyInv, SolInv, NEW j \in Jobs, Settles(j), UNCHANGED <<sol, landed, loaded>>
  PROVE  Room(sol', 0) /\ Spare(UsersOf(sol'), loaded', Due', 0)
<1>1. Spare(UsersOf(sol), loaded, [Due EXCEPT ![j] = 0], 0)
  BY Forgotten DEF SolInv
<1>2. QED
  BY <1>1, SettlesDue DEF SolInv

(* The steps that move what is held at the node, and what lands.           *)
LEMMA CreditedSum ==
  ASSUME MoneyInv, SolInv, NEW j \in Jobs, Settles(j), Credited(j)
  PROVE  Room(sol', 0) /\ Spare(UsersOf(sol'), loaded', Due', 0)
<1>1. CASE jobs[j].tx \in landed
  <2> DEFINE tx == jobs[j].tx
  <2>1. tx.from \in Wallets
    BY <1>1, PaymentTypes DEF MoneyInv, Typed, Everywhere
  <2>2. Due[j] = tx.amount
    BY <1>1 DEF Due, Owed, Credited
  <2>3. Spare(UsersOf(sol), [loaded EXCEPT ![tx.from] = @ + Due[j]], [Due EXCEPT ![j] = 0], 0)
    BY <2>1, Forgotten DEF SolInv
  <2>4. sol' = sol /\ landed' = landed /\ loaded' = [loaded EXCEPT ![tx.from] = @ + Due[j]]
    BY <1>1, <2>2 DEF Credited
  <2>5. QED
    BY <2>3, <2>4, SettlesDue DEF SolInv
<1>2. CASE jobs[j].tx \notin landed
  BY <1>2, SettlesSum DEF Credited
<1>3. QED
  BY <1>1, <1>2

LEMMA StoreSum ==
  ASSUME MoneyInv, SolInv, NEW j \in Jobs, Settles(j), Store(j)
  PROVE  Room(sol', 0) /\ Spare(UsersOf(sol'), loaded', Due', 0)
<1> DEFINE owner == jobs[j].client
<1>1. CASE loaded[owner] >= Cost
  <2>1. owner \in Wallets
    BY DEF Store, MoneyInv, JobsFine, JobFine
  <2>2. Spare(UsersOf(sol), loaded, [Due EXCEPT ![j] = 0], 0)
    BY Forgotten DEF SolInv
  <2> DEFINE r == [loaded EXCEPT ![owner] = @ - Cost]
  <2>3. Cost \in Nat /\ Cost <= loaded[owner]
    BY <1>1, <2>1, BundlrAssumption DEF MoneyInv, Typed
  <2>4. Spare(UsersOf(sol), r, [Due EXCEPT ![j] = 0], 0 + Cost)
    BY <2>1, <2>2, <2>3, SpareTaken
  <2>5. sol' = sol /\ landed' = landed /\ loaded' = r
    BY <1>1 DEF Store
  <2> HIDE DEF r
  <2>6. Spare(UsersOf(sol), r, [Due EXCEPT ![j] = 0], 0)
    BY <2>4, SpareBounds
  <2>7. QED
    BY <2>5, <2>6, SettlesDue DEF SolInv
<1>2. CASE ~(loaded[owner] >= Cost)
  BY <1>2, SettlesSum DEF Store
<1>3. QED
  BY <1>1, <1>2

LEMMA WithdrawLoadedSum ==
  ASSUME MoneyInv, SolInv, NEW j \in Jobs, Settles(j), WithdrawLoaded(j)
  PROVE  Room(sol', 0) /\ Spare(UsersOf(sol'), loaded', Due', 0)
<1> DEFINE paid == loaded[client] >= jobs[j].saw /\ sol[Node] >= jobs[j].saw
<1>1. CASE ~paid
  BY <1>1, SettlesSum DEF WithdrawLoaded
<1>2. CASE paid
  <2>1. PICK m \in Nat : m = jobs[j].saw
    BY RpcAssumption DEF SolInv, Sane
  <2>2. m <= sol[Node] /\ Node \in Wallets /\ client # Node
        /\ sol \in [Wallets -> Nat]
    BY <1>2, <2>1, BundlrAssumption DEF SolInv, MoneyInv, Typed, Room
  <2> DEFINE s1 == [sol EXCEPT ![Node] = @ - m]
             s2 == [s1 EXCEPT ![client] = @ + m]
             b  == [loaded EXCEPT ![client] = @ - m]
  <2>3. sol' = s2 /\ loaded' = b /\ landed' = landed
    <3>1. /\ sol' = [sol EXCEPT ![Node] = @ - m, ![client] = @ + m]
          /\ loaded' = b /\ landed' = landed
      <4> HIDE DEF b
      <4>1. /\ sol' = [sol EXCEPT ![Node] = @ - jobs[j].saw, ![client] = @ + jobs[j].saw]
            /\ loaded' = [loaded EXCEPT ![client] = @ - jobs[j].saw]
            /\ landed' = landed
        BY <1>2 DEF WithdrawLoaded
      <4>2. QED
        BY <2>1, <4>1 DEF b
    <3>2. [sol EXCEPT ![Node] = @ - m, ![client] = @ + m] = s2
      BY <2>2
    <3>3. QED
      BY <3>1, <3>2
  <2>4. Room(s1, 0 + m)
    BY <2>2, RoomTaken DEF SolInv
  <2>5. UsersOf(s1) = UsersOf(sol)
    BY <2>2 DEF UsersOf
  <2>6. Spare(UsersOf(sol), loaded, [Due EXCEPT ![j] = 0], 0)
    BY Forgotten DEF SolInv
  <2>7. CASE client \in Wallets
    <3>1. m <= loaded[client]
      BY <1>2, <2>1, <2>7 DEF MoneyInv, Typed
    <3>2. Spare(UsersOf(sol), b, [Due EXCEPT ![j] = 0], 0 + m)
      BY <2>6, <2>7, <3>1, SpareTaken
    <3> HIDE DEF s1, b
    <3>3. s1 \in [Wallets -> Nat]
      BY <2>4 DEF Room
    <3>4. m <= 0 + m
      OBVIOUS
    <3>5. Room(s2, (0 + m) - m)
      BY <2>4, <2>7, <3>4, RoomGiven
    <3> DEFINE u2 == [UsersOf(s1) EXCEPT ![client] = @ + m]
    <3>6. UsersOf(s2) = u2
      BY <2>2, <2>7, <3>3 DEF UsersOf
    <3>7. Spare(u2, b, [Due EXCEPT ![j] = 0], (0 + m) - m)
      BY <2>5, <2>7, <3>2, <3>4, SpareGiven
    <3> HIDE DEF s2, u2
    <3>8. Room(s2, 0) /\ Spare(u2, b, [Due EXCEPT ![j] = 0], 0)
      BY <2>2, <3>5, <3>7, RoomBounds, SpareBounds
    <3>9. QED
      BY <2>3, <3>6, <3>8, SettlesDue
  <2>8. CASE client \notin Wallets
    <3>1. b = loaded /\ s2 = s1
      BY <2>2, <2>8 DEF MoneyInv, Typed
    <3> HIDE DEF s1, s2, b
    <3>2. Room(s1, 0)
      BY <2>2, <2>4, RoomBounds
    <3>3. QED
      BY <2>3, <2>5, <2>6, <3>1, <3>2, SettlesDue
  <2>9. QED
    BY <2>7, <2>8
<1>3. QED
  BY <1>1, <1>2

\* A landed payment of an upload is due to be credited.
LEMMA LandDue ==
  ASSUME MoneyInv, SolInv, NEW tx \in network, jobs' = jobs, landed' = landed \cup {tx}
  PROVE  \/ Due' = Due
         \/ /\ tx.to = Node /\ tx.by \in Jobs
            /\ Due' = [Due EXCEPT ![tx.by] = @ + tx.amount]
<1>1. /\ tx \in Payments /\ tx # NoTx /\ tx.by \in Jobs /\ tx.amount \in Nat
  BY PaymentTypes, RpcAssumption DEF MoneyInv, Typed, Everywhere, SolInv
<1> DEFINE by == tx.by
<1>2. Due' = [i \in Jobs |-> Owed(jobs[i], landed \cup {tx})]
  BY DEF Due, Owed
<1>3. ASSUME NEW i \in Jobs, i # by PROVE Due'[i] = Due[i]
  <2>1. jobs[i].tx # tx
    BY <1>1, <1>3 DEF SolInv, Sane
  <2>2. QED
    BY <1>2, <2>1 DEF Due, Owed
<1>4. CASE /\ jobs[by].kind = "upload" /\ jobs[by].step = "sent"
           /\ jobs[by].tx = tx /\ tx \notin landed
  <2>1. tx.to = Node
    BY <1>1, <1>4 DEF SolInv, Sane
  <2>2. Due[by] = 0 /\ Due'[by] = tx.amount
    BY <1>1, <1>2, <1>4 DEF Due, Owed
  <2> DEFINE more == [Due EXCEPT ![by] = @ + tx.amount]
  <2>3. \A i \in Jobs : Due'[i] = more[i]
    BY <1>1, <1>3, <2>2 DEF Due
  <2>4. Due' = more
    <3>1. DOMAIN more = Jobs /\ more = [i \in Jobs |-> more[i]]
      BY DEF Due
    <3>2. Due' = [i \in Jobs |-> Due'[i]]
      BY <1>2
    <3> HIDE DEF more
    <3>3. QED
      BY <2>3, <3>1, <3>2
  <2>5. QED
    BY <1>1, <2>1, <2>4
<1>5. CASE ~(/\ jobs[by].kind = "upload" /\ jobs[by].step = "sent"
             /\ jobs[by].tx = tx /\ tx \notin landed)
  <2>1. Due'[by] = Due[by]
    BY <1>1, <1>2, <1>5 DEF Due, Owed
  <2>2. \A i \in Jobs : Due'[i] = Due[i]
    BY <1>3, <2>1
  <2>3. Due = [i \in Jobs |-> Due[i]] /\ Due' = [i \in Jobs |-> Due'[i]]
    BY <1>2 DEF Due
  <2>4. QED
    BY <2>2, <2>3
<1>6. QED
  BY <1>4, <1>5

LEMMA LandSum ==
  ASSUME MoneyInv, SolInv, NEW tx \in network, Land(tx), loaded' = loaded
  PROVE  Room(sol', 0) /\ Spare(UsersOf(sol'), loaded', Due', 0)
<1>1. /\ tx.payer \in Wallets /\ tx.from \in Wallets /\ tx.to \in Wallets
      /\ tx.from # Node /\ tx.amount \in Nat /\ Node \in Wallets
      /\ sol \in [Wallets -> Nat] /\ Fee \in Nat
  BY PaymentTypes, RpcAssumption, BundlrAssumption
     DEF MoneyInv, Typed, Everywhere, SolInv, Room
<1> DEFINE p == tx.payer
           c == [sol EXCEPT ![p] = @ - Fee]
<1>2. Charged(tx) = c /\ Fee <= sol[p] /\ sol[p] \in Nat
  BY <1>1 DEF Charged, Land
<1>3. Room(c, 0 + Fee)
  BY <1>1, <1>2, RoomTaken DEF SolInv
<1>4. Spare(UsersOf(c), loaded, Due, 0)
  <2>1. CASE p = Node
    <3>1. UsersOf(c) = UsersOf(sol)
      BY <1>1, <2>1 DEF UsersOf
    <3>2. QED
      BY <3>1 DEF SolInv
  <2>2. CASE p # Node
    <3> DEFINE u == [UsersOf(sol) EXCEPT ![p] = @ - Fee]
    <3>1. UsersOf(c) = u
      BY <1>1, <2>2 DEF UsersOf
    <3>2. Fee <= UsersOf(sol)[p]
      BY <1>1, <1>2, <2>2 DEF UsersOf
    <3>3. Spare(u, loaded, Due, 0 + Fee)
      BY <1>1, <3>2, SpareTaken DEF SolInv
    <3> HIDE DEF u, c
    <3>4. QED
      BY <3>1, <3>3, SpareBounds
  <2>3. QED
    BY <2>1, <2>2
<1> HIDE DEF c, p
<1>5. Room(c, 0) /\ c \in [Wallets -> Nat]
  BY <1>1, <1>3, RoomBounds DEF Room
<1>6. CASE ~Affordable(tx)
  <2>1. sol' = c /\ landed' = landed /\ jobs' = jobs
    BY <1>2, <1>6 DEF Land
  <2>2. Due' = Due
    BY <2>1 DEF Due, Owed
  <2>3. QED
    BY <1>4, <1>5, <2>1, <2>2
<1>7. CASE Affordable(tx)
  <2> DEFINE m == tx.amount
             f == [c EXCEPT ![tx.from] = @ - m]
             g == [f EXCEPT ![tx.to] = @ + m]
  <2>1. /\ sol' = g /\ landed' = landed \cup {tx} /\ jobs' = jobs
        /\ m <= c[tx.from] /\ c[tx.from] \in Nat
    BY <1>1, <1>2, <1>5, <1>7 DEF Land, Moved, Affordable
  <2>2. Room(f, 0 + m)
    BY <1>1, <1>5, <2>1, RoomTaken
  <2>3. Spare(UsersOf(f), loaded, Due, 0 + m)
    <3> DEFINE u == [UsersOf(c) EXCEPT ![tx.from] = @ - m]
    <3>1. UsersOf(f) = u /\ UsersOf(c)[tx.from] = c[tx.from]
      BY <1>1, <1>5 DEF UsersOf
    <3>2. Spare(u, loaded, Due, 0 + m)
      BY <1>1, <1>4, <2>1, <3>1, SpareTaken
    <3>3. QED
      BY <3>1, <3>2
  <2>4. f \in [Wallets -> Nat]
    BY <2>2 DEF Room
  <2>5. m <= 0 + m
    BY <1>1
  <2> HIDE DEF f
  <2>6. Room(g, (0 + m) - m)
    BY <1>1, <2>2, <2>5, RoomGiven
  <2>7. /\ tx.to = Node => UsersOf(g) = UsersOf(f)
        /\ tx.to # Node => UsersOf(g) = [UsersOf(f) EXCEPT ![tx.to] = @ + m]
    BY <1>1, <2>4 DEF UsersOf
  <2>8. Room(g, 0)
    <3> HIDE DEF g
    <3>1. QED
      BY <1>1, <2>6, RoomBounds
  <2>9. CASE tx.to = Node
    <3> HIDE DEF g
    <3>1. Spare(UsersOf(g), loaded, Due, 0 + m)
      BY <2>3, <2>7, <2>9
    <3>2. CASE Due' = Due
      BY <2>1, <2>8, <3>1, <3>2, SpareBounds
    <3>3. CASE tx.by \in Jobs /\ Due' = [Due EXCEPT ![tx.by] = @ + tx.amount]
      <4>1. Spare(UsersOf(g), loaded, Due', (0 + m) - m)
        BY <1>1, <2>5, <3>1, <3>3, SpareGiven
      <4>2. QED
        BY <2>1, <2>8, <4>1, SpareBounds
    <3>4. QED
      BY <2>1, <3>2, <3>3, LandDue
  <2>10. CASE tx.to # Node
    <3> DEFINE u == [UsersOf(f) EXCEPT ![tx.to] = @ + m]
    <3>1. UsersOf(g) = u
      BY <2>7, <2>10
    <3>2. Spare(u, loaded, Due, (0 + m) - m)
      BY <1>1, <2>3, <2>5, SpareGiven
    <3> HIDE DEF g, u
    <3>3. Due' = Due
      BY <2>1, <2>10, LandDue
    <3>4. QED
      BY <2>1, <2>8, <3>1, <3>2, <3>3, SpareBounds
  <2>11. QED
    BY <2>9, <2>10
<1>8. QED
  BY <1>6, <1>7

(* Every step keeps the bounds.                                            *)
LEMMA BundlrSum ==
  ASSUME MoneyInv, SolInv, NEW j \in Jobs, Bundlr(j), UNCHANGED derivedVars
  PROVE  SolInv'
<1>1. Settles(j)
  BY BundlrSettles
<1>2. \A i \in Jobs : Sane(i, jobs'[i])
  BY <1>1, SettlesSane
<1>3. Everywhere' = Everywhere /\ identity' = identity
  BY DEF Bundlr, Upload, Unload, UseClient, Connect, ConnectFails, FundUpload, Credited,
         Store, ReadLoaded, WithdrawLoaded, Everywhere
<1>4. client' # Node
  <2>1. CASE Connect(j)
    BY <2>1 DEF Connect, SolInv, Sane
  <2>2. CASE ~Connect(j)
    <3>1. client' = client
      BY <2>2 DEF Bundlr, Upload, Unload, UseClient, ConnectFails, FundUpload, Credited,
                  Store, ReadLoaded, WithdrawLoaded, bundlrVars
    <3>2. QED
      BY <3>1 DEF SolInv
  <2>3. QED
    BY <2>1, <2>2
<1>5. Room(sol', 0) /\ Spare(UsersOf(sol'), loaded', Due', 0)
  <2>1. CASE Credited(j)
    BY <1>1, <2>1, CreditedSum
  <2>2. CASE Store(j)
    BY <1>1, <2>2, StoreSum
  <2>3. CASE WithdrawLoaded(j)
    BY <1>1, <2>3, WithdrawLoadedSum
  <2>4. CASE ~(Credited(j) \/ Store(j) \/ WithdrawLoaded(j))
    <3>1. UNCHANGED <<sol, landed, loaded>>
      BY <2>4 DEF Bundlr, Upload, Unload, UseClient, Connect, ConnectFails, FundUpload,
                  ReadLoaded, bundlrVars
    <3>2. QED
      BY <1>1, <3>1, SettlesSum
  <2>5. QED
    BY <2>1, <2>2, <2>3, <2>4
<1>6. QED
  BY <1>2, <1>3, <1>4, <1>5 DEF SolInv, derivedVars

LEMMA NetworkSum ==
  ASSUME MoneyInv, SolInv, Network, UNCHANGED <<derivedVars, bundlrVars>>
  PROVE  SolInv'
<1>1. /\ Everywhere' \subseteq Everywhere
      /\ jobs' = jobs /\ identity' = identity /\ loaded' = loaded /\ client' = client
      /\ original' = original /\ derived' = derived /\ disturbed' = disturbed
  BY DEF Network, Land, Lose, Tick, Everywhere, derivedVars, bundlrVars
<1>2. Room(sol', 0) /\ Spare(UsersOf(sol'), loaded', Due', 0)
  <2>1. CASE \E tx \in network : Land(tx)
    BY <1>1, <2>1, LandSum
  <2>2. CASE Tick \/ \E tx \in network : Lose(tx)
    <3>1. sol' = sol /\ landed' = landed
      BY <2>2 DEF Tick, Lose
    <3>2. Due' = Due
      BY <1>1, <3>1 DEF Due, Owed
    <3>3. QED
      BY <1>1, <3>1, <3>2 DEF SolInv
  <2>3. QED
    BY <2>1, <2>2 DEF Network
<1>3. QED
  BY <1>1, <1>2 DEF SolInv

LEMMA SolNext == PayInv /\ MoneyInv /\ SolInv /\ [Next]_vars => SolInv'
<1> SUFFICES ASSUME PayInv, MoneyInv, SolInv, [Next]_vars PROVE SolInv'
  OBVIOUS
<1>1. ASSUME NEW j \in Jobs, Settles(j), UNCHANGED <<sol, landed, loaded>>,
             \A tx \in Everywhere' : tx.amount \in 0 .. MaxSol /\ tx.from # Node,
             UNCHANGED <<identity, client, original, derived, disturbed>>
      PROVE  SolInv'
  <2>1. \A i \in Jobs : Sane(i, jobs'[i])
    BY <1>1, SettlesSane
  <2>2. Room(sol', 0) /\ Spare(UsersOf(sol'), loaded', Due', 0)
    BY <1>1, SettlesSum
  <2>3. QED
    BY <1>1, <2>1, <2>2 DEF SolInv
<1>2. ASSUME NEW j \in Jobs, Pays(j), UNCHANGED <<derivedVars, bundlrVars>>
      PROVE  SolInv'
  <2>1. /\ Settles(j)
        /\ \A tx \in Everywhere' : tx.amount \in 0 .. MaxSol /\ tx.from # Node
        /\ UNCHANGED <<sol, landed, identity>>
    BY <1>2, PaysSettles
  <2>2. QED
    BY <1>1, <1>2, <2>1 DEF derivedVars, bundlrVars
<1>3. ASSUME UNCHANGED rpcVars, UNCHANGED bundlrVars,
             original' # Node, derived' # Node, disturbed' \in BOOLEAN
      PROVE  SolInv'
  <2>1. /\ sol' = sol /\ landed' = landed /\ jobs' = jobs /\ loaded' = loaded
        /\ identity' = identity /\ client' = client /\ Everywhere' = Everywhere
    BY <1>3 DEF rpcVars, bundlrVars, Everywhere
  <2>2. Due' = Due
    BY <2>1 DEF Due, Owed
  <2>3. QED
    BY <1>3, <2>1, <2>2 DEF SolInv
<1>4. ASSUME Derives, UNCHANGED bundlrVars PROVE SolInv'
  <2>1. NoWallet # Node
    BY RpcAssumption, BundlrAssumption
  <2>2. UNCHANGED rpcVars
    BY <1>4 DEF Derives, DeriveFrom, Derived, DeriveFails, CloseDerived
  <2>3. original' # Node /\ disturbed' \in BOOLEAN
    BY <1>4, <2>1, WalletsAssumption
       DEF Derives, DeriveFrom, Derived, DeriveFails, CloseDerived, NewOriginal, SolInv
  <2>4. derived' # Node
    BY <1>4, <2>1, WalletsAssumption
       DEF Derives, DeriveFrom, Derived, DeriveFails, CloseDerived, SolInv
  <2>5. QED
    BY <1>3, <1>4, <2>2, <2>3, <2>4
<1>5. ASSUME NEW j \in Jobs, PaysDerived(j), UNCHANGED bundlrVars PROVE SolInv'
  <2>1. /\ UNCHANGED <<sol, landed, identity, derivedVars>>
        /\ Everywhere' = Everywhere
    BY <1>5 DEF PaysDerived, Fund, Withdraw, WithdrawAll, WithdrawRest, Everywhere
  <2>2. Settles(j)
    BY <1>5, PaysDerivedSettles
  <2>3. QED
    BY <1>1, <1>5, <2>1, <2>2 DEF SolInv, derivedVars, bundlrVars
<1>6. ASSUME NEW w \in Identities, SetIdentity(w), UNCHANGED <<derivedVars, bundlrVars>>
      PROVE  SolInv'
  <2>1. w # Node
    BY WalletsAssumption
  <2>2. /\ sol' = sol /\ landed' = landed /\ jobs' = jobs /\ loaded' = loaded
        /\ identity' = w /\ client' = client /\ Everywhere' = Everywhere
        /\ original' = original /\ derived' = derived /\ disturbed' = disturbed
    BY <1>6 DEF SetIdentity, derivedVars, bundlrVars, Everywhere
  <2>3. Due' = Due
    BY <2>2 DEF Due, Owed
  <2>4. QED
    BY <2>1, <2>2, <2>3 DEF SolInv
<1>7. CASE UNCHANGED vars
  BY <1>3, <1>7 DEF vars, derivedVars, SolInv
<1>8. QED
  BY <1>2, <1>4, <1>5, <1>6, <1>7, BundlrSum, NetworkSum DEF Next

\* No step makes anything else of the jobs than a function of Jobs.
JobArray == jobs = [j \in Jobs |-> jobs[j]]

LEMMA ArrayNext == JobArray /\ [Next]_vars => JobArray'
<1> SUFFICES ASSUME JobArray, [Next]_vars PROVE jobs' = [j \in Jobs |-> jobs'[j]]
  BY DEF JobArray
<1>1. DOMAIN jobs = Jobs
  BY DEF JobArray
<1>2. ASSUME NEW j \in Jobs, Pays(j) PROVE jobs' = [i \in Jobs |-> jobs'[i]]
  BY <1>1, <1>2 DEF Pays, Transfer, Submit, Confirm, GiveUp, Retry
<1>3. ASSUME NEW j \in Jobs, PaysDerived(j) PROVE jobs' = [i \in Jobs |-> jobs'[i]]
  BY <1>1, <1>3 DEF PaysDerived, Fund, Withdraw, WithdrawAll, WithdrawRest, WithdrawSeen,
                    StartTransfer
<1>4. ASSUME NEW j \in Jobs, Bundlr(j) PROVE jobs' = [i \in Jobs |-> jobs'[i]]
  BY <1>1, <1>4 DEF Bundlr, Upload, Unload, UseClient, Connect, ConnectFails, FundUpload,
                    Credited, Store, ReadLoaded, WithdrawLoaded
<1>5. CASE jobs' = jobs
  BY <1>5 DEF JobArray
<1>6. Network \/ Derives \/ (\E w \in Identities : SetIdentity(w)) => jobs' = jobs
  BY DEF Network, Land, Lose, Tick, Derives, DeriveFrom, Derived, DeriveFails, CloseDerived,
         SetIdentity, rpcVars
<1>7. QED
  BY <1>2, <1>3, <1>4, <1>5, <1>6 DEF Next, vars, rpcVars

(* The inductive invariant of the instance that pays, with its bounds.     *)
THEOREM SolInvariant == Spec => [](PayInv /\ MoneyInv /\ SolInv /\ JobArray)
<1>1. Init => JobArray
  BY DEF Init, JobArray
<1>2. QED
  BY <1>1, ArrayNext, PayInit, PayNext, MoneyInit, MoneyNext, InitSol, SolNext, PTL DEF Spec

LEMMA PaymentBounds ==
  ASSUME NEW tx \in Payments, tx.amount \in 0 .. MaxSol
  PROVE  tx \in Transactions
BY DEF Payments, Transactions, TransactionsOf

(* Every wallet, transaction and job is of its type: no wallet or balance  *)
(* is overdrawn, nor ever holds more than there is.                        *)
THEOREM TypeCorrect == Spec => []TypeOK
<1>1. ASSUME PayInv, MoneyInv, SolInv, JobArray PROVE TypeOK
  <2>1. sol \in [Wallets -> 0 .. MaxSol]
    <3>1. sol = [w \in Wallets |-> sol[w]] /\ \A w \in Wallets : sol[w] \in 0 .. MaxSol
      BY <1>1, RoomBounds DEF SolInv, MoneyInv, Typed
    <3>2. QED
      BY <3>1
  <2>2. loaded \in [Wallets -> 0 .. MaxSol]
    <3>1. /\ loaded = [w \in Wallets |-> loaded[w]]
          /\ \A w \in Wallets : loaded[w] \in 0 .. MaxSol
      BY <1>1, SpareBounds DEF SolInv, MoneyInv, Typed
    <3>2. QED
      BY <3>1
  <2>3. Everywhere \subseteq Transactions
    BY <1>1, PaymentBounds DEF MoneyInv, Typed, SolInv
  <2>4. jobs \in [Jobs -> JobStates]
    <3>1. ASSUME NEW j \in Jobs PROVE jobs[j] \in JobStates
      <4>1. /\ jobs[j] \in JobTypes /\ jobs[j].saw \in 0 .. MaxSol
            /\ jobs[j].sends \in 0 .. MaxSends
            /\ jobs[j].tx # NoTx => jobs[j].tx.amount \in 0 .. MaxSol
        BY <1>1 DEF MoneyInv, JobsFine, JobFine, SolInv, Sane
      <4>2. jobs[j].tx \in Transactions \cup {NoTx}
        BY <4>1, PaymentBounds DEF JobTypes
      <4>3. QED
        BY <4>1, <4>2 DEF JobTypes, JobStates
    <3>2. jobs = [j \in Jobs |-> jobs[j]]
      BY <1>1 DEF JobArray
    <3>3. QED
      BY <3>1, <3>2
  <2>5. QED
    BY <1>1, <2>1, <2>2, <2>3, <2>4
       DEF TypeOK, PayInv, MoneyInv, Typed, SolInv, Everywhere
<1>2. QED
  BY <1>1, SolInvariant, PTL

(* The wallets never hold more SOL than there was at first, and the users' *)
(* wallets with what they have loaded at the node, and what the node was   *)
(* paid and has not credited, never more either: nobody is credited twice, *)
(* or for what he has not paid, and nobody gets back what an upload has    *)
(* used.                                                                   *)
NobodyIsCreditedTwice ==
  /\ \E t \in 0 .. Total : AddsUp(sol, t)
  /\ \E u, b, d \in 0 .. Total :
       /\ AddsUp(UsersOf(sol), u) /\ AddsUp(loaded, b) /\ AddsUp(Due, d)
       /\ u + b + d <= Total

(* Whatever fails, is sent again, lands late or overlaps.                  *)
THEOREM CreditedOnce == Spec => []NobodyIsCreditedTwice
<1>1. ASSUME SolInv PROVE NobodyIsCreditedTwice
  <2>1. Total \in Nat
    BY TotalHeld, RpcAssumption
  <2>2. PICK t \in Nat : AddsUp(sol, t) /\ t + 0 <= Total
    BY <1>1 DEF SolInv, Room
  <2>3. PICK u, b, d \in Nat :
          /\ AddsUp(UsersOf(sol), u) /\ AddsUp(loaded, b) /\ AddsUp(Due, d)
          /\ u + b + d + 0 <= Total
    BY <1>1 DEF SolInv, Spare
  <2>4. /\ t \in 0 .. Total /\ u \in 0 .. Total /\ b \in 0 .. Total /\ d \in 0 .. Total
        /\ u + b + d <= Total
    BY <2>1, <2>2, <2>3
  <2>5. QED
    BY <2>2, <2>3, <2>4 DEF NobodyIsCreditedTwice
<1>2. QED
  BY <1>1, SolInvariant, PTL
=============================================================================
