------------------------------ MODULE RpcClient ------------------------------
(***************************************************************************)
(* The RPC client: how a transaction gets its fee payer, its blockhash and *)
(* its signatures, is sent and confirmed, and what happens to it in the    *)
(* network (the accounts, the blockhashes and the landing are external).   *)
(*                                                                         *)
(* All that is sent here moves SOL.  A job is one call of an operation, or *)
(* one Transaction object in the hands of a caller, which is sent again    *)
(* when its caller is told that it failed.                                 *)
(***************************************************************************)
EXTENDS Integers, FiniteSets

CONSTANTS
  Wallets,    \* addresses that hold SOL
  Jobs,
  MaxSol,     \* bound: the SOL of all wallets, and what is loaded with it
  Fee,        \* of a transaction
  MaxClock,   \* bound: blockhashes
  Lifetime,   \* a blockhash is valid while it is no older
  MaxSends,   \* bound: how often a caller sends
  NoHash,
  NoTx,
  NoWallet

ASSUME RpcAssumption ==
  /\ MaxSol \in Nat /\ Fee \in Nat /\ MaxClock \in Nat /\ Lifetime \in Nat
  /\ MaxSends \in Nat
  /\ NoHash \notin 0 .. MaxClock /\ NoWallet \notin Wallets

VARIABLES
  sol,        \* what the wallets hold
  clock,      \* the latest blockhash
  network,    \* the transactions sent that may still land
  landed,     \* those that have moved their SOL
  bounced,    \* those that were executed with an error
  identity,   \* the current identity of the Metaplex instance
  jobs

rpcVars == <<sol, clock, network, landed, bounced, identity, jobs>>

\* Two transactions that agree in all of this have the same signature.  On chain
\* those of two jobs would too if they agreed in all but `by`, which keeps them
\* apart here; no property depends on it.
TransactionsOf(amounts) ==
  [by : Jobs, from : Wallets, to : Wallets, amount : amounts, payer : Wallets,
   hash : (0 .. MaxClock) \cup {NoHash}]

Transactions == TransactionsOf(0 .. MaxSol)

ASSUME NoTxAssumption == NoTx \notin TransactionsOf(Int)

Kinds == {"none", "object", "transfer", "fund", "withdraw", "withdrawAll", "upload",
          "unload"}

Steps == {"idle", "read", "ready", "sent", "done", "failed", "connecting", "connected",
          "upload"}

JobStates ==
  [kind : Kinds, step : Steps, tx : Transactions \cup {NoTx},
   saw : 0 .. MaxSol,                  \* a balance it has read
   keys : SUBSET Wallets,              \* the signers it was given by themselves
   signed : SUBSET Wallets,            \* the signatures on its transaction
   client : Wallets \cup {NoWallet},   \* its Bundlr client
   sends : 0 .. MaxSends]

NoJob == [kind |-> "none", step |-> "idle", tx |-> NoTx, saw |-> 0, keys |-> {},
          signed |-> {}, client |-> NoWallet, sends |-> 0]

-----------------------------------------------------------------------------
(* The network, as far as a client sees it.                                *)

Charged(tx) == [sol EXCEPT ![tx.payer] = @ - Fee]

Affordable(tx) ==
  sol[tx.payer] >= Fee /\ Charged(tx)[tx.from] >= tx.amount

Moved(tx) == [[Charged(tx) EXCEPT ![tx.from] = @ - tx.amount]
               EXCEPT ![tx.to] = @ + tx.amount]

\* The simulation before sending knows the blockhash and what has landed.
Sendable(tx) ==
  tx.hash + Lifetime >= clock /\ tx \notin landed \cup bounced /\ Affordable(tx)

-----------------------------------------------------------------------------
(* The client.                                                             *)

\* toTransaction, and the default fee payer.
NewTransaction(j, from, to, amount) ==
  [by |-> j, from |-> from, to |-> to, amount |-> amount, payer |-> identity,
   hash |-> NoHash]

\* Mutant: every time a new one.
NewestHash(tx) == [tx EXCEPT !.hash = clock]

WithHash(tx) == [tx EXCEPT !.hash = IF @ = NoHash THEN clock ELSE @]

\* The identity signs if it is the fee payer by now; older signatures stay.
Signatures(job) == job.signed \cup job.keys \cup ({identity} \cap {job.tx.payer})

IsSigned(job) == {job.tx.payer, job.tx.from} \subseteq Signatures(job)

\* sendTransaction, once it has its blockhash.
Submit(j) ==
  LET job == jobs[j]
      tx  == WithHash(job.tx)
      ok  == IsSigned(job) /\ Sendable(tx)
  IN  /\ job.step = "ready" /\ job.sends < MaxSends
      /\ network' = IF ok THEN network \cup {tx} ELSE network
      /\ jobs' = [jobs EXCEPT ![j].tx = tx, ![j].sends = @ + 1,
                              ![j].signed = Signatures(job),
                              ![j].step = IF ok THEN "sent" ELSE "failed"]
      /\ UNCHANGED <<sol, clock, landed, bounced, identity>>

Confirmed(tx) == IF tx \in landed THEN "done" ELSE "failed"

\* confirmTransaction.
Confirm(j) ==
  /\ jobs[j].step = "sent" /\ jobs[j].kind # "upload"
  /\ jobs[j].tx \in landed \cup bounced
  /\ jobs' = [jobs EXCEPT ![j].step = Confirmed(jobs[j].tx)]
  /\ UNCHANGED <<sol, clock, network, landed, bounced, identity>>

\* FailedToConfirmTransactionError: the transaction may land all the same.
GiveUp(j) ==
  /\ jobs[j].step = "sent"
  /\ jobs' = [jobs EXCEPT ![j].step = "failed"]
  /\ UNCHANGED <<sol, clock, network, landed, bounced, identity>>

\* transferSol, or the same instruction in a Transaction of the caller.
Transfer(j, kind, to, amount) ==
  /\ jobs[j].kind = "none" /\ kind \in {"object", "transfer"}
  /\ jobs' = [jobs EXCEPT ![j].kind = kind, ![j].step = "ready",
                          ![j].tx = NewTransaction(j, identity, to, amount)]
  /\ UNCHANGED <<sol, clock, network, landed, bounced, identity>>

\* The operation builds its transaction anew, the object is sent as it is.
Retry(j) ==
  LET job   == jobs[j]
      again == NewTransaction(j, identity, job.tx.to, job.tx.amount)
  IN  /\ job.kind \in {"object", "transfer"}
      /\ job.step = "failed" /\ job.sends < MaxSends
      /\ jobs' = [jobs EXCEPT
           ![j].step = "ready",
           ![j].tx = IF job.kind = "object" THEN @ ELSE again,
           ![j].signed = IF job.kind = "object" THEN @ ELSE {}]
      /\ UNCHANGED <<sol, clock, network, landed, bounced, identity>>

\* setDriver of the identity.
SetIdentity(w) ==
  /\ identity # w
  /\ identity' = w
  /\ UNCHANGED <<sol, clock, network, landed, bounced, jobs>>

-----------------------------------------------------------------------------
(* The network.                                                            *)

\* A transaction that cannot be executed pays its fee.
Land(tx) ==
  /\ tx.hash + Lifetime >= clock /\ sol[tx.payer] >= Fee
  /\ network' = network \ {tx}
  /\ IF Affordable(tx)
     THEN sol' = Moved(tx) /\ landed' = landed \cup {tx} /\ UNCHANGED bounced
     ELSE sol' = Charged(tx) /\ bounced' = bounced \cup {tx} /\ UNCHANGED landed
  /\ UNCHANGED <<clock, identity, jobs>>

Lose(tx) ==
  /\ tx.hash + Lifetime < clock \/ sol[tx.payer] < Fee
  /\ network' = network \ {tx}
  /\ UNCHANGED <<sol, clock, landed, bounced, identity, jobs>>

Tick ==
  /\ clock < MaxClock
  /\ clock' = clock + 1
  /\ UNCHANGED <<sol, network, landed, bounced, identity, jobs>>
=============================================================================
