------------------------------- MODULE Wallets -------------------------------
(***************************************************************************)
(* A Metaplex instance that pays: the RPC client, the derived identity and *)
(* the Bundlr driver share one identity, one connection and the same       *)
(* wallets.                                                                *)
(***************************************************************************)
EXTENDS DerivedIdentity, BundlrStorage, Sums

CONSTANTS
  FirstSol, FirstLoaded,   \* what the wallets hold in the beginning
  Identities,              \* the wallets that may be the identity
  Amounts,                 \* bound: what a caller moves
  Mixes                    \* bound: how many calls of which kinds meet in a behaviour

ASSUME WalletsAssumption ==
  /\ FirstSol \in [Wallets -> 0 .. MaxSol] /\ FirstLoaded \in [Wallets -> 0 .. MaxSol]
  /\ Identities \subseteq Wallets /\ Amounts \subseteq 0 .. MaxSol
  /\ \A m \in Mixes : DOMAIN m \subseteq Kinds \cup {"derive", "setDriver"}
  /\ \A w \in DOMAIN DerivedFrom : w \in Wallets /\ DerivedFrom[w] \in Wallets
  /\ Node \notin Identities \cup DOMAIN DerivedFrom   \* nobody else has its key
  /\ \A w \in DOMAIN DerivedFrom : DerivedFrom[w] # Node
  /\ Price <= MaxSol
  /\ \E s \in 0 .. MaxSol :
       AddsUp(FirstSol, s) /\ \E l \in 0 .. MaxSol - s : AddsUp(FirstLoaded, l)

vars == <<rpcVars, derivedVars, bundlrVars>>

Init ==
  /\ sol = FirstSol /\ clock = 0
  /\ network = {} /\ landed = {} /\ bounced = {}
  /\ identity \in Identities
  /\ jobs = [j \in Jobs |-> NoJob]
  /\ original = NoWallet /\ derived = NoWallet /\ deriving = {} /\ disturbed = FALSE
  /\ client = NoWallet /\ loaded = FirstLoaded

Calls(kind) == Cardinality({j \in Jobs : jobs[j].kind = kind})

KindsUsed ==
  ({jobs[j].kind : j \in Jobs} \ {"none"})
    \cup IF original = NoWallet /\ derived = NoWallet /\ deriving = {} THEN {}
         ELSE {"derive"}

Meets(kind) ==
  \E m \in Mixes : KindsUsed \cup {kind} \subseteq DOMAIN m /\ Calls(kind) < m[kind]

Pays(j) ==
  \/ \E kind \in {"object", "transfer"}, to \in Identities, a \in Amounts :
       Meets(kind) /\ Transfer(j, kind, to, a)
  \/ Submit(j)
  \/ Confirm(j)
  \/ GiveUp(j)
  \/ Retry(j)

Derives ==
  \/ \E w \in DOMAIN DerivedFrom :
       (Meets("derive") /\ DeriveFrom(w)) \/ Derived(w) \/ DeriveFails(w)
  \/ CloseDerived

PaysDerived(j) ==
  \/ \E a \in Amounts :
       (Meets("fund") /\ Fund(j, a)) \/ (Meets("withdraw") /\ Withdraw(j, a))
  \/ Meets("withdrawAll") /\ WithdrawAll(j)
  \/ WithdrawRest(j)

Bundlr(j) ==
  \/ Meets("upload") /\ Upload(j)
  \/ Meets("unload") /\ Unload(j)
  \/ Connect(j)
  \/ ConnectFails(j)
  \/ FundUpload(j)
  \/ Credited(j)
  \/ Store(j)
  \/ ReadLoaded(j)
  \/ WithdrawLoaded(j)

Network ==
  \/ \E tx \in network : Land(tx) \/ Lose(tx)
  \/ Tick

Next ==
  \/ (\/ \E j \in Jobs : Pays(j)
      \/ Network
      \/ \E w \in Identities : Meets("setDriver") /\ SetIdentity(w))
     /\ UNCHANGED <<derivedVars, bundlrVars>>
  \/ Derives /\ UNCHANGED bundlrVars
  \/ \E j \in Jobs : PaysDerived(j) /\ UNCHANGED bundlrVars
  \/ \E j \in Jobs : Bundlr(j) /\ UNCHANGED derivedVars

Spec == Init /\ [][Next]_vars

-----------------------------------------------------------------------------
(* Every wallet, transaction and job is of its type. *)
TypeOK ==
  /\ sol \in [Wallets -> 0 .. MaxSol]
  /\ clock \in 0 .. MaxClock
  /\ network \cup landed \cup bounced \subseteq Transactions
  /\ identity \in Wallets
  /\ jobs \in [Jobs -> JobStates]
  /\ original \in Wallets \cup {NoWallet}
  /\ derived \in Wallets \cup {NoWallet}
  /\ deriving \subseteq DOMAIN DerivedFrom
  /\ disturbed \in BOOLEAN
  /\ client \in Wallets \cup {NoWallet}
  /\ loaded \in [Wallets -> 0 .. MaxSol]

(* However often a caller sends the same Transaction object again because *)
(* it was told that it failed, it is paid for once: sendTransaction keeps *)
(* the blockhash it has, and the network takes a signature once.          *)
SameObjectPaysOnce ==
  \A j \in Jobs :
    jobs[j].kind = "object" => Cardinality({tx \in landed : tx.by = j}) <= 1

(* The keypair of the derived identity is the one of its original signer, *)
(* from which it is funded and to which it gives back, unless two calls   *)
(* of deriveFrom overlapped or one was refused by the user.               *)
KeyIsOfItsOrigin ==
  Initialized /\ deriving = {} /\ ~disturbed => derived = DerivedFrom[original]

(* withdrawAll empties the derived wallet to the last lamport, for the    *)
(* identity pays the fee: it is refused only if the identity changed,     *)
(* cannot pay, or is the derived wallet itself, or if the wallet holds    *)
(* less than what was read.                                               *)
WithdrawAllIsOnlyRefusedIfRaced ==
  [][\A j \in Jobs :
       /\ jobs[j].kind = "withdrawAll" /\ jobs[j].step = "ready"
       /\ jobs'[j].step = "failed"
       => \/ jobs[j].tx.payer # identity
          \/ sol[identity] < Fee
          \/ sol[jobs[j].tx.from] < jobs[j].saw
          \/ identity = jobs[j].tx.from]_vars

(* An upload that read its balance and had the rest of its price credited *)
(* is refused only if another job took from the balance meanwhile, or it  *)
(* funded the balance of another client than the one it uploads with.     *)
UploadIsOnlyRefusedIfRaced ==
  [][\A j \in Jobs :
       /\ jobs[j].kind = "upload" /\ jobs[j].step = "upload"
       /\ jobs'[j].step = "failed"
       => \/ jobs[j].keys # {jobs[j].client}
          \/ LET funded == IF jobs[j].tx = NoTx THEN 0 ELSE jobs[j].tx.amount
             IN  loaded[jobs[j].client] < jobs[j].saw + funded]_vars
=============================================================================
