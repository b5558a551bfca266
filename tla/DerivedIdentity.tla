--------------------------- MODULE DerivedIdentity ---------------------------
(***************************************************************************)
(* The derived identity: a keypair made from a message that the identity   *)
(* signs, which is funded from its original signer and gives the SOL back. *)
(***************************************************************************)
EXTENDS RpcClient

CONSTANTS
  DerivedFrom   \* the wallet of each identity's derived keypair

VARIABLES
  original,   \* originalSigner
  derived,    \* derivedKeypair
  deriving,   \* the original signers of the calls that wait for a signature
  disturbed   \* the last of them overlapped with another one, or was refused

derivedVars == <<original, derived, deriving, disturbed>>

Initialized == original # NoWallet /\ derived # NoWallet

\* Mutant: keeps the first original signer.
OriginalIfNone(w) == IF original = NoWallet THEN w ELSE original

NewOriginal(w) == w

\* deriveFrom: the original signer is replaced before the message is signed.
DeriveFrom(w) ==
  /\ w \in DOMAIN DerivedFrom \ deriving
  /\ original' = NewOriginal(w)
  /\ deriving' = deriving \cup {w}
  /\ disturbed' = (deriving # {})
  /\ UNCHANGED <<rpcVars, derived>>

Derived(w) ==
  /\ w \in deriving
  /\ derived' = DerivedFrom[w]
  /\ deriving' = deriving \ {w}
  /\ UNCHANGED <<rpcVars, original, disturbed>>

\* The user does not sign.
DeriveFails(w) ==
  /\ w \in deriving
  /\ deriving' = deriving \ {w}
  /\ disturbed' = TRUE
  /\ UNCHANGED <<rpcVars, original, derived>>

CloseDerived ==
  /\ original # NoWallet \/ derived # NoWallet
  /\ original' = NoWallet
  /\ derived' = NoWallet
  /\ UNCHANGED <<rpcVars, deriving, disturbed>>

\* A transfer of which the original signer, or the derived keypair, is a signer.
StartTransfer(j, kind, from, to, amount) ==
  jobs' = [jobs EXCEPT ![j].kind = kind, ![j].step = "ready", ![j].keys = {from},
                       ![j].tx = NewTransaction(j, from, to, amount)]

Fund(j, amount) ==
  /\ Initialized /\ jobs[j].kind = "none"
  /\ StartTransfer(j, "fund", original, derived, amount)
  /\ UNCHANGED <<sol, clock, network, landed, bounced, identity, derivedVars>>

Withdraw(j, amount) ==
  /\ Initialized /\ jobs[j].kind = "none"
  /\ StartTransfer(j, "withdraw", derived, original, amount)
  /\ UNCHANGED <<sol, clock, network, landed, bounced, identity, derivedVars>>

\* withdrawAll reads the balance, and then withdraws as things are by then.
WithdrawAll(j) ==
  /\ Initialized /\ jobs[j].kind = "none"
  /\ jobs' = [jobs EXCEPT ![j].kind = "withdrawAll", ![j].step = "read",
                          ![j].saw = sol[derived]]
  /\ UNCHANGED <<sol, clock, network, landed, bounced, identity, derivedVars>>

\* Mutant: signed by the original signer, to whom the SOL goes.
WithdrawByOriginal(j) ==
  jobs' = [jobs EXCEPT ![j].step = "ready", ![j].keys = {original},
                       ![j].tx = NewTransaction(j, derived, original, jobs[j].saw)]

WithdrawSeen(j) == StartTransfer(j, "withdrawAll", derived, original, jobs[j].saw)

\* UninitializedDerivedIdentityError when it was closed meanwhile.
WithdrawRest(j) ==
  /\ jobs[j].kind = "withdrawAll" /\ jobs[j].step = "read"
  /\ IF Initialized THEN WithdrawSeen(j)
     ELSE jobs' = [jobs EXCEPT ![j].step = "failed"]
  /\ UNCHANGED <<sol, clock, network, landed, bounced, identity, derivedVars>>
=============================================================================
