---------------------------- MODULE TokenBuilders ----------------------------
(***************************************************************************)
(* The instructions of the builders of the token operations.  Only the     *)
(* handlers of mint and send look at the chain, to find out whether the    *)
(* account that receives the tokens exists.                                *)
(***************************************************************************)
EXTENDS TokenProgram

CONSTANTS
  NoAmount   \* an amount that the caller leaves out

ASSUME AmountAssumption == NoAmount \notin Nat

When(condition, instruction) == IF condition THEN <<instruction>> ELSE <<>>

\* createAccount and initializeMint, of a mint that is a new Keypair.
CreateMintInstructions(authority, freeze) ==
  <<[type |-> "initializeMint", authority |-> authority, freeze |-> freeze]>>

\* The associated account, or createAccount and initializeToken of a new Keypair.
CreateTokenInstructions(account) ==
  <<[type |-> "createToken", account |-> account]>>

\* Mutant: does not look whether the account exists.
CreateTokenAnyway(account, exists) == CreateTokenInstructions(account)

CreateTokenIfMissing(account, exists) ==
  IF exists THEN <<>> ELSE CreateTokenInstructions(account)

MintInstructions(signer, account, amount, exists) ==
  CreateTokenIfMissing(account, exists)
  \o <<[type |-> "mintTo", signer |-> signer, account |-> account, amount |-> amount]>>

\* An initial supply of zero is an amount like any other, and is minted.
CreateTokenWithMintInstructions(authority, account, supply) ==
  CreateMintInstructions(authority, authority)
  \o CreateTokenInstructions(account)
  \o IF supply # NoAmount THEN MintInstructions(authority, account, supply, TRUE) ELSE <<>>

\* The delegate acts on the account of the owner if there is one.
Authority(owner, delegate) == IF delegate = NoKey THEN owner ELSE delegate

\* An owner who is a Signer is the only signer, apart from the payer.
IsSigned(payer, owner, ownerSigns, delegate) ==
  Authority(owner, delegate) \in {payer, IF ownerSigns THEN owner ELSE delegate}

\* Mutant: takes the tokens from the account of whoever signs.
SendFromSigner(owner, source, delegate, account, amount, exists) ==
  CreateTokenIfMissing(account, exists)
  \o <<[type |-> "transfer", from |-> Ata[Authority(owner, delegate)], to |-> account,
        amount |-> amount, signer |-> Authority(owner, delegate)]>>

SendInstructions(owner, source, delegate, account, amount, exists) ==
  CreateTokenIfMissing(account, exists)
  \o <<[type |-> "transfer", from |-> source, to |-> account, amount |-> amount,
        signer |-> Authority(owner, delegate)]>>

ApproveInstructions(owner, account, delegate, amount) ==
  <<[type |-> "approve", signer |-> owner, account |-> account, delegate |-> delegate,
     amount |-> amount]>>

RevokeInstructions(owner, account) ==
  <<[type |-> "revoke", signer |-> owner, account |-> account]>>

FreezeInstructions(signer, account) ==
  <<[type |-> "freeze", signer |-> signer, account |-> account]>>

ThawInstructions(signer, account) ==
  <<[type |-> "thaw", signer |-> signer, account |-> account]>>
=============================================================================
