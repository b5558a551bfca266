--------------------------- MODULE EditionBuilders ---------------------------
(***************************************************************************)
(* The mint, token and edition side of the NFT operations: the             *)
(* instructions of their builders and the models their handlers answer     *)
(* with.  The data of the metadata is that of NftMetadataBuilders.         *)
(***************************************************************************)
EXTENDS TokenBuilders, EditionProgram

CONSTANTS
  NoAccount   \* neither an owner nor an address is given for the token

\* The mint authority pays, is the update authority and may freeze.
CreateMintAndToken(authority, existingMint, account, tokenExists, amount) ==
  (IF existingMint THEN <<>> ELSE CreateMintInstructions(authority, authority))
  \o (IF ~tokenExists /\ account # NoAccount
      THEN CreateTokenInstructions(account) ELSE <<>>)
  \o (IF account # NoAccount /\ amount # NoAmount
      THEN MintInstructions(authority, account, amount, TRUE) ELSE <<>>)

CreateSftInstructions(authority, existingMint, account, tokenExists, amount) ==
  CreateMintAndToken(authority, existingMint, account, tokenExists, amount)
  \o <<[type |-> "createMetadata", signer |-> authority]>>

\* Mutant: an NFT without a master edition.
CreateNftAsSft(authority, existingMint, account, tokenExists, max) ==
  CreateSftInstructions(authority, existingMint, account, tokenExists, 1)

\* Mutant: counts the original as one of its prints.
CreateNftCounted(authority, existingMint, account, tokenExists, max) ==
  CreateSftInstructions(authority, existingMint, account, tokenExists, 1)
  \o <<[type |-> "createMasterEdition", signer |-> authority, max |-> max + 1]>>

CreateNftInstructions(authority, existingMint, account, tokenExists, max) ==
  CreateSftInstructions(authority, existingMint, account, tokenExists, 1)
  \o <<[type |-> "createMasterEdition", signer |-> authority, max |-> max]>>

\* Mutant: takes the supply for the next number.
PrintWithSupply(signer, account, supply, owner) ==
  <<[type |-> "print", signer |-> signer, account |-> account, number |-> supply,
     owner |-> owner]>>

\* With the mint and the token of the print, which nobody else has a key of.
PrintInstructions(signer, account, supply, owner) ==
  <<[type |-> "print", signer |-> signer, account |-> account, number |-> supply + 1,
     owner |-> owner]>>

FreezeDelegatedInstructions(delegate, account) ==
  <<[type |-> "freezeDelegated", signer |-> delegate, account |-> account]>>

ThawDelegatedInstructions(delegate, account) ==
  <<[type |-> "thawDelegated", signer |-> delegate, account |-> account]>>

\* The record of the user is named if there is one.
UseInstructions(owner, user, account, count) ==
  <<[type |-> "utilize", signer |-> Authority(owner, user), owner |-> owner,
     account |-> account, count |-> count, delegated |-> user # NoKey]>>

ApproveUseInstructions(owner, account, user, count) ==
  <<[type |-> "approveUse", signer |-> owner, account |-> account, user |-> user,
     count |-> count]>>

RevokeUseInstructions(owner, account, user) ==
  <<[type |-> "revokeUse", signer |-> owner, account |-> account, user |-> user]>>

BurnInstructions(owner, account) ==
  <<[type |-> "burnNft", signer |-> owner, account |-> account]>>

-----------------------------------------------------------------------------
(* What the handlers answer with.                                          *)

Missing == [kind |-> "error"]

\* findByMint: an NFT has an edition that is the authority of its mint.
FindNft(l, account) ==
  IF ~l.mint \/ ~l.metadata \/ (account # NoAccount /\ ~l.token[account].exists)
  THEN Missing
  ELSE [kind  |-> IF l.edition /\ l.mintAuthority = Edition THEN "nft" ELSE "sft",
        token |-> IF account = NoAccount THEN NoToken ELSE l.token[account]]

FindMint(l) ==
  IF l.mint THEN [kind |-> "mint", supply |-> l.supply] ELSE Missing

FindTokenWithMint(l, account) ==
  IF l.mint /\ l.token[account].exists
  THEN [kind |-> "token", token |-> l.token[account]] ELSE Missing
=============================================================================
