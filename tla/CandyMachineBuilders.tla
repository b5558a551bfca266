------------------------ MODULE CandyMachineBuilders ------------------------
(***************************************************************************)
(* What the candy machine operations of the SDK compute before they send a *)
(* transaction: the CandyMachine model parsed from the accounts, the       *)
(* checks made on that model, and the instructions built from it.  None of *)
(* them look at the chain, so all of them see what the model says.         *)
(***************************************************************************)
EXTENDS CandyMachineProgram

CONSTANTS
  Unchanged   \* a parameter that the caller leaves undefined

ASSUME UnchangedAssumption == Unchanged \notin Mints \cup {NoMint}

Models ==
  [authority : Keys, config : Configs, hidden : BOOLEAN, minted : 0 .. Cardinality(Nfts),
   loaded : 0 .. Capacity, collection : Mints \cup {NoMint}]

ToCandyMachine(l) ==
  [authority  |-> l.authority,
   config     |-> l.config,
   hidden     |-> l.hidden,
   minted     |-> l.redeemed,
   loaded     |-> IF l.hidden THEN 0 ELSE l.loaded,
   collection |-> l.collection]

When(condition, instruction) == IF condition THEN <<instruction>> ELSE <<>>

-----------------------------------------------------------------------------
(* The checks of asserts.ts.                                               *)

NotFull(m) == m.loaded < m.config.available

CanAdd(m, index, count) == index + count <= m.config.available

\* itemsRemaining.isZero(): a negative number of remaining items is not zero.
NotEmpty(m) == m.config.available - m.minted # 0

\* Any presale counts as live, whether or not the payer is on the whitelist.
IsLive(m, now) ==
  \/ m.config.whitelist = "presale"
  \/ m.config.goLive # NoDate /\ m.config.goLive < now

\* Mutant: one more NFT than the amount at which the sale ends.
HasNotEndedTooLate(m, now) ==
  /\ m.config.end.type = "amount" => m.minted <= m.config.end.number
  /\ m.config.end.type = "date" => now <= m.config.end.number

HasNotEnded(m, now) ==
  /\ m.config.end.type = "amount" => m.minted < m.config.end.number
  /\ m.config.end.type = "date" => now <= m.config.end.number

CanMint(m, payer, now) ==
  NotEmpty(m) /\ (payer = m.authority \/ (IsLive(m, now) /\ HasNotEnded(m, now)))

-----------------------------------------------------------------------------
(* The builders.                                                           *)

CreateInstructions(authority, config, hidden, collection) ==
  <<[type |-> "initialize", authority |-> authority, config |-> config, hidden |-> hidden]>>
  \o When(collection # NoMint,
          [type |-> "setCollection", authority |-> authority, mint |-> collection])

\* Mutant: lines are counted from one.
InsertItemsFromOne(signer, index, items) ==
  <<[type |-> "addConfigLines", authority |-> signer, index |-> index + 1, items |-> items]>>

InsertItems(signer, index, items) ==
  <<[type |-> "addConfigLines", authority |-> signer, index |-> index, items |-> items]>>

\* { ...currentConfigs, ...updatableFields }
Merged(config, edit) ==
  [f \in DOMAIN config |-> IF f \in DOMAIN edit THEN edit[f] ELSE config[f]]

UpdateInstruction(signer, config) ==
  [type |-> "updateCandyMachine", authority |-> signer, config |-> config]

SetCollectionInstruction(signer, mint) ==
  [type |-> "setCollection", authority |-> signer, mint |-> mint]

RemoveCollectionInstruction(signer, mint) ==
  [type |-> "removeCollection", authority |-> signer, mint |-> mint]

UpdateAuthorityInstruction(signer, newAuthority) ==
  [type |-> "updateAuthority", authority |-> signer, newAuthority |-> newAuthority]

ShouldUpdateCollection(m, newCollection) ==
  newCollection \notin {Unchanged, NoMint, m.collection}

ShouldRemoveCollection(m, newCollection) ==
  newCollection = NoMint /\ m.collection # NoMint

ShouldUpdateAuthority(signer, newAuthority) == newAuthority \notin {Unchanged, signer}

\* Mutant: the authority is handed over before the rest is updated.
UpdateInstructionsAuthorityFirst(m, signer, edit, newCollection, newAuthority) ==
  LET config == Merged(m.config, edit)
  IN  When(ShouldUpdateAuthority(signer, newAuthority),
           UpdateAuthorityInstruction(signer, newAuthority))
      \o When(config # m.config, UpdateInstruction(signer, config))
      \o When(ShouldUpdateCollection(m, newCollection),
              SetCollectionInstruction(signer, newCollection))
      \o When(ShouldRemoveCollection(m, newCollection),
              RemoveCollectionInstruction(signer, m.collection))

UpdateInstructions(m, signer, edit, newCollection, newAuthority) ==
  LET config == Merged(m.config, edit)
  IN  When(config # m.config, UpdateInstruction(signer, config))
      \o When(ShouldUpdateCollection(m, newCollection),
              SetCollectionInstruction(signer, newCollection))
      \o When(ShouldRemoveCollection(m, newCollection),
              RemoveCollectionInstruction(signer, m.collection))
      \o When(ShouldUpdateAuthority(signer, newAuthority),
              UpdateAuthorityInstruction(signer, newAuthority))

\* Mutant: the collection PDA is not among the keys of the instruction.
DeleteInstructionsWithoutCollection(m, signer) ==
  <<[type |-> "withdrawFunds", authority |-> signer, closesCollection |-> FALSE]>>

DeleteInstructions(m, signer) ==
  <<[type |-> "withdrawFunds", authority |-> signer,
     closesCollection |-> m.collection # NoMint]>>

\* Mutant: the collection of the model, which may be stale, instead of the one read.
MintInstructionsFromModel(m, payer, nft, collection) ==
  <<[type |-> "mintNft", wallet |-> m.config.wallet, payer |-> payer, nft |-> nft]>>
  \o When(m.collection # NoMint,
          [type |-> "setCollectionDuringMint", authority |-> m.authority,
           mint |-> m.collection, nft |-> nft])

\* The collection is the one found in the collection PDA just before.
MintInstructions(m, payer, nft, collection) ==
  <<[type |-> "mintNft", wallet |-> m.config.wallet, payer |-> payer, nft |-> nft]>>
  \o When(collection # NoMint,
          [type |-> "setCollectionDuringMint", authority |-> m.authority,
           mint |-> collection, nft |-> nft])
=============================================================================
