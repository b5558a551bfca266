------------------------ MODULE NftMetadataBuilders ------------------------
(***************************************************************************)
(* The metadata side of the NFT operations: what they read into a model    *)
(* and the instructions of their builders.  None of the builders looks at  *)
(* the chain.  The accounts of the mint and its tokens are those of        *)
(* EditionBuilders.                                                        *)
(***************************************************************************)
EXTENDS NftMetadataProgram

CONSTANTS
  Keep   \* a parameter that the caller leaves undefined

ASSUME KeepAssumption == Keep \notin Collections \cup {NoCollection}

\* What an Nft or Sft says of the metadata account.
Models ==
  [text : Texts, creators : [Creators -> CreatorStates],
   collection : Collections \cup {NoCollection}, verified : BOOLEAN]

ToMetadata(l) ==
  [text |-> l.text, creators |-> l.creators, collection |-> l.collection,
   verified |-> l.verified]

When(condition, instruction) == IF condition THEN <<instruction>> ELSE <<>>

Given(param, default) == IF param = Keep THEN default ELSE param

\* A creator is given as an address, or as a Signer that is to be verified.
CreatorInputs == [Creators -> {"absent", "given", "signing"}]

Signing(input) == {k \in Creators : input[k] = "signing"}

-----------------------------------------------------------------------------
(* Verifying.                                                              *)

VerifyCreatorInstructions(creator) ==
  <<[type |-> "verifyCreators", creators |-> {creator}]>>

UnverifyCreatorInstructions(creator) ==
  <<[type |-> "unverifyCreator", creator |-> creator]>>

VerifyCollectionInstruction(signer, collection, sized, delegated) ==
  [type |-> "verifyCollection", signer |-> signer, collection |-> collection,
   sized |-> sized, delegated |-> delegated]

UnverifyCollectionInstruction(signer, collection, sized, delegated) ==
  [type |-> "unverifyCollection", signer |-> signer, collection |-> collection,
   sized |-> sized, delegated |-> delegated]

MigrateInstructions(signer, collection, size, delegated) ==
  <<[type |-> "setCollectionSize", signer |-> signer, collection |-> collection,
     size |-> size, delegated |-> delegated]>>

ApproveCollectionAuthorityInstructions(signer, collection, key) ==
  <<[type |-> "approveCollectionAuthority", signer |-> signer,
     collection |-> collection, key |-> key]>>

RevokeCollectionAuthorityInstructions(signer, collection, key) ==
  <<[type |-> "revokeCollectionAuthority", signer |-> signer,
     collection |-> collection, key |-> key]>>

DeleteInstructions(owner, collection) ==
  <<[type |-> "burnNft", signer |-> owner, collection |-> collection]>>

-----------------------------------------------------------------------------
(* Creating.                                                               *)

\* What the caller may ask for.  Nobody verifies the collection if the authority is NoKey.
CreateInputs ==
  [text : Texts, creators : CreatorInputs \cup {Keep},
   collection : Collections \cup {NoCollection}, collectionAuthority : Keys \cup {NoKey},
   sized : BOOLEAN, delegated : BOOLEAN]

DefaultCreators(updateAuthority) ==
  [k \in Creators |-> IF k = updateAuthority THEN "signing" ELSE "absent"]

CreateMetadataInstruction(updateAuthority, wanted) ==
  LET input == Given(wanted.creators, DefaultCreators(updateAuthority))
  IN  [type |-> "createMetadata", signer |-> updateAuthority, text |-> wanted.text,
       collection |-> wanted.collection,
       creators |-> [k \in Creators |->
                      IF input[k] = "absent" THEN "absent"
                      ELSE IF k = updateAuthority THEN "verified" ELSE "unverified"]]

\* Verifies the collection if there is an authority for it.
VerifyNewCollection(wanted) ==
  When(wanted.collection \in Collections /\ wanted.collectionAuthority # NoKey,
       VerifyCollectionInstruction(wanted.collectionAuthority, wanted.collection,
                                   wanted.sized, wanted.delegated))

\* Mutant: does not verify the creators that sign.
CreateUnverified(updateAuthority, wanted) ==
  <<CreateMetadataInstruction(updateAuthority, wanted)>> \o VerifyNewCollection(wanted)

CreateInstructions(updateAuthority, wanted) ==
  LET input == Given(wanted.creators, DefaultCreators(updateAuthority))
      extra == Signing(input) \ {updateAuthority}
  IN  <<CreateMetadataInstruction(updateAuthority, wanted)>>
      \o When(extra # {}, [type |-> "verifyCreators", creators |-> extra])
      \o VerifyNewCollection(wanted)

-----------------------------------------------------------------------------
(* Updating.                                                               *)

UpdateInputs ==
  [text : Texts \cup {Keep}, authority : Keys \cup {Keep},
   creators : CreatorInputs \cup {Keep},
   collection : Collections \cup {NoCollection, Keep},
   collectionAuthority : Keys \cup {NoKey},
   sized : BOOLEAN, oldSized : BOOLEAN, delegated : BOOLEAN]

\* Mutant: new creators all start unverified.
CreatorsDataReset(m, edit) ==
  IF edit.creators = Keep THEN m.creators
  ELSE [k \in Creators |->
         IF edit.creators[k] = "absent" THEN "absent" ELSE "unverified"]

\* A creator keeps the flag that the model has for him.
CreatorsData(m, edit) ==
  IF edit.creators = Keep THEN m.creators
  ELSE [k \in Creators |->
         IF edit.creators[k] = "absent" THEN "absent"
         ELSE IF m.creators[k] = "verified" THEN "verified" ELSE "unverified"]

\* Mutant: sends what is left undefined as it is.
UndefinedData(m, edit) ==
  [text       |-> edit.text,
   creators   |-> CreatorsData(m, edit),
   collection |-> Given(edit.collection, m.collection),
   verified   |-> edit.collection = Keep /\ m.verified]

\* toInstructionData: everything is sent, what is not edited as the model has it.
ToInstructionData(m, edit) ==
  [text       |-> Given(edit.text, m.text),
   creators   |-> CreatorsData(m, edit),
   collection |-> Given(edit.collection, m.collection),
   verified   |-> edit.collection = Keep /\ m.verified]

\* A creator with his Signer, or a collection that is given, always differs.
ShouldSendUpdate(m, edit) ==
  \/ ToInstructionData(m, edit) # m
  \/ edit.collection \in Collections
  \/ edit.authority # Keep
  \/ edit.creators # Keep /\ Signing(edit.creators) # {}

\* Mutant: a collection is overridden as it is.
NeverUnverify(m, edit) == FALSE

\* Whether the caller wants it removed or has not mentioned it is not told apart.
ShouldUnverifyCurrentCollection(m, edit) ==
  m.verified /\ edit.collection # m.collection

AdditionalCreators(m, edit) ==
  IF edit.creators = Keep THEN {}
  ELSE {k \in Signing(edit.creators) : m.creators[k] # "verified"}

UpdateMetadataInstruction(data, updateAuthority, edit) ==
  [type |-> "updateMetadata", signer |-> updateAuthority, text |-> data.text,
   creators |-> data.creators, collection |-> data.collection, verified |-> data.verified,
   authority |-> Given(edit.authority, updateAuthority)]

\* The update authority has to be that of the current collection too.
UpdateInstructions(m, updateAuthority, edit) ==
  When(ShouldUnverifyCurrentCollection(m, edit),
       UnverifyCollectionInstruction(updateAuthority, m.collection, edit.oldSized, FALSE))
  \o When(ShouldSendUpdate(m, edit),
          UpdateMetadataInstruction(ToInstructionData(m, edit), updateAuthority, edit))
  \o When(AdditionalCreators(m, edit) # {},
          [type |-> "verifyCreators", creators |-> AdditionalCreators(m, edit)])
  \o VerifyNewCollection(edit)
=============================================================================
