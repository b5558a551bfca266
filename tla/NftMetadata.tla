----------------------------- MODULE NftMetadata -----------------------------
(***************************************************************************)
(* One NFT, the collections it may belong to, and the clients that create, *)
(* update, verify, unverify and delete it.                                 *)
(*                                                                         *)
(* An update is built from the model its client last fetched, which grows  *)
(* stale as others verify or change the NFT.  Building a transaction and   *)
(* its landing are two steps.  A client does not wait for the answer of an *)
(* operation, or waits and gives up: its transaction may land or expire.   *)
(***************************************************************************)
EXTENDS NftMetadataBuilders

CONSTANTS
  Clients,
  Identity,     \* the key each client signs with
  Hands,        \* the keys each client has as a Signer, also to act as a delegate
  Calls,        \* the operations each client calls
  Wishes,       \* what callers of create ask for
  Edits,        \* what callers of update ask for
  Delegates,    \* the keys that callers approve and revoke
  Counts,       \* the sizes that callers of migrate provide
  MaxInFlight,  \* bound: transactions in the network
  NoModel, NoAim

ASSUME ClientsAssumption ==
  /\ Identity \in [Clients -> Keys]
  /\ Hands \in [Clients -> SUBSET Keys]
  /\ Wishes \subseteq CreateInputs /\ Edits \subseteq UpdateInputs
  /\ Delegates \subseteq Keys /\ Counts \subseteq 0 .. MaxSize
  /\ MaxInFlight \in Nat

VARIABLES
  ledger,
  created,   \* the mint has been used
  model,     \* the Nft or Sft each client holds
  network    \* the transactions sent and not yet landed

vars == <<ledger, created, model, network>>

Init ==
  /\ ledger = NoNft
  /\ created = FALSE
  /\ model = [c \in Clients |-> NoModel]
  /\ network = {}

-----------------------------------------------------------------------------
\* A transaction keeps the model it was built from and what its caller asked for.
Send(c, op, instructions, base, aim) ==
  /\ op \in Calls[c]
  /\ Cardinality(network) < MaxInFlight
  /\ network' = network \cup {[client |-> c, op |-> op, instructions |-> instructions,
                             base |-> base, aim |-> aim]}

\* findByMint, as a call, as refresh() or at the end of create.
Find(c) ==
  /\ "update" \in Calls[c]
  /\ ledger.exists
  /\ model' = [model EXCEPT ![c] = ToMetadata(ledger)]
  /\ UNCHANGED <<ledger, created, network>>

\* A caller only provides Signers that he has.
Provides(c, request) ==
  /\ request.collectionAuthority \in Hands[c] \cup {NoKey}
  /\ request.creators # Keep => Signing(request.creators) \subseteq Hands[c]

Create(c, wanted) ==
  /\ ~created
  /\ Provides(c, wanted)
  /\ Send(c, "create", CreateInstructions(Identity[c], wanted), NoModel, wanted)
  /\ created' = TRUE
  /\ UNCHANGED <<ledger, model>>

\* NoInstructionsToSendError when the builder is empty.
Update(c, edit) ==
  LET instructions == UpdateInstructions(model[c], Identity[c], edit)
  IN  /\ model[c] # NoModel
      /\ Provides(c, edit)
      /\ instructions # <<>>
      /\ Send(c, "update", instructions, model[c], edit)
      /\ UNCHANGED <<ledger, created, model>>

VerifyCreator(c, creator) ==
  /\ creator \in Hands[c]
  /\ Send(c, "verifyCreator", VerifyCreatorInstructions(creator), NoModel, NoAim)
  /\ UNCHANGED <<ledger, created, model>>

RemoveVerification(c, creator) ==
  /\ creator \in Hands[c]
  /\ Send(c, "unverifyCreator", UnverifyCreatorInstructions(creator), NoModel, NoAim)
  /\ UNCHANGED <<ledger, created, model>>

Verify(c, signer, collection, sized, delegated) ==
  /\ signer \in Hands[c]
  /\ Send(c, "verifyCollection",
          <<VerifyCollectionInstruction(signer, collection, sized, delegated)>>,
          NoModel, NoAim)
  /\ UNCHANGED <<ledger, created, model>>

Unverify(c, signer, collection, sized, delegated) ==
  /\ signer \in Hands[c]
  /\ Send(c, "unverifyCollection",
          <<UnverifyCollectionInstruction(signer, collection, sized, delegated)>>,
          NoModel, NoAim)
  /\ UNCHANGED <<ledger, created, model>>

Migrate(c, collection, size, delegated) ==
  /\ Send(c, "migrate", MigrateInstructions(Identity[c], collection, size, delegated),
          NoModel, NoAim)
  /\ UNCHANGED <<ledger, created, model>>

Approve(c, collection, key) ==
  /\ Send(c, "approve", ApproveCollectionAuthorityInstructions(Identity[c], collection, key),
          NoModel, NoAim)
  /\ UNCHANGED <<ledger, created, model>>

Revoke(c, collection, key) ==
  /\ Send(c, "revoke", RevokeCollectionAuthorityInstructions(Identity[c], collection, key),
          NoModel, NoAim)
  /\ UNCHANGED <<ledger, created, model>>

Delete(c, collection) ==
  /\ Send(c, "delete", DeleteInstructions(Identity[c], collection), NoModel, NoAim)
  /\ UNCHANGED <<ledger, created, model>>

-----------------------------------------------------------------------------
Outcome(t) == After(ledger, t.instructions)

Land(t) ==
  /\ network' = network \ {t}
  /\ ledger' = IF Outcome(t) = Refused THEN ledger ELSE Outcome(t)
  /\ UNCHANGED <<created, model>>

Expire(t) ==
  /\ network' = network \ {t}
  /\ UNCHANGED <<ledger, created, model>>

Next ==
  \/ \E c \in Clients :
       \/ Find(c)
       \/ \E wanted \in Wishes : Create(c, wanted)
       \/ \E edit \in Edits : Update(c, edit)
       \/ \E k \in Creators : VerifyCreator(c, k) \/ RemoveVerification(c, k)
       \/ \E col \in Collections, delegated \in BOOLEAN :
            \/ \E k \in Hands[c], sized \in BOOLEAN :
                 Verify(c, k, col, sized, delegated) \/ Unverify(c, k, col, sized, delegated)
            \/ \E size \in Counts : Migrate(c, col, size, delegated)
       \/ \E col \in Collections, k \in Delegates : Approve(c, col, k) \/ Revoke(c, col, k)
       \/ \E col \in Collections \cup {NoCollection} : Delete(c, col)
  \/ \E t \in network : Land(t) \/ Expire(t)

Spec == Init /\ [][Next]_vars

-----------------------------------------------------------------------------
TypeOK ==
  /\ ledger \in Ledgers
  /\ created \in BOOLEAN
  /\ model \in [Clients -> Models \cup {NoModel}]
  /\ \A t \in network :
       /\ t.client \in Clients /\ t.op \in Calls[t.client]
       /\ Len(t.instructions) \in 1 .. MaxInstructions
       /\ t.base \in Models \cup {NoModel}

Accepted(t) == Outcome(t) # Refused

\* Verified as creators: those who were, and those who sign.
CreatorsWanted(input, verified) ==
  [k \in Creators |->
    IF input[k] = "absent" THEN "absent"
    ELSE IF k \in verified \cup Signing(input) THEN "verified" ELSE "unverified"]

VerificationWanted(request) ==
  request.collection \in Collections /\ request.collectionAuthority # NoKey

(* An NFT that is created has all that was asked for in one transaction:   *)
(* the text, every creator who signs verified and no other ("For each      *)
(* creator, if an `authority` Signer is provided, the creator will be      *)
(* marked as verified", createNft.ts), and its collection verified exactly *)
(* if an authority of the collection signs.                                *)
CreateKeepsItsPromise ==
  \A t \in network : t.op = "create" /\ Accepted(t) =>
    LET owner == Identity[t.client]
    IN  /\ Outcome(t).text = t.aim.text
        /\ Outcome(t).creators =
             CreatorsWanted(Given(t.aim.creators, DefaultCreators(owner)), {owner})
        /\ Outcome(t).collection = t.aim.collection
        /\ Outcome(t).verified <=> VerificationWanted(t.aim)

-----------------------------------------------------------------------------
(* An update by the update authority from a model that says what the       *)
(* account says.                                                           *)
Fresh(t) ==
  /\ ledger.exists
  /\ t.base = ToMetadata(ledger) /\ Identity[t.client] = ledger.authority

\* The verified collection is changed or removed, or left aside by the caller.
LeavesCollection(t) == ledger.verified /\ t.aim.collection # ledger.collection

MayUnverify(t) ==
  /\ Identity[t.client] = CollectionOwner[ledger.collection]
  /\ t.aim.oldSized <=> ledger.size[ledger.collection] # Legacy
  /\ t.aim.oldSized => ledger.size[ledger.collection] > 0

MayVerify(t) ==
  LET c == t.aim.collection
  IN  /\ IF t.aim.delegated THEN t.aim.collectionAuthority \in ledger.delegates[c]
         ELSE t.aim.collectionAuthority = CollectionOwner[c]
      /\ t.aim.sized <=> ledger.size[c] # Legacy
      /\ t.aim.sized => ledger.size[c] < MaxSize

Signers(t) == IF t.aim.creators = Keep THEN {} ELSE Signing(t.aim.creators)

Verified(l) == {k \in Creators : l.creators[k] = "verified"}

CreatorsAfter(t) ==
  IF t.aim.creators = Keep THEN ledger.creators
  ELSE CreatorsWanted(t.aim.creators, Verified(ledger))

AsksNothing(t) ==
  /\ t.aim.text \in {Keep, ledger.text} /\ t.aim.authority = Keep
  /\ Signers(t) = {} /\ CreatorsAfter(t) = ledger.creators

\* A verified collection that is not mentioned lets nothing else be asked for.
Permitted(t) ==
  /\ LeavesCollection(t) => MayUnverify(t)
  /\ LeavesCollection(t) /\ t.aim.collection = Keep => AsksNothing(t)
  /\ VerificationWanted(t.aim) => MayVerify(t)

\* What is asked for and nothing else, but for a collection that is not mentioned.
DoneAsAsked(t) ==
  LET o == Outcome(t)
  IN  /\ o.text = Given(t.aim.text, ledger.text)
      /\ o.authority = Given(t.aim.authority, ledger.authority)
      /\ o.creators = CreatorsAfter(t)
      /\ o.collection = Given(t.aim.collection, ledger.collection)
      /\ o.verified <=> VerificationWanted(t.aim)

\* What is asked for, what there is or what the model has.
NothingMadeUp(t) ==
  LET o == Outcome(t)
  IN  /\ o.text \in {Given(t.aim.text, t.base.text), ledger.text}
      /\ o.collection \in {Given(t.aim.collection, t.base.collection), ledger.collection}
      /\ \A k \in Creators \ (Signers(t) \cup {ledger.authority}) :
           o.creators[k] # "absent" =>
             (o.creators[k] = "verified" <=> ledger.creators[k] = "verified")

(* An update from a current model is accepted exactly when the authorities *)
(* it takes are there, and does what was asked and nothing else: what the  *)
(* caller does not mention stays, creators stay verified or become so if   *)
(* they sign, and the collection ends as the one asked for, verified if    *)
(* its authority signs.  The exception is a verified collection that is    *)
(* not mentioned: the update unverifies it if it asks for nothing, and is  *)
(* refused as a whole if it asks for anything.                             *)
(* An update from a stale model may put back what the model has, but       *)
(* neither verifies nor unverifies a creator who does not sign, apart from *)
(* the update authority, who signs every update.                           *)
UpdateIsExact ==
  \A t \in network : t.op = "update" =>
    /\ Fresh(t) => (Accepted(t) <=> Permitted(t))
    /\ Accepted(t) => IF Fresh(t) THEN DoneAsAsked(t) ELSE NothingMadeUp(t)

Members(l, c) == IF l.verified /\ l.collection = c THEN 1 ELSE 0

\* An NFT that a collection goes on counting: the model of the update does not
\* have it verified, or in the collection that is asked for, or there is no count left.
StillCounted(t, c) ==
  IF /\ Members(ledger, c) = 1
     /\ \/ /\ t.op = "update"
           /\ t.base.verified => t.aim.collection = t.base.collection
        \/ t.op = "delete" /\ ledger.size[c] = 0
  THEN 1 ELSE 0

(* The size of a sized collection follows its verified NFTs through every  *)
(* operation, a deletion and an update that moves an NFT from one          *)
(* collection to the other included.  An update loses count of an NFT only *)
(* when its model does not know that the NFT is verified, or when it asks  *)
(* for the collection the NFT is verified in, and then by one.             *)
SizeFollowsMembers ==
  \A t \in network : Accepted(t) => \A c \in Collections :
    \/ ledger.size[c] = Legacy
    \/ Outcome(t).size[c] - ledger.size[c]
         = Members(Outcome(t), c) - Members(ledger, c) + StillCounted(t, c)

(* "The new Collection NFT that this asset belongs to. [...] @defaultValue *)
(* Defaults to not being updated." (updateNft.ts:158-163): an update that  *)
(* does not mention the collection leaves it verified.  It does not: when  *)
(* nothing else is asked for, unverifying is all that is sent.             *)
UnmentionedCollectionStays ==
  \A t \in network :
    t.op = "update" /\ Fresh(t) /\ t.aim.collection = Keep /\ Accepted(t) =>
      Outcome(t).collection = ledger.collection /\ Outcome(t).verified = ledger.verified
=============================================================================
