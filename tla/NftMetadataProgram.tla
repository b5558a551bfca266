------------------------- MODULE NftMetadataProgram -------------------------
(***************************************************************************)
(* The on-chain side of the metadata of one NFT and of the collections it  *)
(* may belong to, which is not part of this repository: the accounts the   *)
(* SDK reads and the instructions its builders send.  Modelled from how    *)
(* the SDK uses it (the builders and the integration tests).               *)
(*                                                                         *)
(* A creator verifies himself, an authority of the collection verifies the *)
(* collection of the NFT, and the update authority changes the rest.  A    *)
(* sized collection counts the NFTs that are verified in it, a legacy one  *)
(* does not.                                                               *)
(***************************************************************************)
EXTENDS Integers, Sequences, FiniteSets

CONSTANTS
  Keys,             \* update authorities, creators, collection authorities
  NoKey,            \* the authority of an account that does not exist
  Texts,            \* the values of name, symbol, uri, royalties and uses
  NoText,
  Creators,         \* the keys that can be creators of the NFT
  Holder,           \* the wallet that holds the NFT
  Collections,
  NoCollection,
  CollectionOwner,  \* the update authority of each collection NFT
  FirstSize,        \* the size of each collection at first, or Legacy
  Legacy,           \* the "size" of a collection that is not sized
  MaxSize,          \* bound: a larger collection is full
  Refused           \* the outcome of a transaction that fails

ASSUME KeysAssumption ==
  /\ NoKey \notin Keys
  /\ Creators \subseteq Keys
  /\ Holder \in Keys
ASSUME CollectionsAssumption ==
  /\ MaxSize \in Nat /\ Legacy \notin Nat
  /\ NoCollection \notin Collections
  /\ CollectionOwner \in [Collections -> Keys]
  /\ FirstSize \in [Collections -> (0 .. MaxSize) \cup {Legacy}]

CreatorStates == {"absent", "unverified", "verified"}

Ledgers ==
  [exists     : BOOLEAN,
   text       : Texts \cup {NoText},
   authority  : Keys \cup {NoKey},
   creators   : [Creators -> CreatorStates],
   collection : Collections \cup {NoCollection},
   verified   : BOOLEAN,                           \* the collection of the NFT
   size       : [Collections -> (0 .. MaxSize) \cup {Legacy}],
   delegates  : [Collections -> SUBSET Keys]]      \* collection authority records

ASSUME RefusedAssumption == Refused \notin Ledgers

NoNft ==
  [exists |-> FALSE, text |-> NoText, authority |-> NoKey,
   creators |-> [k \in Creators |-> "absent"], collection |-> NoCollection,
   verified |-> FALSE, size |-> FirstSize, delegates |-> [c \in Collections |-> {}]]

-----------------------------------------------------------------------------
\* The update authority signs, so it may be verified as a creator at once.
CreateMetadata(l, i) ==
  IF ~l.exists
  THEN [l EXCEPT !.exists = TRUE, !.text = i.text, !.authority = i.signer,
                 !.creators = i.creators, !.collection = i.collection, !.verified = FALSE]
  ELSE Refused

\* Nobody but the update authority is verified, or unverified, by an update.
CreatorsMayBecome(l, creators) ==
  \A k \in Creators \ {l.authority} :
    creators[k] # "absent" => (creators[k] = "verified" <=> l.creators[k] = "verified")

\* A collection is never verified by an update, and a verified one not removed.
CollectionMayBecome(l, collection, verified) ==
  /\ verified => l.verified /\ collection = l.collection
  /\ collection = NoCollection => ~l.verified

UpdateMetadata(l, i) ==
  IF /\ l.exists /\ i.signer = l.authority
     /\ CreatorsMayBecome(l, i.creators)
     /\ CollectionMayBecome(l, i.collection, i.verified)
  THEN [l EXCEPT !.text = i.text, !.authority = i.authority, !.creators = i.creators,
                 !.collection = i.collection, !.verified = i.verified]
  ELSE Refused

VerifyCreators(l, i) ==
  IF l.exists /\ \A k \in i.creators : l.creators[k] # "absent"
  THEN [l EXCEPT !.creators =
         [k \in Creators |-> IF k \in i.creators THEN "verified" ELSE @[k]]]
  ELSE Refused

UnverifyCreator(l, i) ==
  IF l.exists /\ l.creators[i.creator] # "absent"
  THEN [l EXCEPT !.creators[i.creator] = "unverified"]
  ELSE Refused

\* A delegate is found by its record, which has to be named.
Authorized(l, i) ==
  IF i.delegated THEN i.signer \in l.delegates[i.collection]
  ELSE i.signer = CollectionOwner[i.collection]

RightKind(l, i) == i.sized <=> l.size[i.collection] # Legacy

Resized(l, c, by) == [l.size EXCEPT ![c] = IF @ = Legacy THEN @ ELSE @ + by]

VerifyCollection(l, i) ==
  IF /\ l.exists /\ l.collection = i.collection
     /\ Authorized(l, i) /\ RightKind(l, i)
     /\ i.sized => ~l.verified /\ l.size[i.collection] < MaxSize
  THEN [l EXCEPT !.verified = TRUE, !.size = Resized(l, i.collection, 1)]
  ELSE Refused

UnverifyCollection(l, i) ==
  IF /\ l.exists /\ l.collection = i.collection
     /\ Authorized(l, i) /\ RightKind(l, i)
     /\ i.sized => l.verified /\ l.size[i.collection] > 0
  THEN [l EXCEPT !.verified = FALSE, !.size = Resized(l, i.collection, -1)]
  ELSE Refused

SetCollectionSize(l, i) ==
  IF Authorized(l, i) /\ l.size[i.collection] = Legacy
  THEN [l EXCEPT !.size[i.collection] = i.size]
  ELSE Refused

ApproveCollectionAuthority(l, i) ==
  IF i.signer = CollectionOwner[i.collection] /\ i.key \notin l.delegates[i.collection]
  THEN [l EXCEPT !.delegates[i.collection] = @ \cup {i.key}]
  ELSE Refused

\* A delegate may also give up his own record.
RevokeCollectionAuthority(l, i) ==
  IF /\ i.signer \in {CollectionOwner[i.collection], i.key}
     /\ i.key \in l.delegates[i.collection]
  THEN [l EXCEPT !.delegates[i.collection] = @ \ {i.key}]
  ELSE Refused

\* A verified NFT is only burned together with its place in the collection.
BurnNft(l, i) ==
  IF /\ l.exists /\ i.signer = Holder
     /\ l.verified => i.collection = l.collection
  THEN [NoNft EXCEPT !.delegates = l.delegates,
                     !.size = IF l.verified /\ l.size[l.collection] # 0
                              THEN Resized(l, l.collection, -1) ELSE l.size]
  ELSE Refused

Execute(l, i) ==
  CASE i.type = "createMetadata"     -> CreateMetadata(l, i)
    [] i.type = "updateMetadata"     -> UpdateMetadata(l, i)
    [] i.type = "verifyCreators"     -> VerifyCreators(l, i)
    [] i.type = "unverifyCreator"    -> UnverifyCreator(l, i)
    [] i.type = "verifyCollection"   -> VerifyCollection(l, i)
    [] i.type = "unverifyCollection" -> UnverifyCollection(l, i)
    [] i.type = "setCollectionSize"  -> SetCollectionSize(l, i)
    [] i.type = "approveCollectionAuthority" -> ApproveCollectionAuthority(l, i)
    [] i.type = "revokeCollectionAuthority"  -> RevokeCollectionAuthority(l, i)
    [] i.type = "burnNft"            -> BurnNft(l, i)

\* No builder puts more than four of these instructions in a transaction.
MaxInstructions == 4

Step(l, instructions, n) ==
  IF l = Refused \/ n > Len(instructions) THEN l ELSE Execute(l, instructions[n])

After(l, instructions) ==
  LET first  == Step(l, instructions, 1)
      second == Step(first, instructions, 2)
      third  == Step(second, instructions, 3)
  IN  Step(third, instructions, MaxInstructions)
=============================================================================
