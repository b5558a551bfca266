--------------------------- MODULE MCNftMetadata ---------------------------
(* An author and a curator, each with a collection of their own.            *)
EXTENDS NftMetadata, TLC

CONSTANTS author, curator, ka, kc, old, new, t1, t2

Identities == (author :> ka) @@ (curator :> kc)
Signers2   == (author :> {ka, kc}) @@ (curator :> {kc})
Owners     == (old :> ka) @@ (new :> kc)
Sizes      == (old :> 0) @@ (new :> Legacy)

AllCalls ==
  (author :> {"create", "update", "delete"})
  @@ (curator :> {"verifyCreator", "unverifyCreator", "verifyCollection",
              "unverifyCollection", "migrate", "approve", "revoke"})

Wish(creators, collection, key, sized, delegated) ==
  [text |-> t1, creators |-> creators, collection |-> collection,
   collectionAuthority |-> key, sized |-> sized, delegated |-> delegated]

SomeInputs == {Keep} \cup {(ka :> "given") @@ (kc :> s) : s \in {"given", "signing"}}

SomeWishes ==
  {Wish(i, NoCollection, NoKey, TRUE, FALSE) : i \in SomeInputs}
  \cup {Wish(i, old, k, TRUE, FALSE) : i \in SomeInputs, k \in {NoKey, ka}}

Edit(text, authority, creators, collection, key, sized, oldSized, delegated) ==
  [text |-> text, authority |-> authority, creators |-> creators,
   collection |-> collection, collectionAuthority |-> key, sized |-> sized,
   oldSized |-> oldSized, delegated |-> delegated]

SomeEdits ==
  {Edit(t2, a, Keep, Keep, NoKey, TRUE, TRUE, FALSE) : a \in {Keep, kc}}
  \cup {Edit(Keep, Keep, i, Keep, NoKey, TRUE, TRUE, FALSE) : i \in SomeInputs}
  \cup {Edit(Keep, Keep, Keep, NoCollection, NoKey, TRUE, TRUE, FALSE)}
  \cup {Edit(Keep, Keep, Keep, old, NoKey, TRUE, TRUE, FALSE)}
  \cup {Edit(Keep, Keep, Keep, old, ka, TRUE, s, FALSE) : s \in BOOLEAN}
  \cup {Edit(Keep, Keep, Keep, new, NoKey, TRUE, TRUE, FALSE)}
  \cup {Edit(Keep, Keep, Keep, new, ka, s, TRUE, TRUE) : s \in BOOLEAN}
  \cup {Edit(Keep, Keep, Keep, new, kc, s, TRUE, FALSE) : s \in BOOLEAN}
=============================================================================
