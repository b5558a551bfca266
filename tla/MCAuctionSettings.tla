-------------------------- MODULE MCAuctionSettings --------------------------
(* The creator of a house and the partner he hands it to.                   *)
EXTENDS AuctionSettings, TLC

CONSTANTS creator, partner, list, sell

AllCalls ==
  (creator :> {"create", "update", "withdrawFees"})
  @@ (partner :> {"create", "update", "withdrawTreasury"})

Wish(signOff, canChange, to, auctioneer, scopes) ==
  [sellerFee |-> 1, requiresSignOff |-> signOff, canChangeSalePrice |-> canChange,
   feeTo |-> to, treasuryTo |-> Keep, auctioneer |-> auctioneer, scopes |-> scopes]

SomeWishes ==
  {Wish(FALSE, Keep, Keep, NoKey, Keep), Wish(Keep, TRUE, partner, partner, {list})}

Edit(settings, authority, feeTo, treasuryTo, auctioneer, scopes) ==
  [settings |-> settings, authority |-> authority, feeTo |-> feeTo,
   treasuryTo |-> treasuryTo, auctioneer |-> auctioneer, scopes |-> scopes]

Set(fee, canChange) ==
  [sellerFee |-> fee, requiresSignOff |-> Keep, canChangeSalePrice |-> canChange]

None == Set(Keep, Keep)

SomeEdits ==
  {Edit(s, Keep, Keep, Keep, Keep, Keep) :
     s \in {Set(2, Keep), Set(1, FALSE)}}
  \cup {Edit(None, partner, Keep, Keep, k, Keep) : k \in {Keep, partner}}
  \cup {Edit(None, Keep, partner, partner, Keep, Keep)}
  \cup {Edit(None, Keep, Keep, Keep, k, s) :
          k \in {Keep, creator, partner}, s \in {Keep, {list}}}
=============================================================================
