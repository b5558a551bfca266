--------------------------- MODULE EditionProgram ---------------------------
(***************************************************************************)
(* The on-chain side of what makes the mint of TokenProgram an NFT: its    *)
(* metadata with the number of its uses, its master edition and the prints *)
(* of it.  Not part of this repository, modelled from how the SDK uses it. *)
(* The metadata itself is that of NftMetadataProgram.                      *)
(***************************************************************************)
EXTENDS TokenProgram

CONSTANTS
  MaxUses,    \* the uses of an NFT when it is created
  MaxPrints   \* bound: prints of an NFT

ASSUME EditionAssumption == MaxUses \in Nat /\ MaxPrints \in Nat

Prints == [number : 1 .. MaxPrints, owner : Wallets]

\* The accounts with these amounts of tokens and these numbers of uses.
LedgersOf(amounts, counts) ==
  [mint            : BOOLEAN,
   mintAuthority   : Wallets \cup {NoKey, Edition},
   freezeAuthority : Wallets \cup {NoKey, Edition},
   supply          : amounts,
   token           : [Accounts -> TokensOf(amounts)],
   metadata        : BOOLEAN,
   uses            : counts,                 \* those that remain
   mayUse          : [Wallets -> amounts],   \* use authority records
   edition         : BOOLEAN,                \* the master edition
   max             : 0 .. MaxPrints,         \* its maxSupply
   prints          : SUBSET Prints]

Ledgers == LedgersOf(0 .. MaxSupply, 0 .. MaxUses)

ASSUME RefusedAssumption == Refused \notin LedgersOf(Int, Int)

NoAsset ==
  [mint |-> FALSE, mintAuthority |-> NoKey, freezeAuthority |-> NoKey, supply |-> 0,
   token |-> [a \in Accounts |-> NoToken], metadata |-> FALSE, uses |-> 0,
   mayUse |-> [w \in Wallets |-> 0], edition |-> FALSE, max |-> 0, prints |-> {}]

-----------------------------------------------------------------------------
CreateMetadata(l, i) ==
  IF l.mint /\ ~l.metadata /\ i.signer = l.mintAuthority
  THEN [l EXCEPT !.metadata = TRUE, !.uses = MaxUses] ELSE Refused

\* Takes the mint, of which there has to be one token, for good.
CreateMasterEdition(l, i) ==
  IF l.metadata /\ i.signer = l.mintAuthority /\ l.supply = 1
  THEN [l EXCEPT !.edition = TRUE, !.max = i.max, !.mintAuthority = Edition,
                 !.freezeAuthority = Edition]
  ELSE Refused

Holds(l, wallet, account) ==
  l.token[account].exists /\ Owner[account] = wallet /\ l.token[account].amount = 1

\* Each number has an edition marker.
PrintEdition(l, i) ==
  IF /\ l.edition /\ Holds(l, i.signer, i.account)
     /\ i.number \in 1 .. l.max /\ \A p \in l.prints : p.number # i.number
  THEN [l EXCEPT !.prints = @ \cup {[number |-> i.number, owner |-> i.owner]}]
  ELSE Refused

\* The edition is the freeze authority and lets the delegate use it.
FreezeDelegated(l, i) ==
  IF l.edition /\ Usable(l, i.account) /\ i.signer = l.token[i.account].delegate
  THEN [l EXCEPT !.token[i.account].frozen = TRUE] ELSE Refused

ThawDelegated(l, i) ==
  IF l.edition /\ l.token[i.account].frozen /\ i.signer = l.token[i.account].delegate
  THEN [l EXCEPT !.token[i.account].frozen = FALSE] ELSE Refused

\* By the owner, or by a user with a record in the name of the NFT.
Utilize(l, i) ==
  IF /\ l.metadata /\ Holds(l, i.owner, i.account) /\ i.count <= l.uses
     /\ IF i.delegated THEN i.count <= l.mayUse[i.signer] ELSE i.signer = i.owner
  THEN [l EXCEPT !.uses = @ - i.count,
                 !.mayUse[i.signer] = IF i.delegated THEN @ - i.count ELSE @]
  ELSE Refused

ApproveUse(l, i) ==
  IF l.metadata /\ Holds(l, i.signer, i.account) /\ l.mayUse[i.user] = 0
  THEN [l EXCEPT !.mayUse[i.user] = i.count] ELSE Refused

RevokeUse(l, i) ==
  IF l.metadata /\ Holds(l, i.signer, i.account) /\ l.mayUse[i.user] > 0
  THEN [l EXCEPT !.mayUse[i.user] = 0] ELSE Refused

\* The mint account stays, with nothing left.
BurnNft(l, i) ==
  IF /\ l.edition /\ l.prints = {}
     /\ Holds(l, i.signer, i.account) /\ Usable(l, i.account)
  THEN [l EXCEPT !.metadata = FALSE, !.edition = FALSE, !.supply = 0,
                 !.token[i.account] = NoToken]
  ELSE Refused

Execute(l, i) ==
  CASE i.type = "initializeMint" -> InitializeMint(l, i)
    [] i.type = "createToken"    -> CreateTokenAccount(l, i)
    [] i.type = "mintTo"         -> MintTo(l, i)
    [] i.type = "transfer"       -> Transfer(l, i)
    [] i.type = "approve"        -> Approve(l, i)
    [] i.type = "revoke"         -> Revoke(l, i)
    [] i.type = "freeze"         -> Freeze(l, i)
    [] i.type = "thaw"           -> Thaw(l, i)
    [] i.type = "createMetadata" -> CreateMetadata(l, i)
    [] i.type = "createMasterEdition" -> CreateMasterEdition(l, i)
    [] i.type = "print"          -> PrintEdition(l, i)
    [] i.type = "freezeDelegated" -> FreezeDelegated(l, i)
    [] i.type = "thawDelegated"  -> ThawDelegated(l, i)
    [] i.type = "utilize"        -> Utilize(l, i)
    [] i.type = "approveUse"     -> ApproveUse(l, i)
    [] i.type = "revokeUse"      -> RevokeUse(l, i)
    [] i.type = "burnNft"        -> BurnNft(l, i)

\* No builder puts more than five of these instructions in a transaction.
MaxInstructions == 5

Step(l, instructions, n) ==
  IF l = Refused \/ n > Len(instructions) THEN l ELSE Execute(l, instructions[n])

After(l, instructions) ==
  LET first  == Step(l, instructions, 1)
      second == Step(first, instructions, 2)
      third  == Step(second, instructions, 3)
      fourth == Step(third, instructions, 4)
  IN  Step(fourth, instructions, MaxInstructions)
=============================================================================
