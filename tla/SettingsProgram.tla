--------------------------- MODULE SettingsProgram ---------------------------
(***************************************************************************)
(* The on-chain side of the settings of one auction house, which is not    *)
(* part of this repository: the accounts the SDK reads and the             *)
(* instructions its builders send.  Modelled from how the SDK uses it (the *)
(* builders and the integration tests).                                    *)
(*                                                                         *)
(* The house pays in SOL.  The record of an auctioneer, with its scopes,   *)
(* is an account of its own that outlives the auctioneer.                  *)
(***************************************************************************)
EXTENDS Integers, Sequences, FiniteSets

CONSTANTS
  Keys,       \* authorities, auctioneers and destinations
  NoKey,
  Creator,    \* the authority whose address the house is derived from
  Fees,       \* sale fees
  Scopes,     \* what an auctioneer may do
  NoScopes,   \* the record of somebody who never was an auctioneer
  Null,       \* a setting that an update leaves out
  Refused     \* the outcome of a transaction that fails

ASSUME SettingsAssumption ==
  /\ Creator \in Keys /\ NoKey \notin Keys
  /\ Fees # {}
  /\ \A s \in SUBSET Scopes : NoScopes # s /\ Null # s
  /\ Null \notin Keys /\ Null \notin Fees /\ Null \notin BOOLEAN

Settings == [sellerFee : Fees, requiresSignOff : BOOLEAN, canChangeSalePrice : BOOLEAN]

Houses ==
  [exists     : BOOLEAN,
   authority  : Keys,
   settings   : Settings,
   feeTo      : Keys,                               \* the withdrawal destinations
   treasuryTo : Keys,
   auctioneer : Keys \cup {NoKey},
   record     : [Keys -> {NoScopes} \cup SUBSET Scopes]]

NoHouse ==
  [exists |-> FALSE, authority |-> Creator, feeTo |-> Creator, treasuryTo |-> Creator,
   settings |-> [sellerFee |-> CHOOSE f \in Fees : TRUE, requiresSignOff |-> FALSE,
                 canChangeSalePrice |-> FALSE],
   auctioneer |-> NoKey, record |-> [k \in Keys |-> NoScopes]]

ASSUME RefusedAssumption == Refused \notin Houses

-----------------------------------------------------------------------------
\* The authority does not sign.
CreateHouse(h, i) ==
  IF ~h.exists
  THEN [h EXCEPT !.exists = TRUE, !.settings = i.settings, !.feeTo = i.feeTo,
                 !.treasuryTo = i.treasuryTo]
  ELSE Refused

By(h, key) == h.exists /\ h.authority = key

\* What is null stays; the authority and the destinations are always given.
UpdateHouse(h, i) ==
  IF By(h, i.signer)
  THEN [h EXCEPT !.authority = i.authority, !.feeTo = i.feeTo, !.treasuryTo = i.treasuryTo,
                 !.settings = [f \in DOMAIN @ |->
                                IF i.settings[f] = Null THEN @[f] ELSE i.settings[f]]]
  ELSE Refused

DelegateAuctioneer(h, i) ==
  IF By(h, i.signer)
  THEN [h EXCEPT !.auctioneer = i.auctioneer, !.record[i.auctioneer] = i.scopes]
  ELSE Refused

UpdateAuctioneer(h, i) ==
  IF By(h, i.signer) /\ h.auctioneer = i.auctioneer
  THEN [h EXCEPT !.record[i.auctioneer] = i.scopes]
  ELSE Refused

\* To the destination of the house.  What its accounts hold is left out.
WithdrawFees(h, i) == IF By(h, i.signer) /\ i.to = h.feeTo THEN h ELSE Refused

WithdrawTreasury(h, i) == IF By(h, i.signer) /\ i.to = h.treasuryTo THEN h ELSE Refused

Execute(h, i) ==
  CASE i.type = "create"             -> CreateHouse(h, i)
    [] i.type = "update"             -> UpdateHouse(h, i)
    [] i.type = "delegateAuctioneer" -> DelegateAuctioneer(h, i)
    [] i.type = "updateAuctioneer"   -> UpdateAuctioneer(h, i)
    [] i.type = "withdrawFees"       -> WithdrawFees(h, i)
    [] i.type = "withdrawTreasury"   -> WithdrawTreasury(h, i)

\* No builder puts more than three of these instructions in a transaction.
MaxInstructions == 3

Step(h, instructions, n) ==
  IF h = Refused \/ n > Len(instructions) THEN h ELSE Execute(h, instructions[n])

After(h, instructions) ==
  LET first  == Step(h, instructions, 1)
      second == Step(first, instructions, 2)
  IN  Step(second, instructions, MaxInstructions)
=============================================================================
