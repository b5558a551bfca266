--------------------------- MODULE AuctionSettings ---------------------------
(***************************************************************************)
(* One auction house, and the clients that create it, change its settings, *)
(* its authority and its auctioneer, and withdraw from its accounts.       *)
(*                                                                         *)
(* The application signs with the keys of several of them.  An update and  *)
(* a withdrawal are built from the model it last fetched, which grows      *)
(* stale.  Building a transaction and its landing are two steps; it may    *)
(* land late or not at all.                                                *)
(***************************************************************************)
EXTENDS SettingsBuilders

CONSTANTS
  Clients,      \* the keys that clients sign with
  Calls,        \* the operations each client calls
  Wishes,       \* what callers of create ask for
  Edits,        \* what callers of update ask for
  NoAim,
  MaxInFlight   \* bound: transactions in the network

ASSUME ClientsAssumption ==
  /\ Clients \subseteq Keys
  /\ Wishes \subseteq CreateInputs /\ Edits \subseteq UpdateInputs
  /\ MaxInFlight \in Nat

VARIABLES
  house,
  model,     \* the AuctionHouse that the application holds
  network    \* the transactions sent and not yet landed

vars == <<house, model, network>>

Init ==
  /\ house = NoHouse
  /\ model = NoModel
  /\ network = {}

-----------------------------------------------------------------------------
\* A transaction keeps the model it was built from and what its caller asked for.
Send(c, op, instructions, aim) ==
  /\ op \in Calls[c]
  /\ Cardinality(network) < MaxInFlight
  /\ network' = network \cup {[by |-> c, op |-> op, instructions |-> instructions,
                             base |-> model, aim |-> aim]}
  /\ UNCHANGED <<house, model>>

\* findByAddress, also findByCreatorAndMint and the end of create and update.
Find(auctioneer) ==
  /\ house.exists
  /\ FindHouse(house, auctioneer) # NoModel
  /\ model' = FindHouse(house, auctioneer)
  /\ UNCHANGED <<house, network>>

\* ExpectedSignerError if it takes the signature of an authority that is an address.
Create(c, wanted) ==
  /\ MayCreate(c, wanted)
  /\ Send(c, "create", CreateInstructions(c, wanted), wanted)

\* NoInstructionsToSendError when the builder is empty.
Update(c, edit) ==
  /\ model # NoModel
  /\ UpdateInstructions(c, model, edit) # <<>>
  /\ Send(c, "update", UpdateInstructions(c, model, edit), edit)

\* The authority of the model has to sign, and the signer is the client.
WithdrawFromFeeAccount(c) ==
  /\ model # NoModel
  /\ model.authority = c
  /\ Send(c, "withdrawFees", WithdrawFeesInstructions(model), NoAim)

WithdrawFromTreasuryAccount(c) ==
  /\ model # NoModel
  /\ model.authority = c
  /\ Send(c, "withdrawTreasury", WithdrawTreasuryInstructions(model), NoAim)

-----------------------------------------------------------------------------
Outcome(t) == After(house, t.instructions)

Accepted(t) == Outcome(t) # Refused

Land(t) ==
  /\ network' = network \ {t}
  /\ house' = IF Accepted(t) THEN Outcome(t) ELSE house
  /\ UNCHANGED model

Expire(t) ==
  /\ network' = network \ {t}
  /\ UNCHANGED <<house, model>>

Next ==
  \/ \E k \in Keys \cup {NoKey} : Find(k)
  \/ \E c \in Clients :
       \/ \E wanted \in Wishes : Create(c, wanted)
       \/ \E edit \in Edits : Update(c, edit)
       \/ WithdrawFromFeeAccount(c)
       \/ WithdrawFromTreasuryAccount(c)
  \/ \E t \in network : Land(t) \/ Expire(t)

Spec == Init /\ [][Next]_vars

-----------------------------------------------------------------------------
TypeOK ==
  /\ house \in Houses
  /\ model \in Models \cup {NoModel}
  /\ \A t \in network :
       /\ t.by \in Clients /\ t.op \in Calls[t.by]
       /\ Len(t.instructions) \in 1 .. MaxInstructions

\* The model says what the accounts say, of the auctioneer the house has now.
Current(m) == m = FindHouse(house, house.auctioneer)

\* What was asked for, on top of what was there.
Updated(edit) ==
  [authority  |-> Given(edit.authority, house.authority),
   settings   |-> [f \in DOMAIN house.settings |->
                    Given(edit.settings[f], house.settings[f])],
   feeTo      |-> Given(edit.feeTo, house.feeTo),
   treasuryTo |-> Given(edit.treasuryTo, house.treasuryTo),
   auctioneer |-> Given(edit.auctioneer, house.auctioneer),
   scopes     |-> IF Given(edit.auctioneer, house.auctioneer) = NoKey THEN {}
                  ELSE Given(edit.scopes, IF house.auctioneer = NoKey THEN Scopes
                                          ELSE house.record[house.auctioneer])]

\* Hands the house over and changes its auctioneer at once.
HandsOver(edit) ==
  /\ Given(edit.authority, house.authority) # house.authority
  /\ Updated(edit).auctioneer # house.auctioneer
       \/ (house.auctioneer # NoKey
             /\ Updated(edit).scopes # house.record[house.auctioneer])

(* An update by the authority from a current model is accepted, does what  *)
(* was asked and nothing else, and the model its handler then reads says   *)
(* so: settings, authority and destinations that are not given stay, a     *)
(* first auctioneer gets all scopes and the next one those of the one he   *)
(* replaces.  An update that hands the house over and changes the          *)
(* auctioneer at once is always refused as a whole: what comes after the   *)
(* handover is still signed by the old authority.                          *)
FreshUpdateIsExact ==
  \A t \in network :
    t.op = "update" /\ Current(t.base) /\ t.by = house.authority =>
      IF HandsOver(t.aim) THEN ~Accepted(t)
      ELSE /\ Accepted(t)
           /\ FindHouse(Outcome(t), NamedAuctioneer(t.base, t.aim)) = Updated(t.aim)

(* An update from a stale model may bring back an old authority or old     *)
(* destinations, but never a setting: those its caller does not mention    *)
(* are as they were, whatever the model says of them.                      *)
StaleUpdateSparesSettings ==
  \A t \in network : t.op = "update" /\ Accepted(t) =>
    \A f \in DOMAIN house.settings :
      t.aim.settings[f] = Keep => Outcome(t).settings[f] = house.settings[f]

(* "No Instructions To Send" is only answered when there is nothing to do: *)
(* whatever a caller with a current model asks for, the house has it.      *)
NothingToSendIsNothingToDo ==
  \A c \in Clients, edit \in Edits :
    /\ house.exists /\ model # NoModel /\ Current(model)
    /\ UpdateInstructions(c, model, edit) = <<>>
    => Updated(edit) = FindHouse(house, house.auctioneer)
=============================================================================
