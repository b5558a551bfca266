-------------------------- MODULE SettingsBuilders --------------------------
(***************************************************************************)
(* The model of an auction house and the instructions of the builders that *)
(* create and update it and withdraw from its accounts.                    *)
(***************************************************************************)
EXTENDS SettingsProgram

CONSTANTS
  NoModel   \* AuctioneerAuthorityRequiredError

When(condition, instruction) == IF condition THEN <<instruction>> ELSE <<>>

Keep == Null  \* a parameter that the caller leaves out

Given(param, default) == IF param = Keep THEN default ELSE param

Models ==
  [authority : Keys, settings : Settings, feeTo : Keys, treasuryTo : Keys,
   auctioneer : Keys \cup {NoKey}, scopes : SUBSET Scopes]

ASSUME NoModelAssumption == NoModel \notin Models

\* findByAddress: takes the record of the auctioneer that its caller names, also if
\* the house has another one by now.
FindHouse(h, auctioneer) ==
  LET named == IF h.auctioneer = NoKey THEN NoKey ELSE auctioneer
  IN  IF h.auctioneer # NoKey /\ (auctioneer = NoKey \/ h.record[auctioneer] = NoScopes)
      THEN NoModel
      ELSE [authority |-> h.authority, settings |-> h.settings, feeTo |-> h.feeTo,
            treasuryTo |-> h.treasuryTo, auctioneer |-> named,
            scopes |-> IF named = NoKey THEN {} ELSE h.record[named]]

-----------------------------------------------------------------------------
(* Creating.                                                               *)

CreateInputs ==
  [sellerFee : Fees, requiresSignOff : BOOLEAN \cup {Keep},
   canChangeSalePrice : BOOLEAN \cup {Keep}, feeTo : Keys \cup {Keep},
   treasuryTo : Keys \cup {Keep}, auctioneer : Keys \cup {NoKey},
   scopes : {Keep} \cup SUBSET Scopes]

\* A house whose sale prices can change requires a sign-off unless told otherwise.
CreatedSettings(wanted) ==
  LET canChange == Given(wanted.canChangeSalePrice, FALSE)
  IN  [sellerFee |-> wanted.sellerFee, canChangeSalePrice |-> canChange,
       requiresSignOff |-> Given(wanted.requiresSignOff, canChange)]

\* An auctioneer takes the signature of the authority.
MayCreate(signer, wanted) == wanted.auctioneer = NoKey \/ signer = Creator

CreateInstructions(payer, wanted) ==
  <<[type |-> "create", settings |-> CreatedSettings(wanted),
     feeTo |-> Given(wanted.feeTo, payer), treasuryTo |-> Given(wanted.treasuryTo, payer)]>>
  \o When(wanted.auctioneer # NoKey,
          [type |-> "delegateAuctioneer", signer |-> Creator,
           auctioneer |-> wanted.auctioneer, scopes |-> Given(wanted.scopes, Scopes)])

-----------------------------------------------------------------------------
(* Updating.                                                               *)

\* A setting that is null is left out too.
UpdateInputs ==
  [settings : [sellerFee : {Keep} \cup Fees, requiresSignOff : {Keep} \cup BOOLEAN,
               canChangeSalePrice : {Keep} \cup BOOLEAN],
   authority : Keys \cup {Keep}, feeTo : Keys \cup {Keep}, treasuryTo : Keys \cup {Keep},
   auctioneer : Keys \cup {Keep}, scopes : {Keep} \cup SUBSET Scopes]

\* Mutant: sends all settings, those of the model for what is left out.
AllSettings(m, edit) ==
  [f \in DOMAIN m.settings |-> Given(edit.settings[f], m.settings[f])]

\* The instruction has null for what is left out.
SentSettings(m, edit) == edit.settings

\* Mutant: compares the settings only.
DataDiffersInSettings(m, edit) ==
  \E f \in DOMAIN m.settings : Given(edit.settings[f], m.settings[f]) # m.settings[f]

\* Whether anything differs from the model.
DataDiffers(m, edit) ==
  \/ \E f \in DOMAIN m.settings : Given(edit.settings[f], m.settings[f]) # m.settings[f]
  \/ Given(edit.authority, m.authority) # m.authority
  \/ Given(edit.feeTo, m.feeTo) # m.feeTo
  \/ Given(edit.treasuryTo, m.treasuryTo) # m.treasuryTo

ShouldDelegate(m, edit) == edit.auctioneer \notin {Keep, m.auctioneer}

\* Scopes alone need an auctioneer; a new auctioneer gets them twice.
ShouldUpdateScopes(m, edit) ==
  m.auctioneer # NoKey /\ Given(edit.scopes, m.scopes) # m.scopes

\* Mutant: a new auctioneer may do everything.
AllScopes(m) == Scopes

\* Those of the auctioneer that is replaced.
DefaultScopes(m) == IF m.auctioneer = NoKey THEN Scopes ELSE m.scopes

\* All signed by the authority, although the first may hand the house over.
UpdateInstructions(signer, m, edit) ==
  When(DataDiffers(m, edit),
       [type |-> "update", signer |-> signer, authority |-> Given(edit.authority, m.authority),
        feeTo |-> Given(edit.feeTo, m.feeTo),
        treasuryTo |-> Given(edit.treasuryTo, m.treasuryTo),
        settings |-> SentSettings(m, edit)])
  \o When(ShouldDelegate(m, edit),
          [type |-> "delegateAuctioneer", signer |-> signer, auctioneer |-> edit.auctioneer,
           scopes |-> Given(edit.scopes, DefaultScopes(m))])
  \o When(ShouldUpdateScopes(m, edit),
          [type |-> "updateAuctioneer", signer |-> signer,
           auctioneer |-> Given(edit.auctioneer, m.auctioneer),
           scopes |-> Given(edit.scopes, m.scopes)])

\* The auctioneer that the handler reads the house with.
NamedAuctioneer(m, edit) == Given(edit.auctioneer, m.auctioneer)

-----------------------------------------------------------------------------
(* Withdrawing.                                                            *)

WithdrawFeesInstructions(m) ==
  <<[type |-> "withdrawFees", signer |-> m.authority, to |-> m.feeTo]>>

WithdrawTreasuryInstructions(m) ==
  <<[type |-> "withdrawTreasury", signer |-> m.authority, to |-> m.treasuryTo]>>
=============================================================================
