---------------------------- MODULE CandyMachine ----------------------------
(***************************************************************************)
(* One candy machine on chain and the clients of the SDK that create, load, *)
(* update, mint from and delete it.                                        *)
(*                                                                         *)
(* A client works from the CandyMachine model it last fetched, which grows *)
(* stale as others change the account.  Building a transaction and its     *)
(* landing are two steps, so anything may happen in between; and a client  *)
(* may hear of an error although its transaction lands later.              *)
(***************************************************************************)
EXTENDS CandyMachineBuilders

CONSTANTS
  Clients,
  Identity,      \* the key each client signs with
  Calls,         \* the operations each client calls
  Settings,      \* <<config, hidden>> a candy machine is created with
  Edits,         \* the partial settings that callers of update provide
  Owners,        \* the keys that callers choose as authority
  CustomIndex,   \* callers of insertItems may choose the index
  MaxItems,      \* bound: items in one insertItems
  MaxInFlight,   \* bound: transactions in the network
  MaxAlike,      \* bound: those of one operation
  NoModel, NoAim, NoTx

Operations == {"create", "insert", "update", "delete", "mint"}

ASSUME ClientsAssumption ==
  /\ Identity \in [Clients -> Keys]
  /\ Owners \subseteq Keys
  /\ CustomIndex \in BOOLEAN
  /\ MaxItems \in Nat /\ MaxInFlight \in Nat /\ MaxAlike \in [Operations -> Nat]
ASSUME SettingsAssumption ==
  /\ Settings \subseteq Configs \X BOOLEAN
  /\ \A edit \in Edits, config \in Configs : Merged(config, edit) \in Configs

VARIABLES
  ledger,    \* the accounts of the candy machine
  created,   \* its address has been used
  model,     \* the CandyMachine each client holds
  network,   \* the transactions sent and not yet landed
  call       \* the operation each client is in, and how far it is

vars == <<ledger, created, model, network, call>>

CallSteps  == {"idle", "waiting", "fetching", "answered"}

Idle == [step |-> "idle", tx |-> NoTx]
Done == [step |-> "answered", tx |-> NoTx]

Init ==
  /\ ledger = NoAccount
  /\ created = FALSE
  /\ model = [c \in Clients |-> NoModel]
  /\ network = {}
  /\ call = [c \in Clients |-> Idle]

-----------------------------------------------------------------------------
\* A call that ends in an error leaves its client idle.
Free(c) == call[c].step \notin {"waiting", "fetching"}

\* A transaction keeps the model it was built from and what its caller asked for.
Send(c, op, instructions, base, aim) ==
  LET tx == [client |-> c, op |-> op, instructions |-> instructions,
             base |-> base, aim |-> aim]
  IN  /\ Cardinality(network) < MaxInFlight
      /\ Cardinality({t \in network : t.op = op}) < MaxAlike[op]
      /\ network' = network \cup {tx}
      /\ call' = [call EXCEPT ![c] = [step |-> "waiting", tx |-> tx]]

MayCall(c, op) == Free(c) /\ op \in Calls[c] /\ model[c] # NoModel

\* findByAddress and refresh: one request for both accounts.
Find(c) ==
  /\ Free(c)
  /\ ledger.exists
  /\ model' = [model EXCEPT ![c] = ToCandyMachine(ledger)]
  /\ UNCHANGED <<ledger, created, network, call>>

\* Only the authority itself can set a collection in the same transaction.
Create(c, settings, authority, collection) ==
  /\ Free(c)
  /\ "create" \in Calls[c]
  /\ ~created
  /\ collection # NoMint => authority = Identity[c]
  /\ created' = TRUE
  /\ Send(c, "create",
          CreateInstructions(authority, settings[1], settings[2], collection),
          NoModel, NoAim)
  /\ UNCHANGED <<ledger, model>>

\* Mutant: the index defaults to the number of items minted.
DefaultIndexMinted(m) == m.minted

DefaultIndex(m) == m.loaded

Insert(c, index, items) ==
  /\ MayCall(c, "insert")
  /\ CustomIndex \/ index = DefaultIndex(model[c])
  /\ NotFull(model[c])
  /\ CanAdd(model[c], index, Len(items))
  /\ Send(c, "insert", InsertItems(Identity[c], index, items), model[c], NoAim)
  /\ UNCHANGED <<ledger, created, model>>

\* Mutant: sends a transaction even when the builder is empty.
UpdateEvenEmpty(c, edit, newCollection, newAuthority) ==
  /\ MayCall(c, "update")
  /\ Send(c, "update",
          UpdateInstructions(model[c], Identity[c], edit, newCollection, newAuthority),
          model[c],
          [edit |-> edit, collection |-> newCollection, authority |-> newAuthority])
  /\ UNCHANGED <<ledger, created, model>>

\* NoInstructionsToSendError when the builder is empty.
Update(c, edit, newCollection, newAuthority) ==
  LET instructions ==
        UpdateInstructions(model[c], Identity[c], edit, newCollection, newAuthority)
  IN  /\ MayCall(c, "update")
      /\ instructions # <<>>
      /\ Send(c, "update", instructions, model[c],
              [edit |-> edit, collection |-> newCollection, authority |-> newAuthority])
      /\ UNCHANGED <<ledger, created, model>>

Delete(c) ==
  /\ MayCall(c, "delete")
  /\ Send(c, "delete", DeleteInstructions(model[c], Identity[c]), model[c], NoAim)
  /\ UNCHANGED <<ledger, created, model>>

Used(nft) ==
  \/ \E n \in ledger.nfts : n.mint = nft
  \/ \E t \in network : t.op = "mint" /\ t.aim.nft = nft

\* Checks, reads the collection PDA, then sends.  The NFT is a new Keypair, and
\* the clock of the client is that of the cluster.
Mint(c, nft) ==
  /\ MayCall(c, "mint")
  /\ ~Used(nft)
  /\ CanMint(model[c], Identity[c], ledger.clock)
  /\ Send(c, "mint",
          MintInstructions(model[c], Identity[c], nft, ledger.collection),
          model[c], [nft |-> nft, seen |-> ledger.collection])
  /\ UNCHANGED <<ledger, created, model>>

-----------------------------------------------------------------------------
(* The network and the answers.                                            *)

Outcome(t) == After(ledger, t.instructions)

Waits(t) == call[t.client].step = "waiting" /\ call[t.client].tx = t

\* create and mint fetch what they made once their transaction is confirmed.
Answered(t, outcome) ==
  IF outcome = Refused THEN Idle
  ELSE IF t.op \in {"create", "mint"} THEN [step |-> "fetching", tx |-> t]
  ELSE Done

Land(t) ==
  /\ t \in network
  /\ network' = network \ {t}
  /\ ledger' = IF Outcome(t) = Refused THEN ledger ELSE Outcome(t)
  /\ call' = IF Waits(t) THEN [call EXCEPT ![t.client] = Answered(t, Outcome(t))] ELSE call
  /\ UNCHANGED <<created, model>>

\* The blockhash of the transaction expires.
Expire(t) ==
  /\ t \in network
  /\ network' = network \ {t}
  /\ call' = IF Waits(t) THEN [call EXCEPT ![t.client] = Idle] ELSE call
  /\ UNCHANGED <<ledger, created, model>>

\* Sending or confirming fails, or times out, although the transaction may still land.
GiveUp(c) ==
  /\ call[c].step \in {"waiting", "fetching"}
  /\ call' = [call EXCEPT ![c] = Idle]
  /\ UNCHANGED <<ledger, created, model, network>>

FetchCreated(c) ==
  /\ call[c].step = "fetching" /\ call[c].tx.op = "create"
  /\ ledger.exists
  /\ model' = [model EXCEPT ![c] = ToCandyMachine(ledger)]
  /\ call' = [call EXCEPT ![c] = Done]
  /\ UNCHANGED <<ledger, created, network>>

Found(nft) == \E n \in ledger.nfts : n.mint = nft

\* A missing NFT, like any other error of findByMint, is a CandyMachineBotTaxError.
FetchMinted(c) ==
  /\ call[c].step = "fetching" /\ call[c].tx.op = "mint"
  /\ call' = [call EXCEPT ![c] =
       IF Found(call[c].tx.aim.nft) THEN Done ELSE Idle]
  /\ UNCHANGED <<ledger, created, model, network>>

Tick ==
  /\ ledger.clock < MaxNumber
  /\ ledger' = [ledger EXCEPT !.clock = @ + 1]
  /\ UNCHANGED <<created, model, network, call>>

-----------------------------------------------------------------------------
ItemLists == UNION {[1 .. n -> Items] : n \in 1 .. MaxItems}

Next ==
  \/ \E c \in Clients :
       \/ Find(c)
       \/ \E s \in Settings, a \in Owners \cup {Identity[c]}, m \in Mints \cup {NoMint} :
            Create(c, s, a, m)
       \/ \E index \in Slots, items \in ItemLists : Insert(c, index, items)
       \/ \E e \in Edits, m \in Mints \cup {NoMint, Unchanged}, a \in Owners \cup {Unchanged} :
            Update(c, e, m, a)
       \/ Delete(c)
       \/ \E nft \in Nfts : Mint(c, nft)
       \/ GiveUp(c)
       \/ FetchCreated(c)
       \/ FetchMinted(c)
  \/ \E t \in network : Land(t) \/ Expire(t)
  \/ Tick

Spec == Init /\ [][Next]_vars

-----------------------------------------------------------------------------
Sent(op) == {t \in network : t.op = op /\ Outcome(t) # Refused}

TypeOK ==
  /\ ledger \in Ledgers
  /\ created \in BOOLEAN
  /\ model \in [Clients -> Models \cup {NoModel}]
  /\ \A t \in network :
       /\ t.client \in Clients /\ t.op \in Operations
       /\ Len(t.instructions) \in 1 .. MaxInstructions
       /\ t.base \in Models \cup {NoModel}
  /\ \A c \in Clients :
       /\ call[c].step \in CallSteps
       /\ call[c].step \in {"waiting", "fetching"} => call[c].tx.client = c
       /\ call[c].step = "fetching" => call[c].tx.op \in {"create", "mint"}

(* However stale the model a client inserts from, and however late its     *)
(* transaction lands, inserting at the default index leaves no gap: the    *)
(* first itemsLoaded lines are exactly the written ones, which is what     *)
(* parseCandyMachineItems reads.                                           *)
LinesHaveNoGap == \A k \in Slots : ledger.lines[k] # NoItem <=> k < ledger.loaded

(* "Items are simply appended to the current items"                        *)
(* (insertItemsToCandyMachine.ts:92-93), where current are the items of    *)
(* the model: an insert at the default index writes again only lines that  *)
(* were loaded since its model was read, and so none at all if that model  *)
(* knows every loaded item.                                                *)
AppendsOverwriteNothing ==
  \A t \in Sent("insert") : t.instructions[1].index = DefaultIndex(t.base) =>
    \A k \in Written(t.instructions[1]) :
      ledger.lines[k] # NoItem => k \in t.base.loaded .. ledger.loaded - 1

-----------------------------------------------------------------------------
(* What the caller of update asks for, applied to the accounts.            *)
Asked(new, old) == IF new = Unchanged THEN old ELSE new

Intended(aim) ==
  [ledger EXCEPT !.config = Merged(@, aim.edit),
                 !.collection = Asked(aim.collection, @),
                 !.authority = Asked(aim.authority, @)]

(* The model has the current settings, collection and authority; items     *)
(* loaded or minted since then do not matter.                              *)
UpToDate(m) ==
  /\ ledger.exists
  /\ m.config = ledger.config
  /\ m.collection = ledger.collection
  /\ m.authority = ledger.authority

\* The number of lines of an account that has some is fixed.
KeepsRoom(edit) ==
  ledger.hidden \/ Merged(ledger.config, edit).available = ledger.config.available

(* What an update from any model may do: the settings are those of its     *)
(* model with those asked for, which puts back what others changed, or     *)
(* stay as they are; the collection is set as asked for, or stays if the   *)
(* model has that one; the rest is as it should be.                        *)
RevertsAtMost(t) ==
  /\ Outcome(t).config \in {Merged(t.base.config, t.aim.edit), ledger.config}
  /\ Outcome(t).collection \in {Intended(t.aim).collection, ledger.collection}
  /\ Outcome(t) = [Intended(t.aim) EXCEPT !.config = Outcome(t).config,
                                          !.collection = Outcome(t).collection]

(* An update by the authority, from an up-to-date model, is accepted and   *)
(* does all of what was asked and nothing else, also when it changes the   *)
(* settings, the collection and the authority at once.  An update from an  *)
(* outdated model that is accepted may revert settings, but never brings   *)
(* back a collection or an authority that others have replaced.            *)
UpdateIsExact ==
  \A t \in network : t.op = "update" =>
    /\ UpToDate(t.base) /\ Identity[t.client] = ledger.authority /\ KeepsRoom(t.aim.edit)
         => Outcome(t) = Intended(t.aim)
    /\ Outcome(t) # Refused => RevertsAtMost(t)

(* A delete by the authority is accepted and closes the collection PDA,    *)
(* whose rent would be lost otherwise, unless the model from which it was  *)
(* built has no collection and one was set since.                          *)
DeleteLeavesNothing ==
  \A t \in network : t.op = "delete" /\ ledger.exists /\ Identity[t.client] = ledger.authority
    => /\ Outcome(t) # Refused
       /\ ~Outcome(t).exists
       /\ Outcome(t).collection # NoMint
            => ledger.collection # NoMint /\ t.base.collection = NoMint

-----------------------------------------------------------------------------
(* An NFT minted while the collection stays what the builder read belongs  *)
(* to it, even if the model of the minter has another collection or none.  *)
MintCarriesCollection ==
  \A t \in Sent("mint") : t.aim.seen = ledger.collection =>
    \A n \in Outcome(t).nfts : n.mint = t.aim.nft => n.collection = ledger.collection

(* The checks of the mint operation are as strict as the program for a     *)
(* payer who holds a whitelist token where there is a whitelist (they do   *)
(* not look for one), and a candy machine that is fully loaded and has no  *)
(* more NFTs than items: a client whose model is current is not charged    *)
(* the bot tax, unless the sale ended on its date while he was minting.    *)
CurrentMintIsNotTaxed ==
  \A t \in Sent("mint") :
    /\ t.base = ToCandyMachine(ledger)
    /\ ledger.hidden \/ ledger.loaded = ledger.config.available
    /\ ledger.redeemed <= ledger.config.available
    /\ ledger.config.whitelist # "none" => Identity[t.client] \in Holders
    /\ ledger.config.end.type = "date" => ledger.clock <= ledger.config.end.number
    => Outcome(t).redeemed = ledger.redeemed + 1

(* The wallet, the authority and the collection of a mint come from two    *)
(* different reads.  They only make it fail if, since the model was read,  *)
(* the treasury changed or the candy machine was deleted, or it has a      *)
(* collection and was handed over; or if the collection was removed since  *)
(* the mint read it.                                                       *)
MintIsOnlyRefusedIfRaced ==
  \A t \in network : t.op = "mint" /\ Outcome(t) = Refused =>
    \/ ~ledger.exists
    \/ t.base.config.wallet # ledger.config.wallet
    \/ t.aim.seen # NoMint /\ (t.base.authority # ledger.authority \/ ledger.collection = NoMint)
=============================================================================
