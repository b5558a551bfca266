------------------------------ MODULE Editions ------------------------------
(***************************************************************************)
(* One mint, its tokens, and the clients that create them, make an SFT or  *)
(* an NFT of the mint, print editions of it, and mint, send, delegate,     *)
(* freeze, use and burn.                                                   *)
(*                                                                         *)
(* The handlers of mint, send, create and print read an account first and  *)
(* build their transaction from what they saw; others may land before it   *)
(* does.  A transaction lands, is refused or expires.                      *)
(***************************************************************************)
EXTENDS EditionBuilders

CONSTANTS
  Hands,        \* the wallets each client (a wallet) has as a Signer
  Calls,        \* the operations each client calls
  Amounts,      \* the amounts of tokens and uses that callers ask for
  Maxima,       \* the maxSupply that callers of create ask for
  MaxInFlight,  \* bound: transactions in the network
  Racing,       \* bound: the operations that are in the network together
  NoSight       \* of an operation that does not look at the chain

ASSUME CallersAssumption ==
  /\ Hands \in [Wallets -> SUBSET Wallets]
  /\ \A c \in Wallets : c \in Hands[c]
  /\ Amounts \subseteq 1 .. MaxSupply
  /\ Maxima \subseteq 0 .. MaxPrints
  /\ MaxInFlight \in Nat
  /\ NoAccount \notin Accounts /\ NoSight \notin Nat \cup BOOLEAN

VARIABLES
  ledger,
  used,      \* the keypair of the mint has been used
  network    \* the transactions sent and not yet landed

vars == <<ledger, used, network>>

Init ==
  /\ ledger = NoAsset
  /\ used = FALSE
  /\ network = {}

-----------------------------------------------------------------------------
\* A transaction keeps what its handler saw and what its caller asked for.
Send(c, op, instructions, saw, aim) ==
  /\ op \in Calls[c]
  /\ Cardinality(network) < MaxInFlight
  /\ network # {} => {op} \cup {t.op : t \in network} \subseteq Racing
  /\ network' = network \cup {[by |-> c, op |-> op, instructions |-> instructions,
                             saw |-> saw, aim |-> aim]}
  /\ UNCHANGED ledger

\* The mint of a create is a Keypair of its own unless it exists.
TakesMint(existingMint) ==
  /\ IF existingMint THEN ledger.mint ELSE ~used
  /\ used' = TRUE

Exists(account) == account # NoAccount /\ ledger.token[account].exists

CreateMint(c) ==
  /\ TakesMint(FALSE)
  /\ Send(c, "createMint", CreateMintInstructions(c, c), NoSight, [account |-> NoAccount])

CreateTokenWithMint(c, account, supply) ==
  /\ TakesMint(FALSE)
  /\ Send(c, "createTokenWithMint", CreateTokenWithMintInstructions(c, account, supply),
          NoSight, [account |-> account])

CreateToken(c, account) ==
  /\ ledger.mint
  /\ Send(c, "createToken", CreateTokenInstructions(account), NoSight,
          [account |-> account])
  /\ UNCHANGED used

Mint(c, account, amount) ==
  LET seen == Exists(account)
  IN  /\ ledger.mint
      /\ Send(c, "mint", MintInstructions(c, account, amount, seen), seen,
              [account |-> account, amount |-> amount])
      /\ UNCHANGED used

\* Without the signature of its authority the transaction is not sent.
SendTokens(c, owner, ownerSigns, delegate, account, amount) ==
  LET seen == Exists(account)
  IN  /\ ledger.mint
      /\ IsSigned(c, owner, ownerSigns, delegate)
      /\ Send(c, "send",
              SendInstructions(owner, Ata[owner], delegate, account, amount, seen), seen,
              [owner |-> owner, delegate |-> delegate, account |-> account,
               amount |-> amount])
      /\ UNCHANGED used

ApproveDelegate(c, delegate, amount) ==
  /\ Send(c, "approve", ApproveInstructions(c, Ata[c], delegate, amount), NoSight,
          [account |-> Ata[c]])
  /\ UNCHANGED used

RevokeDelegate(c) ==
  /\ Send(c, "revoke", RevokeInstructions(c, Ata[c]), NoSight, [account |-> Ata[c]])
  /\ UNCHANGED used

FreezeToken(c, account) ==
  /\ Send(c, "freeze", FreezeInstructions(c, account), NoSight, [account |-> account])
  /\ UNCHANGED used

ThawToken(c, account) ==
  /\ Send(c, "thaw", ThawInstructions(c, account), NoSight, [account |-> account])
  /\ UNCHANGED used

-----------------------------------------------------------------------------
\* Only looks for the token of a mint that exists.
CreateSft(c, existingMint, account, amount) ==
  LET seen == existingMint /\ Exists(account)
  IN  /\ TakesMint(existingMint)
      /\ Send(c, "createSft", CreateSftInstructions(c, existingMint, account, seen, amount),
              seen, [account |-> account, existing |-> existingMint, amount |-> amount])

CreateNft(c, existingMint, account, max) ==
  LET seen == Exists(account)
  IN  /\ TakesMint(existingMint)
      /\ Send(c, "createNft", CreateNftInstructions(c, existingMint, account, seen, max),
              seen, [account |-> account, existing |-> existingMint, amount |-> 1])

\* NotFound, or not an edition, is an error before anything is sent.
PrintNewEdition(c, owner) ==
  LET supply == Cardinality(ledger.prints)
  IN  /\ ledger.edition
      /\ Send(c, "print", PrintInstructions(c, Ata[c], supply, owner), supply,
              [account |-> Ata[c]])
      /\ UNCHANGED used

FreezeDelegatedNft(c, owner) ==
  /\ Send(c, "freezeDelegated", FreezeDelegatedInstructions(c, Ata[owner]), NoSight,
          [account |-> Ata[owner]])
  /\ UNCHANGED used

ThawDelegatedNft(c, owner) ==
  /\ Send(c, "thawDelegated", ThawDelegatedInstructions(c, Ata[owner]), NoSight,
          [account |-> Ata[owner]])
  /\ UNCHANGED used

\* ExpectedSignerError: the owner, or else a user, has to sign.
UseNft(c, owner, user, count) ==
  /\ Authority(owner, user) = c
  /\ Send(c, "use", UseInstructions(owner, user, Ata[owner], count), NoSight,
          [account |-> Ata[owner], owner |-> owner, user |-> user, amount |-> count])
  /\ UNCHANGED used

ApproveNftUse(c, user, count) ==
  /\ Send(c, "approveUse", ApproveUseInstructions(c, Ata[c], user, count), NoSight,
          [account |-> Ata[c]])
  /\ UNCHANGED used

RevokeNftUse(c, user) ==
  /\ Send(c, "revokeUse", RevokeUseInstructions(c, Ata[c], user), NoSight,
          [account |-> Ata[c]])
  /\ UNCHANGED used

DeleteNft(c) ==
  /\ Send(c, "burnNft", BurnInstructions(c, Ata[c]), NoSight, [account |-> Ata[c]])
  /\ UNCHANGED used

-----------------------------------------------------------------------------
Outcome(t) == After(ledger, t.instructions)

Accepted(t) == Outcome(t) # Refused

Land(t) ==
  /\ network' = network \ {t}
  /\ ledger' = IF Accepted(t) THEN Outcome(t) ELSE ledger
  /\ UNCHANGED used

Expire(t) ==
  /\ network' = network \ {t}
  /\ UNCHANGED <<ledger, used>>

TokenCalls(c) ==
  \/ CreateMint(c)
  \/ \E account \in Accounts :
       \/ \E supply \in Amounts \cup {0, NoAmount} : CreateTokenWithMint(c, account, supply)
       \/ CreateToken(c, account)
       \/ \E amount \in Amounts : Mint(c, account, amount)
       \/ \E owner \in Wallets, delegate \in Hands[c] \cup {NoKey}, amount \in Amounts :
            \E ownerSigns \in {s \in BOOLEAN : s => owner \in Hands[c]} :
              SendTokens(c, owner, ownerSigns, delegate, account, amount)
       \/ FreezeToken(c, account)
       \/ ThawToken(c, account)
  \/ \E delegate \in Wallets \ {c}, amount \in Amounts : ApproveDelegate(c, delegate, amount)
  \/ RevokeDelegate(c)

NftCalls(c) ==
  \/ \E existing \in BOOLEAN :
       \/ \E account \in Accounts \cup {NoAccount}, amount \in Amounts \cup {0, NoAmount} :
            CreateSft(c, existing, account, amount)
       \/ \E account \in Accounts, max \in Maxima : CreateNft(c, existing, account, max)
  \/ \E owner \in Wallets :
       \/ PrintNewEdition(c, owner)
       \/ FreezeDelegatedNft(c, owner)
       \/ ThawDelegatedNft(c, owner)
       \/ \E user \in {NoKey, c}, count \in Amounts : UseNft(c, owner, user, count)
  \/ \E user \in Wallets \ {c}, count \in Amounts : ApproveNftUse(c, user, count)
  \/ \E user \in Wallets \ {c} : RevokeNftUse(c, user)
  \/ DeleteNft(c)

Next ==
  \/ \E c \in Wallets : TokenCalls(c) \/ NftCalls(c)
  \/ \E t \in network : Land(t) \/ Expire(t)

Spec == Init /\ [][Next]_vars

-----------------------------------------------------------------------------
TypeOK ==
  /\ ledger \in Ledgers
  /\ used \in BOOLEAN
  /\ \A t \in network :
       /\ t.by \in Wallets /\ t.op \in Calls[t.by]
       /\ Len(t.instructions) \in 1 .. MaxInstructions

Tokens(amount) == IF amount = NoAmount THEN 0 ELSE amount

(* The rules of the token program for what was asked, whatever the account *)
(* that receives the tokens looked like.                                   *)
Receives(account, amount) ==
  /\ ledger.supply + amount <= MaxSupply
  /\ ~ledger.token[account].frozen

MayMint(t) ==
  /\ t.op = "mint" /\ ledger.mintAuthority = t.by
  /\ Receives(t.aim.account, t.aim.amount)

MaySend(t) ==
  LET from == ledger.token[Ata[t.aim.owner]]
  IN  /\ t.op = "send" /\ from.exists /\ ~from.frozen
      /\ ~ledger.token[t.aim.account].frozen
      /\ t.aim.amount <= from.amount
      /\ \/ t.aim.delegate \in {NoKey, t.aim.owner}
         \/ t.aim.delegate = from.delegate /\ t.aim.amount <= from.delegated

MayCreate(t) ==
  /\ t.op \in {"createSft", "createNft"}
  /\ t.aim.existing => ledger.mintAuthority = t.by /\ ~ledger.metadata
  /\ t.aim.account # NoAccount => Receives(t.aim.account, Tokens(t.aim.amount))
  /\ t.op = "createNft" => ledger.supply = 0

(* Whether the account that receives the tokens exists is looked up before *)
(* the transaction is built.  Tokens are minted or sent, and an SFT or NFT *)
(* is created, whenever the token program allows it, unless that account   *)
(* was created, or closed, since it was looked up.                         *)
OnlyRacesAreRefused ==
  \A t \in network :
    (MayMint(t) \/ MaySend(t) \/ MayCreate(t)) /\ t.saw = Exists(t.aim.account)
      => Accepted(t)

Moved(l, account) == l.token[account].amount - ledger.token[account].amount

(* The tokens leave the account of the owner that was named, also when a   *)
(* delegate signs, and arrive in the account that was asked for, created   *)
(* on the way if need be; no other account gains or loses.                 *)
SendMovesWhatWasAsked ==
  \A t \in network : t.op = "send" /\ Accepted(t) =>
    LET from == Ata[t.aim.owner]
        to   == t.aim.account
    IN  \A a \in Accounts :
          Moved(Outcome(t), a) =
            (IF a = to THEN t.aim.amount ELSE 0) - (IF a = from THEN t.aim.amount ELSE 0)

(* What createNft and createSft answer with is what they were asked for,   *)
(* read when their transaction lands: an NFT with the one token there is,  *)
(* an SFT with the tokens it was created with and those there were.        *)
CreatedIsFound ==
  \A t \in network : t.op \in {"createNft", "createSft"} /\ Accepted(t) =>
    LET found == FindNft(Outcome(t), t.aim.account)
    IN  /\ found.kind = IF t.op = "createNft" THEN "nft" ELSE "sft"
        /\ t.aim.account # NoAccount =>
             /\ found.token = FindTokenWithMint(Outcome(t), t.aim.account).token
             /\ found.token.amount = ledger.token[t.aim.account].amount + Tokens(t.aim.amount)
        /\ FindMint(Outcome(t)).supply = ledger.supply +
             (IF t.aim.account = NoAccount THEN 0 ELSE Tokens(t.aim.amount))

(* A print by the holder of the original, while there is one left to       *)
(* print, is only refused if another one has landed since its number was   *)
(* read: of two prints at once one fails and none is lost or doubled.      *)
PrintIsOnlyRefusedIfRaced ==
  \A t \in network :
    /\ t.op = "print" /\ t.saw = Cardinality(ledger.prints)
    /\ ledger.edition /\ Holds(ledger, t.by, t.aim.account) /\ t.saw < ledger.max
    => Accepted(t)
=============================================================================
