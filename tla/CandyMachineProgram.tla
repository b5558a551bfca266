------------------------- MODULE CandyMachineProgram -------------------------
(***************************************************************************)
(* The on-chain side of a candy machine, which is not part of this         *)
(* repository: the accounts the SDK reads and the instructions its         *)
(* builders send.  Modelled from how the SDK uses it (accounts.ts,         *)
(* helpers.ts, the builders and the integration tests).  A transaction is  *)
(* a sequence of instructions that takes effect whole or not at all.       *)
(***************************************************************************)
EXTENDS Integers, Sequences, FiniteSets

CONSTANTS
  Keys,      \* public keys that may own a candy machine or pay for an NFT
  NoKey,     \* the authority of an account that has not been initialised
  NoConfig,  \* and its settings
  Wallets,   \* treasury wallets
  Prices,    \* stands for every setting that does not decide who may mint
  MaxNumber, \* bound: the clock, dates and the amounts at which a sale ends
  NoDate,    \* no go-live date
  Holders,   \* the keys that hold whitelist tokens, and never run out of them
  Capacity,  \* lines a candy machine account has room for
  Items,     \* config lines
  NoItem,    \* a line that has not been written
  Mints,     \* collection NFTs
  NoMint,    \* no collection
  Nfts,      \* mint addresses that clients generate
  Refused    \* the outcome of a transaction that fails

ASSUME CapacityAssumption == Capacity \in Nat
ASSUME MaxNumberAssumption == MaxNumber \in Nat
ASSUME NoItemAssumption == NoItem \notin Items
ASSUME NoMintAssumption == NoMint \notin Mints
ASSUME NftsAssumption == IsFiniteSet(Nfts)

Slots   == 0 .. Capacity - 1
Numbers == 0 .. MaxNumber

\* A whitelist lets its holders mint before the go-live date ("presale"), nobody
\* but them at any date ("forced"), or only gives a discount, which is like none.
Configs ==
  [wallet    : Wallets,
   price     : Prices,
   goLive    : Numbers \cup {NoDate},
   whitelist : {"none", "presale", "forced"},
   end       : [type : {"never", "amount", "date"}, number : Numbers],
   available : 0 .. Capacity]

LedgersOf(counts) ==
  [exists     : BOOLEAN,                    \* the candy machine account
   authority  : Keys \cup {NoKey},
   config     : Configs \cup {NoConfig},
   hidden     : BOOLEAN,                    \* it has hidden settings, and no lines
   redeemed   : counts,
   lines      : [Slots -> Items \cup {NoItem}],
   loaded     : 0 .. Capacity,              \* the counter stored before the lines
   collection : Mints \cup {NoMint},        \* the collection PDA, an account of its own
   nfts       : SUBSET [mint : Nfts, collection : Mints \cup {NoMint}],
   clock      : Numbers]                    \* the time of the cluster

Ledgers == LedgersOf(0 .. Cardinality(Nfts))

ASSUME RefusedAssumption == Refused \notin LedgersOf(Nat)

NoAccount ==
  [exists |-> FALSE, authority |-> NoKey, config |-> NoConfig, hidden |-> FALSE,
   redeemed |-> 0, lines |-> [k \in Slots |-> NoItem], loaded |-> 0,
   collection |-> NoMint, nfts |-> {}, clock |-> 0]

-----------------------------------------------------------------------------
(* The instructions, each with its outcome on the accounts.                *)

Signed(l, i) == l.exists /\ i.authority = l.authority

Initialize(l, i) ==
  IF l.exists THEN Refused
  ELSE [l EXCEPT !.exists = TRUE, !.authority = i.authority,
                 !.config = i.config, !.hidden = i.hidden]

Written(i) == i.index .. i.index + Len(i.items) - 1

\* The counter only moves for lines that had not been written before.
AddConfigLines(l, i) ==
  IF Signed(l, i) /\ ~l.hidden /\ i.index + Len(i.items) <= l.config.available
  THEN [l EXCEPT
         !.lines = [k \in Slots |-> IF k \in Written(i) THEN i.items[k - i.index + 1]
                                                        ELSE l.lines[k]],
         !.loaded = @ + Cardinality({k \in Written(i) : l.lines[k] = NoItem})]
  ELSE Refused

\* The number of lines of an account is fixed unless it has none.
UpdateCandyMachine(l, i) ==
  IF Signed(l, i) /\ (l.hidden \/ i.config.available = l.config.available)
  THEN [l EXCEPT !.config = i.config]
  ELSE Refused

SetCollection(l, i) ==
  IF Signed(l, i) THEN [l EXCEPT !.collection = i.mint] ELSE Refused

RemoveCollection(l, i) ==
  IF Signed(l, i) /\ i.mint = l.collection
  THEN [l EXCEPT !.collection = NoMint]
  ELSE Refused

UpdateAuthority(l, i) ==
  IF Signed(l, i) THEN [l EXCEPT !.authority = i.newAuthority] ELSE Refused

\* Closes the account, and the collection PDA if it is among the keys.
WithdrawFunds(l, i) ==
  IF Signed(l, i)
  THEN [l EXCEPT !.exists = FALSE, !.collection = IF i.closesCollection THEN NoMint ELSE @]
  ELSE Refused

\* The authority does not wait for a date, nor for the end.
Started(l, payer) ==
  \/ l.config.goLive # NoDate /\ l.config.goLive <= l.clock
  \/ l.config.whitelist = "presale" /\ payer \in Holders

Ended(l) ==
  \/ l.config.end.type = "amount" /\ l.config.end.number <= l.redeemed
  \/ l.config.end.type = "date" /\ l.config.end.number < l.clock

Mintable(l, payer) ==
  /\ l.redeemed < l.config.available
  /\ l.hidden \/ l.loaded = l.config.available
  /\ l.config.whitelist = "forced" => payer \in Holders
  /\ payer = l.authority \/ (Started(l, payer) /\ ~Ended(l))

\* A mint that is not allowed succeeds without an NFT: the bot tax.
MintNft(l, i) ==
  IF l.exists /\ i.wallet = l.config.wallet
  THEN IF Mintable(l, i.payer)
       THEN [l EXCEPT !.redeemed = @ + 1,
                      !.nfts = @ \cup {[mint |-> i.nft, collection |-> NoMint]}]
       ELSE l
  ELSE Refused

\* Leaves the NFT without a collection if it is not the one of the PDA.
SetCollectionDuringMint(l, i) ==
  IF Signed(l, i) /\ l.collection # NoMint
  THEN [l EXCEPT !.nfts =
         {IF n.mint = i.nft /\ i.mint = l.collection
          THEN [n EXCEPT !.collection = i.mint] ELSE n : n \in @}]
  ELSE Refused

Execute(l, i) ==
  CASE i.type = "initialize"              -> Initialize(l, i)
    [] i.type = "addConfigLines"          -> AddConfigLines(l, i)
    [] i.type = "updateCandyMachine"      -> UpdateCandyMachine(l, i)
    [] i.type = "setCollection"           -> SetCollection(l, i)
    [] i.type = "removeCollection"        -> RemoveCollection(l, i)
    [] i.type = "updateAuthority"         -> UpdateAuthority(l, i)
    [] i.type = "withdrawFunds"           -> WithdrawFunds(l, i)
    [] i.type = "mintNft"                 -> MintNft(l, i)
    [] i.type = "setCollectionDuringMint" -> SetCollectionDuringMint(l, i)

\* No builder puts more than four candy machine instructions in a transaction.
MaxInstructions == 4

Step(l, instructions, n) ==
  IF l = Refused \/ n > Len(instructions) THEN l ELSE Execute(l, instructions[n])

After(l, instructions) ==
  LET first  == Step(l, instructions, 1)
      second == Step(first, instructions, 2)
      third  == Step(second, instructions, 3)
  IN  Step(third, instructions, MaxInstructions)
=============================================================================
