# A TLA+ verification of the Metaplex JS SDK

The SDK (`packages/js`) is a TypeScript client of the Solana programs of
Metaplex: the candy machine, the auction house, token metadata, and the system
and token programs. It keeps no database and runs on one JavaScript thread; what
makes it hard is that every operation is asynchronous, works from **models**
fetched earlier (a `CandyMachine`, a `Bid`, an `Nft`), and ends in a transaction
that lands at a time of its own, if it lands, on accounts that other people
change meanwhile.

All paths below are relative to `src/packages/js/src/` unless they start with
`src/`.

Contents: [inventory](#1-inventory) · [plan](#2-plan) · [tasks](#3-tasks) ·
[candy machines](#4-candy-machines) · [auction houses](#5-auction-houses) ·
[NFTs and tokens](#6-nfts-and-tokens) · [wallets](#7-wallets) · [runs](#8-runs) ·
[proofs](#9-proofs) · [disagreements found](#10-disagreements-found) ·
[not modelled](#11-what-is-not-modelled)

## 1. Inventory

How the parts call each other:

    caller ── NftClient, CandyMachinesClient, AuctionHouseClient, TokenClient ...
                 │  getTask(operation)          returns a Task, run() executes it
                 ▼
            OperationClient ── Task + Disposable (status, result, abort signal)
                 │  handle(operation, metaplex, scope)
                 ▼
            operation handlers ── nested tasks (find*, load*) with the same scope
                 │  asserts on the model, then a builder
                 ▼
            TransactionBuilder (instructions, signers, context)
                 │  sendAndConfirm
                 ▼
            RpcClient ── IdentityClient (signs) ── Solana ── on-chain programs
            StorageClient ── Bundlr | NFT.Storage | AWS drivers

| Component | State it keeps | Operations | What is hard | What makes it correct |
|---|---|---|---|---|
| Tasks and disposables (`utils/Task.ts`, `utils/Disposable.ts`) | status, result, error, listeners; per run an abort listener and a cancelation error | `run`, `run({force})`, `loadWith`, `reset`, abort | abort while the callback executes; several holders of one task; listeners re-entering it | at most one execution; a canceled run rejects; never stuck "running"; a cached answer is the value of a run that succeeded |
| Operations (`plugins/operationModule`) | a map from operation to handler | `register`, `get`, `getTask`, `execute` | nested tasks must share the parent's scope | canceling a parent cancels its children |
| Transaction builder (`utils/TransactionBuilder.ts`) | instructions with signers, fee payer, context | `add`, `prepend`, `when`, `splitUsingKey`, `sendAndConfirm` | splitting, order of instructions | a split keeps every instruction once and in order |
| RPC client (`plugins/rpcModule`) | the connection, the default fee payer; the `Transaction` objects it mutates | `sendTransaction`, `confirmTransaction`, `sendAndConfirmTransaction`, reads | an error does not mean that the transaction will not land; blockhash reused on a second send; identities sign one after the other | an answer "confirmed" is about the transaction sent; retries are safe where they are offered |
| Candy machines (`plugins/candyMachineModule`) | none off chain but the caller's model; on chain the account, its lines, the collection PDA | create, find, insertItems, update, delete, mint | stale models, default index, several instructions in one transaction, bot tax | see section 4 |
| Auction house (`plugins/auctionHouseModule`) | listing, bid and purchase receipts, buyer escrow, fee and treasury accounts | create/update house, list, bid, cancel, executeSale, deposit, withdraw, find*, load* | sale against stale bid and listing; partial sales; public and private bids; auctioneer | see section 5 |
| NFTs (`plugins/nftModule`) | mint, metadata, edition, token, collection and use records | create, update, print, use, verify, delete, freeze, find*, load, uploadMetadata | edition number read before it is used; update drops verification; JSON errors swallowed | editions have distinct numbers; an update changes what was asked |
| Tokens (`plugins/tokenModule`) | mint and token accounts | createMint, createToken, mint, send, freeze, thaw, approve, revoke, find* | "create it if missing" read before the transaction | tokens conserved; sending to an account that appears meanwhile is safe |
| System (`plugins/systemModule`) | lamports | createAccount, transferSol | none of its own | lamports conserved |
| Storage (`plugins/storageModule`, `bundlrStorage`, `mockStorage`) | Bundlr client and its loaded balance | upload, uploadAll, fund, withdraw | balance read before it is spent; lazy client created twice; partial failure | an upload is paid once; every uri returned is of a stored file, in the order of the files |
| NFT.Storage (`src/packages/js-plugin-nft-storage`) | none | uploadAll in batches | a batch fails after others | order of uris |
| AWS (`src/packages/js-plugin-aws`) | none | one PUT per file | none | pure I/O |
| Identities (`identityModule`, keypair, guest, wallet adapter) | the current driver | sign | replaced while in use | signatures are of the current driver |
| Derived identity | derived keypair | deriveFrom, fund, withdraw, withdrawAll, close | balance read before it is moved | closing leaves nothing |
| Account readers (`utils/GmaBuilder.ts`, `utils/GpaBuilder.ts`) | the keys of a query | pages, chunks, transforms | off-by-one at page bounds | the pages partition the keys |
| Utils, programs | rent cache, list of programs | estimate, register | cache filled by concurrent estimates | the estimate is the rent of some moment |
| Value types (`types/`) | none | amounts, big numbers, dates, signer histogram | text comparison of big numbers | arithmetic |
| Errors and helpers | none | none | none | no state |

The hazards these parts are exposed to, each at its line, are listed in
`PROJECT.json` with the properties that cover them.

## 2. Plan

The modules, in the order in which they were written, the most important behaviour
first; all of them are done.

1. **`Task`, `TaskContract`**. Every operation runs in a task, so everything else
   rests on it. Abstract specification: a task that runs one execution at a time.
2. **`CandyMachineProgram`, `CandyMachineBuilders`, `CandyMachine`**. The whole life of a
   candy machine with stale models and late transactions.
3. **`AuctionProgram`, `AuctionBuilders`, `AuctionTrade`**: orders, sales, receipts and
   the escrow of one house. **`SettingsProgram`, `SettingsBuilders`, `AuctionSettings`**:
   the house itself.
4. **`NftMetadataProgram`, `NftMetadataBuilders`, `NftMetadata`**: metadata, creators and
   collections. **`TokenProgram`, `TokenBuilders`, `EditionProgram`, `EditionBuilders`,
   `Editions`**: the mint, its tokens, editions and uses.
5. **`RpcClient`, `DerivedIdentity`, `BundlrStorage`**, composed in **`Wallets`**: sending,
   signing, confirming and retrying, and two users of it that share the wallets.

Each on-chain program has a module of its own (external), so that the builders can be
read against the source and the on-chain side against how the SDK and its tests use it.

Each of the seven parts has its proofs in a module of its own (section 9). Three of the
parts are ledgers, and what they promise is a sum: `Sums` says what it is that amounts add
up to a total, and `SumProofs` proves what moving an amount does to it.

What could follow: nested tasks that share a scope with their parent; `splitUsingKey`
and the pages of `GmaBuilder` as pure operators; the refinement of the model of one
operation by task, builder and RPC client together.

Bounds are small: two clients, one or two assets, one or two transactions in flight.
Constants and their assumptions are declared in the component's module, MC modules
only give them values, and no module uses a RECURSIVE operator (a transaction has
at most `MaxInstructions` instructions and is executed by a chain of definitions
instead).

## 3. Tasks

`Task.tla` models one `Task` object and the `Disposable`s of its runs.

| Code | Model |
|---|---|
| `status`, `result`, `error` | the record `task` |
| a call of `run()` and its promise | an element of `Calls`; `phase`, `promise` |
| the `AbortSignal` of a run, `new AbortController().signal` | `signal[c]`, `NoSignal` |
| `signal.aborted` | membership in `aborted` |
| `addEventListener('abort', ...)`, `Disposable.close` | `listening` |
| `cancelationError` of the Disposable, set by its abort listener | `notified` |
| `run()` refused, answered from the cache, executed | `RunRefused`, `RunAnswered`, `Start` |
| the callback settles: `try`, `throwIfCanceled`, `catch` of `forceRun` | `Succeed`, `ThrowCanceled`, `Throw` |
| the `finally` of `Disposable.run` | `Close` |
| `controller.abort()` and the listeners it calls | `Abort`, `AbortListener` |
| `loadWith`, `reset` | `LoadWith`, `Reset` |

An action is a stretch of JavaScript that nothing can interrupt. A run is therefore
three of them: up to the first `await` of the callback; from the moment the
callback settles to the end of `forceRun`; and, some microtasks later, the `finally`
that closes the `Disposable`. The gap between the last two is real (each `await`
and `async` boundary is a tick) and two properties are about it. `dispatchEvent` is
synchronous, so between `Abort` and the listeners it calls nothing else runs: every
other action has `Quiet` as a guard.

A *status listener* runs in the middle of `setStatus`. What it may do to the task
is abstracted to what it may leave behind (`ListenersRun`): nothing, the task reset,
or the task preloaded, which are the only states `reset()` and `loadWith()` lead to.
Listeners that throw or that start another run from inside are left out, and the
order of the listeners of one signal is not fixed. A call stands for both the value
its callback returns and the error it throws.

Two constants choose the callers. `Sequential`: callers await what is in flight
before they reset, preload or force; anyone may still call `run()` and abort at any
time. `Reentrant`: listeners interfere. A property is stated for the weakest
callers for which it holds, and a run where it does not is one of the disagreements.

`TaskContract.tla` is what a caller who awaits may believe: three fields that tell
the story of one run. The refinement mapping is the identity on `task`; values and
errors are those of the calls. The contract has one clause one would not write
from the documentation, `CancelCompleted`: an abort in the closing window.

*Fairness*: weak fairness of `Engine(c)`, the steps of the JavaScript engine: an
attached abort listener runs, a callback settles, a `finally` runs. That the
callback settles is the assumption that what it awaits (an RPC request, a
transfer) is answered or times out. Nothing is assumed of callers.

## 4. Candy machines

Three modules, from the chain to the clients.

**`CandyMachineProgram.tla`** is the on-chain program. It is not in this repository
(only a binary under `src/programs`) and is modelled as the SDK relies on it:
`accounts.ts` and `helpers.ts` say what is stored, the builders what is sent, the
tests what is refused. `Execute` gives each instruction's outcome, `After` that of a
transaction: whole or not at all. A mint that is not allowed *succeeds* without
an NFT, the "bot tax".

**`CandyMachineBuilders.tla`** is what an operation computes before it sends: the
model parsed from the accounts (`toCandyMachine`), the checks (`asserts.ts`) and
the builders, each a sequence of instructions with their guards (`when`).

**`CandyMachine.tla`** is the state machine. `model[c]` is the `CandyMachine` object
client `c` holds, `network` the transactions on their way, `call[c]` the operation
`c` awaits.

| Code | Action |
|---|---|
| `findByAddress`, `refresh` | `Find` |
| handlers of create, insertItems, update, delete, mint up to `sendAndConfirm` | `Create`, `Insert`, `Update`, `Delete`, `Mint` |
| the transaction executes; `confirmTransaction` answers | `Land` |
| the blockhash expires | `Expire` |
| sending or confirming throws or times out, whether or not the transaction lands later; an abort | `GiveUp` |
| create and mint fetch what they made | `FetchCreated`, `FetchMinted` |
| time passes | `Tick` |

What is abstracted:

- The settings are a record: `wallet` (the treasury, a key of the mint
  instruction), `available` (the number of items), what decides who may mint when
  (`goLive`, `whitelist`, `end`), and `price`, which stands for all other settings. A
  whitelist is `presale` (its holders need not wait for the date), `forced` (nobody else
  may mint) or `none`, which a discount is like. A sale ends never, at an amount or on a
  date.
- The program's check (`Mintable`) and the SDK's (`CanMint`) are separate definitions. They
  differ: `assertCandyMachineIsLive` returns early for any presale, without looking for the
  whitelist token of the payer, and takes no notice of a forced whitelist; it compares the
  date with `<`; it does not ask whether all lines are loaded; and it sees the model, not the
  account.
- `ledger.clock` is the time of the cluster, which `Tick` advances up to `MaxNumber`;
  clients have the same clock. The keys in `Holders` hold whitelist tokens and never run
  out of them.
- A client signs with one key (`Identity`); two clients may share it (two
  processes of one team) or not. `Calls` says which operations each client uses.
- The address of a candy machine is a new keypair, so it is created once: `created`.
- A client waits for one operation at a time, but an operation it gave up on may
  still land. Models may be as old as one likes: nobody is made to refresh.
- Lines hold one value each; a name, a uri and their prefixes are one item.

What makes it correct: inserts from models of any age leave no gap and overwrite only what
was loaded since the model was read (`LinesHaveNoGap`, `AppendsOverwriteNothing`); an update
does exactly what was asked from an up-to-date model and reverts settings at most from
another (`UpdateIsExact`); a delete closes the collection it could know of
(`DeleteLeavesNothing`); a mint belongs to the collection it read
(`MintCarriesCollection`), fails only for what changed since
(`MintIsOnlyRefusedIfRaced`), and pays no bot tax if its model is current, its payer on the
whitelist where there is one, and the end date did not pass meanwhile
(`CurrentMintIsNotTaxed`). Each condition of the last is one the code does not check.

No fairness is assumed and no liveness is claimed: a transaction may expire and a
caller may walk away. `CHECK_DEADLOCK FALSE` is in every configuration because the system
does stop: the address of a creation that failed is not used again, and no
client can then do anything.

## 5. Auction houses

Three modules again, for one house that trades the tokens of one mint for SOL.

**`AuctionProgram.tla`** is the on-chain program, external to this repository and
modelled as the SDK relies on it. An *order* (a listing or a bid) is alive as long as
its trade state account exists; the address of a trade state is derived from the
terms of the order (`pdas.ts`), so the model identifies the two. An instruction
repeats the terms, and fails unless they name a living order. What the repository
does not show is assumed: a bid tops up the escrow by what it lacks; the owner who
cancels takes the delegation of his tokens back; printing a receipt overwrites it; a
listing sold in parts is over when nothing is left that the program may take.

**`AuctionBuilders.tla`** is what the operations compute: the models they load, the
checks of `executeSale`, the instructions of every builder with and without an
auctioneer. `IsPartialSale` compares decimal texts, because that is what `<` does
with two `BN` objects; `TokenPrice` rounds, because `BN.div` does.

**`AuctionTrade.tla`** is the state machine. The caller holds one `listing` and one
`bid`, read at any time; `network` has the transactions on their way, `answers` those
that are confirmed and whose operation has still to load its output.

| Code | Action |
|---|---|
| `createListing`, `createBid`, `cancelListing`, `cancelBid`, `executeSale` up to `sendAndConfirm` | `CreateListingCall`, `CreateBidCall`, `CancelListingCall`, `CancelBidCall`, `ExecuteSaleCall` |
| `depositToBuyerAccount`, `withdrawFromBuyerAccount` | `MoveFundsCall` |
| `findListingByReceipt`, `findListingByTradeState`, and those of bids | `FindListing`, `FindBid` |
| the transaction executes and the caller hears of it, or gave up | `Land(t, heard)` |
| the blockhash expires | `Expire` |
| the rest of the handler: loading the `Listing`, the `Bid`, the `Purchase` | `AnswerList`, `AnswerBid`, `AnswerSale` |
| others: the house is given an auctioneer, tokens are sent | `DelegateAuctioneer`, `SendToken` |

What makes it correct, and what the properties say of it: orders that are alive and
covered can be sold and canceled from the models the SDK gives out, also in parts and
when the house changes (`LiveOrdersAreSold`, `LiveOrdersAreCanceled`); the receipts, which
all searches rely on, agree with the trade states (`ReceiptsTellTheTruth`); a bid that
can be paid for fails only when it lost a race (`BidIsOnlyRefusedIfRaced`).

What is abstracted: fees, royalties, SPL currencies; who pays; the metadata of the
asset. A signer is a wallet or the authority of the house. Nobody bids on an
account of his own or sells to himself, and listings signed by the authority alone
are left out. A caller reads whether the house has an auctioneer when it builds, and
provides the auctioneer authority if it has; the price of an auctioneer's listing is
the token `AuctioneerPrice` (the code's largest 64-bit number). The constant
`Others` says what others do in a run. No fairness is assumed; the system may
stop when every token and all SOL has moved, hence `CHECK_DEADLOCK FALSE`.

### The house itself

**`SettingsProgram.tla`** (external), **`SettingsBuilders.tla`** and **`AuctionSettings.tla`**
model one house from its creation: settings, authority, withdrawal destinations,
auctioneer and scopes, which two people change, each with an `AuctionHouse` object of
any age.

| Code | Model |
|---|---|
| `findByAddress`, `findByCreatorAndMint`, the ends of create and update | `Find`, `FindHouse` |
| `create` | `Create`, `CreateInstructions` (by default a house whose prices can change requires a sign-off) |
| `update` | `Update`: `UpdateInstructions`, up to three instructions, each sent `When` its condition holds against the model |
| `withdrawFromFeeAccount`, `withdrawFromTreasuryAccount` | the two withdrawals |
| the transaction executes, or its blockhash expires | `Land`, `Expire` |

A transaction in `network` keeps the model it was built from (`base`) and what its
caller asked for (`aim`), so that a property can compare what it would do *now* with
what was wanted *then*. This form is used by all the modules below too: a property
speaks of every transaction that could land next, in every state, and so of all the
orders in which they may land. The balances of the accounts of the house are left
out: a withdrawal is accepted or refused.

## 6. NFTs and tokens

Two models of the same NFT, each with its own on-chain program, because what they
are about is independent: the metadata account (text, creators, collection) on
one side, the mint, its token accounts, editions and uses on the other. `createNft`,
`createSft` and `deleteNft` are in both, each with the instructions it sends to its
half.

**`NftMetadataProgram.tla`** (external), **`NftMetadataBuilders.tla`**,
**`NftMetadata.tla`**. An author creates, updates and deletes; a curator verifies, unverifies,
migrates and delegates. Two collections: a sized one of the author and a legacy one
of the curator.

| Code | Model |
|---|---|
| `toMetadata`, `findByMint` | `ToMetadata`, `Find` |
| `createNft`, `createSft`: metadata, verified creators, verified collection in one transaction | `Create`, `CreateInstructions` |
| `updateNft`: `toInstructionData`, `shouldSendUpdateInstruction`, `shouldUnverifyCurrentCollection` | `Update`, `ToInstructionData`, `ShouldSendUpdate`, `ShouldUnverifyCurrentCollection` |
| `verifyCreator`, `unverifyCreator`, `verifyCollection`, `unverifyCollection` | `VerifyCreator`, `RemoveVerification`, `Verify`, `Unverify` |
| `migrateToSizedCollection`, `approveCollectionAuthority`, `revokeCollectionAuthority`, `delete` | `Migrate`, `Approve`, `Revoke`, `Delete` |

`Keep` stands for a parameter the caller leaves `undefined`, which is not the same as
one that is `null` (`NoCollection`): the second disagreement of section 10 is about
this difference. `Permitted` says what an update takes: the authorities of the collection
it leaves and of the one it joins, and, when a verified collection is not mentioned, that
nothing else is asked for. `UpdateIsExact` says that this is exactly what is accepted from a
current model. Name, symbol, uri, royalties, uses and flags are one value, `text`.

**`TokenProgram.tla`**, **`EditionProgram.tla`** (external), **`TokenBuilders.tla`**,
**`EditionBuilders.tla`**, **`Editions.tla`**. An artist, who also has the key of a fan, and the fan
himself; the associated token account of each.

| Code | Model |
|---|---|
| `createMint`, `createToken`, `createTokenWithMint` | `CreateMint`, `CreateToken`, `CreateTokenWithMint` |
| `mintTokens`, `sendTokens`: look up the destination, then create it if it is missing | `Mint`, `SendTokens`, `CreateTokenIfMissing` |
| `approveTokenDelegateAuthority`, `revoke...`, `freezeTokens`, `thawTokens` | `ApproveDelegate`, `RevokeDelegate`, `FreezeToken`, `ThawToken` |
| `createSft`, `createNft`, with a new or an existing mint | `CreateSft`, `CreateNft` |
| `printNewEdition`: reads the supply, takes the next number | `PrintNewEdition` |
| `freezeDelegatedNft`, `thawDelegatedNft`, `useNft`, `approveNftUseAuthority`, `revoke...`, `deleteNft` | the actions of the same names |
| `findNftByMint`, `findMintByAddress`, `findTokenWithMint...` | `FindNft`, `FindMint`, `FindTokenWithMint` |

An initial supply that is left out is `NoAmount`, and nothing is minted; an amount of zero is
minted like any other, since the code tests whether there is an amount object
(`createTokenWithMint.ts`, `createSft.ts`).

A transaction keeps what its handler *saw* before it built it (`saw`): whether the account
existed, or how many prints there were.

## 7. Wallets

**`RpcClient.tla`** is the client that all transactions go through: fee payer and
blockhash are filled in if they are missing, the identity signs if it is the fee payer
*by then*, the node simulates, and the answer comes, or does not. A *job* is one call
of an operation, or one `Transaction` object of a caller who sends it again. The
ledger is external: blockhashes expire (`Tick`), a signature is taken once, a
transaction that cannot be executed pays its fee. A transaction names the job it is `by`:
otherwise identical transfers of two jobs with one blockhash, which share a signature on
Solana, are kept apart, and no property depends on it.

**`DerivedIdentity.tla`** and **`BundlrStorage.tla`** extend it by the two plugins that
pay and keep state across awaits; **`Wallets.tla`** composes the three on the same
wallets, one identity and one connection, which is how a `Metaplex` object holds them.

| Code | Model |
|---|---|
| `RpcClient.sendTransaction`, `confirmTransaction`, giving up | `WithHash`, `Signatures`, `Submit`, `Confirm`, `GiveUp` |
| `transferSol`; the same instruction in a `Transaction` of the caller; calling again | `Transfer`, `Retry` |
| `IdentityClient.setDriver` | `SetIdentity` |
| `deriveFrom` up to the signature, and after it, or refused; `close` | `DeriveFrom`, `Derived`, `DeriveFails`, `CloseDerived` |
| `fund`, `withdraw`, `withdrawAll` (two steps: the balance is read first) | `Fund`, `Withdraw`, `WithdrawAll`, `WithdrawRest` |
| `BundlrStorageDriver.bundlr`, `initBundlr` | `UseClient`, `Connect`, `ConnectFails` |
| `uploadAll`: read the balance, fund what is missing, upload | `Upload`, `FundUpload`, `Credited`, `Store` |
| `withdrawAll` of the driver | `Unload`, `ReadLoaded`, `WithdrawLoaded` |

## 8. Runs

| Run | Property | What it shows |
|---|---|---|
| `task_awaited` | `TypeOK`, `OneExecution`, `FieldsAgree`, `AnswersAreReal`, `ImplementsContract`, `RunningEnds`, `EveryRunSettles` | for callers who await: one execution, consistent fields, real answers, the contract, and no run or promise that hangs |
| `task_listeners` | `RunningHasExecutor`, `CanceledRunRejects`, `LateAbortIsHarmless` | what survives overlapping runs and listeners that reset or preload the task: it never locks itself, a canceled run rejects, a stale signal does nothing |
| `candy_update` | `TypeOK`, `UpdateIsExact`, `DeleteLeavesNothing` | two admins, one after the other: an update from an up-to-date model does exactly what was asked, also when it hands over the authority, one from an old model reverts settings at most; a delete closes the collection it could know of |
| `candy_mint` | `LinesHaveNoGap`, `AppendsOverwriteNothing`, `MintCarriesCollection`, `CurrentMintIsNotTaxed`, `MintIsOnlyRefusedIfRaced` | an admin who gives up and tries again loads the machine, changes its treasury and collection and hands it over, while time passes and a minter with a model of any age mints: lines without a gap, mints that are refused only for what changed since they were built, no bot tax from a current model |
| `auction_nft` | `ReceiptsTellTheTruth`, `BidIsOnlyRefusedIfRaced` | one NFT listed, bid on, canceled, sold and listed again, two operations under way: the receipts stay true |
| `auction_sft` | `TypeOK`, `LiveOrdersAreSold`, `LiveOrdersAreCanceled` | two tokens sold whole and in parts, moved by their owner, under a house that may delegate: no living order is stuck |
| `auction_settings` | `FreshUpdateIsExact`, `StaleUpdateSparesSettings`, `NothingToSendIsNothingToDo` | two people change a house from models of any age: a current update does what was asked and a stale one brings back no setting |
| `nft_collection` | `TypeOK`, `CreateKeepsItsPromise`, `UpdateIsExact`, `SizeFollowsMembers` | creating and updating with creators who sign and collections that are verified, while a curator verifies, unverifies, migrates and delegates: an update from a current model is accepted exactly when it is permitted and does what was asked; sizes follow members but for the cases the property names |
| `assets` | `TypeOK`, `OnlyRacesAreRefused`, `SendMovesWhatWasAsked`, `CreatedIsFound`, `PrintIsOnlyRefusedIfRaced` | the whole life of a mint, as tokens, SFT or NFT: what was looked up before a transaction can only lose a race |
| `wallet` | `TypeOK`, `SameObjectPaysOnce`, `KeyIsOfItsOrigin`, `WithdrawAllIsOnlyRefusedIfRaced`, `UploadIsOnlyRefusedIfRaced` | two jobs that pay at once, with expiring blockhashes, lost answers and an identity that changes |
| `auction_digits`, `nft_unmentioned` | one each | the disagreements of section 10 |

Bounds, and why they are enough:

- *Three calls and two signals*: one run in flight, one late, one answered from the
  cache or overlapping with both; two signals tell "my signal" from "another's", and
  one may be shared by two runs. The proofs cover any number.
- *Two prices, two collections, 1 transaction in flight* (`candy_update`): properties compare
  a transaction with the ledger it would meet now, and with a caller that gives up and
  another that sends, the ledger changes between fetch and landing all the same. The
  authority moves once, from the admin to the other; the collection is none, one, the
  other, or to be removed.
- *Two lines, two moments, two treasury wallets, two NFTs, 2 transactions in flight*
  (`candy_mint`): two inserts, or an insert and a mint, or an update and a mint may be under way
  together, and an insert that was given up may land after the one that tried again;
  treasury, collection and authority may change between the model, the read and the landing,
  and the clock may tick. `MaxAlike` keeps two updates, or two mints, from being under way
  together. The machine has hidden settings and a presale until the first moment, or
  lines and a forced whitelist, for which it opens after the first moment and ends at one NFT.
  One loader is enough: inserts are signed by the authority, so two loaders are two
  models of one key, and a client that gives up and goes on with an old model is both. One
  item is enough as `AppendsOverwriteNothing` is about lines that are written again, even
  with the same value.
- *One token, one price, two operations under way* (`auction_nft`): seller and
  buyer may both list, bids are private or public, and models are of any age. Every
  receipt is printed and sales are whole: that is the condition of
  `ReceiptsTellTheTruth`, which partial sales and `printReceipt: false` end by design.
- *Two tokens, bids for one or two, 1 operation under way* (`auction_sft`): a partial
  sale that leaves something and one that takes the rest; `SendToken` and
  `DelegateAuctioneer` come between any two steps. `auction_digits` has ten tokens, since
  texts and numbers are ordered alike below ten.
- *Two people, two fees, two scopes, two wishes and eleven edits* (`auction_settings`):
  each edit changes one thing, or the authority with the auctioneer; one transaction is under
  way, and the model may come from any earlier moment. The proofs cover all edits.
- *Two creators, two collections, 1 transaction under way* (`nft_collection`): the
  creators are the two clients, so that verification comes from either; the sized
  collection holds at most one NFT, so it may be full; edits cover a collection left out,
  removed, changed and asked for again, with the right and the wrong kind and authority, a
  new text alone and with a new authority, and nothing at all.
- *Two tokens, two prints, one use, two racing transactions* (`assets`): a token may be
  shared, the original and one print are left over, a use may be the last. Two
  transactions are under way together only among those that look at the chain first
  (`Racing`); the others are refused or accepted on what they meet.
- *Two jobs, one unit of SOL, two blockhashes of one tick* (`wallet`): a blockhash may
  expire before, while or after a caller tries again, and he tries twice. `Mixes` says
  which jobs meet, so that every pair that shares state does and unrelated
  ones do not; the fee is what decides whether a wallet emptied to the last lamport
  pays. `MaxSol` is exactly what the five wallets and the balances at the node hold
  together, so that `TypeOK` fails as soon as anybody holds more than there is. All five
  properties are proved without these bounds.

Items, mints and NFT addresses are symmetric, and so are jobs and the two identities
with their keypairs; runs with symmetry check no liveness. The only liveness claimed
is that of tasks, under the fairness of section 3; elsewhere a transaction may expire
and a caller walk away, nothing has to happen, and `CHECK_DEADLOCK FALSE` says that the
system may stop.

## 9. Proofs

### Tasks

`TaskProofs.tla`, checked by TLAPS for any number of calls and signals. Assumptions on constants (in `Task.tla`): the modes are
Booleans, `NoSignal` is not a signal, the values of calls differ from the tokens
(`Undefined`, `Null`, ...), and the tokens that the code can tell apart are distinct.

| Theorem | States | For |
|---|---|---|
| `TypeCorrect` | `Spec => []TypeOK` | all callers and listeners |
| `NeverStuckRunning` | `Spec => []RunningHasExecutor` | all callers and listeners |
| `CanceledRunsReject` | `Spec => CanceledRunRejects` | all callers and listeners |
| `LateAbortsAreHarmless` | `Spec => LateAbortIsHarmless` | all callers and listeners |
| `AnswersReal` | `Spec => []AnswersAreReal` | listeners that only observe |
| `OneExecutionAtATime` | `Spec => []OneExecution` | callers who await, listeners that only observe |
| `FieldsAlwaysAgree` | `Spec => []FieldsAgree` | the same |
| `ContractImplemented` | `Spec => ImplementsContract` | the same |

- `RunningHasExecutor` is inductive once typed: every way a callback ends leaves
  another status behind.
- `LateAbortIsHarmless` needs that an attached listener belongs to a run in flight
  (`ListenersAreInFlight`); otherwise a listener left on a signal could fire later.
- `AnswersAreReal` is not inductive: the cache must be real too. `HoldsReal`
  adds that the result of a successful task is real, and that a call settles its
  promise once, so what was real stays real.
- `OneExecution` and the refinement rest on `AwaitInv`: at most one run is in
  flight; while it executes, the three fields are a function of whether its abort
  listener has fired (`OfExecuting`); while it closes, the task is completed, and a
  canceled one has nothing left to fire (`OfClosing`); and a started run on a
  live signal is attached unless it was notified (`Attached`). Without the last part,
  an abort could leave the task "running" and open the door to a second execution.
- `FieldsAgree` allows one result to outlive a cancel. `OwnResult` says whose it may
  be: while a run closes, the result of the task is its own.

### Candy machines

`CandyMachineProofs.tla`, for any number of clients, items, lines, settings, collections and
transactions in flight, and for all the operations at once. Assumptions on constants (in
`CandyMachineProgram.tla`, `CandyMachineBuilders.tla` and `CandyMachine.tla`): the capacity is
a natural number, there are finitely many addresses for NFTs (they are counted), the
tokens for "nothing" (`NoItem`, `NoMint`, `Unchanged`, `Refused`) differ from the values they
stand beside, settings are configurations with or without hidden settings, every client has
a key.

| Theorem | States |
|---|---|
| `InOrderAlways` | `Spec => []InOrder`, the inductive invariant of the lines |
| `NoGapInLines` | `Spec => []LinesHaveNoGap` |
| `AppendsOverwriteNone` | `Spec => AppendsOverwriteNothing` |
| `Invariant` | `Spec => []Inv`, the inductive invariant of everything else |
| `TypeCorrect` | `Spec => []TypeOK` |
| `UpdatesAreExact` | `Spec => []UpdateIsExact` |
| `DeletesLeaveNothing` | `Spec => []DeleteLeavesNothing` |
| `MintsCarryCollection` | `Spec => []MintCarriesCollection` |
| `CurrentMintsAreNotTaxed` | `Spec => []CurrentMintIsNotTaxed` |
| `MintsAreOnlyRefusedIfRaced` | `Spec => []MintIsOnlyRefusedIfRaced` |

The first three assume `~CustomIndex`: callers leave the index of an insert to its
default. Without it they are false (see the notes of section 10).

`LinesHaveNoGap` is not inductive: it says nothing of the inserts on their way, and
one that starts past the first free line would leave a gap. `InOrder` says where they
start. The lines written are exactly the first `loaded` ones (`Packed`), every insert
in the network starts at or before line `loaded` (`Fits`) and is alone in its
transaction (`InsertsAreSingle`), and no client's model knows of more lines than are
written. The argument is that `loaded` never decreases: what fits now still fits
after any other transaction, so models and transactions may be as old as they like.
`AppendsOverwriteNothing` needs the same, plus what `addConfigLines` does to packed
lines (`AddedLines`).

`Inv` needs neither. `Sound`: `loaded` counts the written lines and `redeemed` the NFTs,
which is why neither leaves its range, whatever indices are used. `Built`: a
transaction in the network is what its builder made of a model and an aim it remembers.
`Checked`: a mint in the network passed `CanMint` at some moment that is not in the future,
which is all a client that reads the clock can know when its transaction lands.
`FreshNfts`: the address of an NFT on its way is in no other transaction and not minted,
since it is a new keypair; otherwise a second mint would not count. The properties of
what a transaction would do now follow an update, delete or mint through its
instructions, each sent or not (`AfterWhen`, `RunIf`): `UpdateLands` for an update from an
up-to-date model, `StaleUpdateLands` for what an old one may leave behind.

### The settings of an auction house

`AuctionSettingsProofs.tla`, for any keys, callers, wishes, edits and numbers of
transactions. Assumptions on constants (in `SettingsProgram.tla`, `SettingsBuilders.tla`
and `AuctionSettings.tla`): the tokens for "nothing" (`Null`, `NoKey`, `NoScopes`, `NoModel`,
`Refused`) differ from the values they stand beside, there is a fee, the creator is a
key, and callers ask for values of the right kinds.

| Theorem | States |
|---|---|
| `Invariant` | `Spec => []Inv`, the inductive invariant |
| `TypeCorrect` | `Spec => []TypeOK` |
| `FreshUpdatesAreExact` | `Spec => []FreshUpdateIsExact` |
| `StaleUpdatesSpareSettings` | `Spec => []StaleUpdateSparesSettings` |
| `NothingToSendMeansNothingToDo` | `Spec => []NothingToSendIsNothingToDo` |

`Inv` adds to the types that an update in the network still holds the instructions that
its builder makes of the model and the edit it remembers, and that the house exists
once somebody has a model of it. `AfterOptional` turns a transaction of three optional
instructions into three optional executions, whichever are sent; the rest follows the
house through them. An update that hands the house over and names an auctioneer fails in
the second one, since the first changed the authority; otherwise each part of the
house ends as `Updated` says.

### Trading in an auction house

`AuctionTradeProofs.tla`, for any wallets, accounts, prices, sizes, models and numbers of
transactions in flight. Assumptions on constants (in `AuctionProgram.tla` and
`AuctionTrade.tla`): every wallet has an associated account that it owns, sizes are
positive and prices natural numbers, `AuctioneerPrice` is not a price, `Anywhere` is not
an account, `Refused` is not a ledger, and what the accounts and the wallets hold at first
adds up to `Supply` and `Funds`.

| Theorem | States | If |
|---|---|---|
| `Invariant` | `Spec => []Inv`, the inductive invariant | |
| `BidsAreOnlyRefusedIfRaced` | `Spec => []BidIsOnlyRefusedIfRaced` | |
| `LiveOrdersCanBeCanceled` | `Spec => []LiveOrdersAreCanceled` | `AllAssociated` |
| `LiveOrdersCanBeSold` | `Spec => []LiveOrdersAreSold` | `AllAssociated`, `ComparedAsNumbers` |
| `ReceiptsAreTrue` | `Spec => []ReceiptsTellTheTruth` | `AlwaysPrinted`, `NoAuctioneer`, `SoldWhole` |
| `AmountsInvariant` | `Spec => []AmountsInv`, the inductive invariant of the amounts | |
| `NothingMade` | `Spec => []NothingIsMade` | |
| `TypeCorrect` | `Spec => []TypeOK` | |

The conditions are conditions of the code, not of the proofs: without any one of them TLC
finds the property violated (the runs assume them or leave the property out). `AllAssociated`: sellers list tokens of their associated accounts, because
`loadListing` derives the account of a listing instead of reading it. `ComparedAsNumbers`: the
sizes that are used compare as decimal texts as they do as numbers, because `executeSale` compares texts
(disagreement 1); `SmallSizesAreCompared` proves it of sizes below ten, and the run
`auction_digits` shows what happens at ten. `AlwaysPrinted`, `NoAuctioneer` and `SoldWhole`:
receipts are printed by every caller, and both receipts of a sale are closed only when the
sale is whole and has no auctioneer; `OneSizeIsSoldWhole` proves `SoldWhole` when all
orders are of one token, as those of NFTs are. The run `auction_sft` satisfies the first two
conditions, `auction_nft` the last three.

`Inv` relates four places where an order is known. `Sound`: a living order was made with an
account that exists, which stays so, and receipts are never lost. `KnownListing` and `KnownBid`:
a model that has a receipt has one on chain, however old it is. `Answerable`: so has an
answer that is still to be loaded. `Built`: what is in the network is what a builder
made. `PrintingInv` adds, for the receipts, that all models and answers have one, and that the
open receipts are exactly those of the living orders (`Truth`); a transaction that lands
changes both or neither (`TransactionTrue`). For each instruction one lemma says when it is
accepted and what it leaves (`SellSound`, `BuySound`, `CancelSound`, `DeliverSound`, ...), and for each
transaction one puts them together (`ListLands`, `BidLands`, `CancelLands`, `SaleLands`).

`NothingIsMade` says of the amounts what an escrow is for: the accounts together always hold
the supply, wallets and escrows together the funds. A delegate may never take more than
the supply, a purchase pays the seller what leaves the escrow of the buyer, and a
transaction that is refused half way leaves nothing of its first half. `TypeOK` follows,
since nobody has more than there is (`SumBounds`), with the lengths of the transactions
that the builders make. `AmountsInv` is the same in the form that each instruction
preserves (`Balanced`).

### Wallets

`WalletsProofs.tla`, for any wallets, jobs, amounts, fees, prices and mixes. Assumptions on
constants (in `RpcClient.tla`, `BundlrStorage.tla` and `Wallets.tla`): fee, price and cost
are natural numbers and the price covers the cost; the tokens for "nothing" (`NoHash`,
`NoWallet`, `NoTx`) differ from the values they stand beside; identities and derived
wallets are wallets. For the sums: what the wallets and the balances at the node hold at first
adds up to no more than `MaxSol`, which also bounds the price, and the wallet of the
Bundlr node is nobody else's (no identity, no derived keypair), since only the node has its key.

| Theorem | States |
|---|---|
| `ObjectsArePaidOnce` | `Spec => []SameObjectPaysOnce` |
| `KeysAreOfTheirOrigin` | `Spec => []KeyIsOfItsOrigin` |
| `Invariant` | `Spec => [](PayInv /\ MoneyInv)` |
| `WithdrawalsAreOnlyRefusedIfRaced` | `Spec => WithdrawAllIsOnlyRefusedIfRaced` |
| `UploadsAreOnlyRefusedIfRaced` | `Spec => UploadIsOnlyRefusedIfRaced` |
| `SolInvariant` | `Spec => [](PayInv /\ MoneyInv /\ SolInv /\ JobArray)`, the inductive invariant of everything |
| `CreditedOnce` | `Spec => []NobodyIsCreditedTwice` |
| `TypeCorrect` | `Spec => []TypeOK` |

For the first theorem, `PayInv`: whatever of a `Transaction` object is in the network, has landed or
has bounced *is* the object its caller holds, with the blockhash it was given when it was
first sent (`SentOnce`). All that landed of it is therefore one transaction. The step
that could break it is `Submit`, which only fills in a blockhash that is missing;
`Goes` says what all other steps have in common. For the second, `KeyInv` says what holds
*while* a signature is awaited: one call waits, and the original signer is the one it set.

The two of refusals are about steps: of all the actions only `Submit` refuses a withdrawal, and only
`Store` an upload. `MoneyInv` says what such a job holds by then. A withdrawal carries the
balance that was read, the signature of the wallet it empties and no blockhash yet
(`OfWithdrawAll`), and nothing of it was sent before (`Unsent`), so the simulation has no reason to
refuse it but the balances; an upload has had credited what its balance lacked of
the price (`OfUpload`).

`TypeOK` bounds the balances at the node, and those grow by what uploads pay and shrink by
what is withdrawn, on another ledger than the SOL and at other times. A payment that landed
and is not credited yet would be missing from both, so `SolInv` counts it as well: `Due` is
what the node owes to the jobs whose payment landed and that still wait for its credit. The
SOL of all wallets never exceeds what wallets and balances held at first (`Total`, `Room`), nor
do the users' wallets, the balances and what is due taken together (`Spare`); the node's own wallet is left out of the second sum,
since what it holds is what the others have there. A payment that lands moves its amount
from a wallet to what is due (`LandSum`), the credit moves it to the balance
(`CreditedSum`), a caller who gives up or tries again forgets it (`SettlesSum`), and a
withdrawal moves it back (`WithdrawLoadedSum`). This needs that a job pays for itself
(`Sane`), so that one landing is due to one job, and that the node never pays anybody but
in a withdrawal. `NobodyIsCreditedTwice` states the two sums.

### Tokens and editions

`EditionsProofs.tla`, for any wallets and keys in their hands, accounts, amounts and
numbers of transactions in flight, and for all the operations at once. Assumptions on
constants (in `TokenProgram.tla`, `EditionProgram.tla` and `Editions.tla`): every wallet has
an associated account that belongs to it, the tokens for "nothing" (`NoKey`, `NoAccount`,
`NoSight`, `Edition`, `Refused`) differ from the values they stand beside, callers move at least one token; `NoAmount`, a supply
that is left out, is not a number, as zero is.

| Theorem | States |
|---|---|
| `Invariant` | `Spec => []Inv`, the inductive invariant |
| `OnlyRacesRefused` | `Spec => []OnlyRacesAreRefused` |
| `SendsMoveWhatWasAsked` | `Spec => []SendMovesWhatWasAsked` |
| `CreatedAreFound` | `Spec => []CreatedIsFound` |
| `PrintsAreOnlyRefusedIfRaced` | `Spec => []PrintIsOnlyRefusedIfRaced` |
| `CountInvariant` | `Spec => []CountInv`, the inductive invariant of the amounts |
| `SupplyHeld` | `Spec => []SupplyIsHeld` |
| `TypeCorrect` | `Spec => []TypeOK` |

None of the four properties of races is inductive: each says what *would* happen to a transaction if it landed
now. `Inv` relates the transactions in the network to the ledger they will meet.

- `Coherent`: nothing exists without its mint, an address without an account holds
  nothing, an edition is the authority of its mint.
- `Numbered`: the prints have the numbers from 1 to how many there are, so one more
  than the supply is free, and a number is taken only because somebody was faster.
- `Built`: a transaction is what its builder made of what was asked for and of what its
  handler saw (`saw`).
- `Remains`: what of that is still true. Prints are only added, and an account that was
  seen is still there, unless its NFT was burnt, and then the edition is the mint
  authority for good. The keypair of the mint is used once, so the transaction that
  creates it meets no mint.

`Run` and the lemmas `AfterAppend`, `AfterOne` and `AfterTwo` replace the execution of a
sequence of instructions, whichever of them are sent, by a chain of single ones; one lemma
per instruction (`RunToken`, `RunTokens`, ...) says what it does to a coherent ledger.

`SupplyIsHeld`: the supply of the mint is the sum of what its accounts hold, and 1 once it has an
edition. `Counted` adds the bounds of what delegates may take and use, `Fits` that a
transaction has at most five instructions, which is what the longest builder sends. Each
instruction changes the supply by what it changes an account (`SumChanges`), moves an amount
between two accounts (`SumMoves`), or leaves both alone. `TypeOK` follows as for the
auctions. What a use authority may still use is bounded like
any other amount.

### The metadata of NFTs

`NftMetadataProofs.tla`, for any clients, keys, creators, collections, texts and numbers of
transactions in flight. Assumptions on constants (in `NftMetadataProgram.tla`,
`NftMetadataBuilders.tla` and `NftMetadata.tla`): the tokens for "nothing" (`NoKey`,
`NoCollection`, `Legacy`, `Keep`, `Refused`) differ from the values they stand beside,
clients, creators, the holder and the owners of collections have keys, a collection starts
with a size in range or none, and callers ask for values of the right kinds.

| Theorem | States |
|---|---|
| `Invariant` | `Spec => []Inv`, the inductive invariant |
| `TypeCorrect` | `Spec => []TypeOK` |
| `CreatesKeepTheirPromise` | `Spec => []CreateKeepsItsPromise` |
| `UpdatesAreExact` | `Spec => []UpdateIsExact` |
| `SizesFollowMembers` | `Spec => []SizeFollowsMembers` |

`Inv` says that only an NFT that exists is verified, and only in a collection (`Sound`), and that a
transaction is what its builder made of a model and of what was asked for (`Built`).
What a transaction does is a chain of instructions, each sent or not: unverification,
metadata, creators, verification. Lemmas on each of them say what it leaves
(`UnverificationRuns`, `MetadataRuns`, `CreatorsRun`, `VerificationRuns`) and what it needs to be
accepted (`UnverificationFits`, `MetadataFits`, `CreatorsFit`, `VerificationFits`). From a current
model, `UpdateLands` puts them together: an update that is permitted is accepted and exact.
`UpdateNeeds` says that nothing else is accepted, the rename of an NFT in a verified
collection included, and `UpdateMakesNothingUp` is about all other models.

`Follows` is what the sizes need of an instruction: the size of a sized collection less the
NFT, if it is a verified member, stays as it was. It is transitive and holds of every instruction
but two, an update of the metadata of a verified NFT, which takes the verification
away or keeps it, and a deletion from a collection of size 0. `UpdateCounts` follows the first
through the transaction: the unverification before it does the counting if it is sent,
and where it is not (`StillCounted`) the size is off by exactly one.

### Sums

`Sums.tla` defines what it is that amounts add up to a total without recursion, about which
nothing could be proved here: `AddsUp(amounts, total)` if `total` coins can be dealt out so that
everybody gets as many as his amount. It is used in the assumptions on what is held at
first, where TLC evaluates it, and in the invariants. `SumProofs.tla` proves what the ledgers
need, for functions of any domain: nobody has more than the total (`SumBounds`), giving and
taking change the total by as much (`SumGrows`, `SumShrinks`, `SumChanges`), and moving does
not change it (`SumMoves`).

### What is only model-checked

The liveness properties `RunningEnds` and `EveryRunSettles`, which are out of the prover's
reach: they need fairness and `ENABLED`.

Everything else that a run checks is proved for all values of the constants, some of it under the
conditions named above. The proofs take the models as they are: that these are faithful to the code is
for the reader to see, with the lines that `PROJECT.json` maps.

## 10. Disagreements found

Each is a run whose counterexample shows it.

1. `auction_digits`: `executeSale` decides whether a sale is partial by `<` on two `BN`
   objects, which compares their decimal texts. A bid for two of ten tokens is sent as
   a whole sale, which names a trade state that does not exist.
2. `nft_unmentioned`: `updateNft` takes a collection that its caller does not mention for
   one to be removed, although the parameter "Defaults to not being updated". An update that
   asks for nothing else consists of an unverification, and the NFT leaves the collection it
   is verified in. One that changes the name sends the unverification and then metadata in
   which the collection is still marked as verified; the program refuses that as a whole, so
   the NFT stays in and keeps its name (`UpdateIsExact` has both cases).

Noted while modelling, without a run of their own:

- `run()` refuses a second execution only while the *status* is "running". Preloading,
  resetting or canceling changes the status while the callback goes on; a fresh or forced
  run then executes a second time. A completed task that is aborted before its
  `Disposable` closes is "canceled" and keeps its result (`CancelCompleted` in `TaskContract`).
- The default index of `insertItems` is the *number* of lines written. After an insert at
  an explicit index past the end it points into written lines, and "simply appended" items
  overwrite them; the properties of the lines are stated for callers who leave the index
  to its default.
- A presale counts as live for everybody: `assertCandyMachineIsLive` does not look for the
  payer's whitelist token, so somebody without one passes the checks and pays the bot tax.
- `assertNotEmpty` lets a mint pass when fewer items are available than were minted; a
  stale update of a candy machine puts back the settings others changed.
- The `Purchase` of a partial sale reports the price and the number of tokens of the
  whole listing. A listing of tokens on an account that is not the associated one can be
  neither canceled nor sold from the `Listing` that `createListing` answers with. Prices
  per token are compared rounded down.
- A house cannot be handed over and get an auctioneer in one update. `findByAddress`
  takes the record of the auctioneer it is told, also if he was replaced.
- An update that asks for the collection in which the NFT is already verified counts
  it a second time in a sized collection.
- `sendTokens` with an owner who is a `Signer` *and* a delegate lacks the signature of the
  delegate, and is not sent.
- Two first uses of the Bundlr driver make two clients, and `fund` tops up the balance of
  the one that stays. A payment whose confirmation was given up is not credited.
- `deriveFrom` replaces the original signer before the message is signed: a refusal, or
  two calls that overlap, leave a pair that does not match. `withdrawAll` always fails if
  the identity is the derived wallet itself, which has to pay the fee.
- An operation that is called again because its confirmation failed pays twice; only a
  `Transaction` object that is sent again does not.

## 11. What is not modelled

- The parts with status `not_modelled` in `PROJECT.json`, each with its reason.
- Of tasks: `children` and `context`, which no code reads; nested tasks.
- Of candy machines: the searches, the limits on lengths and the number of
  creators, discounts, gatekeepers and treasury mints, whitelist tokens that run out, and
  clocks that differ from the cluster's.
- Of auction houses: what section 5 abstracts; the searches.
- Of NFTs and tokens: the searches, multisigs, the JSON metadata and its upload, and
  accounts other than the associated ones.
- Of wallets: wallet adapters, what a file costs, the web client of Bundlr.
- AWS and NFT.Storage uploads, error texts, logging: pure I/O or no state.
