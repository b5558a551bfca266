---------------------------- MODULE BundlrStorage ----------------------------
(***************************************************************************)
(* The Bundlr storage driver: a client made on first use in the name of    *)
(* the identity of that moment, a balance at the node that is topped up    *)
(* before each upload, and uploads that the node charges to it.            *)
(***************************************************************************)
EXTENDS RpcClient

CONSTANTS
  Node,      \* the wallet of the Bundlr node
  Cost,      \* what the node charges for an upload
  Price,     \* what the driver asks: the cost times priceMultiplier
  MinimumBalance   \* what withdrawAll leaves

ASSUME BundlrAssumption ==
  /\ Node \in Wallets /\ MinimumBalance \in Nat
  /\ Cost \in Nat /\ Price \in Nat /\ Cost <= Price

VARIABLES
  client,   \* the owner of the client that the driver holds
  loaded    \* the balance of each wallet at the node

bundlrVars == <<client, loaded>>

\* bundlr(): makes a client unless there is one.
UseClient(j, kind) ==
  /\ jobs[j].kind = "none"
  /\ jobs' = [jobs EXCEPT ![j].kind = kind,
                          ![j].client = IF client = NoWallet THEN identity ELSE client,
                          ![j].step = IF client = NoWallet THEN "connecting"
                                      ELSE "connected"]
  /\ UNCHANGED <<sol, clock, network, landed, bounced, identity, bundlrVars>>

\* uploadAll, and withdrawAll.
Upload(j) == UseClient(j, "upload")

Unload(j) == UseClient(j, "unload")

\* initBundlr: of two first uses each makes a client, and the last one stays.
Connect(j) ==
  /\ jobs[j].step = "connecting"
  /\ client' = jobs[j].client
  /\ jobs' = [jobs EXCEPT ![j].step = "connected"]
  /\ UNCHANGED <<sol, clock, network, landed, bounced, identity, loaded>>

\* FailedToConnectToBundlrAddressError.
ConnectFails(j) ==
  /\ jobs[j].step = "connecting"
  /\ jobs' = [jobs EXCEPT ![j].step = "failed"]
  /\ UNCHANGED <<sol, clock, network, landed, bounced, identity, bundlrVars>>

\* Mutant: only funds an empty balance.
MissingIfEmpty(balance) == IF balance = 0 THEN Price ELSE 0

MissingFunds(balance) == IF Price > balance THEN Price - balance ELSE 0

\* fund: reads the balance of the client that the driver holds now.
FundUpload(j) ==
  LET toFund == MissingFunds(loaded[client])
  IN  /\ jobs[j].kind = "upload" /\ jobs[j].step = "connected"
      /\ jobs' = [jobs EXCEPT
           ![j].step = IF toFund = 0 THEN "upload" ELSE "ready",
           ![j].saw = loaded[client],
           ![j].keys = {client},
           ![j].tx = IF toFund = 0 THEN NoTx
                     ELSE [NewTransaction(j, client, Node, toFund) EXCEPT !.payer = client]]
      /\ UNCHANGED <<sol, clock, network, landed, bounced, identity, bundlrVars>>

\* The node credits a payment that its client has confirmed.
Credited(j) ==
  /\ jobs[j].kind = "upload" /\ jobs[j].step = "sent"
  /\ jobs[j].tx \in landed \cup bounced
  /\ IF jobs[j].tx \in landed
     THEN /\ loaded' = [loaded EXCEPT ![jobs[j].tx.from] = @ + jobs[j].tx.amount]
          /\ jobs' = [jobs EXCEPT ![j].step = "upload"]
     ELSE /\ jobs' = [jobs EXCEPT ![j].step = "failed"]
          /\ UNCHANGED loaded
  /\ UNCHANGED <<sol, clock, network, landed, bounced, identity, client>>

\* With the client it started with.  AssetUploadFailedError if the node refuses.
Store(j) ==
  LET paid == loaded[jobs[j].client] >= Cost
  IN  /\ jobs[j].step = "upload"
      /\ loaded' = IF paid THEN [loaded EXCEPT ![jobs[j].client] = @ - Cost] ELSE loaded
      /\ jobs' = [jobs EXCEPT ![j].step = IF paid THEN "done" ELSE "failed"]
      /\ UNCHANGED <<sol, clock, network, landed, bounced, identity, client>>

\* Mutant: withdraws whatever the balance is.
TakesAnyhow(balance) == TRUE

MayTake(balance) == balance >= MinimumBalance

\* withdrawAll reads the balance and keeps a minimum; nothing is done below it.
ReadLoaded(j) ==
  LET balance == loaded[jobs[j].client]
  IN  /\ jobs[j].kind = "unload" /\ jobs[j].step = "connected"
      /\ jobs' = IF MayTake(balance)
                 THEN [jobs EXCEPT ![j].step = "read",
                                   ![j].saw = balance - MinimumBalance]
                 ELSE [jobs EXCEPT ![j].step = "done"]
      /\ UNCHANGED <<sol, clock, network, landed, bounced, identity, bundlrVars>>

\* BundlrWithdrawError if the node refuses.
WithdrawLoaded(j) ==
  LET paid == loaded[client] >= jobs[j].saw /\ sol[Node] >= jobs[j].saw
  IN  /\ jobs[j].kind = "unload" /\ jobs[j].step = "read"
      /\ IF paid
         THEN /\ loaded' = [loaded EXCEPT ![client] = @ - jobs[j].saw]
              /\ sol' = [sol EXCEPT ![Node] = @ - jobs[j].saw, ![client] = @ + jobs[j].saw]
         ELSE UNCHANGED <<loaded, sol>>
      /\ jobs' = [jobs EXCEPT ![j].step = IF paid THEN "done" ELSE "failed"]
      /\ UNCHANGED <<clock, network, landed, bounced, identity, client>>
=============================================================================
