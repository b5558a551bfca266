---------------------------- MODULE TokenProgram ----------------------------
(***************************************************************************)
(* The on-chain side of the tokens of one mint, which is not part of this  *)
(* repository: the accounts the SDK reads and the instructions of the SPL  *)
(* Token program that its builders send.  Modelled from how the SDK uses   *)
(* it (the builders and the integration tests).                            *)
(***************************************************************************)
EXTENDS Integers, Sequences, FiniteSets

CONSTANTS
  Wallets,
  Accounts,   \* addresses of token accounts of the mint
  Owner,      \* the wallet each of them belongs to
  Ata,        \* the associated token account of each wallet
  NoKey,      \* no authority, no delegate
  Edition,    \* the authority that the master edition of an NFT is
  MaxSupply,  \* bound: tokens of the mint
  Refused     \* the outcome of a transaction that fails

ASSUME AccountsAssumption ==
  /\ Owner \in [Accounts -> Wallets]
  /\ Ata \in [Wallets -> Accounts]
  /\ \A w \in Wallets : Owner[Ata[w]] = w
  /\ NoKey \notin Wallets /\ Edition \notin Wallets /\ NoKey # Edition
  /\ MaxSupply \in Nat

TokensOf(amounts) ==
  [exists    : BOOLEAN,
   amount    : amounts,
   delegate  : Wallets \cup {NoKey},
   delegated : amounts,               \* what the delegate may take
   frozen    : BOOLEAN]

NoToken ==
  [exists |-> FALSE, amount |-> 0, delegate |-> NoKey, delegated |-> 0, frozen |-> FALSE]

\* A token account takes part in an instruction.
Usable(l, account) == l.token[account].exists /\ ~l.token[account].frozen

-----------------------------------------------------------------------------
InitializeMint(l, i) ==
  IF l.mint THEN Refused
  ELSE [l EXCEPT !.mint = TRUE, !.mintAuthority = i.authority,
                 !.freezeAuthority = i.freeze]

CreateTokenAccount(l, i) ==
  IF l.mint /\ ~l.token[i.account].exists
  THEN [l EXCEPT !.token[i.account] = [NoToken EXCEPT !.exists = TRUE]]
  ELSE Refused

MintTo(l, i) ==
  IF /\ l.mint /\ i.signer = l.mintAuthority /\ Usable(l, i.account)
     /\ l.supply + i.amount <= MaxSupply
  THEN [l EXCEPT !.supply = @ + i.amount, !.token[i.account].amount = @ + i.amount]
  ELSE Refused

\* A delegate uses up what was delegated to him.
Taken(token, i) ==
  LET left == [token EXCEPT !.amount = @ - i.amount]
  IN  IF i.signer = Owner[i.from] THEN left
      ELSE IF token.delegated = i.amount
           THEN [left EXCEPT !.delegate = NoKey, !.delegated = 0]
           ELSE [left EXCEPT !.delegated = @ - i.amount]

Transfer(l, i) ==
  LET from == l.token[i.from]
      sent == [l EXCEPT !.token[i.from] = Taken(@, i)]
  IN  IF /\ Usable(l, i.from) /\ Usable(l, i.to) /\ i.amount <= from.amount
         /\ \/ i.signer = Owner[i.from]
            \/ i.signer = from.delegate /\ i.amount <= from.delegated
      THEN [sent EXCEPT !.token[i.to].amount = @ + i.amount]
      ELSE Refused

Approve(l, i) ==
  IF Usable(l, i.account) /\ i.signer = Owner[i.account]
  THEN [l EXCEPT !.token[i.account].delegate = i.delegate,
                 !.token[i.account].delegated = i.amount]
  ELSE Refused

Revoke(l, i) ==
  IF Usable(l, i.account) /\ i.signer = Owner[i.account]
  THEN [l EXCEPT !.token[i.account].delegate = NoKey, !.token[i.account].delegated = 0]
  ELSE Refused

Freeze(l, i) ==
  IF Usable(l, i.account) /\ i.signer = l.freezeAuthority
  THEN [l EXCEPT !.token[i.account].frozen = TRUE] ELSE Refused

Thaw(l, i) ==
  IF l.token[i.account].frozen /\ i.signer = l.freezeAuthority
  THEN [l EXCEPT !.token[i.account].frozen = FALSE] ELSE Refused
=============================================================================
