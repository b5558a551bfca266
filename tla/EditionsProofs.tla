--------------------------- MODULE EditionsProofs ---------------------------
(* Theorems about Editions, for any wallets, accounts, amounts and numbers *)
(* of transactions in the network.                                         *)
EXTENDS Editions, SumProofs, SequenceTheorems

\* The instructions that create the mint, those that print, and all others.
Creations ==
  [type : {"initializeMint"}, authority : Wallets, freeze : Wallets]

Printings ==
  [type : {"print"}, signer : Wallets, account : Accounts, number : Nat, owner : Wallets]

Ordinary ==
  [type : {"createToken"}, account : Accounts]
  \cup [type : {"mintTo"}, signer : Wallets, account : Accounts, amount : Nat]
  \cup [type : {"transfer"}, from : Accounts, to : Accounts, amount : Nat, signer : Wallets]
  \cup [type : {"approve"}, signer : Wallets, account : Accounts, delegate : Wallets,
        amount : 0 .. MaxSupply]
  \cup [type : {"revoke", "freeze", "thaw", "freezeDelegated", "thawDelegated", "burnNft"},
        signer : Wallets, account : Accounts]
  \cup [type : {"createMetadata"}, signer : Wallets]
  \cup [type : {"createMasterEdition"}, signer : Wallets, max : 0 .. MaxPrints]
  \cup [type : {"utilize"}, signer : Wallets, owner : Wallets, account : Accounts,
        count : Nat, delegated : BOOLEAN]
  \cup [type : {"approveUse"}, signer : Wallets, account : Accounts, user : Wallets,
        count : 0 .. MaxSupply]
  \cup [type : {"revokeUse"}, signer : Wallets, account : Accounts, user : Wallets]

(* Nothing exists without its mint, an address without an account holds    *)
(* nothing, and an edition is the authority of its mint.                   *)
Coherent(l) ==
  /\ l \in LedgersOf(Int, Int)
  /\ ~l.mint => l.mintAuthority = NoKey /\ ~l.metadata
  /\ l.edition => l.mintAuthority = Edition
  /\ \A a \in Accounts : IF l.token[a].exists THEN l.mint ELSE l.token[a].amount = 0

\* What cannot be undone: only the burning of an NFT closes an account.
Follows(l, k) ==
  /\ l.mint => k.mint
  /\ l.mintAuthority = Edition => k.mintAuthority = Edition
  /\ \A a \in Accounts :
       l.token[a].exists => k.token[a].exists \/ k.mintAuthority = Edition

-----------------------------------------------------------------------------
(* An account that changes leaves the rest as it is.                       *)
LEMMA TokenChanges ==
  ASSUME NEW l, Coherent(l), NEW f \in [Accounts -> TokensOf(Int)],
         \A a \in Accounts : IF f[a].exists THEN l.mint ELSE f[a].amount = 0,
         \A a \in Accounts : l.token[a].exists => f[a].exists,
         NEW k, k = [l EXCEPT !.token = f]
  PROVE  Coherent(k) /\ Follows(l, k) /\ k.mint = l.mint /\ k.prints = l.prints
BY DEF Coherent, Follows, LedgersOf

LEMMA NoTokenType == NoToken \in TokensOf(Int)
BY DEF NoToken, TokensOf

LEMMA TokenExists ==
  ASSUME NEW token \in TokensOf(Int), NEW b \in BOOLEAN
  PROVE  [token EXCEPT !.exists = b] \in TokensOf(Int) /\ [token EXCEPT !.exists = b].exists = b
BY DEF TokensOf

LEMMA TokenFrozen ==
  ASSUME NEW token \in TokensOf(Int), NEW b \in BOOLEAN
  PROVE  /\ [token EXCEPT !.frozen = b] \in TokensOf(Int)
         /\ [token EXCEPT !.frozen = b].exists = token.exists
         /\ [token EXCEPT !.frozen = b].amount = token.amount
BY DEF TokensOf

LEMMA TokenOrdinary ==
  ASSUME NEW l, Coherent(l), NEW i \in Ordinary, Execute(l, i) # Refused,
         i.type \in {"createToken", "approve", "revoke", "freeze", "thaw",
                     "freezeDelegated", "thawDelegated"}
  PROVE  /\ Coherent(Execute(l, i)) /\ Follows(l, Execute(l, i))
         /\ Execute(l, i).mint = l.mint /\ Execute(l, i).prints = l.prints
<1>0. i.account \in Accounts /\ l.token \in [Accounts -> TokensOf(Int)]
  BY DEF Ordinary, Coherent, LedgersOf
<1> DEFINE token == l.token[i.account]
           With(new) == [l.token EXCEPT ![i.account] = new]
<1>1. token \in TokensOf(Int)
  BY <1>0
<1>2. ASSUME NEW t \in TokensOf(Int), t.exists, l.mint,
             Execute(l, i) = [l EXCEPT !.token = With(t)]
      PROVE  /\ Coherent(Execute(l, i)) /\ Follows(l, Execute(l, i))
             /\ Execute(l, i).mint = l.mint /\ Execute(l, i).prints = l.prints
  <2>1. /\ With(t) \in [Accounts -> TokensOf(Int)]
        /\ \A a \in Accounts : With(t)[a] = IF a = i.account THEN t ELSE l.token[a]
    BY <1>0
  <2> HIDE DEF With
  <2>2. \A a \in Accounts : IF With(t)[a].exists THEN l.mint ELSE With(t)[a].amount = 0
    BY <1>2, <2>1 DEF Coherent
  <2>3. \A a \in Accounts : l.token[a].exists => With(t)[a].exists
    BY <1>2, <2>1
  <2> DEFINE k == Execute(l, i)
  <2>4. k = [l EXCEPT !.token = With(t)]
    BY <1>2
  <2> HIDE DEF k
  <2>5. Coherent(k) /\ Follows(l, k) /\ k.mint = l.mint /\ k.prints = l.prints
    BY <2>1, <2>2, <2>3, <2>4, TokenChanges
  <2>6. QED
    BY <2>5 DEF k
<1>3. CASE i.type = "createToken"
  <2>1. Execute(l, i) = CreateTokenAccount(l, i)
    BY <1>3 DEF Execute
  <2> DEFINE t == [NoToken EXCEPT !.exists = TRUE]
  <2>2. t \in TokensOf(Int) /\ t.exists
    BY NoTokenType, TokenExists
  <2>3. l.mint /\ Execute(l, i) = [l EXCEPT !.token = With(t)]
    BY <2>1 DEF CreateTokenAccount
  <2>4. QED
    BY <1>2, <2>2, <2>3
<1>4. CASE i.type = "approve"
  <2>1. Execute(l, i) = Approve(l, i)
    BY <1>4 DEF Execute
  <2> DEFINE t == [token EXCEPT !.delegate = i.delegate, !.delegated = i.amount]
  <2>2. i.delegate \in Wallets /\ i.amount \in Int
    BY <1>4 DEF Ordinary
  <2>3. l.mint /\ token.exists
    BY <1>0, <2>1 DEF Approve, Usable, Coherent
  <2>4. t \in TokensOf(Int) /\ t.exists
    BY <1>1, <2>2, <2>3 DEF TokensOf
  <2>5. Execute(l, i) = [l EXCEPT !.token = With(t)]
    BY <1>0, <2>1 DEF Approve, Coherent, LedgersOf
  <2>6. QED
    BY <1>2, <2>3, <2>4, <2>5
<1>5. CASE i.type = "revoke"
  <2>1. Execute(l, i) = Revoke(l, i)
    BY <1>5 DEF Execute
  <2> DEFINE none == 0
             t == [token EXCEPT !.delegate = NoKey, !.delegated = none]
  <2>2. l.mint /\ token.exists
    BY <1>0, <2>1 DEF Revoke, Usable, Coherent
  <2>3. Execute(l, i) = [l EXCEPT !.token = With(t)]
    BY <1>0, <2>1 DEF Revoke, Coherent, LedgersOf
  <2>4. none \in Int
    OBVIOUS
  <2> HIDE DEF none
  <2>5. t \in TokensOf(Int) /\ t.exists
    BY <1>1, <2>2, <2>4 DEF TokensOf
  <2>6. QED
    BY <1>2, <2>2, <2>3, <2>5
<1>6. CASE i.type \in {"freeze", "freezeDelegated"}
  <2> DEFINE t == [token EXCEPT !.frozen = TRUE]
  <2>1. l.mint /\ token.exists
    BY <1>0, <1>6 DEF Execute, Freeze, FreezeDelegated, Usable, Coherent
  <2>2. t \in TokensOf(Int) /\ t.exists
    BY <1>1, <2>1, TokenFrozen
  <2>3. Execute(l, i) = [l EXCEPT !.token = With(t)]
    BY <1>6 DEF Execute, Freeze, FreezeDelegated
  <2>4. QED
    BY <1>2, <2>1, <2>2, <2>3
<1>7. CASE i.type \in {"thaw", "thawDelegated"}
  <2> DEFINE t == [token EXCEPT !.frozen = FALSE]
  <2>1. t \in TokensOf(Int) /\ t.exists = token.exists /\ t.amount = token.amount
    BY <1>1, TokenFrozen
  <2>2. Execute(l, i) = [l EXCEPT !.token = With(t)]
    BY <1>7 DEF Execute, Thaw, ThawDelegated
  <2>3. /\ With(t) \in [Accounts -> TokensOf(Int)]
        /\ \A a \in Accounts : With(t)[a] = IF a = i.account THEN t ELSE l.token[a]
    BY <1>0, <2>1
  <2> HIDE DEF With, t
  <2>4. \A a \in Accounts : IF With(t)[a].exists THEN l.mint ELSE With(t)[a].amount = 0
    BY <2>1, <2>3 DEF Coherent
  <2>5. \A a \in Accounts : l.token[a].exists => With(t)[a].exists
    BY <2>1, <2>3
  <2>6. QED
    BY <2>2, <2>3, <2>4, <2>5, TokenChanges
<1>8. QED
  BY <1>3, <1>4, <1>5, <1>6, <1>7

\* A delegate uses up what was delegated to him.
LEMMA TakenType ==
  ASSUME NEW token \in TokensOf(Int), NEW i \in Ordinary, i.type = "transfer"
  PROVE  /\ Taken(token, i) \in TokensOf(Int)
         /\ Taken(token, i).exists = token.exists
         /\ Taken(token, i).amount = token.amount - i.amount
<1> DEFINE left == [token EXCEPT !.amount = @ - i.amount]
           none == 0
<1>1. i.amount \in Int /\ none \in Int
  BY DEF Ordinary
<1>2. /\ left \in TokensOf(Int) /\ left.exists = token.exists
      /\ left.amount = token.amount - i.amount
  BY <1>1 DEF TokensOf
<1> HIDE DEF left, none
<1>3. /\ [left EXCEPT !.delegate = NoKey, !.delegated = none] \in TokensOf(Int)
      /\ [left EXCEPT !.delegate = NoKey, !.delegated = none].exists = left.exists
      /\ [left EXCEPT !.delegate = NoKey, !.delegated = none].amount = left.amount
  BY <1>1, <1>2 DEF TokensOf
<1>4. /\ [left EXCEPT !.delegated = @ - i.amount] \in TokensOf(Int)
      /\ [left EXCEPT !.delegated = @ - i.amount].exists = left.exists
      /\ [left EXCEPT !.delegated = @ - i.amount].amount = left.amount
  BY <1>1, <1>2 DEF TokensOf
<1>5. \/ Taken(token, i) = left
      \/ Taken(token, i) = [left EXCEPT !.delegate = NoKey, !.delegated = none]
      \/ Taken(token, i) = [left EXCEPT !.delegated = @ - i.amount]
  BY DEF Taken, left, none
<1>6. QED
  BY <1>2, <1>3, <1>4, <1>5

Transferable(l, i) ==
  LET from == l.token[i.from]
  IN  /\ Usable(l, i.from) /\ Usable(l, i.to) /\ i.amount <= from.amount
      /\ \/ i.signer = Owner[i.from]
         \/ i.signer = from.delegate /\ i.amount <= from.delegated

(* A transfer moves its amount from one account to the other, and leaves   *)
(* all there is besides as it was.                                         *)
LEMMA TransferMoves ==
  ASSUME NEW l, Coherent(l), NEW i \in Ordinary, i.type = "transfer", Transferable(l, i)
  PROVE  \E f \in [Accounts -> TokensOf(Int)] :
           /\ Transfer(l, i) = [l EXCEPT !.token = f]
           /\ \A a \in Accounts :
                /\ f[a].exists = l.token[a].exists
                /\ f[a].amount = l.token[a].amount + (IF a = i.to THEN i.amount ELSE 0)
                                   - (IF a = i.from THEN i.amount ELSE 0)
<1> DEFINE g == [l.token EXCEPT ![i.from] = Taken(@, i)]
           f == [g EXCEPT ![i.to].amount = @ + i.amount]
<1>1. /\ i.from \in Accounts /\ i.to \in Accounts /\ i.amount \in Int
      /\ l.token \in [Accounts -> TokensOf(Int)]
  BY DEF Ordinary, Coherent, LedgersOf
<1>2. /\ g \in [Accounts -> TokensOf(Int)]
      /\ \A a \in Accounts :
           /\ g[a].exists = l.token[a].exists
           /\ g[a].amount = l.token[a].amount - (IF a = i.from THEN i.amount ELSE 0)
  <2>1. /\ Taken(l.token[i.from], i) \in TokensOf(Int)
        /\ Taken(l.token[i.from], i).exists = l.token[i.from].exists
        /\ Taken(l.token[i.from], i).amount = l.token[i.from].amount - i.amount
    BY <1>1, TakenType
  <2>2. \A a \in Accounts : g[a] = IF a = i.from THEN Taken(l.token[a], i) ELSE l.token[a]
    BY <1>1
  <2>3. \A a \in Accounts : l.token[a].amount \in Int
    BY <1>1 DEF TokensOf
  <2>4. g \in [Accounts -> TokensOf(Int)]
    BY <1>1, <2>1
  <2> HIDE DEF g
  <2>5. QED
    BY <1>1, <2>1, <2>2, <2>3, <2>4
<1> DEFINE h == [l EXCEPT !.token[i.from] = Taken(@, i)]
<1>3. Transfer(l, i) = [l EXCEPT !.token = f]
  <2>1. h = [l EXCEPT !.token = g] /\ h.token = g
    BY DEF Coherent, LedgersOf
  <2>2. Transfer(l, i) = [h EXCEPT !.token[i.to].amount = @ + i.amount]
    BY DEF Transfer, Transferable
  <2> HIDE DEF h, g
  <2>3. [h EXCEPT !.token[i.to].amount = @ + i.amount] = [h EXCEPT !.token = f]
    BY <2>1
  <2>4. QED
    BY <2>1, <2>2, <2>3 DEF Coherent, LedgersOf
<1> HIDE DEF g, h
<1> DEFINE t == [g[i.to] EXCEPT !.amount = @ + i.amount]
<1>4. t \in TokensOf(Int) /\ t.exists = g[i.to].exists /\ t.amount = g[i.to].amount + i.amount
  BY <1>1, <1>2 DEF TokensOf
<1>5. f = [g EXCEPT ![i.to] = t]
  OBVIOUS
<1> HIDE DEF t, f
<1>6. f \in [Accounts -> TokensOf(Int)]
  BY <1>1, <1>2, <1>4, <1>5
<1>7. \A a \in Accounts : f[a] = IF a = i.to THEN t ELSE g[a]
  BY <1>1, <1>2, <1>5
<1>8. \A a \in Accounts : l.token[a].amount \in Int
  BY <1>1 DEF TokensOf
<1>9. ASSUME NEW a \in Accounts
      PROVE  /\ f[a].exists = l.token[a].exists
             /\ f[a].amount = l.token[a].amount + (IF a = i.to THEN i.amount ELSE 0)
                                - (IF a = i.from THEN i.amount ELSE 0)
  BY <1>1, <1>2, <1>4, <1>7, <1>8
<1>10. QED
  BY <1>3, <1>6, <1>9

LEMMA AmountOrdinary ==
  ASSUME NEW l, Coherent(l), NEW i \in Ordinary, Execute(l, i) # Refused,
         i.type \in {"mintTo", "transfer"}
  PROVE  /\ Coherent(Execute(l, i)) /\ Follows(l, Execute(l, i))
         /\ Execute(l, i).mint = l.mint /\ Execute(l, i).prints = l.prints
<1> DEFINE k == Execute(l, i)
<1>1. CASE i.type = "transfer"
  <2>1. k = Transfer(l, i) /\ Transferable(l, i)
    BY <1>1 DEF Execute, Transfer, Transferable
  <2>2. PICK f \in [Accounts -> TokensOf(Int)] :
          /\ k = [l EXCEPT !.token = f]
          /\ \A a \in Accounts :
               /\ f[a].exists = l.token[a].exists
               /\ f[a].amount = l.token[a].amount + (IF a = i.to THEN i.amount ELSE 0)
                                  - (IF a = i.from THEN i.amount ELSE 0)
    BY <1>1, <2>1, TransferMoves
  <2>3. l.token[i.from].exists /\ l.token[i.to].exists
    BY <2>1 DEF Transferable, Usable
  <2>4. \A a \in Accounts : IF f[a].exists THEN l.mint ELSE f[a].amount = 0
    BY <2>2, <2>3 DEF Coherent
  <2> HIDE DEF k
  <2>5. Coherent(k) /\ Follows(l, k) /\ k.mint = l.mint /\ k.prints = l.prints
    BY <2>2, <2>4, TokenChanges
  <2>6. QED
    BY <2>5 DEF k
<1>2. CASE i.type = "mintTo"
  <2>1. i.account \in Accounts /\ i.amount \in Int
    BY <1>2 DEF Ordinary
  <2>2. l.token \in [Accounts -> TokensOf(Int)] /\ l.supply \in Int
    BY DEF Coherent, LedgersOf
  <2> DEFINE t == [l.token[i.account] EXCEPT !.amount = @ + i.amount]
             f == [l.token EXCEPT ![i.account] = t]
             h == [l EXCEPT !.supply = @ + i.amount]
  <2>3. t \in TokensOf(Int) /\ t.exists = l.token[i.account].exists
    BY <2>1, <2>2 DEF TokensOf
  <2>4. l.mint /\ l.token[i.account].exists /\ k = [h EXCEPT !.token = f]
    BY <1>2, <2>1, <2>2 DEF Execute, MintTo, Usable, Coherent, LedgersOf
  <2> HIDE DEF t
  <2>5. f \in [Accounts -> TokensOf(Int)]
          /\ \A a \in Accounts : f[a] = IF a = i.account THEN t ELSE l.token[a]
    BY <2>1, <2>2, <2>3
  <2>6. Coherent(h) /\ Follows(l, h) /\ h.mint = l.mint /\ h.prints = l.prints
          /\ h.token = l.token
    BY <2>1, <2>2 DEF Coherent, Follows, LedgersOf
  <2> HIDE DEF f, h, k
  <2>7. \A a \in Accounts : IF f[a].exists THEN h.mint ELSE f[a].amount = 0
    BY <2>3, <2>4, <2>5, <2>6 DEF Coherent
  <2>8. \A a \in Accounts : h.token[a].exists => f[a].exists
    BY <2>3, <2>5, <2>6
  <2>9. Coherent(k) /\ Follows(h, k) /\ k.mint = h.mint /\ k.prints = h.prints
    BY <2>4, <2>5, <2>6, <2>7, <2>8, TokenChanges
  <2>10. Follows(l, k)
    BY <2>6, <2>9 DEF Follows
  <2>11. QED
    BY <2>6, <2>9, <2>10 DEF k
<1>3. QED
  BY <1>1, <1>2

LEMMA UsesChange ==
  ASSUME NEW l, Coherent(l), NEW u \in Int
  PROVE  LET k == [l EXCEPT !.uses = u]
         IN  /\ Coherent(k) /\ Follows(l, k) /\ k.mint = l.mint /\ k.prints = l.prints
BY DEF Coherent, Follows, LedgersOf

LEMMA MayUseChanges ==
  ASSUME NEW l, Coherent(l), NEW m \in [Wallets -> Int]
  PROVE  LET k == [l EXCEPT !.mayUse = m]
         IN  Coherent(k) /\ Follows(l, k) /\ k.mint = l.mint /\ k.prints = l.prints
BY DEF Coherent, Follows, LedgersOf

LEMMA NftOrdinary ==
  ASSUME NEW l, Coherent(l), NEW i \in Ordinary, Execute(l, i) # Refused,
         i.type \in {"createMetadata", "createMasterEdition", "utilize", "approveUse",
                     "revokeUse", "burnNft"}
  PROVE  /\ Coherent(Execute(l, i)) /\ Follows(l, Execute(l, i))
         /\ Execute(l, i).mint = l.mint /\ Execute(l, i).prints = l.prints
<1> DEFINE none == 0
<1>0. none \in Int /\ MaxUses \in Int
  BY EditionAssumption
<1>1. CASE i.type = "createMetadata"
  <2>1. l.mint /\ Execute(l, i) = [l EXCEPT !.metadata = TRUE, !.uses = MaxUses]
    BY <1>1 DEF Execute, CreateMetadata
  <2>2. QED
    BY <1>0, <2>1 DEF Coherent, Follows, LedgersOf
<1>2. CASE i.type = "createMasterEdition"
  <2>1. /\ l.metadata
        /\ Execute(l, i) = [l EXCEPT !.edition = TRUE, !.max = i.max,
                              !.mintAuthority = Edition, !.freezeAuthority = Edition]
    BY <1>2 DEF Execute, CreateMasterEdition
  <2>2. i.max \in 0 .. MaxPrints
    BY <1>2 DEF Ordinary
  <2>3. QED
    BY <2>1, <2>2 DEF Coherent, Follows, LedgersOf
<1>3. CASE i.type = "utilize"
  <2> DEFINE m == [l.mayUse EXCEPT ![i.signer] = IF i.delegated THEN @ - i.count ELSE @]
  <2>1. i.count \in Int /\ l.mayUse \in [Wallets -> Int] /\ i.signer \in Wallets
          /\ l.uses \in Int
    BY <1>3 DEF Ordinary, Coherent, LedgersOf
  <2>2. Execute(l, i) = [l EXCEPT !.uses = @ - i.count, !.mayUse = m]
    BY <1>3, <2>1 DEF Execute, Utilize
  <2>3. m \in [Wallets -> Int]
    BY <2>1
  <2> DEFINE u == l.uses - i.count
             k == Execute(l, i)
             h == [l EXCEPT !.uses = u]
  <2>4. u \in Int /\ k = [h EXCEPT !.mayUse = m]
    BY <2>1, <2>2
  <2> HIDE DEF m, u, k
  <2>5. Coherent(h) /\ Follows(l, h) /\ h.mint = l.mint /\ h.prints = l.prints
    BY <2>4, UsesChange
  <2> HIDE DEF h
  <2>6. Coherent(k) /\ Follows(h, k) /\ k.mint = h.mint /\ k.prints = h.prints
    BY <2>3, <2>4, <2>5, MayUseChanges
  <2>7. QED
    BY <2>5, <2>6 DEF k, Follows, Coherent
<1>4. CASE i.type \in {"approveUse", "revokeUse"}
  <2> DEFINE m(n) == [l.mayUse EXCEPT ![i.user] = n]
  <2>1. /\ l.mayUse \in [Wallets -> Int] /\ i.user \in Wallets
        /\ i.type = "approveUse" => i.count \in Int
    BY <1>4 DEF Ordinary, Coherent, LedgersOf
  <2>2. \A n \in Int : m(n) \in [Wallets -> Int]
    BY <2>1
  <2>3. PICK n \in Int : Execute(l, i) = [l EXCEPT !.mayUse = m(n)]
    BY <1>4, <1>0, <2>1 DEF Execute, ApproveUse, RevokeUse
  <2> DEFINE k == Execute(l, i)
             r == m(n)
  <2>4. r \in [Wallets -> Int] /\ k = [l EXCEPT !.mayUse = r]
    BY <2>2, <2>3
  <2> HIDE DEF k, r
  <2>5. Coherent(k) /\ Follows(l, k) /\ k.mint = l.mint /\ k.prints = l.prints
    BY <2>4, MayUseChanges
  <2>6. QED
    BY <2>5 DEF k
<1>5. CASE i.type = "burnNft"
  <2> DEFINE f == [l.token EXCEPT ![i.account] = NoToken]
  <2>1. i.account \in Accounts /\ l.token \in [Accounts -> TokensOf(Int)]
    BY <1>5 DEF Ordinary, Coherent, LedgersOf
  <2>2. /\ l.edition
        /\ Execute(l, i) = [l EXCEPT !.metadata = FALSE, !.edition = FALSE,
                              !.supply = none, !.token = f]
    BY <1>5 DEF Execute, BurnNft
  <2>3. /\ f \in [Accounts -> TokensOf(Int)]
        /\ \A a \in Accounts : f[a] = IF a = i.account THEN NoToken ELSE l.token[a]
    BY <2>1, NoTokenType
  <2>4. ~NoToken.exists /\ NoToken.amount = 0
    BY DEF NoToken
  <2> HIDE DEF f, none
  <2>5. \A a \in Accounts : IF f[a].exists THEN l.mint ELSE f[a].amount = 0
    BY <2>3, <2>4 DEF Coherent
  <2>6. l.mintAuthority = Edition
    BY <2>2 DEF Coherent
  <2> DEFINE k == Execute(l, i)
  <2>7. /\ k \in LedgersOf(Int, Int)
        /\ k.mint = l.mint /\ k.mintAuthority = l.mintAuthority /\ k.prints = l.prints
        /\ k.token = f /\ ~k.metadata /\ ~k.edition
    BY <1>0, <2>2, <2>3 DEF Coherent, LedgersOf
  <2> HIDE DEF k
  <2>8. Coherent(k) /\ Follows(l, k)
    BY <2>5, <2>6, <2>7, AccountsAssumption DEF Coherent, Follows
  <2>9. QED
    BY <2>7, <2>8 DEF k
<1>6. QED
  BY <1>1, <1>2, <1>3, <1>4, <1>5

(* Every instruction but the first of a mint and the print of an edition.  *)
LEMMA OrdinarySteps ==
  ASSUME NEW l, Coherent(l), NEW i \in Ordinary, Execute(l, i) # Refused
  PROVE  /\ Coherent(Execute(l, i)) /\ Follows(l, Execute(l, i))
         /\ Execute(l, i).mint = l.mint /\ Execute(l, i).prints = l.prints
<1>1. \/ i.type \in {"createToken", "approve", "revoke", "freeze", "thaw",
                     "freezeDelegated", "thawDelegated"}
      \/ i.type \in {"mintTo", "transfer"}
      \/ i.type \in {"createMetadata", "createMasterEdition", "utilize", "approveUse",
                     "revokeUse", "burnNft"}
  BY DEF Ordinary
<1>2. QED
  BY <1>1, TokenOrdinary, AmountOrdinary, NftOrdinary

LEMMA CreationSteps ==
  ASSUME NEW l, Coherent(l), NEW i \in Creations, Execute(l, i) # Refused
  PROVE  /\ Coherent(Execute(l, i)) /\ Follows(l, Execute(l, i))
         /\ Execute(l, i).prints = l.prints
<1>1. i.type = "initializeMint" /\ i.authority \in Wallets /\ i.freeze \in Wallets
  BY DEF Creations
<1>2. ~l.mint /\ Execute(l, i) = [l EXCEPT !.mint = TRUE, !.mintAuthority = i.authority,
                                            !.freezeAuthority = i.freeze]
  BY <1>1 DEF Execute, InitializeMint
<1>3. ~l.edition /\ l.mintAuthority # Edition
  BY <1>2, AccountsAssumption DEF Coherent
<1>4. QED
  BY <1>1, <1>2, <1>3 DEF Coherent, Follows, LedgersOf

-----------------------------------------------------------------------------
(* Transactions.                                                           *)

LEMMA FollowsOn ==
  ASSUME NEW l, NEW k, NEW m, Follows(l, k), Follows(k, m)
  PROVE  Follows(l, m)
BY DEF Follows

(* A transaction that prints nothing leaves the accounts coherent, does    *)
(* not touch the prints, and only creates the mint if it says so.          *)
LEMMA AfterCoherent ==
  ASSUME NEW l, Coherent(l), NEW s \in Seq(Ordinary \cup Creations),
         After(l, s) # Refused
  PROVE  /\ Coherent(After(l, s)) /\ Follows(l, After(l, s))
         /\ After(l, s).prints = l.prints
         /\ s \in Seq(Ordinary) => After(l, s).mint = l.mint
<1> DEFINE Good(k) == /\ Coherent(k) /\ Follows(l, k) /\ k.prints = l.prints
                      /\ s \in Seq(Ordinary) => k.mint = l.mint
           Fine(k) == k = Refused \/ Good(k)
<1>1. ASSUME NEW k, Fine(k), NEW n \in Nat \ {0} PROVE Fine(Step(k, s, n))
  <2>1. CASE k = Refused \/ n > Len(s)
    BY <1>1, <2>1 DEF Step
  <2>2. CASE k # Refused /\ ~(n > Len(s)) /\ Execute(k, s[n]) # Refused
    <3>1. s[n] \in Ordinary \cup Creations /\ (s \in Seq(Ordinary) => s[n] \in Ordinary)
      BY <2>2
    <3>2. Step(k, s, n) = Execute(k, s[n])
      BY <2>2 DEF Step
    <3>3. Good(k)
      BY <1>1, <2>2
    <3> DEFINE m == Execute(k, s[n])
    <3>4. /\ Coherent(m) /\ Follows(k, m) /\ m.prints = k.prints
          /\ s[n] \in Ordinary => m.mint = k.mint
      BY <2>2, <3>1, <3>3, OrdinarySteps, CreationSteps
    <3> HIDE DEF m
    <3>5. Good(m)
      BY <3>1, <3>3, <3>4, FollowsOn
    <3>6. QED
      BY <3>2, <3>5 DEF m
  <2>3. CASE k # Refused /\ ~(n > Len(s)) /\ Execute(k, s[n]) = Refused
    BY <2>3 DEF Step
  <2>4. QED
    BY <2>1, <2>2, <2>3
<1>2. Fine(l)
  BY DEF Follows
<1> HIDE DEF Fine
<1> DEFINE k1 == Step(l, s, 1)
           k2 == Step(k1, s, 2)
           k3 == Step(k2, s, 3)
           k4 == Step(k3, s, 4)
           k5 == Step(k4, s, 5)
<1>3. Fine(k1)
  BY <1>1, <1>2
<1> HIDE DEF k1
<1>4. Fine(k2)
  BY <1>1, <1>3
<1> HIDE DEF k2
<1>5. Fine(k3)
  BY <1>1, <1>4
<1> HIDE DEF k3
<1>6. Fine(k4)
  BY <1>1, <1>5
<1> HIDE DEF k4
<1>7. Fine(k5)
  BY <1>1, <1>6
<1>8. After(l, s) = k5
  BY DEF After, MaxInstructions, k1, k2, k3, k4
<1> HIDE DEF k5
<1>9. QED
  BY <1>7, <1>8 DEF Fine

\* The execution of one more instruction.
Run(l, i) == IF l # Refused THEN Execute(l, i) ELSE l

LEMMA AfterNothing == ASSUME NEW l PROVE After(l, <<>>) = l
BY DEF After, Step, MaxInstructions

(* An instruction that is appended to a transaction is executed after it.  *)
LEMMA AfterAppend ==
  ASSUME NEW T, NEW s \in Seq(T), Len(s) < 5, NEW i \in T, NEW l
  PROVE  /\ After(l, s \o <<i>>) = Run(After(l, s), i)
         /\ s \o <<i>> \in Seq(T)
         /\ Len(s \o <<i>>) = Len(s) + 1
<1> DEFINE t == s \o <<i>>
<1>1. /\ t \in Seq(T) /\ Len(t) = Len(s) + 1 /\ t[Len(s) + 1] = i
      /\ \A n \in 1 .. Len(s) : t[n] = s[n]
  OBVIOUS
<1>2. Len(s) \in {0, 1, 2, 3, 4}
  <2> DEFINE n == Len(s)
  <2>1. n \in Nat /\ n < 5
    BY LenProperties
  <2> HIDE DEF n
  <2>2. n \in {0, 1, 2, 3, 4}
    BY <2>1
  <2>3. QED
    BY <2>2 DEF n
<1> HIDE DEF t
<1>3. \A k, n : n \in 1 .. Len(s) => Step(k, t, n) = Step(k, s, n)
  BY <1>1 DEF Step
<1>4. \A k : Step(k, t, Len(s) + 1) = Run(k, i)
  BY <1>1, <1>2 DEF Step, Run
<1>5. \A k, n : n \in Nat /\ n > Len(s) => Step(k, s, n) = k
  BY DEF Step
<1>6. \A k, n : n \in Nat /\ n > Len(s) + 1 => Step(k, t, n) = k
  BY <1>1 DEF Step
<1>7. After(l, t) = Run(After(l, s), i)
  <2>1. CASE Len(s) = 0
    BY <2>1, <1>4, <1>5, <1>6 DEF After, MaxInstructions
  <2>2. CASE Len(s) = 1
    BY <2>2, <1>3, <1>4, <1>5, <1>6 DEF After, MaxInstructions
  <2>3. CASE Len(s) = 2
    BY <2>3, <1>3, <1>4, <1>5, <1>6 DEF After, MaxInstructions
  <2>4. CASE Len(s) = 3
    BY <2>4, <1>3, <1>4, <1>5, <1>6 DEF After, MaxInstructions
  <2>5. CASE Len(s) = 4
    BY <2>5, <1>3, <1>4, <1>5, <1>6 DEF After, MaxInstructions
  <2>6. QED
    BY <1>2, <2>1, <2>2, <2>3, <2>4, <2>5
<1>8. QED
  BY <1>1, <1>7 DEF t

(* A transaction of one instruction, or of two.                            *)
LEMMA AfterOne == ASSUME NEW l, NEW i PROVE After(l, <<i>>) = Run(l, i)
BY DEF After, Step, Run, MaxInstructions

LEMMA AfterTwo ==
  ASSUME NEW l, NEW i, NEW j PROVE After(l, <<i>> \o <<j>>) = Run(Run(l, i), j)
<1> DEFINE T == {i, j}
           s == <<i>>
<1>1. s \in Seq(T) /\ Len(s) = 1 /\ j \in T /\ After(l, s) = Run(l, i)
  BY AfterOne
<1> HIDE DEF T, s
<1>2. After(l, s \o <<j>>) = Run(After(l, s), j)
  BY <1>1, AfterAppend
<1>3. QED
  BY <1>1, <1>2 DEF s

-----------------------------------------------------------------------------
(* The instructions of the builders are well formed.                       *)

All == Ordinary \cup Creations

LEMMA SingleTypes ==
  ASSUME NEW signer \in Wallets, NEW account \in Accounts, NEW other \in Wallets,
         NEW amount \in 0 .. MaxSupply
  PROVE  /\ CreateTokenInstructions(account) \in Seq(Ordinary)
         /\ ApproveInstructions(signer, account, other, amount) \in Seq(Ordinary)
         /\ RevokeInstructions(signer, account) \in Seq(Ordinary)
         /\ FreezeInstructions(signer, account) \in Seq(Ordinary)
         /\ ThawInstructions(signer, account) \in Seq(Ordinary)
         /\ FreezeDelegatedInstructions(signer, account) \in Seq(Ordinary)
         /\ ThawDelegatedInstructions(signer, account) \in Seq(Ordinary)
         /\ ApproveUseInstructions(signer, account, other, amount) \in Seq(Ordinary)
         /\ RevokeUseInstructions(signer, account, other) \in Seq(Ordinary)
         /\ BurnInstructions(signer, account) \in Seq(Ordinary)
<1>1. [type |-> "createToken", account |-> account] \in Ordinary
  BY DEF Ordinary
<1>2. [type |-> "approve", signer |-> signer, account |-> account, delegate |-> other,
       amount |-> amount] \in Ordinary
  BY DEF Ordinary
<1>3. \A y \in {"revoke", "freeze", "thaw", "freezeDelegated", "thawDelegated", "burnNft"} :
        [type |-> y, signer |-> signer, account |-> account] \in Ordinary
  BY DEF Ordinary
<1>4. [type |-> "approveUse", signer |-> signer, account |-> account, user |-> other,
       count |-> amount] \in Ordinary
  BY DEF Ordinary
<1>5. [type |-> "revokeUse", signer |-> signer, account |-> account, user |-> other]
        \in Ordinary
  BY DEF Ordinary
<1>6. /\ CreateTokenInstructions(account) \in Seq(Ordinary)
      /\ ApproveInstructions(signer, account, other, amount) \in Seq(Ordinary)
  BY <1>1, <1>2 DEF CreateTokenInstructions, ApproveInstructions
<1>7. /\ RevokeInstructions(signer, account) \in Seq(Ordinary)
      /\ FreezeInstructions(signer, account) \in Seq(Ordinary)
      /\ ThawInstructions(signer, account) \in Seq(Ordinary)
  BY <1>3 DEF RevokeInstructions, FreezeInstructions, ThawInstructions
<1>8. /\ FreezeDelegatedInstructions(signer, account) \in Seq(Ordinary)
      /\ ThawDelegatedInstructions(signer, account) \in Seq(Ordinary)
      /\ BurnInstructions(signer, account) \in Seq(Ordinary)
  BY <1>3 DEF FreezeDelegatedInstructions, ThawDelegatedInstructions, BurnInstructions
<1>9. /\ ApproveUseInstructions(signer, account, other, amount) \in Seq(Ordinary)
      /\ RevokeUseInstructions(signer, account, other) \in Seq(Ordinary)
  BY <1>4, <1>5 DEF ApproveUseInstructions, RevokeUseInstructions
<1>10. QED
  BY <1>6, <1>7, <1>8, <1>9

LEMMA UseType ==
  ASSUME NEW owner \in Wallets, NEW user \in Wallets \cup {NoKey}, NEW account \in Accounts,
         NEW count \in Nat
  PROVE  UseInstructions(owner, user, account, count) \in Seq(Ordinary)
<1>1. Authority(owner, user) \in Wallets
  BY DEF Authority
<1>2. [type |-> "utilize", signer |-> Authority(owner, user), owner |-> owner,
       account |-> account, count |-> count, delegated |-> user # NoKey] \in Ordinary
  BY <1>1 DEF Ordinary
<1>3. QED
  BY <1>2 DEF UseInstructions

TheMint(authority) ==
  [type |-> "initializeMint", authority |-> authority, freeze |-> authority]

TheToken(account) == [type |-> "createToken", account |-> account]

TheTokens(signer, account, amount) ==
  [type |-> "mintTo", signer |-> signer, account |-> account, amount |-> amount]

TheTransfer(owner, delegate, account, amount) ==
  [type |-> "transfer", from |-> Ata[owner], to |-> account, amount |-> amount,
   signer |-> Authority(owner, delegate)]

LEMMA PartTypes ==
  ASSUME NEW signer \in Wallets, NEW account \in Accounts, NEW amount \in Nat
  PROVE  /\ TheMint(signer) \in Creations
         /\ TheToken(account) \in Ordinary
         /\ TheTokens(signer, account, amount) \in Ordinary
BY DEF Ordinary, Creations, TheMint, TheToken, TheTokens

(* The account is created before it receives tokens, unless it was seen.   *)
LEMMA MintShape ==
  ASSUME NEW signer \in Wallets, NEW account \in Accounts, NEW amount \in Nat,
         NEW exists \in BOOLEAN
  PROVE  /\ MintInstructions(signer, account, amount, exists) \in Seq(Ordinary)
         /\ Len(MintInstructions(signer, account, amount, exists)) <= 2
         /\ exists => MintInstructions(signer, account, amount, exists)
                        = <<TheTokens(signer, account, amount)>>
         /\ ~exists => MintInstructions(signer, account, amount, exists)
                        = <<TheToken(account)>> \o <<TheTokens(signer, account, amount)>>
<1> DEFINE a == TheToken(account)
           b == TheTokens(signer, account, amount)
<1>1. a \in Ordinary /\ b \in Ordinary
  BY PartTypes
<1>2. MintInstructions(signer, account, amount, exists)
        = (IF exists THEN <<>> ELSE <<a>>) \o <<b>>
  BY DEF MintInstructions, CreateTokenIfMissing, CreateTokenInstructions, TheToken, TheTokens
<1> HIDE DEF a, b
<1>3. CASE exists
  <2>1. MintInstructions(signer, account, amount, exists) = <<b>>
    BY <1>1, <1>2, <1>3
  <2>2. <<b>> \in Seq(Ordinary) /\ Len(<<b>>) <= 2
    BY <1>1
  <2>3. QED
    BY <1>3, <2>1, <2>2 DEF b
<1>4. CASE ~exists
  <2>1. MintInstructions(signer, account, amount, exists) = <<a>> \o <<b>>
    BY <1>2, <1>4
  <2>2. <<a>> \o <<b>> \in Seq(Ordinary) /\ Len(<<a>> \o <<b>>) <= 2
    BY <1>1
  <2>3. QED
    BY <1>4, <2>1, <2>2 DEF a, b
<1>5. QED
  BY <1>3, <1>4

LEMMA SendShape ==
  ASSUME NEW owner \in Wallets, NEW delegate \in Wallets \cup {NoKey},
         NEW account \in Accounts, NEW amount \in Nat, NEW exists \in BOOLEAN
  PROVE  LET s == SendInstructions(owner, Ata[owner], delegate, account, amount, exists)
         IN  /\ s \in Seq(Ordinary)
             /\ TheTransfer(owner, delegate, account, amount) \in Ordinary
             /\ exists => s = <<TheTransfer(owner, delegate, account, amount)>>
             /\ ~exists => s = <<TheToken(account)>>
                                \o <<TheTransfer(owner, delegate, account, amount)>>
<1> DEFINE s == SendInstructions(owner, Ata[owner], delegate, account, amount, exists)
           a == TheToken(account)
           b == TheTransfer(owner, delegate, account, amount)
<1>1. a \in Ordinary /\ b \in Ordinary
  <2>1. Authority(owner, delegate) \in Wallets /\ Ata[owner] \in Accounts
    BY AccountsAssumption DEF Authority
  <2>2. QED
    BY <2>1 DEF Ordinary, TheToken, TheTransfer
<1>2. s = (IF exists THEN <<>> ELSE <<a>>) \o <<b>>
  BY DEF SendInstructions, CreateTokenIfMissing, CreateTokenInstructions, TheToken, TheTransfer
<1> HIDE DEF a, b
<1>3. CASE exists
  <2>1. s = <<b>>
    BY <1>1, <1>2, <1>3
  <2> HIDE DEF s
  <2>2. s \in Seq(Ordinary)
    BY <1>1, <2>1
  <2>3. QED
    BY <1>1, <1>3, <2>1, <2>2 DEF b, s
<1>4. CASE ~exists
  <2>1. s = <<a>> \o <<b>>
    BY <1>2, <1>4
  <2>2. <<a>> \o <<b>> \in Seq(Ordinary)
    BY <1>1
  <2> HIDE DEF s
  <2>3. QED
    BY <1>1, <1>4, <2>1, <2>2 DEF a, b, s
<1>5. QED
  BY <1>3, <1>4

(* The first three instructions of a create, each of which may be left     *)
(* out, and what comes after them.                                         *)
TheMetadata(authority) == [type |-> "createMetadata", signer |-> authority]

TheEdition(authority, max) ==
  [type |-> "createMasterEdition", signer |-> authority, max |-> max]

Maybe(condition, i) == IF condition THEN <<i>> ELSE <<>>

RunIf(l, condition, i) == IF condition THEN Run(l, i) ELSE l

CreatesToken(account, exists) == ~exists /\ account # NoAccount

MintsTokens(account, amount) == account # NoAccount /\ amount # NoAmount

LEMMA AfterMaybe ==
  ASSUME NEW T, NEW s \in Seq(T), NEW n \in 0 .. 4, Len(s) <= n,
         NEW c \in BOOLEAN, NEW i, c => i \in T, NEW l
  PROVE  /\ After(l, s \o Maybe(c, i)) = RunIf(After(l, s), c, i)
         /\ s \o Maybe(c, i) \in Seq(T)
         /\ Len(s \o Maybe(c, i)) <= n + 1
<1>1. Len(s) \in Nat /\ Len(s) < 5
  BY LenProperties
<1>2. CASE c
  <2>1. Maybe(c, i) = <<i>>
    BY <1>2 DEF Maybe
  <2>2. RunIf(After(l, s), c, i) = Run(After(l, s), i)
    BY <1>2 DEF RunIf
  <2>3. /\ After(l, s \o <<i>>) = Run(After(l, s), i)
        /\ s \o <<i>> \in Seq(T) /\ Len(s \o <<i>>) = Len(s) + 1
    BY <1>1, <1>2, AfterAppend
  <2>4. Len(s \o <<i>>) <= n + 1
    BY <1>1, <2>3
  <2>5. QED
    BY <2>1, <2>2, <2>3, <2>4
<1>3. CASE ~c
  <2>1. s \o Maybe(c, i) = s
    BY <1>3 DEF Maybe
  <2>2. RunIf(After(l, s), c, i) = After(l, s)
    BY <1>3 DEF RunIf
  <2>3. Len(s) <= n + 1
    BY <1>1
  <2>4. QED
    BY <2>1, <2>2, <2>3
<1>4. QED
  BY <1>2, <1>3

\* The accounts after the mint, its token account and its tokens are created.
WithTokens(l, authority, existingMint, account, exists, amount) ==
  RunIf(RunIf(RunIf(l, ~existingMint, TheMint(authority)),
              CreatesToken(account, exists), TheToken(account)),
        MintsTokens(account, amount), TheTokens(authority, account, amount))

LEMMA CreateShape ==
  ASSUME NEW authority \in Wallets, NEW existingMint \in BOOLEAN,
         NEW account \in Accounts \cup {NoAccount}, NEW exists \in BOOLEAN,
         NEW amount \in Nat \cup {NoAmount}, NEW l
  PROVE  LET s == CreateMintAndToken(authority, existingMint, account, exists, amount)
         IN  /\ s \in Seq(All) /\ Len(s) <= 3
             /\ existingMint => s \in Seq(Ordinary)
             /\ After(l, s) = WithTokens(l, authority, existingMint, account, exists, amount)
<1> DEFINE a == TheMint(authority)
           b == TheToken(account)
           d == TheTokens(authority, account, amount)
           ca == ~existingMint
           cb == CreatesToken(account, exists)
           cd == MintsTokens(account, amount)
           e == <<>>
           s1 == e \o Maybe(ca, a)
           s2 == s1 \o Maybe(cb, b)
           s3 == s2 \o Maybe(cd, d)
           s == CreateMintAndToken(authority, existingMint, account, exists, amount)
<1>1. ca \in BOOLEAN /\ cb \in BOOLEAN /\ cd \in BOOLEAN
  BY DEF CreatesToken, MintsTokens
<1>2. /\ a \in All
      /\ cb => b \in Ordinary /\ b \in All
      /\ cd => d \in Ordinary /\ d \in All
  <2>1. a \in All
    BY DEF All, Creations, TheMint
  <2>2. /\ account # NoAccount => b \in Ordinary
        /\ account # NoAccount /\ amount # NoAmount => d \in Ordinary
    BY PartTypes
  <2>3. QED
    BY <2>1, <2>2 DEF All, CreatesToken, MintsTokens
<1>3. s = s3
  <2>1. e \o Maybe(ca, a) = Maybe(ca, a)
    BY DEF Maybe
  <2>2. CreateMintInstructions(authority, authority) = <<a>>
    BY DEF CreateMintInstructions, TheMint
  <2>3. CreateTokenInstructions(account) = <<b>>
    BY DEF CreateTokenInstructions, TheToken
  <2>4. MintInstructions(authority, account, amount, TRUE) = <<d>>
    BY DEF MintInstructions, CreateTokenIfMissing, TheTokens
  <2>5. (IF existingMint THEN <<>> ELSE <<a>>) = Maybe(ca, a)
    BY DEF Maybe
  <2> HIDE DEF a, b, d
  <2>6. QED
    BY <2>1, <2>2, <2>3, <2>4, <2>5
       DEF CreateMintAndToken, Maybe, CreatesToken, MintsTokens
<1>4. e \in Seq(All) /\ Len(e) <= 0 /\ After(l, e) = l /\ e \in Seq(Ordinary)
  BY AfterNothing
<1>5. WithTokens(l, authority, existingMint, account, exists, amount)
        = RunIf(RunIf(RunIf(l, ca, a), cb, b), cd, d)
  BY DEF WithTokens
<1> HIDE DEF a, b, d, ca, cb, cd, e, s
<1>6. s1 \in Seq(All) /\ Len(s1) <= 1 /\ After(l, s1) = RunIf(l, ca, a)
  BY <1>1, <1>2, <1>4, AfterMaybe
<1>7. existingMint => s1 \in Seq(Ordinary)
  BY <1>4 DEF Maybe, ca
<1> HIDE DEF s1
<1>8. s2 \in Seq(All) /\ Len(s2) <= 2 /\ After(l, s2) = RunIf(RunIf(l, ca, a), cb, b)
  BY <1>1, <1>2, <1>6, AfterMaybe
<1>9. existingMint => s2 \in Seq(Ordinary)
  BY <1>2, <1>7 DEF Maybe
<1> HIDE DEF s2
<1>10. s3 \in Seq(All) /\ Len(s3) <= 3
         /\ After(l, s3) = RunIf(RunIf(RunIf(l, ca, a), cb, b), cd, d)
  BY <1>1, <1>2, <1>8, AfterMaybe
<1>11. existingMint => s3 \in Seq(Ordinary)
  BY <1>2, <1>9 DEF Maybe
<1>12. QED
  BY <1>3, <1>5, <1>10, <1>11 DEF s

LEMMA SftShape ==
  ASSUME NEW authority \in Wallets, NEW existingMint \in BOOLEAN,
         NEW account \in Accounts \cup {NoAccount}, NEW exists \in BOOLEAN,
         NEW amount \in Nat \cup {NoAmount}, NEW l
  PROVE  LET s == CreateSftInstructions(authority, existingMint, account, exists, amount)
         IN  /\ s \in Seq(All) /\ Len(s) <= 4
             /\ existingMint => s \in Seq(Ordinary)
             /\ After(l, s)
                  = Run(WithTokens(l, authority, existingMint, account, exists, amount),
                        TheMetadata(authority))
<1> DEFINE s == CreateMintAndToken(authority, existingMint, account, exists, amount)
           i == TheMetadata(authority)
<1>1. CreateSftInstructions(authority, existingMint, account, exists, amount) = s \o <<i>>
  BY DEF CreateSftInstructions, TheMetadata
<1>2. i \in Ordinary /\ i \in All
  BY DEF TheMetadata, Ordinary, All
<1>3. /\ s \in Seq(All) /\ Len(s) <= 3
      /\ existingMint => s \in Seq(Ordinary)
      /\ After(l, s) = WithTokens(l, authority, existingMint, account, exists, amount)
  BY CreateShape
<1> HIDE DEF s, i
<1>4. Len(s) < 5 /\ Len(s) + 1 <= 4
  BY <1>3, LenProperties
<1>5. /\ After(l, s \o <<i>>) = Run(After(l, s), i)
      /\ s \o <<i>> \in Seq(All) /\ Len(s \o <<i>>) = Len(s) + 1
  BY <1>2, <1>3, <1>4, AfterAppend
<1>6. existingMint => s \o <<i>> \in Seq(Ordinary)
  BY <1>2, <1>3
<1>7. QED
  BY <1>1, <1>3, <1>4, <1>5, <1>6 DEF i

LEMMA NftShape ==
  ASSUME NEW authority \in Wallets, NEW existingMint \in BOOLEAN,
         NEW account \in Accounts, NEW exists \in BOOLEAN,
         NEW max \in 0 .. MaxPrints, NEW l
  PROVE  LET s == CreateNftInstructions(authority, existingMint, account, exists, max)
         IN  /\ s \in Seq(All)
             /\ existingMint => s \in Seq(Ordinary)
             /\ After(l, s)
                  = Run(Run(WithTokens(l, authority, existingMint, account, exists, 1),
                            TheMetadata(authority)),
                        TheEdition(authority, max))
<1> DEFINE s == CreateSftInstructions(authority, existingMint, account, exists, 1)
           i == TheEdition(authority, max)
<1>1. CreateNftInstructions(authority, existingMint, account, exists, max) = s \o <<i>>
  BY DEF CreateNftInstructions, TheEdition
<1>2. i \in Ordinary /\ i \in All
  BY DEF TheEdition, Ordinary, All
<1>3. /\ s \in Seq(All) /\ Len(s) <= 4
      /\ existingMint => s \in Seq(Ordinary)
      /\ After(l, s) = Run(WithTokens(l, authority, existingMint, account, exists, 1),
                            TheMetadata(authority))
  BY AmountAssumption, SftShape
<1> HIDE DEF s, i
<1>4. Len(s) < 5
  BY <1>3, LenProperties
<1>5. /\ After(l, s \o <<i>>) = Run(After(l, s), i)
      /\ s \o <<i>> \in Seq(All)
  BY <1>2, <1>3, <1>4, AfterAppend
<1>6. existingMint => s \o <<i>> \in Seq(Ordinary)
  BY <1>2, <1>3
<1>7. QED
  BY <1>1, <1>3, <1>5, <1>6 DEF i

LEMMA MintTypes ==
  ASSUME NEW authority \in Wallets, NEW account \in Accounts, NEW supply \in Nat \cup {NoAmount}
  PROVE  /\ CreateMintInstructions(authority, authority) \in Seq(All)
         /\ CreateTokenWithMintInstructions(authority, account, supply) \in Seq(All)
<1> DEFINE a == CreateMintInstructions(authority, authority)
           b == CreateTokenInstructions(account)
           d == IF supply # NoAmount THEN MintInstructions(authority, account, supply, TRUE) ELSE <<>>
<1>1. a \in Seq(All)
  <2>1. TheMint(authority) \in All
    BY DEF TheMint, Creations, All
  <2>2. QED
    BY <2>1 DEF CreateMintInstructions, TheMint
<1>2. b \in Seq(All)
  <2>1. TheToken(account) \in All
    BY DEF TheToken, Ordinary, All
  <2>2. QED
    BY <2>1 DEF CreateTokenInstructions, TheToken
<1>3. d \in Seq(All)
  <2> DEFINE i == TheTokens(authority, account, supply)
             m == MintInstructions(authority, account, supply, TRUE)
  <2>1. m = <<i>>
    BY DEF MintInstructions, CreateTokenIfMissing, TheTokens
  <2>2. supply # NoAmount => i \in All
    BY DEF TheTokens, Ordinary, All
  <2> HIDE DEF i, m
  <2>3. (supply # NoAmount => m \in Seq(All)) /\ <<>> \in Seq(All)
    BY <2>1, <2>2
  <2>4. QED
    BY <2>3 DEF m
<1>4. CreateTokenWithMintInstructions(authority, account, supply) = a \o b \o d
  BY DEF CreateTokenWithMintInstructions
<1> HIDE DEF a, b, d
<1>5. a \o b \o d \in Seq(All)
  BY <1>1, <1>2, <1>3
<1>6. QED
  BY <1>1, <1>4, <1>5 DEF a

-----------------------------------------------------------------------------
(* The invariant.                                                          *)

\* The prints have the numbers from 1 on, whatever order they landed in.
Numbered(l) ==
  /\ IsFiniteSet(l.prints)
  /\ {p.number : p \in l.prints} = 1 .. Cardinality(l.prints)

CreatesMint(t) ==
  \/ t.op \in {"createMint", "createTokenWithMint"}
  \/ t.op \in {"createSft", "createNft"} /\ ~t.aim.existing

\* A transaction is what its builder made of what was asked for and seen.
Built(t) ==
  /\ t.by \in Wallets
  /\ t.op # "print" => t.instructions \in Seq(All)
  /\ t.op # "print" /\ ~CreatesMint(t) => t.instructions \in Seq(Ordinary)
  /\ t.op = "print" =>
       /\ t.aim.account \in Accounts /\ t.saw \in Nat
       /\ \E owner \in Wallets :
            t.instructions = PrintInstructions(t.by, t.aim.account, t.saw, owner)
  /\ t.op = "mint" =>
       /\ t.aim.account \in Accounts /\ t.aim.amount \in Nat /\ t.saw \in BOOLEAN
       /\ t.instructions = MintInstructions(t.by, t.aim.account, t.aim.amount, t.saw)
  /\ t.op = "send" =>
       /\ t.aim.owner \in Wallets /\ t.aim.delegate \in Wallets \cup {NoKey}
       /\ t.aim.account \in Accounts /\ t.aim.amount \in Nat /\ t.saw \in BOOLEAN
       /\ t.instructions = SendInstructions(t.aim.owner, Ata[t.aim.owner], t.aim.delegate,
                                            t.aim.account, t.aim.amount, t.saw)
  /\ t.op = "createSft" =>
       /\ t.aim.account \in Accounts \cup {NoAccount}
       /\ t.aim.amount \in Nat \cup {NoAmount}
       /\ t.aim.existing \in BOOLEAN /\ t.saw \in BOOLEAN
       /\ t.instructions = CreateSftInstructions(t.by, t.aim.existing, t.aim.account, t.saw,
                                                 t.aim.amount)
  /\ t.op = "createNft" =>
       /\ t.aim.account \in Accounts /\ t.aim.amount = 1
       /\ t.aim.existing \in BOOLEAN /\ t.saw \in BOOLEAN
       /\ \E max \in 0 .. MaxPrints :
            t.instructions = CreateNftInstructions(t.by, t.aim.existing, t.aim.account, t.saw,
                                                   max)

(* What a handler saw may be stale: prints are only added, and an account  *)
(* is only closed when its NFT is burnt.  There is one Keypair of the mint.*)
Remains(t) ==
  /\ t.op = "print" => t.saw <= Cardinality(ledger.prints)
  /\ t.op \in {"createSft", "createNft"} /\ t.saw =>
       /\ t.aim.account \in Accounts
       /\ Exists(t.aim.account) \/ ledger.mintAuthority = Edition
  /\ CreatesMint(t) => used /\ ~ledger.mint

Inv ==
  /\ Coherent(ledger) /\ Numbered(ledger)
  /\ used \in BOOLEAN /\ (ledger.mint => used)
  /\ \A t \in network : Built(t) /\ Remains(t)
  /\ \A t, u \in network : CreatesMint(t) /\ CreatesMint(u) => t = u

LEMMA InitInv == Init => Inv
<1> SUFFICES ASSUME Init PROVE Inv
  OBVIOUS
<1>1. Coherent(ledger)
  <2>1. ledger \in LedgersOf(Int, Int)
    <3> DEFINE f == [a \in Accounts |-> NoToken]
               u == [w \in Wallets |-> 0]
    <3>1. f \in [Accounts -> TokensOf(Int)] /\ u \in [Wallets -> Int]
      BY NoTokenType
    <3> HIDE DEF f, u
    <3>2. ledger = [mint |-> FALSE, mintAuthority |-> NoKey, freezeAuthority |-> NoKey,
                    supply |-> 0, token |-> f, metadata |-> FALSE, uses |-> 0,
                    mayUse |-> u, edition |-> FALSE, max |-> 0, prints |-> {}]
      BY DEF Init, NoAsset, f, u
    <3>3. QED
      BY <3>1, <3>2, EditionAssumption DEF LedgersOf
  <2>2. /\ ~ledger.mint /\ ledger.mintAuthority = NoKey /\ ~ledger.metadata
        /\ ~ledger.edition
        /\ \A a \in Accounts : ~ledger.token[a].exists /\ ledger.token[a].amount = 0
    BY DEF Init, NoAsset, NoToken
  <2>3. QED
    BY <2>1, <2>2 DEF Coherent
<1>2. Numbered(ledger)
  <2>1. ledger.prints = {}
    BY DEF Init, NoAsset
  <2>2. IsFiniteSet({}) /\ Cardinality({}) = 0
    BY FS_EmptySet
  <2>3. QED
    BY <2>1, <2>2 DEF Numbered
<1>3. QED
  BY <1>1, <1>2 DEF Init, Inv, NoAsset

(* A transaction that is sent adds to what is in the network.              *)
LEMMA SendKeeps ==
  ASSUME Inv, NEW t, network' = network \cup {t}, ledger' = ledger,
         used' \in BOOLEAN, used => used',
         Built(t),
         t.op = "print" => t.saw <= Cardinality(ledger.prints),
         t.op \in {"createSft", "createNft"} /\ t.saw =>
           t.aim.account \in Accounts /\ Exists(t.aim.account),
         CreatesMint(t) => ~used /\ used'
  PROVE  Inv'
<1>1. \A u \in network : CreatesMint(u) => used
  BY DEF Inv, Remains
<1>2. ledger.mint => used
  BY DEF Inv
<1>3. \A u \in network : Remains(u)'
  BY DEF Inv, Remains, Exists
<1>4. Remains(t)'
  BY <1>2 DEF Remains, Exists
<1>5. \A u \in network' : Built(u) /\ Remains(u)'
  BY <1>3, <1>4 DEF Inv
<1>6. \A u, v \in network' : CreatesMint(u) /\ CreatesMint(v) => u = v
  BY <1>1 DEF Inv
<1>7. (\A u \in network : Built(u))' /\ (\A u \in network : Remains(u))'
  BY <1>5 DEF Built
<1>8. Coherent(ledger)' /\ Numbered(ledger)'
  BY DEF Inv
<1>9. (ledger.mint => used)'
  BY <1>2
<1>10. QED
  BY <1>5, <1>6, <1>8, <1>9 DEF Inv, Built, CreatesMint

LEMMA ExpireKeeps == ASSUME Inv, NEW t \in network, Expire(t) PROVE Inv'
<1>1. network' \subseteq network /\ ledger' = ledger /\ used' = used
  BY DEF Expire
<1>2. \A u \in network' : Built(u) /\ Remains(u)'
  BY <1>1 DEF Inv, Remains, Exists
<1>3. \A u, v \in network' : CreatesMint(u) /\ CreatesMint(v) => u = v
  BY <1>1 DEF Inv
<1>4. QED
  BY <1>1, <1>2, <1>3 DEF Inv, Coherent, Numbered, Built, CreatesMint

(* A print has the next number or is refused: its number is at most one    *)
(* more than there are prints, and those that there are have all the rest. *)
LEMMA PrintLands ==
  ASSUME Inv, NEW t \in network, t.op = "print", Accepted(t)
  PROVE  /\ Coherent(Outcome(t)) /\ Follows(ledger, Outcome(t)) /\ Numbered(Outcome(t))
         /\ Outcome(t).mint = ledger.mint
         /\ Cardinality(ledger.prints) <= Cardinality(Outcome(t).prints)
<1>1. PICK owner \in Wallets :
        t.instructions = PrintInstructions(t.by, t.aim.account, t.saw, owner)
  BY DEF Inv, Built
<1>2. t.saw \in Nat /\ t.saw <= Cardinality(ledger.prints)
  BY DEF Inv, Built, Remains
<1> DEFINE i == [type |-> "print", signer |-> t.by, account |-> t.aim.account,
                 number |-> t.saw + 1, owner |-> owner]
           new == [number |-> t.saw + 1, owner |-> owner]
           n == Cardinality(ledger.prints)
           k == Outcome(t)
<1>3. Coherent(ledger) /\ Numbered(ledger)
  BY DEF Inv
<1>4. ledger # Refused
  BY <1>3, RefusedAssumption DEF Coherent
<1>5. k = PrintEdition(ledger, i)
  <2>1. t.instructions = <<i>>
    BY <1>1 DEF PrintInstructions
  <2>2. i.type = "print"
    OBVIOUS
  <2> HIDE DEF i
  <2>3. k = Run(ledger, i)
    BY <2>1, AfterOne DEF Outcome
  <2>4. QED
    BY <1>4, <2>2, <2>3 DEF Run, Execute
<1>6. /\ t.saw + 1 \in 1 .. ledger.max /\ \A p \in ledger.prints : p.number # t.saw + 1
      /\ k = [ledger EXCEPT !.prints = ledger.prints \cup {new}]
  <2>1. k # Refused
    BY DEF Accepted
  <2>2. QED
    BY <1>5, <2>1 DEF PrintEdition
<1>7. n \in Nat /\ {p.number : p \in ledger.prints} = 1 .. n /\ IsFiniteSet(ledger.prints)
  BY <1>3, FS_CardinalityType DEF Numbered
<1>8. t.saw = n
  <2>1. t.saw + 1 \notin {p.number : p \in ledger.prints}
    BY <1>6
  <2>2. t.saw + 1 \notin 1 .. n
    BY <1>7, <2>1
  <2>3. t.saw \in Nat /\ n \in Nat /\ t.saw <= n
    BY <1>2, <1>7
  <2> HIDE DEF n
  <2>4. QED
    BY <2>2, <2>3
<1> HIDE DEF n, k
<1>9. ledger.max \in 0 .. MaxPrints /\ ledger.prints \subseteq Prints
  BY <1>3 DEF Coherent, LedgersOf
<1>10. new \in Prints /\ new \notin ledger.prints /\ new.number = n + 1
  BY <1>1, <1>6, <1>8, <1>9, EditionAssumption DEF Prints
<1> HIDE DEF new
<1> DEFINE all == ledger.prints \cup {new}
<1>11. IsFiniteSet(all) /\ Cardinality(all) = n + 1
  BY <1>7, <1>10, FS_AddElement DEF n
<1>12. {p.number : p \in all} = 1 .. n + 1
  <2>1. {p.number : p \in all} = {p.number : p \in ledger.prints} \cup {new.number}
    OBVIOUS
  <2>2. QED
    BY <1>7, <1>10, <2>1
<1>13. all \subseteq Prints
  BY <1>9, <1>10
<1> HIDE DEF all
<1>14. /\ k = [ledger EXCEPT !.prints = all]
  BY <1>6 DEF all
<1>15. /\ k.prints = all /\ k.mint = ledger.mint
       /\ Coherent(k) /\ Follows(ledger, k)
  BY <1>3, <1>13, <1>14 DEF Coherent, Follows, LedgersOf
<1>16. Numbered(k)
  BY <1>11, <1>12, <1>15 DEF Numbered
<1>17. Cardinality(ledger.prints) <= Cardinality(k.prints)
  BY <1>7, <1>11, <1>15 DEF n
<1>18. QED
  BY <1>15, <1>16, <1>17 DEF k

LEMMA LandKeeps == ASSUME Inv, NEW t \in network, Land(t) PROVE Inv'
<1>1. network' = network \ {t} /\ used' = used
  BY DEF Land
<1>2. CASE ~Accepted(t)
  <2>1. ledger' = ledger
    BY <1>2 DEF Land
  <2>2. Expire(t)
    BY <1>1, <2>1 DEF Expire
  <2>3. QED
    BY <2>2, ExpireKeeps
<1>3. CASE Accepted(t)
  <2> DEFINE k == Outcome(t)
  <2>1. ledger' = k /\ k # Refused
    BY <1>3 DEF Land, Accepted
  <2>2. /\ Coherent(k) /\ Follows(ledger, k) /\ Numbered(k)
        /\ Cardinality(ledger.prints) <= Cardinality(k.prints)
        /\ ~CreatesMint(t) => k.mint = ledger.mint
    <3>1. CASE t.op = "print"
      BY <1>3, <3>1, PrintLands
    <3>2. CASE t.op # "print"
      <4>1. /\ t.instructions \in Seq(Ordinary \cup Creations)
            /\ ~CreatesMint(t) => t.instructions \in Seq(Ordinary)
        BY <3>2 DEF Inv, Built, All
      <4>2. k = After(ledger, t.instructions) /\ Coherent(ledger) /\ Numbered(ledger)
        BY DEF Outcome, Inv
      <4> HIDE DEF k
      <4>3. /\ Coherent(k) /\ Follows(ledger, k) /\ k.prints = ledger.prints
            /\ t.instructions \in Seq(Ordinary) => k.mint = ledger.mint
        BY <2>1, <4>1, <4>2, AfterCoherent
      <4>4. Cardinality(ledger.prints) \in Nat
        BY <4>2, FS_CardinalityType DEF Numbered
      <4>5. QED
        BY <4>1, <4>2, <4>3, <4>4 DEF Numbered
    <3>3. QED
      BY <3>1, <3>2
  <2> HIDE DEF k
  <2>3. \A u \in network : Built(u) /\ Remains(u)
    BY DEF Inv
  <2>4. Cardinality(ledger.prints) \in Nat /\ Cardinality(k.prints) \in Nat
    BY <2>2, FS_CardinalityType DEF Inv, Numbered
  <2>5. ASSUME NEW u \in network' PROVE Remains(u)'
    <3>1. u \in network /\ u # t /\ Built(u) /\ Remains(u)
      BY <1>1, <2>3
    <3>2. u.op = "print" => u.saw <= Cardinality(k.prints)
      BY <2>2, <2>4, <3>1 DEF Built, Remains
    <3>3. u.op \in {"createSft", "createNft"} /\ u.saw =>
            /\ u.aim.account \in Accounts
            /\ k.token[u.aim.account].exists \/ k.mintAuthority = Edition
      BY <2>2, <3>1 DEF Remains, Follows, Exists
    <3>4. CreatesMint(u) => used /\ ~k.mint
      <4>1. SUFFICES ASSUME CreatesMint(u) PROVE used /\ ~k.mint
        OBVIOUS
      <4>2. ~CreatesMint(t)
        BY <3>1, <4>1 DEF Inv
      <4>3. QED
        BY <2>2, <3>1, <4>1, <4>2 DEF Remains
    <3>5. \A a \in Accounts : a # NoAccount
      BY CallersAssumption
    <3>6. QED
      BY <1>1, <2>1, <3>2, <3>3, <3>4, <3>5 DEF Remains, Exists, CreatesMint
  <2>6. (ledger.mint => used)'
    <3>1. CASE CreatesMint(t)
      BY <1>1, <2>3, <3>1 DEF Remains
    <3>2. CASE ~CreatesMint(t)
      BY <1>1, <2>1, <2>2, <3>2 DEF Inv
    <3>3. QED
      BY <3>1, <3>2
  <2>7. \A u, v \in network' : CreatesMint(u) /\ CreatesMint(v) => u = v
    BY <1>1 DEF Inv
  <2>8. (Coherent(ledger) /\ Numbered(ledger))'
    BY <2>1, <2>2
  <2>9. used' \in BOOLEAN
    BY <1>1 DEF Inv
  <2>10. \A u \in network' : Built(u)'
    BY <1>1, <2>3 DEF Built, CreatesMint
  <2>11. QED
    BY <2>5, <2>6, <2>7, <2>8, <2>9, <2>10 DEF Inv, CreatesMint
<1>4. QED
  BY <1>2, <1>3

-----------------------------------------------------------------------------
(* The calls.                                                              *)

LEMMA ExistsType ==
  ASSUME Inv, NEW account \in Accounts \cup {NoAccount}
  PROVE  /\ Exists(account) \in BOOLEAN
         /\ Exists(account) => account \in Accounts
<1>1. \A a \in Accounts : ledger.token[a].exists \in BOOLEAN
  BY DEF Inv, Coherent, LedgersOf, TokensOf
<1>2. QED
  BY <1>1 DEF Exists

LEMMA CallerTypes ==
  ASSUME NEW c \in Wallets
  PROVE  /\ Ata[c] \in Accounts
         /\ \A d \in Hands[c] \cup {NoKey} : d \in Wallets \cup {NoKey}
         /\ Amounts \subseteq 0 .. MaxSupply /\ Amounts \subseteq Nat /\ 0 \in 0 .. MaxSupply
         /\ Maxima \subseteq 0 .. MaxPrints
BY AccountsAssumption, CallersAssumption

\* Transactions about which nothing is remembered but that they are well formed.
Plain ==
  {"createToken", "approve", "revoke", "freeze", "thaw", "freezeDelegated",
   "thawDelegated", "use", "approveUse", "revokeUse", "burnNft"}

LEMMA PlainKeeps ==
  ASSUME Inv, NEW c \in Wallets, NEW op \in Plain, NEW s \in Seq(Ordinary), NEW saw, NEW aim,
         Send(c, op, s, saw, aim), used' = used
  PROVE  Inv'
<1> DEFINE t == [by |-> c, op |-> op, instructions |-> s, saw |-> saw, aim |-> aim]
<1>1. network' = network \cup {t} /\ ledger' = ledger
  BY DEF Send
<1>2. t.by = c /\ t.op = op /\ t.instructions = s
  OBVIOUS
<1> HIDE DEF t
<1>3. /\ ~CreatesMint(t)
      /\ t.op \notin {"print", "mint", "send", "createSft", "createNft"}
  BY <1>2 DEF Plain, CreatesMint
<1>4. s \in Seq(All)
  BY DEF All
<1>5. Built(t)
  BY <1>2, <1>3, <1>4 DEF Built
<1>6. used' \in BOOLEAN /\ (used => used')
  BY DEF Inv
<1>7. QED
  BY <1>1, <1>3, <1>5, <1>6, SendKeeps

LEMMA MintCallsKeep ==
  ASSUME Inv, NEW c \in Wallets, NEW account \in Accounts, NEW supply \in Nat \cup {NoAmount},
         CreateMint(c) \/ CreateTokenWithMint(c, account, supply)
  PROVE  Inv'
<1>1. ASSUME NEW op \in {"createMint", "createTokenWithMint"}, NEW s \in Seq(All), NEW aim,
             Send(c, op, s, NoSight, aim), TakesMint(FALSE)
      PROVE  Inv'
  <2> DEFINE t == [by |-> c, op |-> op, instructions |-> s, saw |-> NoSight, aim |-> aim]
  <2>1. network' = network \cup {t} /\ ledger' = ledger
    BY <1>1 DEF Send
  <2>2. t.by = c /\ t.op = op /\ t.instructions = s
    OBVIOUS
  <2> HIDE DEF t
  <2>3. /\ CreatesMint(t)
        /\ t.op \notin {"print", "mint", "send", "createSft", "createNft"}
    BY <2>2 DEF CreatesMint
  <2>4. Built(t)
    BY <2>2, <2>3 DEF Built
  <2>5. ~used /\ used' = TRUE
    BY <1>1 DEF TakesMint
  <2>6. QED
    BY <2>1, <2>3, <2>4, <2>5, SendKeeps
<1>2. CASE CreateMint(c)
  BY <1>1, <1>2, MintTypes DEF CreateMint
<1>3. CASE CreateTokenWithMint(c, account, supply)
  BY <1>1, <1>3, MintTypes DEF CreateTokenWithMint
<1>4. QED
  BY <1>2, <1>3

LEMMA MintKeeps ==
  ASSUME Inv, NEW c \in Wallets, NEW account \in Accounts, NEW amount \in Nat,
         Mint(c, account, amount)
  PROVE  Inv'
<1> DEFINE saw == Exists(account)
           s == MintInstructions(c, account, amount, saw)
           aim == [account |-> account, amount |-> amount]
           t == [by |-> c, op |-> "mint", instructions |-> s, saw |-> saw, aim |-> aim]
<1>1. saw \in BOOLEAN
  BY ExistsType
<1>2. network' = network \cup {t} /\ ledger' = ledger /\ used' = used
  BY DEF Mint, Send
<1> HIDE DEF saw
<1>3. s \in Seq(Ordinary)
  BY <1>1, MintShape
<1>4. /\ t.by = c /\ t.op = "mint" /\ t.instructions = s /\ t.saw = saw
      /\ t.aim.account = account /\ t.aim.amount = amount
      /\ s = MintInstructions(c, account, amount, saw)
  OBVIOUS
<1> HIDE DEF t, s
<1>5. ~CreatesMint(t)
  BY <1>4 DEF CreatesMint
<1>6. s \in Seq(All)
  BY <1>3 DEF All
<1>7. Built(t)
  BY <1>1, <1>3, <1>4, <1>6 DEF Built
<1>8. used' \in BOOLEAN /\ (used => used')
  BY <1>2 DEF Inv
<1>9. QED
  BY <1>2, <1>4, <1>5, <1>7, <1>8, SendKeeps

LEMMA SendTokensKeeps ==
  ASSUME Inv, NEW c \in Wallets, NEW owner \in Wallets, NEW ownerSigns \in BOOLEAN,
         NEW delegate \in Wallets \cup {NoKey}, NEW account \in Accounts, NEW amount \in Nat,
         SendTokens(c, owner, ownerSigns, delegate, account, amount)
  PROVE  Inv'
<1> DEFINE saw == Exists(account)
           s == SendInstructions(owner, Ata[owner], delegate, account, amount, saw)
           aim == [owner |-> owner, delegate |-> delegate, account |-> account,
                   amount |-> amount]
           t == [by |-> c, op |-> "send", instructions |-> s, saw |-> saw, aim |-> aim]
<1>1. saw \in BOOLEAN
  BY ExistsType
<1>2. network' = network \cup {t} /\ ledger' = ledger /\ used' = used
  BY DEF SendTokens, Send
<1> HIDE DEF saw
<1>3. s \in Seq(Ordinary)
  BY <1>1, SendShape
<1>4. /\ t.by = c /\ t.op = "send" /\ t.instructions = s /\ t.saw = saw
      /\ t.aim.owner = owner /\ t.aim.delegate = delegate
      /\ t.aim.account = account /\ t.aim.amount = amount
      /\ s = SendInstructions(owner, Ata[owner], delegate, account, amount, saw)
  OBVIOUS
<1> HIDE DEF t, s
<1>5. ~CreatesMint(t)
  BY <1>4 DEF CreatesMint
<1>6. s \in Seq(All)
  BY <1>3 DEF All
<1>7. Built(t)
  BY <1>1, <1>3, <1>4, <1>6 DEF Built
<1>8. used' \in BOOLEAN /\ (used => used')
  BY <1>2 DEF Inv
<1>9. QED
  BY <1>2, <1>4, <1>5, <1>7, <1>8, SendKeeps

LEMMA CreateSftKeeps ==
  ASSUME Inv, NEW c \in Wallets, NEW existing \in BOOLEAN,
         NEW account \in Accounts \cup {NoAccount}, NEW amount \in Nat \cup {NoAmount},
         CreateSft(c, existing, account, amount)
  PROVE  Inv'
<1> DEFINE saw == existing /\ Exists(account)
           s == CreateSftInstructions(c, existing, account, saw, amount)
           aim == [account |-> account, existing |-> existing, amount |-> amount]
           t == [by |-> c, op |-> "createSft", instructions |-> s, saw |-> saw, aim |-> aim]
<1>1. saw \in BOOLEAN /\ (saw => account \in Accounts /\ Exists(account))
  BY ExistsType
<1>2. network' = network \cup {t} /\ ledger' = ledger /\ TakesMint(existing)
  BY DEF CreateSft, Send
<1> HIDE DEF saw
<1>3. s \in Seq(All) /\ (existing => s \in Seq(Ordinary))
  BY <1>1, SftShape
<1>4. /\ t.by = c /\ t.op = "createSft" /\ t.instructions = s /\ t.saw = saw
      /\ t.aim.account = account /\ t.aim.existing = existing /\ t.aim.amount = amount
      /\ s = CreateSftInstructions(c, existing, account, saw, amount)
  OBVIOUS
<1> HIDE DEF t, s
<1>5. CreatesMint(t) <=> ~existing
  BY <1>4 DEF CreatesMint
<1>6. Built(t)
  BY <1>1, <1>3, <1>4, <1>5 DEF Built
<1>7. used' = TRUE /\ (CreatesMint(t) => ~used)
  BY <1>2, <1>5 DEF TakesMint
<1>8. QED
  BY <1>1, <1>2, <1>4, <1>6, <1>7, SendKeeps

LEMMA CreateNftKeeps ==
  ASSUME Inv, NEW c \in Wallets, NEW existing \in BOOLEAN, NEW account \in Accounts,
         NEW max \in 0 .. MaxPrints, CreateNft(c, existing, account, max)
  PROVE  Inv'
<1> DEFINE saw == Exists(account)
           s == CreateNftInstructions(c, existing, account, saw, max)
           aim == [account |-> account, existing |-> existing, amount |-> 1]
           t == [by |-> c, op |-> "createNft", instructions |-> s, saw |-> saw, aim |-> aim]
<1>1. saw \in BOOLEAN /\ (saw => account \in Accounts /\ Exists(account))
  BY ExistsType
<1>2. network' = network \cup {t} /\ ledger' = ledger /\ TakesMint(existing)
  BY DEF CreateNft, Send
<1> HIDE DEF saw
<1>3. s \in Seq(All) /\ (existing => s \in Seq(Ordinary))
  BY <1>1, NftShape
<1>4. /\ t.by = c /\ t.op = "createNft" /\ t.instructions = s /\ t.saw = saw
      /\ t.aim.account = account /\ t.aim.existing = existing /\ t.aim.amount = 1
      /\ s = CreateNftInstructions(c, existing, account, saw, max)
  OBVIOUS
<1> HIDE DEF t, s
<1>5. CreatesMint(t) <=> ~existing
  BY <1>4 DEF CreatesMint
<1>6. Built(t)
  BY <1>1, <1>3, <1>4, <1>5 DEF Built
<1>7. used' = TRUE /\ (CreatesMint(t) => ~used)
  BY <1>2, <1>5 DEF TakesMint
<1>8. QED
  BY <1>1, <1>2, <1>4, <1>6, <1>7, SendKeeps

LEMMA PrintKeeps ==
  ASSUME Inv, NEW c \in Wallets, NEW owner \in Wallets, PrintNewEdition(c, owner)
  PROVE  Inv'
<1> DEFINE saw == Cardinality(ledger.prints)
           s == PrintInstructions(c, Ata[c], saw, owner)
           aim == [account |-> Ata[c]]
           t == [by |-> c, op |-> "print", instructions |-> s, saw |-> saw, aim |-> aim]
<1>1. saw \in Nat
  BY FS_CardinalityType DEF Inv, Numbered
<1>2. network' = network \cup {t} /\ ledger' = ledger /\ used' = used
  BY DEF PrintNewEdition, Send
<1>3. saw = Cardinality(ledger.prints)
  OBVIOUS
<1> HIDE DEF saw
<1>4. /\ t.by = c /\ t.op = "print" /\ t.instructions = s /\ t.saw = saw
      /\ t.aim.account = Ata[c] /\ Ata[c] \in Accounts
      /\ s = PrintInstructions(c, Ata[c], saw, owner)
  BY AccountsAssumption
<1> HIDE DEF t, s
<1>5. ~CreatesMint(t)
  BY <1>4 DEF CreatesMint
<1>6. Built(t)
  BY <1>1, <1>4 DEF Built
<1>7. used' \in BOOLEAN /\ (used => used') /\ t.saw <= Cardinality(ledger.prints)
  BY <1>1, <1>2, <1>3, <1>4 DEF Inv
<1>8. QED
  BY <1>2, <1>4, <1>5, <1>6, <1>7, SendKeeps

LEMMA PlainCallsKeep ==
  ASSUME Inv, NEW c \in Wallets, NEW account \in Accounts, NEW other \in Wallets,
         NEW user \in Wallets \cup {NoKey}, NEW amount \in 0 .. MaxSupply,
         \/ CreateToken(c, account) \/ FreezeToken(c, account) \/ ThawToken(c, account)
         \/ ApproveDelegate(c, other, amount) \/ RevokeDelegate(c)
         \/ FreezeDelegatedNft(c, other) \/ ThawDelegatedNft(c, other)
         \/ UseNft(c, other, user, amount)
         \/ ApproveNftUse(c, other, amount) \/ RevokeNftUse(c, other) \/ DeleteNft(c)
  PROVE  Inv'
<1>1. Ata[c] \in Accounts /\ Ata[other] \in Accounts
  BY AccountsAssumption
<1>2. /\ CreateTokenInstructions(account) \in Seq(Ordinary)
      /\ FreezeInstructions(c, account) \in Seq(Ordinary)
      /\ ThawInstructions(c, account) \in Seq(Ordinary)
      /\ ApproveInstructions(c, Ata[c], other, amount) \in Seq(Ordinary)
      /\ RevokeInstructions(c, Ata[c]) \in Seq(Ordinary)
  BY <1>1, SingleTypes
<1>3. /\ FreezeDelegatedInstructions(c, Ata[other]) \in Seq(Ordinary)
      /\ ThawDelegatedInstructions(c, Ata[other]) \in Seq(Ordinary)
  BY <1>1, SingleTypes
<1>4. /\ ApproveUseInstructions(c, Ata[c], other, amount) \in Seq(Ordinary)
      /\ RevokeUseInstructions(c, Ata[c], other) \in Seq(Ordinary)
      /\ BurnInstructions(c, Ata[c]) \in Seq(Ordinary)
  BY <1>1, SingleTypes
<1>5. UseInstructions(other, user, Ata[other], amount) \in Seq(Ordinary)
  <2>1. amount \in Nat
    BY AccountsAssumption
  <2>2. QED
    BY <1>1, <2>1, UseType
<1>6. CASE CreateToken(c, account)
  <2>1. Send(c, "createToken", CreateTokenInstructions(account), NoSight, [account |-> account])
          /\ used' = used
    BY <1>6 DEF CreateToken
  <2>2. QED
    BY <1>2, <2>1, PlainKeeps DEF Plain
<1>7. CASE FreezeToken(c, account) \/ ThawToken(c, account)
  <2>1. /\ \/ Send(c, "freeze", FreezeInstructions(c, account), NoSight, [account |-> account])
           \/ Send(c, "thaw", ThawInstructions(c, account), NoSight, [account |-> account])
        /\ used' = used
    BY <1>7 DEF FreezeToken, ThawToken
  <2>2. QED
    BY <1>2, <2>1, PlainKeeps DEF Plain
<1>8. CASE ApproveDelegate(c, other, amount) \/ RevokeDelegate(c)
  <2>1. /\ \/ Send(c, "approve", ApproveInstructions(c, Ata[c], other, amount), NoSight,
                  [account |-> Ata[c]])
           \/ Send(c, "revoke", RevokeInstructions(c, Ata[c]), NoSight, [account |-> Ata[c]])
        /\ used' = used
    BY <1>8 DEF ApproveDelegate, RevokeDelegate
  <2>2. QED
    BY <1>2, <2>1, PlainKeeps DEF Plain
<1>9. CASE FreezeDelegatedNft(c, other) \/ ThawDelegatedNft(c, other)
  <2>1. /\ \/ Send(c, "freezeDelegated", FreezeDelegatedInstructions(c, Ata[other]), NoSight,
                  [account |-> Ata[other]])
           \/ Send(c, "thawDelegated", ThawDelegatedInstructions(c, Ata[other]), NoSight,
                  [account |-> Ata[other]])
        /\ used' = used
    BY <1>9 DEF FreezeDelegatedNft, ThawDelegatedNft
  <2>2. QED
    BY <1>3, <2>1, PlainKeeps DEF Plain
<1>10. CASE UseNft(c, other, user, amount)
  <2>1. /\ Send(c, "use", UseInstructions(other, user, Ata[other], amount), NoSight,
                [account |-> Ata[other], owner |-> other, user |-> user, amount |-> amount])
        /\ used' = used
    BY <1>10 DEF UseNft
  <2>2. QED
    BY <1>5, <2>1, PlainKeeps DEF Plain
<1>11. CASE ApproveNftUse(c, other, amount) \/ RevokeNftUse(c, other)
  <2>1. /\ \/ Send(c, "approveUse", ApproveUseInstructions(c, Ata[c], other, amount), NoSight,
                  [account |-> Ata[c]])
           \/ Send(c, "revokeUse", RevokeUseInstructions(c, Ata[c], other), NoSight,
                  [account |-> Ata[c]])
        /\ used' = used
    BY <1>11 DEF ApproveNftUse, RevokeNftUse
  <2>2. QED
    BY <1>4, <2>1, PlainKeeps DEF Plain
<1>12. CASE DeleteNft(c)
  <2>1. /\ Send(c, "burnNft", BurnInstructions(c, Ata[c]), NoSight, [account |-> Ata[c]])
        /\ used' = used
    BY <1>12 DEF DeleteNft
  <2>2. QED
    BY <1>4, <2>1, PlainKeeps DEF Plain
<1>13. QED
  BY <1>6, <1>7, <1>8, <1>9, <1>10, <1>11, <1>12

LEMMA TokenCallsKeep == ASSUME Inv, NEW c \in Wallets, TokenCalls(c) PROVE Inv'
<1>0. /\ Amounts \subseteq Nat /\ 0 \in Nat
      /\ Amounts \subseteq 0 .. MaxSupply /\ 0 \in 0 .. MaxSupply /\ Ata[c] \in Accounts
      /\ Hands[c] \cup {NoKey} \subseteq Wallets \cup {NoKey}
  BY CallerTypes
<1>1. CASE CreateMint(c)
  BY <1>0, <1>1, MintCallsKeep
<1>2. ASSUME NEW account \in Accounts, NEW supply \in Amounts \cup {0, NoAmount},
             CreateTokenWithMint(c, account, supply)
      PROVE  Inv'
  BY <1>0, <1>2, MintCallsKeep
<1>3. ASSUME NEW account \in Accounts,
             CreateToken(c, account) \/ FreezeToken(c, account) \/ ThawToken(c, account)
      PROVE  Inv'
  BY <1>0, <1>3, PlainCallsKeep
<1>4. ASSUME NEW account \in Accounts, NEW amount \in Amounts, Mint(c, account, amount)
      PROVE  Inv'
  BY <1>0, <1>4, MintKeeps
<1>5. ASSUME NEW account \in Accounts, NEW owner \in Wallets, NEW delegate \in Hands[c] \cup {NoKey},
             NEW amount \in Amounts, NEW ownerSigns \in BOOLEAN,
             SendTokens(c, owner, ownerSigns, delegate, account, amount)
      PROVE  Inv'
  BY <1>0, <1>5, SendTokensKeeps
<1>6. ASSUME NEW delegate \in Wallets \ {c}, NEW amount \in Amounts,
             ApproveDelegate(c, delegate, amount)
      PROVE  Inv'
  BY <1>0, <1>6, PlainCallsKeep
<1>7. CASE RevokeDelegate(c)
  BY <1>0, <1>7, PlainCallsKeep
<1>8. QED
  BY <1>1, <1>2, <1>3, <1>4, <1>5, <1>6, <1>7 DEF TokenCalls

LEMMA NftCallsKeep == ASSUME Inv, NEW c \in Wallets, NftCalls(c) PROVE Inv'
<1>0. /\ Amounts \subseteq Nat /\ 0 \in Nat
      /\ Amounts \subseteq 0 .. MaxSupply /\ 0 \in 0 .. MaxSupply /\ Ata[c] \in Accounts
      /\ Maxima \subseteq 0 .. MaxPrints
  BY CallerTypes
<1>1. ASSUME NEW existing \in BOOLEAN, NEW account \in Accounts \cup {NoAccount},
             NEW amount \in Amounts \cup {0, NoAmount}, CreateSft(c, existing, account, amount)
      PROVE  Inv'
  BY <1>0, <1>1, CreateSftKeeps
<1>2. ASSUME NEW existing \in BOOLEAN, NEW account \in Accounts, NEW max \in Maxima,
             CreateNft(c, existing, account, max)
      PROVE  Inv'
  BY <1>0, <1>2, CreateNftKeeps
<1>3. ASSUME NEW owner \in Wallets, PrintNewEdition(c, owner) PROVE Inv'
  BY <1>3, PrintKeeps
<1>4. ASSUME NEW owner \in Wallets,
             FreezeDelegatedNft(c, owner) \/ ThawDelegatedNft(c, owner)
      PROVE  Inv'
  BY <1>0, <1>4, PlainCallsKeep
<1>5. ASSUME NEW owner \in Wallets, NEW user \in {NoKey, c}, NEW count \in Amounts,
             UseNft(c, owner, user, count)
      PROVE  Inv'
  BY <1>0, <1>5, PlainCallsKeep
<1>6. ASSUME NEW user \in Wallets \ {c}, NEW count \in Amounts, ApproveNftUse(c, user, count)
      PROVE  Inv'
  BY <1>0, <1>6, PlainCallsKeep
<1>7. ASSUME NEW user \in Wallets \ {c}, RevokeNftUse(c, user) PROVE Inv'
  BY <1>0, <1>7, PlainCallsKeep
<1>8. CASE DeleteNft(c)
  BY <1>0, <1>8, PlainCallsKeep
<1>9. QED
  BY <1>1, <1>2, <1>3, <1>4, <1>5, <1>6, <1>7, <1>8 DEF NftCalls

LEMMA NextInv == Inv /\ [Next]_vars => Inv'
<1> SUFFICES ASSUME Inv, [Next]_vars PROVE Inv'
  OBVIOUS
<1>1. ASSUME NEW c \in Wallets, TokenCalls(c) \/ NftCalls(c) PROVE Inv'
  BY <1>1, TokenCallsKeep, NftCallsKeep
<1>2. ASSUME NEW t \in network, Land(t) \/ Expire(t) PROVE Inv'
  BY <1>2, LandKeeps, ExpireKeeps
<1>3. CASE UNCHANGED vars
  BY <1>3 DEF vars, Inv, Coherent, Numbered, Built, Remains, CreatesMint, Exists
<1>4. QED
  BY <1>1, <1>2, <1>3 DEF Next

(* Nothing exists without its mint, the prints have the numbers from 1 on, *)
(* and what a handler saw of the prints, or of an account that receives    *)
(* tokens, can only be outdated in one direction.                          *)
THEOREM Invariant == Spec => []Inv
BY InitInv, NextInv, PTL DEF Spec

-----------------------------------------------------------------------------
LEMMA PrintLandsUnlessRaced == Inv => PrintIsOnlyRefusedIfRaced
<1> SUFFICES ASSUME Inv, NEW t \in network,
                    t.op = "print", t.saw = Cardinality(ledger.prints), ledger.edition,
                    Holds(ledger, t.by, t.aim.account), t.saw < ledger.max
             PROVE  Accepted(t)
  BY DEF PrintIsOnlyRefusedIfRaced
<1>1. PICK owner \in Wallets :
        t.instructions = PrintInstructions(t.by, t.aim.account, t.saw, owner)
  BY DEF Inv, Built
<1> DEFINE i == [type |-> "print", signer |-> t.by, account |-> t.aim.account,
                 number |-> t.saw + 1, owner |-> owner]
           new == [number |-> t.saw + 1, owner |-> owner]
           n == Cardinality(ledger.prints)
<1>2. Coherent(ledger) /\ Numbered(ledger) /\ t.saw \in Nat
  BY DEF Inv, Built
<1>3. ledger.max \in 0 .. MaxPrints /\ ledger.prints \subseteq Prints
  BY <1>2 DEF Coherent, LedgersOf
<1>4. t.saw + 1 \in 1 .. ledger.max
  BY <1>2, <1>3, EditionAssumption
<1>5. \A p \in ledger.prints : p.number # t.saw + 1
  <2>1. \A p \in ledger.prints : p.number \in 1 .. t.saw
    BY <1>2 DEF Numbered
  <2>2. QED
    BY <1>2, <2>1
<1>6. new \in Prints
  BY <1>1, <1>3, <1>4, EditionAssumption DEF Prints
<1>7. ledger # Refused
  BY <1>2, RefusedAssumption DEF Coherent
<1>8. Outcome(t) = [ledger EXCEPT !.prints = @ \cup {new}]
  <2>1. t.instructions = <<i>>
    BY <1>1 DEF PrintInstructions
  <2>2. i.type = "print" /\ i.signer = t.by /\ i.account = t.aim.account
          /\ i.number = t.saw + 1 /\ i.owner = owner
    OBVIOUS
  <2> HIDE DEF i
  <2>3. Outcome(t) = Run(ledger, i)
    BY <2>1, AfterOne DEF Outcome
  <2>4. Outcome(t) = PrintEdition(ledger, i)
    BY <1>7, <2>2, <2>3 DEF Run, Execute
  <2>5. QED
    BY <1>4, <1>5, <2>2, <2>4 DEF PrintEdition
<1> DEFINE all == ledger.prints \cup {new}
<1>9. all \subseteq Prints
  BY <1>3, <1>6
<1> HIDE DEF new, all
<1>10. Outcome(t) = [ledger EXCEPT !.prints = all]
  BY <1>8 DEF all
<1>11. Outcome(t) \in LedgersOf(Int, Int)
  BY <1>2, <1>9, <1>10 DEF Coherent, LedgersOf
<1>12. QED
  BY <1>11, RefusedAssumption DEF Accepted

(* A print of the next number by the holder of the original is accepted,   *)
(* for any number of prints, of prints at once and of other calls between  *)
(* reading the supply and landing.                                         *)
THEOREM PrintsAreOnlyRefusedIfRaced == Spec => []PrintIsOnlyRefusedIfRaced
BY Invariant, PrintLandsUnlessRaced, PTL

-----------------------------------------------------------------------------
(* When the instructions that create and move tokens are accepted, and     *)
(* what they then do.                                                      *)

LEMMA CoherentAccepted == ASSUME NEW l, Coherent(l) PROVE l # Refused
BY RefusedAssumption DEF Coherent

LEMMA RunMint ==
  ASSUME NEW l, Coherent(l), NEW w \in Wallets, NEW k, k = Run(l, TheMint(w))
  PROVE  /\ k # Refused <=> ~l.mint
         /\ k # Refused =>
              /\ Coherent(k) /\ k.mint /\ k.mintAuthority = w /\ k.supply = l.supply
              /\ k.metadata = l.metadata /\ k.edition = l.edition /\ k.token = l.token
<1> DEFINE i == TheMint(w)
<1>1. i \in Creations /\ i.type = "initializeMint" /\ i.authority = w /\ i.freeze = w
  BY DEF TheMint, Creations
<1> HIDE DEF i
<1>2. l # Refused
  BY CoherentAccepted
<1>3. k = InitializeMint(l, i)
  BY <1>1, <1>2 DEF Run, Execute, i
<1>4. CASE l.mint
  BY <1>3, <1>4 DEF InitializeMint
<1>5. CASE ~l.mint
  <2>1. k = [l EXCEPT !.mint = TRUE, !.mintAuthority = w, !.freezeAuthority = w]
    BY <1>1, <1>3, <1>5 DEF InitializeMint
  <2>2. /\ k.mint /\ k.mintAuthority = w /\ k.supply = l.supply
        /\ k.metadata = l.metadata /\ k.edition = l.edition /\ k.token = l.token
        /\ k \in LedgersOf(Int, Int)
    BY <2>1 DEF Coherent, LedgersOf
  <2>3. k # Refused
    BY <2>2, RefusedAssumption
  <2>4. Execute(l, i) = k
    BY <1>1, <1>3 DEF Execute
  <2>5. Coherent(k)
    BY <1>1, <2>3, <2>4, CreationSteps
  <2>6. QED
    BY <1>5, <2>2, <2>3, <2>5
<1>6. QED
  BY <1>4, <1>5

LEMMA RunToken ==
  ASSUME NEW l, Coherent(l), NEW account \in Accounts, NEW k, k = Run(l, TheToken(account))
  PROVE  /\ k # Refused <=> l.mint /\ ~l.token[account].exists
         /\ k # Refused =>
              /\ Coherent(k) /\ k.mint = l.mint /\ k.mintAuthority = l.mintAuthority
              /\ k.supply = l.supply /\ k.metadata = l.metadata /\ k.edition = l.edition
              /\ k.token[account].exists /\ ~k.token[account].frozen
              /\ k.token[account].amount = 0
              /\ \A a \in Accounts \ {account} : k.token[a] = l.token[a]
<1> DEFINE i == TheToken(account)
<1>1. i \in Ordinary /\ i.type = "createToken" /\ i.account = account
  BY DEF TheToken, Ordinary
<1> HIDE DEF i
<1>2. l # Refused /\ l.token \in [Accounts -> TokensOf(Int)]
  BY CoherentAccepted DEF Coherent, LedgersOf
<1>3. k = CreateTokenAccount(l, i)
  BY <1>1, <1>2 DEF Run, Execute, i
<1>4. CASE ~(l.mint /\ ~l.token[account].exists)
  BY <1>1, <1>3, <1>4 DEF CreateTokenAccount
<1>5. CASE l.mint /\ ~l.token[account].exists
  <2> DEFINE new == [NoToken EXCEPT !.exists = TRUE]
             f == [l.token EXCEPT ![account] = new]
  <2>1. k = [l EXCEPT !.token = f]
    BY <1>1, <1>3, <1>5 DEF CreateTokenAccount
  <2>2. new \in TokensOf(Int) /\ new.exists /\ ~new.frozen /\ new.amount = 0
    <3>1. ~NoToken.frozen /\ NoToken.amount = 0
      BY DEF NoToken
    <3>2. NoToken \in TokensOf(Int)
      BY NoTokenType
    <3>3. QED
      BY <3>1, <3>2 DEF TokensOf
  <2> HIDE DEF new
  <2>3. /\ f \in [Accounts -> TokensOf(Int)]
        /\ \A a \in Accounts : f[a] = IF a = account THEN new ELSE l.token[a]
    BY <1>2, <2>2
  <2> HIDE DEF f
  <2>4. /\ k.mint = l.mint /\ k.mintAuthority = l.mintAuthority /\ k.supply = l.supply
        /\ k.metadata = l.metadata /\ k.edition = l.edition /\ k.token = f
        /\ k \in LedgersOf(Int, Int)
    BY <2>1, <2>3 DEF Coherent, LedgersOf
  <2>5. k # Refused
    BY <2>4, RefusedAssumption
  <2>6. Execute(l, i) = k
    BY <1>1, <1>3 DEF Execute
  <2>7. Coherent(k)
    BY <1>1, <2>5, <2>6, OrdinarySteps
  <2>8. QED
    BY <1>5, <2>2, <2>3, <2>4, <2>5, <2>7
<1>6. QED
  BY <1>4, <1>5

LEMMA RunTokens ==
  ASSUME NEW l, Coherent(l), NEW w \in Wallets, NEW account \in Accounts, NEW n \in Nat,
         NEW k, k = Run(l, TheTokens(w, account, n))
  PROVE  /\ k # Refused <=> /\ l.mint /\ w = l.mintAuthority /\ Usable(l, account)
                           /\ l.supply + n <= MaxSupply
         /\ k # Refused =>
              /\ Coherent(k) /\ k.mint = l.mint /\ k.mintAuthority = l.mintAuthority
              /\ k.supply = l.supply + n /\ k.metadata = l.metadata /\ k.edition = l.edition
              /\ k.token[account].exists
              /\ k.token[account].amount = l.token[account].amount + n
<1> DEFINE i == TheTokens(w, account, n)
           may == /\ l.mint /\ w = l.mintAuthority /\ Usable(l, account)
                  /\ l.supply + n <= MaxSupply
<1>1. i \in Ordinary /\ i.type = "mintTo" /\ i.account = account /\ i.signer = w
        /\ i.amount = n
  BY DEF TheTokens, Ordinary
<1> HIDE DEF i
<1>2. l # Refused /\ l.token \in [Accounts -> TokensOf(Int)] /\ l.supply \in Int
  BY CoherentAccepted DEF Coherent, LedgersOf
<1>3. k = MintTo(l, i)
  BY <1>1, <1>2 DEF Run, Execute, i
<1>4. CASE ~may
  BY <1>1, <1>3, <1>4 DEF MintTo
<1>5. CASE may
  <2> DEFINE new == [l.token[account] EXCEPT !.amount = @ + n]
             f == [l.token EXCEPT ![account] = new]
             u == l.supply + n
  <2>1. k = [l EXCEPT !.supply = u, !.token = f]
    <3>1. MintTo(l, i) = [l EXCEPT !.supply = @ + n, !.token[account].amount = @ + n]
      BY <1>1, <1>5 DEF MintTo
    <3>2. QED
      BY <1>2, <1>3, <3>1 DEF Coherent, LedgersOf
  <2>2. new \in TokensOf(Int) /\ new.exists = l.token[account].exists
          /\ new.amount = l.token[account].amount + n
    BY <1>2 DEF TokensOf
  <2>3. u \in Int
    BY <1>2
  <2> HIDE DEF new, u
  <2>4. f \in [Accounts -> TokensOf(Int)] /\ f[account] = new
    BY <1>2, <2>2
  <2> HIDE DEF f
  <2>5. /\ k.mint = l.mint /\ k.mintAuthority = l.mintAuthority /\ k.supply = u
        /\ k.metadata = l.metadata /\ k.edition = l.edition /\ k.token = f
        /\ k \in LedgersOf(Int, Int)
    BY <2>1, <2>3, <2>4 DEF Coherent, LedgersOf
  <2>6. k # Refused
    BY <2>5, RefusedAssumption
  <2>7. Execute(l, i) = k
    BY <1>1, <1>3 DEF Execute
  <2>8. Coherent(k)
    BY <1>1, <2>6, <2>7, OrdinarySteps
  <2>9. QED
    BY <1>5, <2>2, <2>4, <2>5, <2>6, <2>8 DEF Usable, u
<1>6. QED
  BY <1>4, <1>5

LEMMA RunMetadata ==
  ASSUME NEW l, Coherent(l), NEW w \in Wallets, NEW k, k = Run(l, TheMetadata(w))
  PROVE  /\ k # Refused <=> l.mint /\ ~l.metadata /\ w = l.mintAuthority
         /\ k # Refused =>
              /\ Coherent(k) /\ k.mint = l.mint /\ k.mintAuthority = l.mintAuthority
              /\ k.supply = l.supply /\ k.metadata /\ k.edition = l.edition
              /\ k.token = l.token
<1> DEFINE i == TheMetadata(w)
<1>1. i \in Ordinary /\ i.type = "createMetadata" /\ i.signer = w
  BY DEF TheMetadata, Ordinary
<1> HIDE DEF i
<1>2. l # Refused
  BY CoherentAccepted
<1>3. k = CreateMetadata(l, i)
  BY <1>1, <1>2 DEF Run, Execute, i
<1>4. CASE ~(l.mint /\ ~l.metadata /\ w = l.mintAuthority)
  BY <1>1, <1>3, <1>4 DEF CreateMetadata
<1>5. CASE l.mint /\ ~l.metadata /\ w = l.mintAuthority
  <2>1. k = [l EXCEPT !.metadata = TRUE, !.uses = MaxUses]
    BY <1>1, <1>3, <1>5 DEF CreateMetadata
  <2> DEFINE u == MaxUses
  <2>0. u \in Int /\ k = [l EXCEPT !.metadata = TRUE, !.uses = u]
    BY <2>1, EditionAssumption
  <2> HIDE DEF u
  <2>2. /\ k.mint = l.mint /\ k.mintAuthority = l.mintAuthority /\ k.supply = l.supply
        /\ k.metadata /\ k.edition = l.edition /\ k.token = l.token
        /\ k \in LedgersOf(Int, Int)
    BY <2>0 DEF Coherent, LedgersOf
  <2>3. k # Refused
    BY <2>2, RefusedAssumption
  <2>4. Execute(l, i) = k
    BY <1>1, <1>3 DEF Execute
  <2>5. Coherent(k)
    BY <1>1, <2>3, <2>4, OrdinarySteps
  <2>6. QED
    BY <1>5, <2>2, <2>3, <2>5
<1>6. QED
  BY <1>4, <1>5

LEMMA RunEdition ==
  ASSUME NEW l, Coherent(l), NEW w \in Wallets, NEW max \in 0 .. MaxPrints,
         NEW k, k = Run(l, TheEdition(w, max))
  PROVE  /\ k # Refused <=> l.metadata /\ w = l.mintAuthority /\ l.supply = 1
         /\ k # Refused =>
              /\ Coherent(k) /\ k.mint = l.mint /\ k.mintAuthority = Edition
              /\ k.supply = l.supply /\ k.metadata /\ k.edition /\ k.token = l.token
<1> DEFINE i == TheEdition(w, max)
<1>1. i \in Ordinary /\ i.type = "createMasterEdition" /\ i.signer = w /\ i.max = max
  BY DEF TheEdition, Ordinary
<1> HIDE DEF i
<1>2. l # Refused
  BY CoherentAccepted
<1>3. k = CreateMasterEdition(l, i)
  BY <1>1, <1>2 DEF Run, Execute, i
<1>4. CASE ~(l.metadata /\ w = l.mintAuthority /\ l.supply = 1)
  BY <1>1, <1>3, <1>4 DEF CreateMasterEdition
<1>5. CASE l.metadata /\ w = l.mintAuthority /\ l.supply = 1
  <2>1. k = [l EXCEPT !.edition = TRUE, !.max = max, !.mintAuthority = Edition,
                      !.freezeAuthority = Edition]
    BY <1>1, <1>3, <1>5 DEF CreateMasterEdition
  <2>2. /\ k.mint = l.mint /\ k.mintAuthority = Edition /\ k.supply = l.supply
        /\ k.metadata /\ k.edition /\ k.token = l.token
        /\ k \in LedgersOf(Int, Int)
    BY <1>5, <2>1 DEF Coherent, LedgersOf
  <2>3. k # Refused
    BY <2>2, RefusedAssumption
  <2>4. Execute(l, i) = k
    BY <1>1, <1>3 DEF Execute
  <2>5. Coherent(k)
    BY <1>1, <2>3, <2>4, OrdinarySteps
  <2>6. QED
    BY <1>5, <2>2, <2>3, <2>5
<1>6. QED
  BY <1>4, <1>5

(* The mint, its token account and its tokens, together.                   *)
LEMMA RunRefused == ASSUME NEW i PROVE Run(Refused, i) = Refused
BY DEF Run

LEMMA TokensCreated ==
  ASSUME NEW l, Coherent(l), NEW w \in Wallets, NEW existing \in BOOLEAN,
         NEW account \in Accounts \cup {NoAccount}, NEW saw \in BOOLEAN, NEW n \in Nat \cup {NoAmount},
         NEW k, k = WithTokens(l, w, existing, account, saw, n)
  PROVE  /\ /\ IF existing THEN l.mint /\ w = l.mintAuthority ELSE ~l.mint
            /\ account # NoAccount =>
                 /\ saw = l.token[account].exists /\ ~l.token[account].frozen
                 /\ l.supply + Tokens(n) <= MaxSupply
            => k # Refused
         /\ k # Refused =>
              /\ Coherent(k) /\ (k.mint <=> ~existing \/ l.mint)
              /\ k.mintAuthority = IF existing THEN l.mintAuthority ELSE w
              /\ k.supply = l.supply + (IF account = NoAccount THEN 0 ELSE Tokens(n))
              /\ k.metadata = l.metadata /\ k.edition = l.edition
              /\ account # NoAccount =>
                   /\ k.token[account].amount = l.token[account].amount + Tokens(n)
                   /\ k.token[account].exists <=> l.token[account].exists \/ ~saw
<1> DEFINE k1 == RunIf(l, ~existing, TheMint(w))
           k2 == RunIf(k1, CreatesToken(account, saw), TheToken(account))
           k3 == RunIf(k2, MintsTokens(account, n), TheTokens(w, account, n))
           May1 == existing \/ ~l.mint
           May2 == account # NoAccount /\ ~saw => k1.mint /\ ~l.token[account].exists
           May3 == account # NoAccount /\ n # NoAmount =>
                     /\ k2.mint /\ w = k2.mintAuthority /\ Usable(k2, account)
                     /\ l.supply + n <= MaxSupply
<1>0. /\ account # NoAccount => account \in Accounts
      /\ NoAccount \notin Accounts /\ l # Refused /\ l.supply \in Int
      /\ \A a \in Accounts : l.token[a].amount \in Int
      /\ \A a \in Accounts : l.token[a].exists \in BOOLEAN
      /\ Tokens(n) \in Nat
  BY CallersAssumption, CoherentAccepted, AmountAssumption
     DEF Coherent, LedgersOf, TokensOf, Tokens
<1>1. /\ k1 # Refused <=> May1
      /\ k1 # Refused =>
           /\ Coherent(k1) /\ (k1.mint <=> ~existing \/ l.mint)
           /\ k1.mintAuthority = (IF existing THEN l.mintAuthority ELSE w)
           /\ k1.supply = l.supply /\ k1.metadata = l.metadata /\ k1.edition = l.edition
           /\ k1.token = l.token
  <2>1. CASE existing
    <3>1. k1 = l
      BY <2>1 DEF RunIf
    <3>2. QED
      BY <1>0, <2>1, <3>1
  <2>2. CASE ~existing
    <3>1. k1 = Run(l, TheMint(w))
      BY <2>2 DEF RunIf
    <3> HIDE DEF k1
    <3>2. QED
      BY <2>2, <3>1, RunMint
  <2>3. QED
    BY <2>1, <2>2
<1> HIDE DEF k1
<1>2. /\ k2 # Refused <=> k1 # Refused /\ May2
      /\ k2 # Refused =>
           /\ Coherent(k2) /\ k2.mint = k1.mint /\ k2.mintAuthority = k1.mintAuthority
           /\ k2.supply = k1.supply /\ k2.metadata = k1.metadata /\ k2.edition = k1.edition
           /\ account # NoAccount =>
                /\ k2.token[account].amount = l.token[account].amount
                /\ k2.token[account].exists <=> l.token[account].exists \/ ~saw
                /\ ~l.token[account].frozen => ~k2.token[account].frozen
  <2>1. CASE ~CreatesToken(account, saw)
    <3>1. k2 = k1
      BY <2>1 DEF RunIf
    <3>2. QED
      BY <1>1, <2>1, <3>1 DEF CreatesToken
  <2>2. CASE CreatesToken(account, saw) /\ k1 = Refused
    <3>1. k2 = Refused
      BY <2>2, RunRefused DEF RunIf
    <3>2. QED
      BY <2>2, <3>1
  <2>3. CASE CreatesToken(account, saw) /\ k1 # Refused
    <3>1. k2 = Run(k1, TheToken(account))
      BY <2>3 DEF RunIf
    <3>2. account \in Accounts /\ account # NoAccount /\ ~saw
      BY <1>0, <2>3 DEF CreatesToken
    <3> HIDE DEF k2
    <3>3. /\ k2 # Refused <=> k1.mint /\ ~k1.token[account].exists
          /\ k2 # Refused =>
              /\ Coherent(k2) /\ k2.mint = k1.mint /\ k2.mintAuthority = k1.mintAuthority
              /\ k2.supply = k1.supply /\ k2.metadata = k1.metadata
              /\ k2.edition = k1.edition
              /\ k2.token[account].exists /\ ~k2.token[account].frozen
              /\ k2.token[account].amount = 0
      BY <1>1, <2>3, <3>1, <3>2, RunToken
    <3>4. ~l.token[account].exists => l.token[account].amount = 0
      BY <3>2 DEF Coherent
    <3>5. QED
      BY <1>1, <2>3, <3>2, <3>3, <3>4
  <2>4. QED
    BY <2>1, <2>2, <2>3
<1> HIDE DEF k2
<1>3. /\ k3 # Refused <=> k2 # Refused /\ May3
      /\ k3 # Refused =>
           /\ Coherent(k3) /\ k3.mint = k2.mint /\ k3.mintAuthority = k2.mintAuthority
           /\ k3.supply = k2.supply + (IF account = NoAccount THEN 0 ELSE Tokens(n))
           /\ k3.metadata = k2.metadata /\ k3.edition = k2.edition
           /\ account # NoAccount =>
                /\ k3.token[account].amount = l.token[account].amount + Tokens(n)
                /\ k3.token[account].exists <=> k2.token[account].exists
  <2>1. CASE ~MintsTokens(account, n)
    <3>1. k3 = k2 /\ (account # NoAccount => Tokens(n) = 0)
      BY <2>1 DEF RunIf, MintsTokens, Tokens
    <3> HIDE DEF k3
    <3>2. QED
      BY <1>0, <1>1, <1>2, <2>1, <3>1 DEF MintsTokens
  <2>2. CASE MintsTokens(account, n) /\ k2 = Refused
    <3>1. k3 = Refused
      BY <2>2, RunRefused DEF RunIf
    <3>2. QED
      BY <2>2, <3>1
  <2>3. CASE MintsTokens(account, n) /\ k2 # Refused
    <3>1. k3 = Run(k2, TheTokens(w, account, n))
      BY <2>3 DEF RunIf
    <3>2. account \in Accounts /\ account # NoAccount
          /\ n \in Nat /\ n # NoAmount /\ Tokens(n) = n
      BY <1>0, <2>3, AmountAssumption DEF MintsTokens, Tokens
    <3> HIDE DEF k3
    <3>3. /\ k3 # Refused <=> /\ k2.mint /\ w = k2.mintAuthority /\ Usable(k2, account)
                             /\ k2.supply + n <= MaxSupply
          /\ k3 # Refused =>
              /\ Coherent(k3) /\ k3.mint = k2.mint /\ k3.mintAuthority = k2.mintAuthority
              /\ k3.supply = k2.supply + n /\ k3.metadata = k2.metadata
              /\ k3.edition = k2.edition
              /\ k3.token[account].exists
              /\ k3.token[account].amount = k2.token[account].amount + n
      BY <1>2, <2>3, <3>1, <3>2, RunTokens
    <3>4. k2.supply = l.supply
      BY <1>1, <1>2, <2>3
    <3>5. QED
      BY <1>2, <2>3, <3>2, <3>3, <3>4 DEF Usable
  <2>4. QED
    BY <2>1, <2>2, <2>3
<1>4. k = k3
  BY DEF WithTokens, k1, k2
<1> HIDE DEF k3
<1>5. ASSUME IF existing THEN l.mint /\ w = l.mintAuthority ELSE ~l.mint,
             account # NoAccount =>
               /\ saw = l.token[account].exists /\ ~l.token[account].frozen
               /\ l.supply + Tokens(n) <= MaxSupply
      PROVE  k # Refused
  <2>1. k1 # Refused
    BY <1>1, <1>5
  <2>2. k2 # Refused
    BY <1>1, <1>2, <1>5, <2>1
  <2>3. May3
    BY <1>0, <1>1, <1>2, <1>5, <2>1, <2>2 DEF Usable, Tokens
  <2>4. QED
    BY <1>3, <1>4, <2>2, <2>3
<1>6. QED
  BY <1>1, <1>2, <1>3, <1>4, <1>5

-----------------------------------------------------------------------------
LEMMA CreatedFound == Inv => CreatedIsFound
<1> SUFFICES ASSUME Inv, NEW t \in network, t.op \in {"createNft", "createSft"}, Accepted(t)
             PROVE  LET found == FindNft(Outcome(t), t.aim.account)
                    IN  /\ found.kind = IF t.op = "createNft" THEN "nft" ELSE "sft"
                        /\ t.aim.account # NoAccount =>
                             /\ found.token = FindTokenWithMint(Outcome(t), t.aim.account).token
                             /\ found.token.amount
                                  = ledger.token[t.aim.account].amount + Tokens(t.aim.amount)
                        /\ FindMint(Outcome(t)).supply = ledger.supply +
                             (IF t.aim.account = NoAccount THEN 0 ELSE Tokens(t.aim.amount))
  BY DEF CreatedIsFound
<1> DEFINE account == t.aim.account
           n == t.aim.amount
           w == t.by
           k == WithTokens(ledger, w, t.aim.existing, account, t.saw, n)
           m == Run(k, TheMetadata(w))
           o == Outcome(t)
<1>1. /\ w \in Wallets /\ account \in Accounts \cup {NoAccount} /\ n \in Nat \cup {NoAmount}
      /\ t.aim.existing \in BOOLEAN /\ t.saw \in BOOLEAN
      /\ Coherent(ledger) /\ Remains(t) /\ o # Refused
  BY DEF Inv, Built, Accepted
<1>2. /\ t.op = "createSft" => o = m
      /\ t.op = "createNft" =>
           /\ account # NoAccount
           /\ \E max \in 0 .. MaxPrints : o = Run(m, TheEdition(w, max))
  <2>1. CASE t.op = "createSft"
    <3>1. t.instructions = CreateSftInstructions(w, t.aim.existing, account, t.saw, n)
      BY <2>1 DEF Inv, Built
    <3>2. o = After(ledger, CreateSftInstructions(w, t.aim.existing, account, t.saw, n))
      BY <3>1 DEF Outcome
    <3> HIDE DEF o, k, account, n, w
    <3>3. o = m
      BY <1>1, <3>2, SftShape DEF k
    <3>4. QED
      BY <2>1, <3>3
  <2>2. CASE t.op = "createNft"
    <3>1. account \in Accounts /\ account # NoAccount /\ n = 1
      BY <2>2, CallersAssumption DEF Inv, Built
    <3>2. PICK max \in 0 .. MaxPrints :
            t.instructions = CreateNftInstructions(w, t.aim.existing, account, t.saw, max)
      BY <2>2 DEF Inv, Built
    <3>3. o = After(ledger, CreateNftInstructions(w, t.aim.existing, account, t.saw, max))
      BY <3>2 DEF Outcome
    <3> HIDE DEF o, k, account, n, w
    <3>4. o = Run(m, TheEdition(w, max))
      BY <1>1, <3>1, <3>3, NftShape DEF k
    <3>5. QED
      BY <2>2, <3>1, <3>4
  <2>3. QED
    BY <2>1, <2>2
<1> HIDE DEF o
<1>3. m # Refused
  BY <1>1, <1>2, RunRefused
<1> HIDE DEF m
<1>4. k # Refused
  BY <1>3, RunRefused DEF m
<1> HIDE DEF k
<1>5. /\ Coherent(k) /\ (k.mint <=> ~t.aim.existing \/ ledger.mint)
      /\ k.mintAuthority = IF t.aim.existing THEN ledger.mintAuthority ELSE w
      /\ k.supply = ledger.supply + (IF account = NoAccount THEN 0 ELSE Tokens(n))
      /\ k.metadata = ledger.metadata /\ k.edition = ledger.edition
      /\ account # NoAccount =>
           /\ k.token[account].amount = ledger.token[account].amount + Tokens(n)
           /\ k.token[account].exists <=> ledger.token[account].exists \/ ~t.saw
  <2> HIDE DEF account, n, w
  <2>1. QED
    BY <1>1, <1>4, TokensCreated DEF k
<1>6. /\ k.mint /\ w = k.mintAuthority /\ Coherent(m) /\ m.mint /\ m.mintAuthority = w
      /\ m.supply = k.supply /\ m.metadata /\ m.token = k.token
  <2> HIDE DEF account, n, w
  <2>1. QED
    BY <1>1, <1>3, <1>5, RunMetadata DEF m
<1>7. w # Edition
  BY <1>1, AccountsAssumption
<1>8. account # NoAccount => m.token[account].exists
  <2>1. CASE t.aim.existing /\ t.saw
    BY <1>1, <1>5, <1>6, <1>7, <2>1 DEF Remains, Exists
  <2>2. CASE ~t.aim.existing /\ t.saw
    <3>1. CreatesMint(t)
      BY <2>2 DEF CreatesMint
    <3>2. ~ledger.mint
      BY <1>1, <3>1 DEF Remains
    <3>3. ledger.mintAuthority # Edition
      BY <1>1, <3>2, AccountsAssumption DEF Coherent
    <3>4. QED
      BY <1>1, <1>5, <1>6, <2>2, <3>3 DEF Remains, Exists
  <2>3. QED
    BY <1>1, <1>5, <1>6, <2>1, <2>2
<1>9. /\ o.mint /\ o.metadata /\ o.supply = m.supply /\ o.token = m.token
      /\ t.op = "createSft" => o.mintAuthority # Edition
      /\ t.op = "createNft" => o.edition /\ o.mintAuthority = Edition
  <2>1. CASE t.op = "createSft"
    BY <1>2, <1>6, <1>7, <2>1
  <2>2. CASE t.op = "createNft"
    <3>1. PICK max \in 0 .. MaxPrints : o = Run(m, TheEdition(w, max))
      BY <1>2, <2>2
    <3> HIDE DEF account, n, w
    <3>2. QED
      BY <1>1, <1>6, <2>2, <3>1, RunEdition
  <2>3. QED
    BY <2>1, <2>2
<1> HIDE DEF account
<1>10. FindNft(o, account)
         = [kind |-> IF t.op = "createNft" THEN "nft" ELSE "sft",
            token |-> IF account = NoAccount THEN NoToken ELSE o.token[account]]
  BY <1>8, <1>9 DEF FindNft
<1>11. FindMint(o) = [kind |-> "mint", supply |-> o.supply]
  BY <1>9 DEF FindMint
<1>12. account # NoAccount =>
         FindTokenWithMint(o, account) = [kind |-> "token", token |-> o.token[account]]
  BY <1>8, <1>9 DEF FindTokenWithMint
<1>13. /\ o.supply = ledger.supply + (IF account = NoAccount THEN 0 ELSE Tokens(n))
       /\ account # NoAccount => o.token[account].amount = ledger.token[account].amount + Tokens(n)
  BY <1>5, <1>6, <1>9
<1>14. QED
  BY <1>10, <1>11, <1>12, <1>13 DEF account, o

(* A created NFT or SFT is found as what it was created, with the tokens   *)
(* asked for, whatever else landed between building it and its landing.    *)
THEOREM CreatedAreFound == Spec => []CreatedIsFound
BY Invariant, CreatedFound, PTL

-----------------------------------------------------------------------------
LEMMA SentMoves == Inv => SendMovesWhatWasAsked
<1> SUFFICES ASSUME Inv, NEW t \in network, t.op = "send", Accepted(t), NEW a \in Accounts
             PROVE  Moved(Outcome(t), a)
                      = (IF a = t.aim.account THEN t.aim.amount ELSE 0)
                        - (IF a = Ata[t.aim.owner] THEN t.aim.amount ELSE 0)
  BY DEF SendMovesWhatWasAsked
<1> DEFINE to == t.aim.account
           from == Ata[t.aim.owner]
           n == t.aim.amount
           i == TheTransfer(t.aim.owner, t.aim.delegate, to, n)
           k == IF t.saw THEN ledger ELSE Run(ledger, TheToken(to))
           o == Outcome(t)
<1>1. /\ t.aim.owner \in Wallets /\ t.aim.delegate \in Wallets \cup {NoKey}
      /\ to \in Accounts /\ n \in Nat /\ t.saw \in BOOLEAN
      /\ t.instructions = SendInstructions(t.aim.owner, from, t.aim.delegate, to, n, t.saw)
      /\ Coherent(ledger) /\ o # Refused
  BY DEF Inv, Built, Accepted
<1>2. i \in Ordinary /\ i.type = "transfer" /\ i.from = from /\ i.to = to /\ i.amount = n
  <2>1. i \in Ordinary
    BY <1>1, SendShape
  <2>2. QED
    BY <2>1 DEF TheTransfer
<1>3. o = Run(k, i)
  <2>1. t.saw => t.instructions = <<i>>
    BY <1>1, SendShape
  <2>2. ~t.saw => t.instructions = <<TheToken(to)>> \o <<i>>
    BY <1>1, SendShape
  <2> HIDE DEF i
  <2>3. CASE t.saw
    BY <2>1, <2>3, AfterOne DEF Outcome
  <2>4. CASE ~t.saw
    <3> DEFINE j == TheToken(to)
    <3>1. o = After(ledger, <<j>> \o <<i>>)
      BY <2>2, <2>4 DEF Outcome
    <3>2. k = Run(ledger, j)
      BY <2>4
    <3> HIDE DEF j, k, o
    <3>3. After(ledger, <<j>> \o <<i>>) = Run(Run(ledger, j), i)
      BY AfterTwo
    <3>4. QED
      BY <3>1, <3>2, <3>3
  <2>5. QED
    BY <1>1, <2>3, <2>4
<1> HIDE DEF i, k, o
<1>4. k # Refused
  BY <1>1, <1>3, RunRefused
<1>5. Coherent(k) /\ \A b \in Accounts : k.token[b].amount = ledger.token[b].amount
  <2>1. CASE t.saw
    BY <1>1, <2>1 DEF k
  <2>2. CASE ~t.saw
    <3>1. k = Run(ledger, TheToken(to))
      BY <2>2 DEF k
    <3> HIDE DEF to, from, n
    <3>2. /\ ~ledger.token[to].exists /\ Coherent(k) /\ k.token[to].amount = 0
          /\ \A b \in Accounts \ {to} : k.token[b] = ledger.token[b]
      BY <1>1, <1>4, <3>1, RunToken
    <3>3. ledger.token[to].amount = 0
      BY <1>1, <3>2 DEF Coherent
    <3>4. QED
      BY <3>2, <3>3
  <2>3. QED
    BY <2>1, <2>2
<1>6. o = Transfer(k, i) /\ Transferable(k, i)
  BY <1>1, <1>2, <1>3, <1>4 DEF Run, Execute, Transfer, Transferable
<1>7. PICK f \in [Accounts -> TokensOf(Int)] :
        /\ Transfer(k, i) = [k EXCEPT !.token = f]
        /\ \A b \in Accounts :
             /\ f[b].exists = k.token[b].exists
             /\ f[b].amount = k.token[b].amount + (IF b = i.to THEN i.amount ELSE 0)
                                - (IF b = i.from THEN i.amount ELSE 0)
  BY <1>2, <1>5, <1>6, TransferMoves
<1>8. o.token = f
  BY <1>5, <1>6, <1>7 DEF Coherent, LedgersOf
<1>9. ledger.token[a].amount \in Int
  BY <1>1 DEF Coherent, LedgersOf, TokensOf
<1>10. o.token[a].amount = ledger.token[a].amount + (IF a = to THEN n ELSE 0)
                             - (IF a = from THEN n ELSE 0)
  BY <1>2, <1>5, <1>7, <1>8
<1> HIDE DEF to, from, n
<1>11. o.token[a].amount - ledger.token[a].amount
         = (IF a = to THEN n ELSE 0) - (IF a = from THEN n ELSE 0)
  BY <1>1, <1>9, <1>10
<1>12. QED
  BY <1>11 DEF Moved, to, from, n, o

(* Tokens that are sent leave the account of the owner and arrive where    *)
(* they were sent, for any wallets, delegates and amounts.                 *)
THEOREM SendsMoveWhatWasAsked == Spec => []SendMovesWhatWasAsked
BY Invariant, SentMoves, PTL

-----------------------------------------------------------------------------
LEMMA SawExists ==
  ASSUME Inv, NEW account \in Accounts, NEW saw \in BOOLEAN, saw = Exists(account)
  PROVE  saw = ledger.token[account].exists
<1>1. ledger.token[account].exists \in BOOLEAN
  BY DEF Inv, Coherent, LedgersOf, TokensOf
<1>2. account # NoAccount
  BY CallersAssumption
<1>3. Exists(account) <=> ledger.token[account].exists
  BY <1>2, Zenon DEF Exists
<1>4. saw <=> ledger.token[account].exists
  BY <1>3, Zenon
<1>5. QED
  BY <1>1, <1>4

LEMMA MintAccepted ==
  ASSUME Inv, NEW t \in network, MayMint(t), t.saw = Exists(t.aim.account)
  PROVE  Accepted(t)
<1> DEFINE to == t.aim.account
           n == t.aim.amount
           i == TheTokens(t.by, to, n)
           k == IF t.saw THEN ledger ELSE Run(ledger, TheToken(to))
           o == Outcome(t)
<1>1. /\ t.by \in Wallets /\ to \in Accounts /\ n \in Nat /\ t.saw \in BOOLEAN
      /\ t.instructions = MintInstructions(t.by, to, n, t.saw)
      /\ Coherent(ledger)
  BY DEF Inv, Built, MayMint
<1>2. /\ ledger.mintAuthority = t.by /\ ledger.supply + n <= MaxSupply
      /\ ~ledger.token[to].frozen /\ t.saw = ledger.token[to].exists
  <2>1. /\ ledger.mintAuthority = t.by /\ ledger.supply + n <= MaxSupply
        /\ ~ledger.token[to].frozen
    BY DEF MayMint, Receives
  <2>2. t.saw = ledger.token[to].exists
    BY <1>1, SawExists
  <2>3. QED
    BY <2>1, <2>2
<1>3. ledger.mint
  BY <1>1, <1>2, AccountsAssumption DEF Coherent
<1>4. o = Run(k, i)
  <2>1. t.saw => t.instructions = <<i>>
    BY <1>1, MintShape
  <2>2. ~t.saw => t.instructions = <<TheToken(to)>> \o <<i>>
    BY <1>1, MintShape
  <2> HIDE DEF i
  <2>3. CASE t.saw
    BY <2>1, <2>3, AfterOne DEF Outcome
  <2>4. CASE ~t.saw
    <3> DEFINE j == TheToken(to)
    <3>1. o = After(ledger, <<j>> \o <<i>>)
      BY <2>2, <2>4 DEF Outcome
    <3>2. k = Run(ledger, j)
      BY <2>4
    <3> HIDE DEF j, k, o
    <3>3. After(ledger, <<j>> \o <<i>>) = Run(Run(ledger, j), i)
      BY AfterTwo
    <3>4. QED
      BY <3>1, <3>2, <3>3
  <2>5. QED
    BY <1>1, <2>3, <2>4
<1> HIDE DEF k, o, to, n
<1>5. /\ Coherent(k) /\ k.mint /\ k.mintAuthority = t.by /\ k.supply = ledger.supply
      /\ Usable(k, to)
  <2>1. CASE t.saw
    BY <1>1, <1>2, <1>3, <2>1 DEF k, Usable
  <2>2. CASE ~t.saw
    <3>1. k = Run(ledger, TheToken(to))
      BY <2>2 DEF k
    <3>2. QED
      BY <1>1, <1>2, <1>3, <2>2, <3>1, RunToken DEF Usable
  <2>3. QED
    BY <1>1, <2>1, <2>2
<1>6. o # Refused
  BY <1>1, <1>2, <1>4, <1>5, RunTokens
<1>7. QED
  BY <1>6 DEF Accepted, o

LEMMA SendAccepted ==
  ASSUME Inv, NEW t \in network, MaySend(t), t.saw = Exists(t.aim.account)
  PROVE  Accepted(t)
<1> DEFINE to == t.aim.account
           owner == t.aim.owner
           delegate == t.aim.delegate
           from == Ata[owner]
           n == t.aim.amount
           i == TheTransfer(owner, delegate, to, n)
           k == IF t.saw THEN ledger ELSE Run(ledger, TheToken(to))
           o == Outcome(t)
<1>1. /\ owner \in Wallets /\ delegate \in Wallets \cup {NoKey}
      /\ to \in Accounts /\ n \in Nat /\ t.saw \in BOOLEAN
      /\ t.instructions = SendInstructions(owner, from, delegate, to, n, t.saw)
      /\ Coherent(ledger)
  BY DEF Inv, Built, MaySend
<1>2. /\ ledger.token[from].exists /\ ~ledger.token[from].frozen
      /\ ~ledger.token[to].frozen /\ n <= ledger.token[from].amount
      /\ \/ delegate \in {NoKey, owner}
         \/ delegate = ledger.token[from].delegate /\ n <= ledger.token[from].delegated
      /\ t.saw = ledger.token[to].exists
  <2>1. /\ ledger.token[from].exists /\ ~ledger.token[from].frozen
        /\ ~ledger.token[to].frozen /\ n <= ledger.token[from].amount
        /\ \/ delegate \in {NoKey, owner}
           \/ delegate = ledger.token[from].delegate /\ n <= ledger.token[from].delegated
    BY DEF MaySend
  <2>2. t.saw = ledger.token[to].exists
    BY <1>1, SawExists
  <2>3. QED
    BY <2>1, <2>2
<1>3. /\ i \in Ordinary /\ i.type = "transfer" /\ i.from = from /\ i.to = to /\ i.amount = n
      /\ i.signer = Authority(owner, delegate)
  <2>1. i \in Ordinary
    BY <1>1, SendShape
  <2>2. QED
    BY <2>1 DEF TheTransfer
<1>4. o = Run(k, i)
  <2>1. t.saw => t.instructions = <<i>>
    BY <1>1, SendShape
  <2>2. ~t.saw => t.instructions = <<TheToken(to)>> \o <<i>>
    BY <1>1, SendShape
  <2> HIDE DEF i
  <2>3. CASE t.saw
    BY <2>1, <2>3, AfterOne DEF Outcome
  <2>4. CASE ~t.saw
    <3> DEFINE j == TheToken(to)
    <3>1. o = After(ledger, <<j>> \o <<i>>)
      BY <2>2, <2>4 DEF Outcome
    <3>2. k = Run(ledger, j)
      BY <2>4
    <3> HIDE DEF j, k, o
    <3>3. After(ledger, <<j>> \o <<i>>) = Run(Run(ledger, j), i)
      BY AfterTwo
    <3>4. QED
      BY <3>1, <3>2, <3>3
  <2>5. QED
    BY <1>1, <2>3, <2>4
<1>5. from \in Accounts /\ Owner[from] = owner
  BY <1>1, AccountsAssumption
<1>6. ledger.mint
  BY <1>1, <1>2, <1>5 DEF Coherent
<1> HIDE DEF i, k, o, to, n, from, owner, delegate
<1>7. Coherent(k) /\ Usable(k, to) /\ k.token[from] = ledger.token[from]
  <2>1. CASE t.saw
    BY <1>1, <1>2, <2>1 DEF k, Usable
  <2>2. CASE ~t.saw
    <3>1. k = Run(ledger, TheToken(to)) /\ from # to
      BY <1>2, <2>2 DEF k
    <3>2. QED
      BY <1>1, <1>2, <1>5, <1>6, <2>2, <3>1, RunToken DEF Usable
  <2>3. QED
    BY <1>1, <2>1, <2>2
<1>8. Transferable(k, i)
  <2>1. \/ i.signer = Owner[from]
        \/ i.signer = k.token[from].delegate /\ n <= k.token[from].delegated
    BY <1>2, <1>3, <1>5, <1>7 DEF Authority
  <2>2. QED
    BY <1>2, <1>3, <1>7, <2>1 DEF Transferable, Usable
<1>9. PICK f \in [Accounts -> TokensOf(Int)] : Transfer(k, i) = [k EXCEPT !.token = f]
  BY <1>3, <1>7, <1>8, TransferMoves
<1>10. Transfer(k, i) \in LedgersOf(Int, Int)
  BY <1>7, <1>9 DEF Coherent, LedgersOf
<1>11. o = Transfer(k, i)
  BY <1>3, <1>4, <1>7, CoherentAccepted DEF Run, Execute
<1>12. QED
  BY <1>10, <1>11, RefusedAssumption DEF Accepted, o

LEMMA CreateAccepted ==
  ASSUME Inv, NEW t \in network, MayCreate(t), t.saw = Exists(t.aim.account)
  PROVE  Accepted(t)
<1> DEFINE account == t.aim.account
           n == t.aim.amount
           w == t.by
           existing == t.aim.existing
           k == WithTokens(ledger, w, existing, account, t.saw, n)
           m == Run(k, TheMetadata(w))
           o == Outcome(t)
<1>1. /\ w \in Wallets /\ account \in Accounts \cup {NoAccount} /\ n \in Nat \cup {NoAmount}
      /\ existing \in BOOLEAN /\ t.saw \in BOOLEAN
      /\ Coherent(ledger) /\ Remains(t)
  BY DEF Inv, Built, MayCreate
<1>2. /\ IF existing THEN ledger.mint /\ w = ledger.mintAuthority ELSE ~ledger.mint
      /\ ~ledger.metadata
  <2>1. CASE existing
    <3>1. ledger.mintAuthority = w /\ ~ledger.metadata
      BY <2>1 DEF MayCreate
    <3>2. ledger.mint
      BY <1>1, <3>1, AccountsAssumption DEF Coherent
    <3>3. QED
      BY <2>1, <3>1, <3>2
  <2>2. CASE ~existing
    <3>1. CreatesMint(t)
      BY <2>2 DEF CreatesMint, MayCreate
    <3>2. ~ledger.mint
      BY <1>1, <3>1 DEF Remains
    <3>3. QED
      BY <1>1, <2>2, <3>2 DEF Coherent
  <2>3. QED
    BY <2>1, <2>2
<1>3. account # NoAccount =>
        /\ t.saw = ledger.token[account].exists /\ ~ledger.token[account].frozen
        /\ ledger.supply + Tokens(n) <= MaxSupply
  <2>1. SUFFICES ASSUME account # NoAccount
                 PROVE  /\ t.saw = ledger.token[account].exists
                        /\ ~ledger.token[account].frozen
                        /\ ledger.supply + Tokens(n) <= MaxSupply
    OBVIOUS
  <2>2. ~ledger.token[account].frozen /\ ledger.supply + Tokens(n) <= MaxSupply
    BY <2>1 DEF MayCreate, Receives
  <2>3. t.saw = ledger.token[account].exists
    BY <1>1, <2>1, SawExists
  <2>4. QED
    BY <2>2, <2>3
<1>4. /\ t.op \in {"createSft", "createNft"}
      /\ t.op = "createNft" => /\ ledger.supply = 0 /\ n = 1 /\ Tokens(n) = 1
                               /\ account \in Accounts /\ account # NoAccount
  BY CallersAssumption, AmountAssumption DEF MayCreate, Inv, Built, Tokens
<1>5. t.op = "createSft" => o = m
  <2>1. SUFFICES ASSUME t.op = "createSft" PROVE o = m
    OBVIOUS
  <2>2. o = After(ledger, CreateSftInstructions(w, existing, account, t.saw, n))
    BY <2>1 DEF Inv, Built, Outcome
  <2> HIDE DEF o, k, account, n, w, existing
  <2>3. QED
    BY <1>1, <2>2, SftShape DEF k
<1>6. t.op = "createNft" => \E max \in 0 .. MaxPrints : o = Run(m, TheEdition(w, max))
  <2>1. SUFFICES ASSUME t.op = "createNft"
                 PROVE  \E max \in 0 .. MaxPrints : o = Run(m, TheEdition(w, max))
    OBVIOUS
  <2>2. PICK max \in 0 .. MaxPrints :
          o = After(ledger, CreateNftInstructions(w, existing, account, t.saw, max))
    BY <2>1 DEF Inv, Built, Outcome
  <2> HIDE DEF o, k, account, n, w, existing
  <2>3. o = Run(m, TheEdition(w, max))
    BY <1>1, <1>4, <2>1, <2>2, NftShape DEF k
  <2>4. QED
    BY <2>3
<1> HIDE DEF o, k, account, n, w, existing
<1>7. /\ k # Refused /\ Coherent(k) /\ k.mint /\ k.mintAuthority = w /\ ~k.metadata
      /\ k.supply = ledger.supply + (IF account = NoAccount THEN 0 ELSE Tokens(n))
  <2>1. k # Refused
    BY <1>1, <1>2, <1>3, TokensCreated DEF k
  <2>2. /\ Coherent(k) /\ (k.mint <=> ~existing \/ ledger.mint)
        /\ k.mintAuthority = IF existing THEN ledger.mintAuthority ELSE w
        /\ k.supply = ledger.supply + (IF account = NoAccount THEN 0 ELSE Tokens(n))
        /\ k.metadata = ledger.metadata
    BY <1>1, <2>1, TokensCreated DEF k
  <2>3. QED
    BY <1>1, <1>2, <2>1, <2>2
<1>8. /\ m # Refused /\ Coherent(m) /\ m.mintAuthority = w /\ m.metadata
      /\ m.supply = k.supply
  <2> HIDE DEF m
  <2>1. m # Refused /\ m = Run(k, TheMetadata(w))
    BY <1>1, <1>7, RunMetadata DEF m
  <2>2. QED
    BY <1>1, <1>7, <2>1, RunMetadata
<1> HIDE DEF m
<1>9. o # Refused
  <2>1. CASE t.op = "createSft"
    BY <1>5, <1>8, <2>1
  <2>2. CASE t.op = "createNft"
    <3>1. PICK max \in 0 .. MaxPrints : o = Run(m, TheEdition(w, max))
      BY <1>6, <2>2
    <3>2. m.supply = 1
      BY <1>4, <1>7, <1>8, <2>2
    <3>3. QED
      BY <1>1, <1>8, <3>1, <3>2, RunEdition
  <2>3. QED
    BY <1>4, <2>1, <2>2
<1>10. QED
  BY <1>9 DEF Accepted, o

(* Minting, sending and creating succeed whenever the token program allows *)
(* what was asked, unless the receiving account came or went meanwhile.    *)
THEOREM OnlyRacesRefused == Spec => []OnlyRacesAreRefused
<1>1. Inv => OnlyRacesAreRefused
  BY MintAccepted, SendAccepted, CreateAccepted DEF OnlyRacesAreRefused
<1>2. QED
  BY Invariant, <1>1, PTL

-----------------------------------------------------------------------------
(* Tokens are counted: the supply of the mint is what the accounts hold.   *)

Balances(l) == [a \in Accounts |-> l.token[a].amount]

Counted(l) ==
  /\ l.supply \in 0 .. MaxSupply /\ l.uses \in 0 .. MaxUses
  /\ \A a \in Accounts : l.token[a].amount \in Nat /\ l.token[a].delegated \in 0 .. MaxSupply
  /\ \A w \in Wallets : l.mayUse[w] \in 0 .. MaxSupply
  /\ AddsUp(Balances(l), l.supply)
  /\ l.edition => l.supply = 1

LEMMA CountedType ==
  ASSUME NEW l, Coherent(l), Counted(l)
  PROVE  l \in Ledgers
<1>1. l.token \in [Accounts -> TokensOf(Int)] /\ l.mayUse \in [Wallets -> Int]
  BY DEF Coherent, LedgersOf
<1>2. l.mayUse \in [Wallets -> 0 .. MaxSupply]
  BY <1>1 DEF Counted
<1>3. ASSUME NEW a \in Accounts PROVE l.token[a] \in TokensOf(0 .. MaxSupply)
  <2>1. Balances(l) \in [Accounts -> Nat] /\ l.supply \in Nat /\ l.supply <= MaxSupply
    BY AccountsAssumption DEF Counted, Balances
  <2>2. Balances(l)[a] <= l.supply
    BY <2>1, SumBounds DEF Counted
  <2>3. l.token[a].amount \in 0 .. MaxSupply
    BY <2>1, <2>2, AccountsAssumption DEF Counted, Balances
  <2>4. l.token[a] \in TokensOf(Int) /\ l.token[a].delegated \in 0 .. MaxSupply
    BY <1>1 DEF Counted
  <2>5. QED
    BY <2>3, <2>4 DEF TokensOf
<1>4. l.token \in [Accounts -> TokensOf(0 .. MaxSupply)]
  BY <1>1, <1>3
<1>5. QED
  BY <1>2, <1>4 DEF Coherent, Counted, LedgersOf, Ledgers

(* One account has another amount, and the supply changes by the difference. *)
LEMMA CountedAmount ==
  ASSUME NEW l, Coherent(l), Counted(l), NEW a \in Accounts, NEW t \in TokensOf(Int),
         t.amount \in Nat, t.delegated \in 0 .. MaxSupply,
         NEW s \in 0 .. MaxSupply, s = l.supply - l.token[a].amount + t.amount,
         NEW k, k.token = [l.token EXCEPT ![a] = t], k.supply = s,
         k.uses = l.uses, k.mayUse = l.mayUse, k.edition => s = 1
  PROVE  Counted(k)
<1>1. l.token \in [Accounts -> TokensOf(Int)]
  BY DEF Coherent, LedgersOf
<1>2. \A b \in Accounts : k.token[b] = IF b = a THEN t ELSE l.token[b]
  BY <1>1
<1>3. /\ Balances(l) \in [Accounts -> Nat] /\ l.supply \in Nat
      /\ Balances(l)[a] = l.token[a].amount
  BY AccountsAssumption DEF Counted, Balances
<1>4. AddsUp([Balances(l) EXCEPT ![a] = t.amount], l.supply - Balances(l)[a] + t.amount)
  BY <1>3, SumChanges DEF Counted
<1>5. Balances(k) = [Balances(l) EXCEPT ![a] = t.amount]
  BY <1>2 DEF Balances
<1>6. AddsUp(Balances(k), k.supply)
  BY <1>3, <1>4, <1>5
<1>7. QED
  BY <1>2, <1>6 DEF Counted

(* No amount changes. *)
LEMMA CountedSame ==
  ASSUME NEW l, Coherent(l), Counted(l), NEW k, k.supply = l.supply,
         \A a \in Accounts :
           k.token[a].amount = l.token[a].amount /\ k.token[a].delegated \in 0 .. MaxSupply,
         k.uses \in 0 .. MaxUses, \A w \in Wallets : k.mayUse[w] \in 0 .. MaxSupply,
         k.edition => l.edition \/ l.supply = 1
  PROVE  Counted(k)
<1>1. Balances(k) = Balances(l)
  BY DEF Balances
<1>2. QED
  BY <1>1 DEF Counted

LEMMA CountedTokens ==
  ASSUME NEW l, Coherent(l), Counted(l), NEW i \in Ordinary, Execute(l, i) # Refused,
         i.type \in {"createToken", "approve", "revoke", "freeze", "thaw",
                     "freezeDelegated", "thawDelegated"}
  PROVE  Counted(Execute(l, i))
<1> DEFINE k == Execute(l, i)
<1>1. /\ i.account \in Accounts /\ l.token \in [Accounts -> TokensOf(Int)]
      /\ 0 \in 0 .. MaxSupply
  BY AccountsAssumption DEF Ordinary, Coherent, LedgersOf
<1>2. \A a \in Accounts : l.token[a].delegated \in 0 .. MaxSupply
  BY DEF Counted
<1>3. ASSUME NEW t, t.amount = l.token[i.account].amount, t.delegated \in 0 .. MaxSupply,
             k = [l EXCEPT !.token = [l.token EXCEPT ![i.account] = t]]
      PROVE  Counted(k)
  <2>1. /\ k.token = [l.token EXCEPT ![i.account] = t] /\ k.supply = l.supply
        /\ k.uses = l.uses /\ k.mayUse = l.mayUse /\ k.edition = l.edition
    BY <1>3 DEF Coherent, LedgersOf
  <2>2. \A a \in Accounts : k.token[a] = IF a = i.account THEN t ELSE l.token[a]
    BY <1>1, <2>1
  <2>3. \A a \in Accounts :
          k.token[a].amount = l.token[a].amount /\ k.token[a].delegated \in 0 .. MaxSupply
    BY <1>2, <1>3, <2>2
  <2> HIDE DEF k
  <2>4. QED
    BY <2>1, <2>3, CountedSame DEF Counted
<1> DEFINE token == l.token[i.account]
<1>4. token \in TokensOf(Int)
  BY <1>1
<1>5. CASE i.type = "createToken"
  <2> DEFINE t == [NoToken EXCEPT !.exists = TRUE]
  <2>1. k = [l EXCEPT !.token[i.account] = t] /\ ~token.exists
    BY <1>5 DEF Execute, CreateTokenAccount
  <2>2. t.amount = token.amount /\ t.delegated = 0
    BY <1>1, <2>1 DEF Coherent, NoToken
  <2>3. k = [l EXCEPT !.token = [l.token EXCEPT ![i.account] = t]]
    BY <2>1 DEF Coherent, LedgersOf
  <2>4. QED
    BY <1>1, <1>3, <2>2, <2>3
<1>6. CASE i.type = "approve"
  <2> DEFINE t == [token EXCEPT !.delegate = i.delegate, !.delegated = i.amount]
  <2>1. i.amount \in 0 .. MaxSupply
    BY <1>6 DEF Ordinary
  <2>2. k = [l EXCEPT !.token = [l.token EXCEPT ![i.account] = t]]
    BY <1>1, <1>6 DEF Execute, Approve, Coherent, LedgersOf
  <2>3. t.amount = token.amount /\ t.delegated = i.amount
    BY <1>4 DEF TokensOf
  <2>4. QED
    BY <1>3, <2>1, <2>2, <2>3
<1>7. CASE i.type = "revoke"
  <2> DEFINE t == [token EXCEPT !.delegate = NoKey, !.delegated = 0]
  <2>1. k = [l EXCEPT !.token = [l.token EXCEPT ![i.account] = t]]
    BY <1>1, <1>7 DEF Execute, Revoke, Coherent, LedgersOf
  <2>2. t.amount = token.amount /\ t.delegated = 0
    BY <1>4 DEF TokensOf
  <2>3. QED
    BY <1>1, <1>3, <2>1, <2>2
<1>8. CASE i.type \in {"freeze", "thaw", "freezeDelegated", "thawDelegated"}
  <2> DEFINE t(b) == [token EXCEPT !.frozen = b]
  <2>1. \E b \in BOOLEAN : k = [l EXCEPT !.token[i.account].frozen = b]
    BY <1>8 DEF Execute, Freeze, Thaw, FreezeDelegated, ThawDelegated
  <2>2. PICK b \in BOOLEAN : k = [l EXCEPT !.token[i.account].frozen = b]
    BY <2>1
  <2>3. k = [l EXCEPT !.token = [l.token EXCEPT ![i.account] = t(b)]]
    BY <1>1, <2>2 DEF Coherent, LedgersOf
  <2>4. t(b).amount = token.amount /\ t(b).delegated = token.delegated
    BY <1>4 DEF TokensOf
  <2>5. QED
    BY <1>1, <1>2, <1>3, <2>3, <2>4
<1>9. QED
  BY <1>5, <1>6, <1>7, <1>8

LEMMA CountedMint ==
  ASSUME NEW l, Coherent(l), Counted(l), NEW i \in Ordinary, Execute(l, i) # Refused,
         i.type = "mintTo"
  PROVE  Counted(Execute(l, i))
<1> DEFINE k == Execute(l, i)
           t == [l.token[i.account] EXCEPT !.amount = @ + i.amount]
<1>1. /\ i.account \in Accounts /\ i.amount \in Nat /\ i.signer \in Wallets
      /\ l.token \in [Accounts -> TokensOf(Int)] /\ l.supply \in 0 .. MaxSupply
  BY DEF Ordinary, Coherent, LedgersOf, Counted
<1>2. /\ l.supply + i.amount <= MaxSupply /\ i.signer = l.mintAuthority
      /\ k = [l EXCEPT !.supply = @ + i.amount, !.token[i.account].amount = @ + i.amount]
  BY DEF Execute, MintTo
<1>3. ~l.edition
  BY <1>1, <1>2, AccountsAssumption DEF Coherent
<1>4. /\ k.token = [l.token EXCEPT ![i.account] = t] /\ k.supply = l.supply + i.amount
      /\ k.uses = l.uses /\ k.mayUse = l.mayUse /\ k.edition = l.edition
  BY <1>1, <1>2 DEF Coherent, LedgersOf
<1>5. /\ t \in TokensOf(Int) /\ t.amount = l.token[i.account].amount + i.amount
      /\ t.delegated = l.token[i.account].delegated
  BY <1>1 DEF TokensOf
<1>6. l.token[i.account].amount \in Nat /\ l.token[i.account].delegated \in 0 .. MaxSupply
  BY <1>1 DEF Counted
<1> DEFINE s == l.supply + i.amount
<1>7. /\ s \in 0 .. MaxSupply /\ t.amount \in Nat
      /\ s = l.supply - l.token[i.account].amount + t.amount
  BY <1>1, <1>2, <1>5, <1>6, AccountsAssumption
<1> HIDE DEF k, t
<1>8. Counted(k)
  BY <1>1, <1>3, <1>4, <1>5, <1>6, <1>7, CountedAmount
<1>9. QED
  BY <1>8 DEF k

LEMMA CountedTransfer ==
  ASSUME NEW l, Coherent(l), Counted(l), NEW i \in Ordinary, Execute(l, i) # Refused,
         i.type = "transfer"
  PROVE  Counted(Execute(l, i))
<1> DEFINE k == Execute(l, i)
<1>1. /\ i.from \in Accounts /\ i.to \in Accounts /\ i.amount \in Nat
      /\ l.token \in [Accounts -> TokensOf(Int)] /\ l.supply \in Nat
      /\ 0 \in 0 .. MaxSupply
  BY AccountsAssumption DEF Ordinary, Coherent, LedgersOf, Counted
<1>2. Transferable(l, i) /\ k = Transfer(l, i)
  BY DEF Execute, Transfer, Transferable
<1>3. PICK f \in [Accounts -> TokensOf(Int)] :
        /\ k = [l EXCEPT !.token = f]
        /\ \A a \in Accounts :
             /\ f[a].exists = l.token[a].exists
             /\ f[a].amount = l.token[a].amount + (IF a = i.to THEN i.amount ELSE 0)
                                - (IF a = i.from THEN i.amount ELSE 0)
  BY <1>2, TransferMoves
<1>4. /\ k.token = f /\ k.supply = l.supply
      /\ k.uses = l.uses /\ k.mayUse = l.mayUse /\ k.edition = l.edition
  BY <1>3 DEF Coherent, LedgersOf
<1>5. ASSUME NEW a \in Accounts PROVE k.token[a].delegated \in 0 .. MaxSupply
  <2> DEFINE token == l.token[i.from]
             g == [l.token EXCEPT ![i.from] = Taken(@, i)]
  <2>1. token \in TokensOf(Int) /\ token.delegated \in 0 .. MaxSupply
    BY <1>1 DEF Counted
  <2>2. i.signer = Owner[i.from] \/ i.amount <= token.delegated
    BY <1>2 DEF Transferable
  <2>3. Taken(token, i).delegated \in 0 .. MaxSupply
    <3> DEFINE left == [token EXCEPT !.amount = @ - i.amount]
    <3>1. left \in TokensOf(Int) /\ left.delegated = token.delegated
      BY <1>1, <2>1 DEF TokensOf
    <3>2. CASE i.signer = Owner[i.from]
      <4>1. Taken(token, i) = left
        BY <3>2 DEF Taken
      <4>2. QED
        BY <2>1, <3>1, <4>1
    <3>3. CASE i.signer # Owner[i.from] /\ token.delegated = i.amount
      <4>1. Taken(token, i) = [left EXCEPT !.delegate = NoKey, !.delegated = 0]
        BY <3>3 DEF Taken
      <4>2. Taken(token, i).delegated = 0
        BY <3>1, <4>1 DEF TokensOf
      <4>3. QED
        BY <1>1, <4>2
    <3>4. CASE i.signer # Owner[i.from] /\ token.delegated # i.amount
      <4>1. Taken(token, i) = [left EXCEPT !.delegated = @ - i.amount]
        BY <3>4 DEF Taken
      <4>2. Taken(token, i).delegated = token.delegated - i.amount
        BY <3>1, <4>1 DEF TokensOf
      <4> HIDE DEF token
      <4>3. token.delegated - i.amount \in 0 .. MaxSupply
        BY <1>1, <2>1, <2>2, <3>4, AccountsAssumption
      <4>4. QED
        BY <4>2, <4>3
    <3>5. QED
      BY <3>2, <3>3, <3>4
  <2>4. Taken(token, i) \in TokensOf(Int)
    BY <1>1, <2>1, TakenType
  <2>5. k.token = [g EXCEPT ![i.to].amount = @ + i.amount]
    BY <1>1, <1>2 DEF Transfer, Transferable, Coherent, LedgersOf
  <2>6. g \in [Accounts -> TokensOf(Int)] /\ g[a].delegated \in 0 .. MaxSupply
    BY <1>1, <2>3, <2>4 DEF Counted
  <2> HIDE DEF g
  <2>7. k.token[a] = IF a = i.to THEN [g[a] EXCEPT !.amount = @ + i.amount] ELSE g[a]
    BY <1>1, <2>5, <2>6
  <2>8. [g[a] EXCEPT !.amount = @ + i.amount].delegated = g[a].delegated
    BY <2>6 DEF TokensOf
  <2>9. QED
    BY <2>6, <2>7, <2>8
<1> DEFINE moved == Balances(k)
<1>6. /\ Balances(l) \in [Accounts -> Nat] /\ i.amount <= Balances(l)[i.from]
      /\ AddsUp(Balances(l), l.supply)
  BY <1>1, <1>2 DEF Balances, Counted, Transferable
<1>7. \A a \in Accounts : k.token[a] = f[a] /\ f[a].amount \in Int
  BY <1>4 DEF TokensOf
<1>8. moved \in [Accounts -> Nat] /\ AddsUp(moved, l.supply)
  <2>1. moved \in [Accounts -> Int]
    BY <1>7 DEF Balances
  <2>2. \A a \in Accounts :
          moved[a] = Balances(l)[a] + (IF a = i.to THEN i.amount ELSE 0)
                       - (IF a = i.from THEN i.amount ELSE 0)
    BY <1>3, <1>7 DEF Balances
  <2> HIDE DEF moved
  <2>3. Moves(Accounts, Balances(l), moved, i.from, i.to, i.amount)
    BY <1>1, <1>6, <2>1, <2>2 DEF Moves
  <2>4. QED
    BY <1>1, <1>6, <2>3, SumMoves
<1>9. \A a \in Accounts : k.token[a].amount \in Nat
  <2>1. \A a \in Accounts : Balances(k)[a] \in Nat
    BY <1>8
  <2>2. QED
    BY <2>1 DEF Balances
<1>10. AddsUp(Balances(k), l.supply)
  BY <1>8
<1> HIDE DEF k, moved
<1>11. Counted(k)
  BY <1>4, <1>5, <1>9, <1>10 DEF Counted
<1>12. QED
  BY <1>11 DEF k

LEMMA CountedNft ==
  ASSUME NEW l, Coherent(l), Counted(l), NEW i \in Ordinary, Execute(l, i) # Refused,
         i.type \in {"createMetadata", "createMasterEdition", "utilize", "approveUse",
                     "revokeUse"}
  PROVE  Counted(Execute(l, i))
<1> DEFINE k == Execute(l, i)
<1>1. /\ l.mayUse \in [Wallets -> 0 .. MaxSupply] /\ l.uses \in 0 .. MaxUses
      /\ 0 \in 0 .. MaxSupply /\ MaxUses \in 0 .. MaxUses
  BY AccountsAssumption, EditionAssumption DEF Coherent, LedgersOf, Counted
<1>2. ASSUME k.token = l.token, k.supply = l.supply, k.uses \in 0 .. MaxUses,
             k.mayUse \in [Wallets -> 0 .. MaxSupply], k.edition => l.edition \/ l.supply = 1
      PROVE  Counted(k)
  BY <1>2, CountedSame DEF Counted
<1>3. CASE i.type = "createMetadata"
  <2>1. k = [l EXCEPT !.metadata = TRUE, !.uses = MaxUses]
    BY <1>3 DEF Execute, CreateMetadata
  <2>2. /\ k.token = l.token /\ k.supply = l.supply /\ k.uses = MaxUses
        /\ k.mayUse = l.mayUse /\ k.edition = l.edition
    BY <2>1 DEF Coherent, LedgersOf
  <2>3. QED
    BY <1>1, <1>2, <2>2
<1>4. CASE i.type = "createMasterEdition"
  <2>1. /\ l.supply = 1
        /\ k = [l EXCEPT !.edition = TRUE, !.max = i.max, !.mintAuthority = Edition,
                         !.freezeAuthority = Edition]
    BY <1>4 DEF Execute, CreateMasterEdition
  <2>2. /\ k.token = l.token /\ k.supply = l.supply /\ k.uses = l.uses
        /\ k.mayUse = l.mayUse
    BY <2>1 DEF Coherent, LedgersOf
  <2>3. QED
    BY <1>1, <1>2, <2>1, <2>2
<1>5. CASE i.type = "utilize"
  <2> DEFINE left == IF i.delegated THEN l.mayUse[i.signer] - i.count ELSE l.mayUse[i.signer]
             may  == [l.mayUse EXCEPT ![i.signer] = left]
  <2>1. i.signer \in Wallets /\ i.count \in Nat
    BY <1>5 DEF Ordinary
  <2>2. /\ i.count <= l.uses /\ (i.delegated => i.count <= l.mayUse[i.signer])
        /\ k = [l EXCEPT !.uses = @ - i.count,
                         !.mayUse[i.signer] = IF i.delegated THEN @ - i.count ELSE @]
    BY <1>5 DEF Execute, Utilize
  <2>3. k.mayUse = may /\ k.uses = l.uses - i.count
        /\ k.token = l.token /\ k.supply = l.supply /\ k.edition = l.edition
    BY <2>1, <2>2 DEF Coherent, LedgersOf
  <2>4. left \in 0 .. MaxSupply
    BY <1>1, <2>1, <2>2, AccountsAssumption
  <2>5. l.uses - i.count \in 0 .. MaxUses
    BY <1>1, <2>1, <2>2, EditionAssumption
  <2> HIDE DEF left
  <2>6. may \in [Wallets -> 0 .. MaxSupply]
    BY <1>1, <2>1, <2>4
  <2> HIDE DEF may
  <2>7. QED
    BY <1>2, <2>3, <2>5, <2>6
<1>6. CASE i.type \in {"approveUse", "revokeUse"}
  <2> DEFINE n == IF i.type = "approveUse" THEN i.count ELSE 0
  <2>1. i.user \in Wallets /\ n \in 0 .. MaxSupply
    BY <1>1, <1>6 DEF Ordinary
  <2>2. k = [l EXCEPT !.mayUse[i.user] = n]
    BY <1>6 DEF Execute, ApproveUse, RevokeUse
  <2>3. /\ k.mayUse = [l.mayUse EXCEPT ![i.user] = n] /\ k.uses = l.uses
        /\ k.token = l.token /\ k.supply = l.supply /\ k.edition = l.edition
    BY <2>2 DEF Coherent, LedgersOf
  <2> HIDE DEF n
  <2>4. [l.mayUse EXCEPT ![i.user] = n] \in [Wallets -> 0 .. MaxSupply]
    BY <1>1, <2>1
  <2>5. QED
    BY <1>1, <1>2, <2>3, <2>4
<1>7. QED
  BY <1>3, <1>4, <1>5, <1>6

(* The one token of an NFT is burnt, and nothing is left. *)
LEMMA CountedBurn ==
  ASSUME NEW l, Coherent(l), Counted(l), NEW i \in Ordinary, Execute(l, i) # Refused,
         i.type = "burnNft"
  PROVE  Counted(Execute(l, i))
<1> DEFINE k == Execute(l, i)
<1>1. i.account \in Accounts /\ l.token \in [Accounts -> TokensOf(Int)]
  BY DEF Ordinary, Coherent, LedgersOf
<1>2. /\ l.edition /\ l.token[i.account].amount = 1
      /\ k = [l EXCEPT !.metadata = FALSE, !.edition = FALSE, !.supply = 0,
                       !.token[i.account] = NoToken]
  BY DEF Execute, BurnNft, Holds
<1>3. /\ k.token = [l.token EXCEPT ![i.account] = NoToken] /\ k.supply = 0
      /\ k.uses = l.uses /\ k.mayUse = l.mayUse /\ ~k.edition
  BY <1>1, <1>2 DEF Coherent, LedgersOf
<1>4. NoToken.amount = 0 /\ NoToken.delegated = 0
  BY DEF NoToken
<1>5. l.supply = 1 /\ 0 \in 0 .. MaxSupply /\ 0 = l.supply - l.token[i.account].amount + 0
  BY <1>2, AccountsAssumption DEF Counted
<1> HIDE DEF k
<1>6. Counted(k)
  BY <1>1, <1>3, <1>4, <1>5, NoTokenType, CountedAmount
<1>7. QED
  BY <1>6 DEF k

LEMMA CountedSteps ==
  ASSUME NEW l, Coherent(l), Counted(l), NEW i \in Ordinary \cup Creations,
         Execute(l, i) # Refused
  PROVE  Counted(Execute(l, i))
<1>1. CASE i \in Ordinary
  <2>1. \/ i.type \in {"createToken", "approve", "revoke", "freeze", "thaw",
                       "freezeDelegated", "thawDelegated"}
        \/ i.type \in {"createMetadata", "createMasterEdition", "utilize", "approveUse",
                       "revokeUse"}
        \/ i.type = "mintTo"
        \/ i.type = "transfer"
        \/ i.type = "burnNft"
    BY <1>1 DEF Ordinary
  <2>2. QED
    BY <1>1, <2>1, CountedTokens, CountedNft, CountedMint, CountedTransfer, CountedBurn
<1>2. CASE i \in Creations
  <2>1. Execute(l, i) = [l EXCEPT !.mint = TRUE, !.mintAuthority = i.authority,
                                  !.freezeAuthority = i.freeze]
    BY <1>2 DEF Creations, Execute, InitializeMint
  <2> DEFINE k == Execute(l, i)
  <2>2. /\ k.token = l.token /\ k.supply = l.supply /\ k.uses = l.uses
        /\ k.mayUse = l.mayUse /\ k.edition = l.edition
    BY <2>1 DEF Coherent, LedgersOf
  <2> HIDE DEF k
  <2>3. Counted(k)
    BY <2>2, CountedSame DEF Counted
  <2>4. QED
    BY <2>3 DEF k
<1>3. QED
  BY <1>1, <1>2

(* As AfterCoherent, with the sum of the tokens.                           *)
LEMMA AfterCounted ==
  ASSUME NEW l, Coherent(l), Counted(l), NEW s \in Seq(Ordinary \cup Creations),
         After(l, s) # Refused
  PROVE  Counted(After(l, s))
<1> DEFINE Fine(k) == k = Refused \/ (Coherent(k) /\ Counted(k))
<1>1. ASSUME NEW k, Fine(k), NEW n \in Nat \ {0} PROVE Fine(Step(k, s, n))
  <2>1. CASE k = Refused \/ n > Len(s)
    BY <1>1, <2>1 DEF Step
  <2>2. CASE k # Refused /\ ~(n > Len(s)) /\ Execute(k, s[n]) # Refused
    <3>1. s[n] \in Ordinary \cup Creations
      BY <2>2
    <3>2. Step(k, s, n) = Execute(k, s[n])
      BY <2>2 DEF Step
    <3>3. Coherent(k) /\ Counted(k)
      BY <1>1, <2>2
    <3>4. Coherent(Execute(k, s[n])) /\ Counted(Execute(k, s[n]))
      BY <2>2, <3>1, <3>3, OrdinarySteps, CreationSteps, CountedSteps
    <3>5. QED
      BY <3>2, <3>4
  <2>3. CASE k # Refused /\ ~(n > Len(s)) /\ Execute(k, s[n]) = Refused
    BY <2>3 DEF Step
  <2>4. QED
    BY <2>1, <2>2, <2>3
<1>2. Fine(l)
  OBVIOUS
<1> HIDE DEF Fine
<1> DEFINE k1 == Step(l, s, 1)
           k2 == Step(k1, s, 2)
           k3 == Step(k2, s, 3)
           k4 == Step(k3, s, 4)
           k5 == Step(k4, s, 5)
<1>3. Fine(k1)
  BY <1>1, <1>2
<1> HIDE DEF k1
<1>4. Fine(k2)
  BY <1>1, <1>3
<1> HIDE DEF k2
<1>5. Fine(k3)
  BY <1>1, <1>4
<1> HIDE DEF k3
<1>6. Fine(k4)
  BY <1>1, <1>5
<1> HIDE DEF k4
<1>7. Fine(k5)
  BY <1>1, <1>6
<1>8. After(l, s) = k5
  BY DEF After, MaxInstructions, k1, k2, k3, k4
<1> HIDE DEF k5
<1>9. QED
  BY <1>7, <1>8 DEF Fine

LEMMA LandCounted ==
  ASSUME Inv, Counted(ledger), NEW t \in network, Land(t)
  PROVE  Counted(ledger)'
<1>1. CASE ~Accepted(t)
  BY <1>1 DEF Land, Counted, Balances
<1>2. CASE Accepted(t) /\ t.op = "print"
  <2>1. PICK owner \in Wallets :
          t.instructions = PrintInstructions(t.by, t.aim.account, t.saw, owner)
    BY <1>2 DEF Inv, Built
  <2> DEFINE i == [type |-> "print", signer |-> t.by, account |-> t.aim.account,
                   number |-> t.saw + 1, owner |-> owner]
             k == Outcome(t)
  <2>2. Coherent(ledger) /\ ledger # Refused
    BY RefusedAssumption DEF Inv, Coherent
  <2>3. k = PrintEdition(ledger, i)
    <3>1. t.instructions = <<i>> /\ i.type = "print"
      BY <2>1 DEF PrintInstructions
    <3> HIDE DEF i
    <3>2. k = Run(ledger, i)
      BY <3>1, AfterOne DEF Outcome
    <3>3. QED
      BY <2>2, <3>1, <3>2 DEF Run, Execute
  <2>4. k # Refused
    BY <1>2 DEF Accepted
  <2>5. /\ k.token = ledger.token /\ k.supply = ledger.supply /\ k.uses = ledger.uses
        /\ k.mayUse = ledger.mayUse /\ k.edition = ledger.edition
    BY <2>2, <2>3, <2>4 DEF PrintEdition, Coherent, LedgersOf
  <2>6. ledger' = k
    BY <1>2 DEF Land
  <2> HIDE DEF k
  <2>7. Counted(k)
    BY <2>2, <2>5, CountedSame DEF Counted
  <2>8. QED
    BY <2>6, <2>7 DEF Counted, Balances
<1>3. CASE Accepted(t) /\ t.op # "print"
  <2>1. t.instructions \in Seq(Ordinary \cup Creations)
    BY <1>3 DEF Inv, Built, All
  <2>2. ledger' = After(ledger, t.instructions) /\ ledger' # Refused
    BY <1>3 DEF Land, Accepted, Outcome
  <2>3. Counted(After(ledger, t.instructions))
    BY <2>1, <2>2, AfterCounted DEF Inv
  <2>4. QED
    BY <2>2, <2>3 DEF Counted, Balances
<1>4. QED
  BY <1>1, <1>2, <1>3

LEMMA InitCounted == Init => Counted(ledger)
<1> SUFFICES ASSUME Init PROVE Counted(ledger)
  OBVIOUS
<1>1. /\ ledger.supply = 0 /\ ledger.uses = 0 /\ ~ledger.edition
      /\ \A a \in Accounts : ledger.token[a] = NoToken
      /\ \A w \in Wallets : ledger.mayUse[w] = 0
  BY DEF Init, NoAsset
<1>2. NoToken.amount = 0 /\ NoToken.delegated = 0
  BY DEF NoToken
<1>3. Balances(ledger) = [a \in Accounts |-> 0]
  BY <1>1, <1>2 DEF Balances
<1>4. AddsUp(Balances(ledger), ledger.supply)
  BY <1>1, <1>3, SumOfNothing
<1>5. QED
  BY <1>1, <1>2, <1>4, AccountsAssumption, EditionAssumption DEF Counted

-----------------------------------------------------------------------------
(* What is in the network.                                                 *)

Fits(t) ==
  /\ t.by \in Wallets /\ t.op \in Calls[t.by]
  /\ Len(t.instructions) \in 1 .. MaxInstructions

LEMMA SendFits ==
  ASSUME NEW c \in Wallets, NEW op, NEW s, NEW saw, NEW aim, Send(c, op, s, saw, aim),
         Len(s) \in 1 .. 5
  PROVE  ledger' = ledger /\ \A t \in network' : t \in network \/ Fits(t)
BY DEF Send, Fits, MaxInstructions

LEMMA CreateLengths ==
  ASSUME NEW c \in Wallets, NEW existing \in BOOLEAN, NEW exists \in BOOLEAN,
         NEW account \in Accounts \cup {NoAccount}, NEW amount \in Nat \cup {NoAmount}
  PROVE  Len(CreateSftInstructions(c, existing, account, exists, amount)) \in 1 .. 4
<1> DEFINE s == CreateMintAndToken(c, existing, account, exists, amount)
           i == TheMetadata(c)
<1>1. CreateSftInstructions(c, existing, account, exists, amount) = s \o <<i>>
  BY DEF CreateSftInstructions, TheMetadata
<1>2. s \in Seq(All) /\ Len(s) <= 3 /\ i \in All
  <2>1. s \in Seq(All) /\ Len(s) <= 3
    BY CreateShape
  <2>2. i \in All
    BY DEF TheMetadata, Ordinary, All
  <2>3. QED
    BY <2>1, <2>2
<1> HIDE DEF s, i
<1>3. Len(s \o <<i>>) = Len(s) + 1
  BY <1>2
<1>4. Len(s) \in Nat
  BY <1>2
<1>5. QED
  BY <1>1, <1>2, <1>3, <1>4

LEMMA NftLengths ==
  ASSUME NEW c \in Wallets, NEW existing \in BOOLEAN, NEW exists \in BOOLEAN,
         NEW account \in Accounts, NEW max \in 0 .. MaxPrints
  PROVE  Len(CreateNftInstructions(c, existing, account, exists, max)) \in 1 .. 5
<1> DEFINE s == CreateSftInstructions(c, existing, account, exists, 1)
           i == TheEdition(c, max)
<1>1. CreateNftInstructions(c, existing, account, exists, max) = s \o <<i>>
  BY DEF CreateNftInstructions, TheEdition
<1>2. s \in Seq(All) /\ Len(s) \in 1 .. 4 /\ i \in All
  BY SftShape, CreateLengths DEF TheEdition, Ordinary, All
<1> HIDE DEF s, i
<1>3. Len(s \o <<i>>) = Len(s) + 1
  BY <1>2
<1>4. QED
  BY <1>1, <1>2, <1>3

LEMMA MintLengths ==
  ASSUME NEW c \in Wallets, NEW account \in Accounts, NEW amount \in Nat \cup {NoAmount}
  PROVE  /\ Len(CreateMintInstructions(c, c)) = 1
         /\ Len(CreateTokenWithMintInstructions(c, account, amount)) \in 1 .. 5
<1> DEFINE a == TheMint(c)
           b == TheToken(account)
           d == TheTokens(c, account, amount)
           s == <<a>> \o <<b>>
<1>1. a \in All /\ b \in All /\ (amount # NoAmount => d \in All)
  BY PartTypes DEF All
<1>2. /\ CreateMintInstructions(c, c) = <<a>>
      /\ CreateTokenWithMintInstructions(c, account, amount)
           = s \o IF amount # NoAmount THEN MintInstructions(c, account, amount, TRUE) ELSE <<>>
  BY DEF CreateMintInstructions, CreateTokenInstructions, CreateTokenWithMintInstructions,
         TheMint, TheToken
<1>3. amount # NoAmount => MintInstructions(c, account, amount, TRUE) = <<d>>
  BY MintShape
<1> HIDE DEF a, b, d
<1>4. s \in Seq(All) /\ Len(s) = 2 /\ Len(<<a>>) = 1
  BY <1>1
<1> HIDE DEF s
<1>5. (amount # NoAmount => Len(s \o <<d>>) = 3) /\ Len(s \o <<>>) = 2
  <2>1. amount # NoAmount => <<d>> \in Seq(All) /\ Len(<<d>>) = 1
    BY <1>1
  <2>2. <<>> \in Seq(All) /\ Len(<<>>) = 0
    OBVIOUS
  <2>3. \A r \in Seq(All) : Len(s \o r) = Len(s) + Len(r)
    BY <1>4, ConcatProperties
  <2>4. amount # NoAmount => Len(s \o <<d>>) = Len(s) + 1
    BY <2>1, <2>3
  <2>5. Len(s \o <<>>) = Len(s) + 0
    BY <2>2, <2>3
  <2>6. QED
    BY <1>4, <2>4, <2>5
<1> DEFINE u == CreateTokenWithMintInstructions(c, account, amount)
<1>6. (amount # NoAmount /\ u = s \o <<d>>) \/ u = s \o <<>>
  BY <1>2, <1>3
<1> HIDE DEF u
<1>7. Len(u) = 3 \/ Len(u) = 2
  BY <1>5, <1>6
<1>8. Len(u) \in 1 .. 5
  BY <1>7
<1>9. Len(CreateMintInstructions(c, c)) = 1
  BY <1>2, <1>4
<1>10. QED
  BY <1>8, <1>9 DEF u

LEMMA MoveLengths ==
  ASSUME NEW owner \in Wallets, NEW delegate \in Wallets \cup {NoKey},
         NEW account \in Accounts, NEW amount \in Nat, NEW exists \in BOOLEAN
  PROVE  /\ Len(MintInstructions(owner, account, amount, exists)) \in 1 .. 5
         /\ Len(SendInstructions(owner, Ata[owner], delegate, account, amount, exists))
              \in 1 .. 5
<1> DEFINE a == TheToken(account)
           b == TheTokens(owner, account, amount)
           d == TheTransfer(owner, delegate, account, amount)
           m == MintInstructions(owner, account, amount, exists)
           s == SendInstructions(owner, Ata[owner], delegate, account, amount, exists)
<1>1. a \in Ordinary /\ b \in Ordinary /\ d \in Ordinary
  BY PartTypes, SendShape
<1>2. IF exists THEN m = <<b>> /\ s = <<d>>
                ELSE m = <<a>> \o <<b>> /\ s = <<a>> \o <<d>>
  BY MintShape, SendShape
<1> HIDE DEF a, b, d, m, s
<1>3. /\ Len(<<b>>) = 1 /\ Len(<<d>>) = 1
      /\ Len(<<a>> \o <<b>>) = 2 /\ Len(<<a>> \o <<d>>) = 2
  BY <1>1
<1>4. Len(m) \in 1 .. 5 /\ Len(s) \in 1 .. 5
  BY <1>2, <1>3
<1>5. QED
  BY <1>4 DEF m, s

LEMMA TokenCallsFit ==
  ASSUME Inv, NEW c \in Wallets, TokenCalls(c)
  PROVE  ledger' = ledger /\ \A t \in network' : t \in network \/ Fits(t)
<1> DEFINE Goal == ledger' = ledger /\ \A t \in network' : t \in network \/ Fits(t)
<1> SUFFICES Goal
  BY DEF Goal
<1> HIDE DEF Goal
<1>0. /\ Amounts \subseteq Nat /\ 0 \in Nat
      /\ \A d \in Hands[c] \cup {NoKey} : d \in Wallets \cup {NoKey}
      /\ \A a \in Accounts : Exists(a) \in BOOLEAN
  BY CallerTypes, ExistsType
<1>1. ASSUME NEW op, NEW s, NEW saw, NEW aim, Send(c, op, s, saw, aim), Len(s) \in 1 .. 5
      PROVE  Goal
  BY <1>1, SendFits DEF Goal
<1>2. ASSUME NEW op, NEW i, NEW saw, NEW aim, Send(c, op, <<i>>, saw, aim)
      PROVE  Goal
  <2>1. Len(<<i>>) \in 1 .. 5
    OBVIOUS
  <2>2. QED
    BY <1>1, <1>2, <2>1
<1>3. CASE CreateMint(c)
  BY <1>2, <1>3 DEF CreateMint, CreateMintInstructions
<1>4. ASSUME NEW account \in Accounts, NEW supply \in Amounts \cup {0, NoAmount},
             CreateTokenWithMint(c, account, supply)
      PROVE  Goal
  <2>1. Len(CreateTokenWithMintInstructions(c, account, supply)) \in 1 .. 5
    BY <1>0, MintLengths
  <2>2. QED
    BY <1>1, <1>4, <2>1 DEF CreateTokenWithMint
<1>5. ASSUME NEW account \in Accounts,
             CreateToken(c, account) \/ FreezeToken(c, account) \/ ThawToken(c, account)
      PROVE  Goal
  BY <1>2, <1>5 DEF CreateToken, CreateTokenInstructions, FreezeToken, FreezeInstructions,
                    ThawToken, ThawInstructions
<1>6. ASSUME NEW account \in Accounts, NEW amount \in Amounts, Mint(c, account, amount)
      PROVE  Goal
  <2>1. Len(MintInstructions(c, account, amount, Exists(account))) \in 1 .. 5
    BY <1>0, MoveLengths
  <2>2. QED
    BY <1>1, <1>6, <2>1 DEF Mint
<1>7. ASSUME NEW account \in Accounts, NEW owner \in Wallets,
             NEW delegate \in Hands[c] \cup {NoKey}, NEW amount \in Amounts,
             NEW ownerSigns \in BOOLEAN,
             SendTokens(c, owner, ownerSigns, delegate, account, amount)
      PROVE  Goal
  <2>1. Len(SendInstructions(owner, Ata[owner], delegate, account, amount, Exists(account)))
          \in 1 .. 5
    BY <1>0, MoveLengths
  <2>2. QED
    BY <1>1, <1>7, <2>1 DEF SendTokens
<1>8. ASSUME NEW delegate \in Wallets, NEW amount \in Amounts,
             ApproveDelegate(c, delegate, amount)
      PROVE  Goal
  BY <1>2, <1>8 DEF ApproveDelegate, ApproveInstructions
<1>9. CASE RevokeDelegate(c)
  BY <1>2, <1>9 DEF RevokeDelegate, RevokeInstructions
<1>10. QED
  BY <1>3, <1>4, <1>5, <1>6, <1>7, <1>8, <1>9 DEF TokenCalls

LEMMA NftCallsFit ==
  ASSUME Inv, NEW c \in Wallets, NftCalls(c)
  PROVE  ledger' = ledger /\ \A t \in network' : t \in network \/ Fits(t)
<1> DEFINE Goal == ledger' = ledger /\ \A t \in network' : t \in network \/ Fits(t)
<1> SUFFICES Goal
  BY DEF Goal
<1> HIDE DEF Goal
<1>0. /\ Amounts \subseteq Nat /\ 0 \in Nat /\ Maxima \subseteq 0 .. MaxPrints
      /\ \A a \in Accounts \cup {NoAccount} : Exists(a) \in BOOLEAN
  BY CallerTypes, ExistsType
<1>1. ASSUME NEW op, NEW s, NEW saw, NEW aim, Send(c, op, s, saw, aim), Len(s) \in 1 .. 5
      PROVE  Goal
  BY <1>1, SendFits DEF Goal
<1>2. ASSUME NEW op, NEW i, NEW saw, NEW aim, Send(c, op, <<i>>, saw, aim)
      PROVE  Goal
  <2>1. Len(<<i>>) \in 1 .. 5
    OBVIOUS
  <2>2. QED
    BY <1>1, <1>2, <2>1
<1>3. ASSUME NEW existing \in BOOLEAN, NEW account \in Accounts \cup {NoAccount},
             NEW amount \in Amounts \cup {0, NoAmount}, CreateSft(c, existing, account, amount)
      PROVE  Goal
  <2> DEFINE seen == existing /\ Exists(account)
             s == CreateSftInstructions(c, existing, account, seen, amount)
  <2>1. seen \in BOOLEAN /\ amount \in Nat \cup {NoAmount}
    BY <1>0
  <2>2. \E saw, aim : Send(c, "createSft", s, saw, aim)
    BY <1>3 DEF CreateSft
  <2> HIDE DEF seen
  <2>3. Len(s) \in 1 .. 5
    BY <2>1, CreateLengths
  <2> HIDE DEF s
  <2>4. QED
    BY <1>1, <2>2, <2>3
<1>4. ASSUME NEW existing \in BOOLEAN, NEW account \in Accounts, NEW max \in Maxima,
             CreateNft(c, existing, account, max)
      PROVE  Goal
  <2>1. Len(CreateNftInstructions(c, existing, account, Exists(account), max)) \in 1 .. 5
    BY <1>0, NftLengths
  <2>2. QED
    BY <1>1, <1>4, <2>1 DEF CreateNft
<1>5. ASSUME NEW owner \in Wallets, PrintNewEdition(c, owner)
      PROVE  Goal
  BY <1>2, <1>5 DEF PrintNewEdition, PrintInstructions
<1>6. ASSUME NEW owner \in Wallets,
             FreezeDelegatedNft(c, owner) \/ ThawDelegatedNft(c, owner)
      PROVE  Goal
  BY <1>2, <1>6 DEF FreezeDelegatedNft, FreezeDelegatedInstructions, ThawDelegatedNft,
                    ThawDelegatedInstructions
<1>7. ASSUME NEW owner \in Wallets, NEW user \in {NoKey, c}, NEW count \in Amounts,
             UseNft(c, owner, user, count)
      PROVE  Goal
  BY <1>2, <1>7 DEF UseNft, UseInstructions
<1>8. ASSUME NEW user \in Wallets \ {c}, NEW count \in Amounts, ApproveNftUse(c, user, count)
      PROVE  Goal
  BY <1>2, <1>8 DEF ApproveNftUse, ApproveUseInstructions
<1>9. ASSUME NEW user \in Wallets \ {c}, RevokeNftUse(c, user)
      PROVE  Goal
  BY <1>2, <1>9 DEF RevokeNftUse, RevokeUseInstructions
<1>10. CASE DeleteNft(c)
  BY <1>2, <1>10 DEF DeleteNft, BurnInstructions
<1>11. QED
  BY <1>3, <1>4, <1>5, <1>6, <1>7, <1>8, <1>9, <1>10 DEF NftCalls

-----------------------------------------------------------------------------
CountInv == Counted(ledger) /\ \A t \in network : Fits(t)

LEMMA CountNext == Inv /\ CountInv /\ [Next]_vars => CountInv'
<1> SUFFICES ASSUME Inv, CountInv, [Next]_vars PROVE CountInv'
  OBVIOUS
<1>1. ASSUME ledger' = ledger PROVE Counted(ledger)'
  BY <1>1 DEF CountInv, Counted, Balances
<1>2. ASSUME \A t \in network' : t \in network \/ Fits(t)
      PROVE  (\A t \in network : Fits(t))'
  BY <1>2 DEF CountInv, Fits
<1>3. ASSUME NEW c \in Wallets, TokenCalls(c) \/ NftCalls(c) PROVE CountInv'
  BY <1>1, <1>2, <1>3, TokenCallsFit, NftCallsFit DEF CountInv
<1>4. ASSUME NEW t \in network, Land(t) PROVE CountInv'
  BY <1>2, <1>4, LandCounted DEF CountInv, Land
<1>5. ASSUME NEW t \in network, Expire(t) PROVE CountInv'
  BY <1>1, <1>2, <1>5 DEF CountInv, Expire
<1>6. CASE UNCHANGED vars
  BY <1>1, <1>2, <1>6 DEF CountInv, vars
<1>7. QED
  BY <1>3, <1>4, <1>5, <1>6 DEF Next

LEMMA CountInit == Init => CountInv
BY InitCounted DEF Init, CountInv

(* The inductive invariant of the balances and of what is in the network.  *)
THEOREM CountInvariant == Spec => []CountInv
<1>1. Spec => []Inv
  BY Invariant
<1>2. QED
  BY <1>1, CountInit, CountNext, PTL DEF Spec

LEMMA CountType == Inv /\ CountInv => TypeOK
BY CountedType DEF Inv, CountInv, TypeOK, Fits

(* Tokens are neither made nor lost on the way: whatever is created,       *)
(* minted, sent, printed or burnt, and however transactions of several     *)
(* clients interleave, the supply of the mint is the sum of what its       *)
(* accounts hold, at most MaxSupply, and exactly 1 once there is an edition.*)
SupplyIsHeld ==
  /\ AddsUp(Balances(ledger), ledger.supply)
  /\ ledger.edition => ledger.supply = 1

(* So it is for any wallets, amounts and transactions in flight.           *)
THEOREM SupplyHeld == Spec => []SupplyIsHeld
<1>1. CountInv => SupplyIsHeld
  BY DEF CountInv, Counted, SupplyIsHeld
<1>2. QED
  BY <1>1, CountInvariant, PTL

(* The accounts stay in their bounds, no amount is ever negative or more   *)
(* than the supply, and every transaction in the network was sent by a     *)
(* client that calls its operation and has 1 to 5 instructions.            *)
THEOREM TypeCorrect == Spec => []TypeOK
BY Invariant, CountInvariant, CountType, PTL
=============================================================================
