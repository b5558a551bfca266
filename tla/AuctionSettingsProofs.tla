------------------------ MODULE AuctionSettingsProofs ------------------------
(* Theorems about AuctionSettings, for any keys, callers and settings.     *)
EXTENDS AuctionSettings, SequenceTheorems, TLAPS

\* The settings that an update instruction carries, null where they are left out.
SentSettingsSet ==
  [sellerFee : {Keep} \cup Fees, requiresSignOff : {Keep} \cup BOOLEAN,
   canChangeSalePrice : {Keep} \cup BOOLEAN]

Instructions ==
  [type : {"create"}, settings : Settings, feeTo : Keys, treasuryTo : Keys]
  \cup [type : {"update"}, signer : Keys, authority : Keys, feeTo : Keys,
        treasuryTo : Keys, settings : SentSettingsSet]
  \cup [type : {"delegateAuctioneer", "updateAuctioneer"}, signer : Keys,
        auctioneer : Keys, scopes : SUBSET Scopes]
  \cup [type : {"withdrawFees", "withdrawTreasury"}, signer : Keys, to : Keys]

-----------------------------------------------------------------------------
(* An instruction that is accepted leaves a house of the right type, which *)
(* still exists if it did.                                                 *)
LEMMA ExecuteType ==
  ASSUME NEW h \in Houses, NEW i \in Instructions, Execute(h, i) # Refused
  PROVE  Execute(h, i) \in Houses /\ (h.exists => Execute(h, i).exists)
<1>1. CASE i.type = "create"
  <2>1. Execute(h, i) = CreateHouse(h, i)
    BY <1>1 DEF Execute
  <2>2. i.settings \in Settings /\ i.feeTo \in Keys /\ i.treasuryTo \in Keys
    BY <1>1 DEF Instructions
  <2>3. QED
    BY <2>1, <2>2 DEF CreateHouse, Houses
<1>2. CASE i.type = "update"
  <2>1. Execute(h, i) = UpdateHouse(h, i)
    BY <1>2 DEF Execute
  <2>2. /\ i.authority \in Keys /\ i.feeTo \in Keys /\ i.treasuryTo \in Keys
        /\ i.settings \in SentSettingsSet
    BY <1>2 DEF Instructions
  <2> DEFINE s == [f \in DOMAIN h.settings |->
                    IF i.settings[f] = Null THEN h.settings[f] ELSE i.settings[f]]
  <2>3. s \in Settings
    BY <2>2 DEF Houses, Settings, SentSettingsSet, Keep
  <2>4. Execute(h, i) = [h EXCEPT !.authority = i.authority, !.feeTo = i.feeTo,
                                  !.treasuryTo = i.treasuryTo, !.settings = s]
    BY <2>1 DEF UpdateHouse
  <2> HIDE DEF s
  <2>5. QED
    BY <2>2, <2>3, <2>4 DEF Houses
<1>3. CASE i.type \in {"delegateAuctioneer", "updateAuctioneer"}
  <2>1. i.auctioneer \in Keys /\ i.scopes \in SUBSET Scopes
    BY <1>3 DEF Instructions
  <2>2. \/ Execute(h, i) = DelegateAuctioneer(h, i)
        \/ Execute(h, i) = UpdateAuctioneer(h, i)
    BY <1>3 DEF Execute
  <2> DEFINE r == [h.record EXCEPT ![i.auctioneer] = i.scopes]
  <2>3. r \in [Keys -> {NoScopes} \cup SUBSET Scopes]
    BY <2>1 DEF Houses
  <2>4. \/ Execute(h, i) = [h EXCEPT !.auctioneer = i.auctioneer, !.record = r]
        \/ Execute(h, i) = [h EXCEPT !.record = r]
    BY <2>2 DEF DelegateAuctioneer, UpdateAuctioneer
  <2> HIDE DEF r
  <2>5. QED
    BY <2>1, <2>3, <2>4 DEF Houses
<1>4. CASE i.type \in {"withdrawFees", "withdrawTreasury"}
  BY <1>4 DEF Execute, WithdrawFees, WithdrawTreasury
<1>5. i.type \in {"create", "update", "delegateAuctioneer", "updateAuctioneer",
                  "withdrawFees", "withdrawTreasury"}
  BY DEF Instructions
<1>6. QED
  BY <1>1, <1>2, <1>3, <1>4, <1>5

(* A transaction of such instructions does the same.                       *)
LEMMA AfterType ==
  ASSUME NEW h \in Houses, NEW s \in Seq(Instructions), After(h, s) # Refused
  PROVE  After(h, s) \in Houses /\ (h.exists => After(h, s).exists)
<1>1. ASSUME NEW g \in Houses \cup {Refused}, NEW n \in Nat \ {0},
             h.exists => g = Refused \/ g.exists
      PROVE  /\ Step(g, s, n) \in Houses \cup {Refused}
             /\ h.exists => Step(g, s, n) = Refused \/ Step(g, s, n).exists
  <2>1. CASE g = Refused \/ n > Len(s)
    BY <1>1, <2>1 DEF Step
  <2>2. CASE g # Refused /\ n <= Len(s)
    <3>1. s[n] \in Instructions
      BY <2>2
    <3>2. Step(g, s, n) = Execute(g, s[n])
      BY <2>2 DEF Step
    <3>3. QED
      BY <1>1, <2>2, <3>1, <3>2, ExecuteType
  <2>3. Len(s) \in Nat
    OBVIOUS
  <2>4. QED
    BY <2>1, <2>2, <2>3
<1> DEFINE h1 == Step(h, s, 1)
           h2 == Step(h1, s, 2)
           h3 == Step(h2, s, 3)
<1>2. h1 \in Houses \cup {Refused} /\ (h.exists => h1 = Refused \/ h1.exists)
  BY <1>1
<1> HIDE DEF h1
<1>3. h2 \in Houses \cup {Refused} /\ (h.exists => h2 = Refused \/ h2.exists)
  BY <1>1, <1>2
<1> HIDE DEF h2
<1>4. h3 \in Houses \cup {Refused} /\ (h.exists => h3 = Refused \/ h3.exists)
  BY <1>1, <1>3
<1>5. After(h, s) = h3
  BY DEF After, MaxInstructions, h1, h2
<1> HIDE DEF h3
<1>6. QED
  BY <1>4, <1>5

-----------------------------------------------------------------------------
\* An instruction that is sent only if something holds.
Optional(h, condition, i) == IF condition /\ h # Refused THEN Execute(h, i) ELSE h

(* A transaction of three optional instructions executes those that are    *)
(* sent, in their order.                                                   *)
LEMMA AfterOptional ==
  ASSUME NEW h, NEW a \in BOOLEAN, NEW b \in BOOLEAN, NEW c \in BOOLEAN,
         NEW i, NEW j, NEW k
  PROVE  After(h, When(a, i) \o When(b, j) \o When(c, k))
           = Optional(Optional(Optional(h, a, i), b, j), c, k)
<1> DEFINE T == {i, j, k}
           s == When(a, i) \o When(b, j) \o When(c, k)
           h1 == Optional(h, a, i)
           h2 == Optional(h1, b, j)
           h3 == Optional(h2, c, k)
<1>0. SUFFICES Step(Step(Step(h, s, 1), s, 2), s, 3) = h3
  BY DEF After, MaxInstructions
<1> HIDE DEF s
<1>1. CASE a /\ b /\ c
  <2>1. When(a, i) = <<i>> /\ When(b, j) = <<j>> /\ When(c, k) = <<k>>
    BY <1>1 DEF When
  <2>2. /\ When(a, i) \in Seq(T) /\ When(b, j) \in Seq(T) /\ When(c, k) \in Seq(T)
        /\ Len(s) = 3 /\ s[1] = i /\ s[2] = j /\ s[3] = k
    BY <2>1 DEF s
  <2>3. QED
    BY <1>1, <2>2 DEF Step, Optional
<1>2. CASE a /\ b /\ ~c
  <2>1. When(a, i) = <<i>> /\ When(b, j) = <<j>> /\ When(c, k) = << >>
    BY <1>2 DEF When
  <2>2. /\ When(a, i) \in Seq(T) /\ When(b, j) \in Seq(T) /\ When(c, k) \in Seq(T)
        /\ Len(s) = 2 /\ s[1] = i /\ s[2] = j
    BY <2>1 DEF s
  <2>3. QED
    BY <1>2, <2>2 DEF Step, Optional
<1>3. CASE a /\ ~b /\ c
  <2>1. When(a, i) = <<i>> /\ When(b, j) = << >> /\ When(c, k) = <<k>>
    BY <1>3 DEF When
  <2>2. /\ When(a, i) \in Seq(T) /\ When(b, j) \in Seq(T) /\ When(c, k) \in Seq(T)
        /\ Len(s) = 2 /\ s[1] = i /\ s[2] = k
    BY <2>1 DEF s
  <2>3. QED
    BY <1>3, <2>2 DEF Step, Optional
<1>4. CASE a /\ ~b /\ ~c
  <2>1. When(a, i) = <<i>> /\ When(b, j) = << >> /\ When(c, k) = << >>
    BY <1>4 DEF When
  <2>2. /\ When(a, i) \in Seq(T) /\ When(b, j) \in Seq(T) /\ When(c, k) \in Seq(T)
        /\ Len(s) = 1 /\ s[1] = i
    BY <2>1 DEF s
  <2>3. QED
    BY <1>4, <2>2 DEF Step, Optional
<1>5. CASE ~a /\ b /\ c
  <2>1. When(a, i) = << >> /\ When(b, j) = <<j>> /\ When(c, k) = <<k>>
    BY <1>5 DEF When
  <2>2. /\ When(a, i) \in Seq(T) /\ When(b, j) \in Seq(T) /\ When(c, k) \in Seq(T)
        /\ Len(s) = 2 /\ s[1] = j /\ s[2] = k
    BY <2>1 DEF s
  <2>3. QED
    BY <1>5, <2>2 DEF Step, Optional
<1>6. CASE ~a /\ b /\ ~c
  <2>1. When(a, i) = << >> /\ When(b, j) = <<j>> /\ When(c, k) = << >>
    BY <1>6 DEF When
  <2>2. /\ When(a, i) \in Seq(T) /\ When(b, j) \in Seq(T) /\ When(c, k) \in Seq(T)
        /\ Len(s) = 1 /\ s[1] = j
    BY <2>1 DEF s
  <2>3. QED
    BY <1>6, <2>2 DEF Step, Optional
<1>7. CASE ~a /\ ~b /\ c
  <2>1. When(a, i) = << >> /\ When(b, j) = << >> /\ When(c, k) = <<k>>
    BY <1>7 DEF When
  <2>2. /\ When(a, i) \in Seq(T) /\ When(b, j) \in Seq(T) /\ When(c, k) \in Seq(T)
        /\ Len(s) = 1 /\ s[1] = k
    BY <2>1 DEF s
  <2>3. QED
    BY <1>7, <2>2 DEF Step, Optional
<1>8. CASE ~a /\ ~b /\ ~c
  <2>1. When(a, i) = << >> /\ When(b, j) = << >> /\ When(c, k) = << >>
    BY <1>8 DEF When
  <2>2. /\ When(a, i) \in Seq(T) /\ When(b, j) \in Seq(T) /\ When(c, k) \in Seq(T)
        /\ Len(s) = 0
    BY <2>1 DEF s
  <2>3. QED
    BY <1>8, <2>2 DEF Step, Optional
<1>9. QED
  BY <1>1, <1>2, <1>3, <1>4, <1>5, <1>6, <1>7, <1>8

-----------------------------------------------------------------------------
(* The instructions of the builders.                                       *)

\* The update, the delegation and the new scopes, when they are sent.
TheUpdate(signer, m, edit) ==
  [type |-> "update", signer |-> signer, authority |-> Given(edit.authority, m.authority),
   feeTo |-> Given(edit.feeTo, m.feeTo), treasuryTo |-> Given(edit.treasuryTo, m.treasuryTo),
   settings |-> SentSettings(m, edit)]

TheDelegation(signer, m, edit) ==
  [type |-> "delegateAuctioneer", signer |-> signer, auctioneer |-> edit.auctioneer,
   scopes |-> Given(edit.scopes, DefaultScopes(m))]

TheScopes(signer, m, edit) ==
  [type |-> "updateAuctioneer", signer |-> signer,
   auctioneer |-> Given(edit.auctioneer, m.auctioneer),
   scopes |-> Given(edit.scopes, m.scopes)]

(* They are well formed.                                                   *)
LEMMA UpdateParts ==
  ASSUME NEW signer \in Keys, NEW m \in Models, NEW edit \in UpdateInputs
  PROVE  /\ TheUpdate(signer, m, edit) \in Instructions
         /\ ShouldDelegate(m, edit) => TheDelegation(signer, m, edit) \in Instructions
         /\ ShouldUpdateScopes(m, edit) => TheScopes(signer, m, edit) \in Instructions
<1>1. /\ Given(edit.authority, m.authority) \in Keys
      /\ Given(edit.feeTo, m.feeTo) \in Keys
      /\ Given(edit.treasuryTo, m.treasuryTo) \in Keys
      /\ SentSettings(m, edit) \in SentSettingsSet
  BY DEF Given, Models, UpdateInputs, SentSettings, SentSettingsSet
<1>2. TheUpdate(signer, m, edit) \in Instructions
  BY <1>1 DEF TheUpdate, Instructions
<1>3. /\ Given(edit.scopes, DefaultScopes(m)) \in SUBSET Scopes
      /\ Given(edit.scopes, m.scopes) \in SUBSET Scopes
  BY DEF Given, Models, UpdateInputs, DefaultScopes
<1>4. ASSUME ShouldDelegate(m, edit) PROVE TheDelegation(signer, m, edit) \in Instructions
  <2>1. edit.auctioneer \in Keys
    BY <1>4 DEF ShouldDelegate, UpdateInputs
  <2>2. QED
    BY <1>3, <2>1 DEF TheDelegation, Instructions
<1>5. ASSUME ShouldUpdateScopes(m, edit) PROVE TheScopes(signer, m, edit) \in Instructions
  <2>1. Given(edit.auctioneer, m.auctioneer) \in Keys
    BY <1>5 DEF ShouldUpdateScopes, UpdateInputs, Models, Given
  <2>2. QED
    BY <1>3, <2>1 DEF TheScopes, Instructions
<1>6. QED
  BY <1>2, <1>4, <1>5

LEMMA WhenType ==
  ASSUME NEW c \in BOOLEAN, NEW i, c => i \in Instructions
  PROVE  When(c, i) \in Seq(Instructions) /\ Len(When(c, i)) <= 1
BY DEF When

LEMMA UpdateType ==
  ASSUME NEW signer \in Keys, NEW m \in Models, NEW edit \in UpdateInputs
  PROVE  /\ UpdateInstructions(signer, m, edit) \in Seq(Instructions)
         /\ Len(UpdateInstructions(signer, m, edit)) <= MaxInstructions
<1> DEFINE a == When(DataDiffers(m, edit), TheUpdate(signer, m, edit))
           b == When(ShouldDelegate(m, edit), TheDelegation(signer, m, edit))
           c == When(ShouldUpdateScopes(m, edit), TheScopes(signer, m, edit))
<1>1. UpdateInstructions(signer, m, edit) = a \o b \o c
  BY DEF UpdateInstructions, TheUpdate, TheDelegation, TheScopes
<1>2. DataDiffers(m, edit) \in BOOLEAN /\ ShouldDelegate(m, edit) \in BOOLEAN
        /\ ShouldUpdateScopes(m, edit) \in BOOLEAN
  BY DEF DataDiffers, ShouldDelegate, ShouldUpdateScopes
<1>3. a \in Seq(Instructions) /\ Len(a) <= 1
  BY <1>2, UpdateParts, WhenType
<1>4. b \in Seq(Instructions) /\ Len(b) <= 1
  BY <1>2, UpdateParts, WhenType
<1>5. c \in Seq(Instructions) /\ Len(c) <= 1
  BY <1>2, UpdateParts, WhenType
<1> HIDE DEF a, b, c
<1>6. QED
  BY <1>1, <1>3, <1>4, <1>5 DEF MaxInstructions

LEMMA CreateType ==
  ASSUME NEW payer \in Keys, NEW wanted \in CreateInputs
  PROVE  /\ CreateInstructions(payer, wanted) \in Seq(Instructions)
         /\ Len(CreateInstructions(payer, wanted)) \in 1 .. MaxInstructions
<1> DEFINE first == [type |-> "create", settings |-> CreatedSettings(wanted),
                     feeTo |-> Given(wanted.feeTo, payer),
                     treasuryTo |-> Given(wanted.treasuryTo, payer)]
           second == [type |-> "delegateAuctioneer", signer |-> Creator,
                      auctioneer |-> wanted.auctioneer,
                      scopes |-> Given(wanted.scopes, Scopes)]
           a == <<first>>
           b == When(wanted.auctioneer # NoKey, second)
<1>1. CreatedSettings(wanted) \in Settings
  BY DEF CreatedSettings, Settings, CreateInputs, Given
<1>2. Given(wanted.feeTo, payer) \in Keys /\ Given(wanted.treasuryTo, payer) \in Keys
        /\ Given(wanted.scopes, Scopes) \in SUBSET Scopes
  BY DEF CreateInputs, Given
<1>3. first \in Instructions
  BY <1>1, <1>2 DEF Instructions
<1>4. wanted.auctioneer # NoKey => second \in Instructions
  BY <1>2, SettingsAssumption DEF Instructions, CreateInputs
<1>5. CreateInstructions(payer, wanted) = a \o b
  BY DEF CreateInstructions
<1> HIDE DEF first, second
<1>6. a \in Seq(Instructions) /\ Len(a) = 1
  BY <1>3
<1>7. b \in Seq(Instructions) /\ Len(b) <= 1
  BY <1>4, WhenType
<1> HIDE DEF a, b
<1>8. /\ Len(b) \in Nat /\ a \o b \in Seq(Instructions)
      /\ Len(a \o b) = Len(a) + Len(b)
  BY <1>6, <1>7, ConcatProperties, LenProperties
<1>9. Len(a \o b) \in 1 .. MaxInstructions
  BY <1>6, <1>7, <1>8 DEF MaxInstructions
<1>10. QED
  BY <1>5, <1>8, <1>9

LEMMA WithdrawType ==
  ASSUME NEW m \in Models
  PROVE  /\ WithdrawFeesInstructions(m) \in Seq(Instructions)
         /\ Len(WithdrawFeesInstructions(m)) = 1
         /\ WithdrawTreasuryInstructions(m) \in Seq(Instructions)
         /\ Len(WithdrawTreasuryInstructions(m)) = 1
<1>1. /\ [type |-> "withdrawFees", signer |-> m.authority, to |-> m.feeTo] \in Instructions
      /\ [type |-> "withdrawTreasury", signer |-> m.authority, to |-> m.treasuryTo]
           \in Instructions
  BY DEF Models, Instructions
<1>2. QED
  BY <1>1 DEF WithdrawFeesInstructions, WithdrawTreasuryInstructions

LEMMA FindType ==
  ASSUME NEW h \in Houses, NEW k \in Keys \cup {NoKey}
  PROVE  FindHouse(h, k) \in Models \cup {NoModel}
<1> DEFINE named == IF h.auctioneer = NoKey THEN NoKey ELSE k
           scopes == IF named = NoKey THEN {} ELSE h.record[named]
<1>1. CASE h.auctioneer # NoKey /\ (k = NoKey \/ h.record[k] = NoScopes)
  BY <1>1 DEF FindHouse
<1>2. CASE ~(h.auctioneer # NoKey /\ (k = NoKey \/ h.record[k] = NoScopes))
  <2>1. named \in Keys \cup {NoKey} /\ scopes \in SUBSET Scopes
    BY <1>2 DEF Houses
  <2>2. FindHouse(h, k) =
          [authority |-> h.authority, settings |-> h.settings, feeTo |-> h.feeTo,
           treasuryTo |-> h.treasuryTo, auctioneer |-> named, scopes |-> scopes]
    BY <1>2 DEF FindHouse
  <2> HIDE DEF named, scopes
  <2>3. QED
    BY <2>1, <2>2 DEF Houses, Models
<1>3. QED
  BY <1>1, <1>2

-----------------------------------------------------------------------------
(* An update in the network was built from a model of the house, by        *)
(* somebody with a key, and the house is there.                            *)
SentUpdate(t) ==
  /\ t.by \in Keys /\ t.base \in Models /\ t.aim \in UpdateInputs
  /\ t.instructions = UpdateInstructions(t.by, t.base, t.aim)

NetworkOK ==
  \A t \in network :
    /\ t.instructions \in Seq(Instructions)
    /\ t.op = "update" => SentUpdate(t) /\ house.exists

Inv ==
  /\ TypeOK
  /\ NetworkOK
  /\ model # NoModel => house.exists

LEMMA InitInv == Init => Inv
<1>1. (CHOOSE f \in Fees : TRUE) \in Fees
  <2>1. \E f \in Fees : TRUE
    BY SettingsAssumption
  <2>2. QED
    BY <2>1, Zenon
<1>2. NoHouse \in Houses
  BY <1>1, SettingsAssumption DEF NoHouse, Houses, Settings
<1>3. QED
  BY <1>2 DEF Init, Inv, TypeOK, NetworkOK

(* What Send adds is right if its instructions are.                        *)
LEMMA SendInv ==
  ASSUME Inv, NEW c \in Clients, NEW op, NEW instructions \in Seq(Instructions), NEW aim,
         Len(instructions) \in 1 .. MaxInstructions,
         Send(c, op, instructions, aim),
         op = "update" => /\ model \in Models /\ aim \in UpdateInputs
                          /\ instructions = UpdateInstructions(c, model, aim)
  PROVE  Inv'
<1> DEFINE t == [by |-> c, op |-> op, instructions |-> instructions,
                 base |-> model, aim |-> aim]
<1>1. network' = network \cup {t} /\ house' = house /\ model' = model /\ op \in Calls[c]
  BY DEF Send
<1>2. t.by = c /\ t.op = op /\ t.instructions = instructions /\ t.base = model /\ t.aim = aim
  OBVIOUS
<1> HIDE DEF t
<1>3. TypeOK'
  BY <1>1, <1>2 DEF Inv, TypeOK
<1>4. op = "update" => SentUpdate(t) /\ house.exists
  BY <1>2, ClientsAssumption, NoModelAssumption DEF Inv, SentUpdate
<1>5. NetworkOK'
  BY <1>1, <1>2, <1>4 DEF Inv, NetworkOK, SentUpdate
<1>6. QED
  BY <1>1, <1>3, <1>5 DEF Inv

(* Every step keeps the invariant: nothing undoes the house, so a model    *)
(* and an update built from it always speak of one that exists.            *)
LEMMA NextInv == Inv /\ [Next]_vars => Inv'
<1> SUFFICES ASSUME Inv, [Next]_vars PROVE Inv'
  OBVIOUS
<1>0. house \in Houses /\ model \in Models \cup {NoModel} /\ Clients \subseteq Keys
  BY ClientsAssumption DEF Inv, TypeOK
<1>1. ASSUME NEW k \in Keys \cup {NoKey}, Find(k) PROVE Inv'
  <2>1. model' \in Models \cup {NoModel}
    BY <1>0, <1>1, FindType DEF Find
  <2>2. QED
    BY <1>1, <2>1 DEF Find, Inv, TypeOK, NetworkOK, SentUpdate
<1>2. ASSUME NEW c \in Clients, NEW wanted \in Wishes, Create(c, wanted) PROVE Inv'
  <2>1. c \in Keys /\ wanted \in CreateInputs
    BY ClientsAssumption
  <2>2. QED
    BY <1>2, <2>1, CreateType, SendInv DEF Create
<1>3. ASSUME NEW c \in Clients, NEW edit \in Edits, Update(c, edit) PROVE Inv'
  <2>1. c \in Keys /\ edit \in UpdateInputs /\ model \in Models
    BY <1>0, <1>3, ClientsAssumption DEF Update
  <2> DEFINE u == UpdateInstructions(c, model, edit)
  <2>2. u \in Seq(Instructions) /\ Len(u) <= MaxInstructions /\ u # <<>>
    BY <1>3, <2>1, UpdateType DEF Update
  <2>3. Len(u) \in 1 .. MaxInstructions
    <3> HIDE DEF u
    <3>1. \A q \in Seq(Instructions) : q # <<>> => Len(q) \in Nat \ {0}
      BY EmptySeq
    <3>2. Len(u) \in Nat \ {0}
      BY <2>2, <3>1, Zenon
    <3>3. \A n \in Nat \ {0} : n <= MaxInstructions => n \in 1 .. MaxInstructions
      BY DEF MaxInstructions
    <3>4. QED
      BY <2>2, <3>2, <3>3, Zenon
  <2>4. Send(c, "update", u, edit)
    BY <1>3 DEF Update
  <2>5. QED
    BY <2>1, <2>2, <2>3, <2>4, SendInv
<1>4. ASSUME NEW c \in Clients,
             WithdrawFromFeeAccount(c) \/ WithdrawFromTreasuryAccount(c) PROVE Inv'
  <2>1. model \in Models
    BY <1>0, <1>4 DEF WithdrawFromFeeAccount, WithdrawFromTreasuryAccount
  <2>2. 1 \in 1 .. MaxInstructions
    BY DEF MaxInstructions
  <2>3. QED
    BY <1>4, <2>1, <2>2, WithdrawType, SendInv
    DEF WithdrawFromFeeAccount, WithdrawFromTreasuryAccount
<1>5. ASSUME NEW t \in network, Land(t) \/ Expire(t) PROVE Inv'
  <2>1. network' \subseteq network /\ model' = model
    BY <1>5 DEF Land, Expire
  <2>2. house' \in Houses /\ (house.exists => house'.exists)
    BY <1>0, <1>5, AfterType DEF Land, Expire, Accepted, Outcome, Inv, NetworkOK
  <2>3. QED
    BY <2>1, <2>2 DEF Inv, TypeOK, NetworkOK, SentUpdate
<1>6. CASE UNCHANGED vars
  BY <1>6 DEF vars, Inv, TypeOK, NetworkOK, SentUpdate
<1>7. QED
  BY <1>1, <1>2, <1>3, <1>4, <1>5, <1>6 DEF Next

(* Whatever is in the network still holds the instructions that its        *)
(* builder makes of the model and the edit it remembers.                   *)
THEOREM Invariant == Spec => []Inv
BY InitInv, NextInv, PTL DEF Spec

(* The accounts, the model and what is in the network always have the      *)
(* types they should, and no builder exceeds its number of instructions.   *)
THEOREM TypeCorrect == Spec => []TypeOK
<1>1. Inv => TypeOK
  BY DEF Inv
<1>2. QED
  BY <1>1, Invariant, PTL

-----------------------------------------------------------------------------
(* What the program does with an update, from the accounts it finds.       *)
Updates(t) ==
  Optional(Optional(Optional(house,
      DataDiffers(t.base, t.aim), TheUpdate(t.by, t.base, t.aim)),
      ShouldDelegate(t.base, t.aim), TheDelegation(t.by, t.base, t.aim)),
      ShouldUpdateScopes(t.base, t.aim), TheScopes(t.by, t.base, t.aim))

LEMMA OutcomeOfUpdate ==
  ASSUME NEW t, SentUpdate(t)
  PROVE  Outcome(t) = Updates(t)
<1>1. /\ DataDiffers(t.base, t.aim) \in BOOLEAN
      /\ ShouldDelegate(t.base, t.aim) \in BOOLEAN
      /\ ShouldUpdateScopes(t.base, t.aim) \in BOOLEAN
  BY DEF DataDiffers, ShouldDelegate, ShouldUpdateScopes
<1>2. UpdateInstructions(t.by, t.base, t.aim)
        = When(DataDiffers(t.base, t.aim), TheUpdate(t.by, t.base, t.aim))
          \o When(ShouldDelegate(t.base, t.aim), TheDelegation(t.by, t.base, t.aim))
          \o When(ShouldUpdateScopes(t.base, t.aim), TheScopes(t.by, t.base, t.aim))
  BY DEF UpdateInstructions, TheUpdate, TheDelegation, TheScopes
<1>3. QED
  BY <1>1, <1>2, AfterOptional DEF Outcome, SentUpdate, Updates

(* An auctioneer's instruction, when it is accepted, touches no setting.   *)
LEMMA AuctioneerSparesSettings ==
  ASSUME NEW h \in Houses, NEW signer \in Keys, NEW m \in Models, NEW edit \in UpdateInputs,
         NEW i, i = TheDelegation(signer, m, edit) \/ i = TheScopes(signer, m, edit),
         Execute(h, i) # Refused
  PROVE  Execute(h, i).settings = h.settings
<1> DEFINE r == [h.record EXCEPT ![i.auctioneer] = i.scopes]
<1>1. Execute(h, i) = DelegateAuctioneer(h, i) \/ Execute(h, i) = UpdateAuctioneer(h, i)
  BY DEF Execute, TheDelegation, TheScopes
<1>2. \/ Execute(h, i) = [h EXCEPT !.auctioneer = i.auctioneer, !.record = r]
      \/ Execute(h, i) = [h EXCEPT !.record = r]
  BY <1>1 DEF DelegateAuctioneer, UpdateAuctioneer
<1> HIDE DEF r
<1>3. QED
  BY <1>2 DEF Houses

(* The update itself gives a setting only if its caller mentions it.       *)
LEMMA UpdateSparesSettings ==
  ASSUME NEW h \in Houses, NEW signer \in Keys, NEW m \in Models, NEW edit \in UpdateInputs,
         NEW f \in DOMAIN h.settings, edit.settings[f] = Keep,
         Execute(h, TheUpdate(signer, m, edit)) # Refused
  PROVE  Execute(h, TheUpdate(signer, m, edit)).settings[f] = h.settings[f]
<1> DEFINE i == TheUpdate(signer, m, edit)
           s == [g \in DOMAIN h.settings |->
                  IF i.settings[g] = Null THEN h.settings[g] ELSE i.settings[g]]
<1>1. i.settings[f] = Null
  BY DEF TheUpdate, SentSettings, Keep
<1>2. s[f] = h.settings[f]
  BY <1>1
<1>3. Execute(h, i) = UpdateHouse(h, i)
  BY DEF Execute, TheUpdate
<1>4. Execute(h, i) = [h EXCEPT !.authority = i.authority, !.feeTo = i.feeTo,
                                !.treasuryTo = i.treasuryTo, !.settings = s]
  BY <1>3 DEF UpdateHouse
<1> HIDE DEF s, i
<1>5. Execute(h, i).settings = s
  BY <1>4 DEF Houses
<1>6. QED
  BY <1>2, <1>5 DEF i

(* An update built from however old a model keeps the settings that its    *)
(* caller does not mention.                                                *)
LEMMA SparedByUpdate ==
  ASSUME NEW t, SentUpdate(t), house \in Houses, Accepted(t),
         NEW f \in DOMAIN house.settings, t.aim.settings[f] = Keep
  PROVE  Outcome(t).settings[f] = house.settings[f]
<1> DEFINE h1 == Optional(house, DataDiffers(t.base, t.aim), TheUpdate(t.by, t.base, t.aim))
           h2 == Optional(h1, ShouldDelegate(t.base, t.aim),
                          TheDelegation(t.by, t.base, t.aim))
           h3 == Optional(h2, ShouldUpdateScopes(t.base, t.aim),
                          TheScopes(t.by, t.base, t.aim))
<1>1. /\ t.by \in Keys /\ t.base \in Models /\ t.aim \in UpdateInputs
      /\ Outcome(t) = h3
  BY OutcomeOfUpdate DEF SentUpdate, Updates
<1>2. h3 # Refused
  BY <1>1 DEF Accepted
<1>3. h2 # Refused
  BY <1>2 DEF Optional
<1>4. h1 # Refused
  BY <1>3 DEF Optional
<1>5. h1 \in Houses /\ h1.settings[f] = house.settings[f]
  <2>1. TheUpdate(t.by, t.base, t.aim) \in Instructions
    BY <1>1, UpdateParts
  <2>2. QED
    BY <1>1, <1>4, <2>1, ExecuteType, UpdateSparesSettings DEF Optional
<1> HIDE DEF h1
<1>6. h2 \in Houses /\ h2.settings = h1.settings
  <2>1. ShouldDelegate(t.base, t.aim) => TheDelegation(t.by, t.base, t.aim) \in Instructions
    BY <1>1, UpdateParts
  <2>2. QED
    BY <1>1, <1>3, <1>5, <2>1, ExecuteType, AuctioneerSparesSettings DEF Optional
<1> HIDE DEF h2
<1>7. h3.settings = h2.settings
  BY <1>1, <1>2, <1>6, AuctioneerSparesSettings DEF Optional
<1> HIDE DEF h3
<1>8. QED
  BY <1>1, <1>5, <1>6, <1>7

(* A stale update never brings back a setting, for any settings, keys and  *)
(* callers, however many updates are under way.                            *)
THEOREM StaleUpdatesSpareSettings == Spec => []StaleUpdateSparesSettings
<1>1. Inv => StaleUpdateSparesSettings
  BY SparedByUpdate DEF Inv, TypeOK, NetworkOK, StaleUpdateSparesSettings
<1>2. QED
  BY <1>1, Invariant, PTL

-----------------------------------------------------------------------------
(* A model that is current says what the accounts say.                     *)
LEMMA CurrentModel ==
  ASSUME NEW m \in Models, Current(m), house \in Houses
  PROVE  /\ m.authority = house.authority /\ m.settings = house.settings
         /\ m.feeTo = house.feeTo /\ m.treasuryTo = house.treasuryTo
         /\ m.auctioneer = house.auctioneer
         /\ m.scopes = IF house.auctioneer = NoKey THEN {} ELSE house.record[house.auctioneer]
         /\ house.auctioneer # NoKey => house.record[house.auctioneer] \in SUBSET Scopes
<1>1. FindHouse(house, house.auctioneer) # NoModel
  BY NoModelAssumption DEF Current
<1>2. house.auctioneer # NoKey => house.record[house.auctioneer] # NoScopes
  BY <1>1 DEF FindHouse
<1>3. m = [authority |-> house.authority, settings |-> house.settings,
           feeTo |-> house.feeTo, treasuryTo |-> house.treasuryTo,
           auctioneer |-> house.auctioneer,
           scopes |-> IF house.auctioneer = NoKey THEN {}
                      ELSE house.record[house.auctioneer]]
  BY <1>1 DEF Current, FindHouse
<1>4. QED
  BY <1>2, <1>3 DEF Houses

(* What an update from a current model has to change, it sends.            *)
LEMMA NoUpdateToSend ==
  ASSUME NEW m \in Models, Current(m), house \in Houses, NEW edit \in UpdateInputs,
         ~DataDiffers(m, edit)
  PROVE  /\ Updated(edit).authority = house.authority
         /\ Updated(edit).settings = house.settings
         /\ Updated(edit).feeTo = house.feeTo
         /\ Updated(edit).treasuryTo = house.treasuryTo
<1>1. /\ m.authority = house.authority /\ m.settings = house.settings
      /\ m.feeTo = house.feeTo /\ m.treasuryTo = house.treasuryTo
  BY CurrentModel
<1> DEFINE s == [f \in DOMAIN house.settings |->
                  Given(edit.settings[f], house.settings[f])]
<1>2. \A f \in DOMAIN house.settings :
        Given(edit.settings[f], house.settings[f]) = house.settings[f]
  BY <1>1 DEF DataDiffers
<1>3. s = house.settings
  BY <1>2 DEF Houses, Settings
<1> HIDE DEF s
<1>4. Updated(edit).settings = s
  BY DEF Updated, s
<1>5. QED
  BY <1>1, <1>3, <1>4 DEF DataDiffers, Updated

(* The house as FindHouse reads it, from its parts.                        *)
LEMMA Found ==
  ASSUME NEW h \in Houses, h.auctioneer # NoKey => h.record[h.auctioneer] # NoScopes
  PROVE  FindHouse(h, h.auctioneer) =
           [authority |-> h.authority, settings |-> h.settings, feeTo |-> h.feeTo,
            treasuryTo |-> h.treasuryTo, auctioneer |-> h.auctioneer,
            scopes |-> IF h.auctioneer = NoKey THEN {} ELSE h.record[h.auctioneer]]
BY DEF FindHouse

LEMMA NothingToSend ==
  ASSUME NEW c \in Keys, NEW m \in Models, Current(m), house \in Houses,
         NEW edit \in UpdateInputs, UpdateInstructions(c, m, edit) = <<>>
  PROVE  Updated(edit) = FindHouse(house, house.auctioneer)
<1> DEFINE a == When(DataDiffers(m, edit), TheUpdate(c, m, edit))
           b == When(ShouldDelegate(m, edit), TheDelegation(c, m, edit))
           d == When(ShouldUpdateScopes(m, edit), TheScopes(c, m, edit))
<1>1. ~DataDiffers(m, edit) /\ ~ShouldDelegate(m, edit) /\ ~ShouldUpdateScopes(m, edit)
  <2>1. a \o b \o d = <<>>
    BY DEF UpdateInstructions, TheUpdate, TheDelegation, TheScopes
  <2>2. a \in Seq(Instructions) /\ b \in Seq(Instructions) /\ d \in Seq(Instructions)
    BY UpdateParts, WhenType DEF DataDiffers, ShouldDelegate, ShouldUpdateScopes
  <2>3. /\ DataDiffers(m, edit) => Len(a) = 1
        /\ ShouldDelegate(m, edit) => Len(b) = 1
        /\ ShouldUpdateScopes(m, edit) => Len(d) = 1
    BY DEF When
  <2> HIDE DEF a, b, d
  <2>4. a \o b \in Seq(Instructions) /\ Len(a \o b) = Len(a) + Len(b)
    BY <2>2, ConcatProperties
  <2>5. Len(a \o b \o d) = Len(a) + Len(b) + Len(d)
    BY <2>2, <2>4, ConcatProperties
  <2>6. Len(a) \in Nat /\ Len(b) \in Nat /\ Len(d) \in Nat
    BY <2>2, LenProperties
  <2>7. Len(a) + Len(b) + Len(d) = 0
    BY <2>1, <2>5, EmptySeq
  <2>8. QED
    BY <2>3, <2>6, <2>7
<1>2. /\ Updated(edit).authority = house.authority
      /\ Updated(edit).settings = house.settings
      /\ Updated(edit).feeTo = house.feeTo
      /\ Updated(edit).treasuryTo = house.treasuryTo
  BY <1>1, NoUpdateToSend
<1>3. /\ m.auctioneer = house.auctioneer
      /\ m.scopes = IF house.auctioneer = NoKey THEN {} ELSE house.record[house.auctioneer]
      /\ house.auctioneer # NoKey => house.record[house.auctioneer] \in SUBSET Scopes
  BY CurrentModel
<1>4. Given(edit.auctioneer, house.auctioneer) = house.auctioneer
  BY <1>1, <1>3 DEF ShouldDelegate, Given
<1>5. Updated(edit).auctioneer = house.auctioneer
  BY <1>4 DEF Updated
<1>6. Updated(edit).scopes = IF house.auctioneer = NoKey THEN {}
                             ELSE house.record[house.auctioneer]
  <2>1. house.auctioneer # NoKey =>
          Given(edit.scopes, house.record[house.auctioneer]) = house.record[house.auctioneer]
    BY <1>1, <1>3 DEF ShouldUpdateScopes
  <2>2. QED
    BY <1>4, <2>1 DEF Updated
<1>7. house.auctioneer # NoKey => house.record[house.auctioneer] # NoScopes
  BY <1>3, SettingsAssumption
<1> DEFINE u == Updated(edit)
<1>8. u = [authority |-> u.authority, settings |-> u.settings, feeTo |-> u.feeTo,
           treasuryTo |-> u.treasuryTo, auctioneer |-> u.auctioneer, scopes |-> u.scopes]
  BY DEF Updated
<1> HIDE DEF u
<1>9. QED
  BY <1>2, <1>5, <1>6, <1>7, <1>8, Found DEF u

(* "No Instructions To Send" is an answer only to somebody whose wishes    *)
(* the house already grants.                                               *)
THEOREM NothingToSendMeansNothingToDo == Spec => []NothingToSendIsNothingToDo
<1>1. Inv => NothingToSendIsNothingToDo
  BY NothingToSend, ClientsAssumption DEF Inv, TypeOK, NothingToSendIsNothingToDo
<1>2. QED
  BY <1>1, Invariant, PTL

-----------------------------------------------------------------------------
(* From a current model, the data of the house becomes what is asked for.  *)
LEMMA FreshData ==
  ASSUME NEW m \in Models, Current(m), house \in Houses, house.exists,
         NEW edit \in UpdateInputs,
         NEW h1, h1 = Optional(house, DataDiffers(m, edit),
                               TheUpdate(house.authority, m, edit))
  PROVE  /\ h1 \in Houses /\ h1.exists /\ h1 # Refused
         /\ h1.authority = Updated(edit).authority /\ h1.settings = Updated(edit).settings
         /\ h1.feeTo = Updated(edit).feeTo /\ h1.treasuryTo = Updated(edit).treasuryTo
         /\ h1.auctioneer = house.auctioneer /\ h1.record = house.record
<1> DEFINE i == TheUpdate(house.authority, m, edit)
           s == [f \in DOMAIN house.settings |->
                  Given(edit.settings[f], house.settings[f])]
<1>1. CASE ~DataDiffers(m, edit)
  <2>1. h1 = house
    BY <1>1 DEF Optional
  <2>2. QED
    BY <1>1, <2>1, NoUpdateToSend, RefusedAssumption
<1>2. CASE DataDiffers(m, edit)
  <2>1. h1 = Execute(house, i)
    BY <1>2, RefusedAssumption DEF Optional
  <2>2. Execute(house, i) = UpdateHouse(house, i) /\ i.signer = house.authority
    BY DEF Execute, TheUpdate
  <2>3. \A f \in DOMAIN house.settings :
          (IF i.settings[f] = Null THEN house.settings[f] ELSE i.settings[f])
            = Given(edit.settings[f], house.settings[f])
    BY DEF TheUpdate, SentSettings, Given, Keep
  <2>4. [f \in DOMAIN house.settings |->
           IF i.settings[f] = Null THEN house.settings[f] ELSE i.settings[f]] = s
    BY <2>3
  <2> HIDE DEF i, s
  <2>5. h1 = [house EXCEPT !.authority = i.authority, !.feeTo = i.feeTo,
                           !.treasuryTo = i.treasuryTo, !.settings = s]
    BY <2>1, <2>2, <2>4 DEF UpdateHouse, By
  <2>6. /\ i.authority = Updated(edit).authority /\ s = Updated(edit).settings
        /\ i.feeTo = Updated(edit).feeTo /\ i.treasuryTo = Updated(edit).treasuryTo
    BY CurrentModel DEF i, s, TheUpdate, Updated
  <2>7. /\ h1.authority = i.authority /\ h1.settings = s
        /\ h1.feeTo = i.feeTo /\ h1.treasuryTo = i.treasuryTo /\ h1.exists
        /\ h1.auctioneer = house.auctioneer /\ h1.record = house.record
    BY <2>5 DEF Houses
  <2>8. h1 # Refused /\ h1 \in Houses
    <3>1. i.authority \in Keys /\ i.feeTo \in Keys /\ i.treasuryTo \in Keys
      BY DEF i, TheUpdate, Given, UpdateInputs, Models
    <3>2. \A f \in DOMAIN house.settings :
            Given(edit.settings[f], house.settings[f]) \in
              (IF f = "sellerFee" THEN Fees ELSE BOOLEAN)
      BY DEF Given, UpdateInputs, Houses, Settings
    <3>3. s \in Settings
      BY <3>2 DEF s, Houses, Settings
    <3>4. h1 \in Houses
      BY <2>5, <3>1, <3>3 DEF Houses
    <3>5. QED
      BY <3>4, RefusedAssumption
  <2>9. QED
    BY <2>6, <2>7, <2>8
<1>3. QED
  BY <1>1, <1>2

(* When an update from a current model has to say something of the         *)
(* auctioneer.                                                             *)
LEMMA FreshAuctioneer ==
  ASSUME NEW m \in Models, Current(m), house \in Houses, NEW edit \in UpdateInputs
  PROVE  /\ ShouldDelegate(m, edit) <=> Updated(edit).auctioneer # house.auctioneer
         /\ ShouldUpdateScopes(m, edit) <=>
              /\ house.auctioneer # NoKey
              /\ Updated(edit).scopes # house.record[house.auctioneer]
         /\ Updated(edit).auctioneer = Given(edit.auctioneer, m.auctioneer)
         /\ Updated(edit).auctioneer # NoKey =>
              Updated(edit).scopes = Given(edit.scopes, DefaultScopes(m))
         /\ house.auctioneer # NoKey =>
              /\ Updated(edit).auctioneer # NoKey
              /\ Updated(edit).scopes = Given(edit.scopes, m.scopes)
         /\ Updated(edit).auctioneer = NoKey => Updated(edit).scopes = {}
         /\ Updated(edit).scopes \in SUBSET Scopes
<1> DEFINE k == Given(edit.auctioneer, house.auctioneer)
           n == Given(edit.scopes, IF house.auctioneer = NoKey THEN Scopes
                                   ELSE house.record[house.auctioneer])
<1>1. /\ m.auctioneer = house.auctioneer
      /\ m.scopes = IF house.auctioneer = NoKey THEN {} ELSE house.record[house.auctioneer]
      /\ house.auctioneer # NoKey => house.record[house.auctioneer] \in SUBSET Scopes
  BY CurrentModel
<1>2. Updated(edit).auctioneer = k /\ Updated(edit).scopes = IF k = NoKey THEN {} ELSE n
  BY DEF Updated
<1>3. edit.auctioneer \in Keys \cup {Keep} /\ house.auctioneer \in Keys \cup {NoKey}
        /\ edit.scopes \in {Keep} \cup SUBSET Scopes
  BY DEF UpdateInputs, Houses
<1>4. house.auctioneer # NoKey => k # NoKey
  BY <1>3, SettingsAssumption DEF Given
<1>5. n = Given(edit.scopes, DefaultScopes(m)) /\ n \in SUBSET Scopes
  BY <1>1, <1>3 DEF DefaultScopes, Given
<1>6. house.auctioneer # NoKey => n = Given(edit.scopes, m.scopes)
  BY <1>1
<1>7. k = Given(edit.auctioneer, m.auctioneer)
        /\ (ShouldDelegate(m, edit) <=> k # house.auctioneer)
  BY <1>1, <1>3 DEF ShouldDelegate, Given
<1> HIDE DEF k, n
<1>8. QED
  BY <1>1, <1>2, <1>4, <1>5, <1>6, <1>7 DEF ShouldUpdateScopes

(* What a delegation and new scopes do when the authority is still there.  *)
LEMMA DelegationDone ==
  ASSUME NEW h \in Houses, h.exists, NEW m \in Models, NEW edit \in UpdateInputs,
         edit.auctioneer \in Keys
  PROVE  Execute(h, TheDelegation(h.authority, m, edit)) =
           [h EXCEPT !.auctioneer = edit.auctioneer,
                     !.record[edit.auctioneer] = Given(edit.scopes, DefaultScopes(m))]
BY DEF Execute, TheDelegation, DelegateAuctioneer, By

LEMMA ScopesDone ==
  ASSUME NEW h \in Houses, h.exists, NEW m \in Models, NEW edit \in UpdateInputs,
         h.auctioneer = Given(edit.auctioneer, m.auctioneer)
  PROVE  Execute(h, TheScopes(h.authority, m, edit)) =
           [h EXCEPT !.record[h.auctioneer] = Given(edit.scopes, m.scopes)]
BY DEF Execute, TheScopes, UpdateAuctioneer, By

(* Somebody else's are refused.                                            *)
LEMMA AuctioneerRefused ==
  ASSUME NEW h \in Houses, NEW signer, h.authority # signer, NEW m, NEW edit
  PROVE  /\ Execute(h, TheDelegation(signer, m, edit)) = Refused
         /\ Execute(h, TheScopes(signer, m, edit)) = Refused
BY DEF Execute, TheDelegation, TheScopes, DelegateAuctioneer, UpdateAuctioneer, By

LEMMA FreshUpdate ==
  ASSUME NEW t, SentUpdate(t), Current(t.base), t.by = house.authority,
         house \in Houses, house.exists
  PROVE  IF HandsOver(t.aim) THEN ~Accepted(t)
         ELSE /\ Accepted(t)
              /\ FindHouse(Outcome(t), NamedAuctioneer(t.base, t.aim)) = Updated(t.aim)
<1> DEFINE m == t.base
           e == t.aim
           u == Updated(e)
           h1 == Optional(house, DataDiffers(m, e), TheUpdate(t.by, m, e))
           h2 == Optional(h1, ShouldDelegate(m, e), TheDelegation(t.by, m, e))
           h3 == Optional(h2, ShouldUpdateScopes(m, e), TheScopes(t.by, m, e))
<1>1. Outcome(t) = h3 /\ m \in Models /\ e \in UpdateInputs /\ Current(m)
  BY OutcomeOfUpdate DEF SentUpdate, Updates
<1>2. /\ h1 \in Houses /\ h1.exists /\ h1 # Refused
      /\ h1.authority = u.authority /\ h1.settings = u.settings
      /\ h1.feeTo = u.feeTo /\ h1.treasuryTo = u.treasuryTo
      /\ h1.auctioneer = house.auctioneer /\ h1.record = house.record
  BY <1>1, FreshData
<1>3. /\ ShouldDelegate(m, e) <=> u.auctioneer # house.auctioneer
      /\ ShouldUpdateScopes(m, e) <=>
           /\ house.auctioneer # NoKey
           /\ u.scopes # house.record[house.auctioneer]
      /\ u.auctioneer = Given(e.auctioneer, m.auctioneer)
      /\ u.auctioneer # NoKey => u.scopes = Given(e.scopes, DefaultScopes(m))
      /\ house.auctioneer # NoKey => /\ u.auctioneer # NoKey
                                     /\ u.scopes = Given(e.scopes, m.scopes)
      /\ u.auctioneer = NoKey => u.scopes = {}
      /\ u.scopes \in SUBSET Scopes
  BY <1>1, FreshAuctioneer
<1>4. HandsOver(e) <=> /\ u.authority # house.authority
                       /\ ShouldDelegate(m, e) \/ ShouldUpdateScopes(m, e)
  BY <1>3 DEF HandsOver, Updated
<1>5. u = [authority |-> u.authority, settings |-> u.settings, feeTo |-> u.feeTo,
           treasuryTo |-> u.treasuryTo, auctioneer |-> u.auctioneer, scopes |-> u.scopes]
  BY DEF Updated
<1> HIDE DEF u, h1
<1>6. ASSUME NEW h \in Houses, h.authority = u.authority, h.settings = u.settings,
             h.feeTo = u.feeTo, h.treasuryTo = u.treasuryTo, h.auctioneer = u.auctioneer,
             u.auctioneer # NoKey => h.record[u.auctioneer] = u.scopes
      PROVE  FindHouse(h, NamedAuctioneer(m, e)) = u
  <2>1. NamedAuctioneer(m, e) = h.auctioneer
    BY <1>3, <1>6 DEF NamedAuctioneer
  <2>2. h.auctioneer # NoKey => h.record[h.auctioneer] # NoScopes
    BY <1>3, <1>6, SettingsAssumption
  <2>3. QED
    BY <1>3, <1>5, <1>6, <2>1, <2>2, Found
<1>7. CASE u.authority # house.authority
  <2>1. /\ Execute(h1, TheDelegation(t.by, m, e)) = Refused
        /\ Execute(h1, TheScopes(t.by, m, e)) = Refused
    BY <1>2, <1>7, AuctioneerRefused
  <2>2. CASE ShouldDelegate(m, e) \/ ShouldUpdateScopes(m, e)
    <3>1. h3 = Refused
      BY <1>2, <2>1, <2>2 DEF Optional
    <3>2. QED
      BY <1>1, <1>4, <1>7, <2>2, <3>1 DEF Accepted
  <2>3. CASE ~ShouldDelegate(m, e) /\ ~ShouldUpdateScopes(m, e)
    <3>1. h3 = h1
      BY <2>3 DEF Optional
    <3>2. FindHouse(h1, NamedAuctioneer(m, e)) = u
      BY <1>2, <1>3, <1>6, <2>3
    <3>3. QED
      BY <1>1, <1>2, <1>4, <2>3, <3>1, <3>2 DEF Accepted, u
  <2>4. QED
    BY <2>2, <2>3
<1>8. CASE u.authority = house.authority
  <2>1. /\ h2 \in Houses /\ h2.exists /\ h2 # Refused
        /\ h2.authority = u.authority /\ h2.settings = u.settings
        /\ h2.feeTo = u.feeTo /\ h2.treasuryTo = u.treasuryTo
        /\ h2.auctioneer = u.auctioneer
        /\ IF ShouldDelegate(m, e) THEN h2.record[u.auctioneer] = u.scopes
           ELSE h2.record = house.record
    <3>1. CASE ~ShouldDelegate(m, e)
      BY <1>2, <1>3, <3>1 DEF Optional
    <3>2. CASE ShouldDelegate(m, e)
      <4>1. e.auctioneer \in Keys /\ u.auctioneer = e.auctioneer
        BY <1>1, <1>3, <3>2 DEF ShouldDelegate, UpdateInputs, Given
      <4>2. u.auctioneer # NoKey
        BY <4>1, SettingsAssumption
      <4>3. h2 = Execute(h1, TheDelegation(h1.authority, m, e))
        BY <1>2, <1>8, <3>2 DEF Optional
      <4> HIDE DEF h2
      <4>4. h2 = [h1 EXCEPT !.auctioneer = e.auctioneer,
                            !.record[e.auctioneer] = Given(e.scopes, DefaultScopes(m))]
        BY <1>1, <1>2, <4>1, <4>3, DelegationDone
      <4>5. Given(e.scopes, DefaultScopes(m)) = u.scopes
        BY <1>3, <4>2
      <4> DEFINE r == [h1.record EXCEPT ![u.auctioneer] = u.scopes]
      <4>6. r \in [Keys -> {NoScopes} \cup SUBSET Scopes] /\ r[u.auctioneer] = u.scopes
        BY <1>2, <1>3, <4>1 DEF Houses
      <4>7. h2 = [h1 EXCEPT !.auctioneer = u.auctioneer, !.record = r]
        BY <4>1, <4>4, <4>5
      <4> HIDE DEF r
      <4>8. h2 \in Houses
        BY <1>2, <4>1, <4>6, <4>7 DEF Houses
      <4>9. /\ h2.exists /\ h2.authority = u.authority /\ h2.settings = u.settings
            /\ h2.feeTo = u.feeTo /\ h2.treasuryTo = u.treasuryTo
            /\ h2.auctioneer = u.auctioneer /\ h2.record = r
        BY <1>2, <4>7 DEF Houses
      <4>10. QED
        BY <3>2, <4>6, <4>8, <4>9, RefusedAssumption
    <3>3. QED
      BY <3>1, <3>2
  <2> HIDE DEF h2
  <2>2. /\ h3 \in Houses /\ h3 # Refused
        /\ h3.authority = u.authority /\ h3.settings = u.settings
        /\ h3.feeTo = u.feeTo /\ h3.treasuryTo = u.treasuryTo
        /\ h3.auctioneer = u.auctioneer
        /\ u.auctioneer # NoKey => h3.record[u.auctioneer] = u.scopes
    <3>1. CASE ~ShouldUpdateScopes(m, e)
      BY <1>3, <2>1, <3>1 DEF Optional
    <3>2. CASE ShouldUpdateScopes(m, e)
      <4>1. u.auctioneer # NoKey /\ u.auctioneer \in Keys
              /\ u.scopes = Given(e.scopes, m.scopes)
        BY <1>3, <2>1, <3>2 DEF Houses
      <4>2. h3 = Execute(h2, TheScopes(h2.authority, m, e))
        BY <1>8, <2>1, <3>2 DEF Optional
      <4>3. h3 = [h2 EXCEPT !.record[u.auctioneer] = u.scopes]
        BY <1>1, <1>3, <2>1, <4>1, <4>2, ScopesDone
      <4> DEFINE r == [h2.record EXCEPT ![u.auctioneer] = u.scopes]
      <4>4. r \in [Keys -> {NoScopes} \cup SUBSET Scopes] /\ r[u.auctioneer] = u.scopes
        BY <1>3, <2>1, <4>1 DEF Houses
      <4>5. h3 = [h2 EXCEPT !.record = r]
        BY <4>3
      <4> HIDE DEF r, h3
      <4>6. h3 \in Houses
        BY <2>1, <4>4, <4>5 DEF Houses
      <4>7. /\ h3.authority = u.authority /\ h3.settings = u.settings
            /\ h3.feeTo = u.feeTo /\ h3.treasuryTo = u.treasuryTo
            /\ h3.auctioneer = u.auctioneer /\ h3.record = r
        BY <2>1, <4>5 DEF Houses
      <4>8. QED
        BY <4>4, <4>6, <4>7, RefusedAssumption
    <3>3. QED
      BY <3>1, <3>2
  <2>3. FindHouse(h3, NamedAuctioneer(m, e)) = u
    BY <1>6, <2>2
  <2>4. QED
    BY <1>1, <1>4, <1>8, <2>2, <2>3 DEF Accepted, u
<1>9. QED
  BY <1>7, <1>8

(* An update from a current model does exactly what its caller asks, and   *)
(* is refused only if it hands the house over before it names an           *)
(* auctioneer, for any keys, settings and scopes.                          *)
THEOREM FreshUpdatesAreExact == Spec => []FreshUpdateIsExact
<1>1. Inv => FreshUpdateIsExact
  BY FreshUpdate DEF Inv, TypeOK, NetworkOK, FreshUpdateIsExact
<1>2. QED
  BY <1>1, Invariant, PTL
=============================================================================
