------------------------- MODULE CandyMachineProofs -------------------------
(* Theorems about CandyMachine, for any number of clients, transactions in *)
(* flight, lines and items.                                                *)
EXTENDS CandyMachine, FiniteSetTheorems, SequenceTheorems, TLAPS

LedgerFields ==
  {"exists", "authority", "config", "hidden", "redeemed", "lines", "loaded",
   "collection", "nfts", "clock"}

\* The accounts, as far as the lines are concerned.
Packed(l) ==
  /\ DOMAIN l = LedgerFields
  /\ l.exists /\ ~l.hidden => l.config.available \in 0 .. Capacity
  /\ l.lines \in [Slots -> Items \cup {NoItem}]
  /\ l.loaded \in 0 .. Capacity
  /\ \A k \in Slots : l.lines[k] # NoItem <=> k < l.loaded

InstructionTypes ==
  {"initialize", "addConfigLines", "updateCandyMachine", "setCollection",
   "removeCollection", "updateAuthority", "withdrawFunds", "mintNft",
   "setCollectionDuringMint"}

\* An instruction that cannot leave a gap once so many lines are written.
Fits(i, written) ==
  /\ i.type \in InstructionTypes
  /\ i.type = "initialize" => i.config.available \in 0 .. Capacity
  /\ i.type = "addConfigLines" => i.index \in 0 .. written /\ i.items \in Seq(Items)

-----------------------------------------------------------------------------
(* What the instructions do to the lines.                                  *)

\* Written from a line that is not beyond the loaded ones, the lines stay packed.
LEMMA AddedLines ==
  ASSUME NEW l, Packed(l), NEW i, i.index \in 0 .. l.loaded, i.items \in Seq(Items),
         AddConfigLines(l, i) # Refused
  PROVE  /\ Packed(AddConfigLines(l, i))
         /\ AddConfigLines(l, i).loaded >= l.loaded
         /\ \A k \in Slots : l.lines[k] \notin {NoItem, AddConfigLines(l, i).lines[k]}
                             => k \in i.index .. l.loaded - 1
<1> DEFINE last  == i.index + Len(i.items) - 1
           fresh == {k \in Written(i) : l.lines[k] = NoItem}
           lines == [k \in Slots |-> IF k \in Written(i) THEN i.items[k - i.index + 1]
                                                          ELSE l.lines[k]]
           m     == [l EXCEPT !.lines = lines, !.loaded = @ + Cardinality(fresh)]
<1>1. /\ l.exists /\ ~l.hidden /\ i.index + Len(i.items) <= l.config.available
      /\ AddConfigLines(l, i) = m
  BY DEF AddConfigLines, Signed
<1>2. /\ Len(i.items) \in Nat
      /\ i.index \in Nat /\ l.loaded \in Nat /\ Capacity \in Nat
      /\ l.config.available \in Nat /\ l.config.available <= Capacity
      /\ l.loaded <= Capacity /\ last \in Int /\ i.index <= l.loaded
  BY <1>1, CapacityAssumption DEF Packed
<1>3. Written(i) = i.index .. last /\ Written(i) \subseteq Slots
  BY <1>1, <1>2 DEF Written, Slots
<1>4. fresh = l.loaded .. last
  BY <1>2, <1>3 DEF Packed, Slots
<1>5. Cardinality(fresh) = IF l.loaded > last THEN 0 ELSE last - l.loaded + 1
  <2> HIDE DEF fresh, last
  <2>1. l.loaded \in Int /\ last \in Int
    BY <1>2
  <2>2. Cardinality(l.loaded .. last) = IF l.loaded > last THEN 0 ELSE last - l.loaded + 1
    BY <2>1, FS_Interval, Zenon
  <2>3. QED
    BY <1>4, <2>2
<1> HIDE DEF fresh
<1>6. \A k \in Written(i) : i.items[k - i.index + 1] \in Items
  <2>1. \A n \in 1 .. Len(i.items) : i.items[n] \in Items
    BY ElementOfSeq
  <2>2. \A k \in Written(i) : k - i.index + 1 \in 1 .. Len(i.items)
    BY <1>2, <1>3
  <2>3. QED
    BY <2>1, <2>2
<1>7. /\ DOMAIN m = LedgerFields /\ m.lines = lines
      /\ m.loaded = l.loaded + Cardinality(fresh)
      /\ m.exists = l.exists /\ m.hidden = l.hidden /\ m.config = l.config
  BY DEF Packed, LedgerFields
<1> HIDE DEF m
<1>8. lines \in [Slots -> Items \cup {NoItem}]
  BY <1>6 DEF Packed
<1>9. m.loaded \in 0 .. Capacity /\ m.loaded >= l.loaded
  <2>1. last < Capacity
    BY <1>1, <1>2
  <2>2. m.loaded = IF l.loaded > last THEN l.loaded ELSE last + 1
    BY <1>2, <1>5, <1>7
  <2> HIDE DEF last
  <2>3. QED
    BY <1>2, <2>1, <2>2
<1>10. ASSUME NEW k \in Slots
       PROVE  lines[k] # NoItem <=> k < l.loaded + Cardinality(fresh)
  <2>1. CASE k \in Written(i)
    <3>1. lines[k] # NoItem
      BY <2>1, <1>6, NoItemAssumption
    <3>2. k < l.loaded + Cardinality(fresh)
      BY <2>1, <1>2, <1>3, <1>5
    <3>3. QED
      BY <3>1, <3>2
  <2>2. CASE k \notin Written(i)
    <3>1. lines[k] # NoItem <=> k < l.loaded
      BY <2>2 DEF Packed
    <3>2. k < l.loaded <=> k < l.loaded + Cardinality(fresh)
      BY <2>2, <1>2, <1>3, <1>5 DEF Slots
    <3>3. QED
      BY <3>1, <3>2
  <2>3. QED
    BY <2>1, <2>2
<1>11. Packed(m)
  <2>1. m.exists /\ ~m.hidden => m.config.available \in 0 .. Capacity
    BY <1>7 DEF Packed
  <2>2. QED
    BY <2>1, <1>7, <1>8, <1>9, <1>10 DEF Packed
<1>12. ASSUME NEW k \in Slots, l.lines[k] \notin {NoItem, m.lines[k]}
       PROVE  k \in i.index .. l.loaded - 1
  <2>1. k \in Written(i)
    BY <1>7, <1>12
  <2>2. k < l.loaded
    BY <1>12 DEF Packed
  <2>3. QED
    BY <1>2, <1>3, <2>1, <2>2 DEF Slots
<1>13. QED
  BY <1>1, <1>9, <1>11, <1>12

\* Every other instruction leaves the lines alone.
LEMMA ExecutedLines ==
  ASSUME NEW l, Packed(l), NEW i, Fits(i, l.loaded), Execute(l, i) # Refused
  PROVE  Packed(Execute(l, i)) /\ Execute(l, i).loaded >= l.loaded
<1> DEFINE m == Execute(l, i)
<1>1. CASE i.type = "addConfigLines"
  <2>1. m = AddConfigLines(l, i)
    BY <1>1 DEF Execute
  <2>2. i.index \in 0 .. l.loaded /\ i.items \in Seq(Items)
    BY <1>1 DEF Fits
  <2>3. QED
    BY <2>1, <2>2, AddedLines
<1>2. CASE i.type # "addConfigLines"
  <2>1. SUFFICES /\ DOMAIN m = LedgerFields /\ m.lines = l.lines /\ m.loaded = l.loaded
                 /\ m.exists /\ ~m.hidden => m.config.available \in 0 .. Capacity
    BY CapacityAssumption DEF Packed
  <2> HIDE DEF m
  <2>2. DOMAIN l = LedgerFields
    BY DEF Packed
  <2>3. l.exists /\ ~l.hidden => l.config.available \in 0 .. Capacity
    BY DEF Packed
  <2>4. CASE i.type = "initialize"
    <3>1. i.config.available \in 0 .. Capacity
      BY <2>4 DEF Fits
    <3>2. m = [l EXCEPT !.exists = TRUE, !.authority = i.authority,
                        !.config = i.config, !.hidden = i.hidden]
      BY <2>4 DEF m, Execute, Initialize
    <3>3. QED
      BY <2>2, <3>1, <3>2 DEF LedgerFields
  <2>5. CASE i.type = "updateCandyMachine"
    <3>1. /\ m = [l EXCEPT !.config = i.config]
          /\ l.exists /\ (l.hidden \/ i.config.available = l.config.available)
      BY <2>5 DEF m, Execute, UpdateCandyMachine, Signed
    <3>2. QED
      BY <2>2, <2>3, <3>1 DEF LedgerFields
  <2>6. CASE i.type = "setCollection"
    <3>1. m = [l EXCEPT !.collection = i.mint]
      BY <2>6 DEF m, Execute, SetCollection
    <3>2. QED
      BY <2>2, <2>3, <3>1 DEF LedgerFields
  <2>7. CASE i.type = "removeCollection"
    <3>1. m = [l EXCEPT !.collection = NoMint]
      BY <2>7 DEF m, Execute, RemoveCollection
    <3>2. QED
      BY <2>2, <2>3, <3>1 DEF LedgerFields
  <2>8. CASE i.type = "updateAuthority"
    <3>1. m = [l EXCEPT !.authority = i.newAuthority]
      BY <2>8 DEF m, Execute, UpdateAuthority
    <3>2. QED
      BY <2>2, <2>3, <3>1 DEF LedgerFields
  <2>9. CASE i.type = "withdrawFunds"
    <3>1. PICK x : m = [l EXCEPT !.exists = FALSE, !.collection = x]
      BY <2>9 DEF m, Execute, WithdrawFunds
    <3>2. QED
      BY <2>2, <3>1 DEF LedgerFields
  <2>10. CASE i.type = "mintNft"
    <3>1. m = l \/ \E x, y : m = [l EXCEPT !.redeemed = x, !.nfts = y]
      BY <2>10 DEF m, Execute, MintNft
    <3>2. QED
      BY <2>2, <2>3, <3>1 DEF LedgerFields
  <2>11. CASE i.type = "setCollectionDuringMint"
    <3>1. PICK x : m = [l EXCEPT !.nfts = x]
      BY <2>11 DEF m, Execute, SetCollectionDuringMint
    <3>2. QED
      BY <2>2, <2>3, <3>1 DEF LedgerFields
  <2>12. QED
    BY <1>2, <2>4, <2>5, <2>6, <2>7, <2>8, <2>9, <2>10, <2>11 DEF Fits, InstructionTypes
<1>3. QED
  BY <1>1, <1>2

\* A transaction keeps the lines packed as each of its instructions does.
LEMMA TransactionLines ==
  ASSUME NEW l, Packed(l), NEW s, Len(s) \in Nat, After(l, s) # Refused,
         \A n \in 1 .. Len(s) : Fits(s[n], l.loaded)
  PROVE  Packed(After(l, s)) /\ After(l, s).loaded >= l.loaded
<1> DEFINE Grown(m) == m = Refused \/ (Packed(m) /\ m.loaded >= l.loaded)
<1>1. l.loaded \in Nat
  BY CapacityAssumption DEF Packed
<1>2. ASSUME NEW m, Grown(m), NEW n \in 1 .. 4
      PROVE  Grown(Step(m, s, n))
  <2>1. CASE m = Refused \/ n > Len(s)
    BY <1>2, <2>1 DEF Step
  <2>2. CASE ~(m = Refused \/ n > Len(s))
    <3>1. Step(m, s, n) = Execute(m, s[n]) /\ Packed(m) /\ m.loaded >= l.loaded
      BY <1>2, <2>2 DEF Step
    <3>2. m.loaded \in Nat
      BY <3>1, CapacityAssumption DEF Packed
    <3>3. Fits(s[n], m.loaded)
      <4>1. Fits(s[n], l.loaded)
        BY <2>2
      <4>2. QED
        BY <1>1, <3>1, <3>2, <4>1 DEF Fits
    <3>4. CASE Execute(m, s[n]) = Refused
      BY <3>1, <3>4
    <3>5. CASE Execute(m, s[n]) # Refused
      <4>1. Packed(Execute(m, s[n])) /\ Execute(m, s[n]).loaded >= m.loaded
        BY <3>1, <3>3, <3>5, ExecutedLines
      <4>2. Execute(m, s[n]).loaded \in Nat
        BY <4>1, CapacityAssumption DEF Packed
      <4>3. QED
        BY <1>1, <3>1, <3>2, <4>1, <4>2
    <3>6. QED
      BY <3>4, <3>5
  <2>3. QED
    BY <2>1, <2>2
<1>3. Grown(l)
  BY <1>1
<1> DEFINE first  == Step(l, s, 1)
           second == Step(first, s, 2)
           third  == Step(second, s, 3)
           fourth == Step(third, s, 4)
<1>4. After(l, s) = fourth
  BY DEF After, MaxInstructions
<1> HIDE DEF Grown, first, second, third, fourth
<1>5. Grown(first)
  BY <1>2, <1>3 DEF first
<1>6. Grown(second)
  BY <1>2, <1>5 DEF second
<1>7. Grown(third)
  BY <1>2, <1>6 DEF third
<1>8. Grown(fourth)
  BY <1>2, <1>7 DEF fourth
<1>9. QED
  BY <1>4, <1>8 DEF Grown

-----------------------------------------------------------------------------
(* What the builders send.                                                 *)

AllFit(s, written) == Len(s) \in Nat /\ \A n \in 1 .. Len(s) : Fits(s[n], written)

LEMMA WhenInSeq ==
  ASSUME NEW S, NEW i \in S, NEW condition
  PROVE  When(condition, i) \in Seq(S)
BY DEF When

LEMMA OneInSeq ==
  ASSUME NEW S, NEW i \in S
  PROVE  <<i>> \in Seq(S)
OBVIOUS

LEMMA SeqFits ==
  ASSUME NEW written, NEW S, NEW s \in Seq(S), \A i \in S : Fits(i, written)
  PROVE  AllFit(s, written)
BY ElementOfSeq DEF AllFit

LEMMA CreateFits ==
  ASSUME NEW authority, NEW config, config.available \in 0 .. Capacity, NEW hidden,
         NEW collection, NEW written
  PROVE  AllFit(CreateInstructions(authority, config, hidden, collection), written)
<1> DEFINE a == [type |-> "initialize", authority |-> authority, config |-> config,
                 hidden |-> hidden]
           b == [type |-> "setCollection", authority |-> authority, mint |-> collection]
           S == {a, b}
<1>1. \A i \in S : Fits(i, written)
  BY DEF Fits, InstructionTypes
<1>2. a \in S /\ b \in S
  OBVIOUS
<1> HIDE DEF a, b, S
<1>3. CreateInstructions(authority, config, hidden, collection)
        = <<a>> \o When(collection # NoMint, b)
  BY DEF CreateInstructions, a, b
<1>4. <<a>> \in Seq(S) /\ When(collection # NoMint, b) \in Seq(S)
  BY <1>2, OneInSeq, WhenInSeq
<1>5. <<a>> \o When(collection # NoMint, b) \in Seq(S)
  BY <1>4, ConcatProperties
<1>6. QED
  BY <1>1, <1>3, <1>5, SeqFits

LEMMA UpdateFits ==
  ASSUME NEW m, NEW signer, NEW edit, NEW newCollection, NEW newAuthority, NEW written
  PROVE  AllFit(UpdateInstructions(m, signer, edit, newCollection, newAuthority), written)
<1> DEFINE config == Merged(m.config, edit)
           a == UpdateInstruction(signer, config)
           b == SetCollectionInstruction(signer, newCollection)
           r == RemoveCollectionInstruction(signer, m.collection)
           d == UpdateAuthorityInstruction(signer, newAuthority)
           S == {a, b, r, d}
<1>1. \A i \in S : Fits(i, written)
  BY DEF Fits, InstructionTypes, UpdateInstruction, SetCollectionInstruction,
         RemoveCollectionInstruction, UpdateAuthorityInstruction
<1> DEFINE s1 == When(config # m.config, a)
           s2 == When(ShouldUpdateCollection(m, newCollection), b)
           s3 == When(ShouldRemoveCollection(m, newCollection), r)
           s4 == When(ShouldUpdateAuthority(signer, newAuthority), d)
<1>2. UpdateInstructions(m, signer, edit, newCollection, newAuthority)
        = s1 \o s2 \o s3 \o s4
  BY DEF UpdateInstructions
<1>3. a \in S /\ b \in S /\ r \in S /\ d \in S
  OBVIOUS
<1> HIDE DEF S, config, a, b, r, d
<1>4. s1 \in Seq(S) /\ s2 \in Seq(S) /\ s3 \in Seq(S) /\ s4 \in Seq(S)
  BY <1>3, WhenInSeq
<1> HIDE DEF s1, s2, s3, s4
<1>5. s1 \o s2 \o s3 \o s4 \in Seq(S)
  BY <1>4, ConcatProperties
<1>6. QED
  BY <1>1, <1>2, <1>5, SeqFits

LEMMA MintFits ==
  ASSUME NEW m, NEW payer, NEW nft, NEW collection, NEW written
  PROVE  AllFit(MintInstructions(m, payer, nft, collection), written)
<1> DEFINE a == [type |-> "mintNft", wallet |-> m.config.wallet, payer |-> payer,
                 nft |-> nft]
           b == [type |-> "setCollectionDuringMint", authority |-> m.authority,
                 mint |-> collection, nft |-> nft]
           S == {a, b}
<1>1. \A i \in S : Fits(i, written)
  BY DEF Fits, InstructionTypes
<1>2. a \in S /\ b \in S
  OBVIOUS
<1> HIDE DEF a, b, S
<1>3. MintInstructions(m, payer, nft, collection) = <<a>> \o When(collection # NoMint, b)
  BY DEF MintInstructions, a, b
<1>4. <<a>> \in Seq(S) /\ When(collection # NoMint, b) \in Seq(S)
  BY <1>2, OneInSeq, WhenInSeq
<1>5. <<a>> \o When(collection # NoMint, b) \in Seq(S)
  BY <1>4, ConcatProperties
<1>6. QED
  BY <1>1, <1>3, <1>5, SeqFits

LEMMA DeleteFits ==
  ASSUME NEW m, NEW signer, NEW written
  PROVE  AllFit(DeleteInstructions(m, signer), written)
BY DEF AllFit, Fits, InstructionTypes, DeleteInstructions

LEMMA InsertFits ==
  ASSUME NEW signer, NEW written, NEW index \in 0 .. written, NEW items \in Seq(Items)
  PROVE  AllFit(InsertItems(signer, index, items), written)
BY DEF AllFit, Fits, InstructionTypes, InsertItems

-----------------------------------------------------------------------------
(* The loaded lines only grow, and everything a client knows, or has sent, *)
(* starts within them.                                                     *)
InsertsAreSingle ==
  \A t \in network : t.op = "insert" =>
    Len(t.instructions) = 1 /\ t.instructions[1].type = "addConfigLines"
InOrder ==
  /\ Packed(ledger)
  /\ \A t \in network : AllFit(t.instructions, ledger.loaded)
  /\ InsertsAreSingle
  /\ DOMAIN model = Clients
  /\ \A c \in Clients : model[c] # NoModel => model[c].loaded \in 0 .. ledger.loaded

LEMMA InitInOrder == Init => InOrder
<1> SUFFICES ASSUME Init PROVE InOrder
  OBVIOUS
<1>1. Packed(NoAccount)
  BY CapacityAssumption DEF Packed, NoAccount, LedgerFields, Slots
<1>2. QED
  BY <1>1 DEF Init, InOrder, InsertsAreSingle

\* Sending a transaction that fits.
LEMMA SendInOrder ==
  ASSUME InOrder, NEW c, NEW op, NEW instructions, NEW base, NEW aim,
         Send(c, op, instructions, base, aim), UNCHANGED <<ledger, model>>,
         AllFit(instructions, ledger.loaded),
         op = "insert" => Len(instructions) = 1 /\ instructions[1].type = "addConfigLines"
  PROVE  InOrder'
<1> DEFINE tx == [client |-> c, op |-> op, instructions |-> instructions,
                  base |-> base, aim |-> aim]
<1>1. network' = network \cup {tx}
  BY DEF Send
<1>2. tx.op = op /\ tx.instructions = instructions
  OBVIOUS
<1> HIDE DEF tx
<1>3. QED
  BY <1>1, <1>2 DEF InOrder, InsertsAreSingle

\* A client fetches the account.
LEMMA FetchInOrder ==
  ASSUME InOrder, NEW c \in Clients, UNCHANGED <<ledger, network>>,
         model' = [model EXCEPT ![c] = ToCandyMachine(ledger)]
  PROVE  InOrder'
<1>1. ToCandyMachine(ledger).loaded \in 0 .. ledger.loaded
  BY CapacityAssumption DEF InOrder, Packed, ToCandyMachine
<1>2. QED
  BY <1>1 DEF InOrder, InsertsAreSingle

\* A transaction lands.
LEMMA LandInOrder ==
  ASSUME InOrder, NEW t \in network, Land(t)
  PROVE  InOrder'
<1>1. AllFit(t.instructions, ledger.loaded)
  BY DEF InOrder
<1>2. Packed(ledger') /\ ledger'.loaded >= ledger.loaded
  <2>1. CASE Outcome(t) = Refused
    <3>1. ledger' = ledger
      BY <2>1 DEF Land
    <3>2. QED
      BY <3>1, CapacityAssumption DEF InOrder, Packed
  <2>2. CASE Outcome(t) # Refused
    <3>1. ledger' = After(ledger, t.instructions)
      BY <2>2 DEF Land, Outcome
    <3>2. Packed(ledger) /\ After(ledger, t.instructions) # Refused
      BY <2>2 DEF Outcome, InOrder
    <3>3. QED
      BY <1>1, <3>1, <3>2, TransactionLines DEF AllFit
  <2>3. QED
    BY <2>1, <2>2
<1>3. /\ ledger.loaded \in Nat /\ ledger'.loaded \in Nat
      /\ network' \subseteq network /\ model' = model
  BY <1>2, CapacityAssumption DEF InOrder, Packed, Land
<1>4. \A u \in network' : AllFit(u.instructions, ledger'.loaded)
  BY <1>2, <1>3 DEF InOrder, AllFit, Fits
<1>5. \A c \in Clients : model'[c] # NoModel => model'[c].loaded \in 0 .. ledger'.loaded
  BY <1>2, <1>3 DEF InOrder
<1>6. InsertsAreSingle'
  BY <1>3 DEF InOrder, InsertsAreSingle
<1>7. QED
  BY <1>2, <1>3, <1>4, <1>5, <1>6 DEF InOrder

LEMMA NextInOrder ==
  ASSUME ~CustomIndex, InOrder, [Next]_vars
  PROVE  InOrder'
<1>1. ASSUME NEW c \in Clients, Find(c) PROVE InOrder'
  BY <1>1, FetchInOrder DEF Find
<1>2. ASSUME NEW c \in Clients, NEW s \in Settings, NEW a, NEW m, Create(c, s, a, m)
      PROVE  InOrder'
  <2>1. s[1].available \in 0 .. Capacity
    BY SettingsAssumption DEF Configs
  <2>2. AllFit(CreateInstructions(a, s[1], s[2], m), ledger.loaded)
    BY <2>1, CreateFits
  <2>3. /\ Send(c, "create", CreateInstructions(a, s[1], s[2], m), NoModel, NoAim)
        /\ UNCHANGED <<ledger, model>>
    BY <1>2 DEF Create
  <2> HIDE DEF InOrder
  <2>4. QED
    BY <2>2, <2>3, SendInOrder
<1>3. ASSUME NEW c \in Clients, NEW index \in Slots, NEW items \in ItemLists,
             Insert(c, index, items)
      PROVE  InOrder'
  <2>1. items \in Seq(Items)
    BY ClientsAssumption, SeqDef DEF ItemLists
  <2>2. index \in 0 .. ledger.loaded
    BY <1>3 DEF Insert, MayCall, DefaultIndex, InOrder
  <2>3. AllFit(InsertItems(Identity[c], index, items), ledger.loaded)
    BY <2>1, <2>2, InsertFits
  <2>4. /\ Len(InsertItems(Identity[c], index, items)) = 1
        /\ InsertItems(Identity[c], index, items)[1].type = "addConfigLines"
    BY DEF InsertItems
  <2>5. /\ Send(c, "insert", InsertItems(Identity[c], index, items), model[c], NoAim)
        /\ UNCHANGED <<ledger, model>>
    BY <1>3 DEF Insert
  <2>6. QED
    BY <2>3, <2>4, <2>5, SendInOrder
<1>4. ASSUME NEW c \in Clients, NEW e, NEW m, NEW a, Update(c, e, m, a) PROVE InOrder'
  <2>1. PICK aim : /\ Send(c, "update", UpdateInstructions(model[c], Identity[c], e, m, a),
                            model[c], aim)
                   /\ UNCHANGED <<ledger, model>>
    BY <1>4 DEF Update
  <2>2. AllFit(UpdateInstructions(model[c], Identity[c], e, m, a), ledger.loaded)
    BY UpdateFits
  <2>3. QED
    BY <2>1, <2>2, SendInOrder
<1>5. ASSUME NEW c \in Clients, Delete(c) PROVE InOrder'
  <2>1. AllFit(DeleteInstructions(model[c], Identity[c]), ledger.loaded)
    BY DeleteFits
  <2>2. QED
    BY <1>5, <2>1, SendInOrder DEF Delete
<1>6. ASSUME NEW c \in Clients, NEW nft \in Nfts, Mint(c, nft) PROVE InOrder'
  <2>1. AllFit(MintInstructions(model[c], Identity[c], nft, ledger.collection),
               ledger.loaded)
    BY MintFits
  <2>2. PICK aim : /\ Send(c, "mint", MintInstructions(model[c], Identity[c], nft,
                                                       ledger.collection), model[c], aim)
                   /\ UNCHANGED <<ledger, model>>
    BY <1>6 DEF Mint
  <2>3. QED
    BY <2>1, <2>2, SendInOrder
<1>7. ASSUME NEW c \in Clients, FetchCreated(c) PROVE InOrder'
  BY <1>7, FetchInOrder DEF FetchCreated
<1>8. ASSUME NEW t \in network, Land(t) PROVE InOrder'
  BY <1>8, LandInOrder
<1>9. ASSUME UNCHANGED <<ledger, model>>, network' \subseteq network PROVE InOrder'
  BY <1>9 DEF InOrder, InsertsAreSingle
<1>10. ASSUME NEW t \in network, Expire(t) PROVE InOrder'
  BY <1>9, <1>10 DEF Expire
<1>11. ASSUME NEW c \in Clients, GiveUp(c) \/ FetchMinted(c) PROVE InOrder'
  BY <1>9, <1>11 DEF GiveUp, FetchMinted
<1>12. CASE UNCHANGED vars
  BY <1>9, <1>12 DEF vars
<1>13. CASE Tick
  <2> DEFINE later == ledger.clock + 1
  <2>1. /\ ledger' = [ledger EXCEPT !.clock = later]
        /\ network' = network /\ model' = model
    BY <1>13 DEF Tick
  <2> HIDE DEF later
  <2>2. /\ DOMAIN ledger' = LedgerFields /\ ledger'.exists = ledger.exists
        /\ ledger'.hidden = ledger.hidden /\ ledger'.config = ledger.config
        /\ ledger'.lines = ledger.lines /\ ledger'.loaded = ledger.loaded
    BY <2>1 DEF InOrder, Packed, LedgerFields
  <2>3. Packed(ledger')
    BY <2>2 DEF InOrder, Packed
  <2>4. QED
    BY <2>1, <2>2, <2>3 DEF InOrder, InsertsAreSingle
<1>14. QED
  BY <1>13, <1>1, <1>2, <1>3, <1>4, <1>5, <1>6, <1>7, <1>8, <1>10, <1>11, <1>12 DEF Next

(* The inductive invariant.  It needs that no caller chooses the index: an *)
(* insert in the network may then start beyond the loaded lines.           *)
THEOREM InOrderAlways ==
  ASSUME ~CustomIndex
  PROVE  Spec => []InOrder
<1>1. Init => InOrder
  BY InitInOrder
<1>2. InOrder /\ [Next]_vars => InOrder'
  BY NextInOrder
<1>3. QED
  BY <1>1, <1>2, PTL DEF Spec

(* Whatever models the clients insert from, and whenever their             *)
(* transactions land, default indices leave no gap in the lines.           *)
THEOREM NoGapInLines ==
  ASSUME ~CustomIndex
  PROVE  Spec => []LinesHaveNoGap
<1>1. InOrder => LinesHaveNoGap
  BY DEF InOrder, Packed, LinesHaveNoGap
<1>2. QED
  BY <1>1, InOrderAlways, PTL

(* An insert at the default index writes again only what was loaded since  *)
(* its model was read.                                                     *)
THEOREM AppendsOverwriteNone ==
  ASSUME ~CustomIndex
  PROVE  Spec => []AppendsOverwriteNothing
<1>1. InOrder => AppendsOverwriteNothing
  <2> SUFFICES ASSUME InOrder, NEW t \in network, t.op = "insert", Outcome(t) # Refused,
                      t.instructions[1].index = DefaultIndex(t.base),
                      NEW k \in Written(t.instructions[1]), ledger.lines[k] # NoItem
               PROVE  k \in t.base.loaded .. ledger.loaded - 1
    BY DEF AppendsOverwriteNothing, Sent
  <2> DEFINE i == t.instructions[1]
  <2>1. Len(t.instructions) = 1 /\ i.type = "addConfigLines" /\ Fits(i, ledger.loaded)
    BY DEF InOrder, InsertsAreSingle, AllFit
  <2>2. Packed(ledger) /\ i.index = t.base.loaded
    BY DEF InOrder, DefaultIndex
  <2>3. i.index \in 0 .. ledger.loaded /\ i.items \in Seq(Items)
    BY <2>1 DEF Fits
  <2>4. ledger = Refused \/ Outcome(t) = AddConfigLines(ledger, i)
    <3>1. \A l : /\ Step(l, t.instructions, 2) = l
                 /\ Step(l, t.instructions, 3) = l
                 /\ Step(l, t.instructions, 4) = l
      BY <2>1 DEF Step
    <3>2. Outcome(t) = Step(ledger, t.instructions, 1)
      BY <3>1 DEF Outcome, After, MaxInstructions
    <3>3. ledger # Refused => Step(ledger, t.instructions, 1) = Execute(ledger, i)
      BY <2>1 DEF Step
    <3>4. Execute(ledger, i) = AddConfigLines(ledger, i)
      BY <2>1 DEF Execute
    <3>5. QED
      BY <3>2, <3>3, <3>4
  <2>5. CASE ledger = Refused
    BY <2>5 DEF Outcome, After, Step
  <2>6. CASE Outcome(t) = AddConfigLines(ledger, i)
    <3>1. i.index + Len(i.items) <= Capacity
      <4>1. ledger.exists /\ ~ledger.hidden /\ i.index + Len(i.items) <= ledger.config.available
        BY <2>6 DEF AddConfigLines, Signed
      <4>2. QED
        BY <2>2, <2>3, <4>1, CapacityAssumption DEF Packed
    <3>2. k \in Int /\ i.index <= k /\ k < Capacity
      <4>1. Len(i.items) \in Nat
        BY <2>3, LenProperties
      <4>2. i.index \in Int /\ k \in i.index .. i.index + Len(i.items) - 1
        BY <2>3 DEF Written, Packed
      <4> HIDE DEF i
      <4>3. QED
        BY <3>1, <4>1, <4>2, CapacityAssumption
    <3>3. k \in Slots
      BY <2>3, <3>2, CapacityAssumption DEF Slots
    <3>4. QED
      BY <2>2, <2>3, <3>2, <3>3 DEF Packed
  <2>7. QED
    BY <2>4, <2>5, <2>6
<1>2. QED
  BY <1>1, InOrderAlways, PTL

-----------------------------------------------------------------------------
(* The same accounts for any callers of insertItems: types, counters and   *)
(* the mints of the NFTs.                                                  *)

Minted(l) == {n.mint : n \in l.nfts}

WrittenLines(l) == {k \in Slots : l.lines[k] # NoItem}

Sound(l) ==
  /\ l \in LedgersOf(Nat)
  /\ l.exists => l.authority \in Keys /\ l.config \in Configs
  /\ l.loaded = Cardinality(WrittenLines(l))
  /\ l.redeemed = Cardinality(Minted(l))

\* The instructions that the builders make.
Sendable ==
  [type : {"initialize"}, authority : Keys, config : Configs, hidden : BOOLEAN]
  \cup [type : {"addConfigLines"}, authority : Keys, index : Nat, items : Seq(Items)]
  \cup [type : {"updateCandyMachine"}, authority : Keys, config : Configs]
  \cup [type : {"setCollection", "removeCollection"}, authority : Keys,
        mint : Mints \cup {NoMint}]
  \cup [type : {"updateAuthority"}, authority : Keys, newAuthority : Keys]
  \cup [type : {"withdrawFunds"}, authority : Keys, closesCollection : BOOLEAN]
  \cup [type : {"mintNft"}, wallet : Wallets, payer : Keys, nft : Nfts]
  \cup [type : {"setCollectionDuringMint"}, authority : Keys, mint : Mints, nft : Nfts]

LEMMA MintedFinite ==
  ASSUME NEW l, l.nfts \subseteq [mint : Nfts, collection : Mints \cup {NoMint}]
  PROVE  /\ Minted(l) \subseteq Nfts /\ IsFiniteSet(Minted(l))
         /\ Cardinality(Minted(l)) \in 0 .. Cardinality(Nfts)
<1>1. Minted(l) \subseteq Nfts
  BY DEF Minted
<1>2. /\ IsFiniteSet(Minted(l)) /\ Cardinality(Minted(l)) <= Cardinality(Nfts)
      /\ Cardinality(Nfts) \in Nat
  BY <1>1, NftsAssumption, FS_Subset, FS_CardinalityType
<1>3. Cardinality(Minted(l)) \in Nat
  BY <1>2, FS_CardinalityType
<1>4. QED
  BY <1>1, <1>2, <1>3

LEMMA LinesFinite ==
  ASSUME NEW S, S \subseteq Slots
  PROVE  IsFiniteSet(S) /\ Cardinality(S) \in 0 .. Capacity
<1>1. IsFiniteSet(Slots) /\ Cardinality(Slots) = Capacity
  <2>1. 0 \in Int /\ Capacity - 1 \in Int
    BY CapacityAssumption
  <2>2. /\ IsFiniteSet(Slots)
        /\ Cardinality(Slots) = IF 0 > Capacity - 1 THEN 0 ELSE Capacity - 1 - 0 + 1
    BY <2>1, FS_Interval, Zenon DEF Slots
  <2>3. QED
    BY <2>2, CapacityAssumption
<1>2. IsFiniteSet(S) /\ Cardinality(S) <= Capacity
  BY <1>1, FS_Subset
<1>3. Cardinality(S) \in Nat
  BY <1>2, FS_CardinalityType
<1>4. QED
  BY <1>2, <1>3, CapacityAssumption

\* The counter of the lines is right, wherever they are written.
LEMMA AddSound ==
  ASSUME NEW l, Sound(l), NEW i, i.index \in Nat, i.items \in Seq(Items),
         AddConfigLines(l, i) # Refused
  PROVE  /\ Sound(AddConfigLines(l, i)) /\ AddConfigLines(l, i).nfts = l.nfts
         /\ AddConfigLines(l, i).clock = l.clock
<1> DEFINE fresh == {k \in Written(i) : l.lines[k] = NoItem}
           lines == [k \in Slots |-> IF k \in Written(i) THEN i.items[k - i.index + 1]
                                                          ELSE l.lines[k]]
           count == l.loaded + Cardinality(fresh)
           m     == [l EXCEPT !.lines = lines, !.loaded = count]
<1>1. /\ l.exists /\ ~l.hidden /\ i.index + Len(i.items) <= l.config.available
      /\ AddConfigLines(l, i) = m
  BY DEF AddConfigLines, Signed
<1>2. l.config.available \in 0 .. Capacity
  BY <1>1 DEF Sound, Configs
<1>3. Written(i) \subseteq Slots
  <2>1. Len(i.items) \in Nat
    OBVIOUS
  <2>2. QED
    BY <1>1, <1>2, <2>1, CapacityAssumption DEF Written, Slots
<1>4. \A k \in Written(i) : i.items[k - i.index + 1] \in Items
  <2>1. \A n \in 1 .. Len(i.items) : i.items[n] \in Items
    BY ElementOfSeq
  <2>2. \A k \in Written(i) : k - i.index + 1 \in 1 .. Len(i.items)
    BY DEF Written
  <2>3. QED
    BY <2>1, <2>2
<1>5. lines \in [Slots -> Items \cup {NoItem}]
  BY <1>4 DEF Sound, LedgersOf
<1> DEFINE old == WrittenLines(l)
           all == {k \in Slots : lines[k] # NoItem}
<1>6. all = old \cup fresh /\ old \cap fresh = {}
  BY <1>3, <1>4, NoItemAssumption DEF WrittenLines
<1>7. /\ IsFiniteSet(old) /\ IsFiniteSet(fresh)
      /\ Cardinality(old) \in Nat /\ Cardinality(fresh) \in Nat
      /\ Cardinality(all) \in 0 .. Capacity
  <2>1. old \subseteq Slots /\ fresh \subseteq Slots /\ all \subseteq Slots
    BY <1>3 DEF WrittenLines
  <2> HIDE DEF old, fresh, all
  <2>2. QED
    BY <2>1, LinesFinite, CapacityAssumption
<1>8. count = Cardinality(all)
  <2> HIDE DEF old, fresh, all
  <2>1. Cardinality(all) = Cardinality(old) + Cardinality(fresh) - Cardinality({})
    BY <1>6, <1>7, FS_Union
  <2>2. Cardinality(all) = Cardinality(old) + Cardinality(fresh)
    BY <1>7, <2>1, FS_EmptySet
  <2>3. QED
    BY <2>2 DEF Sound, old
<1> HIDE DEF count, lines, fresh
<1>9. /\ m \in LedgersOf(Nat) /\ m.exists = l.exists /\ m.authority = l.authority
      /\ m.config = l.config /\ m.lines = lines /\ m.loaded = count
      /\ m.redeemed = l.redeemed /\ m.nfts = l.nfts /\ m.clock = l.clock
  BY <1>5, <1>7, <1>8 DEF Sound, LedgersOf
<1>10. QED
  BY <1>1, <1>8, <1>9 DEF Sound, Minted, WrittenLines, all

\* A mint counts the NFT it makes, which is a new one.
LEMMA MintSound ==
  ASSUME NEW l, Sound(l), NEW i, i.nft \in Nfts, i.nft \notin Minted(l),
         MintNft(l, i) # Refused
  PROVE  /\ Sound(MintNft(l, i)) /\ Minted(MintNft(l, i)) \subseteq Minted(l) \cup {i.nft}
         /\ MintNft(l, i).clock = l.clock
<1> DEFINE nft  == [mint |-> i.nft, collection |-> NoMint]
           nfts == l.nfts \cup {nft}
           n    == l.redeemed + 1
           m    == [l EXCEPT !.redeemed = n, !.nfts = nfts]
<1>1. MintNft(l, i) = l \/ MintNft(l, i) = m
  BY DEF MintNft
<1>2. /\ l.nfts \subseteq [mint : Nfts, collection : Mints \cup {NoMint}]
      /\ l.redeemed \in Nat
  BY DEF Sound, LedgersOf
<1>3. nfts \subseteq [mint : Nfts, collection : Mints \cup {NoMint}]
  BY <1>2
<1>4. n = Cardinality(Minted(l) \cup {i.nft})
  <2>1. IsFiniteSet(Minted(l))
    BY <1>2, MintedFinite
  <2>2. Cardinality(Minted(l) \cup {i.nft}) = Cardinality(Minted(l)) + 1
    BY <2>1, FS_AddElement
  <2>3. QED
    BY <2>2 DEF Sound
<1>5. {x.mint : x \in nfts} = Minted(l) \cup {i.nft}
  <2>1. nft.mint = i.nft
    OBVIOUS
  <2> HIDE DEF nft
  <2>2. QED
    BY <2>1 DEF Minted
<1>n. n \in Nat
  BY <1>2
<1> HIDE DEF n, nfts
<1>6. /\ m \in LedgersOf(Nat) /\ m.exists = l.exists /\ m.authority = l.authority
      /\ m.config = l.config /\ m.lines = l.lines /\ m.loaded = l.loaded
      /\ m.redeemed = n /\ m.nfts = nfts /\ m.clock = l.clock
  BY <1>3, <1>n DEF Sound, LedgersOf
<1> HIDE DEF m
<1>7. Minted(m) = Minted(l) \cup {i.nft}
  BY <1>5, <1>6 DEF Minted
<1>8. Sound(m)
  BY <1>4, <1>6, <1>7 DEF Sound, WrittenLines
<1>9. QED
  BY <1>1, <1>6, <1>7, <1>8

\* The collection of an NFT changes, its mint does not.
LEMMA CollectSound ==
  ASSUME NEW l, Sound(l), NEW i, i.mint \in Mints, SetCollectionDuringMint(l, i) # Refused
  PROVE  /\ Sound(SetCollectionDuringMint(l, i))
         /\ Minted(SetCollectionDuringMint(l, i)) = Minted(l)
         /\ SetCollectionDuringMint(l, i).clock = l.clock
<1> DEFINE New(n) == IF n.mint = i.nft /\ i.mint = l.collection
                     THEN [n EXCEPT !.collection = i.mint] ELSE n
           nfts == {New(n) : n \in l.nfts}
           m == [l EXCEPT !.nfts = nfts]
           N == [mint : Nfts, collection : Mints \cup {NoMint}]
<1>1. SetCollectionDuringMint(l, i) = m
  BY DEF SetCollectionDuringMint
<1>2. l.nfts \subseteq N
  BY DEF Sound, LedgersOf
<1>3. \A n \in N : New(n) \in N /\ New(n).mint = n.mint
  OBVIOUS
<1> HIDE DEF New, N
<1>4. nfts \subseteq N /\ {x.mint : x \in nfts} = Minted(l)
  BY <1>2, <1>3 DEF Minted
<1> HIDE DEF nfts
<1>5. /\ m \in LedgersOf(Nat) /\ m.exists = l.exists /\ m.authority = l.authority
      /\ m.config = l.config /\ m.lines = l.lines /\ m.loaded = l.loaded
      /\ m.redeemed = l.redeemed /\ m.nfts = nfts /\ m.clock = l.clock
  BY <1>4 DEF Sound, LedgersOf, N
<1> HIDE DEF m
<1>6. Minted(m) = Minted(l)
  BY <1>4, <1>5 DEF Minted
<1>7. QED
  BY <1>1, <1>5, <1>6 DEF Sound, WrittenLines

LEMMA ExecuteSound ==
  ASSUME NEW l, Sound(l), NEW i \in Sendable,
         i.type = "mintNft" => i.nft \notin Minted(l), Execute(l, i) # Refused
  PROVE  /\ Sound(Execute(l, i)) /\ Execute(l, i).clock = l.clock
         /\ Minted(Execute(l, i))
              \subseteq Minted(l) \cup (IF i.type = "mintNft" THEN {i.nft} ELSE {})
<1> DEFINE m == Execute(l, i)
<1>1. CASE i.type = "addConfigLines"
  <2>1. m = AddConfigLines(l, i)
    BY <1>1 DEF Execute
  <2>2. i.index \in Nat /\ i.items \in Seq(Items)
    BY <1>1 DEF Sendable
  <2>3. QED
    BY <1>1, <2>1, <2>2, AddSound DEF Minted
<1>2. CASE i.type = "mintNft"
  <2>1. m = MintNft(l, i)
    BY <1>2 DEF Execute
  <2>2. i.nft \in Nfts /\ i.nft \notin Minted(l)
    BY <1>2 DEF Sendable
  <2>3. QED
    BY <1>2, <2>1, <2>2, MintSound
<1>3. CASE i.type = "setCollectionDuringMint"
  <2>1. m = SetCollectionDuringMint(l, i)
    BY <1>3 DEF Execute
  <2>2. i.mint \in Mints
    BY <1>3 DEF Sendable
  <2>3. QED
    BY <2>1, <2>2, CollectSound
<1>4. CASE i.type \notin {"addConfigLines", "mintNft", "setCollectionDuringMint"}
  <2>1. SUFFICES /\ m \in LedgersOf(Nat)
                 /\ m.exists => m.authority \in Keys /\ m.config \in Configs
                 /\ m.lines = l.lines /\ m.loaded = l.loaded
                 /\ m.redeemed = l.redeemed /\ m.nfts = l.nfts /\ m.clock = l.clock
    BY DEF Sound, Minted, WrittenLines
  <2> HIDE DEF m
  <2>2. l \in LedgersOf(Nat) /\ (l.exists => l.authority \in Keys /\ l.config \in Configs)
    BY DEF Sound
  <2>3. CASE i.type = "initialize"
    <3>1. i.authority \in Keys /\ i.config \in Configs /\ i.hidden \in BOOLEAN
      BY <2>3 DEF Sendable
    <3>2. m = [l EXCEPT !.exists = TRUE, !.authority = i.authority,
                        !.config = i.config, !.hidden = i.hidden]
      BY <2>3 DEF m, Execute, Initialize
    <3>3. QED
      BY <2>2, <3>1, <3>2 DEF LedgersOf
  <2>4. CASE i.type = "updateCandyMachine"
    <3>1. i.config \in Configs
      BY <2>4 DEF Sendable
    <3>2. m = [l EXCEPT !.config = i.config]
      BY <2>4 DEF m, Execute, UpdateCandyMachine
    <3>3. QED
      BY <2>2, <3>1, <3>2 DEF LedgersOf
  <2>5. CASE i.type \in {"setCollection", "removeCollection", "withdrawFunds"}
    <3>1. i.type = "setCollection" => i.mint \in Mints \cup {NoMint}
      BY DEF Sendable
    <3>2. l.collection \in Mints \cup {NoMint}
      BY <2>2 DEF LedgersOf
    <3>3. \/ \E c \in Mints \cup {NoMint} : m = [l EXCEPT !.collection = c]
          \/ \E c \in Mints \cup {NoMint} : m = [l EXCEPT !.exists = FALSE, !.collection = c]
      BY <2>5, <3>1, <3>2 DEF m, Execute, SetCollection, RemoveCollection, WithdrawFunds
    <3>4. QED
      BY <2>2, <3>3 DEF LedgersOf
  <2>6. CASE i.type = "updateAuthority"
    <3>1. i.newAuthority \in Keys
      BY <2>6 DEF Sendable
    <3>2. m = [l EXCEPT !.authority = i.newAuthority]
      BY <2>6 DEF m, Execute, UpdateAuthority
    <3>3. QED
      BY <2>2, <3>1, <3>2 DEF LedgersOf
  <2>7. i.type \in {"initialize", "updateCandyMachine", "setCollection",
                    "removeCollection", "withdrawFunds", "updateAuthority"}
    BY <1>4 DEF Sendable
  <2>8. QED
    BY <2>3, <2>4, <2>5, <2>6, <2>7
<1>5. QED
  BY <1>1, <1>2, <1>3, <1>4

-----------------------------------------------------------------------------
(* Transactions, one instruction after the other.                          *)

Run(l, i) == IF l # Refused THEN Execute(l, i) ELSE l

RunIf(l, condition, i) == IF condition THEN Run(l, i) ELSE l

LEMMA AfterNothing == ASSUME NEW l PROVE After(l, <<>>) = l
BY DEF After, Step, MaxInstructions

LEMMA AfterOne == ASSUME NEW l, NEW i PROVE After(l, <<i>>) = Run(l, i)
BY DEF After, Step, Run, MaxInstructions

LEMMA AfterAppend ==
  ASSUME NEW T, NEW s \in Seq(T), Len(s) < 4, NEW i \in T, NEW l
  PROVE  /\ After(l, s \o <<i>>) = Run(After(l, s), i)
         /\ s \o <<i>> \in Seq(T)
         /\ Len(s \o <<i>>) = Len(s) + 1
<1> DEFINE t == s \o <<i>>
<1>1. /\ t \in Seq(T) /\ Len(t) = Len(s) + 1 /\ t[Len(s) + 1] = i
      /\ \A n \in 1 .. Len(s) : t[n] = s[n]
  OBVIOUS
<1>2. Len(s) \in {0, 1, 2, 3}
  <2> DEFINE n == Len(s)
  <2>1. n \in Nat /\ n < 4
    BY LenProperties
  <2> HIDE DEF n
  <2>2. n \in {0, 1, 2, 3}
    BY <2>1
  <2>3. QED
    BY <2>2 DEF n
<1> HIDE DEF t
<1>3. \A k, n : n \in 1 .. Len(s) => Step(k, t, n) = Step(k, s, n)
  BY <1>1 DEF Step
<1>4. \A k : Step(k, t, Len(s) + 1) = Run(k, i)
  BY <1>1, <1>2 DEF Step, Run
<1>5. \A k, n : n \in Nat /\ n > Len(s) => Step(k, s, n) = k
  BY DEF Step
<1>6. \A k, n : n \in Nat /\ n > Len(s) + 1 => Step(k, t, n) = k
  BY <1>1 DEF Step
<1>7. After(l, t) = Run(After(l, s), i)
  <2>1. CASE Len(s) = 0
    BY <2>1, <1>4, <1>5, <1>6 DEF After, MaxInstructions
  <2>2. CASE Len(s) = 1
    BY <2>2, <1>3, <1>4, <1>5, <1>6 DEF After, MaxInstructions
  <2>3. CASE Len(s) = 2
    BY <2>3, <1>3, <1>4, <1>5, <1>6 DEF After, MaxInstructions
  <2>4. CASE Len(s) = 3
    BY <2>4, <1>3, <1>4, <1>5, <1>6 DEF After, MaxInstructions
  <2>5. QED
    BY <1>2, <2>1, <2>2, <2>3, <2>4
<1>8. QED
  BY <1>1, <1>7 DEF t

\* An instruction that a builder adds on a condition.
LEMMA AfterWhen ==
  ASSUME NEW T, NEW s \in Seq(T), NEW n \in 0 .. 3, Len(s) <= n,
         NEW c \in BOOLEAN, NEW i, c => i \in T, NEW l
  PROVE  /\ After(l, s \o When(c, i)) = RunIf(After(l, s), c, i)
         /\ s \o When(c, i) \in Seq(T)
         /\ Len(s) <= Len(s \o When(c, i))
         /\ Len(s \o When(c, i)) <= n + 1
<1>1. Len(s) \in Nat /\ Len(s) < 4
  BY LenProperties
<1>2. CASE c
  <2>1. When(c, i) = <<i>>
    BY <1>2 DEF When
  <2>2. RunIf(After(l, s), c, i) = Run(After(l, s), i)
    BY <1>2 DEF RunIf
  <2>3. /\ After(l, s \o <<i>>) = Run(After(l, s), i)
        /\ s \o <<i>> \in Seq(T) /\ Len(s \o <<i>>) = Len(s) + 1
    BY <1>1, <1>2, AfterAppend
  <2>4. Len(s \o <<i>>) <= n + 1 /\ Len(s) <= Len(s \o <<i>>)
    BY <1>1, <2>3
  <2>5. QED
    BY <2>1, <2>2, <2>3, <2>4
<1>3. CASE ~c
  <2>1. s \o When(c, i) = s
    BY <1>3 DEF When
  <2>2. RunIf(After(l, s), c, i) = After(l, s)
    BY <1>3 DEF RunIf
  <2>3. Len(s) <= n + 1 /\ Len(s) <= Len(s)
    BY <1>1
  <2>4. QED
    BY <2>1, <2>2, <2>3
<1>4. QED
  BY <1>2, <1>3

\* Instructions that mint nothing.
Quiet == {i \in Sendable : i.type # "mintNft"}

LEMMA SoundIsNotRefused == ASSUME NEW l, Sound(l) PROVE l # Refused
BY RefusedAssumption DEF Sound

LEMMA QuietSound ==
  ASSUME NEW l, Sound(l), NEW s \in Seq(Quiet), After(l, s) # Refused
  PROVE  /\ Sound(After(l, s)) /\ Minted(After(l, s)) \subseteq Minted(l)
         /\ After(l, s).clock = l.clock
<1> DEFINE Fine(m) == \/ m = Refused
                      \/ Sound(m) /\ Minted(m) \subseteq Minted(l) /\ m.clock = l.clock
<1>1. ASSUME NEW m, Fine(m), NEW n \in 1 .. 4
      PROVE  Fine(Step(m, s, n))
  <2>1. CASE m = Refused \/ n > Len(s)
    BY <1>1, <2>1 DEF Step
  <2>2. CASE ~(m = Refused \/ n > Len(s))
    <3>1. /\ Step(m, s, n) = Execute(m, s[n])
          /\ Sound(m) /\ Minted(m) \subseteq Minted(l) /\ m.clock = l.clock
      BY <1>1, <2>2 DEF Step
    <3>2. s[n] \in Quiet
      <4>1. Len(s) \in Nat
        BY LenProperties
      <4>2. n \in 1 .. Len(s)
        BY <2>2, <4>1
      <4>3. QED
        BY <4>2, ElementOfSeq
    <3>3. s[n] \in Sendable /\ s[n].type # "mintNft"
      BY <3>2 DEF Quiet
    <3>4. CASE Execute(m, s[n]) # Refused
      <4>1. /\ Sound(Execute(m, s[n])) /\ Minted(Execute(m, s[n])) \subseteq Minted(m)
            /\ Execute(m, s[n]).clock = m.clock
        BY <3>1, <3>3, <3>4, ExecuteSound
      <4>2. QED
        BY <3>1, <4>1
    <3>5. QED
      BY <3>1, <3>4
  <2>3. QED
    BY <2>1, <2>2
<1>2. Fine(l)
  OBVIOUS
<1> DEFINE first  == Step(l, s, 1)
           second == Step(first, s, 2)
           third  == Step(second, s, 3)
           fourth == Step(third, s, 4)
<1>3. After(l, s) = fourth
  BY DEF After, MaxInstructions
<1> HIDE DEF Fine, first, second, third, fourth
<1>4. Fine(first)
  BY <1>1, <1>2 DEF first
<1>5. Fine(second)
  BY <1>1, <1>4 DEF second
<1>6. Fine(third)
  BY <1>1, <1>5 DEF third
<1>7. Fine(fourth)
  BY <1>1, <1>6 DEF fourth
<1>8. QED
  BY <1>3, <1>7 DEF Fine

-----------------------------------------------------------------------------
(* What the builders make of a model, an identity and a request.           *)

SentOnce(s) == Len(s) \in 1 .. MaxInstructions

LEMMA CreateShape ==
  ASSUME NEW authority \in Keys, NEW config \in Configs, NEW hidden \in BOOLEAN,
         NEW collection \in Mints \cup {NoMint}
  PROVE  LET s == CreateInstructions(authority, config, hidden, collection)
         IN  s \in Seq(Quiet) /\ SentOnce(s)
<1> DEFINE a == [type |-> "initialize", authority |-> authority, config |-> config,
                 hidden |-> hidden]
           b == [type |-> "setCollection", authority |-> authority, mint |-> collection]
           c == collection # NoMint
           one == <<a>>
<1>1. a \in Quiet /\ (c => b \in Quiet)
  BY DEF Quiet, Sendable
<1>2. CreateInstructions(authority, config, hidden, collection) = one \o When(c, b)
  BY DEF CreateInstructions
<1>3. c \in BOOLEAN
  OBVIOUS
<1> HIDE DEF a, b, c
<1>4. one \in Seq(Quiet) /\ Len(one) <= 1
  BY <1>1
<1>n. 1 <= Len(one)
  OBVIOUS
<1> HIDE DEF one
<1>5. /\ After(Refused, one \o When(c, b)) = RunIf(After(Refused, one), c, b)
      /\ one \o When(c, b) \in Seq(Quiet)
      /\ Len(one) <= Len(one \o When(c, b))
      /\ Len(one \o When(c, b)) <= 2
  BY <1>1, <1>3, <1>4, AfterWhen
<1>6. Len(one \o When(c, b)) \in 1 .. 4
  BY <1>4, <1>5, <1>n, LenProperties
<1>7. QED
  BY <1>2, <1>5, <1>6 DEF SentOnce, MaxInstructions

LEMMA InsertShape ==
  ASSUME NEW signer \in Keys, NEW index \in Nat, NEW items \in Seq(Items)
  PROVE  LET s == InsertItems(signer, index, items)
         IN  s \in Seq(Quiet) /\ SentOnce(s)
<1> DEFINE a == [type |-> "addConfigLines", authority |-> signer, index |-> index,
                 items |-> items]
<1>1. a \in Quiet
  BY DEF Quiet, Sendable
<1>2. InsertItems(signer, index, items) = <<a>>
  BY DEF InsertItems
<1> HIDE DEF a
<1>3. QED
  BY <1>1, <1>2 DEF SentOnce, MaxInstructions

LEMMA DeleteShape ==
  ASSUME NEW m, NEW signer \in Keys
  PROVE  LET s == DeleteInstructions(m, signer)
         IN  /\ s \in Seq(Quiet) /\ SentOnce(s)
             /\ \A l : After(l, s) = Run(l, [type |-> "withdrawFunds", authority |-> signer,
                                             closesCollection |-> m.collection # NoMint])
<1> DEFINE a == [type |-> "withdrawFunds", authority |-> signer,
                 closesCollection |-> m.collection # NoMint]
<1>1. a \in Quiet
  BY DEF Quiet, Sendable
<1>2. DeleteInstructions(m, signer) = <<a>>
  BY DEF DeleteInstructions
<1> HIDE DEF a
<1>3. <<a>> \in Seq(Quiet) /\ SentOnce(<<a>>)
  BY <1>1 DEF SentOnce, MaxInstructions
<1>4. \A l : After(l, <<a>>) = Run(l, a)
  BY AfterOne
<1>5. QED
  BY <1>2, <1>3, <1>4 DEF a

Wanted(m, edit) == Merged(m.config, edit)

LEMMA UpdateShape ==
  ASSUME NEW m \in Models, NEW signer \in Keys, NEW edit \in Edits,
         NEW newCollection \in Mints \cup {NoMint, Unchanged},
         NEW newAuthority \in Owners \cup {Unchanged},
         UpdateInstructions(m, signer, edit, newCollection, newAuthority) # <<>>
  PROVE  LET s == UpdateInstructions(m, signer, edit, newCollection, newAuthority)
         IN  /\ s \in Seq(Quiet) /\ SentOnce(s)
             /\ \A l : After(l, s) =
                  RunIf(RunIf(RunIf(RunIf(l,
                    Wanted(m, edit) # m.config,
                    UpdateInstruction(signer, Wanted(m, edit))),
                    ShouldUpdateCollection(m, newCollection),
                    SetCollectionInstruction(signer, newCollection)),
                    ShouldRemoveCollection(m, newCollection),
                    RemoveCollectionInstruction(signer, m.collection)),
                    ShouldUpdateAuthority(signer, newAuthority),
                    UpdateAuthorityInstruction(signer, newAuthority))
<1> DEFINE i1 == UpdateInstruction(signer, Wanted(m, edit))
           i2 == SetCollectionInstruction(signer, newCollection)
           i3 == RemoveCollectionInstruction(signer, m.collection)
           i4 == UpdateAuthorityInstruction(signer, newAuthority)
           c1 == Wanted(m, edit) # m.config
           c2 == ShouldUpdateCollection(m, newCollection)
           c3 == ShouldRemoveCollection(m, newCollection)
           c4 == ShouldUpdateAuthority(signer, newAuthority)
           s0 == <<>>
           s1 == s0 \o When(c1, i1)
           s2 == s1 \o When(c2, i2)
           s3 == s2 \o When(c3, i3)
           s4 == s3 \o When(c4, i4)
           s  == UpdateInstructions(m, signer, edit, newCollection, newAuthority)
<1>1. c1 \in BOOLEAN /\ c2 \in BOOLEAN /\ c3 \in BOOLEAN /\ c4 \in BOOLEAN
  BY DEF ShouldUpdateCollection, ShouldRemoveCollection, ShouldUpdateAuthority
<1>2. i1 \in Quiet
  <2>1. Wanted(m, edit) \in Configs
    BY SettingsAssumption DEF Wanted, Models
  <2> DEFINE w == Wanted(m, edit)
  <2> HIDE DEF w
  <2>2. UpdateInstruction(signer, w) \in Quiet
    BY <2>1 DEF Quiet, Sendable, UpdateInstruction, w
  <2>3. QED
    BY <2>2 DEF w
<1>3. c2 => i2 \in Quiet
  BY DEF Quiet, Sendable, ShouldUpdateCollection, SetCollectionInstruction
<1>4. i3 \in Quiet
  <2>1. m.collection \in Mints \cup {NoMint}
    BY DEF Models
  <2>2. QED
    BY <2>1 DEF Quiet, Sendable, RemoveCollectionInstruction
<1>5. c4 => i4 \in Quiet
  <2>1. c4 => newAuthority \in Keys
    BY ClientsAssumption DEF ShouldUpdateAuthority
  <2>2. QED
    BY <2>1 DEF Quiet, Sendable, UpdateAuthorityInstruction
<1>6. s = When(c1, i1) \o When(c2, i2) \o When(c3, i3) \o When(c4, i4)
  BY DEF UpdateInstructions, Wanted
<1>7. s0 \in Seq(Quiet) /\ Len(s0) <= 0 /\ \A l : After(l, s0) = l
  BY AfterNothing
<1> HIDE DEF c1, c2, c3, c4, i1, i2, i3, i4, s0, s
<1>8. /\ s1 \in Seq(Quiet) /\ Len(s1) <= 1
      /\ \A l : After(l, s1) = RunIf(After(l, s0), c1, i1)
  BY <1>1, <1>2, <1>7, AfterWhen
<1> HIDE DEF s1
<1>9. /\ s2 \in Seq(Quiet) /\ Len(s2) <= 2
      /\ \A l : After(l, s2) = RunIf(After(l, s1), c2, i2)
  BY <1>1, <1>3, <1>8, AfterWhen
<1> HIDE DEF s2
<1>10. /\ s3 \in Seq(Quiet) /\ Len(s3) <= 3
       /\ \A l : After(l, s3) = RunIf(After(l, s2), c3, i3)
  BY <1>1, <1>4, <1>9, AfterWhen
<1> HIDE DEF s3
<1>11. /\ s4 \in Seq(Quiet) /\ Len(s4) <= 4
       /\ \A l : After(l, s4) = RunIf(After(l, s3), c4, i4)
  BY <1>1, <1>5, <1>10, AfterWhen
<1>12. s = s4
  <2>1. When(c1, i1) \in Seq(Quiet)
    BY <1>2, WhenInSeq
  <2>2. s1 = When(c1, i1)
    BY <2>1 DEF s1, s0
  <2>3. QED
    BY <1>6, <2>2 DEF s2, s3
<1> HIDE DEF s4
<1>13. SentOnce(s)
  <2>1. s # <<>>
    BY DEF s
  <2> DEFINE n == Len(s)
  <2>2. n \in Nat /\ n # 0 /\ n <= 4
    BY <1>11, <1>12, <2>1, EmptySeq, LenProperties
  <2> HIDE DEF n
  <2>3. n \in 1 .. 4
    BY <2>2
  <2>4. QED
    BY <2>3 DEF SentOnce, MaxInstructions, n
<1>14. \A l : After(l, s) =
         RunIf(RunIf(RunIf(RunIf(l, c1, i1), c2, i2), c3, i3), c4, i4)
  BY <1>7, <1>8, <1>9, <1>10, <1>11, <1>12
<1>15. QED
  BY <1>11, <1>12, <1>13, <1>14 DEF s, c1, c2, c3, c4, i1, i2, i3, i4

TheMint(m, payer, nft) ==
  [type |-> "mintNft", wallet |-> m.config.wallet, payer |-> payer, nft |-> nft]

TheCollection(m, collection, nft) ==
  [type |-> "setCollectionDuringMint", authority |-> m.authority,
   mint |-> collection, nft |-> nft]

LEMMA MintShape ==
  ASSUME NEW m \in Models, NEW payer \in Keys, NEW nft \in Nfts,
         NEW collection \in Mints \cup {NoMint}
  PROVE  LET s == MintInstructions(m, payer, nft, collection)
         IN  /\ SentOnce(s)
             /\ TheMint(m, payer, nft) \in Sendable
             /\ collection # NoMint => TheCollection(m, collection, nft) \in Quiet
             /\ \A l : After(l, s) = RunIf(Run(l, TheMint(m, payer, nft)),
                                           collection # NoMint,
                                           TheCollection(m, collection, nft))
<1> DEFINE a == TheMint(m, payer, nft)
           b == TheCollection(m, collection, nft)
           c == collection # NoMint
           one == <<a>>
<1>1. m.config.wallet \in Wallets /\ m.authority \in Keys
  BY DEF Models, Configs
<1>2. a \in Sendable /\ (c => b \in Quiet) /\ (c => b \in Sendable)
  <2> DEFINE w == m.config.wallet
             k == m.authority
  <2>1. a = [type |-> "mintNft", wallet |-> w, payer |-> payer, nft |-> nft]
    BY DEF TheMint
  <2>2. b = [type |-> "setCollectionDuringMint", authority |-> k,
             mint |-> collection, nft |-> nft]
    BY DEF TheCollection
  <2> HIDE DEF w, k, a, b
  <2>3. w \in Wallets /\ k \in Keys
    BY <1>1 DEF w, k
  <2>4. QED
    BY <2>1, <2>2, <2>3 DEF Sendable, Quiet
<1>3. MintInstructions(m, payer, nft, collection) = one \o When(c, b)
  BY DEF MintInstructions, TheMint, TheCollection
<1>4. c \in BOOLEAN
  OBVIOUS
<1> HIDE DEF a, b, c
<1>5. one \in Seq(Sendable) /\ Len(one) <= 1 /\ \A l : After(l, one) = Run(l, a)
  BY <1>2, AfterOne
<1>n. 1 <= Len(one)
  OBVIOUS
<1> HIDE DEF one
<1>6. /\ \A l : After(l, one \o When(c, b)) = RunIf(After(l, one), c, b)
      /\ one \o When(c, b) \in Seq(Sendable)
      /\ Len(one) <= Len(one \o When(c, b))
      /\ Len(one \o When(c, b)) <= 2
  BY <1>2, <1>4, <1>5, AfterWhen
<1>7. Len(one \o When(c, b)) \in 1 .. 4
  BY <1>5, <1>6, <1>n, LenProperties
<1>8. QED
  BY <1>2, <1>3, <1>5, <1>6, <1>7 DEF SentOnce, MaxInstructions, a, b, c

-----------------------------------------------------------------------------
(* The inductive invariant: every transaction is what its builder makes of *)
(* the model and the request that are kept with it, and every mint has an  *)
(* NFT of its own.                                                         *)

Built(t) ==
  /\ t.client \in Clients /\ t.op \in Operations /\ SentOnce(t.instructions)
  /\ t.base \in Models \cup {NoModel}
  /\ t.op # "mint" => t.instructions \in Seq(Quiet)
  /\ t.op = "update" =>
       /\ t.base \in Models /\ t.aim.edit \in Edits
       /\ t.aim.collection \in Mints \cup {NoMint, Unchanged}
       /\ t.aim.authority \in Owners \cup {Unchanged}
       /\ t.instructions # <<>>
       /\ t.instructions = UpdateInstructions(t.base, Identity[t.client], t.aim.edit,
                                              t.aim.collection, t.aim.authority)
  /\ t.op = "delete" => t.instructions = DeleteInstructions(t.base, Identity[t.client])
  /\ t.op = "mint" =>
       /\ t.base \in Models /\ t.aim.nft \in Nfts /\ t.aim.seen \in Mints \cup {NoMint}
       /\ t.instructions = MintInstructions(t.base, Identity[t.client], t.aim.nft,
                                            t.aim.seen)

\* The call of a client that waits, or fetches, is its own.
Calling(k, c) ==
  /\ k.step \in CallSteps
  /\ k.step \in {"waiting", "fetching"} => k.tx.client = c
  /\ k.step = "fetching" => k.tx.op \in {"create", "mint"}

FreshNfts ==
  /\ \A t \in network : t.op = "mint" => t.aim.nft \notin Minted(ledger)
  /\ \A t, u \in network :
       t.op = "mint" /\ u.op = "mint" /\ t.aim.nft = u.aim.nft => t = u

\* Every mint under way passed the checks at some time up to now.
Checked(t, clock) ==
  t.op = "mint" =>
    \E now \in Numbers : now <= clock /\ CanMint(t.base, Identity[t.client], now)

CallsOK == DOMAIN call = Clients /\ \A c \in Clients : Calling(call[c], c)

Inv ==
  /\ Sound(ledger)
  /\ created \in BOOLEAN
  /\ model \in [Clients -> Models \cup {NoModel}]
  /\ \A t \in network : Built(t) /\ Checked(t, ledger.clock)
  /\ FreshNfts
  /\ CallsOK

LEMMA InitInv == Init => Inv
<1> SUFFICES ASSUME Init PROVE Inv
  OBVIOUS
<1>1. Sound(NoAccount)
  <2> DEFINE lines == [k \in Slots |-> NoItem]
  <2>1. lines \in [Slots -> Items \cup {NoItem}] /\ \A k \in Slots : lines[k] = NoItem
    OBVIOUS
  <2> HIDE DEF lines
  <2>2. /\ NoAccount \in LedgersOf(Nat) /\ NoAccount.lines = lines
        /\ ~NoAccount.exists /\ NoAccount.nfts = {}
        /\ NoAccount.loaded = 0 /\ NoAccount.redeemed = 0
    BY <2>1, CapacityAssumption, MaxNumberAssumption DEF Numbers, NoAccount, LedgersOf, lines
  <2>3. WrittenLines(NoAccount) = {} /\ Minted(NoAccount) = {}
    BY <2>1, <2>2 DEF WrittenLines, Minted
  <2>4. Cardinality({}) = 0
    BY FS_EmptySet
  <2>5. QED
    BY <2>2, <2>3, <2>4 DEF Sound
<1>2. model \in [Clients -> Models \cup {NoModel}] /\ created \in BOOLEAN
  BY DEF Init
<1>3. CallsOK
  BY DEF Init, CallsOK, Calling, Idle, CallSteps
<1>4. FreshNfts /\ \A t \in network : Built(t) /\ Checked(t, ledger.clock)
  BY DEF Init, FreshNfts
<1>5. QED
  BY <1>1, <1>2, <1>3, <1>4 DEF Init, Inv

LEMMA FoundModel == ASSUME NEW l, Sound(l), l.exists PROVE ToCandyMachine(l) \in Models
<1>1. /\ l.authority \in Keys /\ l.config \in Configs /\ l.hidden \in BOOLEAN
      /\ l.loaded \in 0 .. Capacity /\ l.collection \in Mints \cup {NoMint}
      /\ l.redeemed = Cardinality(Minted(l))
  BY DEF Sound, LedgersOf
<1>2. l.redeemed \in 0 .. Cardinality(Nfts)
  BY <1>1, MintedFinite DEF Sound, LedgersOf
<1>3. (IF l.hidden THEN 0 ELSE l.loaded) \in 0 .. Capacity
  BY <1>1, CapacityAssumption
<1>4. QED
  BY <1>1, <1>2, <1>3 DEF ToCandyMachine, Models

LEMMA SendKeeps ==
  ASSUME Inv, NEW c \in Clients, NEW op, NEW instructions, NEW base, NEW aim,
         Send(c, op, instructions, base, aim),
         Built([client |-> c, op |-> op, instructions |-> instructions,
                base |-> base, aim |-> aim]),
         Checked([client |-> c, op |-> op, instructions |-> instructions,
                  base |-> base, aim |-> aim], ledger.clock),
         op = "mint" => ~Used(aim.nft),
         ledger' = ledger, model' = model, created' \in BOOLEAN
  PROVE  Inv'
<1> DEFINE tx == [client |-> c, op |-> op, instructions |-> instructions,
                  base |-> base, aim |-> aim]
           now == [step |-> "waiting", tx |-> tx]
<1>1. network' = network \cup {tx} /\ call' = [call EXCEPT ![c] = now]
  BY DEF Send
<1>2. Calling(now, c)
  BY DEF Calling, CallSteps
<1>3. tx.op = op /\ tx.aim = aim /\ Built(tx) /\ Checked(tx, ledger.clock)
  OBVIOUS
<1> HIDE DEF tx, now
<1>4. CallsOK'
  BY <1>1, <1>2 DEF Inv, CallsOK
<1>5. \A t \in network' : Built(t) /\ Checked(t, ledger'.clock)
  BY <1>1, <1>3 DEF Inv
<1>6. (\A t \in network : Built(t) /\ Checked(t, ledger.clock))'
  BY <1>5 DEF Built, Checked
<1>7. op = "mint" => /\ aim.nft \notin Minted(ledger)
                     /\ \A t \in network : t.op = "mint" => t.aim.nft # aim.nft
  BY DEF Used, Minted
<1>8. \A t \in network' : t.op = "mint" => t.aim.nft \notin Minted(ledger')
  BY <1>1, <1>3, <1>7 DEF Inv, FreshNfts
<1>9. \A t, u \in network' :
        t.op = "mint" /\ u.op = "mint" /\ t.aim.nft = u.aim.nft => t = u
  BY <1>1, <1>3, <1>7 DEF Inv, FreshNfts
<1>10. FreshNfts'
  BY <1>8, <1>9 DEF FreshNfts
<1>11. Sound(ledger)' /\ (model \in [Clients -> Models \cup {NoModel}])'
  BY DEF Inv
<1>12. QED
  BY <1>4, <1>6, <1>10, <1>11 DEF Inv

LEMMA ModelOfCaller ==
  ASSUME Inv, NEW c \in Clients, NEW op, MayCall(c, op)
  PROVE  model[c] \in Models /\ Identity[c] \in Keys
BY ClientsAssumption DEF Inv, MayCall

LEMMA CreateKeeps ==
  ASSUME Inv, NEW c \in Clients, NEW settings \in Settings,
         NEW authority \in Owners \cup {Identity[c]}, NEW collection \in Mints \cup {NoMint},
         Create(c, settings, authority, collection)
  PROVE  Inv'
<1> DEFINE s == CreateInstructions(authority, settings[1], settings[2], collection)
           tx == [client |-> c, op |-> "create", instructions |-> s,
                  base |-> NoModel, aim |-> NoAim]
<1>1. authority \in Keys /\ settings[1] \in Configs /\ settings[2] \in BOOLEAN
  BY ClientsAssumption, SettingsAssumption
<1>2. s \in Seq(Quiet) /\ SentOnce(s)
  BY <1>1, CreateShape
<1>3. /\ Send(c, "create", s, NoModel, NoAim) /\ created' \in BOOLEAN
      /\ ledger' = ledger /\ model' = model
  BY DEF Create
<1> HIDE DEF s
<1>4. Built(tx) /\ Checked(tx, ledger.clock)
  BY <1>2 DEF Built, Checked, Operations
<1>5. QED
  BY <1>3, <1>4, SendKeeps

LEMMA InsertKeeps ==
  ASSUME Inv, NEW c \in Clients, NEW index \in Slots, NEW items \in ItemLists,
         Insert(c, index, items)
  PROVE  Inv'
<1> DEFINE s == InsertItems(Identity[c], index, items)
           m == model[c]
           tx == [client |-> c, op |-> "insert", instructions |-> s,
                  base |-> m, aim |-> NoAim]
<1>1. m \in Models /\ Identity[c] \in Keys
  BY ModelOfCaller DEF Insert
<1>2. index \in Nat /\ items \in Seq(Items)
  BY CapacityAssumption DEF Slots, ItemLists
<1>3. s \in Seq(Quiet) /\ SentOnce(s)
  BY <1>1, <1>2, InsertShape
<1>4. /\ Send(c, "insert", s, m, NoAim) /\ created' \in BOOLEAN
      /\ ledger' = ledger /\ model' = model
  BY DEF Insert, Inv
<1> HIDE DEF s, m
<1>5. Built(tx) /\ Checked(tx, ledger.clock)
  BY <1>1, <1>3 DEF Built, Checked, Operations
<1>6. QED
  BY <1>4, <1>5, SendKeeps

LEMMA UpdateKeeps ==
  ASSUME Inv, NEW c \in Clients, NEW edit \in Edits,
         NEW newCollection \in Mints \cup {NoMint, Unchanged},
         NEW newAuthority \in Owners \cup {Unchanged},
         Update(c, edit, newCollection, newAuthority)
  PROVE  Inv'
<1> DEFINE m == model[c]
           s == UpdateInstructions(m, Identity[c], edit, newCollection, newAuthority)
           aim == [edit |-> edit, collection |-> newCollection,
                   authority |-> newAuthority]
           tx == [client |-> c, op |-> "update", instructions |-> s,
                  base |-> m, aim |-> aim]
<1>1. m \in Models /\ Identity[c] \in Keys
  BY ModelOfCaller DEF Update
<1>2. s # <<>> /\ Send(c, "update", s, m, aim)
  BY DEF Update
<1>3. created' \in BOOLEAN /\ ledger' = ledger /\ model' = model
  BY DEF Update, Inv
<1>4. s \in Seq(Quiet) /\ SentOnce(s)
  <2> HIDE DEF m
  <2>1. QED
    BY <1>1, <1>2, UpdateShape
<1>5. tx.op = "update" /\ tx.client = c /\ tx.base = m /\ tx.instructions = s
      /\ tx.aim.edit = edit /\ tx.aim.collection = newCollection
      /\ tx.aim.authority = newAuthority
  OBVIOUS
<1>6. Built(tx) /\ Checked(tx, ledger.clock)
  <2> HIDE DEF m, aim, tx
  <2>1. QED
    BY <1>1, <1>2, <1>4, <1>5 DEF Built, Checked, Operations
<1> HIDE DEF m, s, aim
<1>7. QED
  BY <1>2, <1>3, <1>6, SendKeeps

LEMMA DeleteKeeps == ASSUME Inv, NEW c \in Clients, Delete(c) PROVE Inv'
<1> DEFINE m == model[c]
           s == DeleteInstructions(m, Identity[c])
           tx == [client |-> c, op |-> "delete", instructions |-> s,
                  base |-> m, aim |-> NoAim]
<1>1. m \in Models /\ Identity[c] \in Keys
  BY ModelOfCaller DEF Delete
<1>2. s \in Seq(Quiet) /\ SentOnce(s)
  BY <1>1, DeleteShape
<1>3. /\ Send(c, "delete", s, m, NoAim) /\ created' \in BOOLEAN
      /\ ledger' = ledger /\ model' = model
  BY DEF Delete, Inv
<1>4. tx.op = "delete" /\ tx.client = c /\ tx.base = m /\ tx.instructions = s
  OBVIOUS
<1>5. Built(tx) /\ Checked(tx, ledger.clock)
  <2> HIDE DEF m, tx
  <2>1. QED
    BY <1>1, <1>2, <1>4 DEF Built, Checked, Operations
<1> HIDE DEF m, s
<1>6. QED
  BY <1>3, <1>5, SendKeeps

LEMMA MintKeeps == ASSUME Inv, NEW c \in Clients, NEW nft \in Nfts, Mint(c, nft) PROVE Inv'
<1> DEFINE m == model[c]
           seen == ledger.collection
           s == MintInstructions(m, Identity[c], nft, seen)
           aim == [nft |-> nft, seen |-> seen]
           tx == [client |-> c, op |-> "mint", instructions |-> s,
                  base |-> m, aim |-> aim]
<1>1. m \in Models /\ Identity[c] \in Keys
  BY ModelOfCaller DEF Mint
<1>2. seen \in Mints \cup {NoMint}
  BY DEF Inv, Sound, LedgersOf
<1>3. SentOnce(s)
  BY <1>1, <1>2, MintShape
<1>4. /\ Send(c, "mint", s, m, aim) /\ created' \in BOOLEAN
      /\ ledger' = ledger /\ model' = model
      /\ CanMint(m, Identity[c], ledger.clock) /\ ~Used(nft)
  BY DEF Mint, Inv
<1>n. ledger.clock \in Numbers /\ ledger.clock <= ledger.clock
  BY MaxNumberAssumption DEF Inv, Sound, LedgersOf, Numbers
<1>5. tx.op = "mint" /\ tx.client = c /\ tx.base = m /\ tx.instructions = s
      /\ tx.aim.nft = nft /\ tx.aim.seen = seen /\ aim.nft = nft
  OBVIOUS
<1>6. Built(tx) /\ Checked(tx, ledger.clock)
  <2> HIDE DEF m, tx, seen, aim
  <2>1. QED
    BY <1>1, <1>2, <1>3, <1>4, <1>5, <1>n DEF Built, Checked, Operations
<1> HIDE DEF m, s, aim, seen
<1>7. QED
  BY <1>4, <1>5, <1>6, SendKeeps

\* What the transaction of a mint makes: an NFT of its own, or nothing.
LEMMA MintLands ==
  ASSUME NEW l, Sound(l), NEW m \in Models, NEW payer \in Keys, NEW nft \in Nfts,
         NEW seen \in Mints \cup {NoMint}, nft \notin Minted(l),
         After(l, MintInstructions(m, payer, nft, seen)) # Refused
  PROVE  LET k == MintNft(l, TheMint(m, payer, nft))
             o == After(l, MintInstructions(m, payer, nft, seen))
         IN  /\ k # Refused /\ Sound(k) /\ Sound(o)
             /\ Minted(k) \subseteq Minted(l) \cup {nft}
             /\ Minted(o) \subseteq Minted(l) \cup {nft}
             /\ k.clock = l.clock /\ o.clock = l.clock
             /\ IF seen = NoMint THEN o = k
                ELSE /\ o = SetCollectionDuringMint(k, TheCollection(m, seen, nft))
                     /\ o # Refused
<1> DEFINE a == TheMint(m, payer, nft)
           b == TheCollection(m, seen, nft)
           k == MintNft(l, a)
           o == After(l, MintInstructions(m, payer, nft, seen))
<1>1. /\ a \in Sendable /\ (seen # NoMint => b \in Quiet)
      /\ o = RunIf(Run(l, a), seen # NoMint, b)
  BY MintShape
<1>2. a.type = "mintNft" /\ a.nft = nft /\ b.type = "setCollectionDuringMint"
      /\ b.mint = seen
  BY DEF TheMint, TheCollection
<1>3. Run(l, a) = k
  BY <1>2, SoundIsNotRefused DEF Run, Execute
<1> HIDE DEF a, b
<1>4. k # Refused
  BY <1>1, <1>3 DEF RunIf, Run
<1>5. Sound(k) /\ Minted(k) \subseteq Minted(l) \cup {nft} /\ k.clock = l.clock
  BY <1>2, <1>4, MintSound
<1> HIDE DEF k
<1>6. CASE seen = NoMint
  <2>1. o = k
    BY <1>1, <1>3, <1>6 DEF RunIf
  <2>2. QED
    BY <1>4, <1>5, <1>6, <2>1 DEF k, a
<1>7. CASE seen # NoMint
  <2>1. o = SetCollectionDuringMint(k, b)
    BY <1>1, <1>2, <1>3, <1>4, <1>7 DEF RunIf, Run, Execute
  <2>2. seen \in Mints
    BY <1>7
  <2>3. Sound(o) /\ Minted(o) = Minted(k) /\ o.clock = k.clock
    BY <1>2, <1>5, <2>1, <2>2, CollectSound
  <2>4. QED
    BY <1>4, <1>5, <1>7, <2>1, <2>3 DEF k, a, b
<1>8. QED
  BY <1>6, <1>7

LEMMA OutcomeSound ==
  ASSUME Inv, NEW t \in network, Outcome(t) # Refused
  PROVE  /\ Sound(Outcome(t)) /\ Outcome(t).clock = ledger.clock
         /\ Minted(Outcome(t))
              \subseteq Minted(ledger) \cup (IF t.op = "mint" THEN {t.aim.nft} ELSE {})
<1>1. Built(t) /\ Sound(ledger)
  BY DEF Inv
<1>2. CASE t.op = "mint"
  <2>1. /\ t.base \in Models /\ t.aim.nft \in Nfts /\ t.aim.seen \in Mints \cup {NoMint}
        /\ t.instructions = MintInstructions(t.base, Identity[t.client], t.aim.nft,
                                             t.aim.seen)
        /\ Identity[t.client] \in Keys
    BY <1>1, <1>2, ClientsAssumption DEF Built
  <2>2. t.aim.nft \notin Minted(ledger)
    BY <1>2 DEF Inv, FreshNfts
  <2> DEFINE o == Outcome(t)
             k == MintNft(ledger, TheMint(t.base, Identity[t.client], t.aim.nft))
  <2>3. o = After(ledger, MintInstructions(t.base, Identity[t.client], t.aim.nft,
                                           t.aim.seen))
    BY <2>1 DEF Outcome
  <2>4. /\ Sound(o) /\ Minted(o) \subseteq Minted(ledger) \cup {t.aim.nft}
        /\ o.clock = ledger.clock
    BY <1>1, <2>1, <2>2, <2>3, MintLands
  <2>5. QED
    BY <1>2, <2>4
<1>3. CASE t.op # "mint"
  <2>1. t.instructions \in Seq(Quiet)
    BY <1>1, <1>3 DEF Built
  <2>2. QED
    BY <1>1, <1>3, <2>1, QuietSound DEF Outcome
<1>4. QED
  BY <1>2, <1>3

LEMMA LandKeeps == ASSUME Inv, NEW t \in network, Land(t) PROVE Inv'
<1>1. network' = network \ {t} /\ model' = model /\ created' = created
  BY DEF Land
<1>2. /\ Sound(ledger') /\ ledger'.clock = ledger.clock
      /\ Minted(ledger')
           \subseteq Minted(ledger) \cup (IF t.op = "mint" THEN {t.aim.nft} ELSE {})
  BY OutcomeSound DEF Land, Inv
<1>3. \A u \in network' : Built(u) /\ Checked(u, ledger'.clock)
  BY <1>1, <1>2 DEF Inv
<1>4. \A u \in network' : u.op = "mint" => u.aim.nft \notin Minted(ledger')
  BY <1>1, <1>2 DEF Inv, FreshNfts
<1>5. FreshNfts'
  BY <1>1, <1>4 DEF Inv, FreshNfts
<1>6. CallsOK'
  <2> DEFINE k == Answered(t, Outcome(t))
  <2>1. Calling(k, t.client)
    BY DEF Answered, Calling, Idle, Done, CallSteps
  <2>2. call' = call \/ call' = [call EXCEPT ![t.client] = k]
    BY DEF Land
  <2> HIDE DEF k
  <2>3. QED
    BY <2>1, <2>2 DEF Inv, CallsOK
<1>7. (\A u \in network : Built(u) /\ Checked(u, ledger.clock))'
  BY <1>3 DEF Built, Checked
<1>8. QED
  BY <1>1, <1>2, <1>5, <1>6, <1>7 DEF Inv

\* A transaction may leave the network, or a call may end.
LEMMA EndKeeps ==
  ASSUME Inv, network' \subseteq network, ledger' = ledger, created' = created,
         model' \in [Clients -> Models \cup {NoModel}],
         NEW c, NEW k, k \in {Idle, Done},
         call' = call \/ call' = [call EXCEPT ![c] = k]
  PROVE  Inv'
<1>1. Calling(k, c)
  BY DEF Calling, Idle, Done, CallSteps
<1>2. CallsOK'
  BY <1>1 DEF Inv, CallsOK
<1>3. FreshNfts'
  BY DEF Inv, FreshNfts
<1>4. \A u \in network' : Built(u) /\ Checked(u, ledger'.clock)
  BY DEF Inv
<1>5. (\A u \in network : Built(u) /\ Checked(u, ledger.clock))'
  BY <1>4 DEF Built, Checked
<1>6. Sound(ledger)' /\ (created \in BOOLEAN)'
  BY DEF Inv
<1>7. QED
  BY <1>2, <1>3, <1>5, <1>6 DEF Inv

LEMMA FindKeeps ==
  ASSUME Inv, NEW c \in Clients, ledger.exists,
         model' = [model EXCEPT ![c] = ToCandyMachine(ledger)]
  PROVE  model' \in [Clients -> Models \cup {NoModel}]
<1>1. ToCandyMachine(ledger) \in Models
  BY FoundModel DEF Inv
<1>2. QED
  BY <1>1 DEF Inv

\* Time passes, and what was checked before stays checked.
LEMMA TickKeeps == ASSUME Inv, Tick PROVE Inv'
<1> DEFINE later == ledger.clock + 1
<1>1. /\ ledger' = [ledger EXCEPT !.clock = later] /\ ledger.clock < MaxNumber
      /\ created' = created /\ model' = model /\ network' = network /\ call' = call
  BY DEF Tick
<1>2. ledger \in LedgersOf(Nat) /\ later \in Numbers /\ ledger.clock <= later
      /\ ledger.clock \in Int
  BY <1>1, MaxNumberAssumption DEF Inv, Sound, LedgersOf, Numbers
<1> HIDE DEF later
<1>3. /\ ledger' \in LedgersOf(Nat) /\ ledger'.clock = later
      /\ ledger'.exists = ledger.exists /\ ledger'.authority = ledger.authority
      /\ ledger'.config = ledger.config /\ ledger'.lines = ledger.lines
      /\ ledger'.loaded = ledger.loaded /\ ledger'.redeemed = ledger.redeemed
      /\ ledger'.nfts = ledger.nfts
  BY <1>1, <1>2 DEF LedgersOf
<1>4. Sound(ledger')
  BY <1>3 DEF Inv, Sound, WrittenLines, Minted
<1>5. ASSUME NEW t \in network PROVE Checked(t, later)
  <2>1. Checked(t, ledger.clock)
    BY DEF Inv
  <2>2. \A now \in Numbers : now <= ledger.clock => now <= later
    BY <1>2, MaxNumberAssumption DEF Numbers
  <2>3. QED
    BY <2>1, <2>2 DEF Checked
<1>6. (\A t \in network : Built(t) /\ Checked(t, ledger.clock))'
  BY <1>1, <1>3, <1>5 DEF Inv, Built, Checked
<1>7. Minted(ledger') = Minted(ledger)
  BY <1>3 DEF Minted
<1>8. FreshNfts' /\ CallsOK'
  BY <1>1, <1>7 DEF Inv, FreshNfts, CallsOK
<1>9. QED
  BY <1>1, <1>4, <1>6, <1>8 DEF Inv

LEMMA NextInv == Inv /\ [Next]_vars => Inv'
<1> SUFFICES ASSUME Inv, [Next]_vars PROVE Inv'
  OBVIOUS
<1>0. model \in [Clients -> Models \cup {NoModel}]
  BY DEF Inv
<1>1. ASSUME NEW c \in Clients, Find(c) PROVE Inv'
  <2>1. /\ network' = network /\ ledger' = ledger /\ created' = created /\ call' = call
        /\ model' \in [Clients -> Models \cup {NoModel}]
    BY <1>1, FindKeeps DEF Find
  <2>2. QED
    BY <2>1, EndKeeps
<1>2. ASSUME NEW c \in Clients, GiveUp(c) \/ FetchMinted(c) PROVE Inv'
  <2>1. /\ network' = network /\ ledger' = ledger /\ created' = created /\ model' = model
        /\ \E k \in {Idle, Done} : call' = [call EXCEPT ![c] = k]
    BY <1>2 DEF GiveUp, FetchMinted
  <2>2. QED
    BY <1>0, <2>1, EndKeeps
<1>3. ASSUME NEW c \in Clients, FetchCreated(c) PROVE Inv'
  <2>1. /\ network' = network /\ ledger' = ledger /\ created' = created
        /\ model' \in [Clients -> Models \cup {NoModel}]
        /\ call' = [call EXCEPT ![c] = Done]
    BY <1>3, FindKeeps DEF FetchCreated
  <2>2. QED
    BY <2>1, EndKeeps
<1>4. ASSUME NEW t \in network, Expire(t) PROVE Inv'
  <2>1. /\ network' \subseteq network /\ ledger' = ledger /\ created' = created
        /\ model' = model
        /\ call' = call \/ call' = [call EXCEPT ![t.client] = Idle]
    BY <1>4 DEF Expire
  <2>2. QED
    BY <1>0, <2>1, EndKeeps
<1>5. CASE UNCHANGED vars
  <2>1. /\ network' = network /\ ledger' = ledger /\ created' = created
        /\ model' = model /\ call' = call
    BY <1>5 DEF vars
  <2>2. QED
    BY <1>0, <2>1, EndKeeps
<1>6. QED
  BY <1>1, <1>2, <1>3, <1>4, <1>5, LandKeeps, TickKeeps, CreateKeeps, InsertKeeps,
     UpdateKeeps, DeleteKeeps, MintKeeps DEF Next

(* The accounts are sound, what is in the network is what a builder made   *)
(* of a model that a client could hold, and no two mints under way are of  *)
(* the same NFT.                                                           *)
THEOREM Invariant == Spec => []Inv
BY InitInv, NextInv, PTL DEF Spec

\* The types hold, however many clients there are.
THEOREM TypeCorrect == Spec => []TypeOK
<1>1. ASSUME Inv PROVE TypeOK
  <2>1. ledger \in Ledgers
    <3>1. ledger \in LedgersOf(Nat) /\ ledger.redeemed = Cardinality(Minted(ledger))
      BY <1>1 DEF Inv, Sound
    <3>2. Cardinality(Minted(ledger)) \in 0 .. Cardinality(Nfts)
      BY <3>1, MintedFinite DEF LedgersOf
    <3>3. QED
      BY <3>1, <3>2 DEF Ledgers, LedgersOf
  <2>2. \A t \in network :
          /\ t.client \in Clients /\ t.op \in Operations
          /\ Len(t.instructions) \in 1 .. MaxInstructions
          /\ t.base \in Models \cup {NoModel}
    BY <1>1 DEF Inv, Built, SentOnce
  <2>3. QED
    BY <1>1, <2>1, <2>2 DEF Inv, CallsOK, Calling, TypeOK
<1>2. QED
  BY <1>1, Invariant, PTL

-----------------------------------------------------------------------------
(* An update from an up-to-date model.                                     *)

\* Accounts are told apart by their fields.
LEMMA SameLedger ==
  ASSUME NEW l \in LedgersOf(Nat), NEW k \in LedgersOf(Nat),
         l.exists = k.exists, l.authority = k.authority, l.config = k.config,
         l.hidden = k.hidden, l.redeemed = k.redeemed, l.lines = k.lines,
         l.loaded = k.loaded, l.collection = k.collection, l.nfts = k.nfts,
         l.clock = k.clock
  PROVE  l = k
BY DEF LedgersOf

\* The accounts l with three of their fields changed to these.
Changed(k, l, config, collection, authority) ==
  /\ k \in LedgersOf(Nat)
  /\ k.exists = l.exists /\ k.hidden = l.hidden /\ k.redeemed = l.redeemed
  /\ k.lines = l.lines /\ k.loaded = l.loaded /\ k.nfts = l.nfts /\ k.clock = l.clock
  /\ k.config = config /\ k.collection = collection /\ k.authority = authority

LEMMA UpdateLands ==
  ASSUME NEW l, Sound(l), l.exists, NEW m \in Models,
         m.config = l.config, m.collection = l.collection, NEW edit \in Edits,
         l.hidden \/ Wanted(m, edit).available = l.config.available,
         NEW newCollection \in Mints \cup {NoMint, Unchanged},
         NEW newAuthority \in Owners \cup {Unchanged},
         NEW signer \in Keys, signer = l.authority,
         NEW k, k = RunIf(RunIf(RunIf(RunIf(l,
                  Wanted(m, edit) # m.config,
                  UpdateInstruction(signer, Wanted(m, edit))),
                  ShouldUpdateCollection(m, newCollection),
                  SetCollectionInstruction(signer, newCollection)),
                  ShouldRemoveCollection(m, newCollection),
                  RemoveCollectionInstruction(signer, m.collection)),
                  ShouldUpdateAuthority(signer, newAuthority),
                  UpdateAuthorityInstruction(signer, newAuthority))
  PROVE  Changed(k, l, Wanted(m, edit), Asked(newCollection, l.collection),
                 Asked(newAuthority, l.authority))
<1> DEFINE w  == Wanted(m, edit)
           i1 == UpdateInstruction(signer, w)
           i2 == SetCollectionInstruction(signer, newCollection)
           i3 == RemoveCollectionInstruction(signer, m.collection)
           i4 == UpdateAuthorityInstruction(signer, newAuthority)
           k1 == RunIf(l, w # m.config, i1)
           k2 == RunIf(k1, ShouldUpdateCollection(m, newCollection), i2)
           k3 == RunIf(k2, ShouldRemoveCollection(m, newCollection), i3)
           nc == Asked(newCollection, l.collection)
           na == Asked(newAuthority, l.authority)
           mid == IF ShouldUpdateCollection(m, newCollection) THEN newCollection
                  ELSE l.collection
<1>1. w \in Configs /\ l.collection \in Mints \cup {NoMint} /\ l.authority \in Keys
  BY SettingsAssumption DEF Wanted, Models, Sound, LedgersOf
<1>2. l.hidden \/ w.available = l.config.available
  OBVIOUS
<1>3. k = RunIf(k3, ShouldUpdateAuthority(signer, newAuthority), i4)
  OBVIOUS
<1> HIDE DEF w
<1>4. /\ i1.type = "updateCandyMachine" /\ i1.authority = signer /\ i1.config = w
      /\ i2.type = "setCollection" /\ i2.authority = signer /\ i2.mint = newCollection
      /\ i3.type = "removeCollection" /\ i3.authority = signer
      /\ i3.mint = m.collection
      /\ i4.type = "updateAuthority" /\ i4.authority = signer
      /\ i4.newAuthority = newAuthority
  BY DEF UpdateInstruction, SetCollectionInstruction, RemoveCollectionInstruction,
         UpdateAuthorityInstruction
<1> HIDE DEF i1, i2, i3, i4
<1>5. Changed(k1, l, w, l.collection, l.authority)
  <2>1. l \in LedgersOf(Nat) /\ l # Refused
    BY SoundIsNotRefused DEF Sound
  <2>2. CASE w # m.config
    <3>1. k1 = [l EXCEPT !.config = w]
      <4>1. Execute(l, i1) = UpdateCandyMachine(l, i1)
        BY <1>4 DEF Execute
      <4>2. UpdateCandyMachine(l, i1) = [l EXCEPT !.config = w]
        BY <1>2, <1>4 DEF UpdateCandyMachine, Signed
      <4>3. QED
        BY <2>1, <2>2, <4>1, <4>2 DEF RunIf, Run
    <3> HIDE DEF k1
    <3>2. QED
      BY <1>1, <2>1, <3>1 DEF Changed, LedgersOf
  <2>3. CASE w = m.config
    <3>1. k1 = l
      BY <2>3 DEF RunIf
    <3>2. QED
      BY <2>1, <2>3, <3>1 DEF Changed
  <2>4. QED
    BY <2>2, <2>3
<1> HIDE DEF k1
<1>6. Changed(k2, l, w, mid, l.authority)
  <2>1. k1 \in LedgersOf(Nat) /\ k1 # Refused
    BY <1>5, RefusedAssumption DEF Changed
  <2>2. CASE ShouldUpdateCollection(m, newCollection)
    <3>1. newCollection \in Mints
      BY <2>2 DEF ShouldUpdateCollection
    <3>2. k2 = [k1 EXCEPT !.collection = newCollection]
      BY <1>4, <1>5, <2>1, <2>2 DEF RunIf, Run, Execute, SetCollection, Signed, Changed
    <3>3. mid = newCollection
      BY <2>2
    <3> HIDE DEF k2, mid
    <3>4. QED
      BY <1>5, <2>1, <3>1, <3>2, <3>3 DEF Changed, LedgersOf
  <2>3. CASE ~ShouldUpdateCollection(m, newCollection)
    <3>1. k2 = k1 /\ mid = l.collection
      BY <2>3 DEF RunIf
    <3> HIDE DEF k2, mid
    <3>2. QED
      BY <1>5, <3>1 DEF Changed
  <2>4. QED
    BY <2>2, <2>3
<1> HIDE DEF k2
<1>7. Changed(k3, l, w, nc, l.authority)
  <2>1. k2 \in LedgersOf(Nat) /\ k2 # Refused
    BY <1>6, RefusedAssumption DEF Changed
  <2>2. CASE ShouldRemoveCollection(m, newCollection)
    <3>1. newCollection = NoMint /\ m.collection # NoMint
      BY <2>2 DEF ShouldRemoveCollection
    <3>2. mid = l.collection
      BY <3>1 DEF ShouldUpdateCollection
    <3>3. k3 = [k2 EXCEPT !.collection = NoMint]
      <4>1. k2.exists /\ k2.authority = signer /\ k2.collection = m.collection
        BY <1>6, <3>2 DEF Changed
      <4>2. Execute(k2, i3) = RemoveCollection(k2, i3)
        BY <1>4 DEF Execute
      <4>3. RemoveCollection(k2, i3) = [k2 EXCEPT !.collection = NoMint]
        BY <1>4, <4>1 DEF RemoveCollection, Signed
      <4>4. QED
        BY <2>1, <2>2, <4>2, <4>3 DEF RunIf, Run
    <3>4. nc = NoMint
      BY <3>1, UnchangedAssumption DEF Asked
    <3> HIDE DEF k3, nc, mid
    <3>5. QED
      BY <1>6, <2>1, <3>3, <3>4 DEF Changed, LedgersOf
  <2>3. CASE ~ShouldRemoveCollection(m, newCollection)
    <3>1. k3 = k2
      BY <2>3 DEF RunIf
    <3>2. mid = nc
      BY <2>3, UnchangedAssumption
         DEF Asked, ShouldUpdateCollection, ShouldRemoveCollection
    <3> HIDE DEF k3, nc, mid
    <3>3. QED
      BY <1>6, <3>1, <3>2
  <2>4. QED
    BY <2>2, <2>3
<1> HIDE DEF k3
<1>8. Changed(k, l, w, nc, na)
  <2>1. k3 \in LedgersOf(Nat) /\ k3 # Refused
    BY <1>7, RefusedAssumption DEF Changed
  <2>2. CASE ShouldUpdateAuthority(signer, newAuthority)
    <3>1. newAuthority \in Keys /\ na = newAuthority
      BY <2>2, ClientsAssumption DEF ShouldUpdateAuthority, Asked
    <3>2. k = [k3 EXCEPT !.authority = newAuthority]
      BY <1>3, <1>4, <1>7, <2>1, <2>2
         DEF RunIf, Run, Execute, UpdateAuthority, Signed, Changed
    <3> HIDE DEF na, nc
    <3>3. QED
      BY <1>7, <2>1, <3>1, <3>2 DEF Changed, LedgersOf
  <2>3. CASE ~ShouldUpdateAuthority(signer, newAuthority)
    <3>1. k = k3
      BY <1>3, <2>3 DEF RunIf
    <3>2. na = l.authority
      BY <2>3 DEF ShouldUpdateAuthority, Asked
    <3> HIDE DEF na, nc
    <3>3. QED
      BY <1>7, <3>1, <3>2
  <2>4. QED
    BY <2>2, <2>3
<1>9. QED
  BY <1>8 DEF w

\* Whatever the model, an update that is accepted was signed by the authority, and
\* leaves everything but settings, collection and authority alone.
SetCollectionOf(l, m, newCollection) ==
  IF ShouldUpdateCollection(m, newCollection) THEN newCollection
  ELSE IF ShouldRemoveCollection(m, newCollection) THEN NoMint ELSE l.collection

LEMMA StaleUpdateLands ==
  ASSUME NEW l, Sound(l), NEW m \in Models, NEW edit \in Edits,
         NEW newCollection \in Mints \cup {NoMint, Unchanged},
         NEW newAuthority \in Owners \cup {Unchanged}, NEW signer \in Keys,
         \/ Wanted(m, edit) # m.config
         \/ ShouldUpdateCollection(m, newCollection)
         \/ ShouldRemoveCollection(m, newCollection)
         \/ ShouldUpdateAuthority(signer, newAuthority),
         NEW k, k = RunIf(RunIf(RunIf(RunIf(l,
                  Wanted(m, edit) # m.config,
                  UpdateInstruction(signer, Wanted(m, edit))),
                  ShouldUpdateCollection(m, newCollection),
                  SetCollectionInstruction(signer, newCollection)),
                  ShouldRemoveCollection(m, newCollection),
                  RemoveCollectionInstruction(signer, m.collection)),
                  ShouldUpdateAuthority(signer, newAuthority),
                  UpdateAuthorityInstruction(signer, newAuthority)),
         k # Refused
  PROVE  Changed(k, l, IF Wanted(m, edit) # m.config THEN Wanted(m, edit) ELSE l.config,
                 SetCollectionOf(l, m, newCollection), Asked(newAuthority, l.authority))
<1> DEFINE w  == Wanted(m, edit)
           i1 == UpdateInstruction(signer, w)
           i2 == SetCollectionInstruction(signer, newCollection)
           i3 == RemoveCollectionInstruction(signer, m.collection)
           i4 == UpdateAuthorityInstruction(signer, newAuthority)
           d1 == w # m.config
           d2 == ShouldUpdateCollection(m, newCollection)
           d3 == ShouldRemoveCollection(m, newCollection)
           d4 == ShouldUpdateAuthority(signer, newAuthority)
           k1 == RunIf(l, d1, i1)
           k2 == RunIf(k1, d2, i2)
           k3 == RunIf(k2, d3, i3)
           config == IF d1 THEN w ELSE l.config
           mid == IF d2 THEN newCollection ELSE l.collection
           nc == SetCollectionOf(l, m, newCollection)
           na == Asked(newAuthority, l.authority)
<1>1. w \in Configs
  BY SettingsAssumption DEF Wanted, Models
<1>2. k = RunIf(k3, d4, i4)
  OBVIOUS
<1>3. nc = IF d3 THEN NoMint ELSE mid
  BY DEF SetCollectionOf, ShouldUpdateCollection, ShouldRemoveCollection
<1>4. d2 => newCollection \in Mints
  BY DEF ShouldUpdateCollection
<1>5. d4 => newAuthority \in Keys /\ na = newAuthority
  BY ClientsAssumption DEF ShouldUpdateAuthority, Asked
<1>6. ~d4 /\ signer = l.authority => na = l.authority
  BY DEF ShouldUpdateAuthority, Asked
<1>7. d1 \/ d2 \/ d3 \/ d4
  OBVIOUS
<1>8. /\ i1.type = "updateCandyMachine" /\ i1.authority = signer /\ i1.config = w
      /\ i2.type = "setCollection" /\ i2.authority = signer /\ i2.mint = newCollection
      /\ i3.type = "removeCollection" /\ i3.authority = signer
      /\ i4.type = "updateAuthority" /\ i4.authority = signer
      /\ i4.newAuthority = newAuthority
  BY DEF UpdateInstruction, SetCollectionInstruction, RemoveCollectionInstruction,
         UpdateAuthorityInstruction
<1> HIDE DEF w, i1, i2, i3, i4, d1, d2, d3, d4, nc, na
<1>9. l \in LedgersOf(Nat) /\ l # Refused
  BY SoundIsNotRefused DEF Sound
<1>10. ASSUME k1 # Refused
       PROVE  Changed(k1, l, config, l.collection, l.authority)
              /\ (d1 => signer = l.authority)
  <2>1. CASE d1
    <3>0. Execute(l, i1) = UpdateCandyMachine(l, i1)
      BY <1>8 DEF Execute
    <3>1. k1 = UpdateCandyMachine(l, i1)
      BY <1>9, <2>1, <3>0 DEF RunIf, Run
    <3>2. k1 = [l EXCEPT !.config = w] /\ signer = l.authority
      BY <1>8, <1>10, <3>1 DEF UpdateCandyMachine, Signed
    <3> HIDE DEF k1
    <3>3. QED
      BY <1>1, <1>9, <2>1, <3>2 DEF Changed, LedgersOf
  <2>2. CASE ~d1
    BY <1>9, <2>2 DEF RunIf, Changed
  <2>3. QED
    BY <2>1, <2>2
<1> HIDE DEF k1, config
<1>11. ASSUME k2 # Refused
       PROVE  Changed(k2, l, config, mid, l.authority)
              /\ (d1 \/ d2 => signer = l.authority)
  <2>1. k1 # Refused
    BY <1>11 DEF RunIf, Run
  <2>2. k1 \in LedgersOf(Nat) /\ Changed(k1, l, config, l.collection, l.authority)
        /\ (d1 => signer = l.authority)
    BY <1>10, <2>1 DEF Changed
  <2>3. CASE d2
    <3>0. Execute(k1, i2) = SetCollection(k1, i2)
      BY <1>8 DEF Execute
    <3>1. k2 = SetCollection(k1, i2)
      BY <2>1, <2>3, <3>0 DEF RunIf, Run
    <3>2. k2 = [k1 EXCEPT !.collection = newCollection] /\ signer = k1.authority
      BY <1>8, <1>11, <3>1 DEF SetCollection, Signed
    <3> HIDE DEF k2
    <3>3. QED
      BY <1>4, <2>2, <2>3, <3>2 DEF Changed, LedgersOf
  <2>4. CASE ~d2
    BY <2>2, <2>4 DEF RunIf, Changed
  <2>5. QED
    BY <2>3, <2>4
<1> HIDE DEF k2, mid
<1>12. ASSUME k3 # Refused
       PROVE  Changed(k3, l, config, nc, l.authority)
              /\ (d1 \/ d2 \/ d3 => signer = l.authority)
  <2>1. k2 # Refused
    BY <1>12 DEF RunIf, Run
  <2>2. k2 \in LedgersOf(Nat) /\ Changed(k2, l, config, mid, l.authority)
        /\ (d1 \/ d2 => signer = l.authority)
    BY <1>11, <2>1 DEF Changed
  <2>3. CASE d3
    <3>0. Execute(k2, i3) = RemoveCollection(k2, i3)
      BY <1>8 DEF Execute
    <3>1. k3 = RemoveCollection(k2, i3)
      BY <2>1, <2>3, <3>0 DEF RunIf, Run
    <3>2. k3 = [k2 EXCEPT !.collection = NoMint] /\ signer = k2.authority
      BY <1>8, <1>12, <3>1 DEF RemoveCollection, Signed
    <3> HIDE DEF k3
    <3>3. QED
      BY <1>3, <2>2, <2>3, <3>2 DEF Changed, LedgersOf
  <2>4. CASE ~d3
    BY <1>3, <2>2, <2>4 DEF RunIf, Changed
  <2>5. QED
    BY <2>3, <2>4
<1> HIDE DEF k3
<1>13. Changed(k, l, config, nc, na)
  <2>1. k3 # Refused
    BY <1>2 DEF RunIf, Run
  <2>2. k3 \in LedgersOf(Nat) /\ Changed(k3, l, config, nc, l.authority)
        /\ (d1 \/ d2 \/ d3 => signer = l.authority)
    BY <1>12, <2>1 DEF Changed
  <2>3. CASE d4
    <3>0. Execute(k3, i4) = UpdateAuthority(k3, i4)
      BY <1>8 DEF Execute
    <3>1. k = UpdateAuthority(k3, i4)
      BY <1>2, <2>1, <2>3, <3>0 DEF RunIf, Run
    <3>2. k = [k3 EXCEPT !.authority = newAuthority]
      BY <1>8, <3>1 DEF UpdateAuthority
    <3>3. QED
      BY <1>5, <2>2, <2>3, <3>2 DEF Changed, LedgersOf
  <2>4. CASE ~d4
    BY <1>2, <1>6, <1>7, <2>2, <2>4 DEF RunIf, Changed
  <2>5. QED
    BY <2>3, <2>4
<1>14. QED
  BY <1>13 DEF config, d1, w, nc, na

LEMMA FreshUpdate ==
  ASSUME Inv, NEW t \in network, t.op = "update", UpToDate(t.base),
         Identity[t.client] = ledger.authority, KeepsRoom(t.aim.edit)
  PROVE  Outcome(t) = Intended(t.aim)
<1> DEFINE m == t.base
           k == Identity[t.client]
           e == t.aim.edit
           nc == t.aim.collection
           na == t.aim.authority
           o == Outcome(t)
           i == Intended(t.aim)
<1>1. /\ m \in Models /\ e \in Edits /\ nc \in Mints \cup {NoMint, Unchanged}
      /\ na \in Owners \cup {Unchanged} /\ k \in Keys
      /\ UpdateInstructions(m, k, e, nc, na) # <<>>
      /\ t.instructions = UpdateInstructions(m, k, e, nc, na)
  BY ClientsAssumption DEF Inv, Built
<1>2. /\ Sound(ledger) /\ ledger.exists /\ m.config = ledger.config
      /\ m.collection = ledger.collection /\ k = ledger.authority
  BY DEF Inv, UpToDate
<1>3. ledger.hidden \/ Wanted(m, e).available = ledger.config.available
  BY <1>2 DEF KeepsRoom, Wanted
<1>4. o = After(ledger, UpdateInstructions(m, k, e, nc, na))
  BY <1>1 DEF Outcome
<1>5. i = [ledger EXCEPT !.config = Wanted(m, e),
                         !.collection = Asked(nc, ledger.collection),
                         !.authority = Asked(na, ledger.authority)]
  BY <1>2 DEF Intended, Wanted
<1> HIDE DEF m, k, e, nc, na, o, i
<1>6. Changed(o, ledger, Wanted(m, e), Asked(nc, ledger.collection),
              Asked(na, ledger.authority))
  <2>1. o = RunIf(RunIf(RunIf(RunIf(ledger,
                Wanted(m, e) # m.config, UpdateInstruction(k, Wanted(m, e))),
                ShouldUpdateCollection(m, nc), SetCollectionInstruction(k, nc)),
                ShouldRemoveCollection(m, nc),
                RemoveCollectionInstruction(k, m.collection)),
                ShouldUpdateAuthority(k, na), UpdateAuthorityInstruction(k, na))
    BY <1>1, <1>4, UpdateShape
  <2>2. QED
    BY <1>1, <1>2, <1>3, <2>1, UpdateLands
<1>7. Changed(i, ledger, Wanted(m, e), Asked(nc, ledger.collection),
              Asked(na, ledger.authority))
  <2> DEFINE w == Wanted(m, e)
             c == Asked(nc, ledger.collection)
             a == Asked(na, ledger.authority)
  <2>1. w \in Configs
    BY <1>1, SettingsAssumption DEF Wanted, Models
  <2>2. ledger \in LedgersOf(Nat)
    BY <1>2 DEF Sound
  <2>3. c \in Mints \cup {NoMint} /\ a \in Keys \cup {NoKey}
    <3>1. ledger.collection \in Mints \cup {NoMint} /\ ledger.authority \in Keys \cup {NoKey}
      BY <2>2 DEF LedgersOf
    <3>2. QED
      BY <1>1, <3>1, ClientsAssumption DEF Asked
  <2>4. i = [ledger EXCEPT !.config = w, !.collection = c, !.authority = a]
    BY <1>5
  <2> HIDE DEF w, c, a
  <2>5. QED
    BY <2>1, <2>2, <2>3, <2>4 DEF Changed, LedgersOf, w, c, a
<1>8. o = i
  BY <1>6, <1>7, SameLedger DEF Changed
<1>9. QED
  BY <1>8 DEF o, i

LEMMA StaleUpdate ==
  ASSUME Inv, NEW t \in network, t.op = "update", Outcome(t) # Refused
  PROVE  RevertsAtMost(t)
<1> DEFINE m == t.base
           k == Identity[t.client]
           e == t.aim.edit
           nc == t.aim.collection
           na == t.aim.authority
           o == Outcome(t)
           i == Intended(t.aim)
           wi == Merged(ledger.config, e)
           ci == Asked(nc, ledger.collection)
           ai == Asked(na, ledger.authority)
<1>1. /\ m \in Models /\ e \in Edits /\ nc \in Mints \cup {NoMint, Unchanged}
      /\ na \in Owners \cup {Unchanged} /\ k \in Keys
      /\ UpdateInstructions(m, k, e, nc, na) # <<>>
      /\ t.instructions = UpdateInstructions(m, k, e, nc, na)
  BY ClientsAssumption DEF Inv, Built
<1>2. Sound(ledger) /\ ledger \in LedgersOf(Nat)
  BY DEF Inv, Sound
<1>3. o = After(ledger, UpdateInstructions(m, k, e, nc, na)) /\ o # Refused
  BY <1>1 DEF Outcome
<1>4. i = [ledger EXCEPT !.config = wi, !.collection = ci, !.authority = ai]
  BY DEF Intended
<1>5. \/ Wanted(m, e) # m.config
      \/ ShouldUpdateCollection(m, nc)
      \/ ShouldRemoveCollection(m, nc)
      \/ ShouldUpdateAuthority(k, na)
  <2> HIDE DEF m, k, e, nc, na
  <2>1. SUFFICES ASSUME Wanted(m, e) = m.config, ~ShouldUpdateCollection(m, nc),
                        ~ShouldRemoveCollection(m, nc), ~ShouldUpdateAuthority(k, na)
                 PROVE  UpdateInstructions(m, k, e, nc, na) = <<>>
    BY <1>1
  <2>2. QED
    BY <2>1 DEF UpdateInstructions, When, Wanted
<1> HIDE DEF m, k, e, nc, na, o, i, wi, ci, ai
<1> DEFINE w == IF Wanted(m, e) # m.config THEN Wanted(m, e) ELSE ledger.config
           c == SetCollectionOf(ledger, m, nc)
           a == Asked(na, ledger.authority)
<1>6. Changed(o, ledger, w, c, a)
  <2>1. o = RunIf(RunIf(RunIf(RunIf(ledger,
                Wanted(m, e) # m.config, UpdateInstruction(k, Wanted(m, e))),
                ShouldUpdateCollection(m, nc), SetCollectionInstruction(k, nc)),
                ShouldRemoveCollection(m, nc),
                RemoveCollectionInstruction(k, m.collection)),
                ShouldUpdateAuthority(k, na), UpdateAuthorityInstruction(k, na))
    BY <1>1, <1>3, UpdateShape
  <2>2. QED
    BY <1>1, <1>2, <1>3, <1>5, <2>1, StaleUpdateLands
<1>7. w \in {Merged(m.config, e), ledger.config}
  BY DEF Wanted
<1>8. c \in {ci, ledger.collection}
  BY <1>1, UnchangedAssumption
     DEF SetCollectionOf, ShouldUpdateCollection, ShouldRemoveCollection, Asked, ci
<1>9. a = ai
  BY DEF ai
<1> HIDE DEF w, c, a
<1>10. /\ o \in LedgersOf(Nat) /\ o.config = w /\ o.collection = c /\ o.authority = a
       /\ o.exists = ledger.exists /\ o.hidden = ledger.hidden
       /\ o.redeemed = ledger.redeemed /\ o.lines = ledger.lines
       /\ o.loaded = ledger.loaded /\ o.nfts = ledger.nfts /\ o.clock = ledger.clock
  BY <1>6 DEF Changed
<1>11. i.collection = ci
  BY <1>2, <1>4 DEF LedgersOf
<1>12. o = [i EXCEPT !.config = o.config, !.collection = o.collection]
  <2> DEFINE r == [ledger EXCEPT !.config = w, !.collection = c, !.authority = a]
  <2>1. [i EXCEPT !.config = w, !.collection = c] = r
    BY <1>2, <1>4, <1>9 DEF LedgersOf
  <2>2. /\ r \in LedgersOf(Nat) /\ r.config = w /\ r.collection = c /\ r.authority = a
        /\ r.exists = ledger.exists /\ r.hidden = ledger.hidden
        /\ r.redeemed = ledger.redeemed /\ r.lines = ledger.lines
        /\ r.loaded = ledger.loaded /\ r.nfts = ledger.nfts /\ r.clock = ledger.clock
    <3>1. /\ w \in Configs \cup {NoConfig} /\ c \in Mints \cup {NoMint}
          /\ a \in Keys \cup {NoKey}
      BY <1>10 DEF LedgersOf
    <3>2. QED
      BY <1>2, <3>1 DEF LedgersOf
  <2> HIDE DEF r
  <2>3. o = r
    BY <1>10, <2>2, SameLedger
  <2>4. QED
    BY <1>10, <2>1, <2>3
<1>13. QED
  BY <1>7, <1>8, <1>10, <1>11, <1>12 DEF RevertsAtMost, m, e, o, i

(* An update by the authority from an up-to-date model is accepted and     *)
(* does all that was asked and nothing else, with any number of settings,  *)
(* collections and keys; from any model, one that is accepted puts back    *)
(* settings at most.                                                       *)
THEOREM UpdatesAreExact == Spec => []UpdateIsExact
<1>1. Inv => UpdateIsExact
  BY FreshUpdate, StaleUpdate DEF UpdateIsExact
<1>2. QED
  BY <1>1, Invariant, PTL

(* A delete by the authority is accepted, and closes both accounts unless   *)
(* a collection was set since its model was read.                          *)
THEOREM DeletesLeaveNothing == Spec => []DeleteLeavesNothing
<1>1. ASSUME Inv PROVE DeleteLeavesNothing
  <2> SUFFICES ASSUME NEW t \in network, t.op = "delete", ledger.exists,
                      Identity[t.client] = ledger.authority
               PROVE  /\ Outcome(t) # Refused /\ ~Outcome(t).exists
                      /\ Outcome(t).collection # NoMint
                           => ledger.collection # NoMint /\ t.base.collection = NoMint
    BY DEF DeleteLeavesNothing
  <2> DEFINE k == Identity[t.client]
             closes == t.base.collection # NoMint
             a == [type |-> "withdrawFunds", authority |-> k, closesCollection |-> closes]
             o == Outcome(t)
             c == IF closes THEN NoMint ELSE ledger.collection
  <2>1. t.instructions = DeleteInstructions(t.base, k) /\ k \in Keys
    BY <1>1, ClientsAssumption DEF Inv, Built
  <2>2. ledger \in LedgersOf(Nat) /\ ledger # Refused /\ ledger.exists
        /\ k = ledger.authority
    BY <1>1, SoundIsNotRefused DEF Inv, Sound
  <2>3. o = Run(ledger, a)
    BY <2>1, DeleteShape DEF Outcome
  <2>4. a.type = "withdrawFunds" /\ a.authority = k /\ a.closesCollection = closes
    OBVIOUS
  <2> HIDE DEF k, closes, a, o
  <2>5. o = [ledger EXCEPT !.exists = FALSE, !.collection = c]
    BY <2>2, <2>3, <2>4 DEF Run, Execute, WithdrawFunds, Signed
  <2>6. c \in Mints \cup {NoMint}
    BY <2>2 DEF LedgersOf
  <2>7. c # NoMint => ledger.collection # NoMint /\ t.base.collection = NoMint
    BY DEF closes
  <2> HIDE DEF c
  <2>8. o \in LedgersOf(Nat) /\ ~o.exists /\ o.collection = c
    BY <2>2, <2>5, <2>6 DEF LedgersOf
  <2>9. QED
    BY <2>7, <2>8, RefusedAssumption DEF o
<1>2. QED
  BY <1>1, Invariant, PTL

-----------------------------------------------------------------------------
(* What minters get.                                                       *)

\* A mint in the network, with what it was built from.
LEMMA MintInNetwork ==
  ASSUME Inv, NEW t \in Sent("mint")
  PROVE  LET k == MintNft(ledger, TheMint(t.base, Identity[t.client], t.aim.nft))
             o == Outcome(t)
         IN  /\ Sound(ledger) /\ Sound(k) /\ Sound(o) /\ k # Refused /\ o # Refused
             /\ t.aim.nft \notin Minted(ledger)
             /\ Checked(t, ledger.clock)
             /\ IF t.aim.seen = NoMint THEN o = k
                ELSE o = SetCollectionDuringMint(k,
                           TheCollection(t.base, t.aim.seen, t.aim.nft))
<1>1. t \in network /\ t.op = "mint" /\ Outcome(t) # Refused
  BY DEF Sent
<1>2. /\ t.base \in Models /\ t.aim.nft \in Nfts /\ t.aim.seen \in Mints \cup {NoMint}
      /\ t.instructions = MintInstructions(t.base, Identity[t.client], t.aim.nft,
                                           t.aim.seen)
      /\ Checked(t, ledger.clock)
      /\ Identity[t.client] \in Keys
  BY <1>1, ClientsAssumption DEF Inv, Built
<1>3. t.aim.nft \notin Minted(ledger) /\ Sound(ledger)
  BY <1>1 DEF Inv, FreshNfts
<1>4. Outcome(t) = After(ledger, MintInstructions(t.base, Identity[t.client], t.aim.nft,
                                                  t.aim.seen))
  BY <1>2 DEF Outcome
<1>5. QED
  BY <1>1, <1>2, <1>3, <1>4, MintLands

(* An NFT minted while the collection is still the one that was read       *)
(* belongs to that collection.                                             *)
THEOREM MintsCarryCollection == Spec => []MintCarriesCollection
<1>1. ASSUME Inv PROVE MintCarriesCollection
  <2> SUFFICES ASSUME NEW t \in Sent("mint"), t.aim.seen = ledger.collection,
                      NEW n \in Outcome(t).nfts, n.mint = t.aim.nft
               PROVE  n.collection = ledger.collection
    BY DEF MintCarriesCollection
  <2> DEFINE a == TheMint(t.base, Identity[t.client], t.aim.nft)
             b == TheCollection(t.base, t.aim.seen, t.aim.nft)
             k == MintNft(ledger, a)
             o == Outcome(t)
             fresh == [mint |-> t.aim.nft, collection |-> NoMint]
  <2>1. /\ Sound(ledger) /\ k # Refused /\ o # Refused /\ t.aim.nft \notin Minted(ledger)
        /\ IF t.aim.seen = NoMint THEN o = k ELSE o = SetCollectionDuringMint(k, b)
        /\ Sound(k) /\ Sound(o)
    BY <1>1, MintInNetwork
  <2>2. a.nft = t.aim.nft /\ b.nft = t.aim.nft /\ b.mint = t.aim.seen
    BY DEF TheMint, TheCollection
  <2>3. fresh.mint = t.aim.nft /\ fresh.collection = NoMint
    OBVIOUS
  <2> HIDE DEF a, b, fresh
  <2>4. \/ k = ledger
        \/ k = [ledger EXCEPT !.redeemed = @ + 1, !.nfts = @ \cup {fresh}]
    BY <2>1, <2>2 DEF MintNft, k, fresh
  <2>5. k.collection = ledger.collection /\ k.nfts \subseteq ledger.nfts \cup {fresh}
    <3> HIDE DEF k
    <3>1. QED
      BY <2>1, <2>4 DEF Sound, LedgersOf
  <2>6. \A x \in ledger.nfts : x.mint # t.aim.nft
    BY <2>1 DEF Minted
  <2>7. CASE t.aim.seen = NoMint
    BY <2>1, <2>3, <2>5, <2>6, <2>7
  <2>8. CASE t.aim.seen # NoMint
    <3> HIDE DEF k, o
    <3>1. o = [k EXCEPT !.nfts =
                 {IF x.mint = b.nft /\ b.mint = k.collection
                  THEN [x EXCEPT !.collection = b.mint] ELSE x : x \in @}]
      BY <2>1, <2>8 DEF SetCollectionDuringMint
    <3> DEFINE New(x) == IF x.mint = b.nft /\ b.mint = k.collection
                         THEN [x EXCEPT !.collection = b.mint] ELSE x
               nfts == {New(x) : x \in k.nfts}
    <3>2. o = [k EXCEPT !.nfts = nfts]
      BY <3>1
    <3>3. k \in LedgersOf(Nat)
      BY <2>1 DEF Sound
    <3>4. \A x \in k.nfts : x \in [mint : Nfts, collection : Mints \cup {NoMint}]
      BY <3>3 DEF LedgersOf
    <3>5. \A x \in k.nfts :
            /\ New(x).mint = x.mint
            /\ x.mint = t.aim.nft => New(x).collection = ledger.collection
      BY <2>2, <2>5, <3>4
    <3> HIDE DEF New
    <3>6. o.nfts = nfts
      <4> HIDE DEF nfts
      <4>1. QED
        BY <3>2, <3>3 DEF LedgersOf
    <3>7. QED
      BY <3>5, <3>6 DEF o
  <2>9. QED
    BY <2>7, <2>8
<1>2. QED
  BY <1>1, Invariant, PTL

(* A client whose model is current, minting from a fully loaded machine    *)
(* that has no whitelist but one with his token, and whose sale did not    *)
(* end meanwhile, is not charged the bot tax.                              *)
THEOREM CurrentMintsAreNotTaxed == Spec => []CurrentMintIsNotTaxed
<1>1. ASSUME Inv PROVE CurrentMintIsNotTaxed
  <2> SUFFICES ASSUME NEW t \in Sent("mint"), t.base = ToCandyMachine(ledger),
                      ledger.hidden \/ ledger.loaded = ledger.config.available,
                      ledger.redeemed <= ledger.config.available,
                      ledger.config.whitelist # "none" => Identity[t.client] \in Holders,
                      ledger.config.end.type = "date"
                        => ledger.clock <= ledger.config.end.number
               PROVE  Outcome(t).redeemed = ledger.redeemed + 1
    BY DEF CurrentMintIsNotTaxed
  <2> DEFINE payer == Identity[t.client]
             a == TheMint(t.base, payer, t.aim.nft)
             b == TheCollection(t.base, t.aim.seen, t.aim.nft)
             k == MintNft(ledger, a)
             o == Outcome(t)
             fresh == [mint |-> a.nft, collection |-> NoMint]
             n == ledger.redeemed + 1
             nfts == ledger.nfts \cup {fresh}
  <2>1. /\ Sound(ledger) /\ k # Refused /\ o # Refused
        /\ IF t.aim.seen = NoMint THEN o = k ELSE o = SetCollectionDuringMint(k, b)
        /\ Sound(k) /\ Sound(o) /\ Checked(t, ledger.clock)
    BY <1>1, MintInNetwork
  <2>2. a.payer = payer
    BY DEF TheMint
  <2>3. ledger.exists /\ a.wallet = ledger.config.wallet
    BY <2>1 DEF MintNft
  <2>4. ledger.config.available \in Nat /\ ledger.redeemed \in Nat
    BY <2>1, <2>3, CapacityAssumption DEF Sound, LedgersOf, Configs
  <2> DEFINE config == ledger.config
             m == t.base
  <2>n. /\ config \in Configs /\ ledger.clock \in Nat
        /\ config.whitelist \in {"none", "presale", "forced"}
        /\ config.goLive = NoDate \/ config.goLive \in Nat
        /\ config.end.type \in {"never", "amount", "date"} /\ config.end.number \in Nat
    <3>1. config \in Configs /\ ledger.clock \in Numbers
      BY <2>1, <2>3 DEF Sound, LedgersOf
    <3>2. Numbers \subseteq Nat
      BY MaxNumberAssumption DEF Numbers
    <3> HIDE DEF config
    <3>3. QED
      BY <3>1, <3>2 DEF Configs
  <2>o. m.config = config /\ m.minted = ledger.redeemed /\ m.authority = ledger.authority
    BY DEF ToCandyMachine
  <2>p. PICK now \in Numbers : now <= ledger.clock /\ CanMint(m, payer, now)
    BY <2>1 DEF Checked, Sent
  <2>q. now \in Nat
    BY MaxNumberAssumption DEF Numbers
  <2>5. /\ config.available - ledger.redeemed # 0
        /\ payer = ledger.authority \/ (Started(ledger, payer) /\ ~Ended(ledger))
    <3> HIDE DEF payer, m
    <3>1. NotEmpty(m) /\ (payer = m.authority \/ (IsLive(m, now) /\ HasNotEnded(m, now)))
      BY <2>p DEF CanMint
    <3>2. config.available - ledger.redeemed # 0
      BY <2>o, <3>1 DEF NotEmpty
    <3>3. IsLive(m, now) => Started(ledger, payer)
      <4>1. config.whitelist = "presale" => payer \in Holders
        BY DEF payer
      <4> HIDE DEF config
      <4>2. IsLive(m, now) =>
              \/ config.whitelist = "presale"
              \/ config.goLive # NoDate /\ config.goLive <= ledger.clock
        BY <2>n, <2>o, <2>p, <2>q DEF IsLive
      <4>3. QED
        BY <4>1, <4>2 DEF Started, config
    <3>4. HasNotEnded(m, now) => ~Ended(ledger)
      BY <2>n, <2>o, <2>4 DEF HasNotEnded, Ended
    <3>5. QED
      BY <2>o, <3>1, <3>2, <3>3, <3>4
  <2>6. Mintable(ledger, a.payer)
    BY <2>2, <2>4, <2>5 DEF Mintable
  <2>7. k = [ledger EXCEPT !.redeemed = n, !.nfts = nfts]
    BY <2>3, <2>6 DEF MintNft
  <2>8. k.redeemed = n
    <3> HIDE DEF n, nfts, k
    <3>1. QED
      BY <2>1, <2>7 DEF Sound, LedgersOf
  <2> HIDE DEF k, a, b, o
  <2>9. o.redeemed = k.redeemed
    <3>1. \/ o = k
          \/ \E S : o = [k EXCEPT !.nfts = S]
      BY <2>1 DEF SetCollectionDuringMint
    <3>2. k \in LedgersOf(Nat)
      BY <2>1 DEF Sound
    <3>3. QED
      BY <3>1, <3>2 DEF LedgersOf
  <2>10. QED
    BY <2>8, <2>9 DEF o
<1>2. QED
  BY <1>1, Invariant, PTL

(* A mint is refused only for what changed since its model was read, or    *)
(* since it read the collection.                                           *)
THEOREM MintsAreOnlyRefusedIfRaced == Spec => []MintIsOnlyRefusedIfRaced
<1>1. ASSUME Inv PROVE MintIsOnlyRefusedIfRaced
  <2> SUFFICES ASSUME NEW t \in network, t.op = "mint", ledger.exists,
                      t.base.config.wallet = ledger.config.wallet,
                      t.aim.seen = NoMint \/ (/\ t.base.authority = ledger.authority
                                              /\ ledger.collection # NoMint)
               PROVE  Outcome(t) # Refused
    BY DEF MintIsOnlyRefusedIfRaced
  <2> DEFINE payer == Identity[t.client]
             a == TheMint(t.base, payer, t.aim.nft)
             b == TheCollection(t.base, t.aim.seen, t.aim.nft)
             k == MintNft(ledger, a)
             o == Outcome(t)
  <2>1. /\ t.base \in Models /\ t.aim.nft \in Nfts /\ t.aim.seen \in Mints \cup {NoMint}
        /\ t.instructions = MintInstructions(t.base, payer, t.aim.nft, t.aim.seen)
        /\ payer \in Keys
    BY <1>1, ClientsAssumption DEF Inv, Built
  <2>2. Sound(ledger) /\ ledger # Refused /\ t.aim.nft \notin Minted(ledger)
    BY <1>1, SoundIsNotRefused DEF Inv, FreshNfts
  <2>3. o = RunIf(Run(ledger, a), t.aim.seen # NoMint, b)
    BY <2>1, MintShape DEF Outcome
  <2>4. /\ a.type = "mintNft" /\ a.wallet = ledger.config.wallet /\ a.nft = t.aim.nft
        /\ b.type = "setCollectionDuringMint" /\ b.mint = t.aim.seen
        /\ b.authority = t.base.authority
    BY DEF TheMint, TheCollection
  <2> HIDE DEF a, b, o, payer
  <2> DEFINE n == ledger.redeemed + 1
             nfts == ledger.nfts \cup {[mint |-> a.nft, collection |-> NoMint]}
  <2>5. k = ledger \/ k = [ledger EXCEPT !.redeemed = n, !.nfts = nfts]
    BY <2>4 DEF MintNft
  <2>6. Run(ledger, a) = k
    BY <2>2, <2>4 DEF Run, Execute
  <2> HIDE DEF k, n, nfts
  <2>7. /\ k.exists /\ k.authority = ledger.authority
        /\ k.collection = ledger.collection
    BY <2>2, <2>5 DEF Sound, LedgersOf
  <2>8. k # Refused
    <3>1. n \in Nat /\ nfts \subseteq [mint : Nfts, collection : Mints \cup {NoMint}]
      BY <2>1, <2>2, <2>4 DEF n, nfts, Sound, LedgersOf
    <3>2. k \in LedgersOf(Nat)
      BY <2>2, <2>5, <3>1 DEF Sound, LedgersOf
    <3>3. QED
      BY <3>2, RefusedAssumption
  <2>9. CASE t.aim.seen = NoMint
    BY <2>3, <2>6, <2>8, <2>9 DEF RunIf, o
  <2>10. CASE t.aim.seen # NoMint
    <3>1. k.authority = t.base.authority /\ k.collection # NoMint
      BY <2>7, <2>10
    <3>2. o = SetCollectionDuringMint(k, b)
      BY <2>3, <2>4, <2>6, <2>8, <2>10 DEF RunIf, Run, Execute
    <3> DEFINE New(x) == IF x.mint = b.nft /\ b.mint = k.collection
                         THEN [x EXCEPT !.collection = b.mint] ELSE x
               after == {New(x) : x \in k.nfts}
    <3>3. o = [k EXCEPT !.nfts = after]
      BY <2>4, <2>7, <3>1, <3>2 DEF SetCollectionDuringMint, Signed
    <3>4. Sound(k)
      <4>1. k # Refused /\ a.nft \in Nfts /\ a.nft \notin Minted(ledger)
        BY <2>1, <2>2, <2>4, <2>8
      <4>2. QED
        BY <2>2, <4>1, MintSound DEF k
    <3>5. b.mint \in Mints /\ SetCollectionDuringMint(k, b) = o
      BY <2>1, <2>4, <2>10, <3>2
    <3>6. k.nfts \subseteq [mint : Nfts, collection : Mints \cup {NoMint}]
      BY <3>4 DEF Sound, LedgersOf
    <3>7. after \subseteq [mint : Nfts, collection : Mints \cup {NoMint}]
      BY <3>5, <3>6
    <3> HIDE DEF after
    <3>8. o \in LedgersOf(Nat)
      BY <3>3, <3>4, <3>7 DEF Sound, LedgersOf
    <3>9. QED
      BY <3>8, RefusedAssumption DEF o
  <2>11. QED
    BY <2>9, <2>10
<1>2. QED
  BY <1>1, Invariant, PTL
=============================================================================
