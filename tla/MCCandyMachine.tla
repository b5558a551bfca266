--------------------------- MODULE MCCandyMachine ---------------------------
(* Two clients, admin and other, and the settings of the runs.              *)
EXTENDS CandyMachine, TLC

CONSTANTS w1, w2, admin, other, k1, k2

OwnIdentity  == (admin :> k1) @@ (other :> k2)

UpdateCalls == (admin :> {"create", "update", "delete"}) @@ (other :> {"update", "delete"})
MintCalls   == (admin :> {"create", "insert", "update"}) @@ (other :> {"mint"})

OneOfEach  == [op \in Operations |-> 1]
TwoInserts == [op \in Operations |-> IF op = "insert" THEN 2 ELSE 1]

Never == [type |-> "never", number |-> 0]
At(type, number) == [type |-> type, number |-> number]

Config(goLive, whitelist, end, available) ==
  [wallet |-> w1, price |-> 1, goLive |-> goLive, whitelist |-> whitelist,
   end |-> end, available |-> available]

UpdateSettings == {<<Config(NoDate, "none", Never, Capacity), FALSE>>}

\* A presale that ends on a date, and a sale to a whitelist that ends at an amount.
MintSettings ==
  {<<Config(NoDate, "presale", At("date", 0), 1), TRUE>>,
   <<Config(0, "forced", At("amount", 1), Capacity), FALSE>>}

UpdateEdits == {<<>>, [price |-> 1], [price |-> 2], [available |-> 1]}
MintEdits   == {[wallet |-> w2]}

Symmetry == Permutations(Items) \cup Permutations(Nfts) \cup Permutations(Mints)
=============================================================================
