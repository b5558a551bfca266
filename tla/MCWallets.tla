------------------------------ MODULE MCWallets ------------------------------
(* Wallets for TLC: two identities and their derived keypairs.             *)
EXTENDS Wallets, TLC

CONSTANTS alice, bob, keyOfAlice, keyOfBob, node, j1, j2

MCWallets == {alice, bob, keyOfAlice, keyOfBob, node}
MCIdentities == {alice, bob}
MCDerivedFrom == alice :> keyOfAlice @@ bob :> keyOfBob
MCFirstSol == alice :> 3 @@ bob :> 3 @@ keyOfAlice :> 1 @@ keyOfBob :> 1 @@ node :> 0
MCFirstLoaded == [w \in MCWallets |-> IF w \in MCIdentities THEN 1 ELSE 0]
\* The two identities, with their keypairs, are interchangeable.
Swap == alice :> bob @@ bob :> alice @@ keyOfAlice :> keyOfBob @@ keyOfBob :> keyOfAlice
MCMixes ==
  {[setDriver |-> 1, object |-> 1, transfer |-> 1],
   [setDriver |-> 1, derive |-> 1, fund |-> 1],
   [setDriver |-> 1, derive |-> 1, withdrawAll |-> 1],
   [derive |-> 0, withdraw |-> 1, withdrawAll |-> 1],
   [setDriver |-> 1, upload |-> 2, unload |-> 2, transfer |-> 1]}

MCSymmetry == Permutations({j1, j2}) \cup {Swap}
=============================================================================
