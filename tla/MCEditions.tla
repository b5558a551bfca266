----------------------------- MODULE MCEditions -----------------------------
(* An artist, who also has the key of a fan, and that fan.                  *)
EXTENDS Editions, TLC

CONSTANTS artist, fan, aa, fa

Owners    == (aa :> artist) @@ (fa :> fan)
Atas      == (artist :> aa) @@ (fan :> fa)
Signers   == (artist :> {artist, fan}) @@ (fan :> {fan})

AllCalls ==
  (artist :> {"createMint", "createTokenWithMint", "createToken", "mint", "send",
              "approve", "freeze", "thaw", "createSft", "createNft", "print",
              "approveUse", "revokeUse", "use", "burnNft"})
  @@ (fan :> {"send", "revoke", "freezeDelegated", "thawDelegated", "use", "print"})
=============================================================================
