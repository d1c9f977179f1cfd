-------------------------- MODULE MCMetadataCache --------------------------
(* A small provider for MetadataCache: a perpetual that comes with a new   *)
(* DEX, then a spot market.                                                *)
EXTENDS MetadataCache

MCCoins == {"xyz:ABC", "NEW/USDC"}
MCListedAt == [coin \in MCCoins |-> IF coin = "xyz:ABC" THEN 1 ELSE 2]
MCEndpointOf ==
    [coin \in MCCoins |-> IF coin = "xyz:ABC" THEN "allPerpMetas" ELSE "spotMeta"]
MCDexVersions == {1}
AllListedAtOne == [coin \in MCCoins |-> 1]

\* The perpetual alone, for the liveness run.
OneCoin == {"xyz:ABC"}
OneListedAt == [coin \in OneCoin |-> 1]
OneEndpointOf == [coin \in OneCoin |-> "allPerpMetas"]

TaskSymmetry == Permutations(Tasks)
=============================================================================
