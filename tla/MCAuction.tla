----------------------------- MODULE MCAuction -----------------------------
(* Instances of Auction for TLC. *)
EXTENDS Auction, TLC

CONSTANTS p1, p2, p3, alias

\* provider_list names everybody by the configured id.
ListedById == [p \in Provider |-> p]

\* provider_list names p1 by something else than its configured id.
ListedByAlias == [ListedById EXCEPT ![p1] = alias]

NoBeacons == {}

\* p1 has p2's address in its beacon_config, and nobody else has any.
OneBeacon == {<<p1, p2>>}

ProviderSymmetry == Permutations(Provider)
=============================================================================
