------------------------- MODULE MCContractLifecycle -------------------------
(* Small instances of ContractLifecycle for TLC. *)
EXTENDS ContractLifecycle

CONSTANTS c1, c2, r1, r2

OneContract == {c1}
TwoContracts == {c1, c2}
MCOpenOffer == {c2}
NoOpenOffer == {}
OneReplica == {r1}
TwoReplicas == {r1, r2}
=============================================================================
