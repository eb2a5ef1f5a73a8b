----------------------------- MODULE MCPayments -----------------------------
(* Small instances of PaymentsHistory for TLC. *)
EXTENDS PaymentsHistory, TLC

CONSTANTS c1, c2, g1, g2, e1, e2, s1, s2

OneContract == {c1}
TwoContracts == {c1, c2}
NoOpenOffer == {}
SecondIsOpenOffer == {c2}
OneOpenOffer == {c1}
MCCharges == {g1, g2}
MCEvents == {e1, e2}
OneCharge == {g1}
OneEvent == {e1}
MCSessions == {s1, s2}
OneSession == {s1}
TotalOfOne == c1 :> 2
TotalOfTwo == c1 :> 2 @@ c2 :> 2

Symmetry == Permutations(MCCharges) \cup Permutations(MCEvents) \cup Permutations(MCSessions)
=============================================================================
