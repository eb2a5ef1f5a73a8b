-------------------------- MODULE MCCompanyBalance --------------------------
(* Small instance of CompanyBalanceHistory for TLC. *)
EXTENDS CompanyBalanceHistory, TLC

CONSTANTS c1, p1, p2, r1, r2, s1, s2

MCCompanies == {c1}
MCPayments == {p1, p2}
MCRefunds == {r1, r2}
MCSessions == {s1, s2}
\* Two credits together exceed the cap of 4, and neither covers the other's debit alone.
MCOwner == p1 :> c1 @@ p2 :> c1
MCTotal == p1 :> 3 @@ p2 :> 2
MCApplied == p1 :> 0 @@ p2 :> 2
MCAmounts == {1, 3}
MCMaxCredit == 4

Symmetry == Permutations(MCSessions) \cup Permutations(MCRefunds)
=============================================================================
