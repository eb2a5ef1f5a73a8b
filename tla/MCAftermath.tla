----------------------------- MODULE MCAftermath -----------------------------
(* Two contracts of one referred creator, the payout of one of them.        *)
EXTENDS Aftermath, TLC

CONSTANTS c1, c2, k1, k2, p1, pay1, a1, a2

OneCreator == [c \in Contracts |-> k1]
Amounts == [c \in Contracts |-> IF c = c1 THEN 999 ELSE 250]
ContractsOf == [pay \in {pay1} |-> c1]
PaymentsOf == [p \in Payouts |-> pay1]
\* Bound: profiles are edited while no notice or payout is under way; they share
\* nothing with an edit.
Quiet == /\ deliveries' = {} /\ inserting' = {} /\ pushing' = {}
         /\ \A p \in Payouts : payout'[p] = NoPayout
MCNext == Next /\ (editing' = {} \/ Quiet)
MCSpec == Init /\ [][MCNext]_vars

Symmetry == Permutations(Admins)

Visible == {[kind |-> "visible", of |-> c1]}
=============================================================================
