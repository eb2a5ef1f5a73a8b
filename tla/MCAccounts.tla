----------------------------- MODULE MCAccounts -----------------------------
(***************************************************************************)
(* A small instance of Accounts for TLC.                                   *)
(***************************************************************************)
EXTENDS Accounts, TLC

CONSTANTS r1, r2, r3, r4, ana, bia, id1, id2, id3, a1, a2, u1, u2

\* ana sends two forms at once, for different roles, and one more after her
\* identity was deleted and made again; bia has ana's code.
MCAuthOf  == (r1 :> id1) @@ (r2 :> id1) @@ (r3 :> id2) @@ (r4 :> id3)
MCEmailOf == (r1 :> ana) @@ (r2 :> ana) @@ (r3 :> ana) @@ (r4 :> bia)
MCRoleOf  == (r1 :> "CREATOR") @@ (r2 :> "COMPANY") @@ (r3 :> "COMPANY") @@ (r4 :> "CREATOR")
MCCodeOf  == (r1 :> NoOne) @@ (r2 :> NoOne) @@ (r3 :> NoOne) @@ (r4 :> ana)

\* Bound: ana becomes a partner once her own requests are over; those steps read and
\* write nothing her requests do.
Settled == \A r \in Requests : EmailOf[r] = ana => step[r] \in {"done", "refused", "died"}

\* Bound: no behaviour moves both parts, which share no state.
MCNext ==
    \/ /\ SignUpNext
       /\ Settled \/ UNCHANGED partnerVars
       /\ row = OldRow(NoAddress) /\ update = [u \in Updates |-> Idle]
       /\ UNCHANGED locationVars
    \/ LocationNext /\ SignUpInit /\ UNCHANGED signUpVars

MCSpec == Init /\ [][MCNext]_vars

Symmetry == Permutations({a1, a2}) \cup Permutations({u1, u2})
=============================================================================
