---------------------------- MODULE MCEngagement ----------------------------
(* A small instance of Engagement for TLC. *)
EXTENDS Engagement

CONSTANTS c1, c2, c3, r1

\* Invites c1 and c3 and a selected contract c2 that overlaps c1; there is a booking
\* over c3.
ThreeContracts == {c1, c2, c3}
SelectedContract == {c2}
InviteClashes == {<<c1, c2>>, <<c2, c1>>}
BookedInvite == {c3}

OneReplica == {r1}

\* Bound: the job of the selected contract has not ended yet; it may be cancelled.
SelectedJobAhead == past[c2] = {}

\* Bound: messages are written about c1 only, once c2 is over and before c3 is paid.
ChatIsOfTheFirst ==
    clock > 0 => /\ contract[c2].status = "CANCELLED" /\ conversation[c2].status = "CLOSED"
                 /\ contract[c3].status = "PENDING_PAYMENT" /\ past[c3] = {}

Bounded == SelectedJobAhead /\ ChatIsOfTheFirst
=============================================================================
