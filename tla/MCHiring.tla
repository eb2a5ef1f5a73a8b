------------------------------ MODULE MCHiring ------------------------------
(* Small instances of Hiring for TLC. *)
EXTENDS Hiring, TLC

CONSTANTS o1, i1, b1, b2, b3, b4, k1, k2

(***************************************************************************)
(* Offers: one offer, two creators whose requests cross, an invite of k1.  *)
(***************************************************************************)
OneOffer == {o1}
OneInvite == {i1}
NoInvites == {}
NoBookings == {}
TwoCreators == {k1, k2}
OneCreator == {k1}
NoOne == {}

InviteOfK1 == (i1 :> k1)
OfferExpiresAt == (o1 :> 1)
OfferFrom == (o1 :> 2) @@ (i1 :> 3)
OfferTo == (o1 :> 4) @@ (i1 :> 5)
OfferGross == (o1 :> 3) @@ (i1 :> 5)
TwoFees == {2500, 5000}
Inactive == {{}}

(***************************************************************************)
(* Agenda: a day of 6 minutes in 3 hours, 2 instants each, and bookings of  *)
(* 2 minutes.  Of k1's, whose requests cross, b1 and b2 overlap and end    *)
(* half a minute after a minute.  Of k2's, b4 ends at midnight, and the    *)
(* invite overlaps b3 and the offer, which starts when b3 ends.            *)
(***************************************************************************)
FourBookings == {b1, b2, b3, b4}
OnlyK1 == {k1}
AgendaOf == (i1 :> k2) @@ (b1 :> k1) @@ (b2 :> k1) @@ (b3 :> k2) @@ (b4 :> k2)
AgendaFrom == (o1 :> 9) @@ (i1 :> 6) @@ (b1 :> 5) @@ (b2 :> 7) @@ (b3 :> 5) @@ (b4 :> 8)
AgendaTo == (o1 :> 11) @@ (i1 :> 10) @@ (b1 :> 9) @@ (b2 :> 11) @@ (b3 :> 9) @@ (b4 :> 12)
AgendaWindows == {{[from |-> 2, to |-> 4]}, {[from |-> 2, to |-> 5]}}
OneFee == {2500}
=============================================================================
