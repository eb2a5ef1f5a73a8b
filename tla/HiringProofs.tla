---------------------------- MODULE HiringProofs ----------------------------
(***************************************************************************)
(* Theorems about module Hiring, for any offers, invites, bookings,        *)
(* creators, fees and times.                                               *)
(*                                                                         *)
(* An offer hires once because a selection holds the offer's row lock from *)
(* its check to its commit: while it does, the offer stays OPEN, and an    *)
(* OPEN offer has hired nobody yet.                                        *)
(***************************************************************************)
EXTENDS Hiring, FiniteSetTheorems, TLAPS

-----------------------------------------------------------------------------
(***************************************************************************)
(* The amounts of module Quotes, for every gross amount, rate, distance    *)
(* and minimum.                                                            *)
(***************************************************************************)

(***************************************************************************)
(* Math.round of a non-negative quotient is the integer that is closest to *)
(* it: less than half a unit below, at most half a unit above.             *)
(***************************************************************************)
LEMMA RoundedIsNearest ==
    ASSUME NEW n \in Nat, NEW d \in Nat, d > 0
    PROVE  /\ Rounded(n, d) \in Nat
           /\ 2 * d * Rounded(n, d) <= 2 * n + d
           /\ 2 * n + d < 2 * d * Rounded(n, d) + 2 * d
<1> DEFINE a == 2 * n + d
           b == 2 * d
           q == a \div b
           r == a % b
<1>1. a \in Nat /\ b \in Nat /\ b > 0
  OBVIOUS
<1>2. q \in Int /\ r \in 0..(b - 1) /\ a = b * q + r
  BY <1>1
<1>3. q >= 0
  <2>1. ASSUME q < 0 PROVE FALSE
    <3>1. b * q <= b * (-1)
      BY <1>1, <1>2, <2>1
    <3>2. QED
      BY <1>1, <1>2, <3>1
  <2>2. QED
    BY <1>2, <2>1
<1>4. Rounded(n, d) = q
  BY DEF Rounded
<1>5. QED
  BY <1>1, <1>2, <1>3, <1>4

(***************************************************************************)
(* The rounded fee of a rate that is at most 100 % is at most the amount.  *)
(***************************************************************************)
LEMMA FeeIsWithin ==
    ASSUME NEW gross \in Nat, NEW bps \in 0..BasisPoints
    PROVE  Rounded(gross * bps, BasisPoints) \in 0..gross
<1> DEFINE p == gross * bps
           f == Rounded(p, BasisPoints)
<1>1. p \in Nat /\ p <= gross * 10000
  <2>1. bps \in Nat /\ bps <= 10000
    BY DEF BasisPoints
  <2>2. QED
    BY <2>1
<1>2. f \in Nat /\ 2 * 10000 * f <= 2 * p + 10000
  <2> HIDE DEF p
  <2>1. 10000 \in Nat /\ 10000 > 0
    OBVIOUS
  <2>2. Rounded(p, 10000) \in Nat /\ 2 * 10000 * Rounded(p, 10000) <= 2 * p + 10000
    BY <1>1, <2>1, RoundedIsNearest
  <2>3. QED
    BY <2>2 DEF BasisPoints
<1>3. f <= gross
  <2> HIDE DEF p, f
  <2>1. 20000 * f <= 20000 * gross + 10000
    BY <1>1, <1>2
  <2>2. QED
    BY <1>1, <1>2, <2>1
<1>4. QED
  BY <1>2, <1>3

(***************************************************************************)
(* The fee and the creator's share are never negative, never more than the *)
(* gross amount, and together exactly the gross amount: no cent appears or *)
(* disappears in the rounding of buildServiceSnapshot.                     *)
(***************************************************************************)
THEOREM ShareIsExact ==
    ASSUME NEW gross \in Nat, NEW bps \in 0..BasisPoints
    PROVE  LET s == ServiceSnapshot(gross, bps)
           IN  /\ s.platformFeeAmountCents \in 0..gross
               /\ s.creatorNetServiceAmountCents \in 0..gross
               /\ s.platformFeeAmountCents + s.creatorNetServiceAmountCents = gross
<1>1. Rounded(gross * bps, BasisPoints) \in 0..gross
  BY FeeIsWithin
<1>2. QED
  BY <1>1 DEF ServiceSnapshot

(***************************************************************************)
(* What the company pays for a contract is what the creator receives and   *)
(* what the platform keeps; and the creator receives at least the          *)
(* transport (buildContractSnapshot).                                      *)
(***************************************************************************)
THEOREM ContractIsBalanced ==
    ASSUME NEW gross \in Nat, NEW bps \in 0..BasisPoints, NEW transportFee \in Nat
    PROVE  LET c == ContractSnapshot(gross, bps, transportFee)
           IN  /\ c.companyTotalAmountCents
                    = c.creatorPayoutAmountCents + c.service.platformFeeAmountCents
               /\ c.creatorPayoutAmountCents \in transportFee..c.companyTotalAmountCents
<1> DEFINE s == ServiceSnapshot(gross, bps)
<1>1. /\ s.platformFeeAmountCents \in 0..gross
      /\ s.creatorNetServiceAmountCents \in 0..gross
      /\ s.platformFeeAmountCents + s.creatorNetServiceAmountCents = gross
  BY ShareIsExact
<1> HIDE DEF s
<1>2. ContractSnapshot(gross, bps, transportFee)
        = [service |-> s,
           transportFeeAmountCents |-> transportFee,
           creatorPayoutAmountCents |-> s.creatorNetServiceAmountCents + transportFee,
           companyTotalAmountCents |-> gross + transportFee]
  BY DEF ContractSnapshot, s
<1>3. QED
  BY <1>1, <1>2

(***************************************************************************)
(* The fee grows with the amount: an offer that pays more never owes the   *)
(* platform less at the same rate.                                         *)
(***************************************************************************)
THEOREM FeeGrowsWithGross ==
    ASSUME NEW small \in Nat, NEW large \in Nat, NEW bps \in 0..BasisPoints, small <= large
    PROVE  ServiceSnapshot(small, bps).platformFeeAmountCents
             <= ServiceSnapshot(large, bps).platformFeeAmountCents
<1> DEFINE p == small * bps
           q == large * bps
           f == Rounded(p, 10000)
           g == Rounded(q, 10000)
<1>1. p \in Nat /\ q \in Nat /\ p <= q
  <2>1. bps \in Nat /\ large - small \in Nat
    OBVIOUS
  <2>2. (large - small) * bps \in Nat
    BY <2>1
  <2>3. q = p + (large - small) * bps
    BY <2>1
  <2>4. p \in Nat /\ q \in Nat
    BY <2>1
  <2>5. QED
    BY <2>2, <2>3, <2>4
<1>2. f \in Nat /\ 2 * 10000 * f <= 2 * p + 10000
  <2> HIDE DEF p
  <2>1. QED
    BY <1>1, RoundedIsNearest
<1>3. g \in Nat /\ 2 * q + 10000 < 2 * 10000 * g + 2 * 10000
  <2> HIDE DEF q
  <2>1. QED
    BY <1>1, RoundedIsNearest
<1>4. f <= g
  <2> HIDE DEF p, q, f, g
  <2>1. QED
    BY <1>1, <1>2, <1>3
<1>5. QED
  BY <1>4 DEF ServiceSnapshot, BasisPoints

(***************************************************************************)
(* The transport is never below the minimum nor below the price of the     *)
(* distance, and it is said to be the minimum exactly when the distance    *)
(* costs no more (buildQuote).                                             *)
(***************************************************************************)
THEOREM TransportIsAtLeastMinimum ==
    ASSUME NEW distance \in Nat, NEW pricePerKm \in Nat, NEW minimum \in Nat
    PROVE  LET t == Transport(distance, pricePerKm, minimum)
               price == Rounded(distance * pricePerKm, 100)
           IN  /\ t.transportFeeAmountCents \in {price, minimum}
               /\ t.transportFeeAmountCents >= minimum
               /\ t.transportFeeAmountCents >= price
               /\ t.transportIsMinimumApplied <=> price <= minimum
<1> DEFINE n == distance * pricePerKm
           price == Rounded(n, 100)
<1>1. n \in Nat
  OBVIOUS
<1>2. price \in Nat
  <2> HIDE DEF n
  <2>1. QED
    BY <1>1, RoundedIsNearest
<1> HIDE DEF price
<1>3. /\ Larger(price, minimum) \in {price, minimum}
      /\ Larger(price, minimum) >= minimum
      /\ Larger(price, minimum) >= price
      /\ Larger(price, minimum) = minimum <=> price <= minimum
  BY <1>2 DEF Larger
<1> DEFINE t == Transport(distance, pricePerKm, minimum)
<1>4. t = [transportFeeAmountCents |-> Larger(price, minimum),
           transportPricePerKmUsed |-> pricePerKm,
           transportMinimumFeeUsed |-> minimum,
           transportIsMinimumApplied |-> (Larger(price, minimum) = minimum)]
  BY DEF Transport, price
<1> HIDE DEF t
<1>5. /\ t.transportFeeAmountCents = Larger(price, minimum)
      /\ t.transportIsMinimumApplied = (Larger(price, minimum) = minimum)
  BY <1>4
<1>6. /\ t.transportFeeAmountCents \in {price, minimum}
      /\ t.transportFeeAmountCents >= minimum
      /\ t.transportFeeAmountCents >= price
  BY <1>3, <1>5
<1>7. t.transportIsMinimumApplied <=> price <= minimum
  BY <1>3, <1>5
<1>8. QED
  BY <1>6, <1>7 DEF t, price

-----------------------------------------------------------------------------
(***************************************************************************)
(* The inductive invariant.                                                *)
(***************************************************************************)
IsRow(row, statuses, terms) == row = NoRow \/ \E s \in statuses, t \in terms : row = Row(s, t)

OfferTerms(o) == {ServiceSnapshot(Gross[o], bps) : bps \in Fees}
InviteTerms(i) == {ContractSnapshot(Gross[i], bps, 0) : bps \in Fees}

\* The rows, with the terms they were created with.
RowsKnown ==
    /\ offer = [o \in Offers |-> offer[o]]
    /\ contract = [c \in Contracts |-> contract[c]]
    /\ \A o \in Offers : IsRow(offer[o], OpenOfferStatus, OfferTerms(o))
    /\ \A i \in Invites : IsRow(contract[i], ContractStatus, InviteTerms(i))
    /\ \A o \in Offers, k \in Creators :
          IsRow(contract[<<o, k>>], ContractStatus, {HireTerms(o)})

\* What a claim found is still so when it writes.
ClaimsHold ==
    /\ \A o \in Offers, k \in Creators : Holds("select", <<o, k>>) => Open(o)
    /\ \A o \in Offers : Holds("cancelOffer", o) => offer[o] # NoRow
    /\ \A i \in Invites : Holds("accept", i) => contract[i] # NoRow

OneSelection ==
    \A o \in Offers : \A k, j \in Creators :
        Holds("select", <<o, k>>) /\ Holds("select", <<o, j>>) => k = j

\* The contract of a hire comes from an offer that is no longer OPEN, and no
\* other contract comes from it.
HiredFromClosed ==
    \A o \in Offers, k \in Creators :
        contract[<<o, k>>] # NoRow => offer[o] # NoRow /\ ~Open(o)
OneHire ==
    \A o \in Offers : \A k, j \in Creators :
        contract[<<o, k>>] # NoRow /\ contract[<<o, j>>] # NoRow => k = j

Core == RowsKnown /\ ClaimsHold /\ OneSelection /\ HiredFromClosed /\ OneHire
IInv == TypeOK /\ Core

-----------------------------------------------------------------------------
(***************************************************************************)
(* Rows and claims.                                                        *)
(***************************************************************************)
LEMMA RowIsNotNoRow ==
    ASSUME NEW s, NEW t, s # NONE
    PROVE  Row(s, t) # NoRow /\ Row(s, t).status = s /\ Row(s, t).terms = t
BY DEF Row, NoRow

\* A status changes; the terms stay.
LEMMA RowMoves ==
    ASSUME NEW s, NEW t, NEW to
    PROVE  [Row(s, t) EXCEPT !.status = to] = Row(to, t)
BY DEF Row

LEMMA MoveIsRow ==
    ASSUME NEW row, NEW statuses, NEW terms, NEW to \in statuses, row # NoRow,
           IsRow(row, statuses, terms)
    PROVE  /\ IsRow([row EXCEPT !.status = to], statuses, terms)
           /\ [row EXCEPT !.status = to].terms = row.terms
           /\ [row EXCEPT !.status = to].status = to
BY RowMoves DEF IsRow, Row

LEMMA StatusesAreNotNone ==
    /\ NONE \notin OpenOfferStatus /\ NONE \notin ContractStatus
    /\ NoRow.status = NONE
BY DEF NONE, OpenOfferStatus, ContractStatus, NoRow

LEMMA TakenClaims ==
    ASSUME NEW kind, NEW of, Take(kind, of), NEW other, NEW what
    PROVE  Holds(other, what)' <=> Holds(other, what) \/ (other = kind /\ what = of)
BY DEF Take, Holds, Claiming

LEMMA DroppedClaims ==
    ASSUME NEW kind, NEW of, Drop(kind, of)
    PROVE  /\ Holds(kind, of)
           /\ claims' \subseteq claims
           /\ ~Holds(kind, of)'
BY DEF Drop, Holds

LEMMA FewerClaims ==
    ASSUME claims' \subseteq claims, NEW kind, NEW of
    PROVE  Holds(kind, of)' => Holds(kind, of)
BY DEF Holds

\* A request that ends, or writes no offer and no contract, keeps the rest.
LEMMA CoreOfFewerClaims ==
    ASSUME Core, offer' = offer, contract' = contract, claims' \subseteq claims
    PROVE  Core'
<1>1. RowsKnown'
  BY DEF Core, RowsKnown, HireTerms
<1>2. ClaimsHold'
  BY FewerClaims DEF Core, ClaimsHold, Open
<1>3. OneSelection'
  BY FewerClaims DEF Core, OneSelection
<1>4. HiredFromClosed' /\ OneHire'
  BY DEF Core, HiredFromClosed, OneHire, Open
<1>5. QED
  BY <1>1, <1>2, <1>3, <1>4 DEF Core

\* A request that takes a claim, having found what the claim stands for.
LEMMA CoreOfTake ==
    ASSUME Core, offer' = offer, contract' = contract,
           NEW kind, NEW of, Take(kind, of),
           kind = "select" => \E o \in Offers, k \in Creators :
                                 of = <<o, k>> /\ Open(o) /\ ~OfferLocked(o),
           kind = "cancelOffer" => offer[of] # NoRow,
           kind = "accept" => contract[of] # NoRow
    PROVE  Core'
<1>1. RowsKnown'
  BY DEF Core, RowsKnown, HireTerms
<1>2. ClaimsHold'
  <2>1. ASSUME NEW o \in Offers, NEW k \in Creators, Holds("select", <<o, k>>)'
        PROVE  Open(o)'
    BY <2>1, TakenClaims DEF Core, ClaimsHold, Open
  <2>2. ASSUME NEW o \in Offers, Holds("cancelOffer", o)'
        PROVE  (offer[o] # NoRow)'
    BY <2>2, TakenClaims DEF Core, ClaimsHold
  <2>3. ASSUME NEW i \in Invites, Holds("accept", i)'
        PROVE  (contract[i] # NoRow)'
    BY <2>3, TakenClaims DEF Core, ClaimsHold
  <2>4. QED
    BY <2>1, <2>2, <2>3 DEF ClaimsHold
<1>3. OneSelection'
  <2> SUFFICES ASSUME NEW o \in Offers, NEW k \in Creators, NEW j \in Creators,
                      Holds("select", <<o, k>>)', Holds("select", <<o, j>>)'
               PROVE  k = j
    BY DEF OneSelection
  <2>1. CASE kind = "select" /\ (of = <<o, k>> \/ of = <<o, j>>)
    BY <2>1, TakenClaims DEF OfferLocked
  <2>2. CASE ~(kind = "select" /\ (of = <<o, k>> \/ of = <<o, j>>))
    BY <2>2, TakenClaims DEF Core, OneSelection
  <2>3. QED
    BY <2>1, <2>2
<1>4. HiredFromClosed' /\ OneHire'
  BY DEF Core, HiredFromClosed, OneHire, Open
<1>5. QED
  BY <1>1, <1>2, <1>3, <1>4 DEF Core

-----------------------------------------------------------------------------
(***************************************************************************)
(* The actions that write an offer or a contract.                          *)
(***************************************************************************)
LEMMA CreateOfferCore ==
    ASSUME IInv, NEW o \in Offers, CreateOffer(o)
    PROVE  Core'
<1> DEFINE terms == ServiceSnapshot(Gross[o], fee)
<1>1. /\ offer = [p \in Offers |-> offer[p]] /\ offer[o] = NoRow
      /\ offer' = [offer EXCEPT ![o] = Row("OPEN", terms)]
      /\ contract' = contract /\ claims' = claims
  BY DEF CreateOffer, IInv, Core, RowsKnown
<1>2. /\ offer'[o] = Row("OPEN", terms)
      /\ \A p \in Offers : p # o => offer'[p] = offer[p]
  BY <1>1
<1>3. \A k \in Creators : contract[<<o, k>>] = NoRow
  BY <1>1 DEF IInv, Core, HiredFromClosed
<1>4. ~Open(o)
  BY <1>1, StatusesAreNotNone DEF Open, NONE
<1>5. RowsKnown'
  <2>1. terms \in OfferTerms(o)
    BY DEF IInv, TypeOK, OfferTerms
  <2>2. IsRow(offer'[o], OpenOfferStatus, OfferTerms(o))
    BY <1>2, <2>1 DEF IsRow, OpenOfferStatus
  <2>3. \A p \in Offers : IsRow(offer'[p], OpenOfferStatus, OfferTerms(p))
    BY <1>2, <2>2 DEF IInv, Core, RowsKnown
  <2>4. ASSUME NEW p \in Offers, NEW k \in Creators
        PROVE  IsRow(contract[<<p, k>>], ContractStatus, {HireTerms(p)'})
    <3>1. CASE p = o
      BY <1>3, <3>1 DEF IsRow
    <3>2. CASE p # o
      <4>1. HireTerms(p)' = HireTerms(p)
        BY <1>2, <3>2 DEF HireTerms
      <4>2. QED
        BY <4>1 DEF IInv, Core, RowsKnown
    <3>3. QED
      BY <3>1, <3>2
  <2>5. offer' = [p \in Offers |-> offer'[p]]
    BY <1>1
  <2> HIDE DEF terms
  <2>6. QED
    BY <1>1, <2>3, <2>4, <2>5 DEF IInv, Core, RowsKnown, OfferTerms, InviteTerms
<1>6. ClaimsHold'
  <2>1. \A p \in Offers : offer'[p] # NoRow \/ p # o
    BY <1>2, RowIsNotNoRow DEF NONE
  <2>2. QED
    BY <1>1, <1>2, <1>4, <2>1 DEF IInv, Core, ClaimsHold, Open, Holds
<1>7. OneSelection' /\ OneHire'
  BY <1>1 DEF IInv, Core, OneSelection, OneHire, Holds
<1>8. HiredFromClosed'
  BY <1>1, <1>2, <1>3 DEF IInv, Core, HiredFromClosed, Open
<1>9. QED
  BY <1>5, <1>6, <1>7, <1>8 DEF Core

LEMMA CancelOfferSaveCore ==
    ASSUME IInv, NEW o \in Offers, CancelOfferSave(o)
    PROVE  Core'
<1> DEFINE new == [offer[o] EXCEPT !.status = "CANCELLED"]
<1>1. /\ offer = [p \in Offers |-> offer[p]] /\ offer[o] # NoRow
      /\ offer' = [offer EXCEPT ![o].status = "CANCELLED"]
      /\ contract' = contract /\ claims' \subseteq claims
      /\ ~OfferLocked(o)
  BY DroppedClaims DEF CancelOfferSave, IInv, Core, RowsKnown, ClaimsHold
<1>2. /\ offer'[o] = new
      /\ \A p \in Offers : p # o => offer'[p] = offer[p]
      /\ offer' = [p \in Offers |-> offer'[p]]
  BY <1>1
<1>3. /\ IsRow(new, OpenOfferStatus, OfferTerms(o))
      /\ new.terms = offer[o].terms /\ new.status = "CANCELLED"
  <2>1. IsRow(offer[o], OpenOfferStatus, OfferTerms(o))
    BY DEF IInv, Core, RowsKnown
  <2>2. "CANCELLED" \in OpenOfferStatus
    BY DEF OpenOfferStatus
  <2>3. QED
    BY <1>1, <2>1, <2>2, MoveIsRow
<1> HIDE DEF new
<1>4. new # NoRow /\ ~Open(o)'
  BY <1>2, <1>3, StatusesAreNotNone DEF Open, NONE
<1>5. RowsKnown'
  <2>1. \A p \in Offers : IsRow(offer'[p], OpenOfferStatus, OfferTerms(p))
    BY <1>2, <1>3 DEF IInv, Core, RowsKnown
  <2>2. \A p \in Offers : HireTerms(p)' = HireTerms(p)
    BY <1>2, <1>3 DEF HireTerms
  <2>3. QED
    BY <1>1, <1>2, <2>1, <2>2 DEF IInv, Core, RowsKnown, OfferTerms, InviteTerms
<1>6. ClaimsHold'
  <2>1. ASSUME NEW p \in Offers, NEW k \in Creators, Holds("select", <<p, k>>)'
        PROVE  Open(p)'
    <3>1. Holds("select", <<p, k>>)
      BY <1>1, <2>1, FewerClaims
    <3>2. p # o
      BY <1>1, <3>1 DEF OfferLocked
    <3>3. QED
      BY <1>2, <3>1, <3>2 DEF IInv, Core, ClaimsHold, Open
  <2>2. ASSUME NEW p \in Offers, Holds("cancelOffer", p)'
        PROVE  offer'[p] # NoRow
    BY <1>1, <1>2, <1>4, <2>2, FewerClaims DEF IInv, Core, ClaimsHold
  <2>3. ASSUME NEW i \in Invites, Holds("accept", i)'
        PROVE  contract'[i] # NoRow
    BY <1>1, <2>3, FewerClaims DEF IInv, Core, ClaimsHold
  <2>4. QED
    BY <2>1, <2>2, <2>3 DEF ClaimsHold
<1>7. OneSelection' /\ OneHire'
  BY <1>1, FewerClaims DEF IInv, Core, OneSelection, OneHire
<1>8. HiredFromClosed'
  BY <1>1, <1>2, <1>4 DEF IInv, Core, HiredFromClosed, Open
<1>9. QED
  BY <1>5, <1>6, <1>7, <1>8 DEF Core

LEMMA SelectCore ==
    ASSUME IInv, NEW o \in Offers, NEW k \in Creators,
           Drop("select", <<o, k>>), Select(o, k)
    PROVE  Core'
<1> DEFINE filled == [offer[o] EXCEPT !.status = "FILLED"]
           hired == Row("ACCEPTED", HireTerms(o))
<1>1. /\ offer = [p \in Offers |-> offer[p]]
      /\ contract = [c \in Contracts |-> contract[c]]
      /\ Holds("select", <<o, k>>) /\ Open(o)
      /\ ~Holds("select", <<o, k>>)'
      /\ claims' \subseteq claims
      /\ offer' = [offer EXCEPT ![o].status = "FILLED"]
      /\ contract' = [contract EXCEPT ![<<o, k>>] = hired]
  BY DroppedClaims DEF Select, IInv, Core, RowsKnown, ClaimsHold
<1>2. <<o, k>> \in Hires /\ <<o, k>> \in Contracts /\ <<o, k>> \notin Invites
  BY HiringConstants DEF Hires, Contracts
<1>3. /\ offer'[o] = filled
      /\ \A p \in Offers : p # o => offer'[p] = offer[p]
      /\ offer' = [p \in Offers |-> offer'[p]]
  BY <1>1
<1>4. /\ contract'[<<o, k>>] = hired
      /\ \A c \in Contracts : c # <<o, k>> => contract'[c] = contract[c]
      /\ contract' = [c \in Contracts |-> contract'[c]]
  BY <1>1, <1>2
<1>5. offer[o] # NoRow /\ \A j \in Creators : contract[<<o, j>>] = NoRow
  BY <1>1, StatusesAreNotNone DEF IInv, Core, HiredFromClosed, Open, NONE
<1>6. /\ IsRow(filled, OpenOfferStatus, OfferTerms(o))
      /\ filled.terms = offer[o].terms /\ filled.status = "FILLED"
  <2>1. IsRow(offer[o], OpenOfferStatus, OfferTerms(o))
    BY DEF IInv, Core, RowsKnown
  <2>2. "FILLED" \in OpenOfferStatus
    BY DEF OpenOfferStatus
  <2>3. QED
    BY <1>5, <2>1, <2>2, MoveIsRow
<1>7. IsRow(hired, ContractStatus, {HireTerms(o)}) /\ hired # NoRow
  BY RowIsNotNoRow DEF IsRow, ContractStatus, NONE
<1> HIDE DEF filled, hired
<1>8. filled # NoRow /\ ~Open(o)'
  BY <1>3, <1>6, StatusesAreNotNone DEF Open, NONE
<1>9. RowsKnown'
  <2>1. \A p \in Offers : IsRow(offer'[p], OpenOfferStatus, OfferTerms(p))
    BY <1>3, <1>6 DEF IInv, Core, RowsKnown
  <2>2. \A p \in Offers : HireTerms(p)' = HireTerms(p)
    BY <1>3, <1>6 DEF HireTerms
  <2>3. ASSUME NEW i \in Invites
        PROVE  IsRow(contract'[i], ContractStatus, InviteTerms(i))
    BY <1>2, <1>4, <2>3 DEF IInv, Core, RowsKnown, Contracts
  <2>4. ASSUME NEW p \in Offers, NEW j \in Creators
        PROVE  IsRow(contract'[<<p, j>>], ContractStatus, {HireTerms(p)'})
    <3>1. CASE <<p, j>> = <<o, k>>
      BY <1>4, <1>7, <2>2, <3>1
    <3>2. CASE <<p, j>> # <<o, k>>
      <4>1. contract'[<<p, j>>] = contract[<<p, j>>]
        BY <1>4, <3>2 DEF Contracts, Hires
      <4>2. QED
        BY <2>2, <4>1 DEF IInv, Core, RowsKnown
    <3>3. QED
      BY <3>1, <3>2
  <2>5. QED
    BY <1>3, <1>4, <2>1, <2>3, <2>4 DEF RowsKnown, OfferTerms, InviteTerms
<1>10. ClaimsHold'
  <2>1. ASSUME NEW p \in Offers, NEW j \in Creators, Holds("select", <<p, j>>)'
        PROVE  Open(p)'
    <3>1. Holds("select", <<p, j>>)
      BY <1>1, <2>1, FewerClaims
    <3>2. p # o
      BY <1>1, <2>1, <3>1 DEF IInv, Core, OneSelection
    <3>3. QED
      BY <1>3, <3>1, <3>2 DEF IInv, Core, ClaimsHold, Open
  <2>2. ASSUME NEW p \in Offers, Holds("cancelOffer", p)'
        PROVE  offer'[p] # NoRow
    BY <1>1, <1>3, <1>8, <2>2, FewerClaims DEF IInv, Core, ClaimsHold
  <2>3. ASSUME NEW i \in Invites, Holds("accept", i)'
        PROVE  contract'[i] # NoRow
    BY <1>1, <1>2, <1>4, <2>3, FewerClaims DEF IInv, Core, ClaimsHold, Contracts
  <2>4. QED
    BY <2>1, <2>2, <2>3 DEF ClaimsHold
<1>11. OneSelection'
  BY <1>1, FewerClaims DEF IInv, Core, OneSelection
<1>12. OneHire' /\ HiredFromClosed'
  <2>1. ASSUME NEW p \in Offers, NEW j \in Creators, <<p, j>> # <<o, k>>
        PROVE  contract'[<<p, j>>] = contract[<<p, j>>]
    BY <1>4, <2>1 DEF Contracts, Hires
  <2>2. \A j \in Creators : contract'[<<o, j>>] # NoRow => j = k
    BY <1>5, <2>1
  <2>3. \A p \in Offers, j \in Creators :
           p # o => contract'[<<p, j>>] = contract[<<p, j>>]
    BY <2>1
  <2>4. OneHire'
    BY <2>2, <2>3 DEF IInv, Core, OneHire
  <2>5. HiredFromClosed'
    BY <1>3, <1>8, <2>3 DEF IInv, Core, HiredFromClosed, Open
  <2>6. QED
    BY <2>4, <2>5
<1>13. QED
  BY <1>9, <1>10, <1>11, <1>12 DEF Core

\* The row of one contract is written, and it is not the first row of a hire.
LEMMA WriteContractCore ==
    ASSUME IInv, NEW c \in Contracts, NEW row, row # NoRow,
           contract' = [contract EXCEPT ![c] = row],
           offer' = offer, claims' \subseteq claims,
           c \in Invites => IsRow(row, ContractStatus, InviteTerms(c)),
           \A o \in Offers, k \in Creators :
              c = <<o, k>> => /\ contract[c] # NoRow
                              /\ IsRow(row, ContractStatus, {HireTerms(o)})
    PROVE  Core'
<1>1. /\ contract = [d \in Contracts |-> contract[d]]
      /\ contract'[c] = row
      /\ \A d \in Contracts : d # c => contract'[d] = contract[d]
      /\ contract' = [d \in Contracts |-> contract'[d]]
  BY DEF IInv, Core, RowsKnown
<1>2. \A o \in Offers, k \in Creators :
         /\ <<o, k>> \in Contracts
         /\ contract'[<<o, k>>] # NoRow => contract[<<o, k>>] # NoRow
  BY <1>1 DEF Contracts, Hires
<1>3. \A i \in Invites : i \in Contracts
  BY DEF Contracts
<1>4. RowsKnown'
  <2>1. \A i \in Invites : IsRow(contract'[i], ContractStatus, InviteTerms(i))
    BY <1>1, <1>3 DEF IInv, Core, RowsKnown
  <2>2. ASSUME NEW o \in Offers, NEW k \in Creators
        PROVE  IsRow(contract'[<<o, k>>], ContractStatus, {HireTerms(o)})
    BY <1>1, <1>2, <2>2 DEF IInv, Core, RowsKnown
  <2>3. \A o \in Offers : HireTerms(o)' = HireTerms(o)
    BY DEF HireTerms
  <2>4. QED
    BY <1>1, <2>1, <2>2, <2>3 DEF IInv, Core, RowsKnown, OfferTerms, InviteTerms
<1>5. ClaimsHold'
  <2>1. \A i \in Invites : contract[i] # NoRow => contract'[i] # NoRow
    BY <1>1, <1>3
  <2>2. QED
    BY <2>1, FewerClaims DEF IInv, Core, ClaimsHold, Open
<1>6. OneSelection'
  BY FewerClaims DEF IInv, Core, OneSelection
<1>7. HiredFromClosed' /\ OneHire'
  BY <1>2 DEF IInv, Core, HiredFromClosed, OneHire, Open
<1>8. QED
  BY <1>4, <1>5, <1>6, <1>7 DEF Core

LEMMA CreateCore ==
    ASSUME IInv, NEW i \in Invites, Create(i)
    PROVE  Core'
<1> DEFINE row == Row("PENDING_PAYMENT", ContractSnapshot(Gross[i], fee, 0))
<1>1. /\ contract' = [contract EXCEPT ![i] = row]
      /\ offer' = offer /\ claims' \subseteq claims
      /\ i \in Contracts
  BY DEF Create, Contracts
<1>2. row # NoRow
  BY RowIsNotNoRow DEF NONE
<1>3. IsRow(row, ContractStatus, InviteTerms(i))
  BY DEF IsRow, ContractStatus, InviteTerms, IInv, TypeOK
<1>4. \A o \in Offers, k \in Creators : i # <<o, k>>
  BY HiringConstants DEF Hires
<1> HIDE DEF row
<1>5. QED
  BY <1>1, <1>2, <1>3, <1>4, WriteContractCore

\* The status of a contract that is there changes.
LEMMA MoveCore ==
    ASSUME IInv, NEW c \in Contracts, NEW to \in ContractStatus, contract[c] # NoRow,
           contract' = [contract EXCEPT ![c].status = to],
           offer' = offer, claims' \subseteq claims
    PROVE  Core'
<1> DEFINE row == [contract[c] EXCEPT !.status = to]
<1>1. contract' = [contract EXCEPT ![c] = row]
  OBVIOUS
<1>2. \E statuses, terms : IsRow(contract[c], statuses, terms)
  <2>1. CASE c \in Invites
    BY <2>1 DEF IInv, Core, RowsKnown
  <2>2. CASE c \in Hires
    <3>1. PICK o \in Offers, k \in Creators : c = <<o, k>>
      BY <2>2 DEF Hires
    <3>2. IsRow(contract[c], ContractStatus, {HireTerms(o)})
      BY <3>1 DEF IInv, Core, RowsKnown
    <3>3. QED
      BY <3>2
  <2>3. QED
    BY <2>1, <2>2 DEF Contracts
<1>3. row # NoRow
  <2>1. row.status = to
    BY <1>2, StatusesAreNotNone DEF IsRow, Row
  <2> HIDE DEF row
  <2>2. QED
    BY <2>1, StatusesAreNotNone
<1>4. c \in Invites => IsRow(row, ContractStatus, InviteTerms(c))
  BY MoveIsRow DEF IInv, Core, RowsKnown
<1>5. ASSUME NEW o \in Offers, NEW k \in Creators, c = <<o, k>>
      PROVE  IsRow(row, ContractStatus, {HireTerms(o)})
  <2>1. IsRow(contract[c], ContractStatus, {HireTerms(o)})
    BY <1>5 DEF IInv, Core, RowsKnown
  <2>2. QED
    BY <2>1, MoveIsRow
<1> HIDE DEF row
<1>6. QED
  BY <1>1, <1>3, <1>4, <1>5, WriteContractCore

LEMMA MoveActionCore ==
    ASSUME IInv, NEW c \in Contracts, NEW from \in ContractStatus, NEW to \in ContractStatus,
           Move(c, from, to)
    PROVE  Core'
<1>1. contract[c] # NoRow
  BY StatusesAreNotNone DEF Move
<1>2. QED
  BY <1>1, MoveCore DEF Move

LEMMA AcceptCommitCore ==
    ASSUME IInv, NEW i \in Invites, AcceptCommit(i)
    PROVE  Core'
<1>1. contract[i] # NoRow /\ claims' \subseteq claims
  BY DroppedClaims DEF AcceptCommit, IInv, Core, ClaimsHold
<1>2. i \in Contracts /\ "ACCEPTED" \in ContractStatus
  BY DEF Contracts, ContractStatus
<1>3. QED
  BY <1>1, <1>2, MoveCore DEF AcceptCommit

-----------------------------------------------------------------------------
(***************************************************************************)
(* The types of what is not an offer or a contract follow action by action.*)
(***************************************************************************)
RestTyped ==
    /\ now \in 0..Horizon /\ fee \in Fees
    /\ application \in [Hires -> ApplicationStatus \cup {NONE}]
    /\ booking \in [Bookings -> BookingStatus \cup {NONE}]
    /\ window \in [Creators -> Windows]
    /\ claims \subseteq Claim

LEMMA RowsAreTyped ==
    ASSUME RowsKnown'
    PROVE  /\ \A o \in Offers : offer'[o] # NoRow => offer'[o].status \in OpenOfferStatus
           /\ \A c \in Contracts : contract'[c] # NoRow => contract'[c].status \in ContractStatus
<1>1. ASSUME NEW row, NEW statuses, NEW terms, IsRow(row, statuses, terms), row # NoRow
      PROVE  row.status \in statuses
  BY <1>1 DEF IsRow, Row
<1>2. ASSUME NEW i \in Invites, contract'[i] # NoRow
      PROVE  contract'[i].status \in ContractStatus
  <2>1. \E terms : IsRow(contract'[i], ContractStatus, terms)
    BY DEF RowsKnown
  <2>2. QED
    BY <1>1, <1>2, <2>1
<1>3. ASSUME NEW c \in Hires, contract'[c] # NoRow
      PROVE  contract'[c].status \in ContractStatus
  <2>1. PICK o \in Offers, k \in Creators : c = <<o, k>>
    BY DEF Hires
  <2>2. \E terms : IsRow(contract'[c], ContractStatus, terms)
    BY <2>1 DEF RowsKnown
  <2>3. QED
    BY <1>1, <1>3, <2>2
<1>4. ASSUME NEW o \in Offers, offer'[o] # NoRow
      PROVE  offer'[o].status \in OpenOfferStatus
  <2>1. \E terms : IsRow(offer'[o], OpenOfferStatus, terms)
    BY DEF RowsKnown
  <2>2. QED
    BY <1>1, <1>4, <2>1
<1>5. QED
  BY <1>2, <1>3, <1>4 DEF Contracts

LEMMA IInvFromParts ==
    ASSUME Core', RestTyped'
    PROVE  IInv'
BY RowsAreTyped DEF Core, RestTyped, IInv, TypeOK

LEMMA TakeTyped ==
    ASSUME NEW kind, NEW of, Take(kind, of), claims \subseteq Claim, Claiming(kind, of) \in Claim
    PROVE  claims' \subseteq Claim
BY DEF Take

LEMMA DropTyped ==
    ASSUME NEW kind, NEW of, Drop(kind, of), claims \subseteq Claim
    PROVE  claims' \subseteq Claim
BY DEF Drop

LEMMA ClaimsExist ==
    /\ \A o \in Offers : Claiming("cancelOffer", o) \in Claim
    /\ \A o \in Offers, k \in Creators, kind \in {"apply", "withdraw", "select"} :
          Claiming(kind, <<o, k>>) \in Claim
    /\ \A i \in Invites : Claiming("accept", i) \in Claim
    /\ \A b \in Bookings : Claiming("book", b) \in Claim
BY DEF Claiming, Claim, Hires

LEMMA RejectPendingTyped ==
    ASSUME RestTyped, NEW o \in Offers, NEW but
    PROVE  RejectPending(o, but) \in [Hires -> ApplicationStatus \cup {NONE}]
BY DEF RestTyped, RejectPending, ApplicationStatus

LEMMA IInvTypes == ASSUME IInv PROVE RestTyped
BY DEF IInv, TypeOK, RestTyped

LEMMA CreateOfferKeeps ==
    ASSUME IInv, RestTyped, NEW o \in Offers, CreateOffer(o)
    PROVE  Core' /\ RestTyped'
BY CreateOfferCore DEF CreateOffer, RestTyped

LEMMA CancelOfferReadKeeps ==
    ASSUME IInv, RestTyped, NEW o \in Offers, CancelOfferRead(o)
    PROVE  Core' /\ RestTyped'
<1>1. Take("cancelOffer", o) /\ offer' = offer /\ contract' = contract /\ offer[o] # NoRow
  BY StatusesAreNotNone DEF CancelOfferRead, Open, NONE
<1>2. Core'
  BY <1>1, CoreOfTake DEF IInv
<1>3. claims' \subseteq Claim
  BY <1>1, ClaimsExist, TakeTyped DEF RestTyped
<1>4. QED
  BY <1>2, <1>3 DEF CancelOfferRead, RestTyped

LEMMA CancelOfferSaveKeeps ==
    ASSUME IInv, RestTyped, NEW o \in Offers, CancelOfferSave(o)
    PROVE  Core' /\ RestTyped'
<1>1. claims' \subseteq Claim
  BY DropTyped DEF CancelOfferSave, RestTyped
<1>2. QED
  BY <1>1, CancelOfferSaveCore, RejectPendingTyped DEF CancelOfferSave, RestTyped

LEMMA ApplyKeeps ==
    ASSUME IInv, RestTyped, NEW o \in Offers, NEW k \in Creators,
           ApplyCheck(o, k) \/ ApplyInsert(o, k)
    PROVE  Core' /\ RestTyped'
<1>1. CASE ApplyCheck(o, k)
  <2>1. Take("apply", <<o, k>>) /\ offer' = offer /\ contract' = contract
    BY <1>1 DEF ApplyCheck
  <2>2. Core'
    BY <2>1, CoreOfTake DEF IInv
  <2>3. claims' \subseteq Claim
    BY <2>1, ClaimsExist, TakeTyped DEF RestTyped
  <2>4. QED
    BY <1>1, <2>2, <2>3 DEF ApplyCheck, RestTyped
<1>2. CASE ApplyInsert(o, k)
  <2>1. claims' \subseteq claims /\ offer' = offer /\ contract' = contract
    BY <1>2, DroppedClaims DEF ApplyInsert
  <2>2. Core'
    BY <2>1, CoreOfFewerClaims DEF IInv
  <2>3. application' \in [Hires -> ApplicationStatus \cup {NONE}]
    BY <1>2 DEF ApplyInsert, RestTyped, ApplicationStatus
  <2>4. QED
    BY <1>2, <2>1, <2>2, <2>3 DEF ApplyInsert, RestTyped
<1>3. QED
  BY <1>1, <1>2

LEMMA WithdrawKeeps ==
    ASSUME IInv, RestTyped, NEW o \in Offers, NEW k \in Creators,
           WithdrawRead(o, k) \/ WithdrawSave(o, k)
    PROVE  Core' /\ RestTyped'
<1>1. CASE WithdrawRead(o, k)
  <2>1. Take("withdraw", <<o, k>>) /\ offer' = offer /\ contract' = contract
    BY <1>1 DEF WithdrawRead
  <2>2. Core'
    BY <2>1, CoreOfTake DEF IInv
  <2>3. claims' \subseteq Claim
    BY <2>1, ClaimsExist, TakeTyped DEF RestTyped
  <2>4. QED
    BY <1>1, <2>2, <2>3 DEF WithdrawRead, RestTyped
<1>2. CASE WithdrawSave(o, k)
  <2>1. claims' \subseteq claims /\ offer' = offer /\ contract' = contract
    BY <1>2, DroppedClaims DEF WithdrawSave
  <2>2. Core'
    BY <2>1, CoreOfFewerClaims DEF IInv
  <2>3. application' \in [Hires -> ApplicationStatus \cup {NONE}]
    BY <1>2 DEF WithdrawSave, RestTyped, ApplicationStatus
  <2>4. QED
    BY <1>2, <2>1, <2>2, <2>3 DEF WithdrawSave, RestTyped
<1>3. QED
  BY <1>1, <1>2

\* Whether the hire is written or its insert fails.
LEMMA SelectKeeps ==
    ASSUME IInv, RestTyped, NEW o \in Offers, NEW k \in Creators,
           SelectCheck(o, k) \/ SelectCommit(o, k)
    PROVE  Core' /\ RestTyped'
<1>1. CASE SelectCheck(o, k)
  <2>1. /\ Take("select", <<o, k>>) /\ offer' = offer /\ contract' = contract
        /\ Open(o) /\ ~OfferLocked(o)
    BY <1>1 DEF SelectCheck
  <2>2. Core'
    BY <2>1, CoreOfTake DEF IInv
  <2>3. claims' \subseteq Claim
    BY <2>1, ClaimsExist, TakeTyped DEF RestTyped
  <2>4. QED
    BY <1>1, <2>2, <2>3 DEF SelectCheck, RestTyped
<1>2. CASE SelectCommit(o, k) /\ DescriptionMissing
  <2>1. /\ claims' \subseteq claims /\ offer' = offer /\ contract' = contract
        /\ application' = application
    BY <1>2, DroppedClaims DEF SelectCommit
  <2>2. Core'
    BY <2>1, CoreOfFewerClaims DEF IInv
  <2>3. QED
    BY <1>2, <2>1, <2>2 DEF SelectCommit, RestTyped
<1>3. CASE SelectCommit(o, k) /\ ~DescriptionMissing
  <2>1. Drop("select", <<o, k>>) /\ Select(o, k)
    BY <1>3 DEF SelectCommit
  <2>2. Core'
    BY <2>1, SelectCore
  <2>3. claims' \subseteq Claim
    BY <2>1, DropTyped DEF RestTyped
  <2>4. application' \in [Hires -> ApplicationStatus \cup {NONE}]
    <3>1. RejectPending(o, k) \in [Hires -> ApplicationStatus \cup {NONE}]
      BY RejectPendingTyped
    <3>2. application' = [RejectPending(o, k) EXCEPT ![<<o, k>>] = "SELECTED"]
      BY <2>1 DEF Select
    <3>3. QED
      BY <3>1, <3>2 DEF ApplicationStatus
  <2>5. QED
    BY <1>3, <2>2, <2>3, <2>4 DEF SelectCommit, RestTyped
<1>4. QED
  BY <1>1, <1>2, <1>3

LEMMA InvitesKeep ==
    ASSUME IInv, RestTyped, InviteStep
    PROVE  Core' /\ RestTyped'
<1>1. ASSUME NEW i \in Invites, Create(i)
      PROVE  Core' /\ RestTyped'
  BY <1>1, CreateCore DEF Create, RestTyped
<1>2. ASSUME NEW c \in Contracts, NEW from \in ContractStatus, NEW to \in ContractStatus,
             Move(c, from, to)
      PROVE  Core' /\ RestTyped'
  BY <1>2, MoveActionCore DEF Move, RestTyped
<1>3. ASSUME NEW i \in Invites, AcceptCheck(i)
      PROVE  Core' /\ RestTyped'
  <2>1. /\ Take("accept", i) /\ offer' = offer /\ contract' = contract
        /\ contract[i] # NoRow
    BY <1>3, StatusesAreNotNone DEF AcceptCheck, NONE
  <2>2. Core'
    BY <2>1, CoreOfTake DEF IInv
  <2>3. claims' \subseteq Claim
    BY <2>1, ClaimsExist, TakeTyped DEF RestTyped
  <2>4. QED
    BY <1>3, <2>2, <2>3 DEF AcceptCheck, RestTyped
<1>4. ASSUME NEW i \in Invites, AcceptCommit(i)
      PROVE  Core' /\ RestTyped'
  <2>1. claims' \subseteq Claim
    BY <1>4, DropTyped DEF AcceptCommit, RestTyped
  <2>2. QED
    BY <1>4, <2>1, AcceptCommitCore DEF AcceptCommit, RestTyped
<1>5. \A i \in Invites : i \in Contracts
  BY DEF Contracts
<1>6. {"PENDING_PAYMENT", "PENDING_ACCEPTANCE", "ACCEPTED", "REJECTED", "CANCELLED"}
         \subseteq ContractStatus
  BY DEF ContractStatus
<1>7. QED
  BY <1>1, <1>2, <1>3, <1>4, <1>5, <1>6 DEF InviteStep, ConfirmPayment, Reject, Cancel

LEMMA BookingsKeep ==
    ASSUME IInv, RestTyped, BookingStep
    PROVE  Core' /\ RestTyped'
<1>1. PICK b \in Bookings : \/ BookCheck(b) \/ BookCommit(b)
                            \/ AcceptBooking(b) \/ RejectBooking(b) \/ CancelBooking(b)
  BY DEF BookingStep
<1>2. CASE BookCheck(b)
  <2>1. Take("book", b) /\ offer' = offer /\ contract' = contract
    BY <1>2 DEF BookCheck
  <2>2. Core'
    BY <2>1, CoreOfTake DEF IInv
  <2>3. claims' \subseteq Claim
    BY <2>1, ClaimsExist, TakeTyped DEF RestTyped
  <2>4. QED
    BY <1>2, <2>2, <2>3 DEF BookCheck, RestTyped
<1>3. CASE BookCommit(b)
  <2>1. claims' \subseteq claims /\ offer' = offer /\ contract' = contract
    BY <1>3, DroppedClaims DEF BookCommit
  <2>2. Core'
    BY <2>1, CoreOfFewerClaims DEF IInv
  <2>3. booking' \in [Bookings -> BookingStatus \cup {NONE}]
    BY <1>3 DEF BookCommit, RestTyped, BookingStatus
  <2>4. QED
    BY <1>3, <2>1, <2>2, <2>3 DEF BookCommit, RestTyped
<1>4. ASSUME NEW from, NEW to \in BookingStatus, UpdateBookingStatus(b, from, to)
      PROVE  Core' /\ RestTyped'
  <2>1. claims' \subseteq claims /\ offer' = offer /\ contract' = contract
    BY <1>4 DEF UpdateBookingStatus
  <2>2. Core'
    BY <2>1, CoreOfFewerClaims DEF IInv
  <2>3. booking' \in [Bookings -> BookingStatus \cup {NONE}]
    BY <1>4 DEF UpdateBookingStatus, RestTyped
  <2>4. QED
    BY <1>4, <2>1, <2>2, <2>3 DEF UpdateBookingStatus, RestTyped
<1>5. {"CONFIRMED", "REJECTED", "CANCELLED"} \subseteq BookingStatus
  BY DEF BookingStatus
<1>6. QED
  BY <1>1, <1>2, <1>3, <1>4, <1>5 DEF AcceptBooking, RejectBooking, CancelBooking

LEMMA OthersKeep ==
    ASSUME IInv, RestTyped,
           \/ \E k \in Creators, rule \in Windows : ReplaceAvailability(k, rule)
           \/ \E claim \in claims : Abort(claim)
           \/ Tick
           \/ \E bps \in Fees : SetFee(bps)
           \/ UNCHANGED vars
    PROVE  Core' /\ RestTyped'
<1>1. claims' \subseteq claims /\ offer' = offer /\ contract' = contract
  BY DEF ReplaceAvailability, Abort, Tick, SetFee, vars
<1>2. Core'
  BY <1>1, CoreOfFewerClaims DEF IInv
<1>3. claims' \subseteq Claim
  BY <1>1 DEF RestTyped
<1>4. application' = application /\ booking' = booking
  BY DEF ReplaceAvailability, Abort, Tick, SetFee, vars
<1>5. now' \in 0..Horizon
  BY HiringConstants DEF RestTyped, ReplaceAvailability, Abort, Tick, SetFee, vars
<1>6. fee' \in Fees
  BY DEF RestTyped, ReplaceAvailability, Abort, Tick, SetFee, vars
<1>7. window' \in [Creators -> Windows]
  BY DEF RestTyped, ReplaceAvailability, Abort, Tick, SetFee, vars
<1>8. QED
  BY <1>2, <1>3, <1>4, <1>5, <1>6, <1>7 DEF RestTyped

-----------------------------------------------------------------------------
(***************************************************************************)
(* The theorems.                                                           *)
(***************************************************************************)
LEMMA InitIInv == Init => IInv
<1> SUFFICES ASSUME Init PROVE IInv
  OBVIOUS
<1>1. /\ \A o \in Offers : offer[o] = NoRow
      /\ \A c \in Contracts : contract[c] = NoRow
      /\ \A kind, of : ~Holds(kind, of)
  BY DEF Init, Holds
<1>2. /\ \A i \in Invites : contract[i] = NoRow
      /\ \A o \in Offers, k \in Creators : contract[<<o, k>>] = NoRow
  BY <1>1 DEF Contracts, Hires
<1>3. RowsKnown
  BY <1>1, <1>2 DEF RowsKnown, IsRow, Init
<1>4. ClaimsHold /\ OneSelection /\ HiredFromClosed /\ OneHire
  BY <1>1, <1>2 DEF ClaimsHold, OneSelection, HiredFromClosed, OneHire
<1>5. TypeOK
  BY <1>1, HiringConstants DEF TypeOK, Init
<1>6. QED
  BY <1>3, <1>4, <1>5 DEF IInv, Core

LEMMA NextIInv == IInv /\ [Next]_vars => IInv'
<1> SUFFICES ASSUME IInv, [Next]_vars PROVE IInv'
  OBVIOUS
<1>1. RestTyped
  BY IInvTypes
<1>2. CASE OfferStep
  <2>1. PICK o \in Offers :
           \/ CreateOffer(o) \/ CancelOfferRead(o) \/ CancelOfferSave(o)
           \/ \E k \in Creators :
                 \/ ApplyCheck(o, k) \/ ApplyInsert(o, k)
                 \/ WithdrawRead(o, k) \/ WithdrawSave(o, k)
                 \/ SelectCheck(o, k) \/ SelectCommit(o, k)
    BY <1>2 DEF OfferStep
  <2>2. Core' /\ RestTyped'
    BY <1>1, <2>1, CreateOfferKeeps, CancelOfferReadKeeps, CancelOfferSaveKeeps,
       ApplyKeeps, WithdrawKeeps, SelectKeeps
  <2>3. QED
    BY <2>2, IInvFromParts
<1>3. CASE InviteStep
  BY <1>1, <1>3, InvitesKeep, IInvFromParts
<1>4. CASE BookingStep
  BY <1>1, <1>4, BookingsKeep, IInvFromParts
<1>5. CASE \/ \E k \in Creators, rule \in Windows : ReplaceAvailability(k, rule)
           \/ \E claim \in claims : Abort(claim)
           \/ Tick
           \/ \E bps \in Fees : SetFee(bps)
           \/ UNCHANGED vars
  BY <1>1, <1>5, OthersKeep, IInvFromParts
<1>6. QED
  BY <1>2, <1>3, <1>4, <1>5 DEF Next

\* The inductive invariant holds of every reachable state, whatever the requests
\* of open-offers/, contract-requests/, bookings/ and availability/ interleave.
THEOREM Invariance == Spec => []IInv
<1>1. Init => IInv
  BY InitIInv
<1>2. IInv /\ [Next]_vars => IInv'
  BY NextIInv
<1>3. QED
  BY <1>1, <1>2, PTL DEF Spec

\* The rows, the clock, the fee and the claims are always of their types.
THEOREM TypeCorrect == Spec => []TypeOK
<1>1. IInv => TypeOK
  BY DEF IInv
<1>2. QED
  BY <1>1, Invariance, PTL

LEMMA AtMostOne ==
    ASSUME NEW S, \A x, y \in S : x = y
    PROVE  Cardinality(S) <= 1
<1>1. CASE S = {}
  <2>1. Cardinality(S) = 0
    BY <1>1, FS_EmptySet
  <2>2. QED
    BY <2>1
<1>2. CASE S # {}
  <2>1. PICK x \in S : S = {x}
    BY <1>2
  <2>2. Cardinality(S) = 1
    BY <2>1, FS_Singleton
  <2>3. QED
    BY <2>2
<1>3. QED
  BY <1>1, <1>2

LEMMA IInvHiresOnce == ASSUME IInv PROVE HiredOnce
<1> SUFFICES ASSUME NEW o \in Offers
             PROVE  Cardinality({k \in Creators : contract[<<o, k>>] # NoRow}) <= 1
  BY DEF HiredOnce
<1>1. \A k, j \in {k \in Creators : contract[<<o, k>>] # NoRow} : k = j
  BY DEF IInv, Core, OneHire
<1>2. QED
  BY <1>1, AtMostOne

\* The selection of an offer's creator (open-offers.service.ts selectCreator) makes
\* at most one contract of the offer, because the offer's row stays locked from the
\* check of its status to the commit, and the offer's cancellation waits for it.
THEOREM OfferHiresOnce == Spec => []HiredOnce
<1>1. IInv => HiredOnce
  BY IInvHiresOnce
<1>2. QED
  BY <1>1, Invariance, PTL

LEMMA IInvKeepsTerms == ASSUME IInv PROVE TermsKept
<1> SUFFICES ASSUME NEW o \in Offers, NEW k \in Creators, contract[<<o, k>>] # NoRow
             PROVE  LET terms == contract[<<o, k>>].terms
                    IN  /\ terms.service = offer[o].terms
                        /\ terms.companyTotalAmountCents
                             = terms.creatorPayoutAmountCents
                                 + terms.service.platformFeeAmountCents
  BY DEF TermsKept
<1>1. contract[<<o, k>>].terms = HireTerms(o)
  <2>1. IsRow(contract[<<o, k>>], ContractStatus, {HireTerms(o)})
    BY DEF IInv, Core, RowsKnown
  <2>2. PICK s \in ContractStatus : contract[<<o, k>>] = Row(s, HireTerms(o))
    BY <2>1 DEF IsRow
  <2>3. QED
    BY <2>2 DEF Row
<1>2. PICK bps \in Fees : offer[o].terms = ServiceSnapshot(Gross[o], bps)
  <2>1. IsRow(offer[o], OpenOfferStatus, OfferTerms(o)) /\ offer[o] # NoRow
    BY DEF IInv, Core, RowsKnown, HiredFromClosed
  <2>2. PICK s \in OpenOfferStatus, t \in OfferTerms(o) : offer[o] = Row(s, t)
    BY <2>1 DEF IsRow
  <2>3. offer[o].terms = t
    BY <2>2 DEF Row
  <2>4. QED
    BY <2>3 DEF OfferTerms
<1>3. HireTerms(o) = ContractSnapshot(Gross[o], bps, 0)
  BY <1>2 DEF HireTerms, ServiceSnapshot
<1>4. Gross[o] \in Nat /\ bps \in 0..BasisPoints
  BY HiringConstants
<1>5. ContractSnapshot(Gross[o], bps, 0).service = offer[o].terms
  BY <1>2 DEF ContractSnapshot
<1>6. LET c == ContractSnapshot(Gross[o], bps, 0)
      IN  c.companyTotalAmountCents
            = c.creatorPayoutAmountCents + c.service.platformFeeAmountCents
  BY <1>4, ContractIsBalanced
<1>7. QED
  BY <1>1, <1>3, <1>5, <1>6

\* What a hire's contract says of the fee is what its offer was published with,
\* whatever the platform's fee has become since, and its amounts add up.
THEOREM HireKeepsTerms == Spec => []TermsKept
<1>1. IInv => TermsKept
  BY IInvKeepsTerms
<1>2. QED
  BY <1>1, Invariance, PTL
-----------------------------------------------------------------------------
(***************************************************************************)
(* What the hubs show of an application.                                   *)
(***************************************************************************)
\* Whoever applied, is about to, or is about to withdraw, found a published offer.
AppliedToAnOffer ==
    \A o \in Offers, k \in Creators :
        \/ application[<<o, k>>] # NONE
        \/ Holds("apply", <<o, k>>)
        \/ Holds("withdraw", <<o, k>>)
        => offer[o] # NoRow

\* No step takes an offer's row away.
LEMMA OffersStay ==
    ASSUME IInv, [Next]_vars, NEW o \in Offers, offer[o] # NoRow
    PROVE  offer'[o] # NoRow
<1>1. offer = [p \in Offers |-> offer[p]]
  BY DEF IInv, Core, RowsKnown
<1>2. CASE offer' = offer
  BY <1>2
<1>3. ASSUME NEW p \in Offers, NEW terms, offer' = [offer EXCEPT ![p] = Row("OPEN", terms)]
      PROVE  offer'[o] # NoRow
  <2>1. Row("OPEN", terms) # NoRow
    BY RowIsNotNoRow DEF NONE
  <2>2. QED
    BY <1>1, <1>3, <2>1
<1>4. ASSUME NEW p \in Offers, NEW to \in OpenOfferStatus,
             offer' = [offer EXCEPT ![p].status = to]
      PROVE  offer'[o] # NoRow
  <2>1. IsRow(offer[o], OpenOfferStatus, OfferTerms(o))
    BY DEF IInv, Core, RowsKnown
  <2>2. [offer[o] EXCEPT !.status = to].status = to
    BY <2>1, MoveIsRow
  <2>3. CASE p = o
    BY <1>1, <1>4, <2>2, <2>3, StatusesAreNotNone
  <2>4. CASE p # o
    BY <1>1, <1>4, <2>4
  <2>5. QED
    BY <2>3, <2>4
<1>5. CASE OfferStep
  <2>1. {"OPEN", "FILLED", "CANCELLED"} \subseteq OpenOfferStatus
    BY DEF OpenOfferStatus
  <2>2. QED
    BY <1>2, <1>3, <1>4, <1>5, <2>1
    DEF OfferStep, CreateOffer, CancelOfferRead, CancelOfferSave, ApplyCheck, ApplyInsert,
        WithdrawRead, WithdrawSave, SelectCheck, SelectCommit, Select
<1>6. CASE ~OfferStep
  BY <1>2, <1>6
  DEF Next, vars, InviteStep, Create, ConfirmPayment, Reject, Cancel, Move, AcceptCheck,
      AcceptCommit, BookingStep, BookCheck, BookCommit, AcceptBooking, RejectBooking,
      CancelBooking, UpdateBookingStatus, ReplaceAvailability, Abort, Tick, SetFee
<1>7. QED
  BY <1>5, <1>6

\* A step that applies, or claims to, only where somebody did or the offer is there.
LEMMA AppliedFrame ==
    ASSUME IInv, AppliedToAnOffer, [Next]_vars,
           \A o \in Offers, k \in Creators :
              \/ (application[<<o, k>>] # NONE)'
              \/ Holds("apply", <<o, k>>)'
              \/ Holds("withdraw", <<o, k>>)'
              => \/ application[<<o, k>>] # NONE
                 \/ Holds("apply", <<o, k>>)
                 \/ Holds("withdraw", <<o, k>>)
                 \/ offer[o] # NoRow
    PROVE  AppliedToAnOffer'
<1> SUFFICES ASSUME NEW o \in Offers, NEW k \in Creators,
                    \/ (application[<<o, k>>] # NONE)'
                    \/ Holds("apply", <<o, k>>)'
                    \/ Holds("withdraw", <<o, k>>)'
             PROVE  offer'[o] # NoRow
  BY DEF AppliedToAnOffer
<1>1. offer[o] # NoRow
  BY DEF AppliedToAnOffer
<1>2. QED
  BY <1>1, OffersStay

LEMMA AppliedLeftAlone ==
    ASSUME IInv, AppliedToAnOffer, [Next]_vars, application' = application,
           claims' \subseteq claims
    PROVE  AppliedToAnOffer'
BY FewerClaims, AppliedFrame

\* A claim of another kind, or one for a published offer.
LEMMA AppliedWhenTaken ==
    ASSUME IInv, AppliedToAnOffer, [Next]_vars, application' = application,
           NEW kind, NEW of, Take(kind, of),
           kind \in {"apply", "withdraw"} =>
              \E p \in Offers, j \in Creators :
                 of = <<p, j>> /\ (offer[p] # NoRow \/ application[of] # NONE)
    PROVE  AppliedToAnOffer'
<1> SUFFICES ASSUME NEW o \in Offers, NEW k \in Creators,
                    Holds("apply", <<o, k>>)' \/ Holds("withdraw", <<o, k>>)'
             PROVE  \/ application[<<o, k>>] # NONE
                    \/ Holds("apply", <<o, k>>)
                    \/ Holds("withdraw", <<o, k>>)
                    \/ offer[o] # NoRow
  BY AppliedFrame
<1>1. CASE kind \in {"apply", "withdraw"} /\ of = <<o, k>>
  BY <1>1
<1>2. CASE ~(kind \in {"apply", "withdraw"} /\ of = <<o, k>>)
  BY <1>2, TakenClaims
<1>3. QED
  BY <1>1, <1>2

\* Applications that are there are written over, and nothing else is.
LEMMA AppliedWhenWritten ==
    ASSUME IInv, AppliedToAnOffer, [Next]_vars, claims' \subseteq claims,
           \A h \in Hires : application'[h] # NONE =>
              application[h] # NONE \/ Holds("apply", h) \/ Holds("withdraw", h)
                 \/ offer[h[1]] # NoRow
    PROVE  AppliedToAnOffer'
<1> SUFFICES ASSUME NEW o \in Offers, NEW k \in Creators,
                    \/ application'[<<o, k>>] # NONE
                    \/ Holds("apply", <<o, k>>)'
                    \/ Holds("withdraw", <<o, k>>)'
             PROVE  \/ application[<<o, k>>] # NONE
                    \/ Holds("apply", <<o, k>>)
                    \/ Holds("withdraw", <<o, k>>)
                    \/ offer[o] # NoRow
  BY AppliedFrame
<1>1. <<o, k>> \in Hires /\ <<o, k>>[1] = o
  BY DEF Hires
<1>2. QED
  BY <1>1, FewerClaims

LEMMA RejectingWritesOver ==
    ASSUME IInv, NEW o \in Offers, NEW but, NEW h \in Hires
    PROVE  RejectPending(o, but)[h] # NONE => application[h] # NONE
BY DEF RejectPending, NONE

LEMMA NextApplied ==
    ASSUME IInv, AppliedToAnOffer, [Next]_vars
    PROVE  AppliedToAnOffer'
<1>1. application \in [Hires -> ApplicationStatus \cup {NONE}]
  BY DEF IInv, TypeOK
<1>2. ASSUME NEW o \in Offers, CancelOfferSave(o)
      PROVE  AppliedToAnOffer'
  BY <1>2, DroppedClaims, RejectingWritesOver, AppliedWhenWritten DEF CancelOfferSave
<1>3. ASSUME NEW o \in Offers, CancelOfferRead(o)
      PROVE  AppliedToAnOffer'
  <2>1. Take("cancelOffer", o) /\ application' = application
    BY <1>3 DEF CancelOfferRead
  <2>2. QED
    BY <2>1, AppliedWhenTaken
<1>4. ASSUME NEW o \in Offers, NEW k \in Creators, ApplyCheck(o, k)
      PROVE  AppliedToAnOffer'
  <2>1. Take("apply", <<o, k>>) /\ application' = application /\ offer[o] # NoRow
    BY <1>4, StatusesAreNotNone DEF ApplyCheck, Open, NONE
  <2>2. QED
    BY <2>1, AppliedWhenTaken
<1>5. ASSUME NEW o \in Offers, NEW k \in Creators, ApplyInsert(o, k)
      PROVE  AppliedToAnOffer'
  <2>1. Drop("apply", <<o, k>>)
    BY <1>5 DEF ApplyInsert
  <2>2. claims' \subseteq claims /\ Holds("apply", <<o, k>>)
    BY <2>1, DroppedClaims
  <2>3. \A h \in Hires : h # <<o, k>> => application'[h] = application[h]
    BY <1>1, <1>5 DEF ApplyInsert
  <2>4. QED
    BY <2>2, <2>3, AppliedWhenWritten
<1>6. ASSUME NEW o \in Offers, NEW k \in Creators, WithdrawRead(o, k)
      PROVE  AppliedToAnOffer'
  <2>1. /\ Take("withdraw", <<o, k>>) /\ application' = application
        /\ application[<<o, k>>] # NONE
    BY <1>6 DEF WithdrawRead, NONE
  <2>2. QED
    BY <2>1, AppliedWhenTaken
<1>7. ASSUME NEW o \in Offers, NEW k \in Creators, WithdrawSave(o, k)
      PROVE  AppliedToAnOffer'
  <2>1. Drop("withdraw", <<o, k>>)
    BY <1>7 DEF WithdrawSave
  <2>2. claims' \subseteq claims /\ Holds("withdraw", <<o, k>>)
    BY <2>1, DroppedClaims
  <2>3. \A h \in Hires : h # <<o, k>> => application'[h] = application[h]
    BY <1>1, <1>7 DEF WithdrawSave
  <2>4. QED
    BY <2>2, <2>3, AppliedWhenWritten
<1>8. ASSUME NEW o \in Offers, NEW k \in Creators, SelectCheck(o, k)
      PROVE  AppliedToAnOffer'
  <2>1. Take("select", <<o, k>>) /\ application' = application
    BY <1>8 DEF SelectCheck
  <2>2. QED
    BY <2>1, AppliedWhenTaken
<1>9. ASSUME NEW o \in Offers, NEW k \in Creators, SelectCommit(o, k)
      PROVE  AppliedToAnOffer'
  <2>1. Drop("select", <<o, k>>)
    BY <1>9 DEF SelectCommit
  <2>2. claims' \subseteq claims /\ offer[o] # NoRow
    BY <2>1, DroppedClaims, StatusesAreNotNone DEF IInv, Core, ClaimsHold, Open, NONE
  <2>3. CASE DescriptionMissing
    BY <1>9, <2>2, <2>3, AppliedLeftAlone DEF SelectCommit
  <2>4. CASE ~DescriptionMissing
    <3>1. application' = [RejectPending(o, k) EXCEPT ![<<o, k>>] = "SELECTED"]
      BY <1>9, <2>4 DEF SelectCommit, Select
    <3>2. ASSUME NEW h \in Hires, application'[h] # NONE
          PROVE  application[h] # NONE \/ offer[h[1]] # NoRow
      <4>1. CASE h = <<o, k>>
        BY <2>2, <4>1
      <4>2. CASE h # <<o, k>>
        <5>1. application'[h] = RejectPending(o, k)[h]
          BY <3>1, <4>2 DEF RejectPending
        <5>2. QED
          BY <3>2, <5>1, RejectingWritesOver
      <4>3. QED
        BY <4>1, <4>2
    <3>3. QED
      BY <2>2, <3>2, AppliedWhenWritten
  <2>5. QED
    BY <2>3, <2>4
<1>10. ASSUME NEW o \in Offers, CreateOffer(o)
       PROVE  AppliedToAnOffer'
  BY <1>10, AppliedLeftAlone DEF CreateOffer
<1>11. ASSUME NEW kind, kind \notin {"apply", "withdraw"}, NEW of, Take(kind, of),
              application' = application
       PROVE  AppliedToAnOffer'
  BY <1>11, AppliedWhenTaken
<1>12. CASE InviteStep
  <2>1. ASSUME NEW i \in Invites, AcceptCheck(i)
        PROVE  AppliedToAnOffer'
    BY <1>11, <2>1 DEF AcceptCheck
  <2>2. ASSUME NEW i \in Invites, AcceptCommit(i)
        PROVE  AppliedToAnOffer'
    BY <2>2, DroppedClaims, AppliedLeftAlone DEF AcceptCommit
  <2>3. ASSUME application' = application, claims' = claims
        PROVE  AppliedToAnOffer'
    BY <2>3, AppliedLeftAlone
  <2>4. QED
    BY <1>12, <2>1, <2>2, <2>3 DEF InviteStep, Create, ConfirmPayment, Reject, Cancel, Move
<1>13. CASE BookingStep
  <2>1. ASSUME NEW b \in Bookings, BookCheck(b)
        PROVE  AppliedToAnOffer'
    BY <1>11, <2>1 DEF BookCheck
  <2>2. ASSUME NEW b \in Bookings, BookCommit(b)
        PROVE  AppliedToAnOffer'
    BY <2>2, DroppedClaims, AppliedLeftAlone DEF BookCommit
  <2>3. ASSUME application' = application, claims' = claims
        PROVE  AppliedToAnOffer'
    BY <2>3, AppliedLeftAlone
  <2>4. QED
    BY <1>13, <2>1, <2>2, <2>3
    DEF BookingStep, AcceptBooking, RejectBooking, CancelBooking, UpdateBookingStatus
<1>14. CASE \/ \E k \in Creators, rule \in Windows : ReplaceAvailability(k, rule)
            \/ \E claim \in claims : Abort(claim)
            \/ Tick
            \/ \E bps \in Fees : SetFee(bps)
            \/ UNCHANGED vars
  BY <1>14, AppliedLeftAlone DEF ReplaceAvailability, Abort, Tick, SetFee, vars
<1>15. CASE OfferStep
  BY <1>2, <1>3, <1>4, <1>5, <1>6, <1>7, <1>8, <1>9, <1>10, <1>15 DEF OfferStep
<1>16. QED
  BY <1>12, <1>13, <1>14, <1>15 DEF Next

LEMMA AppliedInvariance == Spec => []AppliedToAnOffer
<1>1. Init => AppliedToAnOffer
  BY DEF Init, AppliedToAnOffer, Holds, Hires
<1>2. QED
  BY <1>1, NextApplied, Invariance, PTL DEF Spec

LEMMA ShownFollows == ASSUME IInv, AppliedToAnOffer PROVE ShownPendingIsOpen
<1> SUFFICES ASSUME NEW o \in Offers, NEW k \in Creators,
                    Hub!ApplicationSection(Hub!ApplicationDisplayStatus(
                       application[<<o, k>>], offer[o].status, Expired(o))) = {"applications"}
             PROVE  /\ Hub!OfferSection(offer[o].status, Expired(o)) = {"openOffers"}
                    /\ "review_applications" \in
                          Hub!OfferItem("openOffers", Cardinality(Pending(o))).availableActions
  BY DEF ShownPendingIsOpen
<1>1. Hub!ApplicationDisplayStatus(application[<<o, k>>], offer[o].status, Expired(o))
         = "APPLICATION_PENDING"
  BY DEF Hub!ApplicationSection
<1>2. /\ application[<<o, k>>] = "PENDING"
      /\ ~Expired(o)
      /\ offer[o].status \notin {"FILLED", "CANCELLED"}
  BY <1>1 DEF Hub!ApplicationDisplayStatus
<1>3. offer[o].status = "OPEN"
  BY <1>2 DEF AppliedToAnOffer, NONE, IInv, TypeOK, OpenOfferStatus
<1>4. Hub!OfferSection(offer[o].status, Expired(o)) = {"openOffers"}
  BY <1>2, <1>3 DEF Hub!OfferSection
<1>5. Cardinality(Pending(o)) > 0
  <2>1. k \in Pending(o) /\ Pending(o) \subseteq Creators
    BY <1>2 DEF Pending
  <2>2. IsFiniteSet(Pending(o))
    BY <2>1, HiringConstants, FS_Subset
  <2>3. Cardinality(Pending(o)) \in Nat /\ Cardinality(Pending(o)) # 0
    BY <2>1, <2>2, FS_CardinalityType, FS_EmptySet
  <2>4. QED
    BY <2>3
<1>6. "review_applications" \in
         Hub!OfferItem("openOffers", Cardinality(Pending(o))).availableActions
  <2> DEFINE n == Cardinality(Pending(o))
  <2>1. n > 0
    BY <1>5
  <2> HIDE DEF n
  <2>2. Hub!CompanyAvailableActions("REVIEW_REQUIRED") = {"review_applications"}
    BY DEF Hub!CompanyAvailableActions
  <2>3. Hub!OfferItem("openOffers", n).availableActions
           = Hub!CompanyAvailableActions("REVIEW_REQUIRED")
    BY <2>1 DEF Hub!OfferItem
  <2>4. QED
    BY <2>2, <2>3 DEF n
<1>7. QED
  BY <1>4, <1>6

\* An application its creator is shown as pending (creator-offers.service.ts) is on
\* an offer that the company is shown as open and asked to review
\* (company-offers.service.ts), also when it was inserted after the offer had ended.
THEOREM ShownApplicationsAreOpen == Spec => []ShownPendingIsOpen
BY ShownFollows, Invariance, AppliedInvariance, PTL
=============================================================================
