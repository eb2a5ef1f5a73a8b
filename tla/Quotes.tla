------------------------------- MODULE Quotes -------------------------------
(***************************************************************************)
(* The amounts of an offer and of a contract, in cents:                    *)
(* contract-requests/services/pricing.service.ts, transport.service.ts and *)
(* financial-snapshot.service.ts.  A distance is in hundredths of a km, a  *)
(* rate of the platform in basis points.  JavaScript's floating point is   *)
(* taken as exact.                                                         *)
(***************************************************************************)
EXTENDS Integers

BasisPoints == 10000

\* Math.round(n / d) of numbers that are not negative: half goes up.
Rounded(n, d) == (2 * n + d) \div (2 * d)

Larger(a, b) == IF a >= b THEN a ELSE b

(***************************************************************************)
(* What the service costs, and how the platform and the creator share it.  *)
(***************************************************************************)
ServiceSnapshot(gross, bps) ==
    LET fee == Rounded(gross * bps, BasisPoints)
    IN  [serviceGrossAmountCents |-> gross,
         platformFeeBpsSnapshot |-> bps,
         platformFeeAmountCents |-> fee,
         creatorNetServiceAmountCents |-> gross - fee]

(***************************************************************************)
(* The creator's transport: by the kilometre, but never below a minimum.   *)
(***************************************************************************)
Transport(distance, pricePerKm, minimum) ==
    LET price == Larger(Rounded(distance * pricePerKm, 100), minimum)
    IN  [transportFeeAmountCents |-> price,
         transportPricePerKmUsed |-> pricePerKm,
         transportMinimumFeeUsed |-> minimum,
         transportIsMinimumApplied |-> price = minimum]

(***************************************************************************)
(* The terms of a contract: the creator receives the net service and the   *)
(* transport, the company pays the gross service and the transport.        *)
(***************************************************************************)
ContractSnapshot(gross, bps, transportFee) ==
    LET service == ServiceSnapshot(gross, bps)
    IN  [service |-> service,
         transportFeeAmountCents |-> transportFee,
         creatorPayoutAmountCents |-> service.creatorNetServiceAmountCents + transportFee,
         companyTotalAmountCents |-> gross + transportFee]
=============================================================================
