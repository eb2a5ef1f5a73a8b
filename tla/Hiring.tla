------------------------------- MODULE Hiring -------------------------------
(***************************************************************************)
(* How a creator's time is sold: open offers and their applications        *)
(* (open-offers/), direct invites (contract-requests/), bookings           *)
(* (bookings/), the weekly availability (availability/), and the conflict  *)
(* check they share (scheduling/scheduling-conflict.service.ts).           *)
(*                                                                         *)
(* A handler that awaits between its check and its write is two actions,   *)
(* a claim in between; what its row locks keep away while the claim stands *)
(* is a guard of the others.  A handler whose reads are all under the lock *)
(* it writes under is one action.  Creators here are within the radius of  *)
(* the offers, companies have accepted the hiring terms, and addresses are *)
(* found.                                                                  *)
(***************************************************************************)
EXTENDS Quotes, FiniteSets

Hub == INSTANCE Hubs

CONSTANTS Offers,      \* open offers
          Invites,     \* direct contract requests
          Bookings,    \* bookings
          Creators,
          CreatorOf,   \* the creator of an invite or a booking
          From, To,    \* when the job of an offer, an invite or a booking starts and ends
          ExpiresAt,   \* when an offer closes
          Gross,       \* what an offer or an invite pays, in cents
          Fees,        \* fees of the platform, in basis points
          Windows,     \* rules a creator may set for the day: sets of [from, to], in minutes of
                       \* the day; empty when inactive
          Second, Minute, Hour, Day, \* their lengths, in instants
          Midnight,    \* the minute that Intl reads at 00:00: 0, or that of 24:00
          DescriptionMissing, \* BOOLEAN: the hired contract's NOT NULL description has no value
          Racing,      \* creators whose requests may cross; the others' wait for each other
          Horizon      \* bound: the last instant

Hires == Offers \X Creators
Jobs == Offers \cup Invites \cup Bookings
Contracts == Invites \cup Hires

\* Of the tables only the creators' is counted.
ASSUME HiringConstants ==
    /\ IsFiniteSet(Creators)
    /\ Invites \cap Hires = {} /\ Bookings \cap Contracts = {}
    /\ CreatorOf \in [Invites \cup Bookings -> Creators]
    /\ From \in [Jobs -> Nat] /\ To \in [Jobs -> Nat]
    /\ \A job \in Jobs : From[job] < To[job]
    /\ ExpiresAt \in [Offers -> Nat]
    /\ Gross \in [Offers \cup Invites -> Nat]
    /\ Fees \subseteq 0..BasisPoints /\ Fees # {}
    /\ Windows \subseteq SUBSET [from : Nat, to : Nat]
    /\ {Second, Minute, Hour, Day} \subseteq Nat \ {0}
    /\ Second <= Minute /\ Minute <= Hour /\ Hour <= Day
    /\ Midnight \in {0, Day \div Minute}
    /\ DescriptionMissing \in BOOLEAN
    /\ Racing \subseteq Creators
    /\ Horizon \in Nat

VARIABLES now,
          fee,          \* platform_settings.platformFeeBps
          offer,        \* open_offers
          application,  \* open_offer_applications
          contract,     \* contract_requests
          booking,      \* bookings
          window,       \* availability_rules
          claims        \* handlers between their check and their write

vars == <<now, fee, offer, application, contract, booking, window, claims>>

OpenOfferStatus == {"OPEN", "FILLED", "CANCELLED"}
ApplicationStatus == {"PENDING", "SELECTED", "REJECTED", "WITHDRAWN"}
BookingStatus == {"PENDING", "CONFIRMED", "REJECTED", "CANCELLED"}
BlockingBookingStatus == {"PENDING", "CONFIRMED"}
ContractStatus == {"PENDING_PAYMENT", "PENDING_ACCEPTANCE", "ACCEPTED", "REJECTED", "CANCELLED"}

\* No row yet.
NONE == "NONE"
NoRow == [status |-> NONE]
Row(status, terms) == [status |-> status, terms |-> terms]

Claim == [kind : {"cancelOffer"}, of : Offers]
    \cup [kind : {"apply", "withdraw", "select"}, of : Hires]
    \cup [kind : {"accept"}, of : Invites]
    \cup [kind : {"book"}, of : Bookings]

TypeOK ==
    /\ now \in 0..Horizon
    /\ fee \in Fees
    /\ \A o \in Offers : offer[o] # NoRow => offer[o].status \in OpenOfferStatus
    /\ application \in [Hires -> ApplicationStatus \cup {NONE}]
    /\ \A c \in Contracts : contract[c] # NoRow => contract[c].status \in ContractStatus
    /\ booking \in [Bookings -> BookingStatus \cup {NONE}]
    /\ window \in [Creators -> Windows]
    /\ claims \subseteq Claim

Init ==
    /\ now = 0
    /\ fee \in Fees
    /\ offer = [o \in Offers |-> NoRow]
    /\ application = [h \in Hires |-> NONE]
    /\ contract = [c \in Contracts |-> NoRow]
    /\ booking = [b \in Bookings |-> NONE]
    /\ window \in [Creators -> Windows]
    /\ claims = {}

-----------------------------------------------------------------------------
(***************************************************************************)
(* The agenda of a creator.                                                *)
(***************************************************************************)
JobOf(c) == IF c \in Invites THEN c ELSE c[1]
HiredOf(c) == IF c \in Invites THEN CreatorOf[c] ELSE c[2]

Overlap(job, other) == From[job] < To[other] /\ From[other] < To[job]

\* findOverlappingBlockingBookings
BookedAt(k, job) ==
    {b \in Bookings : CreatorOf[b] = k /\ booking[b] \in BlockingBookingStatus /\ Overlap(job, b)}

\* findOverlappingAcceptedRequests
HiredAt(k, job) ==
    {c \in Contracts : HiredOf(c) = k /\ contract[c].status = "ACCEPTED" /\ Overlap(job, JobOf(c))}

HasConflicts(k, job, ignored) == BookedAt(k, job) # {} \/ HiredAt(k, job) \ ignored # {}

(***************************************************************************)
(* Claims, and the rows they lock: select its offer and its application,   *)
(* accept its contract, and a booking the user row of its creator.  A row  *)
(* inserted for a creator needs a share lock of the creator's user row,    *)
(* and an application one of its offer.                                    *)
(***************************************************************************)
Claiming(kind, of) == [kind |-> kind, of |-> of]
Holds(kind, of) == Claiming(kind, of) \in claims
Take(kind, of) == ~Holds(kind, of) /\ claims' = claims \cup {Claiming(kind, of)}
Drop(kind, of) == Holds(kind, of) /\ claims' = claims \ {Claiming(kind, of)}

OfferLocked(o) == \E k \in Creators : Holds("select", <<o, k>>)
UserLocked(k) == \E b \in Bookings : CreatorOf[b] = k /\ Holds("book", b)

\* Somebody is between the conflict check of k's agenda and the write.
Contended(k) == \/ UserLocked(k)
                \/ \E o \in Offers : Holds("select", <<o, k>>)
                \/ \E i \in Invites : CreatorOf[i] = k /\ Holds("accept", i)
MayStart(k) == k \in Racing \/ ~Contended(k)

\* The request dies and its transaction is rolled back.
Abort(claim) ==
    /\ claims' = claims \ {claim}
    /\ UNCHANGED <<now, fee, offer, application, contract, booking, window>>
-----------------------------------------------------------------------------
(***************************************************************************)
(* Open offers.                                                            *)
(***************************************************************************)
Expired(o) == ExpiresAt[o] <= now
Open(o) == offer[o].status = "OPEN"

CreateOffer(o) ==
    /\ offer[o] = NoRow
    /\ ~Expired(o)
    /\ ExpiresAt[o] < From[o]
    /\ offer' = [offer EXCEPT ![o] = Row("OPEN", ServiceSnapshot(Gross[o], fee))]
    /\ UNCHANGED <<now, fee, application, contract, booking, window, claims>>

CancelOfferRead(o) ==
    /\ Open(o) /\ ~Expired(o)
    /\ Take("cancelOffer", o)
    /\ UNCHANGED <<now, fee, offer, application, contract, booking, window>>

\* The offer's PENDING applications, but for one, are rejected.
RejectPending(o, but) ==
    [h \in Hires |-> IF h[1] = o /\ h[2] # but /\ application[h] = "PENDING"
                     THEN "REJECTED" ELSE application[h]]

\* The copy read before the transaction is saved: the status is not looked at again.
CancelOfferSave(o) ==
    /\ ~OfferLocked(o)
    /\ Drop("cancelOffer", o)
    /\ offer' = [offer EXCEPT ![o].status = "CANCELLED"]
    /\ application' = RejectPending(o, NONE)
    /\ UNCHANGED <<now, fee, contract, booking, window>>

ApplyCheck(o, k) ==
    /\ Open(o) /\ ~Expired(o)
    /\ application[<<o, k>>] = NONE
    /\ ~HasConflicts(k, o, {})
    /\ Take("apply", <<o, k>>)
    /\ UNCHANGED <<now, fee, offer, application, contract, booking, window>>

\* The unique key leaves a second insert without effect.
ApplyInsert(o, k) ==
    /\ ~OfferLocked(o) /\ ~UserLocked(k)
    /\ Drop("apply", <<o, k>>)
    /\ application' = [application EXCEPT ![<<o, k>>] = IF @ = NONE THEN "PENDING" ELSE @]
    /\ UNCHANGED <<now, fee, offer, contract, booking, window>>

WithdrawRead(o, k) ==
    /\ application[<<o, k>>] = "PENDING"
    /\ Take("withdraw", <<o, k>>)
    /\ UNCHANGED <<now, fee, offer, application, contract, booking, window>>

WithdrawSave(o, k) ==
    /\ ~Holds("select", <<o, k>>)
    /\ Drop("withdraw", <<o, k>>)
    /\ application' = [application EXCEPT ![<<o, k>>] = "WITHDRAWN"]
    /\ UNCHANGED <<now, fee, offer, contract, booking, window>>

\* Mutant: the offer is read without its lock.
SelectCheckUnlocked(o, k) ==
    /\ Open(o) /\ ~Expired(o)
    /\ application[<<o, k>>] = "PENDING"
    /\ ~HasConflicts(k, o, {})
    /\ Take("select", <<o, k>>)
    /\ UNCHANGED <<now, fee, offer, application, contract, booking, window>>

SelectCheck(o, k) ==
    /\ ~OfferLocked(o)
    /\ Open(o) /\ ~Expired(o)
    /\ application[<<o, k>>] = "PENDING"
    /\ MayStart(k)
    /\ ~HasConflicts(k, o, {})
    /\ Take("select", <<o, k>>)
    /\ UNCHANGED <<now, fee, offer, application, contract, booking, window>>

\* Mutant: the platform's fee is asked for again.
HireTermsOfToday(o) == ContractSnapshot(Gross[o], fee, 0)

\* What the transport of a hire costs does not matter here.
HireTerms(o) == ContractSnapshot(Gross[o], offer[o].terms.platformFeeBpsSnapshot, 0)

Select(o, k) ==
    /\ contract' = [contract EXCEPT ![<<o, k>>] = Row("ACCEPTED", HireTerms(o))]
    /\ application' = [RejectPending(o, k) EXCEPT ![<<o, k>>] = "SELECTED"]
    /\ offer' = [offer EXCEPT ![o].status = "FILLED"]

\* The insert of the contract passes no description, which the column requires:
\* the transaction is rolled back.
SelectCommit(o, k) ==
    /\ ~UserLocked(k)
    /\ Drop("select", <<o, k>>)
    /\ IF DescriptionMissing THEN UNCHANGED <<contract, application, offer>> ELSE Select(o, k)
    /\ UNCHANGED <<now, fee, booking, window>>
-----------------------------------------------------------------------------
(***************************************************************************)
(* Direct invites.                                                         *)
(***************************************************************************)
Create(i) ==
    /\ contract[i] = NoRow
    /\ ~UserLocked(CreatorOf[i])
    /\ ~HasConflicts(CreatorOf[i], i, {})
    /\ contract' = [contract EXCEPT
                     ![i] = Row("PENDING_PAYMENT", ContractSnapshot(Gross[i], fee, 0))]
    /\ UNCHANGED <<now, fee, offer, application, booking, window, claims>>

Move(i, from, to) ==
    /\ contract[i].status = from
    /\ ~Holds("accept", i)
    /\ contract' = [contract EXCEPT ![i].status = to]
    /\ UNCHANGED <<now, fee, offer, application, booking, window, claims>>

\* Mutant: the other spelling of the status.
CancelMisspelt(c) == Move(c, "ACCEPTED", "CANCELED")

ConfirmPayment(i) == Move(i, "PENDING_PAYMENT", "PENDING_ACCEPTANCE")
Reject(i) == Move(i, "PENDING_ACCEPTANCE", "REJECTED")
Cancel(c) == Move(c, "ACCEPTED", "CANCELLED")

\* Mutant: what the creation of the invite found is trusted.
AcceptCheckOnlyStatus(i) ==
    /\ contract[i].status = "PENDING_ACCEPTANCE"
    /\ MayStart(CreatorOf[i])
    /\ Take("accept", i)
    /\ UNCHANGED <<now, fee, offer, application, contract, booking, window>>

AcceptCheck(i) ==
    /\ contract[i].status = "PENDING_ACCEPTANCE"
    /\ MayStart(CreatorOf[i])
    /\ ~HasConflicts(CreatorOf[i], i, {i})
    /\ Take("accept", i)
    /\ UNCHANGED <<now, fee, offer, application, contract, booking, window>>

\* The conversation that is created with it has the creator as a participant.
AcceptCommit(i) ==
    /\ ~UserLocked(CreatorOf[i])
    /\ Drop("accept", i)
    /\ contract' = [contract EXCEPT ![i].status = "ACCEPTED"]
    /\ UNCHANGED <<now, fee, offer, application, booking, window>>
-----------------------------------------------------------------------------
(***************************************************************************)
(* Bookings and availability.                                              *)
(***************************************************************************)
StartOfDay(t) == Day * (t \div Day)

\* Mutant: the hours of a day are written from 00 to 23.
MinuteOfDayFromZero(t) == (t % Day) \div Minute

\* The time of day as getSaoPauloTime writes it: hour and minute, the first hour of
\* the day perhaps as 24, which convertTimeToMinutes refuses.
MinuteOfDay(t) == (IF t % Day < Hour THEN Midnight ELSE 0) + (t % Day) \div Minute

\* What validateNewBooking asks of the day: one day, but for a last second, and
\* minutes in the window.
FitsWindow(b, rule) ==
    /\ StartOfDay(From[b]) = StartOfDay(To[b] - Second)
    /\ {MinuteOfDay(From[b]), MinuteOfDay(To[b])} \subseteq 0..(Day \div Minute - 1)
    /\ \E w \in rule : MinuteOfDay(From[b]) >= w.from /\ MinuteOfDay(To[b]) <= w.to

\* Mutant: the creator's row is read without a lock.
BookCheckUnlocked(b) ==
    LET k == CreatorOf[b]
    IN  /\ booking[b] = NONE
        /\ MayStart(k)
        /\ From[b] > now
        /\ FitsWindow(b, window[k])
        /\ ~HasConflicts(k, b, {})
        /\ Take("book", b)
        /\ UNCHANGED <<now, fee, offer, application, contract, booking, window>>

BookCheck(b) ==
    LET k == CreatorOf[b]
    IN  /\ booking[b] = NONE
        /\ ~UserLocked(k)
        /\ MayStart(k)
        /\ From[b] > now
        /\ FitsWindow(b, window[k])
        /\ ~HasConflicts(k, b, {})
        /\ Take("book", b)
        /\ UNCHANGED <<now, fee, offer, application, contract, booking, window>>

BookCommit(b) ==
    /\ Drop("book", b)
    /\ booking' = [booking EXCEPT ![b] = "PENDING"]
    /\ UNCHANGED <<now, fee, offer, application, contract, window>>

UpdateBookingStatus(b, from, to) ==
    /\ booking[b] \in from
    /\ booking' = [booking EXCEPT ![b] = to]
    /\ UNCHANGED <<now, fee, offer, application, contract, window, claims>>

AcceptBooking(b) == UpdateBookingStatus(b, {"PENDING"}, "CONFIRMED")
RejectBooking(b) == UpdateBookingStatus(b, {"PENDING"}, "REJECTED")
CancelBooking(b) == UpdateBookingStatus(b, {"PENDING", "CONFIRMED"}, "CANCELLED")

\* Mutant: the user's row is not locked first.
ReplaceUnlocked(k, rule) ==
    /\ rule # window[k]
    /\ window' = [window EXCEPT ![k] = rule]
    /\ UNCHANGED <<now, fee, offer, application, contract, booking, claims>>

ReplaceAvailability(k, rule) ==
    /\ ~UserLocked(k)
    /\ rule # window[k]
    /\ window' = [window EXCEPT ![k] = rule]
    /\ UNCHANGED <<now, fee, offer, application, contract, booking, claims>>
-----------------------------------------------------------------------------
Tick ==
    /\ now < Horizon
    /\ now' = now + 1
    /\ UNCHANGED <<fee, offer, application, contract, booking, window, claims>>

SetFee(bps) ==
    /\ bps # fee
    /\ fee' = bps
    /\ UNCHANGED <<now, offer, application, contract, booking, window, claims>>

OfferStep ==
    \E o \in Offers :
       \/ CreateOffer(o) \/ CancelOfferRead(o) \/ CancelOfferSave(o)
       \/ \E k \in Creators :
             \/ ApplyCheck(o, k) \/ ApplyInsert(o, k)
             \/ WithdrawRead(o, k) \/ WithdrawSave(o, k)
             \/ SelectCheck(o, k) \/ SelectCommit(o, k)
InviteStep ==
    \/ \E i \in Invites : \/ Create(i) \/ ConfirmPayment(i) \/ Reject(i)
                          \/ AcceptCheck(i) \/ AcceptCommit(i)
    \/ \E c \in Contracts : Cancel(c)
BookingStep ==
    \E b \in Bookings : \/ BookCheck(b) \/ BookCommit(b)
                        \/ AcceptBooking(b) \/ RejectBooking(b) \/ CancelBooking(b)

Next ==
    \/ OfferStep \/ InviteStep \/ BookingStep
    \/ \E k \in Creators, rule \in Windows : ReplaceAvailability(k, rule)
    \/ \E claim \in claims : Abort(claim)
    \/ Tick
    \/ \E bps \in Fees : SetFee(bps)

Spec == Init /\ [][Next]_vars
-----------------------------------------------------------------------------
(***************************************************************************)
(* Properties that hold.                                                   *)
(***************************************************************************)
\* An offer hires one creator, however its company's selections cross with each
\* other, with applications and with the offer's cancellation.
HiredOnce ==
    \A o \in Offers : Cardinality({k \in Creators : contract[<<o, k>>] # NoRow}) <= 1

\* What holds the creator's time: bookings and accepted contracts.
Engaged(k) ==
    {b \in Bookings : CreatorOf[b] = k /\ booking[b] \in BlockingBookingStatus}
    \cup {c \in Contracts : HiredOf(c) = k /\ contract[c].status = "ACCEPTED"}
SlotOf(e) == IF e \in Bookings THEN e ELSE JobOf(e)

\* A creator whose requests do not cross is never engaged twice at a time,
\* whichever of offers, invites and bookings engaged them, and however long ago
\* the invite that is accepted was checked; and even requests that cross never
\* make two bookings that overlap.
NoDoubleBooking ==
    \A k \in Creators :
        \A e, f \in Engaged(k) :
            e # f /\ Overlap(SlotOf(e), SlotOf(f))
            => k \in Racing /\ {e, f} \cap Contracts # {}

\* A booking lies inside the window its creator had set when it was made, to the
\* minute: it starts no earlier than the window and ends less than a minute after
\* it, because the rule that was checked cannot be replaced before the booking is
\* there.  BookedFitsItsRule, below, is what the minute costs.
BookedInsideWindow ==
    [][\A b \in Bookings :
          booking[b] = NONE /\ booking'[b] # NONE =>
             \E w \in window[CreatorOf[b]] :
                /\ w.from * Minute <= From[b] - StartOfDay(From[b])
                /\ To[b] - StartOfDay(From[b]) < (w.to + 1) * Minute]_vars

\* The fee of a hire is the fee its offer was published with, and what the
\* company pays is what the creator and the platform get.
TermsKept ==
    \A o \in Offers, k \in Creators : contract[<<o, k>>] # NoRow =>
        LET terms == contract[<<o, k>>].terms
        IN  /\ terms.service = offer[o].terms
            /\ terms.companyTotalAmountCents
                 = terms.creatorPayoutAmountCents + terms.service.platformFeeAmountCents

\* An application that slipped past the end of its offer, which nobody will ever
\* answer, is not shown to its creator as pending: every application shown so is
\* one that the company is asked to review, on an offer shown to it as open.
Pending(o) == {k \in Creators : application[<<o, k>>] = "PENDING"}
ShownPendingIsOpen ==
    \A o \in Offers, k \in Creators :
        LET shown == Hub!ApplicationDisplayStatus(application[<<o, k>>], offer[o].status, Expired(o))
            item == Hub!OfferItem("openOffers", Cardinality(Pending(o)))
        IN  Hub!ApplicationSection(shown) = {"applications"} =>
               /\ Hub!OfferSection(offer[o].status, Expired(o)) = {"openOffers"}
               /\ "review_applications" \in item.availableActions

-----------------------------------------------------------------------------
(***************************************************************************)
(* What the repository says of the program and the code does not keep.     *)
(***************************************************************************)
\* open-offers.service.ts: "Criar ContractRequest (sempre ACCEPTED)": a selection
\* whose checks have passed ends with an ACCEPTED contract, unless it is aborted.
SelectionHires ==
    [][\A o \in Offers, k \in Creators :
          SelectCommit(o, k) => contract'[<<o, k>>].status = "ACCEPTED"]_vars

\* docs/AGENDA_E_BOOKING_ARQUITETURA.md: "booking precisa caber totalmente dentro de
\* uma AvailabilityRule": a booking is over when the window of its creator ends.
BookedFitsItsRule ==
    [][\A b \in Bookings :
          booking[b] = NONE /\ booking'[b] # NONE =>
             \E w \in window[CreatorOf[b]] :
                /\ w.from * Minute <= From[b] - StartOfDay(From[b])
                /\ To[b] - StartOfDay(From[b]) <= w.to * Minute]_vars
=============================================================================
