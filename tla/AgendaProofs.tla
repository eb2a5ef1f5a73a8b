---------------------------- MODULE AgendaProofs ----------------------------
(***************************************************************************)
(* The agenda of a creator in module Hiring, for any offers, invites,      *)
(* bookings, creators and times: what the row locks and the conflict check *)
(* of scheduling-conflict.service.ts keep together.                        *)
(*                                                                         *)
(* Whoever engages a creator writes what a claim has found free, and what  *)
(* it found free has stayed free because no other claim on that agenda     *)
(* stood in between.                                                       *)
(***************************************************************************)
EXTENDS HiringProofs

-----------------------------------------------------------------------------
(***************************************************************************)
(* The inductive invariant.                                                *)
(***************************************************************************)
\* A claim that is about to engage k, and the time it is for.
ForAgenda(claim, k) ==
    \/ \E b \in Bookings : claim = Claiming("book", b) /\ CreatorOf[b] = k
    \/ \E o \in Offers : claim = Claiming("select", <<o, k>>)
    \/ \E i \in Invites : claim = Claiming("accept", i) /\ CreatorOf[i] = k
ClaimedSlot(claim) == IF claim.kind = "select" THEN claim.of[1] ELSE claim.of
IsBook(claim) == claim.kind = "book"

\* Nobody else is between the check and the write of the same agenda.
Alone ==
    \A k \in Creators : \A c, d \in claims :
        /\ ForAgenda(c, k) /\ ForAgenda(d, k)
        /\ k \notin Racing \/ (IsBook(c) /\ IsBook(d))
        => c = d

\* What the check found free is free still.
Free ==
    \A k \in Creators : \A c \in claims, e \in Engaged(k) :
        /\ ForAgenda(c, k)
        /\ k \notin Racing \/ (IsBook(c) /\ e \in Bookings)
        => ~Overlap(ClaimedSlot(c), SlotOf(e))

AInv == Alone /\ Free /\ NoDoubleBooking

-----------------------------------------------------------------------------
(***************************************************************************)
(* The three ways a step touches an agenda: it does not, a check takes a   *)
(* claim, a write engages the creator.                                     *)
(***************************************************************************)
LEMMA OverlapIsSymmetric ==
    ASSUME NEW a, NEW b
    PROVE  Overlap(a, b) <=> Overlap(b, a)
BY DEF Overlap

LEMMA AgendaLeftAlone ==
    ASSUME AInv,
           \A k \in Creators : Engaged(k)' \subseteq Engaged(k),
           \A c \in claims' : c \in claims \/ \A k \in Creators : ~ForAgenda(c, k)
    PROVE  AInv'
<1>1. Alone'
  BY DEF AInv, Alone
<1>2. Free'
  BY DEF AInv, Free
<1>3. NoDoubleBooking'
  BY DEF AInv, NoDoubleBooking
<1>4. QED
  BY <1>1, <1>2, <1>3 DEF AInv

LEMMA AgendaClaimed ==
    ASSUME AInv, NEW k \in Creators, NEW c, ForAgenda(c, k),
           \A j \in Creators : ForAgenda(c, j) => j = k,
           claims' = claims \cup {c},
           \A j \in Creators : Engaged(j)' = Engaged(j),
           \A d \in claims : ForAgenda(d, k) => k \in Racing /\ ~(IsBook(c) /\ IsBook(d)),
           \A e \in Engaged(k) : ~Overlap(ClaimedSlot(c), SlotOf(e))
    PROVE  AInv'
<1>1. Alone'
  BY DEF AInv, Alone
<1>2. Free'
  BY DEF AInv, Free
<1>3. NoDoubleBooking'
  BY DEF AInv, NoDoubleBooking
<1>4. QED
  BY <1>1, <1>2, <1>3 DEF AInv

LEMMA AgendaWritten ==
    ASSUME AInv, NEW k \in Creators, NEW c \in claims, ForAgenda(c, k),
           claims' = claims \ {c},
           NEW e, SlotOf(e) = ClaimedSlot(c),
           IF IsBook(c) THEN e \in Bookings \ Contracts ELSE e \in Contracts \ Bookings,
           Engaged(k)' \subseteq Engaged(k) \cup {e},
           \A j \in Creators : j # k => Engaged(j)' \subseteq Engaged(j)
    PROVE  AInv'
<1>1. Alone'
  BY DEF AInv, Alone
<1>2. Free'
  <2> SUFFICES ASSUME NEW j \in Creators, NEW d \in claims', NEW f \in Engaged(j)',
                      ForAgenda(d, j), j \notin Racing \/ (IsBook(d) /\ f \in Bookings)
               PROVE  ~Overlap(ClaimedSlot(d), SlotOf(f))
    BY DEF Free
  <2>1. CASE f \in Engaged(j)
    BY <2>1 DEF AInv, Free
  <2>2. CASE f \notin Engaged(j)
    <3>1. j = k /\ f = e
      BY <2>2
    <3>2. d \in claims /\ d # c
      OBVIOUS
    <3>3. ~(k \notin Racing \/ (IsBook(c) /\ IsBook(d)))
      BY <3>1, <3>2 DEF AInv, Alone
    <3>4. QED
      BY <3>1, <3>3
  <2>3. QED
    BY <2>1, <2>2
<1>3. NoDoubleBooking'
  <2> SUFFICES ASSUME NEW j \in Creators, NEW f \in Engaged(j)', NEW g \in Engaged(j)',
                      f # g, Overlap(SlotOf(f), SlotOf(g)),
                      ~(j \in Racing /\ {f, g} \cap Contracts # {})
               PROVE  FALSE
    BY DEF NoDoubleBooking
  <2>1. CASE f \in Engaged(j) /\ g \in Engaged(j)
    BY <2>1 DEF AInv, NoDoubleBooking
  <2>2. ASSUME NEW h \in Engaged(k), {f, g} = {e, h}, j = k
        PROVE  FALSE
    <3>1. Overlap(ClaimedSlot(c), SlotOf(h))
      BY <2>2, OverlapIsSymmetric
    <3>2. k \notin Racing \/ (IsBook(c) /\ h \in Bookings)
      BY <2>2 DEF Engaged
    <3>3. QED
      BY <3>1, <3>2 DEF AInv, Free
  <2>3. QED
    BY <2>1, <2>2
<1>4. QED
  BY <1>1, <1>2, <1>3 DEF AInv

-----------------------------------------------------------------------------
(***************************************************************************)
(* What the code checks and locks, as those lemmas need it.                *)
(***************************************************************************)
LEMMA KindsDiffer ==
    ASSUME NEW kind, NEW of, NEW k, ForAgenda(Claiming(kind, of), k)
    PROVE  kind \in {"book", "select", "accept"}
BY DEF ForAgenda, Claiming

\* MayStart: the requests of a creator outside Racing wait for each other.
LEMMA StartsAlone ==
    ASSUME NEW k \in Creators, MayStart(k), NEW d \in claims, ForAgenda(d, k)
    PROVE  k \in Racing
<1>1. CASE \E b \in Bookings : d = Claiming("book", b) /\ CreatorOf[b] = k
  BY <1>1 DEF MayStart, Contended, UserLocked, Holds
<1>2. CASE \E o \in Offers : d = Claiming("select", <<o, k>>)
  BY <1>2 DEF MayStart, Contended, Holds
<1>3. CASE \E i \in Invites : d = Claiming("accept", i) /\ CreatorOf[i] = k
  BY <1>3 DEF MayStart, Contended, Holds
<1>4. QED
  BY <1>1, <1>2, <1>3 DEF ForAgenda

\* The creator's row lock keeps a second booking away.
LEMMA LockedForBooking ==
    ASSUME NEW k \in Creators, ~UserLocked(k), NEW d \in claims, ForAgenda(d, k)
    PROVE  ~IsBook(d)
BY DEF ForAgenda, UserLocked, Holds, IsBook, Claiming

\* The conflict check looks at all that engages the creator but for ignored.
LEMMA CheckedFree ==
    ASSUME NEW k \in Creators, NEW job, NEW ignored, ~HasConflicts(k, job, ignored),
           \A c \in ignored : contract[c].status # "ACCEPTED",
           NEW e \in Engaged(k)
    PROVE  ~Overlap(job, SlotOf(e))
<1>1. CASE e \in Bookings
  <2>1. booking[e] \in BlockingBookingStatus /\ CreatorOf[e] = k
    BY <1>1, HiringConstants DEF Engaged
  <2>2. QED
    BY <1>1, <2>1 DEF HasConflicts, BookedAt, SlotOf
<1>2. CASE e \notin Bookings
  <2>1. e \in Contracts /\ HiredOf(e) = k /\ contract[e].status = "ACCEPTED"
    BY <1>2 DEF Engaged
  <2>2. QED
    BY <1>2, <2>1 DEF HasConflicts, HiredAt, SlotOf
<1>3. QED
  BY <1>1, <1>2

LEMMA EngagedKept ==
    ASSUME NEW k,
           \A b \in Bookings : booking'[b] \in BlockingBookingStatus
                                  => booking[b] \in BlockingBookingStatus,
           \A c \in Contracts : contract'[c].status = "ACCEPTED" => contract[c].status = "ACCEPTED"
    PROVE  Engaged(k)' \subseteq Engaged(k)
BY DEF Engaged, HiredOf

\* Takes and drops of claims that engage nobody.
LEMMA OtherTake ==
    ASSUME AInv, NEW kind \in {"cancelOffer", "apply", "withdraw"}, NEW of, Take(kind, of),
           booking' = booking, contract' = contract
    PROVE  AInv'
<1>1. \A k \in Creators : Engaged(k)' \subseteq Engaged(k)
  BY EngagedKept
<1>2. \A c \in claims' : c \in claims \/ c = Claiming(kind, of)
  BY DEF Take
<1>3. \A k \in Creators : ~ForAgenda(Claiming(kind, of), k)
  BY KindsDiffer
<1>4. QED
  BY <1>1, <1>2, <1>3, AgendaLeftAlone

LEMMA NothingEngaged ==
    ASSUME AInv, claims' \subseteq claims,
           \A b \in Bookings : booking'[b] \in BlockingBookingStatus
                                  => booking[b] \in BlockingBookingStatus,
           \A c \in Contracts : contract'[c].status = "ACCEPTED" => contract[c].status = "ACCEPTED"
    PROVE  AInv'
<1>1. \A k \in Creators : Engaged(k)' \subseteq Engaged(k)
  BY EngagedKept
<1>2. QED
  BY <1>1, AgendaLeftAlone

-----------------------------------------------------------------------------
(***************************************************************************)
(* The checks.                                                             *)
(***************************************************************************)
LEMMA SelectCheckAgenda ==
    ASSUME AInv, NEW o \in Offers, NEW k \in Creators, SelectCheck(o, k)
    PROVE  AInv'
<1> DEFINE c == Claiming("select", <<o, k>>)
<1>1. /\ claims' = claims \cup {c} /\ MayStart(k) /\ ~HasConflicts(k, o, {})
      /\ booking' = booking /\ contract' = contract
  BY DEF SelectCheck, Take
<1>2. ForAgenda(c, k) /\ \A j \in Creators : ForAgenda(c, j) => j = k
  BY DEF ForAgenda, Claiming
<1>3. ~IsBook(c) /\ ClaimedSlot(c) = o
  BY DEF IsBook, ClaimedSlot, Claiming
<1>4. \A j \in Creators : Engaged(j)' = Engaged(j)
  BY <1>1 DEF Engaged, HiredOf
<1>5. \A e \in Engaged(k) : ~Overlap(ClaimedSlot(c), SlotOf(e))
  BY <1>1, <1>3, CheckedFree
<1> HIDE DEF c
<1>6. QED
  BY <1>1, <1>2, <1>3, <1>4, <1>5, StartsAlone, AgendaClaimed

LEMMA AcceptCheckAgenda ==
    ASSUME AInv, NEW i \in Invites, AcceptCheck(i)
    PROVE  AInv'
<1> DEFINE c == Claiming("accept", i)
           k == CreatorOf[i]
<1>0. k \in Creators
  BY HiringConstants
<1>1. /\ claims' = claims \cup {c} /\ MayStart(k) /\ ~HasConflicts(k, i, {i})
      /\ contract[i].status # "ACCEPTED"
      /\ booking' = booking /\ contract' = contract
  BY DEF AcceptCheck, Take
<1>2. ForAgenda(c, k) /\ \A j \in Creators : ForAgenda(c, j) => j = k
  BY DEF ForAgenda, Claiming
<1>3. ~IsBook(c) /\ ClaimedSlot(c) = i
  BY DEF IsBook, ClaimedSlot, Claiming
<1>4. \A j \in Creators : Engaged(j)' = Engaged(j)
  BY <1>1 DEF Engaged, HiredOf
<1>5. \A e \in Engaged(k) : ~Overlap(ClaimedSlot(c), SlotOf(e))
  BY <1>0, <1>1, <1>3, CheckedFree
<1> HIDE DEF c, k
<1>6. QED
  BY <1>0, <1>1, <1>2, <1>3, <1>4, <1>5, StartsAlone, AgendaClaimed

LEMMA BookCheckAgenda ==
    ASSUME AInv, NEW b \in Bookings, BookCheck(b)
    PROVE  AInv'
<1> DEFINE c == Claiming("book", b)
           k == CreatorOf[b]
<1>0. k \in Creators
  BY HiringConstants
<1>1. /\ claims' = claims \cup {c} /\ MayStart(k) /\ ~UserLocked(k)
      /\ ~HasConflicts(k, b, {})
      /\ booking' = booking /\ contract' = contract
  BY DEF BookCheck, Take
<1>2. ForAgenda(c, k) /\ \A j \in Creators : ForAgenda(c, j) => j = k
  BY DEF ForAgenda, Claiming
<1>3. ClaimedSlot(c) = b
  BY DEF ClaimedSlot, Claiming
<1>4. \A j \in Creators : Engaged(j)' = Engaged(j)
  BY <1>1 DEF Engaged, HiredOf
<1>5. \A e \in Engaged(k) : ~Overlap(ClaimedSlot(c), SlotOf(e))
  BY <1>0, <1>1, <1>3, CheckedFree
<1>6. \A d \in claims : ForAgenda(d, k) => k \in Racing /\ ~(IsBook(c) /\ IsBook(d))
  BY <1>0, <1>1, StartsAlone, LockedForBooking
<1> HIDE DEF c, k
<1>7. QED
  BY <1>0, <1>1, <1>2, <1>4, <1>5, <1>6, AgendaClaimed

-----------------------------------------------------------------------------
(***************************************************************************)
(* The writes that engage.                                                 *)
(***************************************************************************)
LEMMA SelectCommitAgenda ==
    ASSUME AInv, IInv, NEW o \in Offers, NEW k \in Creators, SelectCommit(o, k)
    PROVE  AInv'
<1> DEFINE c == Claiming("select", <<o, k>>)
           hire == <<o, k>>
<1>1. /\ claims' = claims \ {c} /\ c \in claims /\ booking' = booking
  BY DEF SelectCommit, Drop, Holds
<1>2. CASE DescriptionMissing
  <2>1. contract' = contract
    BY <1>2 DEF SelectCommit
  <2>2. QED
    BY <1>1, <2>1, NothingEngaged
<1>3. CASE ~DescriptionMissing
  <2>1. /\ contract' = [contract EXCEPT ![hire] = Row("ACCEPTED", HireTerms(o))]
        /\ contract = [d \in Contracts |-> contract[d]]
    BY <1>3 DEF SelectCommit, Select, IInv, Core, RowsKnown
  <2>2. hire \in Contracts /\ hire \notin Invites /\ hire \notin Bookings
    BY HiringConstants DEF Contracts, Hires
  <2>3. \A d \in Contracts : d # hire => contract'[d] = contract[d]
    BY <2>1
  <2>4. HiredOf(hire) = k /\ SlotOf(hire) = o
    BY <2>2 DEF HiredOf, SlotOf, JobOf
  <2>5. ForAgenda(c, k) /\ ~IsBook(c) /\ ClaimedSlot(c) = o
    BY DEF ForAgenda, Claiming, IsBook, ClaimedSlot
  <2> HIDE DEF c, hire
  <2>6. Engaged(k)' \subseteq Engaged(k) \cup {hire}
    BY <1>1, <2>3 DEF Engaged
  <2>7. \A j \in Creators : j # k => Engaged(j)' \subseteq Engaged(j)
    BY <1>1, <2>3, <2>4 DEF Engaged
  <2>8. QED
    BY <1>1, <2>2, <2>4, <2>5, <2>6, <2>7, AgendaWritten
<1>4. QED
  BY <1>2, <1>3

LEMMA AcceptCommitAgenda ==
    ASSUME AInv, IInv, NEW i \in Invites, AcceptCommit(i)
    PROVE  AInv'
<1> DEFINE c == Claiming("accept", i)
           k == CreatorOf[i]
<1>0. k \in Creators /\ i \in Contracts /\ i \notin Bookings
  BY HiringConstants DEF Contracts
<1>1. /\ claims' = claims \ {c} /\ c \in claims /\ booking' = booking
      /\ contract' = [contract EXCEPT ![i].status = "ACCEPTED"]
      /\ contract = [d \in Contracts |-> contract[d]]
  BY DEF AcceptCommit, Drop, Holds, IInv, Core, RowsKnown
<1>2. \A d \in Contracts : d # i => contract'[d] = contract[d]
  BY <1>1
<1>3. HiredOf(i) = k /\ SlotOf(i) = i
  BY <1>0 DEF HiredOf, SlotOf, JobOf
<1>4. ForAgenda(c, k) /\ ~IsBook(c) /\ ClaimedSlot(c) = i
  BY DEF ForAgenda, Claiming, IsBook, ClaimedSlot
<1> HIDE DEF c, k
<1>5. Engaged(k)' \subseteq Engaged(k) \cup {i}
  BY <1>1, <1>2 DEF Engaged
<1>6. \A j \in Creators : j # k => Engaged(j)' \subseteq Engaged(j)
  BY <1>1, <1>2, <1>3 DEF Engaged
<1>7. QED
  BY <1>0, <1>1, <1>3, <1>4, <1>5, <1>6, AgendaWritten

LEMMA BookCommitAgenda ==
    ASSUME AInv, IInv, NEW b \in Bookings, BookCommit(b)
    PROVE  AInv'
<1> DEFINE c == Claiming("book", b)
           k == CreatorOf[b]
<1>0. k \in Creators /\ b \notin Contracts
  BY HiringConstants
<1>1. /\ claims' = claims \ {c} /\ c \in claims /\ contract' = contract
      /\ booking' = [booking EXCEPT ![b] = "PENDING"]
      /\ booking \in [Bookings -> BookingStatus \cup {NONE}]
  BY DEF BookCommit, Drop, Holds, IInv, TypeOK
<1>2. \A d \in Bookings : d # b => booking'[d] = booking[d]
  BY <1>1
<1>3. SlotOf(b) = b
  BY DEF SlotOf
<1>4. ForAgenda(c, k) /\ IsBook(c) /\ ClaimedSlot(c) = b
  BY DEF ForAgenda, Claiming, IsBook, ClaimedSlot
<1>5. \A j \in Creators : j # k => Engaged(j)' \subseteq Engaged(j)
  BY <1>1, <1>2 DEF Engaged
<1> HIDE DEF c, k
<1>6. Engaged(k)' \subseteq Engaged(k) \cup {b}
  BY <1>1, <1>2 DEF Engaged
<1>7. QED
  BY <1>0, <1>1, <1>3, <1>4, <1>5, <1>6, AgendaWritten

-----------------------------------------------------------------------------
(***************************************************************************)
(* Every other step engages nobody.                                        *)
(***************************************************************************)
LEMMA MoveAgenda ==
    ASSUME AInv, IInv, NEW c \in Contracts, NEW from, NEW to, to # "ACCEPTED", Move(c, from, to)
    PROVE  AInv'
<1>1. /\ contract' = [contract EXCEPT ![c].status = to]
      /\ contract = [d \in Contracts |-> contract[d]]
      /\ booking' = booking /\ claims' = claims
  BY DEF Move, IInv, Core, RowsKnown
<1>2. \A d \in Contracts : d # c => contract'[d] = contract[d]
  BY <1>1
<1>3. contract'[c].status = "ACCEPTED" => contract[c].status = "ACCEPTED"
  <2>1. contract'[c] = [contract[c] EXCEPT !.status = to]
    BY <1>1
  <2>2. CASE contract[c] = NoRow
    BY <2>1, <2>2 DEF NoRow
  <2>3. CASE contract[c] # NoRow
    <3>1. contract'[c].status = to
      <4>1. CASE c \in Invites
        <5>1. IsRow(contract[c], ContractStatus, InviteTerms(c))
          BY <4>1 DEF IInv, Core, RowsKnown
        <5>2. PICK s, t : contract[c] = Row(s, t)
          BY <2>3, <5>1 DEF IsRow
        <5>3. QED
          BY <2>1, <5>2 DEF Row
      <4>2. CASE c \in Hires
        <5>1. PICK o \in Offers, k \in Creators : c = <<o, k>>
          BY <4>2 DEF Hires
        <5>2. IsRow(contract[c], ContractStatus, {HireTerms(o)})
          BY <5>1 DEF IInv, Core, RowsKnown
        <5>3. PICK s, t : contract[c] = Row(s, t)
          BY <2>3, <5>2 DEF IsRow
        <5>4. QED
          BY <2>1, <5>3 DEF Row
      <4>3. QED
        BY <4>1, <4>2 DEF Contracts
    <3>2. QED
      BY <3>1
  <2>4. QED
    BY <2>2, <2>3
<1>4. QED
  BY <1>1, <1>2, <1>3, NothingEngaged

LEMMA CreateAgenda ==
    ASSUME AInv, IInv, NEW i \in Invites, Create(i)
    PROVE  AInv'
<1> DEFINE row == Row("PENDING_PAYMENT", ContractSnapshot(Gross[i], fee, 0))
<1>1. /\ contract' = [contract EXCEPT ![i] = row]
      /\ contract = [d \in Contracts |-> contract[d]] /\ i \in Contracts
      /\ booking' = booking /\ claims' = claims
  BY DEF Create, IInv, Core, RowsKnown, Contracts
<1>2. row.status = "PENDING_PAYMENT"
  BY DEF Row
<1> HIDE DEF row
<1>3. \A d \in Contracts : contract'[d].status = "ACCEPTED" => contract[d].status = "ACCEPTED"
  BY <1>1, <1>2
<1>4. QED
  BY <1>1, <1>3, NothingEngaged

LEMMA OfferAgenda ==
    ASSUME AInv, IInv, OfferStep
    PROVE  AInv'
<1>1. PICK o \in Offers :
         \/ CreateOffer(o) \/ CancelOfferRead(o) \/ CancelOfferSave(o)
         \/ \E k \in Creators :
               \/ ApplyCheck(o, k) \/ ApplyInsert(o, k)
               \/ WithdrawRead(o, k) \/ WithdrawSave(o, k)
               \/ SelectCheck(o, k) \/ SelectCommit(o, k)
  BY DEF OfferStep
<1>2. CASE CreateOffer(o) \/ CancelOfferSave(o)
  <2>1. claims' \subseteq claims /\ booking' = booking /\ contract' = contract
    BY <1>2, DroppedClaims DEF CreateOffer, CancelOfferSave
  <2>2. QED
    BY <2>1, NothingEngaged
<1>3. CASE CancelOfferRead(o)
  BY <1>3, OtherTake DEF CancelOfferRead
<1>4. ASSUME NEW k \in Creators, ApplyCheck(o, k) \/ WithdrawRead(o, k)
      PROVE  AInv'
  BY <1>4, OtherTake DEF ApplyCheck, WithdrawRead
<1>5. ASSUME NEW k \in Creators, ApplyInsert(o, k) \/ WithdrawSave(o, k)
      PROVE  AInv'
  <2>1. claims' \subseteq claims /\ booking' = booking /\ contract' = contract
    BY <1>5, DroppedClaims DEF ApplyInsert, WithdrawSave
  <2>2. QED
    BY <2>1, NothingEngaged
<1>6. QED
  BY <1>1, <1>2, <1>3, <1>4, <1>5, SelectCheckAgenda, SelectCommitAgenda

LEMMA InviteAgenda ==
    ASSUME AInv, IInv, InviteStep
    PROVE  AInv'
<1>1. \A i \in Invites : i \in Contracts
  BY DEF Contracts
<1>2. ASSUME NEW c \in Contracts, Cancel(c)
      PROVE  AInv'
  BY <1>2, MoveAgenda DEF Cancel
<1>3. ASSUME NEW i \in Invites, ConfirmPayment(i) \/ Reject(i)
      PROVE  AInv'
  BY <1>1, <1>3, MoveAgenda DEF ConfirmPayment, Reject
<1>4. QED
  BY <1>2, <1>3, CreateAgenda, AcceptCheckAgenda, AcceptCommitAgenda DEF InviteStep

LEMMA BookingAgenda ==
    ASSUME AInv, IInv, BookingStep
    PROVE  AInv'
<1>1. PICK b \in Bookings : \/ BookCheck(b) \/ BookCommit(b)
                            \/ AcceptBooking(b) \/ RejectBooking(b) \/ CancelBooking(b)
  BY DEF BookingStep
<1>2. ASSUME NEW from, from \subseteq BlockingBookingStatus, NEW to,
             UpdateBookingStatus(b, from, to)
      PROVE  AInv'
  <2>1. /\ claims' = claims /\ contract' = contract
        /\ booking[b] \in BlockingBookingStatus
        /\ booking' = [booking EXCEPT ![b] = to]
        /\ booking \in [Bookings -> BookingStatus \cup {NONE}]
    BY <1>2 DEF UpdateBookingStatus, IInv, TypeOK
  <2>2. \A d \in Bookings : booking'[d] \in BlockingBookingStatus
                               => booking[d] \in BlockingBookingStatus
    BY <2>1
  <2>3. QED
    BY <2>1, <2>2, NothingEngaged
<1>3. {"PENDING"} \subseteq BlockingBookingStatus
      /\ {"PENDING", "CONFIRMED"} \subseteq BlockingBookingStatus
  BY DEF BlockingBookingStatus
<1>4. QED
  BY <1>1, <1>2, <1>3, BookCheckAgenda, BookCommitAgenda
     DEF AcceptBooking, RejectBooking, CancelBooking

LEMMA NextAgenda == IInv /\ AInv /\ [Next]_vars => AInv'
<1> SUFFICES ASSUME IInv, AInv, [Next]_vars PROVE AInv'
  OBVIOUS
<1>1. CASE OfferStep \/ InviteStep \/ BookingStep
  BY <1>1, OfferAgenda, InviteAgenda, BookingAgenda
<1>2. CASE \/ \E k \in Creators, rule \in Windows : ReplaceAvailability(k, rule)
           \/ \E claim \in claims : Abort(claim)
           \/ Tick
           \/ \E bps \in Fees : SetFee(bps)
           \/ UNCHANGED vars
  <2>1. claims' \subseteq claims /\ booking' = booking /\ contract' = contract
    BY <1>2 DEF ReplaceAvailability, Abort, Tick, SetFee, vars
  <2>2. QED
    BY <2>1, NothingEngaged
<1>3. QED
  BY <1>1, <1>2 DEF Next

LEMMA InitAgenda == Init => AInv
<1> SUFFICES ASSUME Init PROVE AInv
  OBVIOUS
<1>1. claims = {} /\ \A k \in Creators : Engaged(k) = {}
  BY DEF Init, Engaged, NoRow, NONE, BlockingBookingStatus
<1>2. QED
  BY <1>1 DEF AInv, Alone, Free, NoDoubleBooking

\* No creator whose requests wait for each other is engaged twice at a time by any
\* mix of offers, invites and bookings, and no creator at all has two bookings that
\* overlap: the conflict check of scheduling-conflict.service.ts is enough for the
\* first, the creator's row lock of bookings.service.ts for the second.
THEOREM NeverDoubleBooked == Spec => []NoDoubleBooking
<1>1. Init => AInv
  BY InitAgenda
<1>2. IInv /\ AInv /\ [Next]_vars => AInv'
  BY NextAgenda
<1>3. AInv => NoDoubleBooking
  BY DEF AInv
<1>4. QED
  BY <1>1, <1>2, <1>3, Invariance, PTL DEF Spec

-----------------------------------------------------------------------------
(***************************************************************************)
(* The window of a booking.                                                *)
(***************************************************************************)
\* The rule that a booking was checked against stays until it is written.
WindowStands ==
    \A b \in Bookings : Holds("book", b) => FitsWindow(b, window[CreatorOf[b]])

LEMMA NextWindow == IInv /\ WindowStands /\ [Next]_vars => WindowStands'
<1> SUFFICES ASSUME IInv, WindowStands, [Next]_vars,
                    NEW b \in Bookings, Holds("book", b)'
             PROVE  FitsWindow(b, window'[CreatorOf[b]])
  BY DEF WindowStands, FitsWindow
<1>1. CASE BookCheck(b)
  BY <1>1 DEF BookCheck
<1>2. CASE ~BookCheck(b)
  <2>1. Holds("book", b)
    <3>1. ASSUME NEW kind, NEW of, Take(kind, of), kind # "book" \/ of # b
          PROVE  Holds("book", b)
      BY <3>1, TakenClaims
    <3>2. claims' \subseteq claims => Holds("book", b)
      BY FewerClaims
    <3>3. CASE OfferStep
      BY <3>1, <3>2, <3>3, DroppedClaims
         DEF OfferStep, CreateOffer, CancelOfferRead, CancelOfferSave, ApplyCheck, ApplyInsert,
             WithdrawRead, WithdrawSave, SelectCheck, SelectCommit
    <3>4. CASE InviteStep
      BY <3>1, <3>2, <3>4, DroppedClaims
         DEF InviteStep, Create, ConfirmPayment, Reject, Cancel, Move, AcceptCheck, AcceptCommit
    <3>5. CASE BookingStep
      BY <1>2, <3>1, <3>2, <3>5, DroppedClaims
         DEF BookingStep, BookCheck, BookCommit, AcceptBooking, RejectBooking, CancelBooking,
             UpdateBookingStatus
    <3>6. CASE \/ \E k \in Creators, rule \in Windows : ReplaceAvailability(k, rule)
               \/ \E claim \in claims : Abort(claim)
               \/ Tick
               \/ \E bps \in Fees : SetFee(bps)
               \/ UNCHANGED vars
      <4>1. claims' \subseteq claims
        BY <3>6 DEF ReplaceAvailability, Abort, Tick, SetFee, vars
      <4>2. QED
        BY <3>2, <4>1
    <3>7. QED
      BY <3>3, <3>4, <3>5, <3>6 DEF Next
  <2>2. window'[CreatorOf[b]] = window[CreatorOf[b]]
    <3>1. UserLocked(CreatorOf[b])
      BY <2>1 DEF UserLocked
    <3>2. CASE window' = window
      BY <3>2
    <3>3. ASSUME NEW k \in Creators, NEW rule \in Windows, ReplaceAvailability(k, rule)
          PROVE  window'[CreatorOf[b]] = window[CreatorOf[b]]
      BY <3>1, <3>3 DEF ReplaceAvailability, IInv, TypeOK
    <3>4. window' = window \/ \E k \in Creators, rule \in Windows : ReplaceAvailability(k, rule)
      BY DEF Next, vars, OfferStep, InviteStep, BookingStep, Abort, Tick, SetFee,
             CreateOffer, CancelOfferRead, CancelOfferSave, ApplyCheck, ApplyInsert,
             WithdrawRead, WithdrawSave, SelectCheck, SelectCommit,
             Create, ConfirmPayment, Reject, Cancel, Move, AcceptCheck, AcceptCommit,
             BookCheck, BookCommit, AcceptBooking, RejectBooking, CancelBooking,
             UpdateBookingStatus
    <3>5. QED
      BY <3>2, <3>3, <3>4
  <2>3. QED
    BY <2>1, <2>2 DEF WindowStands
<1>3. QED
  BY <1>1, <1>2

\* An instant, its unit and the number of the unit it lies in.
LEMMA Unit ==
    ASSUME NEW t \in Nat, NEW unit \in Nat \ {0}
    PROVE  /\ t \div unit \in Nat
           /\ t % unit \in 0..(unit - 1)
           /\ t = unit * (t \div unit) + (t % unit)
OBVIOUS

\* Whoever ends a second after the first hour has begun, or later, ended a second
\* before on the same day.
LEMMA SecondBefore ==
    ASSUME NEW t \in Nat, Hour <= t % Day
    PROVE  StartOfDay(t - Second) = StartOfDay(t)
<1> DEFINE q == t \div Day
           r == t % Day
<1>1. /\ Second \in Nat \ {0} /\ Day \in Nat \ {0} /\ Hour \in Nat
      /\ Second <= Hour
  BY HiringConstants
<1>2. q \in Nat /\ r \in 0..(Day - 1) /\ t = Day * q + r
  BY <1>1, Unit
<1>3. Hour <= r
  OBVIOUS
<1> HIDE DEF q, r
<1>4. t - Second = Day * q + (r - Second) /\ r - Second \in 0..(Day - 1)
  BY <1>1, <1>2, <1>3
<1>5. (t - Second) \div Day = q
  BY <1>1, <1>2, <1>4
<1>6. QED
  BY <1>5 DEF StartOfDay, q

\* Where the first hour is written 24, a time that convertTimeToMinutes takes is the
\* whole minutes since the day began.
LEMMA MinutesOfTheDay ==
    ASSUME Midnight = Day \div Minute, NEW t \in Nat, MinuteOfDay(t) \in 0..(Day \div Minute - 1)
    PROVE  /\ Hour <= t % Day
           /\ MinuteOfDay(t) \in Nat
           /\ Minute * MinuteOfDay(t) <= t - StartOfDay(t)
           /\ t - StartOfDay(t) < Minute * MinuteOfDay(t) + Minute
<1> DEFINE r == t % Day
           m == r \div Minute
<1>1. /\ Minute \in Nat \ {0} /\ Day \in Nat \ {0} /\ Hour \in Nat
      /\ Midnight \in Nat
  BY HiringConstants
<1>2. r \in Nat /\ t = StartOfDay(t) + r /\ StartOfDay(t) \in Nat
  BY <1>1, Unit DEF StartOfDay
<1>3. m \in Nat /\ r % Minute \in 0..(Minute - 1) /\ r = Minute * m + (r % Minute)
  BY <1>1, <1>2, Unit
<1>4. MinuteOfDay(t) = (IF r < Hour THEN Midnight ELSE 0) + m
  BY DEF MinuteOfDay
<1> HIDE DEF r, m
<1>5. Hour <= r /\ MinuteOfDay(t) = m
  BY <1>1, <1>2, <1>3, <1>4
<1>6. /\ t - StartOfDay(t) = r /\ Minute * m \in Int
      /\ Minute * m <= r /\ r < Minute * m + Minute
  BY <1>1, <1>2, <1>3
<1>7. QED
  BY <1>3, <1>5, <1>6 DEF r

LEMMA FitsInside ==
    ASSUME Midnight = Day \div Minute, NEW b \in Bookings, NEW rule \in Windows, FitsWindow(b, rule)
    PROVE  \E w \in rule : /\ w.from * Minute <= From[b] - StartOfDay(From[b])
                           /\ To[b] - StartOfDay(From[b]) < (w.to + 1) * Minute
<1> DEFINE from == MinuteOfDay(From[b])
           to == MinuteOfDay(To[b])
<1>1. From[b] \in Nat /\ To[b] \in Nat /\ Minute \in Nat \ {0}
  BY HiringConstants DEF Jobs
<1>2. PICK w \in rule : from >= w.from /\ to <= w.to
  BY DEF FitsWindow
<1>3. w.from \in Nat /\ w.to \in Nat
  BY HiringConstants
<1>4. /\ Hour <= To[b] % Day /\ from \in Nat /\ to \in Nat
      /\ Minute * from <= From[b] - StartOfDay(From[b])
      /\ To[b] - StartOfDay(To[b]) < Minute * to + Minute
  BY <1>1, MinutesOfTheDay DEF FitsWindow
<1>5. StartOfDay(From[b]) = StartOfDay(To[b])
  BY <1>1, <1>4, SecondBefore DEF FitsWindow
<1>6. StartOfDay(From[b]) \in Int
  BY <1>1, HiringConstants DEF StartOfDay
<1> HIDE DEF from, to
<1>7. w.from * Minute <= Minute * from
  BY <1>1, <1>2, <1>3, <1>4
<1>8. Minute * to + Minute <= (w.to + 1) * Minute
  BY <1>1, <1>2, <1>3, <1>4
<1>9. /\ w.from * Minute \in Int /\ Minute * from \in Int
      /\ Minute * to \in Int /\ (w.to + 1) * Minute \in Int
  BY <1>1, <1>3, <1>4
<1>10. QED
  BY <1>1, <1>4, <1>5, <1>6, <1>7, <1>8, <1>9

\* A booking that appears was checked against the rule that stands.
LEMMA BookedIsCommitted ==
    ASSUME IInv, [Next]_vars, NEW b \in Bookings, booking[b] = NONE, booking'[b] # NONE
    PROVE  BookCommit(b)
<1>1. booking' = booking \/ BookingStep
  BY DEF Next, vars, OfferStep, InviteStep, ReplaceAvailability, Abort, Tick, SetFee,
         CreateOffer, CancelOfferRead, CancelOfferSave, ApplyCheck, ApplyInsert,
         WithdrawRead, WithdrawSave, SelectCheck, SelectCommit,
         Create, ConfirmPayment, Reject, Cancel, Move, AcceptCheck, AcceptCommit
<1>2. PICK d \in Bookings : \/ BookCheck(d) \/ BookCommit(d)
                            \/ AcceptBooking(d) \/ RejectBooking(d) \/ CancelBooking(d)
  BY <1>1 DEF BookingStep
<1>3. booking \in [Bookings -> BookingStatus \cup {NONE}]
  BY DEF IInv, TypeOK
<1>4. ~BookCheck(d)
  BY DEF BookCheck
<1>5. ASSUME NEW from, NEW to, NONE \notin from, UpdateBookingStatus(d, from, to)
      PROVE  FALSE
  BY <1>3, <1>5 DEF UpdateBookingStatus
<1>6. BookCommit(d)
  BY <1>2, <1>4, <1>5 DEF AcceptBooking, RejectBooking, CancelBooking, NONE
<1>7. d = b
  BY <1>3, <1>6 DEF BookCommit
<1>8. QED
  BY <1>6, <1>7

\* The row lock that bookings.service.ts and availability.service.ts both take keeps
\* the window in which a booking lies from being replaced between the check and the
\* insert, so that a booking lies in it to the minute: getSaoPauloTime drops the
\* seconds.  Midnight is what the formatter writes, 24:00.
THEOREM BookedInItsWindow ==
    ASSUME Midnight = Day \div Minute
    PROVE  Spec => BookedInsideWindow
<1>1. Init => WindowStands
  BY DEF Init, WindowStands, Holds
<1>2. IInv /\ WindowStands /\ [Next]_vars => WindowStands'
  BY NextWindow
<1>3. IInv /\ WindowStands /\ [Next]_vars
        => [\A b \in Bookings :
              booking[b] = NONE /\ booking'[b] # NONE =>
                 \E w \in window[CreatorOf[b]] :
                    /\ w.from * Minute <= From[b] - StartOfDay(From[b])
                    /\ To[b] - StartOfDay(From[b]) < (w.to + 1) * Minute]_vars
  <2> SUFFICES ASSUME IInv, WindowStands, [Next]_vars,
                      NEW b \in Bookings, booking[b] = NONE, booking'[b] # NONE
               PROVE  \E w \in window[CreatorOf[b]] :
                         /\ w.from * Minute <= From[b] - StartOfDay(From[b])
                         /\ To[b] - StartOfDay(From[b]) < (w.to + 1) * Minute
    OBVIOUS
  <2>1. Holds("book", b)
    BY BookedIsCommitted, DroppedClaims DEF BookCommit
  <2>2. FitsWindow(b, window[CreatorOf[b]])
    BY <2>1 DEF WindowStands
  <2>3. window[CreatorOf[b]] \in Windows
    BY HiringConstants DEF IInv, TypeOK
  <2>4. QED
    BY <2>2, <2>3, FitsInside
<1>4. QED
  BY <1>1, <1>2, <1>3, Invariance, PTL DEF Spec, BookedInsideWindow
=============================================================================
