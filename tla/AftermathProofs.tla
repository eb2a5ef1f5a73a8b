--------------------------- MODULE AftermathProofs ---------------------------
(***************************************************************************)
(* Theorems about module Aftermath, for any contracts, creators, payouts,  *)
(* administrators, tokens and numbers of events.                           *)
(*                                                                         *)
(* The four things that follow from an event share nothing but the event:  *)
(* each has an invariant of its own over its own variables.                *)
(***************************************************************************)
EXTENDS Aftermath, TLAPS

-----------------------------------------------------------------------------
(***************************************************************************)
(* The inductive invariant.                                                *)
(***************************************************************************)
\* A delivery goes to a listener of its event; a completion that is announced
\* has happened.  A push is of a notice that is there, is the only one of its
\* notice, and has reached the provider only in its last step.
DeliveriesHold ==
    \A d \in deliveries :
        /\ d.event \in Event /\ d.n \in 1..emitted[d.event]
        /\ d.to \in {"creator", "company", "referrals"}
        /\ d.to = "referrals" => d.event.of \in completed

InsertingHolds ==
    \A d \in inserting : d.event \in Event /\ d.n \in 1..emitted[d.event] /\ KeyOf(d) \in Key

PushesHold ==
    /\ \A push \in pushing :
          /\ push.key \in Key /\ push.tokens \subseteq Tokens
          /\ notification[push.key].created
          /\ push.step # "sent" => sent[push.key] = 0
    /\ \A p, q \in pushing : p.key = q.key => p = q
    /\ \A k \in Key : ~notification[k].created => sent[k] = 0

Notices ==
    /\ emitted \in [Event -> Nat]
    /\ notification \in [Key -> Notice]
    /\ sent \in [Key -> Nat]
    /\ token \in [Tokens -> [user : Users, active : BOOLEAN]]
    /\ DeliveriesHold /\ InsertingHolds /\ PushesHold /\ PushedOnce

\* What is being qualified is a completion of a creator whose referral is still
\* PENDING, one at a time for each creator.
QualifyingHolds ==
    /\ \A c \in qualifying : c \in completed /\ Pending(CreatorOf[c])
    /\ \A c, d \in qualifying : CreatorOf[c] = CreatorOf[d] => c = d

Referrals ==
    /\ completed \subseteq Contracts
    /\ referral \in [Referred -> [status : {"PENDING", "QUALIFIED"}, by : SUBSET Contracts]]
    /\ qualifying \subseteq Contracts
    /\ \A m \in commissions : m.amount \in 0..Gross[m.contract]
    /\ QualifyingHolds /\ CommissionPerReferral

\* What an average counted is committed or its own review, and a committed review
\* that it misses crossed one that it counts.
Lags(counted, user) ==
    \A missed \in OfUser(user) \ (counted \cup overtook) :
        \E r \in counted : {missed, r} \in crossed

ReviewingHolds ==
    /\ \A f \in reviewing :
          /\ f.review \in Review /\ f.review \notin reviews /\ f.review \in f.counted
          /\ f.counted \subseteq OfUser(Reviewee(f.review)) \cup {f.review}
          /\ \A missed \in OfUser(Reviewee(f.review)) \ f.counted : {missed, f.review} \in crossed
    /\ \A f, g \in reviewing :
          Reviewee(f.review) = Reviewee(g.review) =>
             f = g \/ (f.review # g.review /\ {f.review, g.review} \in crossed)

EditingHolds ==
    \A e \in editing :
        e.of \in Users /\ e.counted \subseteq OfUser(e.of) /\ Lags(e.counted, e.of)

Reputations ==
    /\ reviews \subseteq Review
    /\ reputation \in [Users -> SUBSET Review]
    /\ ReviewingHolds /\ EditingHolds
    /\ \A user \in Users : reputation[user] \subseteq OfUser(user) /\ Lags(reputation[user], user)

\* A payout that an administrator saved is PAID.
PayingHolds ==
    \A m \in paying :
        /\ m \in [by : Admins, payout : Payouts, saved : BOOLEAN]
        /\ payout[m.payout] # NoPayout
        /\ m.saved => payout[m.payout] = "PAID"

PaidOut ==
    /\ payout \in [Payouts -> {NoPayout, "PENDING", "PAID"}]
    /\ payoutStatus \in [Payments -> PayoutStatus]
    /\ PayingHolds /\ SummaryFollowsPayout

IInv == Notices /\ Referrals /\ Reputations /\ PaidOut

LEMMA IInvIsTyped == ASSUME IInv PROVE TypeOK
BY DEF IInv, Notices, Referrals, Reputations, PaidOut, DeliveriesHold, InsertingHolds,
       PushesHold, TypeOK

-----------------------------------------------------------------------------
(***************************************************************************)
(* A step that leaves the variables of a part alone keeps the part.        *)
(***************************************************************************)
LEMMA NoticesStay ==
    ASSUME Notices, UNCHANGED <<emitted, noticeVars>>, completed \subseteq completed'
    PROVE  Notices'
BY DEF noticeVars, Notices, DeliveriesHold, InsertingHolds, PushesHold, PushedOnce

LEMMA ReferralsStay ==
    ASSUME Referrals, UNCHANGED referralVars, completed \subseteq completed',
           completed' \subseteq Contracts
    PROVE  Referrals'
<1>1. referral' = referral /\ qualifying' = qualifying /\ commissions' = commissions
  BY DEF referralVars
<1>2. QualifyingHolds'
  BY <1>1 DEF Referrals, QualifyingHolds, Pending
<1>3. CommissionPerReferral'
  BY <1>1 DEF Referrals, CommissionPerReferral
<1>4. QED
  BY <1>1, <1>2, <1>3 DEF Referrals

LEMMA ReputationsStay ==
    ASSUME Reputations, UNCHANGED reviewVars
    PROVE  Reputations'
BY DEF reviewVars, Reputations, ReviewingHolds, EditingHolds, Lags, OfUser

LEMMA PaidOutStays ==
    ASSUME PaidOut, UNCHANGED payoutVars
    PROVE  PaidOut'
BY DEF payoutVars, PaidOut, PayingHolds, SummaryFollowsPayout

-----------------------------------------------------------------------------
(***************************************************************************)
(* Events.                                                                 *)
(***************************************************************************)
LEMMA ListenersAre ==
    ASSUME NEW kind
    PROVE  /\ Listeners(kind) \subseteq {"creator", "company", "referrals"}
           /\ "referrals" \in Listeners(kind) => kind = "completed"
BY DEF Listeners

\* Emitting hands the event to each listener; a completion is announced after it
\* happened.
LEMMA EmitKeeps ==
    ASSUME Notices, NEW e \in Event, Emit(e), completed \subseteq completed',
           e.kind = "completed" => e.of \in completed',
           UNCHANGED <<inserting, pushing, notification, sent, token>>
    PROVE  Notices'
<1>1. emitted' = [emitted EXCEPT ![e] = @ + 1] /\ emitted \in [Event -> Nat]
  BY DEF Emit, Notices
<1>2. emitted' \in [Event -> Nat] /\ emitted'[e] = emitted[e] + 1
      /\ \A f \in Event : emitted[f] <= emitted'[f]
  BY <1>1
<1>3. DeliveriesHold'
  <2>1. ASSUME NEW d \in deliveries
        PROVE  /\ d.event \in Event /\ d.n \in 1..emitted'[d.event]
               /\ d.to \in {"creator", "company", "referrals"}
               /\ d.to = "referrals" => d.event.of \in completed'
    BY <1>2 DEF Notices, DeliveriesHold
  <2>2. ASSUME NEW to \in Listeners(e.kind)
        PROVE  /\ Delivery(e, to).event = e /\ Delivery(e, to).n \in 1..emitted'[e]
               /\ Delivery(e, to).to \in {"creator", "company", "referrals"}
               /\ Delivery(e, to).to = "referrals" => e.of \in completed'
    <3>1. emitted[e] \in Nat
      BY <1>1
    <3>2. to \in {"creator", "company", "referrals"} /\ (to = "referrals" => e.kind = "completed")
      BY ListenersAre
    <3>3. QED
      BY <1>2, <3>1, <3>2 DEF Delivery
  <2>3. deliveries' = deliveries \cup {Delivery(e, to) : to \in Listeners(e.kind)}
    BY DEF Emit
  <2>4. QED
    BY <2>1, <2>2, <2>3 DEF DeliveriesHold
<1>4. InsertingHolds'
  <2>1. ASSUME NEW d \in inserting
        PROVE  d.event \in Event /\ d.n \in 1..emitted'[d.event] /\ KeyOf(d) \in Key
    BY <1>2 DEF Notices, InsertingHolds
  <2>2. QED
    BY <2>1 DEF InsertingHolds
<1>5. PushesHold' /\ PushedOnce'
  BY DEF Notices, PushesHold, PushedOnce
<1>6. QED
  BY <1>2, <1>3, <1>4, <1>5 DEF Notices

LEMMA AnnounceKeeps ==
    ASSUME IInv, NEW e \in News, Announce(e)
    PROVE  IInv'
<1>1. e \in Event /\ e.kind # "completed" /\ Emit(e) /\ completed' = completed
  BY AftermathConstants DEF Announce, Event
<1>2. Notices'
  BY <1>1, EmitKeeps DEF Announce, IInv
<1>3. Referrals' /\ Reputations' /\ PaidOut'
  BY <1>1, ReferralsStay, ReputationsStay, PaidOutStays DEF Announce, IInv, Referrals
<1>4. QED
  BY <1>2, <1>3 DEF IInv

LEMMA CompleteKeeps ==
    ASSUME IInv, NEW c \in Contracts, Complete(c)
    PROVE  IInv'
<1> DEFINE e == [kind |-> "completed", of |-> c]
<1>1. e \in Event /\ e.of = c /\ Emit(e)
  BY DEF Complete, Event
<1>2. completed' = completed \cup {c} /\ completed' \subseteq Contracts
  BY DEF Complete, IInv, Referrals
<1> HIDE DEF e
<1>3. Notices'
  BY <1>1, <1>2, EmitKeeps DEF Complete, IInv
<1>4. Referrals' /\ Reputations' /\ PaidOut'
  BY <1>2, ReferralsStay, ReputationsStay, PaidOutStays DEF Complete, IInv
<1>5. QED
  BY <1>3, <1>4 DEF IInv

-----------------------------------------------------------------------------
(***************************************************************************)
(* Notifications.                                                          *)
(***************************************************************************)
LEMMA KeyOfDelivery ==
    ASSUME NEW d, d.event \in Event, d.to \in {"creator", "company"}
    PROVE  KeyOf(d) \in Key
BY DEF KeyOf, Key

LEMMA LookUpKeeps ==
    ASSUME Notices, NEW d \in deliveries, LookUp(d)
    PROVE  Notices'
<1>1. /\ deliveries' \subseteq deliveries /\ inserting' \subseteq inserting \cup {d}
      /\ UNCHANGED <<completed, emitted, pushing, notification, sent, token>>
  BY DEF LookUp
<1>2. d.event \in Event /\ d.n \in 1..emitted[d.event] /\ KeyOf(d) \in Key
  <2>1. d.event \in Event /\ d.n \in 1..emitted[d.event] /\ d.to \in {"creator", "company"}
    BY DEF LookUp, Notices, DeliveriesHold
  <2>2. QED
    BY <2>1, KeyOfDelivery
<1>3. DeliveriesHold'
  BY <1>1 DEF Notices, DeliveriesHold
<1>4. InsertingHolds'
  BY <1>1, <1>2 DEF Notices, InsertingHolds
<1>5. PushesHold' /\ PushedOnce'
  BY <1>1 DEF Notices, PushesHold, PushedOnce
<1>6. QED
  BY <1>1, <1>3, <1>4, <1>5 DEF Notices

\* A notice that was not there had not been sent, and is pushed from its first step.
LEMMA InsertKeeps ==
    ASSUME Notices, NEW d \in inserting, Insert(d)
    PROVE  Notices'
<1> DEFINE key == KeyOf(d)
           push == Push(key, "saved", {})
<1>1. /\ UNCHANGED <<completed, emitted, deliveries, sent, token>>
      /\ inserting' \subseteq inserting
  BY DEF Insert
<1>2. key \in Key
  BY DEF Notices, InsertingHolds
<1>3. DeliveriesHold' /\ InsertingHolds' /\ PushedOnce'
  BY <1>1 DEF Notices, DeliveriesHold, InsertingHolds, PushedOnce
<1>4. CASE notification[key].created
  <2>1. notification' = notification /\ pushing' = pushing
    BY <1>4 DEF Insert
  <2>2. PushesHold'
    BY <1>1, <2>1 DEF Notices, PushesHold
  <2>3. QED
    BY <1>1, <1>3, <2>1, <2>2 DEF Notices
<1>5. CASE ~notification[key].created
  <2>1. /\ notification' = [notification EXCEPT ![key] = NewNotice]
        /\ pushing' \subseteq pushing \cup {push}
    BY <1>5 DEF Insert
  <2>2. NewNotice \in Notice /\ NewNotice.created
    BY DEF NewNotice, NoNotice, Notice
  <2>3. push.key = key /\ push.tokens = {} /\ push.step = "saved"
    BY DEF Push
  <2>4. /\ notification' \in [Key -> Notice] /\ notification'[key].created
        /\ \A k \in Key : k # key => notification'[k] = notification[k]
    BY <1>2, <2>1, <2>2 DEF Notices
  <2>5. sent[key] = 0 /\ \A p \in pushing : p.key # key
    BY <1>2, <1>5 DEF Notices, PushesHold
  <2> HIDE DEF key, push
  <2>6. PushesHold'
    <3>1. ASSUME NEW p \in pushing'
          PROVE  /\ p.key \in Key /\ p.tokens \subseteq Tokens
                 /\ notification'[p.key].created
                 /\ p.step # "sent" => sent'[p.key] = 0
      BY <1>1, <1>2, <2>1, <2>3, <2>4, <2>5 DEF Notices, PushesHold
    <3>2. ASSUME NEW p \in pushing', NEW q \in pushing', p.key = q.key
          PROVE  p = q
      BY <2>1, <2>3, <2>5, <3>2 DEF Notices, PushesHold
    <3>3. ASSUME NEW k \in Key, ~notification'[k].created
          PROVE  sent'[k] = 0
      BY <1>1, <2>4, <3>3 DEF Notices, PushesHold
    <3>4. QED
      BY <3>1, <3>2, <3>3 DEF PushesHold
  <2>7. QED
    BY <1>1, <1>3, <2>4, <2>6 DEF Notices
<1>6. QED
  BY <1>4, <1>5

\* A push goes on to another step of the same notice, or ends.
LEMMA PushGoesOn ==
    ASSUME Notices, NEW push \in pushing, NEW next, next.key = push.key,
           next.tokens \subseteq Tokens,
           pushing' \subseteq (pushing \ {push}) \cup {next},
           UNCHANGED <<completed, emitted, deliveries, inserting>>,
           sent' \in [Key -> Nat],
           \A k \in Key : k # push.key => sent'[k] = sent[k],
           sent'[push.key] <= 1,
           next.step # "sent" => sent'[push.key] = 0,
           notification' \in [Key -> Notice],
           \A k \in Key : notification[k].created = notification'[k].created,
           token' \in [Tokens -> [user : Users, active : BOOLEAN]]
    PROVE  Notices'
<1>1. push.key \in Key /\ notification[push.key].created
      /\ \A p \in pushing : p.key = push.key => p = push
  BY DEF Notices, PushesHold
<1>2. DeliveriesHold' /\ InsertingHolds'
  BY DEF Notices, DeliveriesHold, InsertingHolds
<1>3. PushedOnce'
  BY DEF Notices, PushedOnce
<1>4. PushesHold'
  <2>1. ASSUME NEW p \in pushing'
        PROVE  /\ p.key \in Key /\ p.tokens \subseteq Tokens
               /\ notification'[p.key].created
               /\ p.step # "sent" => sent'[p.key] = 0
    BY <1>1 DEF Notices, PushesHold
  <2>2. ASSUME NEW p \in pushing', NEW q \in pushing', p.key = q.key
        PROVE  p = q
    BY <1>1, <2>2 DEF Notices, PushesHold
  <2>3. ASSUME NEW k \in Key, ~notification'[k].created
        PROVE  sent'[k] = 0
    BY <1>1, <2>3 DEF Notices, PushesHold
  <2>4. QED
    BY <2>1, <2>2, <2>3 DEF PushesHold
<1>5. QED
  BY <1>2, <1>3, <1>4 DEF Notices

LEMMA PushStepKeeps ==
    ASSUME Notices, NEW push \in pushing,
           FindTokens(push) \/ SavePush(push) \/ \E dead \in SUBSET push.tokens : Send(push, dead)
    PROVE  Notices'
<1>1. /\ push.key \in Key /\ push.tokens \subseteq Tokens /\ notification[push.key].created
      /\ push.step # "sent" => sent[push.key] = 0
      /\ sent \in [Key -> Nat] /\ notification \in [Key -> Notice] /\ sent[push.key] <= 1
      /\ token \in [Tokens -> [user : Users, active : BOOLEAN]]
  BY DEF Notices, PushesHold, PushedOnce
<1>2. CASE FindTokens(push)
  <2> DEFINE active == {t \in Tokens : token[t].user = UserOf(push.key) /\ token[t].active}
             next == Push(push.key, "listed", active)
  <2>1. /\ push.step = "saved" /\ pushing' \subseteq (pushing \ {push}) \cup {next}
        /\ UNCHANGED <<completed, emitted, deliveries, inserting, notification, sent, token>>
    BY <1>2 DEF FindTokens
  <2>2. next.key = push.key /\ next.step = "listed" /\ next.tokens \subseteq Tokens
    BY DEF Push
  <2> HIDE DEF next
  <2>3. QED
    BY <1>1, <2>1, <2>2, PushGoesOn
<1>3. CASE SavePush(push)
  <2>1. /\ push.step = "sent" /\ pushing' \subseteq (pushing \ {push}) \cup {push}
        /\ UNCHANGED <<completed, emitted, deliveries, inserting, sent>>
        /\ token' = [t \in Tokens |-> [token[t] EXCEPT !.active = @ /\ t \notin push.tokens]]
        /\ notification' = [notification EXCEPT ![push.key] = NewNotice]
    BY <1>3 DEF SavePush
  <2>2. NewNotice \in Notice /\ NewNotice.created = TRUE
    BY DEF NewNotice, NoNotice, Notice
  <2>3. /\ notification' \in [Key -> Notice]
        /\ \A k \in Key : notification[k].created = notification'[k].created
    BY <1>1, <2>1, <2>2 DEF Notice
  <2>4. token' \in [Tokens -> [user : Users, active : BOOLEAN]]
    BY <1>1, <2>1
  <2>5. QED
    BY <1>1, <2>1, <2>3, <2>4, PushGoesOn
<1>4. ASSUME NEW dead \in SUBSET push.tokens, Send(push, dead)
      PROVE  Notices'
  <2> DEFINE next == Push(push.key, "sent", dead)
  <2>1. /\ push.step = "listed" /\ pushing' \subseteq (pushing \ {push}) \cup {next}
        /\ UNCHANGED <<completed, emitted, deliveries, inserting, notification, token>>
        /\ sent' = [sent EXCEPT ![push.key] = @ + 1]
    BY <1>4 DEF Send
  <2>2. next.key = push.key /\ next.step = "sent" /\ next.tokens \subseteq Tokens
    BY <1>1 DEF Push
  <2>3. /\ sent' \in [Key -> Nat] /\ sent'[push.key] = 1
        /\ \A k \in Key : k # push.key => sent'[k] = sent[k]
    BY <1>1, <2>1
  <2> HIDE DEF next
  <2>4. QED
    BY <1>1, <2>1, <2>2, <2>3, PushGoesOn
<1>5. QED
  BY <1>2, <1>3, <1>4

\* Reading notices and signing devices in or out touches no push.
LEMMA MarkAsReadKeeps ==
    ASSUME Notices, NEW keys, MarkAsRead(keys)
    PROVE  Notices'
<1>1. /\ UNCHANGED <<completed, emitted, deliveries, inserting, pushing, sent, token>>
      /\ notification' = [k \in Key |-> IF k \in keys THEN [notification[k] EXCEPT !.read = TRUE]
                                        ELSE notification[k]]
  BY DEF MarkAsRead
<1>2. /\ notification' \in [Key -> Notice]
      /\ \A k \in Key : notification'[k].created = notification[k].created
  BY <1>1 DEF Notices, Notice
<1>3. DeliveriesHold' /\ InsertingHolds' /\ PushedOnce'
  BY <1>1 DEF Notices, DeliveriesHold, InsertingHolds, PushedOnce
<1>4. PushesHold'
  BY <1>1, <1>2 DEF Notices, PushesHold
<1>5. QED
  BY <1>1, <1>2, <1>3, <1>4 DEF Notices

LEMMA TokenStepKeeps ==
    ASSUME Notices, NEW t \in Tokens, NEW user \in Users,
           RegisterPushToken(t, user) \/ UnregisterPushToken(t, user)
    PROVE  Notices'
<1>1. UNCHANGED <<completed, emitted, deliveries, inserting, pushing, notification, sent>>
  BY DEF RegisterPushToken, UnregisterPushToken
<1>2. token' \in [Tokens -> [user : Users, active : BOOLEAN]]
  <2>1. token \in [Tokens -> [user : Users, active : BOOLEAN]]
    BY DEF Notices
  <2>2. CASE RegisterPushToken(t, user)
    <3>1. token' = [token EXCEPT ![t] = [user |-> user, active |-> TRUE]]
      BY <2>2 DEF RegisterPushToken
    <3>2. QED
      BY <2>1, <3>1
  <2>3. CASE UnregisterPushToken(t, user)
    <3>1. token' = [token EXCEPT ![t] = [token[t] EXCEPT !.active = FALSE]]
      BY <2>3 DEF UnregisterPushToken
    <3>2. [token[t] EXCEPT !.active = FALSE] \in [user : Users, active : BOOLEAN]
      BY <2>1
    <3>3. QED
      BY <2>1, <3>1, <3>2
  <2>4. QED
    BY <2>2, <2>3
<1>3. DeliveriesHold' /\ InsertingHolds' /\ PushesHold' /\ PushedOnce'
  BY <1>1 DEF Notices, DeliveriesHold, InsertingHolds, PushesHold, PushedOnce
<1>4. QED
  BY <1>1, <1>2, <1>3 DEF Notices

LEMMA NoticeStepKeeps ==
    ASSUME IInv, NoticeStep
    PROVE  IInv'
<1>1. Notices'
  BY LookUpKeeps, InsertKeeps, PushStepKeeps, MarkAsReadKeeps, TokenStepKeeps DEF NoticeStep, IInv
<1>2. UNCHANGED <<completed, referralVars, reviewVars, payoutVars>>
  BY DEF NoticeStep, LookUp, Insert, FindTokens, Send, SavePush, MarkAsRead, RegisterPushToken,
         UnregisterPushToken
<1>3. Referrals' /\ Reputations' /\ PaidOut'
  BY <1>2, ReferralsStay, ReputationsStay, PaidOutStays DEF IInv, Referrals
<1>4. QED
  BY <1>1, <1>3 DEF IInv

-----------------------------------------------------------------------------
(***************************************************************************)
(* Referrals.                                                              *)
(***************************************************************************)
LEMMA CommissionIsPart ==
    ASSUME NEW c \in Contracts
    PROVE  /\ Commission(c).amount \in 0..Gross[c]
           /\ Commission(c).contract = c /\ Commission(c).referral = CreatorOf[c]
<1> DEFINE g == Gross[c]
<1>1. g \in Nat /\ Rate \in 0..100
  BY AftermathConstants
<1> HIDE DEF g
<1>2. g * Rate \in Nat /\ g * Rate <= g * 100
  BY <1>1
<1>3. (g * Rate) \div 100 \in 0..g
  <2>1. PICK x \in Nat : x = g * Rate
    BY <1>2
  <2>2. x <= g * 100
    BY <1>2, <2>1
  <2>3. x \div 100 \in 0..g
    BY <1>1, <2>2
  <2>4. QED
    BY <2>1, <2>3
<1>4. QED
  BY <1>3 DEF Commission, g

\* The row lock lets no second completion of the creator in.
LEMMA FindReferralKeeps ==
    ASSUME IInv, NEW d \in deliveries, FindReferral(d)
    PROVE  IInv'
<1> DEFINE c == d.event.of
<1>1. /\ deliveries' = deliveries \ {d} /\ d.to = "referrals" /\ ~Locked(CreatorOf[c])
      /\ UNCHANGED <<completed, emitted, inserting, pushing, notification, sent, token,
                     referral, commissions, reviewVars, payoutVars>>
      /\ qualifying' = IF Pending(CreatorOf[c]) THEN qualifying \cup {c} ELSE qualifying
  BY DEF FindReferral
<1>2. c \in completed /\ c \in Contracts
  BY <1>1 DEF IInv, Notices, Referrals, DeliveriesHold
<1> HIDE DEF c
<1>3. Notices'
  BY <1>1 DEF IInv, Notices, DeliveriesHold, InsertingHolds, PushesHold, PushedOnce
<1>4. Referrals'
  <2>1. QualifyingHolds'
    BY <1>1, <1>2 DEF IInv, Referrals, QualifyingHolds, Pending, Locked
  <2>2. CommissionPerReferral'
    BY <1>1 DEF IInv, Referrals, CommissionPerReferral
  <2>3. QED
    BY <1>1, <1>2, <2>1, <2>2 DEF IInv, Referrals
<1>5. Reputations' /\ PaidOut'
  BY <1>1, ReputationsStay, PaidOutStays DEF IInv
<1>6. QED
  BY <1>3, <1>4, <1>5 DEF IInv

LEMMA QualifyKeeps ==
    ASSUME IInv, NEW c \in qualifying, Qualify(c) \/ QualifyFails(c)
    PROVE  IInv'
<1>1. UNCHANGED <<completed, emitted, noticeVars, reviewVars, payoutVars>>
      /\ qualifying' = qualifying \ {c}
  BY DEF Qualify, QualifyFails
<1>2. Notices' /\ Reputations' /\ PaidOut'
  BY <1>1, NoticesStay, ReputationsStay, PaidOutStays DEF IInv
<1>3. c \in Contracts /\ c \in completed /\ Pending(CreatorOf[c])
      /\ \A d \in qualifying : CreatorOf[d] = CreatorOf[c] => d = c
  BY DEF IInv, Referrals, QualifyingHolds
<1>4. CASE QualifyFails(c)
  <2>1. referral' = referral /\ commissions' = commissions
    BY <1>4 DEF QualifyFails
  <2>2. QualifyingHolds' /\ CommissionPerReferral'
    BY <1>1, <2>1 DEF IInv, Referrals, QualifyingHolds, Pending, CommissionPerReferral
  <2>3. QED
    BY <1>1, <1>2, <2>1, <2>2 DEF IInv, Referrals
<1>5. CASE Qualify(c)
  <2> DEFINE k == CreatorOf[c]
             earned(j) == {m \in commissions : m.referral = j}
             new == [status |-> "QUALIFIED", by |-> {c}]
  <2>1. referral' = [referral EXCEPT ![k] = new] /\ commissions' = commissions \cup {Commission(c)}
    BY <1>5 DEF Qualify
  <2>2. k \in Referred /\ referral[k].status = "PENDING"
        /\ referral \in [Referred -> [status : {"PENDING", "QUALIFIED"}, by : SUBSET Contracts]]
    BY <1>3 DEF Pending, IInv, Referrals
  <2>3. new \in [status : {"PENDING", "QUALIFIED"}, by : SUBSET Contracts]
        /\ new.status = "QUALIFIED" /\ new.by = {c}
    BY <1>3
  <2> HIDE DEF new
  <2>4. /\ referral' \in [Referred -> [status : {"PENDING", "QUALIFIED"}, by : SUBSET Contracts]]
        /\ referral'[k] = new
        /\ \A j \in Referred : j # k => referral'[j] = referral[j]
    BY <2>1, <2>2, <2>3
  <2>5. QualifyingHolds'
    BY <1>1, <1>3, <2>4 DEF IInv, Referrals, QualifyingHolds, Pending
  <2>6. \A m \in commissions' : m.amount \in 0..Gross[m.contract]
    BY <1>3, <2>1, CommissionIsPart DEF IInv, Referrals
  <2>7. CommissionPerReferral'
    <3>1. earned(k) = {}
      BY <2>2 DEF IInv, Referrals, CommissionPerReferral
    <3>2. earned(k)' = {Commission(c)}
      BY <1>3, <2>1, <3>1, CommissionIsPart
    <3>3. \A j \in Referred : j # k => earned(j)' = earned(j)
      BY <1>3, <2>1, CommissionIsPart
    <3>4. ASSUME NEW j \in Referred
          PROVE  IF referral'[j].status = "QUALIFIED"
                 THEN \E e \in completed' : referral'[j].by = {e} /\ earned(j)' = {Commission(e)}
                 ELSE earned(j)' = {}
      <4>1. CASE j = k
        BY <1>1, <1>3, <2>3, <2>4, <3>2, <4>1
      <4>2. CASE j # k
        <5>1. referral'[j] = referral[j] /\ earned(j)' = earned(j) /\ completed' = completed
          BY <1>1, <2>4, <3>3, <4>2
        <5>2. IF referral[j].status = "QUALIFIED"
              THEN \E e \in completed : referral[j].by = {e} /\ earned(j) = {Commission(e)}
              ELSE earned(j) = {}
          BY DEF IInv, Referrals, CommissionPerReferral
        <5>3. QED
          BY <5>1, <5>2
      <4>3. QED
        BY <4>1, <4>2
    <3>5. QED
      BY <3>4 DEF CommissionPerReferral, Commission
  <2>8. QED
    BY <1>1, <1>2, <2>4, <2>5, <2>6, <2>7 DEF IInv, Referrals
<1>6. QED
  BY <1>4, <1>5

LEMMA ReferralStepKeeps ==
    ASSUME IInv, ReferralStep
    PROVE  IInv'
BY FindReferralKeeps, QualifyKeeps DEF ReferralStep

-----------------------------------------------------------------------------
(***************************************************************************)
(* Reviews and the profile's average.                                      *)
(***************************************************************************)
LEMMA RevieweeIsUser ==
    ASSUME NEW r \in Review
    PROVE  Reviewee(r) \in Users
BY AftermathConstants DEF Review, Reviewee, Users

\* A review begins: it has counted all that is committed, and it crosses the
\* reviews of the same profile that are under way.
LEMMA InsertReviewKeeps ==
    ASSUME Reputations, NEW r \in Review, InsertReview(r)
    PROVE  Reputations'
<1> DEFINE u == Reviewee(r)
           flying == {f.review : f \in {g \in reviewing : Reviewee(g.review) = u}}
           new == [review |-> r, counted |-> Counted(r)]
<1>1. /\ r \notin reviews /\ r \notin flying
      /\ reviewing' = reviewing \cup {new} /\ crossed' = crossed \cup {{r, f} : f \in flying}
      /\ UNCHANGED <<reviews, reputation, editing, overtook>>
  BY DEF InsertReview
<1>2. new.review = r /\ new.counted = OfUser(u) \cup {r}
  BY DEF Counted
<1>3. \A f \in reviewing : Reviewee(f.review) = u => f.review # r /\ {r, f.review} \in crossed'
  BY <1>1
<1>4. \A user : OfUser(user)' = OfUser(user)
  BY <1>1 DEF OfUser
<1>5. crossed \subseteq crossed'
  BY <1>1
<1> HIDE DEF new, flying
<1>6. ReviewingHolds'
  <2>1. ASSUME NEW f \in reviewing'
        PROVE  /\ f.review \in Review /\ f.review \notin reviews' /\ f.review \in f.counted
               /\ f.counted \subseteq OfUser(Reviewee(f.review))' \cup {f.review}
               /\ \A missed \in OfUser(Reviewee(f.review))' \ f.counted :
                     {missed, f.review} \in crossed'
    <3>1. CASE f = new
      BY <1>1, <1>2, <1>4, <3>1
    <3>2. CASE f \in reviewing
      BY <1>1, <1>4, <1>5, <3>2 DEF Reputations, ReviewingHolds
    <3>3. QED
      BY <1>1, <3>1, <3>2
  <2>2. ASSUME NEW f \in reviewing', NEW g \in reviewing', Reviewee(f.review) = Reviewee(g.review)
        PROVE  f = g \/ (f.review # g.review /\ {f.review, g.review} \in crossed')
    <3>1. CASE f \in reviewing /\ g \in reviewing
      BY <1>5, <2>2, <3>1 DEF Reputations, ReviewingHolds
    <3>2. CASE f = new /\ g \in reviewing
      BY <1>2, <1>3, <2>2, <3>2
    <3>3. CASE f \in reviewing /\ g = new
      <4>1. f.review # r /\ {r, f.review} \in crossed'
        BY <1>2, <1>3, <2>2, <3>3
      <4>2. {f.review, r} = {r, f.review}
        OBVIOUS
      <4>3. QED
        BY <1>2, <3>3, <4>1, <4>2
    <3>4. QED
      BY <1>1, <3>1, <3>2, <3>3
  <2>3. QED
    BY <2>1, <2>2 DEF ReviewingHolds
<1>7. EditingHolds'
  BY <1>1, <1>4, <1>5 DEF Reputations, EditingHolds, Lags
<1>8. \A user \in Users :
         reputation'[user] \subseteq OfUser(user)' /\ Lags(reputation[user], user)'
  BY <1>1, <1>4, <1>5 DEF Reputations, Lags
<1>9. QED
  BY <1>1, <1>6, <1>7, <1>8 DEF Reputations

\* A review commits: the profile gets what it counted, and whoever is in flight
\* misses it, having crossed it or being marked as overtaken.
LEMMA CommitReviewKeeps ==
    ASSUME Reputations, NEW f \in reviewing, CommitReview(f)
    PROVE  Reputations'
<1> DEFINE r == f.review
           u == Reviewee(r)
<1>1. /\ reviewing' = reviewing \ {f} /\ reviews' = reviews \cup {r}
      /\ reputation' = [reputation EXCEPT ![u] = f.counted]
      /\ overtook \subseteq overtook'
      /\ (\E e \in editing : e.of = u) => r \in overtook'
      /\ UNCHANGED <<editing, crossed>>
  BY DEF CommitReview
<1>2. /\ r \in Review /\ r \in f.counted /\ f.counted \subseteq OfUser(u) \cup {r}
      /\ \A missed \in OfUser(u) \ f.counted : {missed, r} \in crossed
      /\ \A g \in reviewing : Reviewee(g.review) = u /\ g # f =>
            g.review # r /\ {r, g.review} \in crossed
  BY DEF Reputations, ReviewingHolds
<1>3. u \in Users
  BY <1>2, RevieweeIsUser
<1>4. OfUser(u)' = OfUser(u) \cup {r} /\ \A user : user # u => OfUser(user)' = OfUser(user)
  BY <1>1 DEF OfUser
<1>5. OfUser(u) \subseteq Review
  BY DEF Reputations, OfUser
<1>6. /\ reputation' \in [Users -> SUBSET Review] /\ reputation'[u] = f.counted
      /\ \A user \in Users : user # u => reputation'[user] = reputation[user]
  BY <1>1, <1>2, <1>3, <1>5 DEF Reputations
<1> HIDE DEF r, u
<1>7. ReviewingHolds'
  <2>1. ASSUME NEW g \in reviewing, g # f
        PROVE  /\ g.review \in Review /\ g.review \notin reviews' /\ g.review \in g.counted
               /\ g.counted \subseteq OfUser(Reviewee(g.review))' \cup {g.review}
               /\ \A missed \in OfUser(Reviewee(g.review))' \ g.counted :
                     {missed, g.review} \in crossed'
    <3>1. /\ g.review \in Review /\ g.review \notin reviews /\ g.review \in g.counted
          /\ g.counted \subseteq OfUser(Reviewee(g.review)) \cup {g.review}
          /\ \A missed \in OfUser(Reviewee(g.review)) \ g.counted : {missed, g.review} \in crossed
      BY DEF Reputations, ReviewingHolds
    <3>2. g.review # r
      BY <1>2, <2>1 DEF u
    <3>3. CASE Reviewee(g.review) = u
      BY <1>1, <1>2, <1>4, <2>1, <3>1, <3>2, <3>3
    <3>4. CASE Reviewee(g.review) # u
      BY <1>1, <1>4, <3>1, <3>2, <3>4
    <3>5. QED
      BY <3>3, <3>4
  <2>2. \A g, h \in reviewing' :
           Reviewee(g.review) = Reviewee(h.review) =>
              g = h \/ (g.review # h.review /\ {g.review, h.review} \in crossed')
    BY <1>1 DEF Reputations, ReviewingHolds
  <2>3. QED
    BY <1>1, <2>1, <2>2 DEF ReviewingHolds
<1>8. ASSUME NEW counted, NEW user, Lags(counted, user), user # u \/ r \in overtook'
      PROVE  Lags(counted, user)'
  BY <1>1, <1>4, <1>8 DEF Lags
<1>9. EditingHolds'
  <2>1. ASSUME NEW e \in editing
        PROVE  e.of \in Users /\ e.counted \subseteq OfUser(e.of)' /\ Lags(e.counted, e.of)'
    <3>1. e.of \in Users /\ e.counted \subseteq OfUser(e.of) /\ Lags(e.counted, e.of)
      BY DEF Reputations, EditingHolds
    <3>2. e.of # u \/ r \in overtook'
      BY <1>1 DEF u, r
    <3>3. PICK counted, user : counted = e.counted /\ user = e.of
      OBVIOUS
    <3>4. Lags(counted, user)'
      BY <1>8, <3>1, <3>2, <3>3
    <3>5. QED
      BY <1>4, <3>1, <3>3, <3>4
  <2>2. QED
    BY <1>1, <2>1 DEF EditingHolds
<1>10. ASSUME NEW user \in Users
       PROVE  reputation'[user] \subseteq OfUser(user)' /\ Lags(reputation[user], user)'
  <2>1. CASE user = u
    <3>1. \A missed \in OfUser(u)' \ f.counted : {missed, r} \in crossed'
      BY <1>1, <1>2, <1>4
    <3>2. QED
      BY <1>2, <1>4, <1>6, <2>1, <3>1 DEF Lags
  <2>2. CASE user # u
    <3>1. reputation[user] \subseteq OfUser(user) /\ Lags(reputation[user], user)
      BY DEF Reputations
    <3>2. PICK counted : counted = reputation[user]
      OBVIOUS
    <3>3. Lags(counted, user)'
      BY <1>8, <2>2, <3>1, <3>2
    <3>4. reputation'[user] = counted
      BY <1>6, <2>2, <3>2
    <3>5. QED
      BY <1>4, <2>2, <3>1, <3>2, <3>3, <3>4 DEF Lags
  <2>3. QED
    BY <2>1, <2>2
<1>11. reviews' \subseteq Review
  BY <1>1, <1>2 DEF Reputations
<1>12. QED
  BY <1>6, <1>7, <1>9, <1>10, <1>11 DEF Reputations

\* An edit reads the profile, and puts back the average that it read.
LEMMA EditKeeps ==
    ASSUME Reputations,
           \/ \E user \in Editors : ReadProfile(user)
           \/ \E e \in editing : SaveProfile(e)
    PROVE  Reputations'
<1>1. UNCHANGED <<reviews, reviewing, crossed, overtook>>
  BY DEF ReadProfile, SaveProfile
<1>2. ReviewingHolds' /\ \A user : OfUser(user)' = OfUser(user)
  BY <1>1 DEF Reputations, ReviewingHolds, OfUser
<1>3. ASSUME NEW user \in Editors, ReadProfile(user)
      PROVE  Reputations'
  <2> DEFINE new == [of |-> user, counted |-> reputation[user]]
  <2>1. /\ editing' = editing \cup {new} /\ reputation' = reputation
        /\ new.of = user /\ new.counted = reputation[user] /\ user \in Users
    BY <1>3, AftermathConstants DEF ReadProfile
  <2> HIDE DEF new
  <2>2. EditingHolds'
    BY <1>1, <1>2, <2>1 DEF Reputations, EditingHolds, Lags
  <2>3. QED
    BY <1>1, <1>2, <2>1, <2>2 DEF Reputations, Lags
<1>4. ASSUME NEW e \in editing, SaveProfile(e)
      PROVE  Reputations'
  <2>1. editing' \subseteq editing /\ reputation' = [reputation EXCEPT ![e.of] = e.counted]
    BY <1>4 DEF SaveProfile
  <2>2. e.of \in Users /\ e.counted \subseteq OfUser(e.of) /\ Lags(e.counted, e.of)
        /\ OfUser(e.of) \subseteq Review
    BY DEF Reputations, EditingHolds, OfUser
  <2>3. /\ reputation' \in [Users -> SUBSET Review] /\ reputation'[e.of] = e.counted
        /\ \A user \in Users : user # e.of => reputation'[user] = reputation[user]
    BY <2>1, <2>2 DEF Reputations
  <2>4. EditingHolds'
    BY <1>1, <1>2, <2>1 DEF Reputations, EditingHolds, Lags
  <2>5. \A user \in Users :
           reputation'[user] \subseteq OfUser(user)' /\ Lags(reputation[user], user)'
    BY <1>1, <1>2, <2>2, <2>3 DEF Reputations, Lags
  <2>6. QED
    BY <1>1, <1>2, <2>3, <2>4, <2>5 DEF Reputations
<1>5. QED
  BY <1>3, <1>4

LEMMA ReviewStepKeeps ==
    ASSUME IInv, ReviewStep
    PROVE  IInv'
<1>1. Reputations'
  BY InsertReviewKeeps, CommitReviewKeeps, EditKeeps DEF ReviewStep, IInv
<1>2. UNCHANGED <<completed, emitted, noticeVars, referralVars, payoutVars>>
  BY DEF ReviewStep, InsertReview, CommitReview, ReadProfile, SaveProfile
<1>3. Notices' /\ Referrals' /\ PaidOut'
  BY <1>2, NoticesStay, ReferralsStay, PaidOutStays DEF IInv, Referrals
<1>4. QED
  BY <1>1, <1>3 DEF IInv

-----------------------------------------------------------------------------
(***************************************************************************)
(* Payouts.                                                                *)
(***************************************************************************)
LEMMA CreatePayoutKeeps ==
    ASSUME IInv, NEW p \in Payouts, CreatePayout(p)
    PROVE  IInv'
<1> DEFINE e == [kind |-> "payoutPending", of |-> p]
           pay == PaymentOf[p]
<1>1. /\ payout[p] = NoPayout /\ payout' = [payout EXCEPT ![p] = "PENDING"]
      /\ payoutStatus' = [payoutStatus EXCEPT ![pay] = "PENDING"] /\ Emit(e)
      /\ UNCHANGED <<completed, inserting, pushing, notification, sent, token,
                     referralVars, reviewVars, paying>>
  BY DEF CreatePayout
<1>2. e \in Event /\ e.kind # "completed" /\ pay \in Payments
  BY DEF Event, Payments
<1> HIDE DEF e
<1>3. Notices'
  BY <1>1, <1>2, EmitKeeps DEF IInv
<1>4. Referrals' /\ Reputations'
  BY <1>1, ReferralsStay, ReputationsStay DEF IInv, Referrals
<1>5. /\ payout' \in [Payouts -> {NoPayout, "PENDING", "PAID"}] /\ payout'[p] = "PENDING"
      /\ \A q \in Payouts : q # p => payout'[q] = payout[q]
      /\ payoutStatus' \in [Payments -> PayoutStatus] /\ payoutStatus'[pay] = "PENDING"
      /\ \A o \in Payments : o # pay => payoutStatus'[o] = payoutStatus[o]
  BY <1>1, <1>2 DEF IInv, PaidOut, PayoutStatus
<1>6. PayingHolds'
  BY <1>1, <1>5 DEF IInv, PaidOut, PayingHolds
<1>7. SummaryFollowsPayout'
  BY <1>1, <1>5 DEF IInv, PaidOut, SummaryFollowsPayout, NoPayout
<1>8. QED
  BY <1>3, <1>4, <1>5, <1>6, <1>7 DEF IInv, PaidOut

LEMMA ReadPayoutKeeps ==
    ASSUME IInv, NEW a \in Admins, NEW p \in Payouts, ReadPayout(a, p)
    PROVE  IInv'
<1>1. /\ payout[p] = "PENDING" /\ payout' = payout /\ payoutStatus' = payoutStatus
      /\ paying' = paying \cup {[by |-> a, payout |-> p, saved |-> FALSE]}
      /\ UNCHANGED <<completed, emitted, noticeVars, referralVars, reviewVars>>
  BY DEF ReadPayout
<1>2. Notices' /\ Referrals' /\ Reputations'
  BY <1>1, NoticesStay, ReferralsStay, ReputationsStay DEF IInv, Referrals
<1>3. PayingHolds'
  <2> DEFINE new == [by |-> a, payout |-> p, saved |-> FALSE]
  <2>1. /\ new \in [by : Admins, payout : Payouts, saved : BOOLEAN]
        /\ payout[new.payout] # NoPayout /\ ~new.saved
    BY <1>1 DEF NoPayout
  <2> HIDE DEF new
  <2>2. paying' = paying \cup {new}
    BY <1>1 DEF new
  <2>3. QED
    BY <1>1, <2>1, <2>2 DEF IInv, PaidOut, PayingHolds
<1>4. SummaryFollowsPayout'
  BY <1>1 DEF IInv, PaidOut, SummaryFollowsPayout
<1>5. QED
  BY <1>1, <1>2, <1>3, <1>4 DEF IInv, PaidOut

LEMMA SavePayoutKeeps ==
    ASSUME IInv, NEW m \in paying, SavePayout(m)
    PROVE  IInv'
<1> DEFINE new == [m EXCEPT !.saved = TRUE]
<1>1. /\ payout' = [payout EXCEPT ![m.payout] = "PAID"] /\ payoutStatus' = payoutStatus
      /\ paying' = (paying \ {m}) \cup {new}
      /\ UNCHANGED <<completed, emitted, noticeVars, referralVars, reviewVars>>
  BY DEF SavePayout
<1>2. m \in [by : Admins, payout : Payouts, saved : BOOLEAN]
  BY DEF IInv, PaidOut, PayingHolds
<1>3. new \in [by : Admins, payout : Payouts, saved : BOOLEAN] /\ new.payout = m.payout
  BY <1>2
<1> HIDE DEF new
<1>4. /\ payout' \in [Payouts -> {NoPayout, "PENDING", "PAID"}] /\ payout'[m.payout] = "PAID"
      /\ \A q \in Payouts : q # m.payout => payout'[q] = payout[q]
  BY <1>1, <1>2 DEF IInv, PaidOut
<1>5. PayingHolds'
  BY <1>1, <1>3, <1>4 DEF IInv, PaidOut, PayingHolds, NoPayout
<1>6. SummaryFollowsPayout'
  BY <1>1, <1>4 DEF IInv, PaidOut, SummaryFollowsPayout
<1>7. Notices' /\ Referrals' /\ Reputations'
  BY <1>1, NoticesStay, ReferralsStay, ReputationsStay DEF IInv, Referrals
<1>8. QED
  BY <1>1, <1>4, <1>5, <1>6, <1>7 DEF IInv, PaidOut

LEMMA SaveSummaryKeeps ==
    ASSUME IInv, NEW m \in paying, SaveSummary(m)
    PROVE  IInv'
<1> DEFINE e == [kind |-> "payoutPaid", of |-> m.payout]
           pay == PaymentOf[m.payout]
<1>1. /\ m.saved /\ payout' = payout /\ paying' = paying \ {m} /\ Emit(e)
      /\ payoutStatus' = [payoutStatus EXCEPT ![pay] = "PAID"]
      /\ UNCHANGED <<completed, inserting, pushing, notification, sent, token,
                     referralVars, reviewVars>>
  BY DEF SaveSummary
<1>2. m.payout \in Payouts /\ payout[m.payout] = "PAID"
  BY <1>1 DEF IInv, PaidOut, PayingHolds
<1>3. e \in Event /\ e.kind # "completed" /\ pay \in Payments
  BY <1>2 DEF Event, Payments
<1> HIDE DEF e
<1>4. Notices'
  BY <1>1, <1>3, EmitKeeps DEF IInv
<1>5. Referrals' /\ Reputations'
  BY <1>1, ReferralsStay, ReputationsStay DEF IInv, Referrals
<1>6. payoutStatus' \in [Payments -> PayoutStatus]
      /\ \A o \in Payments : o # pay => payoutStatus'[o] = payoutStatus[o]
  BY <1>1, <1>3 DEF IInv, PaidOut, PayoutStatus
<1>7. PayingHolds'
  BY <1>1 DEF IInv, PaidOut, PayingHolds
<1>8. SummaryFollowsPayout'
  BY <1>1, <1>2, <1>6 DEF IInv, PaidOut, SummaryFollowsPayout
<1>9. QED
  BY <1>1, <1>4, <1>5, <1>6, <1>7, <1>8 DEF IInv, PaidOut

LEMMA PayoutStepKeeps ==
    ASSUME IInv, PayoutStep
    PROVE  IInv'
BY CreatePayoutKeeps, ReadPayoutKeeps, SavePayoutKeeps, SaveSummaryKeeps DEF PayoutStep

-----------------------------------------------------------------------------
(***************************************************************************)
(* The theorems.                                                           *)
(***************************************************************************)
\* A crash only forgets.
LEMMA CrashKeeps ==
    ASSUME IInv, Crash
    PROVE  IInv'
<1>1. Notices'
  BY DEF Crash, IInv, Notices, DeliveriesHold, InsertingHolds, PushesHold, PushedOnce
<1>2. Referrals'
  BY DEF Crash, IInv, Referrals, QualifyingHolds, CommissionPerReferral
<1>3. Reputations'
  BY DEF Crash, IInv, Reputations, ReviewingHolds, EditingHolds, Lags, OfUser
<1>4. PaidOut'
  BY DEF Crash, IInv, PaidOut, PayingHolds, SummaryFollowsPayout
<1>5. QED
  BY <1>1, <1>2, <1>3, <1>4 DEF IInv

LEMMA InitIInv ==
    ASSUME Init
    PROVE  IInv
<1>1. Notices
  <2>1. NoNotice \in Notice
    BY DEF NoNotice, Notice
  <2>2. token \in [Tokens -> [user : Users, active : BOOLEAN]]
    BY DEF Init, Users
  <2>3. DeliveriesHold /\ InsertingHolds /\ PushesHold /\ PushedOnce
    BY DEF Init, DeliveriesHold, InsertingHolds, PushesHold, PushedOnce
  <2>4. QED
    BY <2>1, <2>2, <2>3 DEF Init, Notices
<1>2. Referrals
  BY DEF Init, Referrals, QualifyingHolds, CommissionPerReferral
<1>3. Reputations
  BY DEF Init, Reputations, ReviewingHolds, EditingHolds, Lags, OfUser
<1>4. PaidOut
  BY DEF Init, PaidOut, PayingHolds, SummaryFollowsPayout, PayoutStatus
<1>5. QED
  BY <1>1, <1>2, <1>3, <1>4 DEF IInv

LEMMA NextIInv ==
    ASSUME IInv, [Next]_vars
    PROVE  IInv'
<1>1. CASE UNCHANGED vars
  BY <1>1, NoticesStay, ReferralsStay, ReputationsStay, PaidOutStays DEF vars, IInv, Referrals
<1>2. CASE Next
  BY <1>2, AnnounceKeeps, CompleteKeeps, NoticeStepKeeps, ReferralStepKeeps, ReviewStepKeeps,
     PayoutStepKeeps, CrashKeeps DEF Next
<1>3. QED
  BY <1>1, <1>2

\* Every state that the listeners, the reviews, the profile edits and the payouts
\* lead to, with crashes anywhere between, satisfies the inductive invariant.
THEOREM Invariance == Spec => []IInv
<1>1. Init => IInv
  BY InitIInv
<1>2. IInv /\ [Next]_vars => IInv'
  BY NextIInv
<1>3. QED
  BY <1>1, <1>2, PTL DEF Spec

\* The rows and what the handlers remember between two statements stay in their
\* types; a commission is never more than the service it is a part of.
THEOREM TypeCorrect == Spec => []TypeOK
<1>1. IInv => TypeOK
  BY IInvIsTyped
<1>2. QED
  BY <1>1, Invariance, PTL

\* The unique key of a notice lets one listener through, and only that one pushes
\* it (notifications.service.ts createNotification and trySendPush), however
\* often an event is emitted.
THEOREM PushedAtMostOnce == Spec => []PushedOnce
<1>1. IInv => PushedOnce
  BY DEF IInv, Notices
<1>2. QED
  BY <1>1, Invariance, PTL

\* The lock of the PENDING referral lets one completion of a creator qualify it
\* (referrals.service.ts handleContractCompleted): one commission, that of the
\* contract it names.
THEOREM OneCommission == Spec => []CommissionPerReferral
<1>1. IInv => CommissionPerReferral
  BY DEF IInv, Referrals
<1>2. QED
  BY <1>1, Invariance, PTL

\* Only a review that crossed a counted one, or an edit of the profile, makes an
\* average miss a committed review (recalculateProfileReputation).
THEOREM OnlyCrossingLags == Spec => []ReputationLagsOnlyByCrossing
<1>1. IInv => ReputationLagsOnlyByCrossing
  BY DEF IInv, Reputations, Lags, ReputationLagsOnlyByCrossing
<1>2. QED
  BY <1>1, Invariance, PTL

\* markAsPaid saves the payout before the payment's summary, and nothing takes a
\* paid payout back (payouts.service.ts).
THEOREM SummaryIsPaid == Spec => []SummaryFollowsPayout
<1>1. IInv => SummaryFollowsPayout
  BY DEF IInv, PaidOut
<1>2. QED
  BY <1>1, Invariance, PTL

-----------------------------------------------------------------------------
(***************************************************************************)
(* Readings.                                                               *)
(***************************************************************************)
ReadIsCreated == \A k \in Key : notification[k].read => notification[k].created

ReadingKept ==
    \A k \in Key :
        notification[k].read /\ ~notification'[k].read
           => \E push \in pushing \ pushing' : push.key = k /\ push.step = "sent"

LEMMA NextReading ==
    ASSUME Notices, ReadIsCreated, [Next]_vars
    PROVE  ReadIsCreated' /\ ReadingKept
<1> USE DEF ReadIsCreated, ReadingKept
<1>1. NewNotice \in Notice /\ NewNotice.created /\ ~NewNotice.read
  BY DEF NewNotice, NoNotice, Notice
<1>2. notification \in [Key -> Notice] /\ \A push \in pushing : push.key \in Key
  BY DEF Notices, PushesHold
<1>3. ASSUME UNCHANGED notification PROVE ReadIsCreated' /\ ReadingKept
  BY <1>3
<1>4. ASSUME NEW d \in inserting, Insert(d) PROVE ReadIsCreated' /\ ReadingKept
  <2>1. KeyOf(d) \in Key
    BY DEF Notices, InsertingHolds
  <2>2. CASE notification[KeyOf(d)].created
    BY <1>3, <1>4, <2>2 DEF Insert
  <2>3. CASE ~notification[KeyOf(d)].created
    <3>1. notification' = [notification EXCEPT ![KeyOf(d)] = NewNotice]
      BY <1>4, <2>3 DEF Insert
    <3>2. QED
      BY <1>1, <1>2, <2>1, <2>3, <3>1
  <2>4. QED
    BY <2>2, <2>3
<1>5. ASSUME NEW push \in pushing, SavePush(push) PROVE ReadIsCreated' /\ ReadingKept
  <2>1. /\ notification' = [notification EXCEPT ![push.key] = NewNotice]
        /\ push \notin pushing' /\ push.step = "sent" /\ push.key \in Key
    BY <1>2, <1>5 DEF SavePush
  <2>2. QED
    BY <1>1, <1>2, <2>1
<1>6. ASSUME NEW user \in Users, NEW keys \in SUBSET Unread(user), MarkAsRead(keys)
      PROVE  ReadIsCreated' /\ ReadingKept
  <2>1. \A k \in keys : notification[k].created
    BY DEF Unread
  <2>2. \A k \in Key : notification'[k] = IF k \in keys THEN [notification[k] EXCEPT !.read = TRUE]
                                          ELSE notification[k]
    BY <1>6 DEF MarkAsRead
  <2>3. \A k \in Key : /\ notification[k] \in [created : BOOLEAN, read : BOOLEAN]
                       /\ notification'[k].created = notification[k].created
                       /\ notification[k].read => notification'[k].read
                       /\ k \notin keys => notification'[k].read = notification[k].read
    BY <1>2, <2>2 DEF Notice
  <2>4. QED
    BY <2>1, <2>3
<1>7. ASSUME NoticeStep PROVE ReadIsCreated' /\ ReadingKept
  <2>1. ASSUME NEW d \in deliveries, LookUp(d) PROVE UNCHANGED notification
    BY <2>1 DEF LookUp
  <2>2. ASSUME NEW push \in pushing,
               FindTokens(push) \/ \E dead \in SUBSET push.tokens : Send(push, dead)
        PROVE  UNCHANGED notification
    BY <2>2 DEF FindTokens, Send
  <2>3. ASSUME NEW t \in Tokens, NEW user \in Users,
               RegisterPushToken(t, user) \/ UnregisterPushToken(t, user)
        PROVE  UNCHANGED notification
    BY <2>3 DEF RegisterPushToken, UnregisterPushToken
  <2>4. \A user \in Users : \A k \in Unread(user) : {k} \in SUBSET Unread(user)
    OBVIOUS
  <2>5. QED
    BY <1>3, <1>4, <1>5, <1>6, <1>7, <2>1, <2>2, <2>3, <2>4 DEF NoticeStep
<1>8. ASSUME Next, ~NoticeStep PROVE UNCHANGED notification
  <2>1. ASSUME NEW e \in News, Announce(e) PROVE UNCHANGED notification
    BY <2>1 DEF Announce
  <2>2. ASSUME NEW c \in Contracts, Complete(c) PROVE UNCHANGED notification
    BY <2>2 DEF Complete
  <2>3. ASSUME ReferralStep PROVE UNCHANGED notification
    BY <2>3 DEF ReferralStep, FindReferral, Qualify, QualifyFails, noticeVars
  <2>4. ASSUME ReviewStep PROVE UNCHANGED notification
    BY <2>4 DEF ReviewStep, InsertReview, CommitReview, ReadProfile, SaveProfile, noticeVars
  <2>5. ASSUME PayoutStep PROVE UNCHANGED notification
    BY <2>5 DEF PayoutStep, CreatePayout, ReadPayout, SavePayout, SaveSummary, noticeVars
  <2>6. ASSUME Crash PROVE UNCHANGED notification
    BY <2>6 DEF Crash
  <2>7. QED
    BY <1>8, <2>1, <2>2, <2>3, <2>4, <2>5, <2>6 DEF Next
<1>9. CASE UNCHANGED vars
  BY <1>3, <1>9 DEF vars, noticeVars
<1>10. QED
  BY <1>3, <1>7, <1>8, <1>9

\* A reading (markAsRead, markAllAsRead) is taken back by nothing but the save that
\* ends the push of its own notice (trySendPush), and a notice has one push: neither
\* a repeated event nor another listener creates it anew.
THEOREM OnlyItsPushUndoesReading == Spec => ReadUndoneByItsPush
<1>1. Init => ReadIsCreated
  BY DEF Init, ReadIsCreated, NoNotice
<1>2. IInv /\ ReadIsCreated /\ [Next]_vars => ReadIsCreated' /\ [ReadingKept]_vars
  BY NextReading DEF IInv
<1>3. Spec => [][ReadingKept]_vars
  BY <1>1, <1>2, Invariance, PTL DEF Spec
<1>4. QED
  BY <1>3, PTL DEF ReadUndoneByItsPush, ReadingKept
=============================================================================
