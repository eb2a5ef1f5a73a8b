------------------------------ MODULE Aftermath ------------------------------
(***************************************************************************)
(* What follows from what happens to contracts: notifications and pushes   *)
(* (notifications/), the commission of a referral (referrals/), the        *)
(* reputation that reviews give (reviews/) and the creator's payouts       *)
(* (payments/payouts/payouts.service.ts).                                  *)
(*                                                                         *)
(* An event is emitted in the memory of the process, after the commit of   *)
(* what it is about; each listener handles it on its own, awaiting between *)
(* its statements, and swallows its errors.  A crash forgets it all.  The  *)
(* key that keeps notices from being repeated is the event and the side it *)
(* goes to.  Titles, texts and the data of a notice are left out.          *)
(***************************************************************************)
EXTENDS FiniteSetsExt, Integers

CONSTANTS Contracts, Creators, Company,
          CreatorOf,    \* the creator of a contract
          Gross,        \* what a contract pays for the service, in cents
          Rate,         \* commissionRatePercent of the partner
          Referred,     \* creators with a referral
          Payouts,
          PaymentOf,    \* the payment a payout is part of
          ContractOf,   \* the contract a payment is for
          Admins,       \* administrators who pay payouts
          News,         \* other events: sets of [kind, of]
          Repeats,      \* bound: emissions of an event that may be repeated
          MaxEvents,    \* bound: events of a behaviour, the payments of payouts apart
          Reviewers,    \* the sides that write reviews
          Editors,      \* users who edit their profile, one edit at a time
          Tokens        \* push tokens

Users == Creators \cup {Company}
Payments == {PaymentOf[p] : p \in Payouts}

ASSUME AftermathConstants ==
    /\ Company \notin Creators
    /\ CreatorOf \in [Contracts -> Creators]
    /\ Gross \in [Contracts -> Nat]
    /\ Rate \in 0..100
    /\ Referred \subseteq Creators
    /\ ContractOf \in [Payments -> Contracts]
    /\ \A e \in News : e.kind \notin {"completed", "payoutPending", "payoutPaid"}
    /\ Repeats \in Nat /\ MaxEvents \in Nat
    /\ Reviewers \subseteq {"creator", "company"}
    /\ Editors \subseteq Users

VARIABLES completed,    \* the contracts that are COMPLETED
          emitted,      \* history: how often an event was emitted
          deliveries,   \* listeners that have an event and have not begun
          inserting,    \* createNotification, between the lookup and the insert
          pushing,      \* trySendPush, between its steps
          notification, \* notifications
          sent,         \* history: how often a notice went to the push provider
          token,        \* user_push_tokens
          referral,     \* referrals
          qualifying,   \* handleContractCompleted, before its commit
          commissions,  \* commissions
          reviews,      \* reviews
          reviewing,    \* reviews.create, before its commit
          reputation,   \* the reviews that a profile's average and count were taken of
          editing,      \* profile edits, between the read and the save of the whole row
          crossed,      \* history: pairs of reviews that were in flight together
          overtook,     \* history: reviews committed while the reviewee's edit was in flight
          payout,       \* creator_payouts
          payoutStatus, \* the summary on payments
          paying        \* markAsPaid, between its statements

noticeVars == <<deliveries, inserting, pushing, notification, sent, token>>
referralVars == <<referral, qualifying, commissions>>
reviewVars == <<reviews, reviewing, reputation, editing, crossed, overtook>>
payoutVars == <<payout, payoutStatus, paying>>
vars == <<completed, emitted, noticeVars, referralVars, reviewVars, payoutVars>>

Event == News \cup [kind : {"completed"}, of : Contracts]
              \cup [kind : {"payoutPending", "payoutPaid"}, of : Payouts]
Key == [event : Event, to : {"creator", "company"}]

Review == [contract : Contracts, by : Reviewers]
Reviewee(r) == IF r.by = "company" THEN CreatorOf[r.contract] ELSE Company

Notice == [created : BOOLEAN, read : BOOLEAN]
NoNotice == [created |-> FALSE, read |-> FALSE]
NewNotice == [NoNotice EXCEPT !.created = TRUE]
NoPayout == "NONE"
PayoutStatus == {"NOT_DUE", "PENDING", "PAID"}

TypeOK ==
    /\ completed \subseteq Contracts
    /\ emitted \in [Event -> Nat]
    /\ notification \in [Key -> Notice]
    /\ \A d \in deliveries \cup inserting : d.event \in Event /\ d.n \in 1..emitted[d.event]
    /\ \A push \in pushing : push.key \in Key /\ push.tokens \subseteq Tokens
    /\ sent \in [Key -> Nat]
    /\ token \in [Tokens -> [user : Users, active : BOOLEAN]]
    /\ referral \in [Referred -> [status : {"PENDING", "QUALIFIED"}, by : SUBSET Contracts]]
    /\ qualifying \subseteq Contracts
    /\ \A m \in commissions : m.amount \in 0..Gross[m.contract]
    /\ reviews \subseteq Review
    /\ reputation \in [Users -> SUBSET Review]
    /\ payout \in [Payouts -> {NoPayout, "PENDING", "PAID"}]
    /\ payoutStatus \in [Payments -> PayoutStatus]

Init ==
    /\ completed = {}
    /\ emitted = [e \in Event |-> 0]
    /\ deliveries = {} /\ inserting = {} /\ pushing = {}
    /\ notification = [k \in Key |-> NoNotice]
    /\ sent = [k \in Key |-> 0]
    /\ token \in [Tokens -> [user : Creators, active : {TRUE}]]
    /\ referral = [k \in Referred |-> [status |-> "PENDING", by |-> {}]]
    /\ qualifying = {} /\ commissions = {}
    /\ reviews = {} /\ reviewing = {} /\ editing = {} /\ crossed = {} /\ overtook = {}
    /\ reputation = [u \in Users |-> {}]
    /\ payout = [p \in Payouts |-> NoPayout]
    /\ payoutStatus = [pay \in Payments |-> "NOT_DUE"]
    /\ paying = {}

-----------------------------------------------------------------------------
(***************************************************************************)
(* Events and the listeners that handle them.                              *)
(***************************************************************************)
\* Who is told: the listeners of company-, creator-notifications.listener.ts and
\* contract-completed.listener.ts.
Listeners(kind) ==
    CASE kind \in {"visible", "payoutPending", "payoutPaid", "messageToCreator"} -> {"creator"}
      [] kind \in {"application", "inviteAccepted", "messageToCompany"} -> {"company"}
      [] kind = "awaiting" -> {"creator", "company"}
      [] kind = "completed" -> {"company", "referrals"}
      [] OTHER -> {} \* "offerAccepted": the acceptance of a hire is not announced

Delivery(e, to) == [event |-> e, to |-> to, n |-> emitted[e] + 1]

Happened == MapThenSumSet(LAMBDA e : IF e.kind = "payoutPaid" THEN 0 ELSE emitted[e], Event)

Emit(e) ==
    /\ emitted' = [emitted EXCEPT ![e] = @ + 1]
    /\ deliveries' = deliveries \cup {Delivery(e, to) : to \in Listeners(e.kind)}

\* The company is reminded of its review without a push.
ShouldPush(e) == e.kind # "completed"

KeyOf(d) == [event |-> d.event, to |-> d.to]

ContractOfEvent(e) == IF e.of \in Payouts THEN ContractOf[PaymentOf[e.of]] ELSE e.of
UserOf(key) == IF key.to = "company" THEN Company ELSE CreatorOf[ContractOfEvent(key.event)]

\* What is announced elsewhere; that a contract becomes visible, once more when
\* its payment is confirmed twice.
Announce(e) ==
    /\ emitted[e] < (IF e.kind = "visible" THEN Repeats ELSE 1)
    /\ Happened < MaxEvents
    /\ Emit(e)
    /\ UNCHANGED <<completed, inserting, pushing, notification, sent, token,
                   referralVars, reviewVars, payoutVars>>

\* ContractLifecycle!AnnouncedOnce
Complete(c) ==
    /\ c \notin completed
    /\ Happened < MaxEvents
    /\ completed' = completed \cup {c}
    /\ Emit([kind |-> "completed", of |-> c])
    /\ UNCHANGED <<inserting, pushing, notification, sent, token,
                   referralVars, reviewVars, payoutVars>>

-----------------------------------------------------------------------------
(***************************************************************************)
(* Notifications: createNotification and trySendPush.                      *)
(***************************************************************************)
Reviewed(d) == /\ d.event.kind = "completed"
               /\ [contract |-> d.event.of, by |-> "company"] \in reviews

LookUp(d) ==
    /\ d \in deliveries /\ d.to # "referrals"
    /\ deliveries' = deliveries \ {d}
    /\ inserting' = IF Reviewed(d) \/ notification[KeyOf(d)].created
                    THEN inserting ELSE inserting \cup {d}
    /\ UNCHANGED <<completed, emitted, pushing, notification, sent, token,
                   referralVars, reviewVars, payoutVars>>

Push(key, step, tokens) == [key |-> key, step |-> step, tokens |-> tokens]

\* Mutant: the database has no unique key over user and dedupe_key.
InsertAnyway(d) ==
    /\ inserting' = inserting \ {d}
    /\ notification' = [notification EXCEPT ![KeyOf(d)] = NewNotice]
    /\ pushing' = IF ShouldPush(d.event)
                  THEN pushing \cup {Push(KeyOf(d), "saved", {})} ELSE pushing
    /\ UNCHANGED <<completed, emitted, deliveries, sent, token,
                   referralVars, reviewVars, payoutVars>>

\* A second insert of a key fails, and its listener gives up.
Insert(d) ==
    /\ inserting' = inserting \ {d}
    /\ IF notification[KeyOf(d)].created
       THEN UNCHANGED <<notification, pushing>>
       ELSE /\ notification' = [notification EXCEPT ![KeyOf(d)] = NewNotice]
            /\ pushing' = IF ShouldPush(d.event)
                          THEN pushing \cup {Push(KeyOf(d), "saved", {})} ELSE pushing
    /\ UNCHANGED <<completed, emitted, deliveries, sent, token,
                   referralVars, reviewVars, payoutVars>>

FindTokens(push) ==
    LET active == {t \in Tokens : token[t].user = UserOf(push.key) /\ token[t].active}
    IN  /\ push.step = "saved"
        /\ pushing' = (pushing \ {push})
                        \cup (IF active = {} THEN {} ELSE {Push(push.key, "listed", active)})
        /\ UNCHANGED <<completed, emitted, deliveries, inserting, notification, sent, token,
                       referralVars, reviewVars, payoutVars>>

\* sendToTokens: the provider is called, and names the devices that are dead.
Send(push, dead) ==
    /\ push.step = "listed"
    /\ sent' = [sent EXCEPT ![push.key] = @ + 1]
    /\ pushing' = (pushing \ {push})
                    \cup {Push(push.key, "sent", dead)}
    /\ UNCHANGED <<completed, emitted, deliveries, inserting, notification, token,
                   referralVars, reviewVars, payoutVars>>

\* The dead tokens are invalidated, and the notice is saved from memory: what the
\* provider said of it (pushedAt or lastPushError, left out), and its readAt too.
SavePush(push) ==
    /\ push.step = "sent"
    /\ pushing' = pushing \ {push}
    /\ token' = [t \in Tokens |-> [token[t] EXCEPT !.active = @ /\ t \notin push.tokens]]
    /\ notification' = [notification EXCEPT ![push.key] = NewNotice]
    /\ UNCHANGED <<completed, emitted, deliveries, inserting, sent,
                   referralVars, reviewVars, payoutVars>>

Unread(user) == {k \in Key : UserOf(k) = user /\ notification[k].created /\ ~notification[k].read}

\* markAsRead, of one notice, and markAllAsRead
MarkAsRead(keys) ==
    /\ notification' = [k \in Key |-> IF k \in keys THEN [notification[k] EXCEPT !.read = TRUE]
                                      ELSE notification[k]]
    /\ UNCHANGED <<completed, emitted, deliveries, inserting, pushing, sent, token,
                   referralVars, reviewVars, payoutVars>>

\* registerPushToken: a device passes to the user who is signed in on it.
RegisterPushToken(t, user) ==
    /\ token[t] # [user |-> user, active |-> TRUE]
    /\ token' = [token EXCEPT ![t] = [user |-> user, active |-> TRUE]]
    /\ UNCHANGED <<completed, emitted, deliveries, inserting, pushing, notification, sent,
                   referralVars, reviewVars, payoutVars>>

UnregisterPushToken(t, user) ==
    /\ token[t] = [user |-> user, active |-> TRUE]
    /\ token' = [token EXCEPT ![t].active = FALSE]
    /\ UNCHANGED <<completed, emitted, deliveries, inserting, pushing, notification, sent,
                   referralVars, reviewVars, payoutVars>>

NoticeStep ==
    \/ \E d \in deliveries : LookUp(d)
    \/ \E d \in inserting : Insert(d)
    \/ \E push \in pushing : \/ FindTokens(push) \/ SavePush(push)
                             \/ \E dead \in SUBSET push.tokens : Send(push, dead)
    \/ \E user \in Users : \/ \E k \in Unread(user) : MarkAsRead({k})
                           \/ Unread(user) # {} /\ MarkAsRead(Unread(user))
    \/ \E t \in Tokens, user \in Users : RegisterPushToken(t, user) \/ UnregisterPushToken(t, user)

-----------------------------------------------------------------------------
(***************************************************************************)
(* Referrals: handleContractCompleted of referrals.service.ts, one         *)
(* transaction that locks the creator's PENDING referral.                  *)
(***************************************************************************)
Locked(k) == \E c \in qualifying : CreatorOf[c] = k
Pending(k) == k \in Referred /\ referral[k].status = "PENDING"

\* Mutant: the referral is read without a lock.
FindReferralUnlocked(d) ==
    LET c == d.event.of
    IN  /\ d.to = "referrals"
        /\ deliveries' = deliveries \ {d}
        /\ qualifying' = IF Pending(CreatorOf[c]) THEN qualifying \cup {c} ELSE qualifying
        /\ UNCHANGED <<completed, emitted, inserting, pushing, notification, sent, token,
                       referral, commissions, reviewVars, payoutVars>>

FindReferral(d) ==
    LET c == d.event.of
    IN  /\ d.to = "referrals"
        /\ ~Locked(CreatorOf[c])
        /\ deliveries' = deliveries \ {d}
        /\ qualifying' = IF Pending(CreatorOf[c]) THEN qualifying \cup {c} ELSE qualifying
        /\ UNCHANGED <<completed, emitted, inserting, pushing, notification, sent, token,
                       referral, commissions, reviewVars, payoutVars>>

\* Mutant: the percentage is not one.
CommissionUnscaled(c) == [referral |-> CreatorOf[c], contract |-> c, amount |-> Gross[c] * Rate]

Commission(c) == [referral |-> CreatorOf[c], contract |-> c, amount |-> (Gross[c] * Rate) \div 100]

\* The partner earns whether still active or suspended.
Qualify(c) ==
    /\ qualifying' = qualifying \ {c}
    /\ referral' = [referral EXCEPT ![CreatorOf[c]] = [status |-> "QUALIFIED", by |-> {c}]]
    /\ commissions' = commissions \cup {Commission(c)}
    /\ UNCHANGED <<completed, emitted, noticeVars, reviewVars, payoutVars>>

\* A failure is logged; nothing handles the event again.
QualifyFails(c) ==
    /\ qualifying' = qualifying \ {c}
    /\ UNCHANGED <<completed, emitted, noticeVars, referral, commissions, reviewVars, payoutVars>>

ReferralStep ==
    \/ \E d \in deliveries : FindReferral(d)
    \/ \E c \in qualifying : Qualify(c) \/ QualifyFails(c)

-----------------------------------------------------------------------------
(***************************************************************************)
(* Reviews: create and recalculateProfileReputation of reviews.service.ts, *)
(* which counts the rows that are committed and its own.                   *)
(***************************************************************************)
OfUser(user) == {r \in reviews : Reviewee(r) = user}

\* Mutant: the reputation is recalculated before the review is inserted.
CountedBefore(r) == OfUser(Reviewee(r))

Counted(r) == OfUser(Reviewee(r)) \cup {r}

\* Another insert for the same contract and side waits for this one.
InsertReview(r) ==
    LET flying == {f.review : f \in {g \in reviewing : Reviewee(g.review) = Reviewee(r)}}
    IN  /\ r.contract \in completed
        /\ r \notin reviews \cup flying
        /\ reviewing' = reviewing \cup {[review |-> r, counted |-> Counted(r)]}
        /\ crossed' = crossed \cup {{r, f} : f \in flying}
        /\ UNCHANGED <<completed, emitted, noticeVars, referralVars, reviews, reputation,
                       editing, overtook, payoutVars>>

CommitReview(f) ==
    /\ reviewing' = reviewing \ {f}
    /\ reviews' = reviews \cup {f.review}
    /\ reputation' = [reputation EXCEPT ![Reviewee(f.review)] = f.counted]
    /\ overtook' = IF \E e \in editing : e.of = Reviewee(f.review)
                   THEN overtook \cup {f.review} ELSE overtook
    /\ UNCHANGED <<completed, emitted, noticeVars, referralVars, editing, crossed, payoutVars>>

\* updateProfile, updatePhotoUrl and syncProfileCoordinates read the profile...
ReadProfile(user) ==
    /\ \A e \in editing : e.of # user
    /\ editing' = editing \cup {[of |-> user, counted |-> reputation[user]]}
    /\ UNCHANGED <<completed, emitted, noticeVars, referralVars, reviews, reviewing, reputation,
                   crossed, overtook, payoutVars>>

\* ... and save all of it, the average and the count that they read too.
SaveProfile(e) ==
    /\ editing' = editing \ {e}
    /\ reputation' = [reputation EXCEPT ![e.of] = e.counted]
    /\ UNCHANGED <<completed, emitted, noticeVars, referralVars, reviews, reviewing,
                   crossed, overtook, payoutVars>>

ReviewStep ==
    \/ \E r \in Review : InsertReview(r)
    \/ \E f \in reviewing : CommitReview(f)
    \/ \E user \in Editors : ReadProfile(user)
    \/ \E e \in editing : SaveProfile(e)

-----------------------------------------------------------------------------
(***************************************************************************)
(* Payouts: a payment's confirmation creates one (module Payments), and an *)
(* administrator marks it as paid.                                         *)
(***************************************************************************)
CreatePayout(p) ==
    /\ payout[p] = NoPayout
    /\ Happened < MaxEvents
    /\ payout' = [payout EXCEPT ![p] = "PENDING"]
    /\ payoutStatus' = [payoutStatus EXCEPT ![PaymentOf[p]] = "PENDING"]
    /\ Emit([kind |-> "payoutPending", of |-> p])
    /\ UNCHANGED <<completed, inserting, pushing, notification, sent, token,
                   referralVars, reviewVars, paying>>

ReadPayout(a, p) ==
    /\ payout[p] = "PENDING"
    /\ \A m \in paying : m.by # a
    /\ paying' = paying \cup {[by |-> a, payout |-> p, saved |-> FALSE]}
    /\ UNCHANGED <<completed, emitted, noticeVars, referralVars, reviewVars, payout, payoutStatus>>

\* Mutant: the summary is written before the payout.
SaveSummaryFirst(m) ==
    /\ ~m.saved
    /\ payoutStatus' = [payoutStatus EXCEPT ![PaymentOf[m.payout]] = "PAID"]
    /\ paying' = (paying \ {m}) \cup {[m EXCEPT !.saved = TRUE]}
    /\ UNCHANGED <<completed, emitted, noticeVars, referralVars, reviewVars, payout>>

SavePayout(m) ==
    /\ ~m.saved
    /\ payout' = [payout EXCEPT ![m.payout] = "PAID"]
    /\ paying' = (paying \ {m}) \cup {[m EXCEPT !.saved = TRUE]}
    /\ UNCHANGED <<completed, emitted, noticeVars, referralVars, reviewVars, payoutStatus>>

SaveSummary(m) ==
    /\ m.saved
    /\ payoutStatus' = [payoutStatus EXCEPT ![PaymentOf[m.payout]] = "PAID"]
    /\ paying' = paying \ {m}
    /\ Emit([kind |-> "payoutPaid", of |-> m.payout])
    /\ UNCHANGED <<completed, inserting, pushing, notification, sent, token,
                   referralVars, reviewVars, payout>>

PayoutStep ==
    \/ \E p \in Payouts : CreatePayout(p) \/ \E a \in Admins : ReadPayout(a, p)
    \/ \E m \in paying : SavePayout(m) \/ SaveSummary(m)

-----------------------------------------------------------------------------
\* The process dies: transactions are rolled back, events and pushes forgotten.
Crash ==
    /\ deliveries' = {} /\ inserting' = {} /\ pushing' = {}
    /\ qualifying' = {} /\ reviewing' = {} /\ editing' = {} /\ paying' = {}
    /\ UNCHANGED <<completed, emitted, notification, sent, token, referral, commissions,
                   reviews, reputation, crossed, overtook, payout, payoutStatus>>

Next ==
    \/ \E e \in News : Announce(e)
    \/ \E c \in Contracts : Complete(c)
    \/ NoticeStep \/ ReferralStep \/ ReviewStep \/ PayoutStep \/ Crash

Spec == Init /\ [][Next]_vars

-----------------------------------------------------------------------------
(***************************************************************************)
(* Properties that hold.                                                   *)
(***************************************************************************)
\* A notice is handed to the push provider once at most: neither an event that
\* is emitted twice, nor listeners of it that overlap, repeat a push.
PushedOnce == \A k \in Key : sent[k] <= 1

\* A notice that was read becomes unread only by the save that ends its own push:
\* neither an event that is emitted again, nor a listener that overlaps, nor the
\* push of another notice takes a reading back.
ReadUndoneByItsPush ==
    [][\A k \in Key :
          notification[k].read /\ ~notification'[k].read
             => \E push \in pushing \ pushing' : push.key = k /\ push.step = "sent"]_vars

\* A referral is QUALIFIED exactly when its partner has one commission for it,
\* that of the contract it was qualified by, in whichever order the completions
\* of its creator's contracts are handled and whichever of them fail.
CommissionPerReferral ==
    \A k \in Referred :
        LET earned == {m \in commissions : m.referral = k}
        IN  IF referral[k].status = "QUALIFIED"
            THEN \E c \in completed : referral[k].by = {c} /\ earned = {Commission(c)}
            ELSE earned = {}

\* A review that a profile's average misses was written while one that the average
\* counts was being written, or while the profile was being edited: nothing else
\* ever loses one.
ReputationLagsOnlyByCrossing ==
    \A user \in Users :
        /\ reputation[user] \subseteq OfUser(user)
        /\ \A missed \in OfUser(user) \ (reputation[user] \cup overtook) :
              \E r \in reputation[user] : {missed, r} \in crossed

\* A payment whose summary says that its payout was PAID has one that was,
\* wherever markAsPaid stopped and whoever else was paying.
SummaryFollowsPayout ==
    \A pay \in Payments :
        payoutStatus[pay] = "PAID" => \E p \in Payouts : PaymentOf[p] = pay /\ payout[p] = "PAID"

-----------------------------------------------------------------------------
(***************************************************************************)
(* Stated, and not kept by the code: the save that ends a push writes the  *)
(* readAt that was in memory.                                              *)
(***************************************************************************)
\* A notice that was read stays read.
ReadStaysRead ==
    [][\A k \in Key : notification[k].read
                        => notification'[k].read]_vars
=============================================================================
