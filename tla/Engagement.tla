----------------------------- MODULE Engagement -----------------------------
(***************************************************************************)
(* The two sides of a contract while it lives: its conversation            *)
(* (conversations/conversations.service.ts), their reviews of each other   *)
(* (reviews/reviews.service.ts), and what their hubs offer them (module    *)
(* Hubs), composed with the contract's own life (ContractLifecycle).       *)
(*                                                                         *)
(* accept and the selection of an open offer create the conversation in    *)
(* their transaction; the lists create a missing one; nothing closes one   *)
(* when its contract ends: the next request that touches it does.  A       *)
(* message is sent in two steps, the context being read before the insert. *)
(* Its created_at is the start of the transaction, in microseconds, but    *)
(* the program reads it in milliseconds.                                   *)
(***************************************************************************)
EXTENDS ContractLifecycle

Hub == INSTANCE Hubs

CONSTANTS MaxMessages, \* bound: messages written in a behaviour
          Milli        \* microseconds in a millisecond

\* The counters of the hubs count the rows of a table.
ASSUME EngagementConstants ==
    /\ MaxMessages \in Nat /\ Milli \in Nat \ {0}
    /\ IsFiniteSet(Contracts)

VARIABLES conversation, \* conversations, with the read marks of their participants
          messages,     \* messages of the contract's conversation
          shown,        \* history: the newest message a side was sent or wrote
          sending,      \* sendMessage, between the context and the insert
          clock,        \* the time, moved on by each message
          reviews       \* the sides that have reviewed the contract

chatVars == <<conversation, messages, shown, sending, clock, reviews>>
engagementVars == <<vars, chatVars>>

ConversationStatus == {"NONE", "OPEN", "CLOSED"}
Message == [from : Side, at : 1..MaxMessages]
Other(side) == CHOOSE other \in Side : other # side

EngagementTypeOK ==
    /\ TypeOK
    /\ conversation \in [Contracts -> [status : ConversationStatus,
                                       lastReadAt : [Side -> 0..MaxMessages]]]
    /\ messages \in [Contracts -> SUBSET Message]
    /\ shown \in [Contracts -> [Side -> 0..MaxMessages]]
    /\ sending \subseteq [contract : Contracts, message : Message]
    /\ clock \in 0..MaxMessages
    /\ reviews \in [Contracts -> SUBSET Side]

Nobody == [side \in Side |-> 0]
Conversation(status) == [status |-> status, lastReadAt |-> Nobody]

EngagementInit ==
    /\ Init
    /\ conversation = [c \in Contracts |->
                         Conversation(IF c \in OpenOffer THEN "OPEN" ELSE "NONE")]
    /\ messages = [c \in Contracts |-> {}]
    /\ shown = [c \in Contracts |-> Nobody]
    /\ sending = {}
    /\ clock = 0
    /\ reviews = [c \in Contracts |-> {}]

-----------------------------------------------------------------------------
(***************************************************************************)
(* Conversations.                                                          *)
(***************************************************************************)
AccessibleStatus ==
    {"ACCEPTED", "AWAITING_COMPLETION_CONFIRMATION", "COMPLETION_DISPUTE", "CANCELLED", "COMPLETED"}
SendBlockedStatus == {"PENDING_ACCEPTANCE", "REJECTED", "CANCELLED", "COMPLETED"}

ClosedStatus(status) == status \in {"CANCELLED", "COMPLETED"}

\* createConversationInternal and syncConversationClosedAt
Synced(c, status) ==
    IF conversation[c].status = "NONE"
    THEN Conversation(IF ClosedStatus(status) THEN "CLOSED" ELSE "OPEN")
    ELSE [conversation[c] EXCEPT !.status = IF ClosedStatus(status) THEN "CLOSED" ELSE @]

\* listMyConversations: one that is missing is created, one that is over closed.
\* The contract of a conversation is always in an accessible status, or the whole
\* list is refused.
ListConversations ==
    LET accessible == {c \in Contracts : contract[c].status \in AccessibleStatus}
    IN  /\ \A c \in Contracts \ accessible : conversation[c].status = "NONE"
        /\ conversation' = [c \in Contracts |->
                              IF c \in accessible THEN Synced(c, contract[c].status)
                              ELSE conversation[c]]
        /\ UNCHANGED <<vars, messages, shown, sending, clock, reviews>>

\* getAccessContextOrThrow
Accessible(c) ==
    /\ conversation[c].status # "NONE"
    /\ contract[c].status \in AccessibleStatus

Milliseconds(at) == at - (at % Milli)

\* Mutant: the mark is the time of the request.
MarkNow(marks, side, at) ==
    [marks EXCEPT ![side] = IF @ < Milliseconds(clock) THEN Milliseconds(clock) ELSE @]

\* updateParticipantLastReadAt: only ever forward.
Mark(marks, side, at) ==
    [marks EXCEPT ![side] = IF @ < Milliseconds(at) THEN Milliseconds(at) ELSE @]

\* findMessagesPage: the messages before a cursor, which is the date of the last
\* message of another page; how many of them fit does not matter here.
Page(c, before) == {m \in messages[c] : m.at < before}
Cursors(c) == {MaxMessages + 1} \cup {Milliseconds(m.at) : m \in messages[c]}

\* getConversationMessages
GetMessages(c, side, before) ==
    /\ Accessible(c)
    /\ \E newest \in Page(c, before) :
          /\ \A m \in Page(c, before) : m.at <= newest.at
          /\ conversation' = [conversation EXCEPT
               ![c] = [Synced(c, contract[c].status) EXCEPT
                         !.lastReadAt = Mark(@, side, newest.at)]]
          /\ shown' = [shown EXCEPT ![c][side] = IF newest.at > @ THEN newest.at ELSE @]
    /\ UNCHANGED <<vars, messages, sending, clock, reviews>>

\* The closing that a refused message makes is rolled back with it.
SendCheck(c, side) ==
    /\ clock < MaxMessages
    /\ Accessible(c)
    /\ contract[c].status \notin SendBlockedStatus
    /\ conversation[c].status = "OPEN"
    /\ clock' = clock + 1
    /\ sending' = sending \cup {[contract |-> c, message |-> [from |-> side, at |-> clock + 1]]}
    /\ UNCHANGED <<vars, conversation, messages, shown, reviews>>

SendCommit(send) ==
    LET c == send.contract
        m == send.message
    IN  /\ sending' = sending \ {send}
        /\ messages' = [messages EXCEPT ![c] = @ \cup {m}]
        /\ conversation' = [conversation EXCEPT ![c].lastReadAt = Mark(@, m.from, m.at)]
        /\ shown' = [shown EXCEPT ![c][m.from] = IF m.at > @ THEN m.at ELSE @]
        /\ UNCHANGED <<vars, clock, reviews>>

\* The request dies before its commit.
SendAbort(send) ==
    /\ sending' = sending \ {send}
    /\ UNCHANGED <<vars, conversation, messages, shown, clock, reviews>>

\* countUnreadMessages
Unread(c, side) ==
    {m \in messages[c] : m.from # side /\ m.at > conversation[c].lastReadAt[side]}

-----------------------------------------------------------------------------
(***************************************************************************)
(* Reviews.  The unique key of contract and reviewer decides between two   *)
(* requests of one side.  (The reputation it changes: module Aftermath.)   *)
(***************************************************************************)
Review(c, side) ==
    /\ Is(c, "COMPLETED")
    /\ side \notin reviews[c]
    /\ reviews' = [reviews EXCEPT ![c] = @ \cup {side}]
    /\ UNCHANGED <<vars, conversation, messages, shown, sending, clock>>

-----------------------------------------------------------------------------
(***************************************************************************)
(* The contract's own steps.                                               *)
(***************************************************************************)
\* Mutant: nothing creates the conversation but the lists.
ConversationsUntouched == UNCHANGED conversation

\* accept creates the conversation in its transaction.
ConversationsFollow ==
    conversation' = [c \in Contracts |->
                       IF Is(c, "PENDING_ACCEPTANCE") /\ contract'[c].status = "ACCEPTED"
                       THEN Synced(c, "ACCEPTED") ELSE conversation[c]]

LifecycleStep ==
    /\ Next
    /\ ConversationsFollow
    /\ UNCHANGED <<messages, shown, sending, clock, reviews>>

EngagementNext ==
    \/ LifecycleStep
    \/ ListConversations
    \/ \E c \in Contracts, side \in Side :
          \/ SendCheck(c, side)
          \/ \E before \in Cursors(c) : GetMessages(c, side, before)
          \/ Review(c, side)
    \/ \E send \in sending : SendCommit(send) \/ SendAbort(send)

EngagementSpec == EngagementInit /\ [][EngagementNext]_engagementVars

-----------------------------------------------------------------------------
(***************************************************************************)
(* Properties that hold.                                                   *)
(***************************************************************************)
\* A contract has a conversation exactly from its acceptance on, and it is closed
\* only when the contract is over, whoever closed it, late as that may be.
ConversationFollowsContract ==
    \A c \in Contracts :
        /\ conversation[c].status = "NONE" <=> contract[c].status \notin AccessibleStatus
        /\ conversation[c].status = "CLOSED" => contract[c].status \in {"CANCELLED", "COMPLETED"}

\* A message stops being counted as unread only when it, or one with a later
\* date, was shown to its reader or written by them.
CountedUntilPassed ==
    \A c \in Contracts, side \in Side : \A m \in messages[c] :
        m.from # side /\ m \notin Unread(c, side) => m.at <= shown[c][side]

\* What a hub offers, the handler takes: the expiry, the deadline and the crons
\* that move a contract never leave an action on display that would be refused.  The
\* exception is an invite over a time the creator has been engaged for since: no hub
\* looks at the agenda, and accept answers 400.
HubOffersWhatWorks ==
    \A c \in Contracts :
        LET creator == Hub!CreatorItem(contract[c], past[c], reviews[c])
            company == Hub!CompanyItem(contract[c], past[c], reviews[c])
        IN  /\ "accept_invite" \in creator.availableActions => ENABLED Accept(c) \/ Busy(c)
            /\ "reject_invite" \in creator.availableActions => ENABLED Reject(c)
            /\ "confirm_completion" \in creator.availableActions
                  => ENABLED ConfirmCompletion(c, "creator")
            /\ "contest_completion" \in creator.availableActions => ENABLED DisputeCompletion(c)
            /\ "review_company" \in creator.availableActions => ENABLED Review(c, "creator")
            /\ creator.canCancel => ENABLED Cancel(c)
            /\ "confirm_completion" \in company.availableActions
                  => ENABLED ConfirmCompletion(c, "company")
            /\ "dispute_completion" \in company.availableActions => ENABLED DisputeCompletion(c)

\* The sections of the creator's hub and of the company's that show one stage of a
\* contract; one that is not paid for is not in the creator's.
SameStage ==
    {<<{}, {"awaitingPayment"}>>, <<{}, {"expiredWithoutHire"}>>,
     <<{"invites"}, {"directInvites"}>>, <<{"expired"}, {"expiredWithoutHire"}>>,
     <<{"inProgress"}, {"inProgress"}>>, <<{"completed"}, {"completed"}>>,
     <<{"rejected"}, {"cancelled"}>>, <<{"cancelled"}, {"cancelled"}>>}

\* A cron has still to move the contract, and one of the hubs goes by the clock.
CronIsLate(c) ==
    \/ Is(c, "PENDING_ACCEPTANCE") /\ "expiresAt" \in past[c]
    \/ Is(c, "ACCEPTED") /\ "endsAt" \in past[c]

\* The two sides are shown one stage of a contract, but while a cron is late, and
\* then they never are: the creator's invite has expired while the company's waits
\* for an answer, and the company's job is completed while the creator's goes on.
\* InviteIsClosed and JobIsSettled say that it passes.
SidesAgree(c) ==
    LET creator == Hub!CreatorSection(contract[c], past[c])
        company == Hub!CompanySection(contract[c], past[c], c \in OpenOffer)
    IN  <<creator, company>> \in SameStage <=> ~CronIsLate(c)

\* The lists that were there before the hubs say of a contract what the hubs say.
ListsAgree(c) ==
    LET creator == Hub!CreatorSection(contract[c], past[c])
        company == Hub!CompanySection(contract[c], past[c], c \in OpenOffer)
        campaign == Hub!CompanyCampaignStatus(contract[c], past[c])
    IN  /\ c \in Hub!CreatorPendingList(contract, past) <=> creator = {"invites"}
        /\ c \in Hub!CreatorStatusList(contract, "ACCEPTED") <=> creator = {"inProgress"}
        /\ campaign = "COMPLETED" <=> company = {"completed"}
        /\ Hub!CampaignActions(campaign).canChat => /\ conversation[c].status = "OPEN"
                                                   /\ contract[c].status \notin SendBlockedStatus
        /\ \A filter \in {"PENDING", "COMPLETED", "CANCELLED"} :
              contract[c].status \in Hub!LegacyStatuses(filter) => campaign = filter

\* The counters on a creator's screens: an invite that the dashboard leaves out
\* is not in the hub either, and no action waits in a place that is not counted.
CountersAgree ==
    LET summary == Hub!CreatorSummary(contract, past, reviews)
        dashboard == Hub!CreatorDashboard(contract)
    IN  /\ summary.pendingInvitesCount <= dashboard.pendingInvites
        /\ dashboard.confirmedCampaigns <= summary.inProgressCount
        /\ summary.actionRequiredCount
             <= summary.pendingInvitesCount + summary.inProgressCount
                + summary.completedPendingReviewCount

HubsAgree == CountersAgree /\ \A c \in Contracts : SidesAgree(c) /\ ListsAgree(c)

-----------------------------------------------------------------------------
(***************************************************************************)
(* What the repository says of the program and the code does not keep.     *)
(***************************************************************************)
\* company-offers.service.ts on myReviewPending: "null = nao aplicavel (nao e
\* COMPLETED)": a review is pending in the company's hub only for a COMPLETED
\* contract.
PendingReviewIsOfACompletedContract ==
    \A c \in Contracts :
        Hub!CompanyItem(contract[c], past[c], reviews[c]).myReviewPending => Is(c, "COMPLETED")

\* conversations.service.ts: "Não é possível enviar mensagens para contratação com
\* status ...": no message arrives in a contract that is CANCELLED or COMPLETED.
NoMessageAfterTheEnd ==
    [][\A c \in Contracts :
          contract[c].status \in {"CANCELLED", "COMPLETED"}
             => messages'[c] = messages[c]]_engagementVars
=============================================================================
