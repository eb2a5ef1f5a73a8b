-------------------------- MODULE EngagementProofs --------------------------
(***************************************************************************)
(* Theorems about module Engagement, for any set of contracts, any number  *)
(* of messages and any resolution of the clock the program reads.          *)
(*                                                                         *)
(* A step of Engagement is one of ContractLifecycle or leaves its          *)
(* variables alone, so what is proved of the life of a contract holds      *)
(* here; the conversation follows because the status only moves along      *)
(* StatusStep, and enters the accessible statuses in one place.            *)
(***************************************************************************)
EXTENDS Engagement, ContractLifecycleProofs, FiniteSetTheorems

LEMMA StepOfLifecycle == [EngagementNext]_engagementVars => [Next]_vars
BY DEF EngagementNext, engagementVars, LifecycleStep, ListConversations, SendCheck, GetMessages,
       Review, SendCommit, SendAbort

\* The conversation, the messages, the reviews and the hubs add nothing to the
\* life of a contract: Engagement implements ContractLifecycle.
THEOREM EngagementImplementsLifecycle == EngagementSpec => Spec
<1>1. EngagementInit => Init
  BY DEF EngagementInit
<1>2. QED
  BY <1>1, StepOfLifecycle, PTL DEF EngagementSpec, Spec

-----------------------------------------------------------------------------
(***************************************************************************)
(* Types.                                                                  *)
(***************************************************************************)
ChatTypeOK ==
    /\ conversation \in [Contracts -> [status : ConversationStatus,
                                       lastReadAt : [Side -> 0..MaxMessages]]]
    /\ messages \in [Contracts -> SUBSET Message]
    /\ shown \in [Contracts -> [Side -> 0..MaxMessages]]
    /\ sending \subseteq [contract : Contracts, message : Message]
    /\ clock \in 0..MaxMessages
    /\ reviews \in [Contracts -> SUBSET Side]

LEMMA NobodyRead == Nobody \in [Side -> 0..MaxMessages] /\ \A side \in Side : Nobody[side] = 0
BY EngagementConstants DEF Nobody

LEMMA InMilliseconds ==
    ASSUME NEW at \in 0..MaxMessages
    PROVE  Milliseconds(at) \in 0..MaxMessages /\ Milliseconds(at) <= at
<1>1. at % Milli \in 0..(Milli - 1) /\ at % Milli <= at
  BY EngagementConstants
<1>2. QED
  BY <1>1, EngagementConstants DEF Milliseconds

\* A mark only moves forward, as far as a message that was shown.
LEMMA Marked ==
    ASSUME NEW marks \in [Side -> 0..MaxMessages], NEW side \in Side, NEW at \in 0..MaxMessages
    PROVE  /\ Mark(marks, side, at) \in [Side -> 0..MaxMessages]
           /\ \A s \in Side : s # side => Mark(marks, side, at)[s] = marks[s]
           /\ Mark(marks, side, at)[side] \in {marks[side], Milliseconds(at)}
BY InMilliseconds DEF Mark

LEMMA MarkedBelow ==
    ASSUME NEW marks \in [Side -> 0..MaxMessages], NEW side \in Side, NEW at \in 0..MaxMessages,
           NEW limits \in [Side -> 0..MaxMessages], at <= limits[side],
           \A s \in Side : marks[s] <= limits[s]
    PROVE  \A s \in Side : Mark(marks, side, at)[s] <= limits[s]
<1>1. /\ \A s \in Side : s # side => Mark(marks, side, at)[s] = marks[s]
      /\ Mark(marks, side, at)[side] \in {marks[side], Milliseconds(at)}
  BY Marked
<1>2. Milliseconds(at) <= limits[side]
  BY InMilliseconds, EngagementConstants
<1>3. QED
  BY <1>1, <1>2

\* What syncing a conversation makes of it.
LEMMA SyncedConversation ==
    ASSUME ChatTypeOK, NEW c \in Contracts, NEW status
    PROVE  LET new == Synced(c, status)
           IN  /\ new \in [status : ConversationStatus, lastReadAt : [Side -> 0..MaxMessages]]
               /\ new.status = IF ClosedStatus(status) THEN "CLOSED"
                               ELSE IF conversation[c].status = "NONE" THEN "OPEN"
                               ELSE conversation[c].status
               /\ new.lastReadAt = IF conversation[c].status = "NONE" THEN Nobody
                                   ELSE conversation[c].lastReadAt
BY NobodyRead DEF ChatTypeOK, Synced, Conversation, ConversationStatus

LEMMA InitChatTypeOK == EngagementInit => ChatTypeOK
BY NobodyRead, EngagementConstants DEF EngagementInit, ChatTypeOK, Conversation, ConversationStatus

LEMMA NextChatTypeOK == ChatTypeOK /\ [EngagementNext]_engagementVars => ChatTypeOK'
<1> SUFFICES ASSUME ChatTypeOK, [EngagementNext]_engagementVars PROVE ChatTypeOK'
  OBVIOUS
<1> USE DEF ChatTypeOK
<1>1. CASE LifecycleStep
  <2>1. conversation' \in [Contracts -> [status : ConversationStatus,
                                         lastReadAt : [Side -> 0..MaxMessages]]]
    BY <1>1, SyncedConversation DEF LifecycleStep, ConversationsFollow
  <2>2. QED
    BY <1>1, <2>1 DEF LifecycleStep
<1>2. CASE ListConversations
  <2>1. conversation' \in [Contracts -> [status : ConversationStatus,
                                         lastReadAt : [Side -> 0..MaxMessages]]]
    BY <1>2, SyncedConversation DEF ListConversations
  <2>2. QED
    BY <1>2, <2>1 DEF ListConversations
<1>3. ASSUME NEW c \in Contracts, NEW side \in Side, SendCheck(c, side) PROVE ChatTypeOK'
  BY <1>3, EngagementConstants DEF SendCheck, Message
<1>4. ASSUME NEW c \in Contracts, NEW side \in Side, NEW before, GetMessages(c, side, before)
      PROVE  ChatTypeOK'
  <2>1. PICK newest \in Page(c, before) :
          /\ conversation' = [conversation EXCEPT
               ![c] = [Synced(c, contract[c].status) EXCEPT
                         !.lastReadAt = Mark(@, side, newest.at)]]
          /\ shown' = [shown EXCEPT ![c][side] = IF newest.at > @ THEN newest.at ELSE @]
    BY <1>4 DEF GetMessages
  <2>2. newest.at \in 0..MaxMessages
    BY DEF Page, Message
  <2>3. Synced(c, contract[c].status) \in
           [status : ConversationStatus, lastReadAt : [Side -> 0..MaxMessages]]
    BY SyncedConversation
  <2>4. conversation' \in [Contracts -> [status : ConversationStatus,
                                         lastReadAt : [Side -> 0..MaxMessages]]]
    BY <2>1, <2>2, <2>3, Marked
  <2>5. QED
    BY <1>4, <2>1, <2>2, <2>4 DEF GetMessages
<1>5. ASSUME NEW c \in Contracts, NEW side \in Side, Review(c, side) PROVE ChatTypeOK'
  BY <1>5 DEF Review
<1>6. ASSUME NEW send \in sending, SendCommit(send) PROVE ChatTypeOK'
  <2>1. /\ send.contract \in Contracts /\ send.message \in Message
        /\ send.message.from \in Side /\ send.message.at \in 0..MaxMessages
    BY DEF Message
  <2>2. conversation' \in [Contracts -> [status : ConversationStatus,
                                         lastReadAt : [Side -> 0..MaxMessages]]]
    <3> DEFINE marks == Mark(conversation[send.contract].lastReadAt, send.message.from, send.message.at)
    <3>1. marks \in [Side -> 0..MaxMessages]
      BY <2>1, Marked
    <3>2. conversation' = [conversation EXCEPT ![send.contract].lastReadAt = marks]
      BY <1>6 DEF SendCommit
    <3> HIDE DEF marks
    <3>3. QED
      BY <2>1, <3>1, <3>2
  <2>3. QED
    BY <1>6, <2>1, <2>2 DEF SendCommit
<1>7. ASSUME NEW send \in sending, SendAbort(send) PROVE ChatTypeOK'
  BY <1>7 DEF SendAbort
<1>8. CASE UNCHANGED engagementVars
  BY <1>8 DEF engagementVars, chatVars
<1>9. QED
  BY <1>1, <1>2, <1>3, <1>4, <1>5, <1>6, <1>7, <1>8 DEF EngagementNext

-----------------------------------------------------------------------------
(***************************************************************************)
(* The conversation and its contract.                                      *)
(***************************************************************************)
LEMMA InitConversationFollows == EngagementInit => ConversationFollowsContract
BY DEF EngagementInit, Init, Conversation, ConversationFollowsContract, AccessibleStatus

LEMMA NextConversationFollows ==
    TypeOK /\ ChatTypeOK /\ ConversationFollowsContract /\ [EngagementNext]_engagementVars
    => ConversationFollowsContract'
<1> SUFFICES ASSUME TypeOK, ChatTypeOK, ConversationFollowsContract,
                    [EngagementNext]_engagementVars
             PROVE  ConversationFollowsContract'
  OBVIOUS
<1> USE DEF ConversationFollowsContract
<1>1. CASE LifecycleStep
  <2>1. StatusStep
    BY <1>1, NextStatus DEF LifecycleStep
  <2>2. ASSUME NEW c \in Contracts
        PROVE  conversation'[c] = IF Is(c, "PENDING_ACCEPTANCE") /\ contract'[c].status = "ACCEPTED"
                                  THEN Synced(c, "ACCEPTED") ELSE conversation[c]
    BY <1>1, <2>2 DEF LifecycleStep, ConversationsFollow
  <2>3. ASSUME NEW c \in Contracts
        PROVE  /\ Synced(c, "ACCEPTED").status = IF conversation[c].status = "NONE" THEN "OPEN"
                                                 ELSE conversation[c].status
    BY SyncedConversation DEF ClosedStatus
  <2>4. QED
    BY <2>1, <2>2, <2>3 DEF StatusStep, Follows, AccessibleStatus, Is
<1>2. CASE ListConversations
  <2>1. ASSUME NEW c \in Contracts
        PROVE  /\ contract'[c] = contract[c]
               /\ conversation'[c] = IF contract[c].status \in AccessibleStatus
                                     THEN Synced(c, contract[c].status) ELSE conversation[c]
    BY <1>2 DEF ListConversations, vars
  <2>2. QED
    BY <2>1, SyncedConversation DEF ClosedStatus, AccessibleStatus
<1>3. ASSUME NEW c \in Contracts, NEW side \in Side, NEW before, GetMessages(c, side, before)
      PROVE  ConversationFollowsContract'
  <2>1. PICK marks : conversation' = [conversation EXCEPT
               ![c] = [Synced(c, contract[c].status) EXCEPT !.lastReadAt = marks]]
    BY <1>3 DEF GetMessages
  <2>2. /\ conversation'[c].status = Synced(c, contract[c].status).status
        /\ \A k \in Contracts : k # c => conversation'[k] = conversation[k]
    BY <2>1, SyncedConversation DEF ChatTypeOK
  <2>3. UNCHANGED contract /\ Accessible(c)
    BY <1>3 DEF GetMessages, vars
  <2>4. QED
    BY <2>2, <2>3, SyncedConversation DEF Accessible, ClosedStatus
<1>4. ASSUME NEW send \in sending, SendCommit(send) PROVE ConversationFollowsContract'
  BY <1>4 DEF SendCommit, ChatTypeOK, vars
<1>5. ASSUME UNCHANGED <<contract, conversation>> PROVE ConversationFollowsContract'
  BY <1>5
<1>6. QED
  BY <1>1, <1>2, <1>3, <1>4, <1>5
     DEF EngagementNext, SendCheck, Review, SendAbort, engagementVars, chatVars, vars

-----------------------------------------------------------------------------
(***************************************************************************)
(* What was read.                                                          *)
(***************************************************************************)
\* Nothing is marked as read past what was shown.
ReadIsShown ==
    \A c \in Contracts, side \in Side : conversation[c].lastReadAt[side] <= shown[c][side]

LEMMA InitReadIsShown == EngagementInit => ReadIsShown
BY NobodyRead DEF EngagementInit, ReadIsShown, Conversation

LEMMA NextReadIsShown == ChatTypeOK /\ ReadIsShown /\ [EngagementNext]_engagementVars => ReadIsShown'
<1> SUFFICES ASSUME ChatTypeOK, ReadIsShown, [EngagementNext]_engagementVars PROVE ReadIsShown'
  OBVIOUS
<1>0. ASSUME NEW c \in Contracts, NEW status, NEW side \in Side
      PROVE  /\ Synced(c, status).lastReadAt[side] \in 0..MaxMessages
             /\ Synced(c, status).lastReadAt[side] <= shown[c][side]
  <2>1. shown[c][side] \in 0..MaxMessages /\ conversation[c].lastReadAt[side] \in 0..MaxMessages
    BY DEF ChatTypeOK
  <2>2. CASE conversation[c].status = "NONE"
    BY <2>1, <2>2, SyncedConversation, NobodyRead
  <2>3. CASE conversation[c].status # "NONE"
    BY <2>1, <2>3, SyncedConversation DEF ReadIsShown
  <2>4. QED
    BY <2>2, <2>3
<1>1. CASE LifecycleStep
  BY <1>0, <1>1 DEF LifecycleStep, ConversationsFollow, ReadIsShown
<1>2. CASE ListConversations
  BY <1>0, <1>2 DEF ListConversations, ReadIsShown
<1>3. ASSUME NEW c \in Contracts, NEW side \in Side, NEW before, GetMessages(c, side, before)
      PROVE  ReadIsShown'
  <2>1. PICK newest \in Page(c, before) :
          /\ conversation' = [conversation EXCEPT
               ![c] = [Synced(c, contract[c].status) EXCEPT
                         !.lastReadAt = Mark(@, side, newest.at)]]
          /\ shown' = [shown EXCEPT ![c][side] = IF newest.at > @ THEN newest.at ELSE @]
    BY <1>3 DEF GetMessages
  <2> DEFINE marks == Synced(c, contract[c].status).lastReadAt
  <2>2. newest.at \in 0..MaxMessages
    BY DEF Page, Message, ChatTypeOK
  <2>3. marks \in [Side -> 0..MaxMessages]
    BY SyncedConversation
  <2>4. /\ conversation'[c].lastReadAt = Mark(marks, side, newest.at)
        /\ \A k \in Contracts : k # c => conversation'[k] = conversation[k]
    BY <2>1, SyncedConversation DEF ChatTypeOK
  <2>5. ASSUME NEW s \in Side PROVE marks[s] <= shown[c][s]
    BY <1>0
  <2> HIDE DEF marks
  <2>6. /\ shown'[c][side] >= newest.at /\ shown'[c][side] >= shown[c][side]
        /\ \A s \in Side : s # side => shown'[c][s] = shown[c][s]
        /\ \A k \in Contracts : k # c => shown'[k] = shown[k]
    BY <2>1, <2>2 DEF ChatTypeOK
  <2>7. ASSUME NEW s \in Side PROVE conversation'[c].lastReadAt[s] <= shown'[c][s]
    <3>1. shown'[c] \in [Side -> 0..MaxMessages]
      BY NextChatTypeOK DEF ChatTypeOK
    <3>2. \A q \in Side : marks[q] <= shown'[c][q]
      BY <2>3, <2>5, <2>6, <3>1, EngagementConstants DEF ChatTypeOK
    <3>3. QED
      BY <2>2, <2>3, <2>4, <2>6, <3>1, <3>2, MarkedBelow
  <2>8. QED
    BY <2>4, <2>6, <2>7 DEF ReadIsShown
<1>4. ASSUME NEW send \in sending, SendCommit(send) PROVE ReadIsShown'
  <2> DEFINE c == send.contract
             side == send.message.from
             at == send.message.at
             marks == conversation[c].lastReadAt
  <2>1. c \in Contracts /\ side \in Side /\ at \in 0..MaxMessages /\ marks \in [Side -> 0..MaxMessages]
    BY DEF ChatTypeOK, Message
  <2>2. /\ conversation'[c].lastReadAt = Mark(marks, side, at)
        /\ \A k \in Contracts : k # c => conversation'[k] = conversation[k]
    BY <1>4, <2>1 DEF SendCommit, ChatTypeOK
  <2>3. /\ shown'[c][side] >= at /\ shown'[c][side] >= shown[c][side]
        /\ \A s \in Side : s # side => shown'[c][s] = shown[c][s]
        /\ \A k \in Contracts : k # c => shown'[k] = shown[k]
    BY <1>4, <2>1 DEF SendCommit, ChatTypeOK
  <2>4. \A s \in Side : marks[s] <= shown[c][s]
    BY <2>1 DEF ReadIsShown
  <2> HIDE DEF c, side, at, marks
  <2>5. ASSUME NEW s \in Side PROVE conversation'[c].lastReadAt[s] <= shown'[c][s]
    <3>1. shown'[c] \in [Side -> 0..MaxMessages]
      BY <2>1, NextChatTypeOK DEF ChatTypeOK
    <3>2. \A q \in Side : marks[q] <= shown'[c][q]
      <4>1. shown[c] \in [Side -> 0..MaxMessages]
        BY <2>1 DEF ChatTypeOK
      <4>2. \A q \in Side : shown[c][q] <= shown'[c][q]
        BY <2>1, <2>3, <3>1, <4>1, EngagementConstants
      <4>3. QED
        BY <2>1, <2>4, <3>1, <4>1, <4>2, EngagementConstants
    <3>3. QED
      BY <2>1, <2>2, <2>3, <3>1, <3>2, MarkedBelow
  <2>6. QED
    BY <2>1, <2>2, <2>3, <2>5 DEF ReadIsShown
<1>5. ASSUME UNCHANGED <<conversation, shown>> PROVE ReadIsShown'
  BY <1>5 DEF ReadIsShown
<1>6. QED
  BY <1>1, <1>2, <1>3, <1>4, <1>5
     DEF EngagementNext, SendCheck, Review, SendAbort, engagementVars, chatVars

LEMMA CountedFollows == ChatTypeOK /\ ReadIsShown => CountedUntilPassed
BY DEF ChatTypeOK, ReadIsShown, CountedUntilPassed, Unread, Message

-----------------------------------------------------------------------------
(***************************************************************************)
(* What the hubs show of a contract, status by status.                     *)
(***************************************************************************)
LEMMA CreatorSections ==
    ASSUME TypeOK, NEW c \in Contracts
    PROVE  LET status == contract[c].status
               section == Hub!CreatorSection(contract[c], past[c])
           IN  /\ status = "PENDING_PAYMENT" => section = {}
               /\ status = "PENDING_ACCEPTANCE" =>
                     section = IF "expiresAt" \in past[c] THEN {"expired"} ELSE {"invites"}
               /\ status \in {"ACCEPTED", "AWAITING_COMPLETION_CONFIRMATION", "COMPLETION_DISPUTE"}
                     => section = {"inProgress"}
               /\ status = "COMPLETED" => section = {"completed"}
               /\ status = "REJECTED" => section = {"rejected"}
               /\ status = "CANCELLED" => section = {"cancelled"}
               /\ status = "EXPIRED" => section = {"expired"}
BY DEF TypeOK, Contract, ContractRequestStatus, Hub!CreatorSection, Hub!CreatorDisplayStatus,
       Hub!Passed

LEMMA CompanySections ==
    ASSUME TypeOK, NEW c \in Contracts
    PROVE  LET status == contract[c].status
               section == Hub!CompanySection(contract[c], past[c], c \in OpenOffer)
           IN  /\ status = "PENDING_PAYMENT" =>
                     section = IF "expiresAt" \in past[c] THEN {"expiredWithoutHire"}
                               ELSE {"awaitingPayment"}
               /\ status = "PENDING_ACCEPTANCE" =>
                     section = IF c \in OpenOffer THEN {} ELSE {"directInvites"}
               /\ status = "ACCEPTED" =>
                     section = IF "endsAt" \in past[c] THEN {"completed"} ELSE {"inProgress"}
               /\ status \in {"AWAITING_COMPLETION_CONFIRMATION", "COMPLETION_DISPUTE"}
                     => section = {"inProgress"}
               /\ status = "COMPLETED" => section = {"completed"}
               /\ status \in {"REJECTED", "CANCELLED"} => section = {"cancelled"}
               /\ status = "EXPIRED" => section = {"expiredWithoutHire"}
<1> DEFINE status == contract[c].status
           display == Hub!CompanyDisplayStatus(contract[c], past[c])
<1>1. /\ status = "PENDING_ACCEPTANCE" => display = "PENDING"
      /\ status = "ACCEPTED" => display = IF "endsAt" \in past[c] THEN "COMPLETED" ELSE "ACCEPTED"
      /\ status \in {"AWAITING_COMPLETION_CONFIRMATION", "COMPLETION_DISPUTE"}
            => display = "IN_PROGRESS"
      /\ status \in {"REJECTED", "CANCELLED"} => display = "CANCELLED"
      /\ status \in {"COMPLETED", "EXPIRED"} => display = status
  BY DEF Hub!CompanyDisplayStatus, Hub!Passed
<1> HIDE DEF display
<1> DEFINE section == Hub!CompanySection(contract[c], past[c], c \in OpenOffer)
<1>2. IF status = "PENDING_PAYMENT"
      THEN section = IF "expiresAt" \in past[c] THEN {"expiredWithoutHire"} ELSE {"awaitingPayment"}
      ELSE /\ display = "PENDING" => section = IF c \in OpenOffer THEN {} ELSE {"directInvites"}
           /\ display \in {"ACCEPTED", "IN_PROGRESS"} => section = {"inProgress"}
           /\ display = "COMPLETED" => section = {"completed"}
           /\ display = "CANCELLED" => section = {"cancelled"}
           /\ display = "EXPIRED" => section = {"expiredWithoutHire"}
  BY DEF Hub!CompanySection, Hub!Passed, display
<1> HIDE DEF section
<1>3. QED
  BY <1>1, <1>2 DEF section

LEMMA CampaignStatuses ==
    ASSUME TypeOK, NEW c \in Contracts
    PROVE  LET status == contract[c].status
               campaign == Hub!CompanyCampaignStatus(contract[c], past[c])
           IN  /\ status \in {"PENDING_PAYMENT", "PENDING_ACCEPTANCE"} => campaign = "PENDING"
               /\ status = "ACCEPTED" =>
                     campaign = IF "endsAt" \in past[c] THEN "COMPLETED" ELSE "ACCEPTED"
               /\ status \in {"AWAITING_COMPLETION_CONFIRMATION", "COMPLETION_DISPUTE"}
                     => campaign = "IN_PROGRESS"
               /\ status = "COMPLETED" => campaign = "COMPLETED"
               /\ status \in {"REJECTED", "CANCELLED", "EXPIRED"} => campaign = "CANCELLED"
BY DEF TypeOK, Contract, ContractRequestStatus, Hub!CompanyCampaignStatus, Hub!Passed
LEMMA CreatorActions ==
    ASSUME TypeOK, NEW c \in Contracts
    PROVE  LET status == contract[c].status
               item == Hub!CreatorItem(contract[c], past[c], reviews[c])
           IN  /\ item.availableActions =
                    IF status = "PENDING_ACCEPTANCE" /\ "expiresAt" \notin past[c]
                    THEN {"accept_invite", "reject_invite"}
                    ELSE IF /\ status = "AWAITING_COMPLETION_CONFIRMATION"
                            /\ contract[c].entered /\ "contestDeadlineAt" \notin past[c]
                            /\ "creator" \notin contract[c].confirmed
                    THEN {"confirm_completion", "contest_completion"}
                    ELSE IF status = "COMPLETED" /\ "creator" \notin reviews[c]
                    THEN {"review_company"} ELSE {}
               /\ item.actionRequired <=> item.availableActions # {}
               /\ item.canCancel <=> status = "ACCEPTED"
               /\ item.myReviewPending <=> status = "COMPLETED" /\ "creator" \notin reviews[c]
<1> DEFINE status == contract[c].status
           display == Hub!CreatorDisplayStatus(contract[c], past[c])
           pending == display = "COMPLETED" /\ Hub!ReviewPending("creator", reviews[c])
           perspective == Hub!CreatorPerspectiveStatus(contract[c], past[c], pending)
           actions == Hub!CreatorAvailableActions(perspective)
           item == Hub!CreatorItem(contract[c], past[c], reviews[c])
<1>1. status \in ContractRequestStatus
  BY DEF TypeOK, Contract
<1>2. /\ display = "COMPLETED" <=> status = "COMPLETED"
      /\ display = "ACCEPTED" <=> status = "ACCEPTED"
  BY <1>1 DEF Hub!CreatorDisplayStatus, Hub!Passed, ContractRequestStatus
<1>3. pending <=> status = "COMPLETED" /\ "creator" \notin reviews[c]
  BY <1>2 DEF Hub!ReviewPending
<1>4. item = [displayStatus |-> display, creatorPerspectiveStatus |-> perspective,
              availableActions |-> actions, actionRequired |-> actions # {},
              canCancel |-> display = "ACCEPTED", myReviewPending |-> pending]
  BY DEF Hub!CreatorItem
<1> HIDE DEF display
<1>5. actions = IF status = "PENDING_ACCEPTANCE" /\ "expiresAt" \notin past[c]
                THEN {"accept_invite", "reject_invite"}
                ELSE IF /\ status = "AWAITING_COMPLETION_CONFIRMATION"
                        /\ contract[c].entered /\ "contestDeadlineAt" \notin past[c]
                        /\ "creator" \notin contract[c].confirmed
                THEN {"confirm_completion", "contest_completion"}
                ELSE IF status = "COMPLETED" /\ "creator" \notin reviews[c]
                THEN {"review_company"} ELSE {}
  <2> HIDE DEF pending
  <2>1. CASE status = "AWAITING_COMPLETION_CONFIRMATION"
    <3>1. perspective = Hub!AwaitingStatus(contract[c], past[c], "creator", "company",
                           "CREATOR_CONFIRMATION_REQUIRED", "AWAITING_COMPANY_CONFIRMATION")
      BY <2>1 DEF Hub!CreatorPerspectiveStatus
    <3>2. perspective = "CREATOR_CONFIRMATION_REQUIRED"
             <=> /\ contract[c].entered /\ "contestDeadlineAt" \notin past[c]
                 /\ "creator" \notin contract[c].confirmed
      BY <3>1 DEF Hub!AwaitingStatus, Hub!Contestable, Hub!Passed
    <3>3. perspective \in {"CREATOR_CONFIRMATION_REQUIRED", "AWAITING_COMPANY_CONFIRMATION",
                           "AWAITING_AUTO_COMPLETION"}
      BY <3>1 DEF Hub!AwaitingStatus
    <3> HIDE DEF perspective
    <3>4. QED
      BY <2>1, <3>2, <3>3 DEF Hub!CreatorAvailableActions
  <2>2. CASE status = "COMPLETED"
    <3>1. perspective = IF pending THEN "REVIEW_COMPANY_REQUIRED" ELSE "COMPLETED"
      BY <2>2 DEF Hub!CreatorPerspectiveStatus
    <3> HIDE DEF perspective
    <3>2. QED
      BY <1>3, <2>2, <3>1 DEF Hub!CreatorAvailableActions
  <2>3. CASE status \notin {"AWAITING_COMPLETION_CONFIRMATION", "COMPLETED"}
    <3>1. /\ status = "PENDING_ACCEPTANCE" =>
                perspective = IF "expiresAt" \in past[c] THEN "EXPIRED" ELSE "INVITE_PENDING"
          /\ status # "PENDING_ACCEPTANCE" =>
                perspective \in {"CANCELLED", "EXPIRED", "COMPLETION_DISPUTE",
                                 "AWAITING_AUTO_COMPLETION", "UPCOMING_WORK"}
      BY <1>1, <2>3 DEF Hub!CreatorPerspectiveStatus, Hub!Passed, ContractRequestStatus
    <3> HIDE DEF perspective
    <3>2. QED
      BY <2>3, <3>1 DEF Hub!CreatorAvailableActions
  <2>4. QED
    BY <2>1, <2>2, <2>3
<1> HIDE DEF actions, pending
<1>6. /\ item.availableActions = actions /\ item.actionRequired = (actions # {})
      /\ item.canCancel = (display = "ACCEPTED") /\ item.myReviewPending = pending
  BY <1>4
<1>7. QED
  BY <1>2, <1>3, <1>5, <1>6

\* The hubs show one stage of a contract unless a cron is late with it.
LEMMA HubSidesAgree ==
    ASSUME TypeOK, HeldUntilAnswer, NEW c \in Contracts
    PROVE  SidesAgree(c)
<1> DEFINE status == contract[c].status
           creator == Hub!CreatorSection(contract[c], past[c])
           company == Hub!CompanySection(contract[c], past[c], c \in OpenOffer)
<1>1. status \in ContractRequestStatus
  BY DEF TypeOK, Contract
<1>2. status = "PENDING_ACCEPTANCE" => company = {"directInvites"}
  BY CompanySections DEF HeldUntilAnswer, NotForTheJob, Pending
<1>3. CASE CronIsLate(c)
  <2>1. \/ creator = {"expired"} /\ company = {"directInvites"}
        \/ creator = {"inProgress"} /\ company = {"completed"}
    BY <1>2, <1>3, CreatorSections, CompanySections DEF CronIsLate, Is
  <2> HIDE DEF creator, company
  <2>2. <<creator, company>> \notin SameStage
    BY <2>1 DEF SameStage
  <2>3. QED
    BY <1>3, <2>2 DEF SidesAgree, creator, company
<1>4. CASE ~CronIsLate(c)
  <2>1. \/ creator = {} /\ company \in {{"awaitingPayment"}, {"expiredWithoutHire"}}
        \/ creator = {"invites"} /\ company = {"directInvites"}
        \/ creator = {"expired"} /\ company = {"expiredWithoutHire"}
        \/ creator = {"inProgress"} /\ company = {"inProgress"}
        \/ creator = {"completed"} /\ company = {"completed"}
        \/ creator \in {{"rejected"}, {"cancelled"}} /\ company = {"cancelled"}
    BY <1>1, <1>2, <1>4, CreatorSections, CompanySections DEF CronIsLate, Is, ContractRequestStatus
  <2> HIDE DEF creator, company
  <2>2. <<creator, company>> \in SameStage
    BY <2>1 DEF SameStage
  <2>3. QED
    BY <1>4, <2>2 DEF SidesAgree, creator, company
<1>5. QED
  BY <1>3, <1>4

LEMMA OldListsAgree ==
    ASSUME TypeOK, ConversationFollowsContract, ChatTypeOK, NEW c \in Contracts
    PROVE  ListsAgree(c)
<1> DEFINE status == contract[c].status
           creator == Hub!CreatorSection(contract[c], past[c])
           company == Hub!CompanySection(contract[c], past[c], c \in OpenOffer)
           campaign == Hub!CompanyCampaignStatus(contract[c], past[c])
<1>1. status \in ContractRequestStatus /\ DOMAIN contract = Contracts
  BY DEF TypeOK, Contract
<1>2. c \in Hub!CreatorPendingList(contract, past)
         <=> status = "PENDING_ACCEPTANCE" /\ "expiresAt" \notin past[c]
  BY <1>1 DEF Hub!CreatorPendingList, Hub!CreatorOfferStatus, Hub!Passed
<1>3. c \in Hub!CreatorStatusList(contract, "ACCEPTED")
         <=> status \in {"ACCEPTED", "AWAITING_COMPLETION_CONFIRMATION", "COMPLETION_DISPUTE"}
  BY <1>1 DEF Hub!CreatorStatusList
<1>4. Hub!CampaignActions(campaign).canChat <=> campaign = "ACCEPTED"
  BY DEF Hub!CampaignActions
<1>5. conversation[c].status \in ConversationStatus
  BY DEF ChatTypeOK
<1>6. ASSUME NEW filter \in {"PENDING", "COMPLETED", "CANCELLED"}, status \in Hub!LegacyStatuses(filter)
      PROVE  campaign = filter
  <2>1. /\ filter = "PENDING" => status \in {"PENDING_PAYMENT", "PENDING_ACCEPTANCE"}
        /\ filter = "COMPLETED" => status = "COMPLETED"
        /\ filter = "CANCELLED" => status \in {"CANCELLED", "REJECTED", "EXPIRED"}
    BY <1>6 DEF Hub!LegacyStatuses
  <2> HIDE DEF campaign
  <2>2. QED
    BY <1>6, <2>1, CampaignStatuses DEF campaign
<1>7. creator = {"invites"} <=> status = "PENDING_ACCEPTANCE" /\ "expiresAt" \notin past[c]
  BY <1>1, CreatorSections DEF ContractRequestStatus
<1>8. creator = {"inProgress"}
         <=> status \in {"ACCEPTED", "AWAITING_COMPLETION_CONFIRMATION", "COMPLETION_DISPUTE"}
  BY <1>1, CreatorSections DEF ContractRequestStatus
<1>9. campaign = "COMPLETED" <=> company = {"completed"}
  BY <1>1, CompanySections, CampaignStatuses DEF ContractRequestStatus
<1>10. campaign = "ACCEPTED" => status = "ACCEPTED"
  BY <1>1, CampaignStatuses DEF ContractRequestStatus
<1>11. status = "ACCEPTED" => conversation[c].status = "OPEN"
  BY <1>5 DEF ConversationFollowsContract, ConversationStatus, AccessibleStatus
<1> HIDE DEF creator, company, campaign
<1>12. QED
  BY <1>2, <1>3, <1>4, <1>6, <1>7, <1>8, <1>9, <1>10, <1>11
     DEF ListsAgree, SendBlockedStatus, creator, company, campaign
\* A union has at most as many elements as its parts together.
LEMMA UnionIsAtMost ==
    ASSUME NEW S, IsFiniteSet(S), NEW T, IsFiniteSet(T)
    PROVE  /\ IsFiniteSet(S \cup T)
           /\ Cardinality(S \cup T) <= Cardinality(S) + Cardinality(T)
<1>1. IsFiniteSet(S \cap T)
  BY FS_Subset
<1>2. /\ IsFiniteSet(S \cup T)
      /\ Cardinality(S \cup T) = Cardinality(S) + Cardinality(T) - Cardinality(S \cap T)
  BY FS_Union
<1>3. /\ Cardinality(S) \in Nat /\ Cardinality(T) \in Nat /\ Cardinality(S \cap T) \in Nat
      /\ Cardinality(S \cup T) \in Nat
  BY <1>1, <1>2, FS_CardinalityType
<1>4. QED
  BY <1>2, <1>3

\* The counters: each set that is counted is one of these.
LEMMA HubCountersAgree ==
    ASSUME TypeOK
    PROVE  CountersAgree
<1> DEFINE In(section) == {c \in DOMAIN contract : section \in Hub!CreatorSection(contract[c], past[c])}
           Item(c) == Hub!CreatorItem(contract[c], past[c], reviews[c])
           invited == In("invites")
           going == In("inProgress")
           toReview == {c \in In("completed") : Item(c).myReviewPending}
           acting == {c \in DOMAIN contract : Hub!CreatorSection(contract[c], past[c]) # {}
                                              /\ Item(c).actionRequired}
           accepted == {c \in DOMAIN contract : contract[c].status = "ACCEPTED"}
           pending == {c \in DOMAIN contract : contract[c].status = "PENDING_ACCEPTANCE"}
           summary == Hub!CreatorSummary(contract, past, reviews)
           dashboard == Hub!CreatorDashboard(contract)
<1>1. DOMAIN contract = Contracts
  BY DEF TypeOK
<1>2. summary = [pendingInvitesCount |-> Cardinality(invited),
                inProgressCount |-> Cardinality(going),
                completedPendingReviewCount |-> Cardinality(toReview),
                actionRequiredCount |-> Cardinality(acting)]
  BY DEF Hub!CreatorSummary, Hub!Cardinality, Cardinality
<1>3. dashboard = [confirmedCampaigns |-> Cardinality(accepted),
                  pendingInvites |-> Cardinality(pending)]
  BY DEF Hub!CreatorDashboard, Hub!Cardinality, Cardinality
<1>4. \A c \in Contracts : contract[c].status \in ContractRequestStatus
  BY DEF TypeOK, Contract
<1>5. invited \subseteq pending /\ accepted \subseteq going
  BY <1>1, <1>4, CreatorSections DEF ContractRequestStatus
<1>6. acting \subseteq invited \cup going \cup toReview
  <2> SUFFICES ASSUME NEW c \in Contracts, Item(c).actionRequired,
                      c \notin going, c \notin toReview
               PROVE  c \in invited
    BY <1>1
  <2>1. \/ contract[c].status = "PENDING_ACCEPTANCE" /\ "expiresAt" \notin past[c]
        \/ contract[c].status = "AWAITING_COMPLETION_CONFIRMATION"
        \/ contract[c].status = "COMPLETED" /\ Item(c).myReviewPending
    BY CreatorActions
  <2>2. contract[c].status # "AWAITING_COMPLETION_CONFIRMATION"
    BY <1>1, CreatorSections
  <2>3. ~(contract[c].status = "COMPLETED" /\ Item(c).myReviewPending)
    BY <1>1, CreatorSections
  <2>4. QED
    BY <1>1, <2>1, <2>2, <2>3, CreatorSections
<1>7. /\ invited \subseteq Contracts /\ going \subseteq Contracts /\ toReview \subseteq Contracts
      /\ acting \subseteq Contracts /\ accepted \subseteq Contracts /\ pending \subseteq Contracts
  BY <1>1
<1> HIDE DEF invited, going, toReview, acting, accepted, pending, summary, dashboard
<1>8. /\ IsFiniteSet(invited) /\ IsFiniteSet(going) /\ IsFiniteSet(toReview)
      /\ IsFiniteSet(acting) /\ IsFiniteSet(accepted) /\ IsFiniteSet(pending)
  BY <1>7, EngagementConstants, FS_Subset
<1>9. Cardinality(invited) <= Cardinality(pending) /\ Cardinality(accepted) <= Cardinality(going)
  BY <1>5, <1>8, FS_Subset
<1>10. Cardinality(acting) <= Cardinality(invited) + Cardinality(going) + Cardinality(toReview)
  <2>1. /\ IsFiniteSet(invited \cup going)
        /\ Cardinality(invited \cup going) <= Cardinality(invited) + Cardinality(going)
    BY <1>8, UnionIsAtMost
  <2>2. /\ IsFiniteSet((invited \cup going) \cup toReview)
        /\ Cardinality((invited \cup going) \cup toReview)
             <= Cardinality(invited \cup going) + Cardinality(toReview)
    BY <1>8, <2>1, UnionIsAtMost
  <2>3. Cardinality(acting) <= Cardinality((invited \cup going) \cup toReview)
    BY <1>6, <2>2, FS_Subset
  <2>4. /\ Cardinality(invited) \in Nat /\ Cardinality(going) \in Nat
        /\ Cardinality(toReview) \in Nat /\ Cardinality(acting) \in Nat
        /\ Cardinality(invited \cup going) \in Nat
        /\ Cardinality((invited \cup going) \cup toReview) \in Nat
    BY <1>8, <2>1, <2>2, FS_CardinalityType
  <2>5. QED
    BY <2>1, <2>2, <2>3, <2>4
<1>11. QED
  BY <1>2, <1>3, <1>9, <1>10 DEF CountersAgree, summary, dashboard

LEMMA HubsFollow ==
    TypeOK /\ ChatTypeOK /\ HeldUntilAnswer /\ ConversationFollowsContract => HubsAgree
BY HubCountersAgree, HubSidesAgree, OldListsAgree DEF HubsAgree

-----------------------------------------------------------------------------
(***************************************************************************)
(* The actions on offer.                                                   *)
(***************************************************************************)
\* What the handlers of the actions on a hub's items ask of the contract.
OfferedActionsAreGuarded ==
    \A c \in Contracts :
        LET creator == Hub!CreatorItem(contract[c], past[c], reviews[c])
            company == Hub!CompanyItem(contract[c], past[c], reviews[c])
        IN  /\ creator.availableActions \cap {"accept_invite", "reject_invite"} # {}
                  => Is(c, "PENDING_ACCEPTANCE")
            /\ "confirm_completion" \in creator.availableActions
                  => Is(c, "AWAITING_COMPLETION_CONFIRMATION") /\ "creator" \notin contract[c].confirmed
            /\ "contest_completion" \in creator.availableActions
                  => Is(c, "AWAITING_COMPLETION_CONFIRMATION")
            /\ "review_company" \in creator.availableActions
                  => Is(c, "COMPLETED") /\ "creator" \notin reviews[c]
            /\ creator.canCancel => Is(c, "ACCEPTED")
            /\ "confirm_completion" \in company.availableActions
                  => Is(c, "AWAITING_COMPLETION_CONFIRMATION") /\ "company" \notin contract[c].confirmed
            /\ "dispute_completion" \in company.availableActions
                  => Is(c, "AWAITING_COMPLETION_CONFIRMATION")

LEMMA CompanyActions ==
    ASSUME TypeOK, NEW c \in Contracts
    PROVE  LET item == Hub!CompanyItem(contract[c], past[c], reviews[c])
           IN  item.availableActions # {} =>
                  /\ Is(c, "AWAITING_COMPLETION_CONFIRMATION") /\ "company" \notin contract[c].confirmed
                  /\ item.availableActions = {"confirm_completion", "dispute_completion"}
<1> DEFINE status == contract[c].status
           perspective == Hub!CompanyPerspectiveStatus(contract[c], past[c])
           item == Hub!CompanyItem(contract[c], past[c], reviews[c])
<1>1. status \in ContractRequestStatus
  BY DEF TypeOK, Contract
<1>2. item.availableActions = Hub!CompanyAvailableActions(perspective)
  BY DEF Hub!CompanyItem
<1>3. CASE status = "AWAITING_COMPLETION_CONFIRMATION"
  <2>1. perspective = Hub!AwaitingStatus(contract[c], past[c], "company", "creator",
                         "COMPANY_CONFIRMATION_REQUIRED", "AWAITING_CREATOR_CONFIRMATION")
    BY <1>3 DEF Hub!CompanyPerspectiveStatus
  <2>2. perspective = "COMPANY_CONFIRMATION_REQUIRED" => "company" \notin contract[c].confirmed
    BY <2>1 DEF Hub!AwaitingStatus
  <2>3. perspective \in {"COMPANY_CONFIRMATION_REQUIRED", "AWAITING_CREATOR_CONFIRMATION",
                         "AWAITING_AUTO_COMPLETION"}
    BY <2>1 DEF Hub!AwaitingStatus
  <2> HIDE DEF perspective
  <2>4. QED
    BY <1>2, <1>3, <2>2, <2>3 DEF Hub!CompanyAvailableActions, Is
<1>4. CASE status # "AWAITING_COMPLETION_CONFIRMATION"
  <2>1. perspective \in {"COMPLETED", "EXPIRED", "COMPLETION_DISPUTE", "CANCELLED", "PENDING_PAYMENT",
                         "AWAITING_AUTO_COMPLETION", "UPCOMING_WORK"}
    BY <1>1, <1>4 DEF Hub!CompanyPerspectiveStatus, Hub!Passed, ContractRequestStatus
  <2> HIDE DEF perspective
  <2>2. QED
    BY <1>2, <2>1 DEF Hub!CompanyAvailableActions
<1>5. QED
  BY <1>3, <1>4

LEMMA OffersFollow == TypeOK => OfferedActionsAreGuarded
<1> SUFFICES ASSUME TypeOK, NEW c \in Contracts
             PROVE  OfferedActionsAreGuarded!(c)
  BY DEF OfferedActionsAreGuarded
<1> QED
  BY CreatorActions, CompanyActions DEF Is

-----------------------------------------------------------------------------
(***************************************************************************)
(* The theorems.                                                           *)
(***************************************************************************)
LEMMA LifecycleInvariant == EngagementSpec => [](TypeOK /\ HeldUntilAnswer)
<1>1. SettlementInv => TypeOK /\ HeldUntilAnswer
  BY DEF SettlementInv
<1>2. QED
  BY <1>1, EngagementImplementsLifecycle, SettlementInvariant, PTL

LEMMA ChatInvariant == EngagementSpec => [](ChatTypeOK /\ ReadIsShown)
<1>1. EngagementInit => ChatTypeOK /\ ReadIsShown
  BY InitChatTypeOK, InitReadIsShown
<1>2. ChatTypeOK /\ ReadIsShown /\ [EngagementNext]_engagementVars => ChatTypeOK' /\ ReadIsShown'
  BY NextChatTypeOK, NextReadIsShown
<1>3. QED
  BY <1>1, <1>2, PTL DEF EngagementSpec

\* Conversations, messages, marks and reviews keep their types beside the
\* contract's, whatever interleaves.
THEOREM EngagementTypeCorrect == EngagementSpec => []EngagementTypeOK
<1>1. TypeOK /\ ChatTypeOK => EngagementTypeOK
  BY DEF ChatTypeOK, EngagementTypeOK
<1>2. QED
  BY <1>1, LifecycleInvariant, ChatInvariant, PTL

\* A contract has a conversation exactly from its acceptance on, and the
\* conversation is closed only after the contract is over, although the lists,
\* the acceptance and the reads all create and close it.
THEOREM ConversationCorrect == EngagementSpec => []ConversationFollowsContract
<1>1. EngagementInit => ConversationFollowsContract
  BY InitConversationFollows
<1>2. QED
  BY <1>1, NextConversationFollows, LifecycleInvariant, ChatInvariant, PTL DEF EngagementSpec

\* A message stays counted as unread until it, or a later one, was on the
\* reader's screen: updateParticipantLastReadAt marks no further than that,
\* although it rounds the date down.
THEOREM UnreadUntilShown == EngagementSpec => []CountedUntilPassed
BY ChatInvariant, CountedFollows, PTL

\* The hub of the company and the hub of the creator show a contract in sections of
\* one stage exactly as long as no cron is late with it, in every state and at every
\* time; the older lists and the dashboard go with the hubs.
THEOREM HubsConsistent == EngagementSpec => []HubsAgree
BY HubsFollow, LifecycleInvariant, ChatInvariant, ConversationCorrect, PTL

\* An action a hub offers is one whose handler finds the contract as it asks: the
\* part of HubOffersWhatWorks that does not need ENABLED.
THEOREM OffersAreGuarded == EngagementSpec => []OfferedActionsAreGuarded
BY OffersFollow, LifecycleInvariant, PTL

\* With conversations, messages and reviews beside it a contract still keeps what
\* Deal promises.
THEOREM EngagementKeepsDeal == EngagementSpec => DealKept
BY EngagementImplementsLifecycle, LifecycleImplementsDeal
=============================================================================
