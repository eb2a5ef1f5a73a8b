-------------------------------- MODULE Hubs --------------------------------
(***************************************************************************)
(* What the two sides are shown of their offers and contracts: the hub of  *)
(* the company (company/company-offers.service.ts), the hub of the creator *)
(* (creator/creator-offers.service.ts, creator-offers-hub.types.ts) and    *)
(* the older lists of contract-requests.service.ts.                        *)
(*                                                                         *)
(* A view is a function of a row and of the instants of it that have gone  *)
(* by (past), so the module has no variables.  row.confirmed holds the     *)
(* sides that confirmed the completion, row.entered says whether the row   *)
(* has a contestDeadlineAt.  A job that has begun is shown like one that   *)
(* has not, and texts, amounts and the order of a list are left out.       *)
(***************************************************************************)
EXTENDS FiniteSets, Integers

Passed(instant, past) == instant \in past

Contestable(row, past) == row.entered /\ ~Passed("contestDeadlineAt", past)

\* COMPLETED contracts only: has this side still to review the other?
ReviewPending(side, reviewed) == side \notin reviewed

-----------------------------------------------------------------------------
(***************************************************************************)
(* The company's hub.                                                      *)
(***************************************************************************)
\* Mutant: a dispute ends the contract for the company.
CompanyDisplayStatusDisputed(row, past) ==
    CASE row.status \in {"CANCELLED", "REJECTED", "COMPLETION_DISPUTE"} -> "CANCELLED"
      [] row.status \in {"PENDING_PAYMENT", "PENDING_ACCEPTANCE"} -> "PENDING"
      [] row.status \in {"EXPIRED", "COMPLETED"} -> row.status
      [] OTHER -> "IN_PROGRESS"

\* buildHubDisplayStatus
CompanyDisplayStatus(row, past) ==
    CASE row.status = "PENDING_PAYMENT" -> IF Passed("expiresAt", past) THEN "EXPIRED" ELSE "PENDING"
      [] row.status = "PENDING_ACCEPTANCE" -> "PENDING"
      [] row.status \in {"CANCELLED", "REJECTED"} -> "CANCELLED"
      [] row.status \in {"EXPIRED", "COMPLETED"} -> row.status
      [] row.status = "ACCEPTED" -> IF Passed("endsAt", past) THEN "COMPLETED" ELSE "ACCEPTED"
      [] OTHER -> "IN_PROGRESS"

\* Mutant: a side is asked again until the other has confirmed.
AwaitingStatusAsksAgain(row, past, own, other, ownMissing, otherMissing) ==
    CASE Contestable(row, past) /\ other \notin row.confirmed -> ownMissing
      [] Contestable(row, past) /\ other \in row.confirmed /\ own \notin row.confirmed -> otherMissing
      [] OTHER -> "AWAITING_AUTO_COMPLETION"

\* What a side is told of an AWAITING_COMPLETION_CONFIRMATION contract.
AwaitingStatus(row, past, own, other, ownMissing, otherMissing) ==
    CASE Contestable(row, past) /\ own \notin row.confirmed -> ownMissing
      [] Contestable(row, past) /\ own \in row.confirmed /\ other \notin row.confirmed -> otherMissing
      [] OTHER -> "AWAITING_AUTO_COMPLETION"

\* buildCompanyPerspectiveStatus
CompanyPerspectiveStatus(row, past) ==
    CASE row.status \in {"COMPLETED", "EXPIRED", "COMPLETION_DISPUTE"} -> row.status
      [] row.status \in {"CANCELLED", "REJECTED"} -> "CANCELLED"
      [] row.status = "PENDING_PAYMENT" ->
            IF Passed("expiresAt", past) THEN "EXPIRED" ELSE "PENDING_PAYMENT"
      [] row.status = "AWAITING_COMPLETION_CONFIRMATION" ->
            AwaitingStatus(row, past, "company", "creator",
                           "COMPANY_CONFIRMATION_REQUIRED", "AWAITING_CREATOR_CONFIRMATION")
      [] row.status = "ACCEPTED" /\ Passed("endsAt", past) -> "AWAITING_AUTO_COMPLETION"
      [] OTHER -> "UPCOMING_WORK"

\* buildAvailableActions, without view_details; the first is the primary one.
CompanyAvailableActions(perspective) ==
    CASE perspective = "COMPANY_CONFIRMATION_REQUIRED" -> {"confirm_completion", "dispute_completion"}
      [] perspective = "REVIEW_REQUIRED" -> {"review_applications"}
      [] OTHER -> {}

\* mapContractToHubItem
CompanyItem(row, past, reviewed) ==
    LET display == CompanyDisplayStatus(row, past)
        perspective == CompanyPerspectiveStatus(row, past)
    IN  [displayStatus |-> display,
         companyPerspectiveStatus |-> perspective,
         availableActions |-> CompanyAvailableActions(perspective),
         myReviewPending |-> display = "COMPLETED" /\ ReviewPending("company", reviewed)]

\* mapOfferToHubItem
OfferItem(section, applicationsToReview) ==
    LET perspective == CASE section = "openOffers" ->
                              IF applicationsToReview > 0 THEN "REVIEW_REQUIRED" ELSE "OPEN"
                         [] section = "cancelled" -> "CANCELLED"
                         [] OTHER -> "EXPIRED"
    IN  [companyPerspectiveStatus |-> perspective,
         availableActions |-> CompanyAvailableActions(perspective),
         applicationsToReviewCount |-> applicationsToReview]

\* The sections of buildHubResponse; a FILLED offer is in none.
OfferSection(status, expired) ==
    CASE status = "OPEN" /\ ~expired -> {"openOffers"}
      [] status = "CANCELLED" -> {"cancelled"}
      [] status = "FILLED" -> {}
      [] OTHER -> {"expiredWithoutHire"}

CompanySection(row, past, fromOffer) ==
    LET display == CompanyDisplayStatus(row, past)
    IN  IF row.status = "PENDING_PAYMENT"
        THEN IF Passed("expiresAt", past) THEN {"expiredWithoutHire"} ELSE {"awaitingPayment"}
        ELSE CASE display = "PENDING" -> IF fromOffer THEN {} ELSE {"directInvites"}
               [] display \in {"ACCEPTED", "IN_PROGRESS"} -> {"inProgress"}
               [] display = "COMPLETED" -> {"completed"}
               [] display = "CANCELLED" -> {"cancelled"}
               [] OTHER -> {"expiredWithoutHire"}

-----------------------------------------------------------------------------
(***************************************************************************)
(* The creator's hub.  A contract that is not paid for is not shown.       *)
(***************************************************************************)
\* resolveContractDisplayStatus
CreatorDisplayStatus(row, past) ==
    CASE row.status = "PENDING_ACCEPTANCE" ->
            IF Passed("expiresAt", past) THEN "EXPIRED" ELSE "PENDING_INVITE"
      [] row.status = "AWAITING_COMPLETION_CONFIRMATION" -> "AWAITING_CONFIRMATION"
      [] row.status = "COMPLETION_DISPUTE" -> "IN_DISPUTE"
      [] row.status = "PENDING_PAYMENT" -> "NONE"
      [] OTHER -> row.status

\* buildCreatorPerspectiveStatus
CreatorPerspectiveStatus(row, past, reviewPending) ==
    CASE row.status = "COMPLETED" -> IF reviewPending THEN "REVIEW_COMPANY_REQUIRED" ELSE "COMPLETED"
      [] row.status \in {"CANCELLED", "REJECTED"} -> "CANCELLED"
      [] row.status \in {"EXPIRED", "COMPLETION_DISPUTE"} -> row.status
      [] row.status = "PENDING_ACCEPTANCE" ->
            IF Passed("expiresAt", past) THEN "EXPIRED" ELSE "INVITE_PENDING"
      [] row.status = "AWAITING_COMPLETION_CONFIRMATION" ->
            AwaitingStatus(row, past, "creator", "company",
                           "CREATOR_CONFIRMATION_REQUIRED", "AWAITING_COMPANY_CONFIRMATION")
      [] row.status = "ACCEPTED" /\ Passed("endsAt", past) -> "AWAITING_AUTO_COMPLETION"
      [] OTHER -> "UPCOMING_WORK"

\* buildCreatorAvailableActions, without view_details
CreatorAvailableActions(perspective) ==
    CASE perspective = "INVITE_PENDING" -> {"accept_invite", "reject_invite"}
      [] perspective = "CREATOR_CONFIRMATION_REQUIRED" -> {"confirm_completion", "contest_completion"}
      [] perspective = "REVIEW_COMPANY_REQUIRED" -> {"review_company"}
      [] OTHER -> {}

\* buildContractHubItem
CreatorItem(row, past, reviewed) ==
    LET display == CreatorDisplayStatus(row, past)
        pending == display = "COMPLETED" /\ ReviewPending("creator", reviewed)
        perspective == CreatorPerspectiveStatus(row, past, pending)
        actions == CreatorAvailableActions(perspective)
    IN  [displayStatus |-> display,
         creatorPerspectiveStatus |-> perspective,
         availableActions |-> actions,
         actionRequired |-> actions # {},
         canCancel |-> display = "ACCEPTED",
         myReviewPending |-> pending]

\* Mutant: what became of the offer is not looked at.
ApplicationDisplayStatusByTime(application, offerStatus, offerExpired) ==
    CASE application = "PENDING" -> IF offerExpired THEN "EXPIRED" ELSE "APPLICATION_PENDING"
      [] OTHER -> "EXPIRED"

\* resolveApplicationDisplayStatus
ApplicationDisplayStatus(application, offerStatus, offerExpired) ==
    CASE application = "PENDING" ->
            IF offerExpired \/ offerStatus \in {"FILLED", "CANCELLED", "EXPIRED"}
            THEN "EXPIRED" ELSE "APPLICATION_PENDING"
      [] application = "REJECTED" -> "APPLICATION_NOT_SELECTED"
      [] application = "WITHDRAWN" -> "APPLICATION_WITHDRAWN"
      [] OTHER -> "EXPIRED"

CreatorSection(row, past) ==
    LET display == CreatorDisplayStatus(row, past)
    IN  CASE display = "NONE" -> {}
          [] display = "PENDING_INVITE" -> {"invites"}
          [] display \in {"ACCEPTED", "AWAITING_CONFIRMATION", "IN_DISPUTE"} -> {"inProgress"}
          [] display = "COMPLETED" -> {"completed"}
          [] display = "REJECTED" -> {"rejected"}
          [] display = "CANCELLED" -> {"cancelled"}
          [] OTHER -> {"expired"}

ApplicationSection(display) ==
    IF display = "APPLICATION_PENDING" THEN {"applications"} ELSE {"expired"}

\* buildSummary, of the contracts in rows
CreatorSummary(rows, past, reviewed) ==
    LET In(section) == {c \in DOMAIN rows : section \in CreatorSection(rows[c], past[c])}
        Item(c) == CreatorItem(rows[c], past[c], reviewed[c])
    IN  [pendingInvitesCount |-> Cardinality(In("invites")),
         inProgressCount |-> Cardinality(In("inProgress")),
         completedPendingReviewCount |->
            Cardinality({c \in In("completed") : Item(c).myReviewPending}),
         actionRequiredCount |->
            Cardinality({c \in DOMAIN rows : CreatorSection(rows[c], past[c]) # {}
                                             /\ Item(c).actionRequired})]

-----------------------------------------------------------------------------
(***************************************************************************)
(* The older lists of contract-requests.service.ts.                        *)
(***************************************************************************)
\* mapCompanyStatus
CompanyCampaignStatus(row, past) ==
    CASE row.status \in {"CANCELLED", "REJECTED", "EXPIRED"} -> "CANCELLED"
      [] row.status = "COMPLETED" -> "COMPLETED"
      [] row.status = "ACCEPTED" -> IF Passed("endsAt", past) THEN "COMPLETED" ELSE "ACCEPTED"
      [] row.status \in {"AWAITING_COMPLETION_CONFIRMATION", "COMPLETION_DISPUTE"} -> "IN_PROGRESS"
      [] OTHER -> "PENDING"

\* buildCampaignActions
CampaignActions(status) ==
    [canCancel |-> status = "PENDING",
     canChat |-> status = "ACCEPTED",
     canViewDetails |-> status \in {"ACCEPTED", "IN_PROGRESS", "COMPLETED"}]

\* mapCompanyFilterToLegacyStatuses; the empty set filters nothing
LegacyStatuses(filter) ==
    CASE filter \in {"PENDING", "PENDING_PAYMENT", "PENDING_ACCEPTANCE"} ->
            {"PENDING_PAYMENT", "PENDING_ACCEPTANCE"}
      [] filter \in {"ACCEPTED", "IN_PROGRESS"} -> {"ACCEPTED"}
      [] filter = "COMPLETED" -> {"COMPLETED"}
      [] filter \in {"CANCELLED", "REJECTED", "EXPIRED"} -> {"CANCELLED", "REJECTED", "EXPIRED"}
      [] OTHER -> {}

\* The statuses of buildCreatorOfferPayload, and the lists that use it.
CreatorOfferStatus(row, past) ==
    CASE row.status = "PENDING_ACCEPTANCE" ->
            IF Passed("expiresAt", past) THEN "EXPIRED" ELSE "PENDING"
      [] OTHER -> row.status

CreatorPendingList(rows, past) ==
    {c \in DOMAIN rows : rows[c].status = "PENDING_ACCEPTANCE"
                         /\ CreatorOfferStatus(rows[c], past[c]) # "EXPIRED"}

CreatorStatusList(rows, status) ==
    LET wanted == IF status = "ACCEPTED"
                  THEN {"ACCEPTED", "AWAITING_COMPLETION_CONFIRMATION", "COMPLETION_DISPUTE"}
                  ELSE {status}
    IN  {c \in DOMAIN rows : rows[c].status \in wanted}

\* getCreatorDashboardAggregates
CreatorDashboard(rows) ==
    [confirmedCampaigns |-> Cardinality({c \in DOMAIN rows : rows[c].status = "ACCEPTED"}),
     pendingInvites |-> Cardinality({c \in DOMAIN rows : rows[c].status = "PENDING_ACCEPTANCE"})]
=============================================================================
