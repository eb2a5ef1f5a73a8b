-------------------------- MODULE ContractLifecycle --------------------------
(***************************************************************************)
(* The life of a contract request after its payment:                       *)
(* contract-requests/contract-requests.service.ts, and the crons of        *)
(* billing/invite-expiration.service.ts and                                *)
(* billing/job-completion.service.ts.                                      *)
(*                                                                         *)
(* A user's handler holds the row lock of the contract from its read to    *)
(* its commit, so it is one action.  A cron reads a list of contracts      *)
(* without a lock and then works through it, one conditional UPDATE per    *)
(* contract, while handlers and the crons of other replicas go on.  Time   *)
(* is only ordering: past[c] holds the instants of c that have gone by.    *)
(***************************************************************************)
EXTENDS Integers, FiniteSets

CONSTANTS Contracts,   \* contract requests
          OpenOffer,   \* those created ACCEPTED by an open-offer selection
          Clashes,     \* pairs of contracts of one creator whose times overlap
          Booked,      \* contracts over whose time the creator has a blocking booking
          Replicas,    \* executions of a cron that can overlap
          MaxFailures  \* bound: failed statements and crashes in a behaviour

ASSUME LifecycleConstants ==
    /\ OpenOffer \subseteq Contracts
    /\ Clashes \subseteq Contracts \X Contracts
    /\ Booked \subseteq Contracts
    /\ MaxFailures \in Nat

VARIABLES contract,    \* the contract_requests table
          settlement,  \* Payment.settlementStatus of the contract's payment
          past,        \* instants of the contract that have gone by
          expiry,      \* processExpiredInvites in progress
          transition,  \* transitionJobsToAwaitingConfirmation in progress
          contest,     \* autoCompleteExpiredContests in progress
          owed,        \* committed completions whose event is not emitted yet
          announced,   \* CONTRACT_REQUEST_COMPLETED_EVENT, emitted
          failures     \* failures so far

vars == <<contract, settlement, past, expiry, transition, contest, owed, announced, failures>>
cronVars == <<expiry, transition, contest>>

ContractRequestStatus ==
    {"PENDING_PAYMENT", "PENDING_ACCEPTANCE", "ACCEPTED", "REJECTED", "CANCELLED", "EXPIRED",
     "AWAITING_COMPLETION_CONFIRMATION", "COMPLETED", "COMPLETION_DISPUTE"}
SettlementStatus == {"HELD", "APPLIED", "CONVERTED_TO_CREDIT"}
Instant == {"expiresAt", "endsAt", "contestDeadlineAt"}
Side == {"creator", "company"}
List == {"with", "without"}   \* a confirmation

(* confirmed: the sides whose ...ConfirmedCompletedAt is set; entered:         *)
(* completionPhaseEnteredAt, and with it contestDeadlineAt, is set.            *)
Contract == [status : ContractRequestStatus, confirmed : SUBSET Side,
             entered : BOOLEAN, tacit : BOOLEAN]

TypeOK ==
    /\ contract \in [Contracts -> Contract]
    /\ settlement \in [Contracts -> SettlementStatus]
    /\ past \in [Contracts -> SUBSET Instant]
    /\ expiry \in [Replicas -> [todo : SUBSET Contracts, credit : SUBSET Contracts]]
    /\ transition \in [Replicas -> SUBSET Contracts]
    /\ contest \in [Replicas -> [due : SUBSET Contracts, unread : SUBSET List,
                                 found : [List -> SUBSET Contracts]]]
    /\ owed \in [Contracts -> Nat]
    /\ announced \in [Contracts -> Nat]
    /\ failures \in 0..MaxFailures

NoExpiry == [todo |-> {}, credit |-> {}]
NoContest == [due |-> {}, unread |-> {}, found |-> [list \in List |-> {}]]

Init ==
    /\ contract = [c \in Contracts |->
                     [status |-> IF c \in OpenOffer THEN "ACCEPTED" ELSE "PENDING_PAYMENT",
                      confirmed |-> {}, entered |-> FALSE, tacit |-> FALSE]]
    /\ settlement = [c \in Contracts |-> "HELD"]
    /\ past = [c \in Contracts |-> {}]
    /\ expiry = [r \in Replicas |-> NoExpiry]
    /\ transition = [r \in Replicas |-> {}]
    /\ contest = [r \in Replicas |-> NoContest]
    /\ owed = [c \in Contracts |-> 0]
    /\ announced = [c \in Contracts |-> 0]
    /\ failures = 0

Is(c, status) == contract[c].status = status

\* A transition of the contract's status under its row lock.
Move(c, from, to) ==
    /\ Is(c, from)
    /\ contract' = [contract EXCEPT ![c].status = to]

-----------------------------------------------------------------------------
(***************************************************************************)
(* The payment's confirmation and the creator's answer.                    *)
(***************************************************************************)
ConfirmPayment(c) ==
    /\ Move(c, "PENDING_PAYMENT", "PENDING_ACCEPTANCE")
    /\ UNCHANGED <<settlement, past, cronVars, owed, announced, failures>>

Settle(c, as) == settlement' = [settlement EXCEPT ![c] = IF @ = "HELD" THEN as ELSE @]

\* hasConflicts.  A booking that is cancelled again makes no difference but to when
\* the creator may accept, and nobody has to.
Busy(c) ==
    \/ c \in Booked
    \/ \E d \in Contracts \ {c} : <<c, d>> \in Clashes /\ Is(d, "ACCEPTED")

\* Mutant: the payment is left HELD by the acceptance.
AcceptOnly(c) ==
    /\ ~Busy(c)
    /\ Move(c, "PENDING_ACCEPTANCE", "ACCEPTED")
    /\ UNCHANGED <<settlement, past, cronVars, owed, announced, failures>>

\* accept does not look at expiresAt: the cron may not have come by yet.
Accept(c) ==
    /\ ~Busy(c)
    /\ Move(c, "PENDING_ACCEPTANCE", "ACCEPTED")
    /\ Settle(c, "APPLIED")
    /\ UNCHANGED <<past, cronVars, owed, announced, failures>>

Reject(c) ==
    /\ Move(c, "PENDING_ACCEPTANCE", "REJECTED")
    /\ Settle(c, "CONVERTED_TO_CREDIT")
    /\ UNCHANGED <<past, cronVars, owed, announced, failures>>

\* Mutant: the payments' spelling of the status.
CancelMisspelt(c) ==
    /\ Move(c, "ACCEPTED", "CANCELED")
    /\ UNCHANGED <<settlement, past, cronVars, owed, announced, failures>>

Cancel(c) ==
    /\ Move(c, "ACCEPTED", "CANCELLED")
    /\ UNCHANGED <<settlement, past, cronVars, owed, announced, failures>>

-----------------------------------------------------------------------------
(***************************************************************************)
(* Completion by the users.  The event is emitted after the commit.        *)
(***************************************************************************)
OweEvent(c) == owed' = [owed EXCEPT ![c] = @ + 1]

Complete(c) ==
    /\ "endsAt" \in past[c]
    /\ Move(c, "ACCEPTED", "COMPLETED")
    /\ OweEvent(c)
    /\ UNCHANGED <<settlement, past, cronVars, announced, failures>>

\* Mutant: one confirmation is taken for both.
EitherSideCompletes(c, side) ==
    /\ Is(c, "AWAITING_COMPLETION_CONFIRMATION")
    /\ contract' = [contract EXCEPT
                     ![c] = [@ EXCEPT !.confirmed = @ \cup {side}, !.status = "COMPLETED"]]
    /\ OweEvent(c)
    /\ UNCHANGED <<settlement, past, cronVars, announced, failures>>

ConfirmCompletion(c, side) ==
    /\ Is(c, "AWAITING_COMPLETION_CONFIRMATION")
    /\ side \notin contract[c].confirmed
    /\ LET confirmed == contract[c].confirmed \cup {side}
       IN  IF confirmed = Side
           THEN /\ contract' = [contract EXCEPT
                                  ![c] = [@ EXCEPT !.confirmed = confirmed, !.status = "COMPLETED"]]
                /\ OweEvent(c)
           ELSE /\ contract' = [contract EXCEPT ![c].confirmed = confirmed]
                /\ UNCHANGED owed
    /\ UNCHANGED <<settlement, past, cronVars, announced, failures>>

DisputeCompletion(c) ==
    /\ Move(c, "AWAITING_COMPLETION_CONFIRMATION", "COMPLETION_DISPUTE")
    /\ UNCHANGED <<settlement, past, cronVars, owed, announced, failures>>

Emit(c) ==
    /\ owed[c] > 0
    /\ owed' = [owed EXCEPT ![c] = @ - 1]
    /\ announced' = [announced EXCEPT ![c] = @ + 1]
    /\ UNCHANGED <<contract, settlement, past, cronVars, failures>>

-----------------------------------------------------------------------------
(***************************************************************************)
(* processExpiredInvites                                                   *)
(***************************************************************************)
\* Mutant: the invites whose payment is still missing are looked for.
BeginExpiryUnpaid(r) ==
    LET expired == {c \in Contracts : Is(c, "PENDING_PAYMENT") /\ "expiresAt" \in past[c]}
    IN  /\ expiry[r] = NoExpiry
        /\ expired # {}
        /\ expiry' = [expiry EXCEPT ![r].todo = expired]
        /\ UNCHANGED <<contract, settlement, past, transition, contest, owed, announced, failures>>

BeginExpiry(r) ==
    LET expired == {c \in Contracts : Is(c, "PENDING_ACCEPTANCE") /\ "expiresAt" \in past[c]}
    IN  /\ expiry[r] = NoExpiry
        /\ expired # {}
        /\ expiry' = [expiry EXCEPT ![r].todo = expired]
        /\ UNCHANGED <<contract, settlement, past, transition, contest, owed, announced, failures>>

\* The conditional UPDATE.  Its affected count is ignored: the credit follows
\* even when the creator answered first.
ExpireInvite(r, c) ==
    /\ c \in expiry[r].todo
    /\ expiry[r].credit = {}
    /\ expiry' = [expiry EXCEPT ![r] = [todo |-> @.todo \ {c}, credit |-> {c}]]
    /\ contract' = IF Is(c, "PENDING_ACCEPTANCE")
                   THEN [contract EXCEPT ![c].status = "EXPIRED"] ELSE contract
    /\ UNCHANGED <<settlement, past, transition, contest, owed, announced, failures>>

\* Mutant: the credit is given without a look at the settlement.
CreditRegardless(r, c) ==
    /\ c \in expiry[r].credit
    /\ expiry' = [expiry EXCEPT ![r].credit = {}]
    /\ settlement' = [settlement EXCEPT ![c] = "CONVERTED_TO_CREDIT"]
    /\ UNCHANGED <<contract, past, transition, contest, owed, announced, failures>>

\* creditFromPayment, in a transaction of its own.
CreditExpired(r, c) ==
    /\ c \in expiry[r].credit
    /\ expiry' = [expiry EXCEPT ![r].credit = {}]
    /\ Settle(c, "CONVERTED_TO_CREDIT")
    /\ UNCHANGED <<contract, past, transition, contest, owed, announced, failures>>

-----------------------------------------------------------------------------
(***************************************************************************)
(* transitionJobsToAwaitingConfirmation                                    *)
(***************************************************************************)
BeginTransition(r) ==
    LET overdue == {c \in Contracts : Is(c, "ACCEPTED") /\ "endsAt" \in past[c]}
    IN  /\ transition[r] = {}
        /\ overdue # {}
        /\ transition' = [transition EXCEPT ![r] = overdue]
        /\ UNCHANGED <<contract, settlement, past, expiry, contest, owed, announced, failures>>

Entered(c) == [contract EXCEPT ![c] = [@ EXCEPT !.status = "AWAITING_COMPLETION_CONFIRMATION",
                                                !.entered = TRUE]]

\* Mutant: an UPDATE by id alone.
AwaitUnconditionally(r, c) ==
    /\ c \in transition[r]
    /\ transition' = [transition EXCEPT ![r] = @ \ {c}]
    /\ contract' = Entered(c)
    /\ UNCHANGED <<settlement, past, expiry, contest, owed, announced, failures>>

AwaitConfirmation(r, c) ==
    /\ c \in transition[r]
    /\ transition' = [transition EXCEPT ![r] = @ \ {c}]
    /\ contract' = IF Is(c, "ACCEPTED") THEN Entered(c) ELSE contract
    /\ UNCHANGED <<settlement, past, expiry, contest, owed, announced, failures>>

-----------------------------------------------------------------------------
(***************************************************************************)
(* autoCompleteExpiredContests: two SELECTs in no fixed order, with and    *)
(* without a confirmation, both of the deadlines passed when it started;   *)
(* then the UPDATEs of both lists, in parallel.                            *)
(***************************************************************************)
Contestable(c) == Is(c, "AWAITING_COMPLETION_CONFIRMATION")

BeginAutoComplete(r) ==
    LET due == {c \in Contracts : "contestDeadlineAt" \in past[c]}
    IN  /\ contest[r] = NoContest
        /\ \E c \in due : Contestable(c)
        /\ contest' = [contest EXCEPT ![r] = [due |-> due, unread |-> List, found |-> @.found]]
        /\ UNCHANGED <<contract, settlement, past, expiry, transition, owed, announced, failures>>

\* due is forgotten with the second read.
Select(r, list, found) ==
    /\ list \in contest[r].unread
    /\ contest' = [contest EXCEPT
         ![r] = [due |-> IF @.unread = {list} THEN {} ELSE @.due,
                 unread |-> @.unread \ {list},
                 found |-> [@.found EXCEPT ![list] = found]]]
    /\ UNCHANGED <<contract, settlement, past, expiry, transition, owed, announced, failures>>

SelectConfirmed(r) ==
    Select(r, "with", {c \in contest[r].due : Contestable(c) /\ contract[c].confirmed # {}})

\* Mutant: the branch of the tacit approval finds nothing.
SelectNobody(r) == Select(r, "without", {})

SelectUnconfirmed(r) ==
    Select(r, "without", {c \in contest[r].due : Contestable(c) /\ contract[c].confirmed = {}})

\* The next contract of a list, once both are there.
Take(r, c, list) ==
    /\ contest[r].unread = {}
    /\ c \in contest[r].found[list]
    /\ contest' = [contest EXCEPT ![r].found[list] = @ \ {c}]

\* Without a confirmation the approval is tacit.
Completed(c, list) ==
    [contract EXCEPT ![c] = [@ EXCEPT !.status = "COMPLETED",
                                      !.tacit = contract[c].tacit \/ list = "without"]]

\* Mutant: the affected count is not looked at before the event.
AnnounceRegardless(r, c, list) ==
    /\ Take(r, c, list)
    /\ contract' = IF Contestable(c) THEN Completed(c, list) ELSE contract
    /\ OweEvent(c)
    /\ UNCHANGED <<settlement, past, expiry, transition, announced, failures>>

AutoComplete(r, c, list) ==
    /\ Take(r, c, list)
    /\ IF Contestable(c)
       THEN /\ contract' = Completed(c, list)
            /\ OweEvent(c)
       ELSE UNCHANGED <<contract, owed>>
    /\ UNCHANGED <<settlement, past, expiry, transition, announced, failures>>

-----------------------------------------------------------------------------
(***************************************************************************)
(* Time and failures.                                                      *)
(***************************************************************************)
Elapse(c, instant) ==
    /\ instant \notin past[c]
    /\ instant = "contestDeadlineAt" => contract[c].entered
    /\ past' = [past EXCEPT ![c] = @ \cup {instant}]
    /\ UNCHANGED <<contract, settlement, cronVars, owed, announced, failures>>

Fail == failures < MaxFailures /\ failures' = failures + 1

\* A statement about c throws, and the cron's catch goes on to the next one.
FailExpiry(r, c) ==
    /\ Fail
    /\ c \in expiry[r].todo \cup expiry[r].credit
    /\ expiry[r].credit \subseteq {c}
    /\ expiry' = [expiry EXCEPT ![r] = [todo |-> @.todo \ {c}, credit |-> {}]]
    /\ UNCHANGED <<contract, settlement, past, transition, contest, owed, announced>>

FailTransition(r, c) ==
    /\ Fail
    /\ c \in transition[r]
    /\ transition' = [transition EXCEPT ![r] = @ \ {c}]
    /\ UNCHANGED <<contract, settlement, past, expiry, contest, owed, announced>>

FailAutoComplete(r, c, list) ==
    /\ Fail
    /\ Take(r, c, list)
    /\ UNCHANGED <<contract, settlement, past, expiry, transition, owed, announced>>

\* The process dies: its crons stop where they are, and so do the events it
\* has not emitted yet.
Crash(r, lost) ==
    /\ Fail
    /\ expiry' = [expiry EXCEPT ![r] = NoExpiry]
    /\ transition' = [transition EXCEPT ![r] = {}]
    /\ contest' = [contest EXCEPT ![r] = NoContest]
    /\ owed' = [c \in Contracts |-> IF c \in lost THEN 0 ELSE owed[c]]
    /\ UNCHANGED <<contract, settlement, past, announced>>

-----------------------------------------------------------------------------
ExpiryStep(r) ==
    \/ BeginExpiry(r)
    \/ \E c \in Contracts : ExpireInvite(r, c) \/ CreditExpired(r, c)
TransitionStep(r) ==
    \/ BeginTransition(r)
    \/ \E c \in Contracts : AwaitConfirmation(r, c)
ContestStep(r) ==
    \/ BeginAutoComplete(r)
    \/ SelectConfirmed(r)
    \/ SelectUnconfirmed(r)
    \/ \E c \in Contracts, list \in List : AutoComplete(r, c, list)

Next ==
    \/ \E c \in Contracts :
          \/ ConfirmPayment(c) \/ Accept(c) \/ Reject(c) \/ Cancel(c) \/ Complete(c)
          \/ \E side \in Side : ConfirmCompletion(c, side)
          \/ DisputeCompletion(c)
          \/ Emit(c)
          \/ \E instant \in Instant : Elapse(c, instant)
    \/ \E r \in Replicas :
          \/ ExpiryStep(r) \/ TransitionStep(r) \/ ContestStep(r)
          \/ \E c \in Contracts : FailExpiry(r, c) \/ FailTransition(r, c)
          \/ \E c \in Contracts, list \in List : FailAutoComplete(r, c, list)
          \/ \E lost \in SUBSET Contracts : Crash(r, lost)

Spec == Init /\ [][Next]_vars

\* The timers of the three crons keep firing and what they start goes on; time
\* passes; an event is emitted by the code that follows the commit.  Nothing
\* is assumed of the users.
Fairness ==
    /\ \A r \in Replicas : WF_vars(ExpiryStep(r)) /\ WF_vars(TransitionStep(r))
                           /\ WF_vars(ContestStep(r))
    /\ \A c \in Contracts : WF_vars(Emit(c)) /\ WF_vars(Elapse(c, "contestDeadlineAt"))

FairSpec == Spec /\ Fairness

-----------------------------------------------------------------------------
(***************************************************************************)
(* The promise that the above implements: module Deal.                     *)
(***************************************************************************)
Phase(status) ==
    CASE status \in {"PENDING_PAYMENT", "PENDING_ACCEPTANCE"} -> "offered"
      [] status \in {"REJECTED", "EXPIRED"} -> "refused"
      [] status \in {"ACCEPTED", "AWAITING_COMPLETION_CONFIRMATION"} -> "agreed"
      [] status = "CANCELLED" -> "cancelled"
      [] status = "COMPLETION_DISPUTE" -> "disputed"
      [] status = "COMPLETED" -> "done"

phases == [c \in Contracts |-> Phase(contract[c].status)]

Promise == INSTANCE Deal WITH
             Deals <- Contracts, Hired <- OpenOffer,
             phase <- phases, money <- settlement, told <- announced

\* Handlers, crons of any replica and crashes together answer an invite once, give
\* the payment back only for a refusal and keep it for an agreement, conclude the
\* job once and announce it once: every step is one of the promise or changes
\* nothing of it.
DealKept == Promise!Spec

-----------------------------------------------------------------------------
(***************************************************************************)
(* Properties that hold.                                                   *)
(***************************************************************************)
Terminal == {"REJECTED", "CANCELLED", "EXPIRED", "COMPLETED", "COMPLETION_DISPUTE"}

\* A contract that was rejected, cancelled, expired, completed or disputed stays
\* so, whatever stale list a cron still works through.
TerminalIsFinal ==
    [][\A c \in Contracts :
          contract[c].status \in Terminal => contract'[c].status = contract[c].status]_vars

\* Credit goes back to the company only for an invite that was refused or that
\* expired, and the payment of an accepted invite is kept for the job, even when
\* the expiration cron and the creator's answer cross.
SettlementMatchesAnswer ==
    \A c \in Contracts :
        /\ settlement[c] = "CONVERTED_TO_CREDIT" => contract[c].status \in {"REJECTED", "EXPIRED"}
        /\ settlement[c] = "APPLIED" =>
              contract[c].status \notin {"PENDING_PAYMENT", "PENDING_ACCEPTANCE", "REJECTED", "EXPIRED"}

\* A contract is completed only after its job ended, and once it awaited
\* confirmation only by both sides or by the deadline; a tacit approval needs
\* the deadline, and leaves at least one side's confirmation out: two confirmations
\* are never taken for none, late as the cron's list may be.
CompletedForAReason ==
    \A c \in Contracts : Is(c, "COMPLETED") =>
        /\ "endsAt" \in past[c]
        /\ contract[c].entered => contract[c].confirmed = Side \/ "contestDeadlineAt" \in past[c]
        /\ contract[c].tacit => "contestDeadlineAt" \in past[c] /\ contract[c].confirmed # Side

\* The completion of a contract is announced at most once, by whichever of the
\* users and the replicas' crons completed it, and only when it is COMPLETED.
AnnouncedOnce ==
    \A c \in Contracts : /\ owed[c] + announced[c] <= 1
                         /\ owed[c] + announced[c] > 0 => Is(c, "COMPLETED")

\* An expired invite does not stay pending: the hourly cron comes back to it
\* after a failure.
InviteIsClosed ==
    \A c \in Contracts :
        (Is(c, "PENDING_ACCEPTANCE") /\ "expiresAt" \in past[c]) ~> ~Is(c, "PENDING_ACCEPTANCE")

\* A job that has ended is completed, disputed or cancelled in the end although
\* its users do nothing and a run of the crons fails.
JobIsSettled ==
    \A c \in Contracts :
        (Is(c, "ACCEPTED") /\ "endsAt" \in past[c])
        ~> contract[c].status \in {"COMPLETED", "COMPLETION_DISPUTE", "CANCELLED"}

-----------------------------------------------------------------------------
(***************************************************************************)
(* What the repository says of the program and the code does not keep.     *)
(***************************************************************************)
\* invite-expiration.service.ts: "Detecta convites expirados ... e converte o
\* pagamento em credito para a empresa": the payment of an EXPIRED contract
\* becomes credit.
ExpiredIsCredited ==
    \A c \in Contracts : Is(c, "EXPIRED") ~> settlement[c] = "CONVERTED_TO_CREDIT"

\* job-completion.service.ts: "0 confirmacoes -> COMPLETED por aprovacao tacita":
\* a contract completed by tacit approval was confirmed by nobody.
TacitMeansUnconfirmed ==
    \A c \in Contracts : contract[c].tacit => contract[c].confirmed = {}
=============================================================================
