------------------------------ MODULE Payments ------------------------------
(***************************************************************************)
(* How the payment of a contract is started, charged and confirmed:        *)
(* payments/payments.service.ts, payments/webhooks/webhooks.service.ts and *)
(* the parts of contract-requests that read or write the payment row.      *)
(*                                                                         *)
(* There is one payment per contract (UNIQUE contract_request_id), so a    *)
(* payment is named by its contract.  All contracts here belong to one     *)
(* company.  A handler runs in a session; it loads the payment row without *)
(* a lock, awaits the gateway, and saves the entity it loaded: TypeORM     *)
(* writes every column in which the entity differs from the row, so a save *)
(* replaces the row by the session's copy.  A database transaction is one  *)
(* action from its first row lock to its commit.  Time is only ordering: a *)
(* PIX code expires at any moment, and expiresAt of the contract, which    *)
(* can only refuse initiatePayment, is covered by not taking the action.   *)
(***************************************************************************)
EXTENDS Integers, FiniteSets

CONSTANTS Contracts,      \* contracts of one company
          OpenOffer,      \* those created ACCEPTED by an open-offer selection
          Charges,        \* ids the gateway can give to a charge
          Events,         \* ids the gateway can give to a notification
          Sessions,       \* concurrent request handlers
          Total,          \* companyTotalAmountCents of a contract
          OpeningBalance, \* availableCents of the company at the start
          None            \* SQL NULL

ASSUME PaymentConstants ==
    /\ OpenOffer \subseteq Contracts
    /\ Total \in [Contracts -> Nat \ {0}]
    /\ OpeningBalance \in Nat
    /\ None \notin Charges

VARIABLES contract,    \* contract_requests: status and paymentStatus
          payment,     \* payments
          charge,      \* the gateway's charges
          event,       \* payment_provider_events: processingStatus
          balance,     \* company_balance.available_cents
          debits,      \* CREDIT_USED ledger lines that name the payment
          payouts,     \* creator_payouts that name the payment
          task,        \* what each session remembers between two awaits
          superseded   \* history: charges a payment row pointed at and left

vars == <<contract, payment, charge, event, balance, debits, payouts, task, superseded>>

PaymentStatus == {"pending", "processing", "paid", "failed", "canceled", "refunded"}
GatewayStatus == PaymentStatus \ {"pending"}
ContractStatus == {"PENDING_PAYMENT", "PENDING_ACCEPTANCE", "ACCEPTED", "REJECTED"}
SettlementStatus == {"HELD", "APPLIED", "CONVERTED_TO_CREDIT"}
ProcessingStatus == {"unsent", "received", "processed", "failed", "orphan"}

(* externalPaymentId is ext; pix is the charge whose pixExpiresAt the row      *)
(* carries; intent says that externalPreferenceId and externalReference are    *)
(* set; credit is creditAppliedCents.                                          *)
Row == [status : PaymentStatus, ext : Charges \cup {None}, pix : Charges \cup {None},
        intent : BOOLEAN, credit : Nat, settlement : SettlementStatus]
NoPayment == [status |-> "none"]
Charge == [of : Contracts, kind : {"card", "pix"}, status : GatewayStatus, expired : BOOLEAN]
NoCharge == [status |-> "none"]

Idle == [op |-> "idle"]
Task ==
    {Idle}
    \cup [op : {"create"}, of : Contracts, credit : Nat, seen : ContractStatus]
    \cup [op : {"intent", "card", "pix", "saveCharge"}, of : Contracts, row : Row]
    \cup [op : {"fetched"}, event : Events, charge : Charges, status : GatewayStatus]
    \cup [op : {"loaded", "inTx"}, event : Events, of : Contracts, row : Row,
          seen : ContractStatus \cup {None}]

TypeOK ==
    /\ contract \in [Contracts -> [status : ContractStatus, paid : BOOLEAN]]
    /\ payment \in [Contracts -> Row \cup {NoPayment}]
    /\ charge \in [Charges -> Charge \cup {NoCharge}]
    /\ event \in [Events -> ProcessingStatus]
    /\ balance \in Int
    /\ debits \in [Contracts -> Nat]
    /\ payouts \in [Contracts -> Nat]
    /\ task \in [Sessions -> Task]
    /\ superseded \subseteq Charges

Init ==
    /\ contract = [c \in Contracts |->
                     [status |-> IF c \in OpenOffer THEN "ACCEPTED" ELSE "PENDING_PAYMENT",
                      paid |-> FALSE]]
    /\ payment = [c \in Contracts |-> NoPayment]
    /\ charge = [ch \in Charges |-> NoCharge]
    /\ event = [e \in Events |-> "unsent"]
    /\ balance = OpeningBalance
    /\ debits = [c \in Contracts |-> 0]
    /\ payouts = [c \in Contracts |-> 0]
    /\ task = [s \in Sessions |-> Idle]
    /\ superseded = {}

gatewayVars == <<charge, event>>
moneyVars == <<balance, debits, payouts>>

-----------------------------------------------------------------------------
(***************************************************************************)
(* Steps the handlers share.                                               *)
(***************************************************************************)
Await(s, t) == task' = [task EXCEPT ![s] = t]
Finish(s) == Await(s, Idle)

\* manager.save(Payment, entity): the entity replaces the row.
Save(c, row) ==
    /\ payment' = [payment EXCEPT ![c] = row]
    /\ superseded' = IF payment[c] = NoPayment THEN superseded
                     ELSE superseded \cup ({payment[c].ext} \ {row.ext, None})

\* Mutant: only paymentStatus is written, whatever status was read.
ConfirmPaymentStatusOnly(c, seen) == contract' = [contract EXCEPT ![c].paid = TRUE]

\* Mutant: a contract that no longer waits for its payment is left alone.
ConfirmOnlyPending(c, seen) ==
    contract' = IF seen = "PENDING_PAYMENT"
                THEN [contract EXCEPT ![c] = [status |-> "PENDING_ACCEPTANCE", paid |-> TRUE]]
                ELSE contract

\* The contract after a confirmed payment: the transaction decides on the
\* status it has read, and updates by id.
ConfirmContract(c, seen) ==
    contract' = [contract EXCEPT
        ![c] = IF seen = "PENDING_PAYMENT"
               THEN [status |-> "PENDING_ACCEPTANCE", paid |-> TRUE]
               ELSE [@ EXCEPT !.paid = TRUE]]

\* Mutant: isCreditAlreadyDebited is not asked.
AlwaysDebit(c, credit) == credit > 0

\* isCreditAlreadyDebited, then useCredit.
MustDebit(c, credit) == credit > 0 /\ debits[c] = 0
\* Mutant: useCredit does not compare the amount with the balance.
NeverShort(c, credit) == TRUE

CreditCovered(c, credit) == MustDebit(c, credit) => balance >= credit
DebitCredit(c, credit) ==
    IF MustDebit(c, credit)
    THEN /\ balance' = balance - credit
         /\ debits' = [debits EXCEPT ![c] = @ + 1]
    ELSE UNCHANGED <<balance, debits>>

AddPayouts(c, n) == payouts' = [payouts EXCEPT ![c] = @ + n]

-----------------------------------------------------------------------------
(***************************************************************************)
(* initiatePayment                                                         *)
(***************************************************************************)
MayBePaid(c) == contract[c].status \in {"PENDING_PAYMENT", "ACCEPTED"}

PixExpired(row) == row.pix # None /\ charge[row.pix].expired

\* FAILED, CANCELED, or PROCESSING with an expired PIX code.
RetryRequired(row) ==
    \/ row.status \in {"failed", "canceled"}
    \/ row.status = "processing" /\ PixExpired(row)

ResetForRetry(row) ==
    IF RetryRequired(row)
    THEN [row EXCEPT !.status = "pending", !.ext = None, !.pix = None, !.intent = FALSE]
    ELSE row

\* No payment yet: plan to use as much credit as the balance shows now.
InitiateNew(s, c) ==
    /\ task[s] = Idle
    /\ MayBePaid(c)
    /\ payment[c] = NoPayment
    /\ Await(s, [op |-> "create", of |-> c, seen |-> contract[c].status,
                 credit |-> IF balance <= Total[c] THEN balance ELSE Total[c]])
    /\ UNCHANGED <<contract, payment, gatewayVars, moneyVars, superseded>>

\* A payment without an intent, after the reset a retry needs.
InitiateExisting(s, c) ==
    /\ task[s] = Idle
    /\ MayBePaid(c)
    /\ payment[c] # NoPayment
    /\ payment[c].status # "paid"
    /\ LET row == ResetForRetry(payment[c])
       IN  /\ ~row.intent
           /\ row.credit < Total[c]
           /\ Await(s, [op |-> "intent", of |-> c, row |-> row])
    /\ UNCHANGED <<contract, payment, gatewayVars, moneyVars, superseded>>

NewRow(status, credit) ==
    [status |-> status, ext |-> None, pix |-> None, intent |-> FALSE,
     credit |-> credit, settlement |-> "HELD"]

\* The credit covers everything: one transaction confirms the payment.  The
\* contract is updated on the status read before it, and only then.
PayWithCredit(s) ==
    /\ task[s].op = "create"
    /\ LET c == task[s].of
           credit == task[s].credit
       IN  /\ credit = Total[c]
           /\ payment[c] = NoPayment
           /\ CreditCovered(c, credit)
           /\ Save(c, NewRow("paid", credit))
           /\ DebitCredit(c, credit)
           /\ AddPayouts(c, 1)
           /\ IF task[s].seen = "PENDING_PAYMENT" THEN ConfirmContract(c, task[s].seen)
                                                  ELSE UNCHANGED contract
    /\ Finish(s)
    /\ UNCHANGED gatewayVars

InsertPayment(s) ==
    /\ task[s].op = "create"
    /\ LET c == task[s].of
           row == NewRow("pending", task[s].credit)
       IN  /\ task[s].credit < Total[c]
           /\ payment[c] = NoPayment
           /\ Save(c, row)
           /\ Await(s, [op |-> "intent", of |-> c, row |-> row])
    /\ UNCHANGED <<contract, gatewayVars, moneyVars>>

\* The gateway returned a preference.
SaveIntent(s) ==
    /\ task[s].op = "intent"
    /\ Save(task[s].of, [task[s].row EXCEPT !.intent = TRUE, !.status = "processing"])
    /\ Finish(s)
    /\ UNCHANGED <<contract, gatewayVars, moneyVars>>

-----------------------------------------------------------------------------
(***************************************************************************)
(* processPayment                                                          *)
(***************************************************************************)
BeginCard(s, c) ==
    /\ task[s] = Idle
    /\ payment[c] # NoPayment
    /\ payment[c].status # "paid"
    /\ Await(s, [op |-> "card", of |-> c, row |-> payment[c]])
    /\ UNCHANGED <<contract, payment, gatewayVars, moneyVars, superseded>>

\* An unexpired PIX code is handed out again.
PixActive(row) ==
    /\ row.ext # None
    /\ row.pix # None
    /\ ~charge[row.pix].expired
    /\ row.status \in {"processing", "pending"}

BeginPix(s, c) ==
    /\ task[s] = Idle
    /\ payment[c] # NoPayment
    /\ payment[c].status # "paid"
    /\ ~PixActive(payment[c])
    /\ Await(s, [op |-> "pix", of |-> c, row |-> payment[c]])
    /\ UNCHANGED <<contract, payment, gatewayVars, moneyVars, superseded>>

NewCharge(ch, c, kind, status) ==
    /\ charge[ch] = NoCharge
    /\ charge' = [charge EXCEPT ![ch] = [of |-> c, kind |-> kind, status |-> status,
                                         expired |-> FALSE]]

ChargeCard(s, ch, status) ==
    /\ task[s].op = "card"
    /\ NewCharge(ch, task[s].of, "card", status)
    /\ Await(s, [op |-> "saveCharge", of |-> task[s].of,
                 row |-> [task[s].row EXCEPT !.ext = ch, !.status = status]])
    /\ UNCHANGED <<contract, payment, event, moneyVars, superseded>>

ChargePix(s, ch) ==
    /\ task[s].op = "pix"
    /\ NewCharge(ch, task[s].of, "pix", "processing")
    /\ Await(s, [op |-> "saveCharge", of |-> task[s].of,
                 row |-> [task[s].row EXCEPT !.ext = ch, !.pix = ch, !.status = "processing"]])
    /\ UNCHANGED <<contract, payment, event, moneyVars, superseded>>

\* The charge was not approved at once: a plain save.
SaveCharge(s) ==
    /\ task[s].op = "saveCharge"
    /\ task[s].row.status # "paid"
    /\ Save(task[s].of, task[s].row)
    /\ Finish(s)
    /\ UNCHANGED <<contract, gatewayVars, moneyVars>>

\* The card was approved: one transaction, which locks the payment row first.
\* It fails, leaving the charge behind, when the credit is no longer covered.
ConfirmCard(s) ==
    /\ task[s].op = "saveCharge"
    /\ task[s].row.status = "paid"
    /\ LET c == task[s].of
           row == task[s].row
       IN  \/ /\ CreditCovered(c, row.credit)
              /\ Save(c, row)
              /\ AddPayouts(c, IF payouts[c] = 0 THEN 1 ELSE 0)
              /\ ConfirmContract(c, contract[c].status)
              /\ DebitCredit(c, row.credit)
           \/ /\ ~CreditCovered(c, row.credit)
              /\ UNCHANGED <<payment, superseded, payouts, contract, balance, debits>>
    /\ Finish(s)
    /\ UNCHANGED gatewayVars

-----------------------------------------------------------------------------
(***************************************************************************)
(* processWebhook                                                          *)
(***************************************************************************)
\* The event is stored (a second one with the same id is ignored) and the
\* gateway is asked for the charge's status.
ReceiveEvent(s, e, ch) ==
    /\ task[s] = Idle
    /\ event[e] = "unsent"
    /\ charge[ch] # NoCharge
    /\ event' = [event EXCEPT ![e] = "received"]
    /\ Await(s, [op |-> "fetched", event |-> e, charge |-> ch, status |-> charge[ch].status])
    /\ UNCHANGED <<contract, payment, charge, moneyVars, superseded>>

\* findPayment: by externalReference, then by externalPaymentId.
Found(c, ch) == payment[c] # NoPayment /\ (payment[c].intent \/ payment[c].ext = ch)

StaleCharge(row, ch) == row.ext # None /\ row.ext # ch

TerminalStatus == {"paid", "refunded", "canceled"}
\* Mutant: the status of a payment may be written again.
MayRepeatStatus(current, next) == ~(current = "paid" /\ next \in {"processing", "pending"})

ShouldUpdateStatus(current, next) ==
    /\ ~(current \in TerminalStatus /\ current = next)
    /\ ~(current = "paid" /\ next \in {"processing", "pending"})

EndEvent(s, status) ==
    /\ event' = [event EXCEPT ![task[s].event] = status]
    /\ Finish(s)

LoadPayment(s) ==
    /\ task[s].op = "fetched"
    /\ LET ch == task[s].charge
           c == charge[ch].of
           row == payment[c]
           applies == ~StaleCharge(row, ch) /\ ShouldUpdateStatus(row.status, task[s].status)
       IN  \/ ~Found(c, ch) /\ EndEvent(s, "orphan")
           \/ Found(c, ch) /\ ~applies /\ EndEvent(s, "processed")
           \/ /\ Found(c, ch) /\ applies
              /\ Await(s, [op |-> "loaded", event |-> task[s].event, of |-> c, seen |-> None,
                           row |-> [row EXCEPT !.status = task[s].status, !.ext = ch]])
              /\ UNCHANGED event
    /\ UNCHANGED <<contract, payment, charge, moneyVars, superseded>>

\* Any status but paid: the transaction only saves the entity.
ApplyStatus(s) ==
    /\ task[s].op = "loaded"
    /\ task[s].row.status # "paid"
    /\ Save(task[s].of, task[s].row)
    /\ EndEvent(s, "processed")
    /\ UNCHANGED <<contract, charge, moneyVars>>

\* Mutant: a charge still processing is confirmed.
ReadContractUnpaid(s) ==
    /\ task[s].op = "loaded"
    /\ Await(s, [task[s] EXCEPT !.op = "inTx", !.seen = contract[task[s].of].status])
    /\ UNCHANGED <<contract, payment, gatewayVars, moneyVars, superseded>>

\* Paid: the transaction inserts the payout and reads the contract ...
ReadContract(s) ==
    /\ task[s].op = "loaded"
    /\ task[s].row.status = "paid"
    /\ Await(s, [task[s] EXCEPT !.op = "inTx", !.seen = contract[task[s].of].status])
    /\ UNCHANGED <<contract, payment, gatewayVars, moneyVars, superseded>>

\* ... then updates the contract, whose row lock makes the rest one step:
\* the check for an earlier debit, the debit, the save and the commit.
ConfirmPaid(s) ==
    /\ task[s].op = "inTx"
    /\ LET c == task[s].of
           row == task[s].row
       IN  \/ /\ CreditCovered(c, row.credit)
              /\ ConfirmContract(c, task[s].seen)
              /\ DebitCredit(c, row.credit)
              /\ AddPayouts(c, 1)
              /\ Save(c, row)
              /\ EndEvent(s, "processed")
           \/ /\ ~CreditCovered(c, row.credit)
              /\ EndEvent(s, "failed")
              /\ UNCHANGED <<contract, balance, debits, payouts, payment, superseded>>
    /\ UNCHANGED charge

-----------------------------------------------------------------------------
(***************************************************************************)
(* The gateway, the creator's answer, and failures.                        *)
(***************************************************************************)
SetChargeStatus(ch, status) ==
    /\ charge' = [charge EXCEPT ![ch].status = status]
    /\ UNCHANGED <<contract, payment, event, moneyVars, task, superseded>>

\* Mutant: the gateway's own word for a refused charge is stored.
RefuseRaw(ch) == charge[ch].status = "processing" /\ SetChargeStatus(ch, "rejected")

ApproveCharge(ch) == charge[ch].status = "processing" /\ ~charge[ch].expired
                     /\ SetChargeStatus(ch, "paid")
RefuseCharge(ch)  == charge[ch].status = "processing"
                     /\ SetChargeStatus(ch, IF charge[ch].kind = "pix" THEN "canceled" ELSE "failed")
RefundCharge(ch)  == charge[ch].status = "paid" /\ SetChargeStatus(ch, "refunded")

ExpirePix(ch) ==
    /\ charge[ch] # NoCharge
    /\ charge[ch].kind = "pix"
    /\ ~charge[ch].expired
    /\ charge' = [charge EXCEPT ![ch].expired = TRUE]
    /\ UNCHANGED <<contract, payment, event, moneyVars, task, superseded>>

\* Mutant: an answer is taken in any status but the first.
AnswerAgain(c, answer) ==
    /\ contract[c].status # "PENDING_PAYMENT"
    /\ contract' = [contract EXCEPT ![c].status = answer]

AnswerInvite(c, answer) ==
    /\ contract[c].status = "PENDING_ACCEPTANCE"
    /\ contract' = [contract EXCEPT ![c].status = answer]

\* ContractRequestsService.accept and reject, under the contract's row lock.
Accept(c) ==
    /\ AnswerInvite(c, "ACCEPTED")
    /\ payment' = [payment EXCEPT ![c].settlement = IF @ = "HELD" THEN "APPLIED" ELSE @]
    /\ UNCHANGED <<gatewayVars, moneyVars, task, superseded>>

Reject(c) ==
    /\ AnswerInvite(c, "REJECTED")
    /\ payment' = [payment EXCEPT ![c].settlement = IF @ = "HELD" THEN "CONVERTED_TO_CREDIT" ELSE @]
    /\ balance' = IF payment[c].settlement = "HELD" THEN balance + Total[c] ELSE balance
    /\ UNCHANGED <<gatewayVars, debits, payouts, task, superseded>>

\* The process dies, the gateway call throws, the insert meets the UNIQUE
\* index, or the balance no longer covers the credit-only payment: whatever
\* was committed stays, the rest of the handler never runs.
Abandon(s) ==
    /\ task[s] # Idle
    /\ Finish(s)
    /\ UNCHANGED <<contract, payment, gatewayVars, moneyVars, superseded>>

-----------------------------------------------------------------------------
Next ==
    \/ \E s \in Sessions :
          \/ \E c \in Contracts : InitiateNew(s, c)
          \/ \E c \in Contracts : InitiateExisting(s, c)
          \/ PayWithCredit(s)
          \/ InsertPayment(s)
          \/ SaveIntent(s)
          \/ \E c \in Contracts : BeginCard(s, c)
          \/ \E c \in Contracts : BeginPix(s, c)
          \/ \E ch \in Charges, status \in {"paid", "processing", "failed"} :
                ChargeCard(s, ch, status)
          \/ \E ch \in Charges : ChargePix(s, ch)
          \/ SaveCharge(s)
          \/ ConfirmCard(s)
          \/ \E e \in Events, ch \in Charges : ReceiveEvent(s, e, ch)
          \/ LoadPayment(s)
          \/ ApplyStatus(s)
          \/ ReadContract(s)
          \/ ConfirmPaid(s)
          \/ Abandon(s)
    \/ \E ch \in Charges :
          ApproveCharge(ch) \/ RefuseCharge(ch) \/ RefundCharge(ch) \/ ExpirePix(ch)
    \/ \E c \in Contracts : Accept(c) \/ Reject(c)

Spec == Init /\ [][Next]_vars

-----------------------------------------------------------------------------
(***************************************************************************)
(* Properties that hold.                                                   *)
(***************************************************************************)
\* Money that reached the platform for a contract: an approved charge, now or
\* before a refund, or a debit of the company's balance for the whole total.
Funded(c) ==
    \/ \E ch \in Charges : /\ charge[ch] # NoCharge
                            /\ charge[ch].of = c
                            /\ charge[ch].status \in {"paid", "refunded"}
    \/ /\ payment[c] # NoPayment
       /\ payment[c].credit = Total[c]
       /\ debits[c] > 0

\* The creator sees an invite, and a payout is owed, only for a contract whose
\* money arrived, however webhooks, card answers and retries overlap.
NothingOwedUnfunded ==
    \A c \in Contracts :
        (payouts[c] > 0 \/ contract[c].paid \/ (c \notin OpenOffer
                                             /\ contract[c].status # "PENDING_PAYMENT"))
        => Funded(c)

\* A payment that reads paid has been confirmed completely: the contract left
\* PENDING_PAYMENT, the payout exists and the credit it used was debited.
PaidIsConfirmed ==
    \A c \in Contracts :
        payment[c].status = "paid"
        => /\ contract[c].status # "PENDING_PAYMENT"
           /\ payouts[c] > 0
           /\ payment[c].credit > 0 => debits[c] > 0

\* The credit of a payment is debited once, although two notifications, or a
\* notification and the card's answer, confirm the same payment concurrently.
CreditDebitedOnce == \A c \in Contracts : debits[c] <= 1

\* "Saldo disponivel em centavos. Nunca negativo": two payments that planned to
\* use the same balance never overdraw it.
NoOverdraft == balance >= 0

\* A payment fully covered by credit is never charged at the gateway.
CreditOnlyIsNotCharged ==
    \A ch \in Charges :
        charge[ch] # NoCharge => payment[charge[ch].of].credit < Total[charge[ch].of]

\* The contract of a paid payment says so although the webhook updates it by an id
\* and a status read without a lock, and whatever answer crosses the confirmation;
\* but for an open offer's contract that credit alone paid, which was ACCEPTED
\* before it was paid and has paymentStatus written by nobody.
ChargedContractSaysPaid ==
    \A c \in Contracts :
        payment[c].status = "paid" /\ (c \notin OpenOffer \/ payment[c].credit < Total[c])
        => contract[c].paid

-----------------------------------------------------------------------------
(***************************************************************************)
(* What the repository says of the program and the code does not keep      *)
(* (module PaymentsHistory says of which contracts it does).               *)
(***************************************************************************)
\* webhooks.service.ts: "Evita reprocessar um pagamento ja concluido": a
\* payment is confirmed once, so one payout is owed for it.
PaidOncePerPayment == \A c \in Contracts : payouts[c] <= 1

\* webhooks.service.ts: "Evita regredir um pagamento ja pago" and "'paid' nao
\* deve voltar para 'processing'": a notification never takes a paid payment
\* back to processing.
WebhookKeepsPaid ==
    [][\A s \in Sessions :
          (ApplyStatus(s) /\ task[s].row.status = "processing")
          => payment[task[s].of].status # "paid"]_vars

\* payments.service.ts: "Qualquer webhook do PIX antigo e ignorado pelo
\* stale-ID check": no notification of an expired PIX code that a retry has
\* replaced is applied.
OldPixIsIgnored ==
    [][\A s \in Sessions :
          (ApplyStatus(s) \/ ConfirmPaid(s))
          => LET ch == task[s].row.ext
             IN  ~(ch \in superseded /\ charge[ch].kind = "pix" /\ charge[ch].expired)]_vars

\* payments.service.ts: "Isso protege contra duplo-submit e double-click": a
\* payment has at most one PIX code that can still be paid.
OneLivePix ==
    \A ch1, ch2 \in {ch \in Charges : /\ charge[ch] # NoCharge
                                       /\ charge[ch].kind = "pix"
                                       /\ charge[ch].status = "processing"
                                       /\ ~charge[ch].expired} :
        charge[ch1].of = charge[ch2].of => ch1 = ch2

\* payment.entity.ts: "HELD -> APPLIED ... CONVERTED_TO_CREDIT": once the
\* creator has answered, the settlement of the payment is final.
SettlementIsFinal ==
    [][\A c \in Contracts :
          (payment[c] # NoPayment /\ payment[c].settlement # "HELD")
          => payment'[c].settlement = payment[c].settlement]_vars

\* webhooks.service.ts, on a contract that is already ACCEPTED: "so atualiza
\* paymentStatus": the contract of a paid payment says so.
PaidContractSaysPaid ==
    \A c \in Contracts : payment[c].status = "paid" => contract[c].paid

=============================================================================
