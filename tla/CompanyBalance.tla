--------------------------- MODULE CompanyBalance ---------------------------
(***************************************************************************)
(* The internal balance of a company: src/src/billing/                     *)
(* company-balance.service.ts.                                             *)
(*                                                                         *)
(* A handler runs in a session.  Everything a handler does between taking  *)
(* a row lock (or issuing a conditional UPDATE) and its commit is one      *)
(* action; an await with no lock held ends the action, and what the        *)
(* handler remembers of the rows it read is kept in task[s].  Postgres     *)
(* runs in READ COMMITTED, so the next statement of the handler sees       *)
(* whatever the other sessions committed in between.                       *)
(***************************************************************************)
EXTENDS Integers, Sequences

CONSTANTS Companies,   \* company users
          Payments,    \* payment rows
          Refunds,     \* ids the refund_requests table can hand out
          Sessions,    \* concurrent request handlers
          Owner,       \* Payment.companyUserId
          Total,       \* Payment.companyTotalAmountCents
          Applied,     \* Payment.creditAppliedCents
          Amounts,     \* amounts a company may ask back
          MaxCredit,   \* CompanyBalance.maxCreditCents
          NoRefund     \* a refund id not yet handed out

ASSUME BalanceConstants ==
    /\ Owner \in [Payments -> Companies]
    /\ Total \in [Payments -> Nat \ {0}]
    /\ Applied \in [Payments -> Nat]
    /\ Amounts \subseteq Nat \ {0}
    /\ MaxCredit \in Nat

VARIABLES available,   \* CompanyBalance.availableCents, 0 while there is no row
          rows,        \* companies that have a company_balance row
          settlement,  \* Payment.settlementStatus
          ledger,      \* the company_balance_transactions table
          refund,      \* the refund_requests table
          task         \* what each session remembers between two awaits

vars == <<available, rows, settlement, ledger, refund, task>>

SettlementStatus == {"HELD", "APPLIED", "CONVERTED_TO_CREDIT"}
RefundRequestStatus == {"PENDING", "APPROVED", "REJECTED", "PAID"}
CreditType == {"CREDIT_FROM_REJECTION", "CREDIT_FROM_EXPIRATION"}
BalanceTransactionType == CreditType \cup {"CREDIT_USED", "REFUND_PROCESSED"}

RefundRequest == [company : Companies, amount : Amounts, status : RefundRequestStatus]
Transaction == [company : Companies, amount : Int, type : BalanceTransactionType,
                ref : Payments \cup Refunds]

ASSUME NoRefundConstant == NoRefund \notin RefundRequest

(***************************************************************************)
(* What a session can be in the middle of.                                 *)
(***************************************************************************)
Idle == [op |-> "idle"]
Task == {Idle}
        \cup [op : {"firstCredit"}, payment : Payments, type : CreditType]
        \cup [op : {"countPending", "insert"}, company : Companies, amount : Amounts]
        \cup [op : {"approve", "reject", "markPaid"}, refund : Refunds]

TypeOK ==
    /\ available \in [Companies -> Int]
    /\ rows \subseteq Companies
    /\ settlement \in [Payments -> SettlementStatus]
    /\ ledger \in Seq(Transaction)
    /\ refund \in [Refunds -> RefundRequest \cup {NoRefund}]
    /\ task \in [Sessions -> Task]

Init ==
    /\ available = [c \in Companies |-> 0]
    /\ rows = {}
    /\ settlement = [p \in Payments |-> "HELD"]
    /\ ledger = <<>>
    /\ refund = [r \in Refunds |-> NoRefund]
    /\ task = [s \in Sessions |-> Idle]

(***************************************************************************)
(* Steps every handler shares.                                             *)
(***************************************************************************)
Await(s, t) == task[s] = Idle /\ task' = [task EXCEPT ![s] = t]
Finish(s) == task' = [task EXCEPT ![s] = Idle]

Post(c, amount, type, ref) ==
    /\ available' = [available EXCEPT ![c] = @ + amount]
    /\ ledger' = Append(ledger, [company |-> c, amount |-> amount, type |-> type, ref |-> ref])

\* Mutant: the cap is forgotten.
UncappedCredit(p) == Total[p]

\* The anti-fraud cap: what is left of a credit once maxCreditCents is respected.
EffectiveCredit(p) ==
    LET room == MaxCredit - available[Owner[p]]
    IN  IF room <= 0 THEN 0 ELSE IF Total[p] <= room THEN Total[p] ELSE room

\* A transaction that created the balance row of p's company and has not yet
\* committed holds the row lock of p.
PaymentLocked(p) == \E s \in Sessions : task[s].op = "firstCredit" /\ task[s].payment = p

-----------------------------------------------------------------------------
(***************************************************************************)
(* creditFromPayment.  The conditional UPDATE matches a HELD payment only. *)
(* With a balance row the transaction is serialised by its lock; without   *)
(* one there is nothing to lock, and two first credits of a company race   *)
(* to insert it.                                                           *)
(***************************************************************************)
Convert(p, type) ==
    /\ settlement' = [settlement EXCEPT ![p] = "CONVERTED_TO_CREDIT"]
    /\ rows' = rows \cup {Owner[p]}
    /\ Post(Owner[p], EffectiveCredit(p), type, p)
    /\ UNCHANGED refund

\* Mutant: an unconditional UPDATE of the settlement.
CreditUnconditionally(s, p, type) ==
    /\ task[s] = Idle
    /\ ~PaymentLocked(p)
    /\ Owner[p] \in rows
    /\ Convert(p, type)
    /\ UNCHANGED task

CreditFromPayment(s, p, type) ==
    /\ task[s] = Idle
    /\ settlement[p] = "HELD"
    /\ ~PaymentLocked(p)
    /\ Owner[p] \in rows
    /\ Convert(p, type)
    /\ UNCHANGED task

BeginFirstCredit(s, p, type) ==
    /\ settlement[p] = "HELD"
    /\ ~PaymentLocked(p)
    /\ Owner[p] \notin rows
    /\ Await(s, [op |-> "firstCredit", payment |-> p, type |-> type])
    /\ UNCHANGED <<available, rows, settlement, ledger, refund>>

\* Mutant: the insert is an upsert that overwrites the row of the winner.
CommitByUpsert(s) ==
    /\ task[s].op = "firstCredit"
    /\ LET p == task[s].payment
       IN  /\ settlement' = [settlement EXCEPT ![p] = "CONVERTED_TO_CREDIT"]
           /\ rows' = rows \cup {Owner[p]}
           /\ available' = [available EXCEPT ![Owner[p]] = Total[p]]
           /\ ledger' = Append(ledger, [company |-> Owner[p], amount |-> Total[p],
                                        type |-> task[s].type, ref |-> p])
    /\ Finish(s)
    /\ UNCHANGED refund

CommitFirstCredit(s) ==
    /\ task[s].op = "firstCredit"
    /\ Owner[task[s].payment] \notin rows
    /\ Convert(task[s].payment, task[s].type)
    /\ Finish(s)

\* The unique index on company_user_id refuses the second insert: rollback.
AbortFirstCredit(s) ==
    /\ task[s].op = "firstCredit"
    /\ Owner[task[s].payment] \in rows
    /\ Finish(s)
    /\ UNCHANGED <<available, rows, settlement, ledger, refund>>

(***************************************************************************)
(* ContractRequestsService.accept keeps the payment for the job instead.   *)
(***************************************************************************)
ApplyPayment(p) ==
    /\ settlement[p] = "HELD"
    /\ ~PaymentLocked(p)
    /\ settlement' = [settlement EXCEPT ![p] = "APPLIED"]
    /\ UNCHANGED <<available, rows, ledger, refund, task>>

(***************************************************************************)
(* useCredit, reached only when isCreditAlreadyDebited found no debit.  It *)
(* throws, and its caller rolls back, when the balance does not cover the  *)
(* amount.  The callers hold the row lock of the contract by then, so the  *)
(* check and the debit of one payment are one step (module Payments breaks *)
(* the callers up).                                                        *)
(***************************************************************************)
CreditAlreadyDebited(p) ==
    \E i \in DOMAIN ledger : ledger[i].type = "CREDIT_USED" /\ ledger[i].ref = p

UseCredit(p) ==
    /\ Applied[p] > 0
    /\ ~CreditAlreadyDebited(p)
    /\ Owner[p] \in rows
    /\ available[Owner[p]] >= Applied[p]
    /\ Post(Owner[p], -Applied[p], "CREDIT_USED", p)
    /\ UNCHANGED <<rows, settlement, refund, task>>

(***************************************************************************)
(* requestRefund: two reads and an insert, no transaction and no lock.     *)
(***************************************************************************)
RequestRefund(s, c, amount) ==
    /\ amount <= available[c]
    /\ Await(s, [op |-> "countPending", company |-> c, amount |-> amount])
    /\ UNCHANGED <<available, rows, settlement, ledger, refund>>

Pending(c) == {r \in Refunds : refund[r] # NoRefund
                               /\ refund[r].company = c /\ refund[r].status = "PENDING"}

\* Mutant: the requests found pending are counted and forgotten.
CountInVain(s) ==
    /\ task[s].op = "countPending"
    /\ task' = [task EXCEPT ![s].op = "insert"]
    /\ UNCHANGED <<available, rows, settlement, ledger, refund>>

CountPending(s) ==
    /\ task[s].op = "countPending"
    /\ task' = [task EXCEPT ![s] = IF Pending(@.company) = {} THEN [@ EXCEPT !.op = "insert"]
                                                              ELSE Idle]
    /\ UNCHANGED <<available, rows, settlement, ledger, refund>>

InsertRefund(s, r) ==
    /\ task[s].op = "insert"
    /\ refund[r] = NoRefund
    /\ refund' = [refund EXCEPT ![r] = [company |-> task[s].company, amount |-> task[s].amount,
                                        status |-> "PENDING"]]
    /\ Finish(s)
    /\ UNCHANGED <<available, rows, settlement, ledger>>

(***************************************************************************)
(* The admin's approve, reject and mark-paid: each reads the request and   *)
(* checks its status without a lock, and saves the entity it read later.   *)
(***************************************************************************)
HasStatus(r, status) == refund[r] # NoRefund /\ refund[r].status = status

ReadRefund(s, r, op, status) ==
    /\ HasStatus(r, status)
    /\ Await(s, [op |-> op, refund |-> r])
    /\ UNCHANGED <<available, rows, settlement, ledger, refund>>

\* Mutant: an entity that is PAID already is taken for approved.
BeginMarkAgain(s, r) == \E status \in {"APPROVED", "PAID"} : ReadRefund(s, r, "markPaid", status)

BeginApproveRefund(s, r) == ReadRefund(s, r, "approve", "PENDING")
BeginRejectRefund(s, r)  == ReadRefund(s, r, "reject", "PENDING")
BeginMarkRefundPaid(s, r) == ReadRefund(s, r, "markPaid", "APPROVED")

ApproveRefund(s) ==
    /\ task[s].op = "approve"
    /\ refund' = [refund EXCEPT ![task[s].refund].status = "APPROVED"]
    /\ Finish(s)
    /\ UNCHANGED <<available, rows, settlement, ledger>>

\* Mutant: a status the enum does not have.
RejectAsCanceled(s) ==
    /\ task[s].op = "reject"
    /\ refund' = [refund EXCEPT ![task[s].refund].status = "CANCELED"]
    /\ Finish(s)
    /\ UNCHANGED <<available, rows, settlement, ledger>>

RejectRefund(s) ==
    /\ task[s].op = "reject"
    /\ refund' = [refund EXCEPT ![task[s].refund].status = "REJECTED"]
    /\ Finish(s)
    /\ UNCHANGED <<available, rows, settlement, ledger>>

MarkRefundPaid(s) ==
    /\ task[s].op = "markPaid"
    /\ LET r == task[s].refund
           c == refund[r].company
           a == refund[r].amount
       IN  \/ /\ c \in rows
              /\ available[c] >= a
              /\ Post(c, -a, "REFUND_PROCESSED", r)
              /\ refund' = [refund EXCEPT ![r].status = "PAID"]
           \/ /\ available[c] < a
              /\ UNCHANGED <<available, ledger, refund>>
    /\ Finish(s)
    /\ UNCHANGED <<rows, settlement>>

-----------------------------------------------------------------------------
Next ==
    \/ \E p \in Payments : ApplyPayment(p)
    \/ \E p \in Payments : UseCredit(p)
    \/ \E s \in Sessions :
        \/ \E p \in Payments, type \in CreditType : CreditFromPayment(s, p, type)
        \/ \E p \in Payments, type \in CreditType : BeginFirstCredit(s, p, type)
        \/ CommitFirstCredit(s)
        \/ AbortFirstCredit(s)
        \/ \E c \in Companies, amount \in Amounts : RequestRefund(s, c, amount)
        \/ CountPending(s)
        \/ \E r \in Refunds : InsertRefund(s, r)
        \/ \E r \in Refunds : BeginApproveRefund(s, r)
        \/ \E r \in Refunds : BeginRejectRefund(s, r)
        \/ \E r \in Refunds : BeginMarkRefundPaid(s, r)
        \/ ApproveRefund(s)
        \/ RejectRefund(s)
        \/ MarkRefundPaid(s)

Spec == Init /\ [][Next]_vars

-----------------------------------------------------------------------------
(***************************************************************************)
(* Properties                                                              *)
(***************************************************************************)
Entries(type, ref) == {i \in DOMAIN ledger : ledger[i].type = type /\ ledger[i].ref = ref}
CreditsOf(p) == {i \in DOMAIN ledger : ledger[i].type \in CreditType /\ ledger[i].ref = p}

\* What the n-th line of the ledger is to company c, and what all of them add up to.
Line(c, n) == IF ledger[n].company = c THEN ledger[n].amount ELSE 0
LedgerSum(c) ==
    LET after[n \in 0..Len(ledger)] == IF n = 0 THEN 0 ELSE after[n - 1] + Line(c, n)
    IN  after[Len(ledger)]

\* The balance of every company is the sum of its ledger: no interleaving of
\* credits, debits and refunds loses an update or posts without a ledger line.
LedgerExplainsBalance == \A c \in Companies : available[c] = LedgerSum(c)

\* "available_cents >= 0 (garantido por lock pessimista em useCredit)", and the
\* anti-fraud cap, whatever the order of credits, debits and refunds.
BalanceWithinLimits == \A c \in Companies : available[c] \in 0..MaxCredit

\* A payment becomes credit at most once, and only the payments marked
\* CONVERTED_TO_CREDIT did: neither a second rejection or expiration, nor the
\* loser of the race for the first balance row, nor an accepted contract's
\* payment leaves a credit behind.
CreditedExactlyWhenConverted ==
    \A p \in Payments :
        /\ settlement[p] = "CONVERTED_TO_CREDIT" <=> CreditsOf(p) # {}
        /\ \A i, j \in CreditsOf(p) : i = j

\* A refund that reads PAID was debited, even when the admin's saves of one
\* request overlap.  (That it is debited once, and stays PAID, takes more: module
\* CompanyBalanceHistory.)
PaidRefundWasDebited ==
    \A r \in Refunds : HasStatus(r, "PAID") => Entries("REFUND_PROCESSED", r) # {}

-----------------------------------------------------------------------------
(***************************************************************************)
(* What the balance promises, without sessions, rows, locks, statuses or a *)
(* ledger: module Wallet.                                                  *)
(***************************************************************************)
Promise == INSTANCE Wallet WITH
    Owners <- Companies, Purchases <- Payments, Price <- Total, Credit <- Applied,
    Opening <- [c \in Companies |-> 0], Allowed <- 0..MaxCredit,
    balance <- available,
    returned <- {p \in Payments : settlement[p] = "CONVERTED_TO_CREDIT"},
    spent <- {p \in Payments : CreditAlreadyDebited(p)}

\* Each step of the handlers is a step of the wallet or invisible to it: a
\* balance moves only by the one return and the one use of a payment, and by
\* money paid back, and every move stays within the limits.
WalletKept == Promise!Spec
=============================================================================
