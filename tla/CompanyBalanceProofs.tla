------------------------ MODULE CompanyBalanceProofs ------------------------
(***************************************************************************)
(* What CompanyBalance guarantees for every set of companies, payments,    *)
(* refund requests and sessions, and for every cap.                        *)
(***************************************************************************)
EXTENDS CompanyBalanceHistory, TLAPS

InTask(s, ops) == task[s].op \in ops

\* An admin's save is pending only on a request that exists: requests are never
\* deleted, so the one it read is still there.
SavesExistingRefund ==
    \A s \in Sessions :
        InTask(s, {"approve", "reject", "markPaid"}) => refund[task[s].refund] # NoRefund

\* The first credit of a company holds the row lock of its payment: the payment
\* is still HELD, and no other session holds it.
FirstCreditLocks ==
    \A s \in Sessions : InTask(s, {"firstCredit"}) =>
        /\ settlement[task[s].payment] = "HELD"
        /\ \A t \in Sessions :
              InTask(t, {"firstCredit"}) /\ task[t].payment = task[s].payment => s = t

\* A session in the middle of an operation remembers what that operation needs.
LEMMA TaskShape ==
    ASSUME TypeOK, NEW s \in Sessions
    PROVE  /\ task[s].op = "firstCredit" =>
                /\ task[s] = [op |-> "firstCredit", payment |-> task[s].payment, type |-> task[s].type]
                /\ task[s].payment \in Payments
                /\ task[s].type \in CreditType
           /\ task[s].op \in {"countPending", "insert"} =>
                /\ task[s] = [op |-> task[s].op, company |-> task[s].company,
                              amount |-> task[s].amount]
                /\ task[s].company \in Companies
                /\ task[s].amount \in Amounts
           /\ task[s].op \in {"approve", "reject", "markPaid"} =>
                task[s].refund \in Refunds
BY DEF TypeOK, Task, Idle

\* What a credit adds is at most what the cap leaves, and never negative.
LEMMA EffectiveCreditBounds ==
    ASSUME TypeOK, BalanceWithinLimits, NEW p \in Payments
    PROVE  /\ EffectiveCredit(p) \in Nat
           /\ available[Owner[p]] + EffectiveCredit(p) \in 0..MaxCredit
BY BalanceConstants DEF TypeOK, BalanceWithinLimits, EffectiveCredit

-----------------------------------------------------------------------------
(***************************************************************************)
(* Types.                                                                  *)
(***************************************************************************)
LEMMA PostTypes ==
    ASSUME TypeOK, NEW c \in Companies, NEW a \in Int, NEW type \in BalanceTransactionType,
           NEW ref \in Payments \cup Refunds, Post(c, a, type, ref)
    PROVE  /\ available' \in [Companies -> Int]
           /\ ledger' \in Seq(Transaction)
<1>1. available' \in [Companies -> Int]
  BY DEF TypeOK, Post
<1>2. [company |-> c, amount |-> a, type |-> type, ref |-> ref] \in Transaction
  BY DEF Transaction
<1>3. ledger' \in Seq(Transaction)
  BY <1>2 DEF TypeOK, Post
<1>4. QED
  BY <1>1, <1>3

LEMMA ConvertTypes ==
    ASSUME TypeOK, BalanceWithinLimits, NEW p \in Payments, NEW type \in CreditType,
           Convert(p, type)
    PROVE  /\ available' \in [Companies -> Int]
           /\ rows' \subseteq Companies
           /\ settlement' \in [Payments -> SettlementStatus]
           /\ ledger' \in Seq(Transaction)
           /\ refund' \in [Refunds -> RefundRequest \cup {NoRefund}]
<1>1. Owner[p] \in Companies
  BY BalanceConstants
<1>2. EffectiveCredit(p) \in Int
  BY EffectiveCreditBounds
<1>3. type \in BalanceTransactionType
  BY DEF BalanceTransactionType
<1>4. available' \in [Companies -> Int] /\ ledger' \in Seq(Transaction)
  BY <1>1, <1>2, <1>3, PostTypes DEF Convert
<1>5. QED
  BY <1>1, <1>4 DEF Convert, TypeOK, SettlementStatus

IInv == /\ TypeOK
        /\ BalanceWithinLimits
        /\ SavesExistingRefund
        /\ FirstCreditLocks
        /\ CreditedExactlyWhenConverted
        /\ PaidRefundWasDebited

LEMMA InitIInv == Init => IInv
<1> SUFFICES ASSUME Init PROVE IInv
  OBVIOUS
<1>1. TypeOK
  BY DEF Init, TypeOK, Task, Idle, SettlementStatus
<1>2. BalanceWithinLimits
  <2>1. \A c \in Companies : available[c] = 0
    BY DEF Init
  <2>2. 0 \in 0..MaxCredit
    BY BalanceConstants
  <2>3. QED
    BY <2>1, <2>2 DEF BalanceWithinLimits
<1>3. SavesExistingRefund /\ FirstCreditLocks
  BY DEF Init, Idle, InTask, SavesExistingRefund, FirstCreditLocks
<1>4. CreditedExactlyWhenConverted
  BY DEF Init, CreditedExactlyWhenConverted, CreditsOf
<1>5. PaidRefundWasDebited
  BY DEF Init, PaidRefundWasDebited, HasStatus
<1>6. QED
  BY <1>1, <1>2, <1>3, <1>4, <1>5 DEF IInv

-----------------------------------------------------------------------------
(***************************************************************************)
(* What one ledger line does to the credits of the payments.               *)
(***************************************************************************)
LEMMA PostLine ==
    ASSUME TypeOK, NEW c \in Companies, NEW a \in Int, NEW type \in BalanceTransactionType,
           NEW ref \in Payments \cup Refunds, Post(c, a, type, ref)
    PROVE  /\ DOMAIN ledger' = DOMAIN ledger \cup {Len(ledger) + 1}
           /\ Len(ledger) + 1 \notin DOMAIN ledger
           /\ \A i \in DOMAIN ledger : ledger'[i] = ledger[i]
           /\ ledger'[Len(ledger) + 1].type = type
           /\ ledger'[Len(ledger) + 1].ref = ref
<1> DEFINE line == [company |-> c, amount |-> a, type |-> type, ref |-> ref]
<1>1. ledger \in Seq(Transaction) /\ line \in Transaction
  BY DEF TypeOK, Transaction
<1>2. ledger' = Append(ledger, line)
  BY DEF Post
<1>3. QED
  BY <1>1, <1>2

\* A debit or a refund adds no credit.
LEMMA DebitKeepsCredits ==
    ASSUME TypeOK, CreditedExactlyWhenConverted, UNCHANGED settlement,
           NEW c \in Companies, NEW a \in Int, NEW ref \in Payments \cup Refunds,
           NEW type \in {"CREDIT_USED", "REFUND_PROCESSED"}, Post(c, a, type, ref)
    PROVE  CreditedExactlyWhenConverted'
<1>1. type \in BalanceTransactionType /\ type \notin CreditType
  BY DEF BalanceTransactionType, CreditType
<1>2. \A p \in Payments : CreditsOf(p)' = CreditsOf(p)
  BY <1>1, PostLine DEF CreditsOf
<1>3. QED
  BY <1>2 DEF CreditedExactlyWhenConverted

\* A conversion adds the one credit of a payment that had none.
LEMMA ConvertAddsCredit ==
    ASSUME TypeOK, BalanceWithinLimits, CreditedExactlyWhenConverted,
           NEW p \in Payments, NEW type \in CreditType,
           settlement[p] = "HELD", Convert(p, type)
    PROVE  CreditedExactlyWhenConverted'
<1>1. type \in BalanceTransactionType /\ Owner[p] \in Companies /\ EffectiveCredit(p) \in Int
  BY BalanceConstants, EffectiveCreditBounds DEF BalanceTransactionType
<1>2. CreditsOf(p) = {}
  BY DEF CreditedExactlyWhenConverted
<1>3. CreditsOf(p)' = {Len(ledger) + 1}
  BY <1>1, <1>2, PostLine DEF Convert, CreditsOf
<1>4. \A q \in Payments : q # p => CreditsOf(q)' = CreditsOf(q)
  BY <1>1, PostLine DEF Convert, CreditsOf
<1>5. \A q \in Payments :
         settlement'[q] = IF q = p THEN "CONVERTED_TO_CREDIT" ELSE settlement[q]
  BY DEF Convert, TypeOK
<1>6. QED
  BY <1>3, <1>4, <1>5 DEF CreditedExactlyWhenConverted

LEMMA ConvertWithinLimits ==
    ASSUME TypeOK, BalanceWithinLimits, NEW p \in Payments, NEW type \in CreditType,
           Convert(p, type)
    PROVE  BalanceWithinLimits'
BY EffectiveCreditBounds, BalanceConstants DEF Convert, Post, TypeOK, BalanceWithinLimits

LEMMA DebitWithinLimits ==
    ASSUME TypeOK, BalanceWithinLimits, NEW c \in Companies, NEW a \in Nat,
           available[c] >= a, NEW type, NEW ref, Post(c, -a, type, ref)
    PROVE  BalanceWithinLimits'
BY BalanceConstants DEF Post, TypeOK, BalanceWithinLimits

\* A refund that reads PAID keeps its debit line: the ledger only grows.
LEMMA PostKeepsPaidRefunds ==
    ASSUME TypeOK, PaidRefundWasDebited, UNCHANGED refund,
           NEW c \in Companies, NEW a \in Int, NEW type \in BalanceTransactionType,
           NEW ref \in Payments \cup Refunds, Post(c, a, type, ref)
    PROVE  PaidRefundWasDebited'
<1>1. \A r \in Refunds : Entries("REFUND_PROCESSED", r) \subseteq Entries("REFUND_PROCESSED", r)'
  BY PostLine DEF Entries
<1>2. QED
  BY <1>1 DEF PaidRefundWasDebited, HasStatus

-----------------------------------------------------------------------------
(***************************************************************************)
(* Every action preserves IInv.                                            *)
(***************************************************************************)
\* The money and the payments are untouched: the balance, the credits and the
\* row locks stay right.
LEMMA MoneyFrame ==
    ASSUME IInv, UNCHANGED <<available, ledger, settlement>>
    PROVE  /\ BalanceWithinLimits'
           /\ CreditedExactlyWhenConverted'
BY DEF IInv, BalanceWithinLimits, CreditedExactlyWhenConverted, CreditsOf

\* No session starts to hold a row lock or to save a request.
LEMMA TaskFrame ==
    ASSUME IInv, UNCHANGED settlement, NEW s \in Sessions, NEW t,
           task' = [task EXCEPT ![s] = t], t.op \notin {"firstCredit", "approve", "reject", "markPaid"},
           \A r \in Refunds : refund[r] # NoRefund => refund'[r] # NoRefund
    PROVE  SavesExistingRefund' /\ FirstCreditLocks'
<1>1. TypeOK /\ SavesExistingRefund /\ FirstCreditLocks
  BY DEF IInv
<1>2. \A u \in Sessions : task'[u] = IF u = s THEN t ELSE task[u]
  BY <1>1 DEF TypeOK
<1>3. SavesExistingRefund'
  <2> SUFFICES ASSUME NEW u \in Sessions, InTask(u, {"approve", "reject", "markPaid"})'
               PROVE  refund'[task'[u].refund] # NoRefund
    BY DEF SavesExistingRefund
  <2>1. task'[u] = task[u] /\ task[u].op \in {"approve", "reject", "markPaid"}
    BY <1>2 DEF InTask
  <2>2. task[u].refund \in Refunds /\ refund[task[u].refund] # NoRefund
    BY <1>1, <2>1, TaskShape DEF SavesExistingRefund, InTask
  <2>3. QED
    BY <2>1, <2>2
<1>4. FirstCreditLocks'
  BY <1>1, <1>2 DEF FirstCreditLocks, InTask
<1>5. QED
  BY <1>3, <1>4

LEMMA ApplyPaymentIInv ==
    ASSUME IInv, NEW p \in Payments, ApplyPayment(p)
    PROVE  IInv'
<1>1. TypeOK'
  BY DEF IInv, TypeOK, ApplyPayment, SettlementStatus
<1>2. BalanceWithinLimits' /\ SavesExistingRefund'
  BY DEF IInv, ApplyPayment, BalanceWithinLimits, SavesExistingRefund, InTask
<1>3. FirstCreditLocks'
  BY DEF IInv, TypeOK, ApplyPayment, PaymentLocked, FirstCreditLocks, InTask
<1>4. CreditedExactlyWhenConverted'
  BY DEF IInv, TypeOK, ApplyPayment, CreditedExactlyWhenConverted, CreditsOf
<1>5. PaidRefundWasDebited'
  BY DEF IInv, ApplyPayment, PaidRefundWasDebited, HasStatus, Entries
<1>6. QED
  BY <1>1, <1>2, <1>3, <1>4, <1>5 DEF IInv

LEMMA UseCreditIInv ==
    ASSUME IInv, NEW p \in Payments, UseCredit(p)
    PROVE  IInv'
<1>1. /\ Owner[p] \in Companies
      /\ Applied[p] \in Nat
      /\ -Applied[p] \in Int
      /\ "CREDIT_USED" \in BalanceTransactionType
  BY BalanceConstants DEF BalanceTransactionType
<1>2. Post(Owner[p], -Applied[p], "CREDIT_USED", p)
  BY DEF UseCredit
<1>3. TypeOK'
  BY <1>1, <1>2, PostTypes DEF IInv, TypeOK, UseCredit
<1>4. BalanceWithinLimits'
  BY <1>1, <1>2, DebitWithinLimits DEF IInv, UseCredit
<1>5. SavesExistingRefund' /\ FirstCreditLocks'
  BY DEF IInv, UseCredit, SavesExistingRefund, FirstCreditLocks, InTask
<1>6. CreditedExactlyWhenConverted'
  BY <1>1, <1>2, DebitKeepsCredits DEF IInv, UseCredit
<1>7. PaidRefundWasDebited'
  BY <1>1, <1>2, PostKeepsPaidRefunds DEF IInv, UseCredit
<1>8. QED
  BY <1>3, <1>4, <1>5, <1>6, <1>7 DEF IInv

\* A conversion of a HELD payment, by a session that leaves its task or had none,
\* while no other session holds the payment's lock.
LEMMA ConvertIInv ==
    ASSUME IInv, NEW p \in Payments, NEW type \in CreditType,
           settlement[p] = "HELD", Convert(p, type), NEW s \in Sessions,
           \/ UNCHANGED task /\ ~PaymentLocked(p)
           \/ task[s].op = "firstCredit" /\ task[s].payment = p /\ Finish(s)
    PROVE  IInv'
<1> USE DEF IInv
<1>1. task' \in [Sessions -> Task]
  BY DEF TypeOK, Finish, Task, Idle
<1>2. TypeOK'
  BY <1>1, ConvertTypes DEF TypeOK
<1>3. BalanceWithinLimits'
  BY ConvertWithinLimits
<1>4. \A u \in Sessions :
         InTask(u, {"firstCredit", "approve", "reject", "markPaid"})' => task'[u] = task[u]
  BY DEF TypeOK, Finish, Idle, InTask
<1>5. SavesExistingRefund'
  <2> SUFFICES ASSUME NEW u \in Sessions, InTask(u, {"approve", "reject", "markPaid"})'
               PROVE  refund'[task'[u].refund] # NoRefund
    BY DEF SavesExistingRefund
  <2>1. task'[u] = task[u]
    BY <1>4 DEF InTask
  <2>2. QED
    BY <2>1 DEF SavesExistingRefund, InTask, Convert
<1>6. \A u \in Sessions : InTask(u, {"firstCredit"})' => task[u].payment # p
  <2> SUFFICES ASSUME NEW u \in Sessions, InTask(u, {"firstCredit"})', task[u].payment = p
               PROVE  FALSE
    OBVIOUS
  <2>1. InTask(u, {"firstCredit"})
    BY <1>4 DEF InTask
  <2>2. task[s].op = "firstCredit" /\ task[s].payment = p /\ Finish(s)
    BY <2>1 DEF PaymentLocked, InTask
  <2>3. u = s
    BY <2>1, <2>2 DEF FirstCreditLocks, InTask
  <2>4. task'[s].op = "idle"
    BY <2>2 DEF Finish, Idle, TypeOK
  <2>5. QED
    BY <2>3, <2>4 DEF InTask
<1>7. FirstCreditLocks'
  <2> SUFFICES ASSUME NEW u \in Sessions, InTask(u, {"firstCredit"})'
               PROVE  /\ settlement'[task'[u].payment] = "HELD"
                      /\ \A t \in Sessions :
                            InTask(t, {"firstCredit"})' /\ task'[t].payment = task'[u].payment
                            => u = t
    BY DEF FirstCreditLocks
  <2>1. task'[u] = task[u] /\ InTask(u, {"firstCredit"}) /\ task[u].payment # p
    BY <1>4, <1>6 DEF InTask
  <2>2. settlement'[task'[u].payment] = "HELD"
    BY <2>1, TaskShape DEF TypeOK, FirstCreditLocks, Convert, InTask
  <2>3. ASSUME NEW t \in Sessions, InTask(t, {"firstCredit"})', task'[t].payment = task'[u].payment
        PROVE  u = t
    <3>1. task'[t] = task[t] /\ InTask(t, {"firstCredit"})
      BY <1>4, <2>3 DEF InTask
    <3>2. QED
      BY <2>1, <2>3, <3>1 DEF FirstCreditLocks
  <2>4. QED
    BY <2>2, <2>3
<1>8. CreditedExactlyWhenConverted'
  BY ConvertAddsCredit
<1>9. PaidRefundWasDebited'
  <2>1. type \in BalanceTransactionType /\ Owner[p] \in Companies /\ EffectiveCredit(p) \in Int
    BY BalanceConstants, EffectiveCreditBounds DEF BalanceTransactionType
  <2>2. QED
    BY <2>1, PostKeepsPaidRefunds DEF Convert
<1>10. QED
  BY <1>2, <1>3, <1>5, <1>7, <1>8, <1>9

\* Steps that only change the task of a session, to one that needs no invariant.
LEMMA AwaitIInv ==
    ASSUME IInv, UNCHANGED <<available, rows, settlement, ledger, refund>>,
           NEW s \in Sessions, NEW t \in Task, task' = [task EXCEPT ![s] = t],
           t.op \notin {"firstCredit", "approve", "reject", "markPaid"}
    PROVE  IInv'
<1>1. TypeOK'
  BY DEF IInv, TypeOK
<1>2. SavesExistingRefund' /\ FirstCreditLocks'
  BY TaskFrame
<1>3. BalanceWithinLimits' /\ CreditedExactlyWhenConverted'
  BY MoneyFrame
<1>4. PaidRefundWasDebited'
  BY DEF IInv, PaidRefundWasDebited, HasStatus, Entries
<1>5. QED
  BY <1>1, <1>2, <1>3, <1>4 DEF IInv

LEMMA BeginFirstCreditIInv ==
    ASSUME IInv, NEW s \in Sessions, NEW p \in Payments, NEW type \in CreditType,
           BeginFirstCredit(s, p, type)
    PROVE  IInv'
<1> DEFINE t == [op |-> "firstCredit", payment |-> p, type |-> type]
<1>1. t \in Task /\ t.op = "firstCredit" /\ t.payment = p
  BY DEF Task
<1>2. \A u \in Sessions : task'[u] = IF u = s THEN t ELSE task[u]
  BY DEF IInv, TypeOK, BeginFirstCredit, Await
<1> HIDE DEF t
<1>3. TypeOK'
  <2>1. task' = [task EXCEPT ![s] = t]
    BY DEF BeginFirstCredit, Await, t
  <2>2. QED
    BY <1>1, <2>1 DEF IInv, TypeOK, BeginFirstCredit
<1>4. BalanceWithinLimits' /\ CreditedExactlyWhenConverted'
  BY MoneyFrame DEF BeginFirstCredit
<1>5. SavesExistingRefund'
  BY <1>1, <1>2 DEF IInv, BeginFirstCredit, SavesExistingRefund, InTask
<1>6. FirstCreditLocks'
  BY <1>1, <1>2 DEF IInv, BeginFirstCredit, PaymentLocked, FirstCreditLocks, InTask
<1>7. PaidRefundWasDebited'
  BY DEF IInv, BeginFirstCredit, PaidRefundWasDebited, HasStatus, Entries
<1>8. QED
  BY <1>3, <1>4, <1>5, <1>6, <1>7 DEF IInv

LEMMA ReadRefundIInv ==
    ASSUME IInv, NEW s \in Sessions, NEW r \in Refunds, NEW op \in {"approve", "reject", "markPaid"},
           NEW status, ReadRefund(s, r, op, status)
    PROVE  IInv'
<1> DEFINE t == [op |-> op, refund |-> r]
<1>1. t \in Task /\ t.op = op /\ t.refund = r
  BY DEF Task
<1>2. \A u \in Sessions : task'[u] = IF u = s THEN t ELSE task[u]
  BY DEF IInv, TypeOK, ReadRefund, Await
<1>3. task' = [task EXCEPT ![s] = t] /\ refund[r] # NoRefund
  BY DEF ReadRefund, Await, HasStatus
<1> HIDE DEF t
<1>4. TypeOK'
  BY <1>1, <1>3 DEF IInv, TypeOK, ReadRefund
<1>5. BalanceWithinLimits' /\ CreditedExactlyWhenConverted'
  BY MoneyFrame DEF ReadRefund
<1>6. SavesExistingRefund'
  BY <1>1, <1>2, <1>3 DEF IInv, ReadRefund, SavesExistingRefund, InTask
<1>7. FirstCreditLocks'
  BY <1>1, <1>2 DEF IInv, ReadRefund, FirstCreditLocks, InTask
<1>8. PaidRefundWasDebited'
  BY DEF IInv, ReadRefund, PaidRefundWasDebited, HasStatus, Entries
<1>9. QED
  BY <1>4, <1>5, <1>6, <1>7, <1>8 DEF IInv

LEMMA InsertRefundIInv ==
    ASSUME IInv, NEW s \in Sessions, NEW r \in Refunds, InsertRefund(s, r)
    PROVE  IInv'
<1> DEFINE new == [company |-> task[s].company, amount |-> task[s].amount, status |-> "PENDING"]
<1>1. new \in RefundRequest
  BY TaskShape DEF IInv, InsertRefund, RefundRequest, RefundRequestStatus
<1>2. refund' = [refund EXCEPT ![r] = new] /\ new # NoRefund /\ new.status = "PENDING"
  BY <1>1, NoRefundConstant DEF InsertRefund
<1> HIDE DEF new
<1>3. task' = [task EXCEPT ![s] = Idle] /\ Idle \in Task /\ Idle.op = "idle"
  BY DEF InsertRefund, Finish, Task, Idle
<1>4. TypeOK'
  BY <1>1, <1>2, <1>3 DEF IInv, TypeOK, InsertRefund
<1>5. BalanceWithinLimits' /\ CreditedExactlyWhenConverted'
  BY MoneyFrame DEF InsertRefund
<1>6. \A q \in Refunds : refund'[q] = IF q = r THEN new ELSE refund[q]
  BY <1>2 DEF IInv, TypeOK
<1>7. SavesExistingRefund' /\ FirstCreditLocks'
  BY <1>2, <1>3, <1>6, TaskFrame DEF InsertRefund
<1>8. PaidRefundWasDebited'
  BY <1>2, <1>6 DEF IInv, InsertRefund, PaidRefundWasDebited, HasStatus, Entries
<1>9. QED
  BY <1>4, <1>5, <1>7, <1>8 DEF IInv

\* Saving a request with another status leaves a request of the same company
\* and amount, and the other requests as they are.
LEMMA SaveStatus ==
    ASSUME TypeOK, NEW r \in Refunds, refund[r] # NoRefund, NEW status \in RefundRequestStatus,
           refund' = [refund EXCEPT ![r].status = status]
    PROVE  /\ refund' \in [Refunds -> RefundRequest \cup {NoRefund}]
           /\ refund'[r] # NoRefund /\ refund'[r].status = status
           /\ \A q \in Refunds : q # r => refund'[q] = refund[q]
<1> DEFINE new == [refund[r] EXCEPT !.status = status]
<1>1. refund[r] \in RefundRequest
  BY DEF TypeOK
<1>2. new \in RefundRequest /\ new # NoRefund /\ new.status = status
  BY <1>1, NoRefundConstant DEF RefundRequest
<1>3. refund' = [refund EXCEPT ![r] = new]
  OBVIOUS
<1> HIDE DEF new
<1>4. QED
  BY <1>2, <1>3 DEF TypeOK

\* The admin's decision, a save that moves no money.
LEMMA DecisionIInv ==
    ASSUME IInv, NEW s \in Sessions, InTask(s, {"approve", "reject"}),
           NEW status \in {"APPROVED", "REJECTED"},
           refund' = [refund EXCEPT ![task[s].refund].status = status], Finish(s),
           UNCHANGED <<available, rows, settlement, ledger>>
    PROVE  IInv'
<1>1. /\ task[s].refund \in Refunds
      /\ refund[task[s].refund] # NoRefund
      /\ status \in RefundRequestStatus
  BY TaskShape DEF IInv, SavesExistingRefund, InTask, RefundRequestStatus
<1>2. /\ refund' \in [Refunds -> RefundRequest \cup {NoRefund}]
      /\ refund'[task[s].refund] # NoRefund /\ refund'[task[s].refund].status = status
      /\ \A q \in Refunds : q # task[s].refund => refund'[q] = refund[q]
  BY <1>1, SaveStatus DEF IInv
<1>3. task' = [task EXCEPT ![s] = Idle] /\ Idle \in Task /\ Idle.op = "idle"
  BY DEF Finish, Task, Idle
<1>4. TypeOK'
  BY <1>2, <1>3 DEF IInv, TypeOK
<1>5. BalanceWithinLimits' /\ CreditedExactlyWhenConverted'
  BY MoneyFrame
<1>6. SavesExistingRefund' /\ FirstCreditLocks'
  BY <1>2, <1>3, TaskFrame
<1>7. PaidRefundWasDebited'
  BY <1>2 DEF IInv, PaidRefundWasDebited, HasStatus, Entries
<1>8. QED
  BY <1>4, <1>5, <1>6, <1>7 DEF IInv

LEMMA MarkRefundPaidIInv ==
    ASSUME IInv, NEW s \in Sessions, MarkRefundPaid(s)
    PROVE  IInv'
<1>1. PICK r \in Refunds : r = task[s].refund /\ refund[r] # NoRefund
  BY TaskShape DEF IInv, SavesExistingRefund, InTask, MarkRefundPaid
<1>2. PICK c \in Companies, a \in Amounts : c = refund[r].company /\ a = refund[r].amount
  <2>1. refund[r] \in RefundRequest
    BY <1>1 DEF IInv, TypeOK
  <2>2. QED
    BY <2>1 DEF RefundRequest
<1>3. a \in Nat /\ -a \in Int
  BY BalanceConstants
<1>4. task' = [task EXCEPT ![s] = Idle] /\ Idle \in Task /\ Idle.op = "idle"
  BY DEF MarkRefundPaid, Finish, Task, Idle
<1>5. CASE UNCHANGED <<available, ledger, refund>>
  <2>1. UNCHANGED <<rows, settlement>>
    BY DEF MarkRefundPaid
  <2>2. QED
    BY <1>4, <1>5, <2>1, AwaitIInv
<1>6. CASE /\ available[c] >= a
           /\ Post(c, -a, "REFUND_PROCESSED", r)
           /\ refund' = [refund EXCEPT ![r].status = "PAID"]
  <2>1. UNCHANGED <<rows, settlement>>
    BY DEF MarkRefundPaid
  <2>2. "REFUND_PROCESSED" \in BalanceTransactionType /\ "PAID" \in RefundRequestStatus
    BY DEF BalanceTransactionType, RefundRequestStatus
  <2>3. /\ refund' \in [Refunds -> RefundRequest \cup {NoRefund}]
        /\ refund'[r] # NoRefund
        /\ \A q \in Refunds : q # r => refund'[q] = refund[q]
    BY <1>1, <1>6, <2>2, SaveStatus DEF IInv
  <2>4. TypeOK'
    BY <1>3, <1>4, <1>6, <2>1, <2>2, <2>3, PostTypes DEF IInv, TypeOK
  <2>5. BalanceWithinLimits'
    BY <1>3, <1>6, DebitWithinLimits DEF IInv
  <2>6. CreditedExactlyWhenConverted'
    BY <1>3, <1>6, <2>1, DebitKeepsCredits DEF IInv
  <2>7. SavesExistingRefund' /\ FirstCreditLocks'
    BY <1>4, <2>1, <2>3, TaskFrame
  <2>8. PaidRefundWasDebited'
    <3>1. /\ DOMAIN ledger' = DOMAIN ledger \cup {Len(ledger) + 1}
          /\ \A i \in DOMAIN ledger : ledger'[i] = ledger[i]
          /\ ledger'[Len(ledger) + 1].type = "REFUND_PROCESSED"
          /\ ledger'[Len(ledger) + 1].ref = r
      BY <1>3, <1>6, <2>2, PostLine DEF IInv
    <3>2. Entries("REFUND_PROCESSED", r)' # {}
      BY <3>1 DEF Entries
    <3>3. \A q \in Refunds : Entries("REFUND_PROCESSED", q) \subseteq Entries("REFUND_PROCESSED", q)'
      BY <3>1 DEF Entries
    <3>4. ASSUME NEW q \in Refunds, HasStatus(q, "PAID")'
          PROVE  Entries("REFUND_PROCESSED", q)' # {}
      <4>1. CASE q = r
        BY <3>2, <4>1
      <4>2. CASE q # r
        <5>1. HasStatus(q, "PAID")
          BY <2>3, <3>4, <4>2 DEF HasStatus
        <5>2. QED
          BY <3>3, <5>1 DEF IInv, PaidRefundWasDebited
      <4>3. QED
        BY <4>1, <4>2
    <3>5. QED
      BY <3>4 DEF PaidRefundWasDebited
  <2>9. QED
    BY <2>4, <2>5, <2>6, <2>7, <2>8 DEF IInv
<1>7. QED
  BY <1>1, <1>2, <1>5, <1>6 DEF MarkRefundPaid

LEMMA NextIInv == IInv /\ [Next]_vars => IInv'
<1> SUFFICES ASSUME IInv, [Next]_vars PROVE IInv'
  OBVIOUS
<1>1. ASSUME NEW s \in Sessions, NEW p \in Payments, NEW type \in CreditType,
             CreditFromPayment(s, p, type)
      PROVE  IInv'
  BY <1>1, ConvertIInv DEF CreditFromPayment
<1>2. ASSUME NEW s \in Sessions, CommitFirstCredit(s)
      PROVE  IInv'
  <2>1. /\ task[s].op = "firstCredit"
        /\ task[s].payment \in Payments
        /\ task[s].type \in CreditType
        /\ settlement[task[s].payment] = "HELD"
    BY <1>2, TaskShape DEF IInv, CommitFirstCredit, FirstCreditLocks, InTask
  <2>2. QED
    BY <1>2, <2>1, ConvertIInv DEF CommitFirstCredit
<1>3. ASSUME NEW s \in Sessions, AbortFirstCredit(s)
      PROVE  IInv'
  <2>1. Idle \in Task /\ Idle.op = "idle"
    BY DEF Task, Idle
  <2>2. QED
    BY <1>3, <2>1, AwaitIInv DEF AbortFirstCredit, Finish
<1>4. ASSUME NEW s \in Sessions, NEW c \in Companies, NEW amount \in Amounts,
             RequestRefund(s, c, amount)
      PROVE  IInv'
  <2> DEFINE t == [op |-> "countPending", company |-> c, amount |-> amount]
  <2>1. t \in Task /\ t.op = "countPending"
    BY DEF Task
  <2>2. task' = [task EXCEPT ![s] = t]
    BY <1>4 DEF RequestRefund, Await
  <2> HIDE DEF t
  <2>3. QED
    BY <1>4, <2>1, <2>2, AwaitIInv DEF RequestRefund
<1>5. ASSUME NEW s \in Sessions, CountPending(s)
      PROVE  IInv'
  <2> DEFINE t == IF Pending(task[s].company) = {} THEN [task[s] EXCEPT !.op = "insert"] ELSE Idle
  <2>1. t \in Task /\ t.op \in {"insert", "idle"}
    <3>1. CASE Pending(task[s].company) = {}
      <4>1. /\ task[s] = [op |-> "countPending", company |-> task[s].company,
                          amount |-> task[s].amount]
            /\ task[s].company \in Companies /\ task[s].amount \in Amounts
        BY <1>5, TaskShape DEF IInv, CountPending
      <4>2. t = [op |-> "insert", company |-> task[s].company, amount |-> task[s].amount]
        BY <3>1, <4>1
      <4>3. QED
        BY <4>1, <4>2 DEF Task
    <3>2. CASE Pending(task[s].company) # {}
      BY <3>2 DEF Task, Idle
    <3>3. QED
      BY <3>1, <3>2
  <2>2. task' = [task EXCEPT ![s] = t]
    BY <1>5 DEF CountPending
  <2> HIDE DEF t
  <2>3. QED
    BY <1>5, <2>1, <2>2, AwaitIInv DEF CountPending
<1>6. ASSUME NEW s \in Sessions, ApproveRefund(s)
      PROVE  IInv'
  BY <1>6, DecisionIInv DEF ApproveRefund, InTask
<1>7. ASSUME NEW s \in Sessions, RejectRefund(s)
      PROVE  IInv'
  BY <1>7, DecisionIInv DEF RejectRefund, InTask
<1>8. ASSUME NEW s \in Sessions, NEW r \in Refunds,
             BeginApproveRefund(s, r) \/ BeginRejectRefund(s, r) \/ BeginMarkRefundPaid(s, r)
      PROVE  IInv'
  BY <1>8, ReadRefundIInv DEF BeginApproveRefund, BeginRejectRefund, BeginMarkRefundPaid
<1>9. CASE UNCHANGED vars
  BY <1>9 DEF vars, IInv, TypeOK, BalanceWithinLimits, SavesExistingRefund, FirstCreditLocks,
              CreditedExactlyWhenConverted, CreditsOf, PaidRefundWasDebited, HasStatus, Entries,
              InTask
<1>10. QED
  BY <1>1, <1>2, <1>3, <1>4, <1>5, <1>6, <1>7, <1>8, <1>9, ApplyPaymentIInv, UseCreditIInv,
     BeginFirstCreditIInv, InsertRefundIInv, MarkRefundPaidIInv DEF Next

-----------------------------------------------------------------------------
(***************************************************************************)
(* The theorems.                                                           *)
(***************************************************************************)
\* The inductive invariant holds in every reachable state.
THEOREM Invariance == Spec => []IInv
BY InitIInv, NextIInv, PTL DEF Spec

\* Every variable keeps its type: no handler, however it overlaps with others,
\* leaves a request or a payment with a status of its own.
THEOREM TypeCorrect == Spec => []TypeOK
BY Invariance, PTL DEF IInv

\* The balance of a company never goes below zero and never above maxCreditCents,
\* for any number of concurrent credits, debits and refunds
\* (company-balance.service.ts: creditFromPayment, useCredit, markRefundPaid).
THEOREM NeverOverdrawn == Spec => []BalanceWithinLimits
BY Invariance, PTL DEF IInv

\* A payment is converted to credit exactly once, whichever of the rejection, the
\* expiration cron and the race for the first balance row gets there
\* (creditFromPayment).
THEOREM CreditedOnce == Spec => []CreditedExactlyWhenConverted
BY Invariance, PTL DEF IInv

\* A refund request that reads PAID was debited (markRefundPaid).
THEOREM PaidMeansDebited == Spec => []PaidRefundWasDebited
BY Invariance, PTL DEF IInv

-----------------------------------------------------------------------------
(***************************************************************************)
(* The ledger and the balance.  LedgerSum is recursive: f runs over the    *)
(* ledger when it satisfies that recursion.  There is such a function, and *)
(* each ends at the balance: both are kept by every step, a new line       *)
(* adding one value to the functions that ran over the old lines.          *)
(***************************************************************************)
RunsOver(f, c) ==
    f = [n \in 0..Len(ledger) |-> IF n = 0 THEN 0 ELSE f[n - 1] + Line(c, n)]

EndsAtBalance(c) ==
    /\ \E f \in [0..Len(ledger) -> Int] : RunsOver(f, c)
    /\ \A f : RunsOver(f, c) => f[Len(ledger)] = available[c]

LEMMA SumOfRuns ==
    ASSUME NEW c \in Companies, EndsAtBalance(c)
    PROVE  available[c] = LedgerSum(c)
<1> DEFINE after == CHOOSE f : f = [n \in 0..Len(ledger) |->
                                       IF n = 0 THEN 0 ELSE f[n - 1] + Line(c, n)]
<1>1. RunsOver(after, c)
  <2>1. PICK f : RunsOver(f, c)
    BY DEF EndsAtBalance
  <2>2. QED
    BY <2>1, Zenon DEF RunsOver
<1>2. LedgerSum(c) = after[Len(ledger)]
  BY DEF LedgerSum
<1> HIDE DEF after
<1>3. QED
  BY <1>1, <1>2 DEF EndsAtBalance

\* One more line, of d cents for the company.
LEMMA RunsOn ==
    ASSUME TypeOK, NEW c \in Companies, EndsAtBalance(c), NEW d \in Int,
           NEW m \in Nat, m = Len(ledger), Len(ledger') = m + 1,
           \A n \in 1..m : Line(c, n)' = Line(c, n),
           Line(c, m + 1)' = d,
           available'[c] = available[c] + d
    PROVE  EndsAtBalance(c)'
<1>1. available[c] \in Int
  BY DEF TypeOK
<1>2. \E f \in [0..Len(ledger)' -> Int] : RunsOver(f, c)'
  <2>1. PICK f \in [0..m -> Int] : RunsOver(f, c)
    BY DEF EndsAtBalance
  <2> DEFINE g == [n \in 0..(m + 1) |-> IF n = m + 1 THEN f[m] + d ELSE f[n]]
  <2>2. g \in [0..(m + 1) -> Int]
    BY <1>1
  <2>3. ASSUME NEW n \in 0..(m + 1)
        PROVE  g[n] = IF n = 0 THEN 0 ELSE g[n - 1] + Line(c, n)'
    <3>1. CASE n = 0
      BY <1>1, <2>1, <3>1 DEF RunsOver
    <3>2. CASE n \in 1..m
      <4>1. f[n] = f[n - 1] + Line(c, n)
        BY <1>1, <2>1, <3>2 DEF RunsOver
      <4>2. g[n] = f[n] /\ g[n - 1] = f[n - 1] /\ n # 0
        BY <1>1, <3>2
      <4>3. Line(c, n)' = Line(c, n)
        BY <3>2
      <4> HIDE DEF g
      <4>4. QED
        BY <4>1, <4>2, <4>3
    <3>3. CASE n = m + 1
      <4>1. g[n] = f[m] + d /\ g[n - 1] = f[m] /\ n # 0
        BY <1>1, <3>3
      <4>2. Line(c, n)' = d
        BY <3>3
      <4> HIDE DEF g
      <4>3. QED
        BY <4>1, <4>2
    <3>4. QED
      BY <1>1, <3>1, <3>2, <3>3
  <2>4. g = [n \in 0..(m + 1) |-> g[n]]
    OBVIOUS
  <2> HIDE DEF g
  <2>5. g = [n \in 0..(m + 1) |-> IF n = 0 THEN 0 ELSE g[n - 1] + Line(c, n)']
    BY <2>3, <2>4
  <2>6. QED
    BY <2>2, <2>5 DEF RunsOver
<1>3. ASSUME NEW f, RunsOver(f, c)'
      PROVE  f[Len(ledger)'] = available'[c]
  <2>1. f = [n \in 0..(m + 1) |-> IF n = 0 THEN 0 ELSE f[n - 1] + Line(c, n)']
    BY <1>3 DEF RunsOver
  <2> DEFINE g == [n \in 0..m |-> f[n]]
  <2>2. ASSUME NEW n \in 0..m
        PROVE  g[n] = IF n = 0 THEN 0 ELSE g[n - 1] + Line(c, n)
    <3>1. f[n] = IF n = 0 THEN 0 ELSE f[n - 1] + Line(c, n)'
      BY <1>1, <2>1
    <3>2. g[n] = f[n] /\ (n # 0 => g[n - 1] = f[n - 1] /\ Line(c, n)' = Line(c, n))
      BY <1>1
    <3> HIDE DEF g
    <3>3. QED
      BY <3>1, <3>2
  <2>3. g = [n \in 0..m |-> g[n]]
    OBVIOUS
  <2>4. g[m] = f[m]
    BY <1>1
  <2> HIDE DEF g
  <2>5. RunsOver(g, c)
    BY <2>2, <2>3 DEF RunsOver
  <2>6. f[m] = available[c]
    BY <2>4, <2>5 DEF EndsAtBalance
  <2>7. f[m + 1] = f[m] + d
    BY <1>1, <2>1
  <2>8. QED
    BY <2>6, <2>7
<1>4. QED
  BY <1>2, <1>3 DEF EndsAtBalance

\* A handler that moves a balance posts the line that says so.
LEMMA PostEndsAtBalance ==
    ASSUME TypeOK, \A c \in Companies : EndsAtBalance(c),
           NEW e \in Companies, NEW a \in Int, NEW type \in BalanceTransactionType,
           NEW ref \in Payments \cup Refunds, Post(e, a, type, ref)
    PROVE  \A c \in Companies : EndsAtBalance(c)'
<1> SUFFICES ASSUME NEW c \in Companies PROVE EndsAtBalance(c)'
  OBVIOUS
<1> DEFINE line == [company |-> e, amount |-> a, type |-> type, ref |-> ref]
           d == IF e = c THEN a ELSE 0
<1>1. ledger \in Seq(Transaction) /\ line \in Transaction
  BY DEF TypeOK, Transaction
<1>2. ledger' = Append(ledger, line)
  BY DEF Post
<1>3. PICK m \in Nat :
         /\ m = Len(ledger) /\ Len(ledger') = m + 1
         /\ \A n \in 1..m : ledger'[n] = ledger[n]
         /\ ledger'[m + 1] = line
  BY <1>1, <1>2
<1>4. Line(c, m + 1)' = d
  BY <1>3 DEF Line
<1>5. \A n \in 1..m : Line(c, n)' = Line(c, n)
  BY <1>3 DEF Line
<1>6. available'[c] = available[c] + d /\ d \in Int
  BY DEF Post, TypeOK
<1>7. QED
  BY <1>3, <1>4, <1>5, <1>6, RunsOn

LEMMA InitEndsAtBalance == Init => \A c \in Companies : EndsAtBalance(c)
<1> SUFFICES ASSUME Init, NEW c \in Companies PROVE EndsAtBalance(c)
  OBVIOUS
<1>1. Len(ledger) = 0 /\ available[c] = 0
  BY DEF Init
<1> DEFINE z == [n \in 0..0 |-> 0]
<1>2. z = [n \in 0..0 |-> IF n = 0 THEN 0 ELSE z[n - 1] + Line(c, n)]
  OBVIOUS
<1>3. RunsOver(z, c) /\ z \in [0..Len(ledger) -> Int]
  BY <1>1, <1>2 DEF RunsOver
<1>4. \A f : RunsOver(f, c) => f[0] = 0
  BY <1>1 DEF RunsOver
<1>5. QED
  BY <1>1, <1>3, <1>4 DEF EndsAtBalance

LEMMA NextEndsAtBalance ==
    ASSUME IInv, \A c \in Companies : EndsAtBalance(c), [Next]_vars
    PROVE  \A c \in Companies : EndsAtBalance(c)'
<1>1. TypeOK /\ BalanceWithinLimits
  BY DEF IInv
<1>2. CASE UNCHANGED <<available, ledger>>
  <2>1. ASSUME NEW c \in Companies
        PROVE  EndsAtBalance(c)'
    <3>1. EndsAtBalance(c)
      OBVIOUS
    <3>2. ledger' = ledger /\ available' = available
      BY <1>2
    <3>3. QED
      BY <3>1, <3>2 DEF EndsAtBalance, RunsOver, Line
  <2>2. QED
    BY <2>1
<1>3. ASSUME NEW p \in Payments, NEW type \in CreditType, Convert(p, type)
      PROVE  \A c \in Companies : EndsAtBalance(c)'
  <2>1. Owner[p] \in Companies /\ EffectiveCredit(p) \in Int /\ type \in BalanceTransactionType
    BY <1>1, BalanceConstants, EffectiveCreditBounds DEF BalanceTransactionType
  <2>2. QED
    BY <1>1, <1>3, <2>1, PostEndsAtBalance DEF Convert
<1>4. ASSUME NEW p \in Payments, UseCredit(p)
      PROVE  \A c \in Companies : EndsAtBalance(c)'
  <2>1. Owner[p] \in Companies /\ -Applied[p] \in Int /\ "CREDIT_USED" \in BalanceTransactionType
    BY BalanceConstants DEF BalanceTransactionType
  <2>2. QED
    BY <1>1, <1>4, <2>1, PostEndsAtBalance DEF UseCredit
<1>5. ASSUME NEW s \in Sessions, MarkRefundPaid(s)
      PROVE  \A c \in Companies : EndsAtBalance(c)'
  <2>1. PICK r \in Refunds : r = task[s].refund /\ refund[r] \in RefundRequest
    BY <1>5, TaskShape DEF IInv, TypeOK, SavesExistingRefund, InTask, MarkRefundPaid
  <2>2. /\ refund[r].company \in Companies /\ -refund[r].amount \in Int
        /\ "REFUND_PROCESSED" \in BalanceTransactionType
    <3>1. refund[r].company \in Companies /\ refund[r].amount \in Amounts
      BY <2>1 DEF RefundRequest
    <3>2. refund[r].amount \in Nat
      BY <3>1, BalanceConstants
    <3>3. QED
      BY <3>1, <3>2 DEF BalanceTransactionType
  <2>3. CASE Post(refund[r].company, -refund[r].amount, "REFUND_PROCESSED", r)
    BY <1>1, <2>2, <2>3, PostEndsAtBalance
  <2>4. QED
    BY <1>2, <1>5, <2>1, <2>3 DEF MarkRefundPaid
<1>6. ASSUME NEW s \in Sessions, CommitFirstCredit(s)
      PROVE  \A c \in Companies : EndsAtBalance(c)'
  BY <1>1, <1>3, <1>6, TaskShape DEF CommitFirstCredit
<1>7. QED
  BY <1>2, <1>3, <1>4, <1>5, <1>6
  DEF Next, vars, ApplyPayment, CreditFromPayment, BeginFirstCredit, AbortFirstCredit,
      RequestRefund, CountPending, InsertRefund, ReadRefund, BeginApproveRefund,
      BeginRejectRefund, BeginMarkRefundPaid, ApproveRefund, RejectRefund

\* The balance of a company is what its ledger adds up to, however many lines the
\* ledger has: no update is lost and no line is missing (company-balance.service.ts).
THEOREM LedgerAddsUp == Spec => []LedgerExplainsBalance
<1>1. Init => \A c \in Companies : EndsAtBalance(c)
  BY InitEndsAtBalance
<1>2. IInv /\ (\A c \in Companies : EndsAtBalance(c)) /\ [Next]_vars
      => (\A c \in Companies : EndsAtBalance(c))'
  BY NextEndsAtBalance
<1>3. (\A c \in Companies : EndsAtBalance(c)) => LedgerExplainsBalance
  BY SumOfRuns DEF LedgerExplainsBalance
<1>4. QED
  BY <1>1, <1>2, <1>3, Invariance, PTL DEF Spec
-----------------------------------------------------------------------------
(***************************************************************************)
(* The wallet.  A line of the ledger is the return of a payment, its use,  *)
(* or money paid back; every other step leaves the balances, the           *)
(* conversions and the debits as they are.                                 *)
(***************************************************************************)
Returned == {p \in Payments : settlement[p] = "CONVERTED_TO_CREDIT"}
Spent == {p \in Payments : CreditAlreadyDebited(p)}

WalletStep == Promise!Next \/ UNCHANGED <<available, Returned, Spent>>

LEMMA WalletStutters ==
    ASSUME UNCHANGED <<available, settlement, ledger>>
    PROVE  WalletStep
BY DEF WalletStep, Returned, Spent, CreditAlreadyDebited

\* The debits that a new line adds.
LEMMA PostSpends ==
    ASSUME TypeOK, NEW c \in Companies, NEW a \in Int, NEW type \in BalanceTransactionType,
           NEW ref \in Payments \cup Refunds, Post(c, a, type, ref)
    PROVE  \A p \in Payments :
              CreditAlreadyDebited(p)' <=>
                 \/ CreditAlreadyDebited(p)
                 \/ type = "CREDIT_USED" /\ ref = p
<1> DEFINE m == Len(ledger) + 1
<1>1. /\ DOMAIN ledger' = DOMAIN ledger \cup {m}
      /\ \A i \in DOMAIN ledger : ledger'[i] = ledger[i]
      /\ ledger'[m].type = type /\ ledger'[m].ref = ref
  BY PostLine
<1> HIDE DEF m
<1>2. QED
  BY <1>1 DEF CreditAlreadyDebited

LEMMA ConvertReturns ==
    ASSUME TypeOK, BalanceWithinLimits, NEW p \in Payments, NEW type \in CreditType,
           settlement[p] = "HELD", Convert(p, type)
    PROVE  WalletStep
<1>1. /\ Owner[p] \in Companies /\ Total[p] \in Nat
      /\ EffectiveCredit(p) \in Int /\ type \in BalanceTransactionType /\ type # "CREDIT_USED"
  BY BalanceConstants, EffectiveCreditBounds DEF BalanceTransactionType, CreditType
<1>2. Post(Owner[p], EffectiveCredit(p), type, p)
  BY DEF Convert
<1>3. Spent' = Spent
  BY <1>1, <1>2, PostSpends DEF Spent
<1>4. p \notin Returned /\ Returned' = Returned \cup {p}
  BY DEF Returned, Convert, TypeOK
<1>5. EffectiveCredit(p) \in 0..Total[p]
  BY <1>1, BalanceConstants DEF EffectiveCredit, TypeOK
<1>6. Promise!Move(Owner[p], EffectiveCredit(p))
  BY <1>2, EffectiveCreditBounds DEF Promise!Move, Post
<1>7. Promise!Return(p)
  BY <1>3, <1>4, <1>5, <1>6 DEF Promise!Return, Returned, Spent
<1>8. QED
  BY <1>7 DEF WalletStep, Promise!Next

LEMMA UseCreditSpends ==
    ASSUME TypeOK, BalanceWithinLimits, NEW p \in Payments, UseCredit(p)
    PROVE  WalletStep
<1>1. /\ Owner[p] \in Companies /\ Applied[p] \in Nat /\ -Applied[p] \in Int
      /\ "CREDIT_USED" \in BalanceTransactionType
  BY BalanceConstants DEF BalanceTransactionType
<1>2. /\ Post(Owner[p], -Applied[p], "CREDIT_USED", p) /\ settlement' = settlement
      /\ Applied[p] > 0 /\ ~CreditAlreadyDebited(p) /\ available[Owner[p]] >= Applied[p]
  BY DEF UseCredit
<1>3. p \notin Spent /\ Spent' = Spent \cup {p}
  BY <1>1, <1>2, PostSpends DEF Spent
<1>4. Returned' = Returned
  BY <1>2 DEF Returned
<1>5. available[Owner[p]] + -Applied[p] \in 0..MaxCredit
  BY <1>1, <1>2, BalanceConstants DEF BalanceWithinLimits
<1>6. Promise!Move(Owner[p], -Applied[p])
  BY <1>2, <1>5 DEF Promise!Move, Post
<1>7. Applied[p] \in 1..Applied[p]
  BY <1>1, <1>2
<1>8. Promise!Spend(p)
  BY <1>3, <1>4, <1>6, <1>7 DEF Promise!Spend, Returned, Spent
<1>9. QED
  BY <1>8 DEF WalletStep, Promise!Next

LEMMA MarkRefundPaidPaysBack ==
    ASSUME IInv, NEW s \in Sessions, MarkRefundPaid(s)
    PROVE  WalletStep
<1>1. PICK r \in Refunds, c \in Companies, a \in Amounts :
         r = task[s].refund /\ c = refund[r].company /\ a = refund[r].amount
  <2>1. task[s].refund \in Refunds /\ refund[task[s].refund] \in RefundRequest
    BY TaskShape DEF IInv, TypeOK, SavesExistingRefund, InTask, MarkRefundPaid
  <2>2. QED
    BY <2>1 DEF RefundRequest
<1>2. a \in Nat /\ a > 0 /\ -a \in Int /\ "REFUND_PROCESSED" \in BalanceTransactionType
  BY BalanceConstants DEF BalanceTransactionType
<1>3. settlement' = settlement
  BY DEF MarkRefundPaid
<1>4. CASE UNCHANGED <<available, ledger>>
  BY <1>3, <1>4, WalletStutters
<1>5. CASE available[c] >= a /\ Post(c, -a, "REFUND_PROCESSED", r)
  <2>1. Returned' = Returned /\ Spent' = Spent
    BY <1>2, <1>3, <1>5, PostSpends DEF IInv, Returned, Spent
  <2>2. available[c] \in 0..MaxCredit
    BY DEF IInv, BalanceWithinLimits
  <2>3. available[c] + -a \in 0..MaxCredit /\ a \in 1..available[c]
    BY <1>2, <1>5, <2>2, BalanceConstants
  <2>4. Promise!Move(c, -a)
    BY <1>5, <2>3 DEF Promise!Move, Post
  <2>5. Promise!PayBack(c)
    BY <2>1, <2>3, <2>4 DEF Promise!PayBack, Returned, Spent
  <2>6. QED
    BY <2>5 DEF WalletStep, Promise!Next
<1>6. QED
  BY <1>1, <1>4, <1>5 DEF MarkRefundPaid

LEMMA ApplyPaymentReturnsNothing ==
    ASSUME TypeOK, NEW p \in Payments, ApplyPayment(p)
    PROVE  WalletStep
BY DEF ApplyPayment, TypeOK, WalletStep, Returned, Spent, CreditAlreadyDebited

LEMMA NextIsWalletStep ==
    ASSUME IInv, [Next]_vars
    PROVE  WalletStep
<1>1. TypeOK /\ BalanceWithinLimits
  BY DEF IInv
<1>2. CASE UNCHANGED <<available, settlement, ledger>>
  BY <1>2, WalletStutters
<1>3. ASSUME NEW p \in Payments, ApplyPayment(p) \/ UseCredit(p)
      PROVE  WalletStep
  BY <1>1, <1>3, ApplyPaymentReturnsNothing, UseCreditSpends
<1>4. ASSUME NEW s \in Sessions, NEW p \in Payments, NEW type \in CreditType,
             CreditFromPayment(s, p, type)
      PROVE  WalletStep
  BY <1>1, <1>4, ConvertReturns DEF CreditFromPayment
<1>5. ASSUME NEW s \in Sessions, CommitFirstCredit(s)
      PROVE  WalletStep
  <2>1. /\ task[s].payment \in Payments /\ task[s].type \in CreditType
        /\ settlement[task[s].payment] = "HELD"
    BY <1>5, TaskShape DEF IInv, CommitFirstCredit, FirstCreditLocks, InTask
  <2>2. QED
    BY <1>1, <1>5, <2>1, ConvertReturns DEF CommitFirstCredit
<1>6. ASSUME NEW s \in Sessions, MarkRefundPaid(s)
      PROVE  WalletStep
  BY <1>6, MarkRefundPaidPaysBack
<1>7. QED
  BY <1>2, <1>3, <1>4, <1>5, <1>6
  DEF Next, vars, BeginFirstCredit, AbortFirstCredit, RequestRefund, CountPending, InsertRefund,
      ReadRefund, BeginApproveRefund, BeginRejectRefund, BeginMarkRefundPaid, ApproveRefund,
      RejectRefund

LEMMA InitIsWalletInit == Init => Promise!Init
BY DEF Init, Promise!Init, CreditAlreadyDebited

\* Every handler keeps what the balance promises: module Wallet, for any number
\* of companies, payments, requests and sessions, and any cap
\* (company-balance.service.ts).
THEOREM BalanceImplementsWallet == Spec => WalletKept
<1>1. IInv /\ [Next]_vars => [Promise!Next]_(Promise!vars)
  BY NextIsWalletStep DEF WalletStep, Returned, Spent, Promise!vars
<1>2. QED
  BY <1>1, InitIsWalletInit, Invariance, PTL DEF Spec, WalletKept, Promise!Spec
-----------------------------------------------------------------------------
(***************************************************************************)
(* What is lost only when handlers of one kind overlap (module             *)
(* CompanyBalanceHistory).  A save writes what its handler decided on      *)
(* before; as long as the saves of a request, or the requests of a         *)
(* company, never crossed, what was read is still so.                      *)
(***************************************************************************)
Debited(r) == Entries("REFUND_PROCESSED", r) # {}

\* The saves, and the requests, that overlap now have crossed; nothing uncrosses.
SavesRecorded == \A r \in Refunds \ crossedSaves : ~SavedTwice(r)
RequestsRecorded == \A c \in Companies \ crossedRequests : ~AskedTwice(c)

\* A debited request reads PAID and nobody is about to save it.
DebitedIsPaid ==
    \A r \in Refunds \ crossedSaves :
       Debited(r) => HasStatus(r, "PAID") /\ \A s \in Sessions : ~Saves(s, r)

\* It is debited once.
RefundDebitedOnce ==
    \A r \in Refunds \ crossedSaves : \A i, j \in Entries("REFUND_PROCESSED", r) : i = j

\* Who is about to insert a request found none pending, and there is none still.
InsertsTheOnlyOne ==
    \A s \in Sessions, c \in Companies \ crossedRequests :
       task[s].op = "insert" /\ task[s].company = c => Pending(c) = {}

LEMMA DebitStands ==
    ASSUME DebitedIsPaid, RefundDebitedOnce, crossedSaves \subseteq crossedSaves',
           \A r \in Refunds : Entries("REFUND_PROCESSED", r)' = Entries("REFUND_PROCESSED", r),
           \A r \in Refunds \ crossedSaves : Debited(r) =>
              refund'[r] = refund[r] /\ \A s \in Sessions : ~Saves(s, r)'
    PROVE  DebitedIsPaid' /\ RefundDebitedOnce'
BY DEF DebitedIsPaid, RefundDebitedOnce, Debited, HasStatus

\* A line of another type is no debit of a request.
LEMMA PostKeepsDebits ==
    ASSUME TypeOK, NEW c \in Companies, NEW a \in Int, NEW type \in BalanceTransactionType,
           NEW ref \in Payments \cup Refunds, Post(c, a, type, ref), type # "REFUND_PROCESSED"
    PROVE  \A r \in Refunds : Entries("REFUND_PROCESSED", r)' = Entries("REFUND_PROCESSED", r)
<1> DEFINE m == Len(ledger) + 1
<1>1. /\ DOMAIN ledger' = DOMAIN ledger \cup {m} /\ m \notin DOMAIN ledger
      /\ \A i \in DOMAIN ledger : ledger'[i] = ledger[i]
      /\ ledger'[m].type = type
  BY PostLine
<1> HIDE DEF m
<1>2. QED
  BY <1>1 DEF Entries

\* Nobody starts to save a request.
LEMMA NoNewSave ==
    ASSUME TypeOK, NEW s \in Sessions, NEW t, task' = [task EXCEPT ![s] = t],
           t.op \notin {"approve", "reject", "markPaid"}
    PROVE  \A u \in Sessions, r \in Refunds : Saves(u, r)' => Saves(u, r) /\ u # s
BY DEF TypeOK, Saves

LEMMA MarkRefundPaidDebitsOnce ==
    ASSUME IInv, SavesRecorded, DebitedIsPaid, RefundDebitedOnce,
           crossedSaves \subseteq crossedSaves',
           NEW s \in Sessions, MarkRefundPaid(s)
    PROVE  DebitedIsPaid' /\ RefundDebitedOnce'
<1>1. PICK r \in Refunds, c \in Companies, a \in Amounts :
         /\ r = task[s].refund /\ c = refund[r].company /\ a = refund[r].amount
         /\ refund[r] # NoRefund
  <2>1. /\ task[s].refund \in Refunds /\ refund[task[s].refund] \in RefundRequest
        /\ refund[task[s].refund] # NoRefund
    BY TaskShape DEF IInv, TypeOK, SavesExistingRefund, InTask, MarkRefundPaid
  <2>2. QED
    BY <2>1 DEF RefundRequest
<1>2. Saves(s, r) /\ (r \in crossedSaves \/ ~Debited(r))
  BY <1>1 DEF Saves, DebitedIsPaid, MarkRefundPaid
<1>3. \A u \in Sessions, q \in Refunds : Saves(u, q)' => Saves(u, q) /\ u # s
  BY NoNewSave DEF IInv, MarkRefundPaid, Finish, Idle
<1>4. CASE UNCHANGED <<available, ledger, refund>>
  <2>1. \A q \in Refunds : Entries("REFUND_PROCESSED", q)' = Entries("REFUND_PROCESSED", q)
    BY <1>4 DEF Entries
  <2>2. QED
    BY <1>3, <1>4, <2>1, DebitStands DEF DebitedIsPaid
<1>5. CASE /\ Post(c, -a, "REFUND_PROCESSED", r)
           /\ refund' = [refund EXCEPT ![r].status = "PAID"]
  <2>1. -a \in Int /\ "REFUND_PROCESSED" \in BalanceTransactionType /\ "PAID" \in RefundRequestStatus
    BY BalanceConstants DEF BalanceTransactionType, RefundRequestStatus
  <2>2. /\ refund'[r] # NoRefund /\ refund'[r].status = "PAID"
        /\ \A q \in Refunds : q # r => refund'[q] = refund[q]
    BY <1>1, <1>5, <2>1, SaveStatus DEF IInv
  <2> DEFINE m == Len(ledger) + 1
  <2>3. /\ DOMAIN ledger' = DOMAIN ledger \cup {m}
        /\ \A i \in DOMAIN ledger : ledger'[i] = ledger[i]
        /\ ledger'[m].type = "REFUND_PROCESSED" /\ ledger'[m].ref = r
    BY <1>5, <2>1, PostLine DEF IInv
  <2> HIDE DEF m
  <2>4. r \in crossedSaves \/ Entries("REFUND_PROCESSED", r)' = {m}
    BY <1>2, <2>3 DEF Entries, Debited
  <2>5. \A q \in Refunds : q # r =>
           Entries("REFUND_PROCESSED", q)' = Entries("REFUND_PROCESSED", q)
    BY <2>3 DEF Entries
  <2>6. r \in crossedSaves \/ \A u \in Sessions : ~Saves(u, r)'
    BY <1>2, <1>3 DEF SavesRecorded, SavedTwice
  <2>7. DebitedIsPaid'
    <3> SUFFICES ASSUME NEW q \in Refunds, q \notin crossedSaves, Debited(q)'
                 PROVE  HasStatus(q, "PAID")' /\ \A u \in Sessions : ~Saves(u, q)'
      BY DEF DebitedIsPaid
    <3>1. CASE q = r
      BY <2>2, <2>6, <3>1 DEF HasStatus
    <3>2. CASE q # r
      <4>1. Debited(q)
        BY <2>5, <3>2 DEF Debited
      <4>2. QED
        BY <1>3, <2>2, <3>2, <4>1 DEF DebitedIsPaid, HasStatus
    <3>3. QED
      BY <3>1, <3>2
  <2>8. RefundDebitedOnce'
    BY <2>4, <2>5 DEF RefundDebitedOnce
  <2>9. QED
    BY <2>7, <2>8
<1>6. QED
  BY <1>1, <1>4, <1>5 DEF MarkRefundPaid

LEMMA NextDebitsOnce ==
    ASSUME IInv, SavesRecorded, DebitedIsPaid, RefundDebitedOnce,
           crossedSaves \subseteq crossedSaves', [Next]_vars
    PROVE  DebitedIsPaid' /\ RefundDebitedOnce'
<1>1. TypeOK /\ BalanceWithinLimits
  BY DEF IInv
<1>2. ASSUME UNCHANGED <<ledger, refund, task>>
      PROVE  DebitedIsPaid' /\ RefundDebitedOnce'
  BY <1>2 DEF DebitedIsPaid, RefundDebitedOnce, Debited, Entries, HasStatus, Saves
\* A session goes on to t, saving no request.
<1>3. ASSUME NEW s \in Sessions, NEW t, task' = [task EXCEPT ![s] = t],
             t.op \notin {"approve", "reject", "markPaid"}, UNCHANGED refund,
             \A r \in Refunds :
                Entries("REFUND_PROCESSED", r)' = Entries("REFUND_PROCESSED", r)
      PROVE  DebitedIsPaid' /\ RefundDebitedOnce'
  <2>1. \A u \in Sessions, r \in Refunds : Saves(u, r)' => Saves(u, r)
    BY <1>1, <1>3, NoNewSave
  <2>2. QED
    BY <1>3, <2>1, DebitStands DEF DebitedIsPaid
<1>4. ASSUME UNCHANGED ledger
      PROVE  \A r \in Refunds : Entries("REFUND_PROCESSED", r)' = Entries("REFUND_PROCESSED", r)
  BY <1>4 DEF Entries
<1>5. ASSUME NEW p \in Payments, NEW type \in CreditType, Convert(p, type)
      PROVE  \A r \in Refunds : Entries("REFUND_PROCESSED", r)' = Entries("REFUND_PROCESSED", r)
  <2>1. /\ Owner[p] \in Companies /\ EffectiveCredit(p) \in Int
        /\ type \in BalanceTransactionType /\ type # "REFUND_PROCESSED"
    BY <1>1, BalanceConstants, EffectiveCreditBounds DEF BalanceTransactionType, CreditType
  <2>2. QED
    BY <1>1, <1>5, <2>1, PostKeepsDebits DEF Convert
<1>6. ASSUME NEW s \in Sessions, NEW p \in Payments, NEW type \in CreditType,
             CreditFromPayment(s, p, type)
      PROVE  DebitedIsPaid' /\ RefundDebitedOnce'
  <2>1. refund' = refund /\ task' = task
    BY <1>6 DEF CreditFromPayment, Convert
  <2>2. \A r \in Refunds : Entries("REFUND_PROCESSED", r)' = Entries("REFUND_PROCESSED", r)
    BY <1>5, <1>6 DEF CreditFromPayment
  <2>3. QED
    BY <2>1, <2>2, DebitStands DEF DebitedIsPaid, Saves
<1>7. ASSUME NEW s \in Sessions, CommitFirstCredit(s)
      PROVE  DebitedIsPaid' /\ RefundDebitedOnce'
  <2>1. task[s].payment \in Payments /\ task[s].type \in CreditType
    BY <1>1, <1>7, TaskShape DEF CommitFirstCredit
  <2>2. task' = [task EXCEPT ![s] = Idle] /\ Idle.op = "idle" /\ refund' = refund
    BY <1>7 DEF CommitFirstCredit, Convert, Finish, Idle
  <2>3. QED
    BY <1>3, <1>5, <1>7, <2>1, <2>2 DEF CommitFirstCredit
<1>8. ASSUME NEW p \in Payments, UseCredit(p)
      PROVE  DebitedIsPaid' /\ RefundDebitedOnce'
  <2>1. /\ Owner[p] \in Companies /\ -Applied[p] \in Int
        /\ "CREDIT_USED" \in BalanceTransactionType /\ refund' = refund /\ task' = task
    BY <1>8, BalanceConstants DEF BalanceTransactionType, UseCredit
  <2>2. \A r \in Refunds : Entries("REFUND_PROCESSED", r)' = Entries("REFUND_PROCESSED", r)
    BY <1>1, <1>8, <2>1, PostKeepsDebits DEF UseCredit
  <2>3. QED
    BY <2>1, <2>2, DebitStands DEF DebitedIsPaid, Saves
<1>9. ASSUME NEW p \in Payments, ApplyPayment(p)
      PROVE  DebitedIsPaid' /\ RefundDebitedOnce'
  BY <1>2, <1>9 DEF ApplyPayment
<1>10. ASSUME NEW s \in Sessions, NEW p \in Payments, NEW type \in CreditType,
              BeginFirstCredit(s, p, type)
       PROVE  DebitedIsPaid' /\ RefundDebitedOnce'
  BY <1>3, <1>4, <1>10 DEF BeginFirstCredit, Await
<1>11. ASSUME NEW s \in Sessions, AbortFirstCredit(s)
       PROVE  DebitedIsPaid' /\ RefundDebitedOnce'
  BY <1>3, <1>4, <1>11 DEF AbortFirstCredit, Finish, Idle
<1>12. ASSUME NEW s \in Sessions, NEW c \in Companies, NEW amount \in Amounts,
              RequestRefund(s, c, amount)
       PROVE  DebitedIsPaid' /\ RefundDebitedOnce'
  BY <1>3, <1>4, <1>12 DEF RequestRefund, Await
<1>13. ASSUME NEW s \in Sessions, CountPending(s)
       PROVE  DebitedIsPaid' /\ RefundDebitedOnce'
  <2> DEFINE t == IF Pending(task[s].company) = {} THEN [task[s] EXCEPT !.op = "insert"] ELSE Idle
  <2>1. t.op \in {"insert", "idle"} /\ task' = [task EXCEPT ![s] = t]
    <3>1. /\ task[s] = [op |-> task[s].op, company |-> task[s].company, amount |-> task[s].amount]
          /\ task[s].op = "countPending"
      BY <1>1, <1>13, TaskShape DEF CountPending
    <3>2. [task[s] EXCEPT !.op = "insert"].op = "insert"
      BY <3>1
    <3>3. QED
      BY <1>13, <3>2 DEF CountPending, Idle
  <2> HIDE DEF t
  <2>2. QED
    BY <1>3, <1>4, <1>13, <2>1 DEF CountPending
<1>14. ASSUME NEW s \in Sessions, NEW r \in Refunds, InsertRefund(s, r)
       PROVE  DebitedIsPaid' /\ RefundDebitedOnce'
  <2>1. /\ task' = [task EXCEPT ![s] = Idle] /\ Idle.op = "idle" /\ ledger' = ledger
        /\ (r \in crossedSaves \/ ~Debited(r))
    BY <1>14 DEF InsertRefund, Finish, Idle, DebitedIsPaid, HasStatus
  <2>2. \A u \in Sessions, q \in Refunds : Saves(u, q)' => Saves(u, q)
    BY <1>1, <2>1, NoNewSave
  <2>3. \A q \in Refunds : q # r => refund'[q] = refund[q]
    BY <1>1, <1>14 DEF TypeOK, InsertRefund
  <2>4. QED
    BY <1>4, <2>1, <2>2, <2>3, DebitStands DEF DebitedIsPaid
<1>15. ASSUME NEW s \in Sessions, NEW r \in Refunds,
              NEW op \in {"approve", "reject", "markPaid"}, NEW status \in {"PENDING", "APPROVED"},
              ReadRefund(s, r, op, status)
       PROVE  DebitedIsPaid' /\ RefundDebitedOnce'
  <2>1. ledger' = ledger /\ refund' = refund /\ (r \in crossedSaves \/ ~Debited(r))
    BY <1>15 DEF ReadRefund, HasStatus, DebitedIsPaid
  <2>2. \A u \in Sessions, q \in Refunds : Saves(u, q)' => Saves(u, q) \/ q = r
    BY <1>1, <1>15 DEF ReadRefund, Await, TypeOK, Saves
  <2>3. QED
    BY <1>4, <2>1, <2>2, DebitStands DEF DebitedIsPaid
<1>16. ASSUME NEW s \in Sessions, ApproveRefund(s) \/ RejectRefund(s)
       PROVE  DebitedIsPaid' /\ RefundDebitedOnce'
  <2>1. /\ task' = [task EXCEPT ![s] = Idle] /\ Idle.op = "idle" /\ ledger' = ledger
        /\ task[s].refund \in Refunds /\ Saves(s, task[s].refund)
    BY <1>1, <1>16, TaskShape DEF ApproveRefund, RejectRefund, Finish, Idle, Saves
  <2>2. task[s].refund \in crossedSaves \/ ~Debited(task[s].refund)
    BY <2>1 DEF DebitedIsPaid
  <2>3. \A u \in Sessions, q \in Refunds : Saves(u, q)' => Saves(u, q)
    BY <1>1, <2>1, NoNewSave
  <2>4. \A q \in Refunds : q # task[s].refund => refund'[q] = refund[q]
    BY <1>1, <1>16, <2>1 DEF TypeOK, ApproveRefund, RejectRefund
  <2>5. QED
    BY <1>4, <2>1, <2>2, <2>3, <2>4, DebitStands DEF DebitedIsPaid
<1>17. ASSUME NEW s \in Sessions, NEW r \in Refunds,
              BeginApproveRefund(s, r) \/ BeginRejectRefund(s, r) \/ BeginMarkRefundPaid(s, r)
       PROVE  DebitedIsPaid' /\ RefundDebitedOnce'
  BY <1>15, <1>17 DEF BeginApproveRefund, BeginRejectRefund, BeginMarkRefundPaid
<1>18. QED
  BY <1>2, <1>6, <1>7, <1>8, <1>9, <1>10, <1>11, <1>12, <1>13, <1>14, <1>16, <1>17,
     MarkRefundPaidDebitsOnce DEF Next, vars


\* No request of a company becomes pending.
LEMMA FewerPending ==
    ASSUME InsertsTheOnlyOne, OnePendingUnlessCrossed, crossedRequests \subseteq crossedRequests',
           \A c \in Companies : Pending(c)' \subseteq Pending(c),
           \A s \in Sessions, c \in Companies :
              task'[s].op = "insert" /\ task'[s].company = c =>
                 (task[s].op = "insert" /\ task[s].company = c) \/ Pending(c) = {}
    PROVE  InsertsTheOnlyOne' /\ OnePendingUnlessCrossed'
<1>1. ASSUME NEW s \in Sessions, NEW c \in Companies \ crossedRequests,
             task'[s].op = "insert", task'[s].company = c
      PROVE  Pending(c)' = {}
  <2>1. Pending(c) = {}
    BY <1>1 DEF InsertsTheOnlyOne
  <2>2. QED
    BY <2>1
<1>2. InsertsTheOnlyOne'
  BY <1>1 DEF InsertsTheOnlyOne
<1>3. OnePendingUnlessCrossed'
  BY DEF OnePendingUnlessCrossed
<1>4. QED
  BY <1>2, <1>3

\* A session goes on to t, inserting no request.
LEMMA NoNewInsert ==
    ASSUME TypeOK, NEW s \in Sessions, NEW t, task' = [task EXCEPT ![s] = t], t.op # "insert"
    PROVE  \A u \in Sessions : task'[u].op = "insert" => task'[u] = task[u]
BY DEF TypeOK

LEMMA InsertRefundIsTheOnlyOne ==
    ASSUME TypeOK, RequestsRecorded, InsertsTheOnlyOne, OnePendingUnlessCrossed,
           crossedRequests \subseteq crossedRequests',
           NEW s \in Sessions, NEW r \in Refunds, InsertRefund(s, r)
    PROVE  InsertsTheOnlyOne' /\ OnePendingUnlessCrossed'
<1>1. PICK c \in Companies, a \in Amounts :
         /\ c = task[s].company /\ a = task[s].amount /\ Asks(s, c)
         /\ c \in crossedRequests \/ Pending(c) = {}
  BY TaskShape DEF InsertRefund, Asks, InsertsTheOnlyOne
<1> DEFINE new == [company |-> c, amount |-> a, status |-> "PENDING"]
<1>2. \A q \in Refunds : refund'[q] = IF q = r THEN new ELSE refund[q]
  BY <1>1 DEF TypeOK, InsertRefund
<1>3. new.company = c
  OBVIOUS
<1> HIDE DEF new
<1>4. c \in crossedRequests \/ Pending(c)' \subseteq {r}
  BY <1>1, <1>2 DEF Pending
<1>5. \A d \in Companies : d # c => Pending(d)' \subseteq Pending(d)
  BY <1>2, <1>3 DEF Pending
<1>6. \A u \in Sessions : task'[u].op = "insert" => task'[u] = task[u] /\ u # s
  BY DEF TypeOK, InsertRefund, Finish, Idle
<1>7. ASSUME NEW u \in Sessions, NEW d \in Companies \ crossedRequests,
             task'[u].op = "insert", task'[u].company = d
      PROVE  Pending(d)' = {}
  <2>1. task[u].op = "insert" /\ task[u].company = d /\ u # s
    BY <1>6, <1>7
  <2>2. d # c
    BY <1>1, <2>1 DEF RequestsRecorded, AskedTwice, Asks
  <2>3. Pending(d) = {}
    BY <2>1 DEF InsertsTheOnlyOne
  <2>4. QED
    BY <1>5, <2>2, <2>3
<1>8. InsertsTheOnlyOne'
  BY <1>7 DEF InsertsTheOnlyOne
<1>9. OnePendingUnlessCrossed'
  <2> SUFFICES ASSUME NEW d \in Companies \ crossedRequests
               PROVE  \A r1, r2 \in Pending(d)' : r1 = r2
    BY DEF OnePendingUnlessCrossed
  <2>1. CASE d = c
    BY <1>4, <2>1
  <2>2. CASE d # c
    BY <1>5, <2>2 DEF OnePendingUnlessCrossed
  <2>3. QED
    BY <2>1, <2>2
<1>10. QED
  BY <1>8, <1>9

LEMMA NextAsksOnce ==
    ASSUME IInv, RequestsRecorded, InsertsTheOnlyOne, OnePendingUnlessCrossed,
           crossedRequests \subseteq crossedRequests', [Next]_vars
    PROVE  InsertsTheOnlyOne' /\ OnePendingUnlessCrossed'
<1>1. TypeOK
  BY DEF IInv
\* A session goes on to t, inserting no request.
<1>2. ASSUME NEW s \in Sessions, NEW t, task' = [task EXCEPT ![s] = t], t.op # "insert",
             \A c \in Companies : Pending(c)' \subseteq Pending(c)
      PROVE  InsertsTheOnlyOne' /\ OnePendingUnlessCrossed'
  BY <1>1, <1>2, NoNewInsert, FewerPending
<1>3. ASSUME UNCHANGED refund
      PROVE  \A c \in Companies : Pending(c)' \subseteq Pending(c)
  BY <1>3 DEF Pending
<1>4. CASE UNCHANGED <<refund, task>>
  BY <1>3, <1>4, FewerPending
<1>5. ASSUME NEW s \in Sessions, Finish(s), UNCHANGED refund
      PROVE  InsertsTheOnlyOne' /\ OnePendingUnlessCrossed'
  <2>1. task' = [task EXCEPT ![s] = Idle] /\ Idle.op # "insert"
    BY <1>5 DEF Finish, Idle
  <2>2. \A c \in Companies : Pending(c)' \subseteq Pending(c)
    BY <1>3, <1>5
  <2>3. QED
    BY <1>2, <2>1, <2>2
<1>6. ASSUME NEW s \in Sessions, NEW t, Await(s, t), t.op # "insert", UNCHANGED refund
      PROVE  InsertsTheOnlyOne' /\ OnePendingUnlessCrossed'
  BY <1>2, <1>3, <1>6 DEF Await
<1>7. ASSUME NEW s \in Sessions, CountPending(s)
      PROVE  InsertsTheOnlyOne' /\ OnePendingUnlessCrossed'
  <2> DEFINE c == task[s].company
             t == [op |-> "insert", company |-> c, amount |-> task[s].amount]
  <2>1. /\ task[s] = [op |-> "countPending", company |-> c, amount |-> task[s].amount]
        /\ c \in Companies /\ refund' = refund
    BY <1>1, <1>7, TaskShape DEF CountPending
  <2>2. CASE Pending(c) # {}
    <3>1. Finish(s)
      BY <1>7, <2>2 DEF CountPending, Finish
    <3>2. QED
      BY <1>5, <2>1, <3>1
  <2>3. CASE Pending(c) = {}
    <3>1. [task[s] EXCEPT !.op = "insert"] = t
      BY <2>1
    <3>2. task' = [task EXCEPT ![s] = t]
      BY <1>7, <2>3, <3>1 DEF CountPending
    <3>3. t.company = c
      OBVIOUS
    <3> HIDE DEF t
    <3>4. \A u \in Sessions : task'[u] = IF u = s THEN t ELSE task[u]
      BY <1>1, <3>2 DEF TypeOK
    <3>5. QED
      BY <1>3, <2>1, <2>3, <3>3, <3>4, FewerPending
  <2>4. QED
    BY <2>2, <2>3
<1>8. ASSUME NEW s \in Sessions, NEW status \in {"APPROVED", "REJECTED", "PAID"},
             task[s].op \in {"approve", "reject", "markPaid"},
             refund' = [refund EXCEPT ![task[s].refund].status = status], Finish(s)
      PROVE  InsertsTheOnlyOne' /\ OnePendingUnlessCrossed'
  <2>1. /\ task[s].refund \in Refunds /\ refund[task[s].refund] # NoRefund
        /\ status \in RefundRequestStatus
    BY <1>8, TaskShape DEF IInv, SavesExistingRefund, InTask, RefundRequestStatus
  <2>2. /\ refund'[task[s].refund].status = status
        /\ \A q \in Refunds : q # task[s].refund => refund'[q] = refund[q]
    BY <1>1, <1>8, <2>1, SaveStatus
  <2>3. \A c \in Companies : Pending(c)' \subseteq Pending(c)
    BY <1>8, <2>2 DEF Pending
  <2>4. task' = [task EXCEPT ![s] = Idle] /\ Idle.op # "insert"
    BY <1>8 DEF Finish, Idle
  <2>5. QED
    BY <1>2, <2>3, <2>4
<1>9. ASSUME NEW s \in Sessions, MarkRefundPaid(s)
      PROVE  InsertsTheOnlyOne' /\ OnePendingUnlessCrossed'
  <2>1. Finish(s) /\ task[s].op = "markPaid"
    BY <1>9 DEF MarkRefundPaid
  <2>2. CASE refund' = [refund EXCEPT ![task[s].refund].status = "PAID"]
    BY <1>8, <2>1, <2>2
  <2>3. CASE UNCHANGED refund
    BY <1>5, <2>1, <2>3
  <2>4. QED
    BY <1>9, <2>2, <2>3 DEF MarkRefundPaid
<1>10. ASSUME NEW s \in Sessions, ApproveRefund(s) \/ RejectRefund(s)
       PROVE  InsertsTheOnlyOne' /\ OnePendingUnlessCrossed'
  BY <1>8, <1>10 DEF ApproveRefund, RejectRefund
<1>11. ASSUME NEW s \in Sessions, NEW r \in Refunds, InsertRefund(s, r)
       PROVE  InsertsTheOnlyOne' /\ OnePendingUnlessCrossed'
  BY <1>1, <1>11, InsertRefundIsTheOnlyOne
<1>12. ASSUME NEW s \in Sessions, AbortFirstCredit(s) \/ CommitFirstCredit(s)
       PROVE  InsertsTheOnlyOne' /\ OnePendingUnlessCrossed'
  BY <1>5, <1>12 DEF AbortFirstCredit, CommitFirstCredit, Convert
<1>13. ASSUME NEW s \in Sessions,
              \/ \E p \in Payments, type \in CreditType : BeginFirstCredit(s, p, type)
              \/ \E c \in Companies, amount \in Amounts : RequestRefund(s, c, amount)
              \/ \E r \in Refunds : \/ BeginApproveRefund(s, r)
                                    \/ BeginRejectRefund(s, r)
                                    \/ BeginMarkRefundPaid(s, r)
       PROVE  InsertsTheOnlyOne' /\ OnePendingUnlessCrossed'
  <2>1. PICK t : Await(s, t) /\ t.op # "insert" /\ UNCHANGED refund
    BY <1>13 DEF BeginFirstCredit, RequestRefund, BeginApproveRefund, BeginRejectRefund,
                 BeginMarkRefundPaid, ReadRefund
  <2>2. QED
    BY <1>6, <2>1
<1>14. QED
  BY <1>4, <1>7, <1>9, <1>10, <1>11, <1>12, <1>13
  DEF Next, vars, ApplyPayment, UseCredit, CreditFromPayment, Convert

-----------------------------------------------------------------------------
HistoryInv == SavesRecorded /\ RequestsRecorded /\ DebitedIsPaid /\ RefundDebitedOnce
              /\ InsertsTheOnlyOne /\ OnePendingUnlessCrossed

LEMMA NextIsRecorded ==
    ASSUME SavesRecorded, RequestsRecorded, [HistoryNext]_historyVars
    PROVE  /\ SavesRecorded' /\ RequestsRecorded'
           /\ crossedSaves \subseteq crossedSaves'
           /\ crossedRequests \subseteq crossedRequests'
           /\ [Next]_vars
<1>1. CASE HistoryNext
  BY <1>1 DEF HistoryNext, SavesRecorded, RequestsRecorded
<1>2. CASE UNCHANGED historyVars
  BY <1>2 DEF historyVars, vars, SavesRecorded, RequestsRecorded, SavedTwice, AskedTwice, Saves, Asks
<1>3. QED
  BY <1>1, <1>2

\* Remembering which handlers crossed changes nothing they do.
THEOREM HistoryIsSilent == HistorySpec => Spec
<1>1. HistoryInit => Init
  BY DEF HistoryInit
<1>2. [HistoryNext]_historyVars => [Next]_vars
  BY DEF HistoryNext, historyVars, vars
<1>3. QED
  BY <1>1, <1>2, PTL DEF HistorySpec, Spec

\* markRefundPaid debits a request once and leaves it PAID, and requestRefund
\* leaves a company one pending request, unless two handlers of that very request
\* or company were between the check and the write at one time: that window is
\* the only way to a second debit, a lost PAID or a second pending request.
THEOREM RefundsKept == HistorySpec => []RefundsKeptUnlessCrossed
<1>1. HistoryInit => HistoryInv
  BY DEF HistoryInit, HistoryInv, Init, SavesRecorded, RequestsRecorded, SavedTwice, AskedTwice,
         Saves, Asks, DebitedIsPaid, Debited, RefundDebitedOnce, Entries, InsertsTheOnlyOne,
         OnePendingUnlessCrossed, Pending, Idle
<1>2. IInv /\ HistoryInv /\ [HistoryNext]_historyVars => HistoryInv'
  <2> SUFFICES ASSUME IInv, HistoryInv, [HistoryNext]_historyVars PROVE HistoryInv'
    OBVIOUS
  <2>1. /\ SavesRecorded' /\ RequestsRecorded'
        /\ crossedSaves \subseteq crossedSaves'
        /\ crossedRequests \subseteq crossedRequests'
        /\ [Next]_vars
    BY NextIsRecorded DEF HistoryInv
  <2>2. DebitedIsPaid' /\ RefundDebitedOnce'
    BY <2>1, NextDebitsOnce DEF HistoryInv
  <2>3. InsertsTheOnlyOne' /\ OnePendingUnlessCrossed'
    BY <2>1, NextAsksOnce DEF HistoryInv
  <2>4. QED
    BY <2>1, <2>2, <2>3 DEF HistoryInv
<1>3. IInv /\ HistoryInv => RefundsKeptUnlessCrossed
  BY DEF IInv, HistoryInv, RefundsKeptUnlessCrossed, DebitedOnceUnlessCrossed, DebitedIsPaid,
         Debited, RefundDebitedOnce, PaidRefundWasDebited
<1>4. QED
  BY <1>1, <1>2, <1>3, HistoryIsSilent, Invariance, PTL DEF HistorySpec
=============================================================================
