--------------------------- MODULE PaymentsProofs ---------------------------
(***************************************************************************)
(* Theorems about module Payments, for any contracts, charges, events,     *)
(* sessions and amounts.                                                   *)
(*                                                                         *)
(* A handler acts on what it read before it awaited the gateway or the     *)
(* database.  What protects the money is that all it relies on only grows: *)
(* a payment is never removed and keeps the credit it was created with, an *)
(* approved charge stays approved or is refunded, a contract never goes    *)
(* back to PENDING_PAYMENT and a debit is never undone.                    *)
(***************************************************************************)
EXTENDS PaymentsHistory, TLAPS

-----------------------------------------------------------------------------
(***************************************************************************)
(* The inductive invariant.                                                *)
(***************************************************************************)
HasRow == {"intent", "card", "pix", "saveCharge", "loaded", "inTx"}
PaidAtGateway == {"paid", "refunded"}

\* The payment is there and its credit does not cover the total.
Chargeable(c) == payment[c] # NoPayment /\ payment[c].credit < Total[c]

\* A charge of the contract was approved, now or before a refund.
Collected(c) ==
    \E ch \in Charges : /\ charge[ch] # NoCharge /\ charge[ch].of = c
                        /\ charge[ch].status \in PaidAtGateway

\* What a handler read before an await and still relies on after it.
TaskOK(t) ==
    /\ t \in Task
    /\ t.op \in HasRow =>
          /\ Chargeable(t.of) /\ t.row.credit = payment[t.of].credit
          /\ t.row.status = "paid" =>
                t.op \in {"saveCharge", "loaded", "inTx"} /\ Collected(t.of)
    /\ t.op = "inTx" => t.row.status = "paid"
    /\ t.op = "fetched" =>
          /\ charge[t.charge] # NoCharge
          /\ t.status = "paid" => charge[t.charge].status \in PaidAtGateway
    /\ t.op \in {"create", "inTx"} =>
          (t.seen = "PENDING_PAYMENT" \/ contract[t.of].status # "PENDING_PAYMENT")

TasksHold == \A s \in Sessions : TaskOK(task[s])
ChargesHold == \A ch \in Charges : charge[ch] # NoCharge => Chargeable(charge[ch].of)
CreditOnlyIsPaid ==
    \A c \in Contracts : payment[c] # NoPayment /\ ~Chargeable(c) => payment[c].status = "paid"
InviteHasPayment ==
    \A c \in Contracts : contract[c].status = "PENDING_ACCEPTANCE" => payment[c] # NoPayment

IInv ==
    /\ TypeOK /\ TasksHold /\ ChargesHold /\ CreditOnlyIsPaid /\ InviteHasPayment
    /\ NoOverdraft /\ CreditDebitedOnce /\ NothingOwedUnfunded /\ PaidIsConfirmed

-----------------------------------------------------------------------------
(***************************************************************************)
(* Rows, charges and tasks.                                                *)
(***************************************************************************)
LEMMA RowIsPayment ==
    ASSUME NEW row \in Row
    PROVE  row # NoPayment
BY DEF Row, PaymentStatus, NoPayment

LEMMA PaymentIsRow ==
    ASSUME TypeOK, NEW c \in Contracts, payment[c] # NoPayment
    PROVE  payment[c] \in Row
BY DEF TypeOK

LEMMA RowFields ==
    ASSUME NEW row \in Row
    PROVE  /\ row.status \in PaymentStatus /\ row.credit \in Nat /\ row.intent \in BOOLEAN
           /\ row.ext \in Charges \cup {None} /\ row.pix \in Charges \cup {None}
           /\ row.settlement \in SettlementStatus
BY DEF Row

LEMMA ChargeIsThere ==
    ASSUME TypeOK, NEW ch \in Charges, charge[ch] # NoCharge
    PROVE  charge[ch] \in Charge /\ charge[ch].of \in Contracts
BY DEF TypeOK, Charge

LEMMA TaskFields ==
    ASSUME NEW t \in Task
    PROVE  /\ t.op = "create" => t.of \in Contracts /\ t.credit \in Nat /\ t.seen \in ContractStatus
           /\ t.op \in HasRow => t.of \in Contracts /\ t.row \in Row
           /\ t.op = "fetched" =>
                 t.event \in Events /\ t.charge \in Charges /\ t.status \in GatewayStatus
           /\ t.op \in {"loaded", "inTx"} =>
                 t.event \in Events /\ t.seen \in ContractStatus \cup {None}
BY DEF Task, Idle, HasRow

LEMMA TasksAre ==
    /\ Idle \in Task /\ Idle.op = "idle"
    /\ \A c \in Contracts, credit \in Nat, seen \in ContractStatus :
          [op |-> "create", of |-> c, seen |-> seen, credit |-> credit] \in Task
    /\ \A op \in {"intent", "card", "pix", "saveCharge"}, c \in Contracts, row \in Row :
          [op |-> op, of |-> c, row |-> row] \in Task
    /\ \A e \in Events, ch \in Charges, status \in GatewayStatus :
          [op |-> "fetched", event |-> e, charge |-> ch, status |-> status] \in Task
    /\ \A op \in {"loaded", "inTx"}, e \in Events, c \in Contracts, row \in Row,
          seen \in ContractStatus \cup {None} :
          [op |-> op, event |-> e, of |-> c, seen |-> seen, row |-> row] \in Task
BY DEF Task, Idle

LEMMA IdleIsOK == TaskOK(Idle) /\ TaskOK(Idle)'
BY TasksAre DEF TaskOK, HasRow, Idle

-----------------------------------------------------------------------------
(***************************************************************************)
(* What only grows, and what rests on it.                                  *)
(***************************************************************************)
Grows ==
    /\ \A c \in Contracts : payment[c] # NoPayment =>
          payment'[c] # NoPayment /\ payment'[c].credit = payment[c].credit
    /\ \A c \in Contracts :
          contract[c].status # "PENDING_PAYMENT" => contract'[c].status # "PENDING_PAYMENT"
    /\ \A c \in Contracts : debits[c] > 0 => debits'[c] > 0
    /\ \A ch \in Charges : charge[ch] # NoCharge =>
          /\ charge'[ch] # NoCharge /\ charge'[ch].of = charge[ch].of
          /\ charge[ch].status \in PaidAtGateway => charge'[ch].status \in PaidAtGateway

LEMMA CollectedStays ==
    ASSUME Grows, NEW c, Collected(c)
    PROVE  Collected(c)'
BY DEF Grows, Collected

LEMMA ChargeableStays ==
    ASSUME Grows, NEW c \in Contracts, Chargeable(c)
    PROVE  Chargeable(c)' /\ payment'[c].credit = payment[c].credit
BY DEF Grows, Chargeable

LEMMA FundedStays ==
    ASSUME Grows, NEW c \in Contracts, Funded(c)
    PROVE  Funded(c)'
BY DEF Grows, Funded, PaidAtGateway

LEMMA CollectedIsFunded ==
    ASSUME NEW c, Collected(c)
    PROVE  Funded(c)
BY DEF Collected, Funded, PaidAtGateway

LEMMA TaskStaysOK ==
    ASSUME Grows, NEW t, TaskOK(t)
    PROVE  TaskOK(t)'
<1>1. /\ t \in Task
      /\ t.op \in HasRow => t.of \in Contracts
      /\ t.op = "fetched" => t.charge \in Charges
      /\ t.op \in {"create", "inTx"} => t.of \in Contracts
  BY TaskFields DEF TaskOK, HasRow
<1>2. t.op \in HasRow =>
         /\ Chargeable(t.of)' /\ t.row.credit = payment'[t.of].credit
         /\ t.row.status = "paid" =>
               t.op \in {"saveCharge", "loaded", "inTx"} /\ Collected(t.of)'
  BY <1>1, ChargeableStays, CollectedStays DEF TaskOK
<1>3. t.op = "fetched" =>
         /\ charge'[t.charge] # NoCharge
         /\ t.status = "paid" => charge'[t.charge].status \in PaidAtGateway
  BY <1>1 DEF TaskOK, Grows
<1>4. t.op \in {"create", "inTx"} =>
         (t.seen = "PENDING_PAYMENT" \/ contract'[t.of].status # "PENDING_PAYMENT")
  BY <1>1 DEF TaskOK, Grows
<1>5. QED
  BY <1>1, <1>2, <1>3, <1>4 DEF TaskOK

\* No session does anything, or one goes on to t.
LEMMA TasksUnchanged ==
    ASSUME IInv, Grows, task' = task
    PROVE  TasksHold' /\ task' \in [Sessions -> Task]
<1>1. ASSUME NEW s \in Sessions
      PROVE  TaskOK(task[s])'
  <2>1. PICK t : t = task[s]
    OBVIOUS
  <2>2. TaskOK(t)
    BY <2>1 DEF IInv, TasksHold
  <2>3. TaskOK(t)'
    BY <2>2, TaskStaysOK
  <2>4. QED
    BY <2>1, <2>3 DEF TaskOK
<1>2. QED
  BY <1>1 DEF TasksHold, IInv, TypeOK

LEMMA TaskGoesOn ==
    ASSUME IInv, Grows, NEW s \in Sessions, NEW t, Await(s, t), TaskOK(t)'
    PROVE  TasksHold' /\ task' \in [Sessions -> Task]
<1>1. /\ task' = [task EXCEPT ![s] = t] /\ task \in [Sessions -> Task] /\ t \in Task
  BY DEF Await, IInv, TypeOK, TaskOK
<1>2. ASSUME NEW r \in Sessions
      PROVE  TaskOK(task[r])'
  <2>1. CASE r = s
    BY <1>1, <2>1 DEF TaskOK
  <2>2. CASE r # s
    <3>1. PICK u : u = task[r]
      OBVIOUS
    <3>2. TaskOK(u)
      BY <3>1 DEF IInv, TasksHold
    <3>3. TaskOK(u)' /\ task'[r] = u
      BY <1>1, <2>2, <3>1, <3>2, TaskStaysOK
    <3>4. QED
      BY <3>3 DEF TaskOK
  <2>3. QED
    BY <2>1, <2>2
<1>3. QED
  BY <1>1, <1>2 DEF TasksHold

-----------------------------------------------------------------------------
(***************************************************************************)
(* The kinds of steps.                                                     *)
(***************************************************************************)
\* A session only remembers something, or forgets it.
LEMMA TaskStep ==
    ASSUME IInv, NEW s \in Sessions, NEW t, Await(s, t), TaskOK(t),
           UNCHANGED <<contract, payment, charge, moneyVars, superseded>>,
           event' \in [Events -> ProcessingStatus]
    PROVE  IInv'
<1>1. /\ contract' = contract /\ payment' = payment /\ charge' = charge
      /\ balance' = balance /\ debits' = debits /\ payouts' = payouts
      /\ superseded' = superseded
  BY DEF moneyVars
<1>2. Grows
  BY <1>1 DEF Grows
<1>3. TaskOK(t)'
  BY <1>1 DEF TaskOK, Chargeable, Collected
<1>4. TasksHold' /\ task' \in [Sessions -> Task]
  BY <1>2, <1>3, TaskGoesOn
<1>5. TypeOK'
  BY <1>1, <1>4 DEF IInv, TypeOK
<1>6. ChargesHold' /\ CreditOnlyIsPaid' /\ InviteHasPayment'
  BY <1>1 DEF IInv, ChargesHold, CreditOnlyIsPaid, InviteHasPayment, Chargeable
<1>7. NoOverdraft' /\ CreditDebitedOnce' /\ PaidIsConfirmed'
  BY <1>1 DEF IInv, NoOverdraft, CreditDebitedOnce, PaidIsConfirmed
<1>8. NothingOwedUnfunded'
  BY <1>1 DEF IInv, NothingOwedUnfunded, Funded
<1>9. QED
  BY <1>4, <1>5, <1>6, <1>7, <1>8 DEF IInv

\* The gateway's charges change; no approved one is lost.
LEMMA ChargeStep ==
    ASSUME IInv, charge' \in [Charges -> Charge \cup {NoCharge}],
           \A ch \in Charges : charge[ch] # NoCharge =>
              /\ charge'[ch] # NoCharge /\ charge'[ch].of = charge[ch].of
              /\ charge[ch].status \in PaidAtGateway => charge'[ch].status \in PaidAtGateway,
           \A ch \in Charges :
              charge[ch] = NoCharge /\ charge'[ch] # NoCharge => Chargeable(charge'[ch].of),
           UNCHANGED <<contract, payment, event, moneyVars, superseded>>,
           \/ task' = task
           \/ \E s \in Sessions : \E t : Await(s, t) /\ TaskOK(t)'
    PROVE  IInv'
<1>1. /\ contract' = contract /\ payment' = payment /\ event' = event
      /\ balance' = balance /\ debits' = debits /\ payouts' = payouts
      /\ superseded' = superseded
  BY DEF moneyVars
<1>2. Grows
  BY <1>1 DEF Grows
<1>3. TasksHold' /\ task' \in [Sessions -> Task]
  BY <1>2, TaskGoesOn, TasksUnchanged
<1>4. TypeOK'
  BY <1>1, <1>3 DEF IInv, TypeOK
<1>5. ChargesHold'
  BY <1>1 DEF IInv, ChargesHold, Chargeable
<1>6. CreditOnlyIsPaid' /\ InviteHasPayment'
  BY <1>1 DEF IInv, CreditOnlyIsPaid, InviteHasPayment, Chargeable
<1>7. NoOverdraft' /\ CreditDebitedOnce' /\ PaidIsConfirmed'
  BY <1>1 DEF IInv, NoOverdraft, CreditDebitedOnce, PaidIsConfirmed
<1>8. NothingOwedUnfunded'
  BY <1>1, <1>2, FundedStays DEF IInv, NothingOwedUnfunded
<1>9. QED
  BY <1>3, <1>4, <1>5, <1>6, <1>7, <1>8 DEF IInv

LEMMA SaveTyped ==
    ASSUME TypeOK, NEW c \in Contracts, NEW row \in Row, Save(c, row)
    PROVE  /\ payment' \in [Contracts -> Row \cup {NoPayment}]
           /\ superseded' \subseteq Charges
           /\ payment'[c] = row /\ row # NoPayment
           /\ \A d \in Contracts : d # c => payment'[d] = payment[d]
<1>1. payment' = [payment EXCEPT ![c] = row] /\ payment \in [Contracts -> Row \cup {NoPayment}]
  BY DEF Save, TypeOK
<1>2. superseded' \subseteq Charges
  <2>1. payment[c] # NoPayment => payment[c].ext \in Charges \cup {None}
    BY PaymentIsRow, RowFields
  <2>2. QED
    BY <2>1 DEF Save, TypeOK
<1>3. QED
  BY <1>1, <1>2, RowIsPayment

\* A row of a charge is saved over the payment it was read from, or is its first.
MaySave(c, row) ==
    \/ payment[c] = NoPayment
    \/ Chargeable(c) /\ row.credit = payment[c].credit

LEMMA SaveGrows ==
    ASSUME TypeOK, NEW c \in Contracts, NEW row \in Row, Save(c, row), MaySave(c, row),
           charge' = charge,
           \A d \in Contracts :
              contract[d].status # "PENDING_PAYMENT" => contract'[d].status # "PENDING_PAYMENT",
           \A d \in Contracts : debits[d] > 0 => debits'[d] > 0
    PROVE  Grows
BY SaveTyped DEF Grows, MaySave

\* A row that does not say paid is saved.
LEMMA SaveStep ==
    ASSUME IInv, NEW c \in Contracts, NEW row \in Row, Save(c, row), MaySave(c, row),
           row.status # "paid", row.credit < Total[c],
           UNCHANGED <<contract, charge, moneyVars>>, event' \in [Events -> ProcessingStatus],
           NEW s \in Sessions, NEW t, Await(s, t), TaskOK(t)'
    PROVE  IInv'
<1>1. /\ contract' = contract /\ charge' = charge
      /\ balance' = balance /\ debits' = debits /\ payouts' = payouts
  BY DEF moneyVars
<1>2. Grows
  BY <1>1, SaveGrows DEF IInv
<1>3. TasksHold' /\ task' \in [Sessions -> Task]
  BY <1>2, TaskGoesOn
<1>4. /\ payment' \in [Contracts -> Row \cup {NoPayment}] /\ superseded' \subseteq Charges
      /\ payment'[c] = row /\ row # NoPayment
      /\ \A d \in Contracts : d # c => payment'[d] = payment[d]
  BY SaveTyped DEF IInv
<1>5. TypeOK'
  BY <1>1, <1>3, <1>4 DEF IInv, TypeOK
<1>6. Chargeable(c)'
  BY <1>4 DEF Chargeable
<1>7. ChargesHold'
  <2>1. \A ch \in Charges : charge[ch] # NoCharge => charge[ch].of \in Contracts
    BY ChargeIsThere DEF IInv
  <2>2. QED
    BY <1>1, <1>2, <2>1, ChargeableStays DEF IInv, ChargesHold
<1>8. CreditOnlyIsPaid' /\ InviteHasPayment'
  BY <1>1, <1>4, <1>6 DEF IInv, CreditOnlyIsPaid, InviteHasPayment, Chargeable
<1>9. NoOverdraft' /\ CreditDebitedOnce' /\ PaidIsConfirmed'
  BY <1>1, <1>4 DEF IInv, NoOverdraft, CreditDebitedOnce, PaidIsConfirmed
<1>10. NothingOwedUnfunded'
  BY <1>1, <1>2, FundedStays DEF IInv, NothingOwedUnfunded
<1>11. QED
  BY <1>3, <1>5, <1>7, <1>8, <1>9, <1>10 DEF IInv

\* What a transaction that confirms a payment does to the contract and the money.
LEMMA DebitTyped ==
    ASSUME TypeOK, NoOverdraft, CreditDebitedOnce,
           NEW c \in Contracts, NEW credit \in Nat, CreditCovered(c, credit), DebitCredit(c, credit)
    PROVE  /\ balance' \in Nat /\ debits' \in [Contracts -> Nat]
           /\ \A d \in Contracts : debits[d] > 0 => debits'[d] > 0
           /\ \A d \in Contracts : debits'[d] <= 1
           /\ credit > 0 => debits'[c] > 0
<1>1. balance \in Nat /\ debits \in [Contracts -> Nat] /\ \A d \in Contracts : debits[d] <= 1
  BY DEF TypeOK, NoOverdraft, CreditDebitedOnce
<1>2. CASE MustDebit(c, credit)
  <2>1. /\ balance' = balance - credit /\ debits' = [debits EXCEPT ![c] = @ + 1]
        /\ balance >= credit /\ debits[c] = 0
    BY <1>2 DEF MustDebit, CreditCovered, DebitCredit
  <2>2. debits'[c] = 1 /\ \A d \in Contracts : d # c => debits'[d] = debits[d]
    BY <1>1, <2>1
  <2>3. QED
    BY <1>1, <2>1, <2>2
<1>3. CASE ~MustDebit(c, credit)
  BY <1>1, <1>3 DEF MustDebit, DebitCredit
<1>4. QED
  BY <1>2, <1>3

LEMMA ConfirmTyped ==
    ASSUME TypeOK, NEW c \in Contracts, NEW seen, ConfirmContract(c, seen),
           seen = "PENDING_PAYMENT" \/ contract[c].status # "PENDING_PAYMENT"
    PROVE  /\ contract' \in [Contracts -> [status : ContractStatus, paid : BOOLEAN]]
           /\ contract'[c].status # "PENDING_PAYMENT"
           /\ \A d \in Contracts : d # c => contract'[d] = contract[d]
<1>1. contract \in [Contracts -> [status : ContractStatus, paid : BOOLEAN]]
  BY DEF TypeOK
<1>2. CASE seen = "PENDING_PAYMENT"
  <2>1. contract' = [contract EXCEPT ![c] = [status |-> "PENDING_ACCEPTANCE", paid |-> TRUE]]
    BY <1>2 DEF ConfirmContract
  <2>2. QED
    BY <1>1, <2>1 DEF ContractStatus
<1>3. CASE seen # "PENDING_PAYMENT"
  <2>1. contract' = [contract EXCEPT ![c] = [contract[c] EXCEPT !.paid = TRUE]]
    BY <1>3 DEF ConfirmContract
  <2>2. /\ [contract[c] EXCEPT !.paid = TRUE] \in [status : ContractStatus, paid : BOOLEAN]
        /\ [contract[c] EXCEPT !.paid = TRUE].status = contract[c].status
    BY <1>1
  <2>3. QED
    BY <1>1, <1>3, <2>1, <2>2
<1>4. QED
  BY <1>2, <1>3

\* A payment is confirmed: the row says paid, a payout is owed, the credit is debited.
LEMMA ConfirmStep ==
    ASSUME IInv, NEW c \in Contracts, NEW row \in Row, Save(c, row), row.status = "paid",
           \/ payment[c] = NoPayment /\ row.credit = Total[c]
           \/ MaySave(c, row) /\ Chargeable(c) /\ Collected(c),
           CreditCovered(c, row.credit), DebitCredit(c, row.credit),
           NEW n \in Nat, AddPayouts(c, n), payouts'[c] > 0,
           contract' \in [Contracts -> [status : ContractStatus, paid : BOOLEAN]],
           contract'[c].status # "PENDING_PAYMENT",
           \A d \in Contracts : d # c => contract'[d] = contract[d],
           charge' = charge, event' \in [Events -> ProcessingStatus],
           NEW s \in Sessions, Finish(s)
    PROVE  IInv'
<1>1. /\ balance' \in Nat /\ debits' \in [Contracts -> Nat]
      /\ \A d \in Contracts : debits[d] > 0 => debits'[d] > 0
      /\ \A d \in Contracts : debits'[d] <= 1
      /\ row.credit > 0 => debits'[c] > 0
  BY DebitTyped, RowFields DEF IInv
<1>2. /\ payment' \in [Contracts -> Row \cup {NoPayment}] /\ superseded' \subseteq Charges
      /\ payment'[c] = row /\ row # NoPayment
      /\ \A d \in Contracts : d # c => payment'[d] = payment[d]
  BY SaveTyped DEF IInv
<1>3. /\ payouts' \in [Contracts -> Nat]
      /\ \A d \in Contracts : d # c => payouts'[d] = payouts[d]
  BY DEF IInv, TypeOK, AddPayouts
<1>4. Grows
  <2>1. MaySave(c, row)
    BY DEF MaySave
  <2>2. QED
    BY <1>1, <2>1, SaveGrows DEF IInv
<1>5. TasksHold' /\ task' \in [Sessions -> Task]
  BY <1>4, IdleIsOK, TaskGoesOn DEF Finish
<1>6. TypeOK'
  BY <1>1, <1>2, <1>3, <1>5 DEF IInv, TypeOK
<1>7. ChargesHold'
  <2>1. \A ch \in Charges : charge[ch] # NoCharge => charge[ch].of \in Contracts
    BY ChargeIsThere DEF IInv
  <2>2. QED
    BY <1>4, <2>1, ChargeableStays DEF IInv, ChargesHold
<1>8. CreditOnlyIsPaid' /\ InviteHasPayment'
  BY <1>2 DEF IInv, CreditOnlyIsPaid, InviteHasPayment, Chargeable
<1>9. NoOverdraft' /\ CreditDebitedOnce'
  BY <1>1 DEF NoOverdraft, CreditDebitedOnce
<1>10. PaidIsConfirmed'
  <2>1. \A d \in Contracts : debits[d] \in Nat
    BY DEF IInv, TypeOK
  <2>2. ASSUME NEW d \in Contracts, payment'[d].status = "paid", d # c
        PROVE  /\ contract'[d].status # "PENDING_PAYMENT" /\ payouts'[d] > 0
               /\ payment'[d].credit > 0 => debits'[d] > 0
    BY <1>1, <1>2, <1>3, <2>2 DEF IInv, PaidIsConfirmed
  <2>3. QED
    BY <1>1, <1>2, <2>2 DEF PaidIsConfirmed
<1>11. Funded(c)'
  <2>1. CASE Collected(c)
    BY <1>4, <2>1, CollectedIsFunded, FundedStays
  <2>2. CASE row.credit = Total[c]
    <3>1. row.credit > 0
      BY <2>2, PaymentConstants
    <3>2. QED
      BY <1>1, <1>2, <2>2, <3>1 DEF Funded
  <2>3. QED
    BY <2>1, <2>2
<1>12. NothingOwedUnfunded'
  <2>1. ASSUME NEW d \in Contracts, d # c,
               payouts'[d] > 0 \/ contract'[d].paid
                 \/ (d \notin OpenOffer /\ contract'[d].status # "PENDING_PAYMENT")
        PROVE  Funded(d)'
    <3>1. Funded(d)
      BY <1>3, <2>1 DEF IInv, NothingOwedUnfunded
    <3>2. QED
      BY <1>4, <3>1, FundedStays
  <2>2. QED
    BY <1>11, <2>1 DEF NothingOwedUnfunded
<1>13. QED
  BY <1>5, <1>6, <1>7, <1>8, <1>9, <1>10, <1>12 DEF IInv

-----------------------------------------------------------------------------
(***************************************************************************)
(* The requests: initiatePayment and processPayment.                       *)
(***************************************************************************)
LEMMA TaskIsOK ==
    ASSUME IInv, NEW s \in Sessions
    PROVE  TaskOK(task[s]) /\ task[s] \in Task
BY DEF IInv, TasksHold, TypeOK

LEMMA ResetIsRow ==
    ASSUME NEW row \in Row
    PROVE  /\ ResetForRetry(row) \in Row /\ ResetForRetry(row).credit = row.credit
           /\ row.status # "paid" => ResetForRetry(row).status # "paid"
BY DEF ResetForRetry, Row, PaymentStatus

LEMMA AbandonKeeps ==
    ASSUME IInv, NEW s \in Sessions, Abandon(s)
    PROVE  IInv'
<1>1. /\ Await(s, Idle) /\ event' = event
      /\ UNCHANGED <<contract, payment, charge, moneyVars, superseded>>
  BY DEF Abandon, Finish, gatewayVars
<1>2. event' \in [Events -> ProcessingStatus]
  BY <1>1 DEF IInv, TypeOK
<1>3. QED
  BY <1>1, <1>2, IdleIsOK, TaskStep

LEMMA InitiateNewKeeps ==
    ASSUME IInv, NEW s \in Sessions, NEW c \in Contracts, InitiateNew(s, c)
    PROVE  IInv'
<1> DEFINE plan == IF balance <= Total[c] THEN balance ELSE Total[c]
           t == [op |-> "create", of |-> c, seen |-> contract[c].status, credit |-> plan]
<1>1. Await(s, t) /\ UNCHANGED <<contract, payment, charge, moneyVars, superseded>>
      /\ event' \in [Events -> ProcessingStatus]
  BY DEF InitiateNew, gatewayVars, IInv, TypeOK
<1>2. plan \in Nat /\ contract[c].status \in ContractStatus
  BY PaymentConstants DEF IInv, TypeOK, NoOverdraft
<1> HIDE DEF plan
<1>3. t \in Task
  BY <1>2, TasksAre
<1>4. TaskOK(t)
  BY <1>3 DEF TaskOK, HasRow
<1> HIDE DEF t
<1>5. QED
  BY <1>1, <1>4, TaskStep

\* A handler that has read the payment of c and will charge it.
LEMMA ReadKeeps ==
    ASSUME IInv, NEW s \in Sessions, NEW c \in Contracts, NEW op \in {"intent", "card", "pix"},
           NEW row \in Row, row.status # "paid", Chargeable(c), row.credit = payment[c].credit,
           Await(s, [op |-> op, of |-> c, row |-> row]),
           UNCHANGED <<contract, payment, gatewayVars, moneyVars, superseded>>
    PROVE  IInv'
<1> DEFINE t == [op |-> op, of |-> c, row |-> row]
<1>1. t \in Task
  BY TasksAre
<1>2. TaskOK(t)
  BY <1>1 DEF TaskOK, HasRow
<1>3. /\ UNCHANGED <<contract, payment, charge, moneyVars, superseded>>
      /\ event' \in [Events -> ProcessingStatus]
  BY DEF gatewayVars, IInv, TypeOK
<1> HIDE DEF t
<1>4. QED
  BY <1>2, <1>3, TaskStep DEF t

LEMMA UnpaidIsChargeable ==
    ASSUME IInv, NEW c \in Contracts, payment[c] # NoPayment, payment[c].status # "paid"
    PROVE  Chargeable(c) /\ payment[c] \in Row
BY PaymentIsRow DEF IInv, CreditOnlyIsPaid

LEMMA InitiateExistingKeeps ==
    ASSUME IInv, NEW s \in Sessions, NEW c \in Contracts, InitiateExisting(s, c)
    PROVE  IInv'
<1> DEFINE row == ResetForRetry(payment[c])
<1>1. Chargeable(c) /\ payment[c] \in Row /\ payment[c].status # "paid"
  BY UnpaidIsChargeable DEF InitiateExisting
<1>2. row \in Row /\ row.credit = payment[c].credit /\ row.status # "paid"
  BY <1>1, ResetIsRow
<1>3. /\ Await(s, [op |-> "intent", of |-> c, row |-> row])
      /\ UNCHANGED <<contract, payment, gatewayVars, moneyVars, superseded>>
  BY DEF InitiateExisting
<1> HIDE DEF row
<1>4. QED
  BY <1>1, <1>2, <1>3, ReadKeeps

LEMMA BeginKeeps ==
    ASSUME IInv, NEW s \in Sessions, NEW c \in Contracts, BeginCard(s, c) \/ BeginPix(s, c)
    PROVE  IInv'
<1>1. Chargeable(c) /\ payment[c] \in Row /\ payment[c].status # "paid"
  BY UnpaidIsChargeable DEF BeginCard, BeginPix
<1>2. /\ \E op \in {"card", "pix"} : Await(s, [op |-> op, of |-> c, row |-> payment[c]])
      /\ UNCHANGED <<contract, payment, gatewayVars, moneyVars, superseded>>
  BY DEF BeginCard, BeginPix
<1>3. QED
  BY <1>1, <1>2, ReadKeeps

LEMMA NewRowIsRow ==
    ASSUME NEW status \in PaymentStatus, NEW credit \in Nat
    PROVE  /\ NewRow(status, credit) \in Row
           /\ NewRow(status, credit).status = status /\ NewRow(status, credit).credit = credit
BY DEF NewRow, Row, SettlementStatus

LEMMA PayWithCreditKeeps ==
    ASSUME IInv, NEW s \in Sessions, PayWithCredit(s)
    PROVE  IInv'
<1> DEFINE c == task[s].of
           row == NewRow("paid", task[s].credit)
<1>1. /\ c \in Contracts /\ task[s].credit \in Nat
      /\ task[s].seen = "PENDING_PAYMENT" \/ contract[c].status # "PENDING_PAYMENT"
  BY TaskIsOK, TaskFields DEF PayWithCredit, TaskOK
<1>2. row \in Row /\ row.status = "paid" /\ row.credit = task[s].credit
  BY <1>1, NewRowIsRow DEF PaymentStatus
<1>3. /\ row.credit = Total[c] /\ payment[c] = NoPayment
      /\ CreditCovered(c, row.credit) /\ DebitCredit(c, row.credit)
      /\ Save(c, row) /\ AddPayouts(c, 1) /\ Finish(s)
      /\ charge' = charge /\ event' = event
      /\ \/ ConfirmContract(c, task[s].seen)
         \/ contract' = contract /\ task[s].seen # "PENDING_PAYMENT"
  BY <1>2 DEF PayWithCredit, gatewayVars
<1> HIDE DEF row, c
<1>4. payouts'[c] > 0
  BY <1>1, <1>3 DEF AddPayouts, IInv, TypeOK
<1>5. /\ contract' \in [Contracts -> [status : ContractStatus, paid : BOOLEAN]]
      /\ contract'[c].status # "PENDING_PAYMENT"
      /\ \A d \in Contracts : d # c => contract'[d] = contract[d]
  <2>1. CASE contract' = contract /\ task[s].seen # "PENDING_PAYMENT"
    BY <1>1, <2>1 DEF IInv, TypeOK
  <2>2. CASE ConfirmContract(c, task[s].seen)
    BY <1>1, <2>2, ConfirmTyped DEF IInv
  <2>3. QED
    BY <1>3, <2>1, <2>2
<1>6. event' \in [Events -> ProcessingStatus]
  BY <1>3 DEF IInv, TypeOK
<1>7. QED
  BY <1>1, <1>2, <1>3, <1>4, <1>5, <1>6, ConfirmStep

LEMMA InsertPaymentKeeps ==
    ASSUME IInv, NEW s \in Sessions, InsertPayment(s)
    PROVE  IInv'
<1> DEFINE c == task[s].of
           row == NewRow("pending", task[s].credit)
<1>1. c \in Contracts /\ task[s].credit \in Nat
  BY TaskIsOK, TaskFields DEF InsertPayment
<1>2. row \in Row /\ row.status = "pending" /\ row.credit = task[s].credit
  BY <1>1, NewRowIsRow DEF PaymentStatus
<1>3. PICK t : t = [op |-> "intent", of |-> c, row |-> row]
  OBVIOUS
<1>4. /\ row.credit < Total[c] /\ payment[c] = NoPayment /\ Save(c, row) /\ Await(s, t)
      /\ UNCHANGED <<contract, charge, moneyVars>> /\ event' = event
  BY <1>2, <1>3 DEF InsertPayment, gatewayVars
<1> HIDE DEF c, row
<1>5. payment'[c] = row /\ row # NoPayment
  BY <1>1, <1>2, <1>4, SaveTyped DEF IInv
<1>6. t \in Task
  BY <1>1, <1>2, <1>3, TasksAre
<1>7. t.op = "intent" /\ t.of = c /\ t.row = row
  BY <1>3
<1>8. TaskOK(t)'
  BY <1>2, <1>4, <1>5, <1>6, <1>7 DEF TaskOK, HasRow, Chargeable
<1>9. event' \in [Events -> ProcessingStatus]
  BY <1>4 DEF IInv, TypeOK
<1>10. QED
  BY <1>1, <1>2, <1>4, <1>8, <1>9, SaveStep DEF MaySave

\* The row of a task may be saved over the payment it was read from.
LEMMA TaskRow ==
    ASSUME IInv, NEW s \in Sessions, task[s].op \in HasRow
    PROVE  /\ task[s].of \in Contracts /\ task[s].row \in Row
           /\ Chargeable(task[s].of) /\ task[s].row.credit = payment[task[s].of].credit
           /\ MaySave(task[s].of, task[s].row) /\ task[s].row.credit < Total[task[s].of]
           /\ task[s].row.status = "paid" =>
                 task[s].op \in {"saveCharge", "loaded", "inTx"} /\ Collected(task[s].of)
BY TaskIsOK, TaskFields DEF TaskOK, MaySave, Chargeable

LEMMA SaveIntentKeeps ==
    ASSUME IInv, NEW s \in Sessions, SaveIntent(s)
    PROVE  IInv'
<1> DEFINE c == task[s].of
           row == [task[s].row EXCEPT !.intent = TRUE, !.status = "processing"]
<1>1. task[s].op \in HasRow
  BY DEF SaveIntent, HasRow
<1>2. /\ c \in Contracts /\ task[s].row \in Row /\ MaySave(c, task[s].row)
      /\ task[s].row.credit < Total[c]
  BY <1>1, TaskRow
<1>3. row \in Row /\ row.status = "processing" /\ row.credit = task[s].row.credit
  BY <1>2 DEF Row, PaymentStatus
<1>4. /\ Save(c, row) /\ Await(s, Idle) /\ UNCHANGED <<contract, charge, moneyVars>>
      /\ event' \in [Events -> ProcessingStatus]
  BY DEF SaveIntent, Finish, gatewayVars, IInv, TypeOK
<1> HIDE DEF c, row
<1>5. MaySave(c, row)
  BY <1>2, <1>3 DEF MaySave
<1>6. QED
  BY <1>2, <1>3, <1>4, <1>5, IdleIsOK, SaveStep

LEMMA SaveChargeKeeps ==
    ASSUME IInv, NEW s \in Sessions, SaveCharge(s)
    PROVE  IInv'
<1> DEFINE c == task[s].of
           row == task[s].row
<1>1. task[s].op \in HasRow
  BY DEF SaveCharge, HasRow
<1>2. c \in Contracts /\ row \in Row /\ MaySave(c, row) /\ row.credit < Total[c]
  BY <1>1, TaskRow
<1>3. /\ Save(c, row) /\ Await(s, Idle) /\ UNCHANGED <<contract, charge, moneyVars>>
      /\ event' \in [Events -> ProcessingStatus] /\ row.status # "paid"
  BY DEF SaveCharge, Finish, gatewayVars, IInv, TypeOK
<1> HIDE DEF c, row
<1>4. QED
  BY <1>2, <1>3, IdleIsOK, SaveStep

LEMMA ConfirmCardKeeps ==
    ASSUME IInv, NEW s \in Sessions, ConfirmCard(s)
    PROVE  IInv'
<1> DEFINE c == task[s].of
           row == task[s].row
           n == IF payouts[c] = 0 THEN 1 ELSE 0
<1>1. task[s].op \in HasRow /\ row.status = "paid"
  BY DEF ConfirmCard, HasRow
<1>2. c \in Contracts /\ row \in Row /\ MaySave(c, row) /\ Chargeable(c) /\ Collected(c)
  BY <1>1, TaskRow
<1>3. /\ charge' = charge /\ Finish(s) /\ Await(s, Idle)
      /\ event' \in [Events -> ProcessingStatus]
  BY DEF ConfirmCard, Finish, gatewayVars, IInv, TypeOK
<1>4. CASE UNCHANGED <<payment, superseded, payouts, contract, balance, debits>>
  <2>1. UNCHANGED <<contract, payment, charge, moneyVars, superseded>>
    BY <1>3, <1>4 DEF moneyVars
  <2>2. QED
    BY <1>3, <2>1, IdleIsOK, TaskStep
<1>5. CASE /\ CreditCovered(c, row.credit) /\ Save(c, row) /\ AddPayouts(c, n)
           /\ ConfirmContract(c, contract[c].status) /\ DebitCredit(c, row.credit)
  <2>1. n \in Nat /\ payouts'[c] > 0
    BY <1>2, <1>5 DEF AddPayouts, IInv, TypeOK
  <2>2. /\ contract' \in [Contracts -> [status : ContractStatus, paid : BOOLEAN]]
        /\ contract'[c].status # "PENDING_PAYMENT"
        /\ \A d \in Contracts : d # c => contract'[d] = contract[d]
    BY <1>2, <1>5, ConfirmTyped DEF IInv
  <2> HIDE DEF c, row, n
  <2>3. QED
    BY <1>1, <1>2, <1>3, <1>5, <2>1, <2>2, ConfirmStep
<1>6. QED
  BY <1>4, <1>5 DEF ConfirmCard

\* The gateway makes a charge of c, and the handler that asked for it knows.
LEMMA NewChargeKeeps ==
    ASSUME IInv, NEW s \in Sessions, NEW ch \in Charges, task[s].op \in {"card", "pix"},
           NEW kind \in {"card", "pix"}, NEW status \in GatewayStatus,
           NEW row \in Row, row.status = status, row.credit = task[s].row.credit,
           NewCharge(ch, task[s].of, kind, status),
           Await(s, [op |-> "saveCharge", of |-> task[s].of, row |-> row]),
           UNCHANGED <<contract, payment, event, moneyVars, superseded>>
    PROVE  IInv'
<1>1. PICK c : c = task[s].of
  OBVIOUS
<1>2. PICK t : t = [op |-> "saveCharge", of |-> c, row |-> row]
  OBVIOUS
<1>3. c \in Contracts /\ Chargeable(c) /\ row.credit = payment[c].credit
  BY <1>1, TaskRow DEF HasRow
<1> DEFINE new == [of |-> c, kind |-> kind, status |-> status, expired |-> FALSE]
<1>4. /\ charge[ch] = NoCharge /\ charge' = [charge EXCEPT ![ch] = new]
      /\ charge \in [Charges -> Charge \cup {NoCharge}]
  BY <1>1 DEF NewCharge, IInv, TypeOK
<1>5. new \in Charge /\ new # NoCharge /\ new.of = c /\ new.status = status
  BY <1>3 DEF Charge, NoCharge, GatewayStatus, PaymentStatus
<1> HIDE DEF new
<1>6. /\ charge' \in [Charges -> Charge \cup {NoCharge}] /\ charge'[ch] = new
      /\ \A d \in Charges : d # ch => charge'[d] = charge[d]
  BY <1>4, <1>5
<1>7. payment' = payment
  OBVIOUS
<1>8. t.op = "saveCharge" /\ t.of = c /\ t.row = row /\ t \in Task
  BY <1>2, <1>3, TasksAre
<1>9. status = "paid" => Collected(c)'
  BY <1>5, <1>6 DEF Collected, PaidAtGateway
<1>10. TaskOK(t)'
  BY <1>3, <1>7, <1>8, <1>9 DEF TaskOK, HasRow, Chargeable
<1>11. Await(s, t)
  BY <1>1, <1>2
<1>12. \A d \in Charges : charge[d] # NoCharge =>
         /\ charge'[d] # NoCharge /\ charge'[d].of = charge[d].of
         /\ charge[d].status \in PaidAtGateway => charge'[d].status \in PaidAtGateway
  BY <1>4, <1>6
<1>13. \A d \in Charges :
         charge[d] = NoCharge /\ charge'[d] # NoCharge => Chargeable(charge'[d].of)
  BY <1>3, <1>5, <1>6
<1>14. QED
  BY <1>6, <1>10, <1>11, <1>12, <1>13, ChargeStep

LEMMA ChargeCardKeeps ==
    ASSUME IInv, NEW s \in Sessions, NEW ch \in Charges,
           NEW status \in {"paid", "processing", "failed"}, ChargeCard(s, ch, status)
    PROVE  IInv'
<1> DEFINE row == [task[s].row EXCEPT !.ext = ch, !.status = status]
<1>1. status \in GatewayStatus /\ status \in PaymentStatus
  BY DEF GatewayStatus, PaymentStatus
<1>2. task[s].op = "card" /\ task[s].row \in Row
  BY TaskRow DEF ChargeCard, HasRow
<1>3. row \in Row /\ row.status = status /\ row.credit = task[s].row.credit
  BY <1>1, <1>2 DEF Row
<1>4. /\ NewCharge(ch, task[s].of, "card", status)
      /\ Await(s, [op |-> "saveCharge", of |-> task[s].of, row |-> row])
      /\ UNCHANGED <<contract, payment, event, moneyVars, superseded>>
  BY DEF ChargeCard
<1> HIDE DEF row
<1>5. QED
  BY <1>1, <1>2, <1>3, <1>4, NewChargeKeeps

LEMMA ChargePixKeeps ==
    ASSUME IInv, NEW s \in Sessions, NEW ch \in Charges, ChargePix(s, ch)
    PROVE  IInv'
<1> DEFINE row == [task[s].row EXCEPT !.ext = ch, !.pix = ch, !.status = "processing"]
<1>1. "processing" \in GatewayStatus /\ "processing" \in PaymentStatus
  BY DEF GatewayStatus, PaymentStatus
<1>2. task[s].op = "pix" /\ task[s].row \in Row
  BY TaskRow DEF ChargePix, HasRow
<1>3. row \in Row /\ row.status = "processing" /\ row.credit = task[s].row.credit
  BY <1>1, <1>2 DEF Row
<1>4. /\ NewCharge(ch, task[s].of, "pix", "processing")
      /\ Await(s, [op |-> "saveCharge", of |-> task[s].of, row |-> row])
      /\ UNCHANGED <<contract, payment, event, moneyVars, superseded>>
  BY DEF ChargePix
<1> HIDE DEF row
<1>5. QED
  BY <1>1, <1>2, <1>3, <1>4, NewChargeKeeps

-----------------------------------------------------------------------------
(***************************************************************************)
(* The webhook.                                                            *)
(***************************************************************************)
LEMMA ReceiveEventKeeps ==
    ASSUME IInv, NEW s \in Sessions, NEW e \in Events, NEW ch \in Charges, ReceiveEvent(s, e, ch)
    PROVE  IInv'
<1> DEFINE t == [op |-> "fetched", event |-> e, charge |-> ch, status |-> charge[ch].status]
<1>1. /\ Await(s, t) /\ charge[ch] # NoCharge
      /\ event' = [event EXCEPT ![e] = "received"]
      /\ UNCHANGED <<contract, payment, charge, moneyVars, superseded>>
  BY DEF ReceiveEvent
<1>2. charge[ch].status \in GatewayStatus
  BY <1>1, ChargeIsThere DEF IInv, Charge
<1>3. t \in Task
  BY <1>2, TasksAre
<1>4. TaskOK(t)
  BY <1>1, <1>3 DEF TaskOK, HasRow, PaidAtGateway
<1>5. event' \in [Events -> ProcessingStatus]
  BY <1>1 DEF IInv, TypeOK, ProcessingStatus
<1> HIDE DEF t
<1>6. QED
  BY <1>1, <1>4, <1>5, TaskStep

LEMMA EndEventTyped ==
    ASSUME IInv, NEW s \in Sessions, task[s].event \in Events, NEW status \in ProcessingStatus,
           EndEvent(s, status)
    PROVE  event' \in [Events -> ProcessingStatus] /\ Await(s, Idle) /\ Finish(s)
BY DEF IInv, TypeOK, EndEvent, Finish

\* The webhook gives up the event, whatever it says of it, or remembers the row.
LEMMA LoadPaymentKeeps ==
    ASSUME IInv, NEW s \in Sessions, LoadPayment(s)
    PROVE  IInv'
<1> DEFINE ch == task[s].charge
           c == charge[ch].of
           row == [payment[c] EXCEPT !.status = task[s].status, !.ext = ch]
           t == [op |-> "loaded", event |-> task[s].event, of |-> c, seen |-> None, row |-> row]
<1>1. /\ task[s].op = "fetched" /\ task[s].event \in Events /\ ch \in Charges
      /\ task[s].status \in GatewayStatus
      /\ charge[ch] # NoCharge
      /\ task[s].status = "paid" => charge[ch].status \in PaidAtGateway
  BY TaskIsOK, TaskFields DEF LoadPayment, TaskOK
<1>2. UNCHANGED <<contract, payment, charge, moneyVars, superseded>>
  BY DEF LoadPayment
<1>3. CASE \E status \in {"orphan", "processed"} : EndEvent(s, status)
  <2>1. event' \in [Events -> ProcessingStatus] /\ Await(s, Idle)
    BY <1>1, <1>3, EndEventTyped DEF ProcessingStatus
  <2>2. QED
    BY <1>2, <2>1, IdleIsOK, TaskStep
<1>4. CASE Await(s, t) /\ UNCHANGED event
  <2>1. c \in Contracts /\ Chargeable(c) /\ payment[c] \in Row
    BY <1>1, ChargeIsThere, PaymentIsRow DEF IInv, ChargesHold, Chargeable
  <2>2. row \in Row /\ row.status = task[s].status /\ row.credit = payment[c].credit
    BY <1>1, <2>1 DEF Row, GatewayStatus
  <2>3. row.status = "paid" => Collected(c)
    BY <1>1, <2>2 DEF Collected
  <2>4. t.op = "loaded" /\ t.of = c /\ t.row = row
    OBVIOUS
  <2> HIDE DEF row, c
  <2>5. t \in Task
    BY <1>1, <2>1, <2>2, TasksAre
  <2>6. event' \in [Events -> ProcessingStatus]
    BY <1>4 DEF IInv, TypeOK
  <2> HIDE DEF t
  <2>7. TaskOK(t)
    BY <2>1, <2>2, <2>3, <2>4, <2>5 DEF TaskOK
  <2>8. QED
    BY <1>2, <1>4, <2>6, <2>7, TaskStep
<1>5. QED
  BY <1>3, <1>4 DEF LoadPayment

LEMMA ApplyStatusKeeps ==
    ASSUME IInv, NEW s \in Sessions, ApplyStatus(s)
    PROVE  IInv'
<1> DEFINE c == task[s].of
           row == task[s].row
<1>1. task[s].op \in HasRow /\ task[s].event \in Events
  BY TaskIsOK, TaskFields DEF ApplyStatus, HasRow
<1>2. c \in Contracts /\ row \in Row /\ MaySave(c, row) /\ row.credit < Total[c]
  BY <1>1, TaskRow
<1>3. /\ Save(c, row) /\ UNCHANGED <<contract, charge, moneyVars>> /\ row.status # "paid"
      /\ EndEvent(s, "processed")
  BY DEF ApplyStatus
<1>4. event' \in [Events -> ProcessingStatus] /\ Await(s, Idle)
  BY <1>1, <1>3, EndEventTyped DEF ProcessingStatus
<1> HIDE DEF c, row
<1>5. QED
  BY <1>2, <1>3, <1>4, IdleIsOK, SaveStep

LEMMA ReadContractKeeps ==
    ASSUME IInv, NEW s \in Sessions, ReadContract(s)
    PROVE  IInv'
<1> DEFINE c == task[s].of
           t == [task[s] EXCEPT !.op = "inTx", !.seen = contract[c].status]
<1>1. /\ task[s].op = "loaded" /\ task[s].row.status = "paid" /\ Await(s, t)
      /\ UNCHANGED <<contract, payment, charge, moneyVars, superseded>> /\ event' = event
  BY DEF ReadContract, gatewayVars
<1>2. /\ c \in Contracts /\ task[s].row \in Row /\ Chargeable(c) /\ Collected(c)
      /\ task[s].row.credit = payment[c].credit
  BY <1>1, TaskRow DEF HasRow
<1>3. contract[c].status \in ContractStatus
  BY <1>2 DEF IInv, TypeOK
<1>4. task[s] \in [op : {"loaded", "inTx"}, event : Events, of : Contracts, row : Row,
                   seen : ContractStatus \cup {None}]
  <2>1. task[s] \in Task
    BY TaskIsOK
  <2>2. QED
    BY <1>1, <2>1 DEF Task, Idle
<1>5. /\ t \in [op : {"loaded", "inTx"}, event : Events, of : Contracts, row : Row,
                seen : ContractStatus \cup {None}]
      /\ t.op = "inTx" /\ t.of = c /\ t.row = task[s].row /\ t.seen = contract[c].status
      /\ t.row.status = "paid"
  BY <1>1, <1>3, <1>4
<1>6. event' \in [Events -> ProcessingStatus]
  BY <1>1 DEF IInv, TypeOK
<1> HIDE DEF c, t
<1>7. t \in Task
  BY <1>5 DEF Task
<1>8. TaskOK(t)
  BY <1>2, <1>5, <1>7 DEF TaskOK
<1>9. QED
  BY <1>1, <1>6, <1>8, TaskStep

\* The transaction is decided on the contract's status that it has read.
LEMMA ConfirmPaidKeeps ==
    ASSUME IInv, NEW s \in Sessions, ConfirmPaid(s)
    PROVE  IInv'
<1> DEFINE c == task[s].of
           row == task[s].row
           seen == task[s].seen
<1>1. /\ task[s].op = "inTx" /\ task[s].op \in HasRow /\ task[s].event \in Events
      /\ seen = "PENDING_PAYMENT" \/ contract[c].status # "PENDING_PAYMENT"
      /\ row.status = "paid"
  BY TaskIsOK, TaskFields DEF ConfirmPaid, TaskOK, HasRow
<1>2. c \in Contracts /\ row \in Row /\ MaySave(c, row) /\ Chargeable(c) /\ Collected(c)
  BY <1>1, TaskRow
<1>3. charge' = charge
  BY DEF ConfirmPaid
<1>4. CASE /\ ~CreditCovered(c, row.credit) /\ EndEvent(s, "failed")
           /\ UNCHANGED <<contract, balance, debits, payouts, payment, superseded>>
  <2>1. event' \in [Events -> ProcessingStatus] /\ Await(s, Idle)
    BY <1>1, <1>4, EndEventTyped DEF ProcessingStatus
  <2>2. UNCHANGED <<contract, payment, charge, moneyVars, superseded>>
    BY <1>3, <1>4 DEF moneyVars
  <2>3. QED
    BY <2>1, <2>2, IdleIsOK, TaskStep
<1>5. CASE /\ CreditCovered(c, row.credit) /\ ConfirmContract(c, seen)
           /\ DebitCredit(c, row.credit) /\ AddPayouts(c, 1) /\ Save(c, row)
           /\ EndEvent(s, "processed")
  <2>1. event' \in [Events -> ProcessingStatus] /\ Finish(s)
    BY <1>1, <1>5, EndEventTyped DEF ProcessingStatus
  <2>2. payouts'[c] > 0
    BY <1>2, <1>5 DEF AddPayouts, IInv, TypeOK
  <2>3. /\ contract' \in [Contracts -> [status : ContractStatus, paid : BOOLEAN]]
        /\ contract'[c].status # "PENDING_PAYMENT"
        /\ \A d \in Contracts : d # c => contract'[d] = contract[d]
    BY <1>1, <1>2, <1>5, ConfirmTyped DEF IInv
  <2> HIDE DEF c, row, seen
  <2>4. QED
    BY <1>1, <1>2, <1>3, <1>5, <2>1, <2>2, <2>3, ConfirmStep
<1>6. QED
  BY <1>4, <1>5 DEF ConfirmPaid

-----------------------------------------------------------------------------
(***************************************************************************)
(* The gateway, and the creator's answer.                                  *)
(***************************************************************************)
\* A charge's status or expiry changes; an approved one is only refunded.
LEMMA ChargeChanges ==
    ASSUME IInv, NEW ch \in Charges, NEW new \in Charge, charge[ch] # NoCharge,
           charge' = [charge EXCEPT ![ch] = new], new.of = charge[ch].of,
           charge[ch].status \in PaidAtGateway => new.status \in PaidAtGateway,
           UNCHANGED <<contract, payment, event, moneyVars, task, superseded>>
    PROVE  IInv'
<1>1. new # NoCharge
  BY DEF Charge, NoCharge, GatewayStatus, PaymentStatus
<1>2. charge \in [Charges -> Charge \cup {NoCharge}]
  BY DEF IInv, TypeOK
<1>3. charge'[ch] = new /\ \A d \in Charges : d # ch => charge'[d] = charge[d]
  BY <1>2
<1>4. charge' \in [Charges -> Charge \cup {NoCharge}]
  BY <1>2
<1>5. QED
  BY <1>1, <1>3, <1>4, ChargeStep

LEMMA GatewayKeeps ==
    ASSUME IInv, NEW ch \in Charges,
           ApproveCharge(ch) \/ RefuseCharge(ch) \/ RefundCharge(ch) \/ ExpirePix(ch)
    PROVE  IInv'
<1>1. charge[ch] # NoCharge
  BY DEF ApproveCharge, RefuseCharge, RefundCharge, ExpirePix, NoCharge
<1>2. charge[ch] \in Charge
  BY <1>1, ChargeIsThere DEF IInv
<1>3. ASSUME NEW status \in GatewayStatus, SetChargeStatus(ch, status),
             charge[ch].status \in PaidAtGateway => status \in PaidAtGateway
      PROVE  IInv'
  <2> DEFINE new == [charge[ch] EXCEPT !.status = status]
  <2>1. new \in Charge /\ new.of = charge[ch].of /\ new.status = status
    BY <1>2 DEF Charge
  <2>2. /\ charge' = [charge EXCEPT ![ch] = new]
        /\ UNCHANGED <<contract, payment, event, moneyVars, task, superseded>>
    BY <1>3 DEF SetChargeStatus
  <2> HIDE DEF new
  <2>3. QED
    BY <1>1, <1>3, <2>1, <2>2, ChargeChanges
<1>4. CASE ExpirePix(ch)
  <2> DEFINE new == [charge[ch] EXCEPT !.expired = TRUE]
  <2>1. new \in Charge /\ new.of = charge[ch].of /\ new.status = charge[ch].status
    BY <1>2 DEF Charge
  <2>2. /\ charge' = [charge EXCEPT ![ch] = new]
        /\ UNCHANGED <<contract, payment, event, moneyVars, task, superseded>>
    BY <1>4 DEF ExpirePix
  <2> HIDE DEF new
  <2>3. QED
    BY <1>1, <2>1, <2>2, ChargeChanges
<1>5. {"paid", "canceled", "failed", "refunded"} \subseteq GatewayStatus
      /\ "processing" \notin PaidAtGateway /\ "refunded" \in PaidAtGateway
  BY DEF GatewayStatus, PaymentStatus, PaidAtGateway
<1>6. CASE ApproveCharge(ch)
  BY <1>3, <1>5, <1>6 DEF ApproveCharge
<1>7. CASE RefuseCharge(ch)
  <2>1. PICK status \in {"canceled", "failed"} :
           charge[ch].status = "processing" /\ SetChargeStatus(ch, status)
    BY <1>7 DEF RefuseCharge
  <2>2. QED
    BY <1>3, <1>5, <2>1
<1>8. CASE RefundCharge(ch)
  BY <1>3, <1>5, <1>8 DEF RefundCharge
<1>9. QED
  BY <1>4, <1>6, <1>7, <1>8

\* The creator's answer writes the settlement of a payment that is there; a
\* refusal gives the total to the balance.
LEMMA AnswerKeeps ==
    ASSUME IInv, NEW c \in Contracts, NEW answer \in {"ACCEPTED", "REJECTED"},
           AnswerInvite(c, answer), NEW settlement \in SettlementStatus,
           payment' = [payment EXCEPT ![c].settlement = settlement],
           balance' \in Nat,
           UNCHANGED <<gatewayVars, debits, payouts, task, superseded>>
    PROVE  IInv'
<1> DEFINE row == [payment[c] EXCEPT !.settlement = settlement]
<1>1. /\ contract[c].status = "PENDING_ACCEPTANCE"
      /\ contract' = [contract EXCEPT ![c].status = answer]
      /\ contract \in [Contracts -> [status : ContractStatus, paid : BOOLEAN]]
      /\ charge' = charge /\ event' = event
  BY DEF AnswerInvite, gatewayVars, IInv, TypeOK
<1>2. payment[c] # NoPayment /\ payment[c] \in Row
  BY <1>1, PaymentIsRow DEF IInv, InviteHasPayment
<1>3. /\ row \in Row /\ row.credit = payment[c].credit /\ row.status = payment[c].status
  BY <1>2 DEF Row
<1>4. payment' = [payment EXCEPT ![c] = row] /\ payment \in [Contracts -> Row \cup {NoPayment}]
  BY DEF IInv, TypeOK
<1> HIDE DEF row
<1>5. /\ payment' \in [Contracts -> Row \cup {NoPayment}] /\ payment'[c] = row /\ row # NoPayment
      /\ \A d \in Contracts : d # c => payment'[d] = payment[d]
  BY <1>3, <1>4, RowIsPayment
<1>6. /\ contract' \in [Contracts -> [status : ContractStatus, paid : BOOLEAN]]
      /\ contract'[c].status = answer /\ contract'[c].paid = contract[c].paid
      /\ \A d \in Contracts : d # c => contract'[d] = contract[d]
  BY <1>1 DEF ContractStatus
<1>7. Grows
  BY <1>1, <1>2, <1>3, <1>5, <1>6 DEF Grows
<1>8. TasksHold' /\ task' \in [Sessions -> Task]
  BY <1>7, TasksUnchanged
<1>9. TypeOK'
  BY <1>1, <1>5, <1>6, <1>8 DEF IInv, TypeOK
<1>10. ChargesHold'
  <2>1. \A ch \in Charges : charge[ch] # NoCharge => charge[ch].of \in Contracts
    BY ChargeIsThere DEF IInv
  <2>2. QED
    BY <1>1, <1>7, <2>1, ChargeableStays DEF IInv, ChargesHold
<1>11. CreditOnlyIsPaid' /\ InviteHasPayment'
  <2>1. ASSUME NEW d \in Contracts, payment'[d] # NoPayment, ~Chargeable(d)'
        PROVE  payment'[d].status = "paid"
    <3>1. payment[d] # NoPayment /\ payment'[d].credit = payment[d].credit
          /\ payment'[d].status = payment[d].status
      BY <1>2, <1>3, <1>5, <2>1
    <3>2. ~Chargeable(d)
      BY <2>1, <3>1 DEF Chargeable
    <3>3. QED
      BY <3>1, <3>2 DEF IInv, CreditOnlyIsPaid
  <2>2. ASSUME NEW d \in Contracts, contract'[d].status = "PENDING_ACCEPTANCE"
        PROVE  payment'[d] # NoPayment
    BY <1>5, <1>6, <2>2 DEF IInv, InviteHasPayment
  <2>3. QED
    BY <2>1, <2>2 DEF CreditOnlyIsPaid, InviteHasPayment
<1>12. NoOverdraft' /\ CreditDebitedOnce'
  BY DEF IInv, NoOverdraft, CreditDebitedOnce
<1>13. PaidIsConfirmed'
  BY <1>3, <1>5, <1>6 DEF IInv, PaidIsConfirmed
<1>14. NothingOwedUnfunded'
  <2>1. ASSUME NEW d \in Contracts,
               payouts'[d] > 0 \/ contract'[d].paid
                 \/ (d \notin OpenOffer /\ contract'[d].status # "PENDING_PAYMENT")
        PROVE  Funded(d)
    BY <1>1, <1>6, <2>1 DEF IInv, NothingOwedUnfunded
  <2>2. QED
    BY <1>7, <2>1, FundedStays DEF NothingOwedUnfunded
<1>15. QED
  BY <1>8, <1>9, <1>10, <1>11, <1>12, <1>13, <1>14 DEF IInv

LEMMA AcceptRejectKeep ==
    ASSUME IInv, NEW c \in Contracts, Accept(c) \/ Reject(c)
    PROVE  IInv'
<1>1. payment[c] # NoPayment /\ payment[c].settlement \in SettlementStatus
  <2>1. payment[c] # NoPayment
    BY DEF Accept, Reject, AnswerInvite, IInv, InviteHasPayment
  <2>2. QED
    BY <2>1, PaymentIsRow, RowFields DEF IInv
<1>2. balance \in Nat /\ Total[c] \in Nat
  BY PaymentConstants DEF IInv, TypeOK, NoOverdraft
<1>3. CASE Accept(c)
  <2>1. PICK settlement \in SettlementStatus :
           payment' = [payment EXCEPT ![c].settlement = settlement]
    BY <1>1, <1>3 DEF Accept, SettlementStatus
  <2>2. /\ AnswerInvite(c, "ACCEPTED") /\ balance' = balance
        /\ UNCHANGED <<gatewayVars, debits, payouts, task, superseded>>
    BY <1>3 DEF Accept, moneyVars
  <2>3. QED
    BY <1>2, <2>1, <2>2, AnswerKeeps
<1>4. CASE Reject(c)
  <2>1. PICK settlement \in SettlementStatus :
           payment' = [payment EXCEPT ![c].settlement = settlement]
    BY <1>1, <1>4 DEF Reject, SettlementStatus
  <2>2. /\ AnswerInvite(c, "REJECTED") /\ balance' \in {balance, balance + Total[c]}
        /\ UNCHANGED <<gatewayVars, debits, payouts, task, superseded>>
    BY <1>4 DEF Reject
  <2>3. balance' \in Nat
    BY <1>2, <2>2
  <2>4. QED
    BY <2>1, <2>2, <2>3, AnswerKeeps
<1>5. QED
  BY <1>3, <1>4

-----------------------------------------------------------------------------
(***************************************************************************)
(* The theorems.                                                           *)
(***************************************************************************)
LEMMA InitIInv ==
    ASSUME Init
    PROVE  IInv
<1>1. OpeningBalance \in Nat
  BY PaymentConstants
<1>2. /\ \A c \in Contracts : payment[c] = NoPayment /\ payment[c].status # "paid"
                             /\ debits[c] = 0 /\ payouts[c] = 0 /\ ~contract[c].paid
                             /\ contract[c].status \in {"ACCEPTED", "PENDING_PAYMENT"}
                             /\ (c \notin OpenOffer => contract[c].status = "PENDING_PAYMENT")
      /\ \A ch \in Charges : charge[ch] = NoCharge
      /\ balance \in Nat
  BY <1>1 DEF Init, NoPayment
<1>3. TypeOK
  BY <1>1, TasksAre DEF Init, TypeOK, ContractStatus, ProcessingStatus
<1>4. TasksHold
  BY IdleIsOK DEF Init, TasksHold
<1>5. ChargesHold /\ CreditOnlyIsPaid
  BY <1>2 DEF ChargesHold, CreditOnlyIsPaid
<1>6. InviteHasPayment
  BY <1>2 DEF InviteHasPayment
<1>7. NoOverdraft /\ CreditDebitedOnce
  BY <1>2 DEF NoOverdraft, CreditDebitedOnce
<1>8. NothingOwedUnfunded /\ PaidIsConfirmed
  BY <1>2 DEF NothingOwedUnfunded, PaidIsConfirmed
<1>9. QED
  BY <1>3, <1>4, <1>5, <1>6, <1>7, <1>8 DEF IInv

LEMMA NextIInv ==
    ASSUME IInv, [Next]_vars
    PROVE  IInv'
<1>1. CASE UNCHANGED vars
  <2>1. /\ charge' = charge /\ task' = task /\ event' = event
        /\ UNCHANGED <<contract, payment, moneyVars, superseded>>
    BY <1>1 DEF vars, moneyVars
  <2>2. Grows
    BY <2>1 DEF Grows, moneyVars
  <2>3. TasksHold' /\ task' \in [Sessions -> Task]
    BY <2>2, <2>1, TasksUnchanged
  <2>4. QED
    BY <2>1, <2>3, ChargeStep DEF IInv, TypeOK
<1>2. ASSUME NEW s \in Sessions,
             \/ \E c \in Contracts : InitiateNew(s, c)
             \/ \E c \in Contracts : InitiateExisting(s, c)
             \/ PayWithCredit(s) \/ InsertPayment(s) \/ SaveIntent(s)
      PROVE  IInv'
  BY <1>2, InitiateNewKeeps, InitiateExistingKeeps, PayWithCreditKeeps, InsertPaymentKeeps,
     SaveIntentKeeps
<1>3. ASSUME NEW s \in Sessions,
             \/ \E c \in Contracts : BeginCard(s, c)
             \/ \E c \in Contracts : BeginPix(s, c)
             \/ \E ch \in Charges, status \in {"paid", "processing", "failed"} :
                    ChargeCard(s, ch, status)
             \/ \E ch \in Charges : ChargePix(s, ch)
             \/ SaveCharge(s) \/ ConfirmCard(s)
      PROVE  IInv'
  BY <1>3, BeginKeeps, ChargeCardKeeps, ChargePixKeeps, SaveChargeKeeps, ConfirmCardKeeps
<1>4. ASSUME NEW s \in Sessions,
             \/ \E e \in Events, ch \in Charges : ReceiveEvent(s, e, ch)
             \/ LoadPayment(s) \/ ApplyStatus(s) \/ ReadContract(s) \/ ConfirmPaid(s)
             \/ Abandon(s)
      PROVE  IInv'
  BY <1>4, ReceiveEventKeeps, LoadPaymentKeeps, ApplyStatusKeeps, ReadContractKeeps,
     ConfirmPaidKeeps, AbandonKeeps
<1>5. ASSUME NEW ch \in Charges,
             ApproveCharge(ch) \/ RefuseCharge(ch) \/ RefundCharge(ch) \/ ExpirePix(ch)
      PROVE  IInv'
  BY <1>5, GatewayKeeps
<1>6. ASSUME NEW c \in Contracts, Accept(c) \/ Reject(c)
      PROVE  IInv'
  BY <1>6, AcceptRejectKeep
<1>7. QED
  BY <1>1, <1>2, <1>3, <1>4, <1>5, <1>6 DEF Next

\* Every state that the handlers, the webhooks, the gateway and the creator's
\* answers lead to satisfies the inductive invariant.
THEOREM Invariance == Spec => []IInv
<1>1. Init => IInv
  BY InitIInv
<1>2. IInv /\ [Next]_vars => IInv'
  BY NextIInv
<1>3. QED
  BY <1>1, <1>2, PTL DEF Spec

\* The rows, the charges, the events and what every handler remembers between
\* two awaits stay in their types (payment.entity.ts, webhooks.service.ts).
THEOREM TypeCorrect == Spec => []TypeOK
<1>1. IInv => TypeOK
  BY DEF IInv
<1>2. QED
  BY <1>1, Invariance, PTL

\* The creator sees an invite, a contract reads paid and a payout is owed only
\* where money arrived: an approved charge, or a debit of the whole total
\* (initiatePayment, processPayment and processWebhook, in any interleaving).
THEOREM NothingOwed == Spec => []NothingOwedUnfunded
<1>1. IInv => NothingOwedUnfunded
  BY DEF IInv
<1>2. QED
  BY <1>1, Invariance, PTL

\* A payment that reads paid left no part of its confirmation undone: the
\* contract moved on, a payout exists and the credit was debited.
THEOREM PaidConfirmed == Spec => []PaidIsConfirmed
<1>1. IInv => PaidIsConfirmed
  BY DEF IInv
<1>2. QED
  BY <1>1, Invariance, PTL

\* isCreditAlreadyDebited keeps useCredit from running twice for a payment,
\* however many notifications and card answers confirm it at the same time.
THEOREM DebitedOnce == Spec => []CreditDebitedOnce
<1>1. IInv => CreditDebitedOnce
  BY DEF IInv
<1>2. QED
  BY <1>1, Invariance, PTL

\* useCredit compares the amount with the locked balance: payments that planned
\* to use the same balance do not overdraw it.
THEOREM NeverOverdrawn == Spec => []NoOverdraft
<1>1. IInv => NoOverdraft
  BY DEF IInv
<1>2. QED
  BY <1>1, Invariance, PTL

\* The gateway never holds a charge for a payment that credit covers: every
\* charge was asked for with a row whose credit was short of the total, and the
\* credit of a payment never changes.
THEOREM CreditOnlyUncharged == Spec => []CreditOnlyIsNotCharged
<1>1. IInv => CreditOnlyIsNotCharged
  BY DEF IInv, ChargesHold, Chargeable, CreditOnlyIsNotCharged
<1>2. QED
  BY <1>1, Invariance, PTL
-----------------------------------------------------------------------------
(***************************************************************************)
(* Answers and saves.  A copy carries the settlement of the moment it was  *)
(* read.  When no answer came between the read of a copy and its save,     *)
(* every copy has the settlement of the row, however many there are, so    *)
(* that only the answers ever change it; and a transaction that moves a    *)
(* contract on to PENDING_ACCEPTANCE moves one nobody has answered.  What  *)
(* was overtaken is known contract by contract, and the copies of one do   *)
(* nothing to another.                                                     *)
(***************************************************************************)
Phase(c) ==
    CASE contract[c].status = "ACCEPTED" -> "agreed"
      [] contract[c].status = "REJECTED" -> "refused"
      [] contract[c].status \in {"PENDING_PAYMENT", "PENDING_ACCEPTANCE"} -> "offered"

\* What a session remembers agrees with the row and the contract of now.
Fresh(t) ==
    /\ t.op \in HasRow /\ t.of \notin overtaken => t.row.settlement = Settlement(t.of)
    /\ t.op = "inTx" /\ t.of \notin overtaken /\ t.seen = "PENDING_PAYMENT" =>
          Phase(t.of) = "offered"
    /\ t.op = "create" /\ t.of \notin overtaken /\ t.seen = "PENDING_PAYMENT" =>
          t.of \notin OpenOffer

\* The settlement, and that an open offer's contract is agreed from the start.
Follows ==
    \A c \in Contracts \ overtaken :
        /\ c \in OpenOffer => Phase(c) = "agreed" /\ Settlement(c) = "HELD"
        /\ c \notin OpenOffer =>
              /\ Phase(c) = "offered" => Settlement(c) = "HELD"
              /\ Phase(c) = "agreed" => Settlement(c) = "APPLIED"
              /\ Phase(c) = "refused" => Settlement(c) = "CONVERTED_TO_CREDIT"

AnswerInv == (\A s \in Sessions : Fresh(task[s])) /\ Follows

\* Nothing of what was answered changes.
Quiet == \A c \in Contracts \ overtaken : Phase(c)' = Phase(c) /\ Settlement(c)' = Settlement(c)
Calm == Quiet /\ AnswerInv'

\* A session goes on to something fresh, or none does anything.
FreshTask == \/ task' = task
             \/ \E s \in Sessions, t \in Task : Await(s, t) /\ Fresh(t)

LEMMA PhaseCases ==
    ASSUME TypeOK, NEW c \in Contracts
    PROVE  /\ contract[c].status = "ACCEPTED" => Phase(c) = "agreed"
           /\ contract[c].status = "REJECTED" => Phase(c) = "refused"
           /\ contract[c].status \in {"PENDING_PAYMENT", "PENDING_ACCEPTANCE"} => Phase(c) = "offered"
           /\ contract[c].status \in ContractStatus
BY DEF TypeOK, Phase, ContractStatus

\* What a task says stays fresh while the contract it names is left alone.
LEMMA FreshStays ==
    ASSUME NEW t \in Task, Fresh(t),
           overtaken \subseteq overtaken',
           t.op \in HasRow /\ t.of \notin overtaken' =>
              Settlement(t.of)' = Settlement(t.of) /\ Phase(t.of)' = Phase(t.of)
    PROVE  Fresh(t)'
BY DEF Fresh, HasRow

LEMMA QuietKeepsAnswers ==
    ASSUME TypeOK, AnswerInv, overtaken \subseteq overtaken', Quiet, FreshTask
    PROVE  AnswerInv'
<1>1. ASSUME NEW t \in Task, Fresh(t)
      PROVE  Fresh(t)'
  <2>1. t.op \in HasRow => t.of \in Contracts
    BY TaskFields
  <2>2. QED
    BY <1>1, <2>1, FreshStays DEF Quiet
<1>2. ASSUME NEW s \in Sessions
      PROVE  \E t \in Task : task'[s] = t /\ Fresh(t)
  BY DEF FreshTask, Await, TypeOK, AnswerInv
<1>3. ASSUME NEW s \in Sessions
      PROVE  Fresh(task[s])'
  <2>1. PICK t \in Task : task'[s] = t /\ Fresh(t)
    BY <1>2
  <2>2. Fresh(t)'
    BY <1>1, <2>1
  <2>3. QED
    BY <2>1, <2>2 DEF Fresh
<1>4. Follows'
  BY DEF Quiet, AnswerInv, Follows
<1>5. QED
  BY <1>3, <1>4 DEF AnswerInv

\* The steps that write neither a contract nor a payment.
LEMMA UnmovedIsCalm ==
    ASSUME IInv, AnswerInv, overtaken \subseteq overtaken', FreshTask, UNCHANGED <<contract, payment, moneyVars>>
    PROVE  Calm
<1>1. Quiet
  BY DEF Quiet, Phase, Settlement
<1>2. QED
  BY <1>1, QuietKeepsAnswers DEF Calm, IInv

\* A copy with the settlement of the row is saved; a contract that is not answered
\* may become an invite.
LEMMA SaveIsCalm ==
    ASSUME IInv, AnswerInv, overtaken \subseteq overtaken', FreshTask,
           NEW c \in Contracts, NEW row \in Row, Save(c, row),
           c \notin overtaken => row.settlement = Settlement(c),
           \/ contract' = contract
           \/ \E seen : /\ ConfirmContract(c, seen)
                        /\ c \notin overtaken /\ seen = "PENDING_PAYMENT" => Phase(c) = "offered"
    PROVE  Calm
<1>1. TypeOK
  BY DEF IInv
<1>2. \A d \in Contracts \ overtaken : Settlement(d)' = Settlement(d)
  BY <1>1, SaveTyped DEF Settlement
<1>3. \A d \in Contracts \ overtaken : Phase(d)' = Phase(d)
  <2>1. CASE contract' = contract
    BY <2>1 DEF Phase
  <2>2. ASSUME NEW seen, ConfirmContract(c, seen),
               c \notin overtaken /\ seen = "PENDING_PAYMENT" => Phase(c) = "offered"
        PROVE  \A d \in Contracts \ overtaken : Phase(d)' = Phase(d)
    <3>1. contract \in [Contracts -> [status : ContractStatus, paid : BOOLEAN]]
      BY <1>1 DEF TypeOK
    <3>2. CASE seen = "PENDING_PAYMENT"
      <4>1. contract' = [contract EXCEPT ![c] = [status |-> "PENDING_ACCEPTANCE", paid |-> TRUE]]
        BY <2>2, <3>2 DEF ConfirmContract
      <4>2. /\ contract'[c].status = "PENDING_ACCEPTANCE"
            /\ \A d \in Contracts : d # c => contract'[d] = contract[d]
        BY <3>1, <4>1
      <4>3. Phase(c)' = "offered"
        BY <4>2 DEF Phase
      <4>4. QED
        BY <2>2, <3>2, <4>2, <4>3 DEF Phase
    <3>3. CASE seen # "PENDING_PAYMENT"
      <4>1. contract' = [contract EXCEPT ![c] = [contract[c] EXCEPT !.paid = TRUE]]
        BY <2>2, <3>3 DEF ConfirmContract
      <4>2. [contract[c] EXCEPT !.paid = TRUE].status = contract[c].status
        BY <3>1
      <4>3. \A d \in Contracts : contract'[d].status = contract[d].status
        BY <3>1, <4>1, <4>2
      <4>4. QED
        BY <4>3 DEF Phase
    <3>4. QED
      BY <3>2, <3>3
  <2>3. QED
    BY <2>1, <2>2
<1>4. Quiet
  BY <1>2, <1>3 DEF Quiet
<1>5. QED
  BY <1>1, <1>4, QuietKeepsAnswers DEF Calm

\* Whoever ends a handler remembers nothing.
LEMMA IdleIsFresh ==
    ASSUME NEW s \in Sessions, Finish(s) \/ Await(s, Idle)
    PROVE  FreshTask
<1>1. Idle \in Task /\ Fresh(Idle)
  BY TasksAre DEF Fresh, HasRow
<1>2. QED
  BY <1>1 DEF FreshTask, Finish

LEMMA TaskIsFresh ==
    ASSUME AnswerInv, NEW s \in Sessions
    PROVE  Fresh(task[s])
BY DEF AnswerInv

\* The row a session holds has the settlement of the payment.
LEMMA HeldRow ==
    ASSUME IInv, AnswerInv, overtaken \subseteq overtaken', NEW s \in Sessions, task[s].op \in HasRow
    PROVE  /\ task[s].of \in Contracts /\ task[s].row \in Row
           /\ task[s].of \notin overtaken => task[s].row.settlement = Settlement(task[s].of)
           /\ task[s].row.credit \in Nat /\ task[s].row.credit < Total[task[s].of]
BY TaskRow, RowFields, TaskIsFresh DEF Fresh

\* A session goes on to work with a copy of the row.
LEMMA CopyIsFresh ==
    ASSUME NEW s \in Sessions, NEW op \in {"intent", "card", "pix", "saveCharge"},
           NEW c \in Contracts, NEW row \in Row,
           c \notin overtaken => row.settlement = Settlement(c),
           Await(s, [op |-> op, of |-> c, row |-> row])
    PROVE  FreshTask
<1>1. PICK t : t = [op |-> op, of |-> c, row |-> row]
  OBVIOUS
<1>2. t \in Task /\ t.op = op /\ t.of = c /\ t.row = row
  BY <1>1, TasksAre
<1>3. Fresh(t)
  BY <1>2 DEF Fresh
<1>4. QED
  BY <1>1, <1>2, <1>3 DEF FreshTask

LEMMA UnpaidNeedsAnswer ==
    ASSUME IInv, AnswerInv, overtaken \subseteq overtaken', NEW c \in Contracts \ overtaken,
           contract[c].status = "PENDING_PAYMENT"
    PROVE  Phase(c) = "offered" /\ c \notin OpenOffer
BY PhaseCases DEF IInv, AnswerInv, Follows

LEMMA InitiateNewIsCalm ==
    ASSUME IInv, AnswerInv, overtaken \subseteq overtaken', NEW s \in Sessions, NEW c \in Contracts, InitiateNew(s, c)
    PROVE  Calm
<1> DEFINE plan == IF balance <= Total[c] THEN balance ELSE Total[c]
           t == [op |-> "create", of |-> c, seen |-> contract[c].status, credit |-> plan]
<1>1. Await(s, t) /\ UNCHANGED <<contract, payment, moneyVars>>
  BY DEF InitiateNew
<1>2. plan \in Nat /\ contract[c].status \in ContractStatus
  BY PaymentConstants DEF IInv, TypeOK, NoOverdraft
<1> HIDE DEF plan
<1>3. t \in Task /\ t.op = "create" /\ t.of = c /\ t.seen = contract[c].status
  BY <1>2, TasksAre
<1> HIDE DEF t
<1>4. Fresh(t)
  BY <1>3, UnpaidNeedsAnswer DEF Fresh, HasRow
<1>5. FreshTask
  BY <1>1, <1>3, <1>4 DEF FreshTask
<1>6. QED
  BY <1>1, <1>5, UnmovedIsCalm

LEMMA InitiateExistingIsCalm ==
    ASSUME IInv, AnswerInv, overtaken \subseteq overtaken', NEW s \in Sessions, NEW c \in Contracts, InitiateExisting(s, c)
    PROVE  Calm
<1> DEFINE row == ResetForRetry(payment[c])
<1>1. payment[c] # NoPayment /\ payment[c] \in Row
  BY UnpaidIsChargeable DEF InitiateExisting
<1>2. row \in Row /\ row.settlement = payment[c].settlement
  BY <1>1, ResetIsRow DEF ResetForRetry, Row
<1>3. /\ Await(s, [op |-> "intent", of |-> c, row |-> row])
      /\ UNCHANGED <<contract, payment, moneyVars>>
  BY DEF InitiateExisting
<1> HIDE DEF row
<1>4. FreshTask
  BY <1>1, <1>2, <1>3, CopyIsFresh DEF Settlement
<1>5. QED
  BY <1>3, <1>4, UnmovedIsCalm

LEMMA BeginIsCalm ==
    ASSUME IInv, AnswerInv, overtaken \subseteq overtaken', NEW s \in Sessions, NEW c \in Contracts,
           BeginCard(s, c) \/ BeginPix(s, c)
    PROVE  Calm
<1>1. payment[c] # NoPayment /\ payment[c] \in Row
  BY UnpaidIsChargeable DEF BeginCard, BeginPix
<1>2. /\ \E op \in {"card", "pix"} : Await(s, [op |-> op, of |-> c, row |-> payment[c]])
      /\ UNCHANGED <<contract, payment, moneyVars>>
  BY DEF BeginCard, BeginPix
<1>3. FreshTask
  BY <1>1, <1>2, CopyIsFresh DEF Settlement
<1>4. QED
  BY <1>2, <1>3, UnmovedIsCalm

LEMMA ChargeIsCalm ==
    ASSUME IInv, AnswerInv, overtaken \subseteq overtaken', NEW s \in Sessions, NEW ch \in Charges,
           \/ ChargePix(s, ch)
           \/ \E status \in {"paid", "processing", "failed"} : ChargeCard(s, ch, status)
    PROVE  Calm
<1>1. task[s].op \in HasRow /\ UNCHANGED <<contract, payment, moneyVars>>
  BY DEF ChargePix, ChargeCard, HasRow
<1>2. /\ task[s].of \in Contracts /\ task[s].row \in Row
      /\ task[s].of \notin overtaken => task[s].row.settlement = Settlement(task[s].of)
  BY <1>1, HeldRow
<1>3. PICK row \in Row : /\ row.settlement = task[s].row.settlement
                         /\ Await(s, [op |-> "saveCharge", of |-> task[s].of, row |-> row])
  <2>1. CASE ChargePix(s, ch)
    <3>1. [task[s].row EXCEPT !.ext = ch, !.pix = ch, !.status = "processing"] \in Row
      BY <1>2 DEF Row, PaymentStatus
    <3>2. QED
      BY <1>2, <2>1, <3>1 DEF ChargePix, Row
  <2>2. ASSUME NEW status \in {"paid", "processing", "failed"}, ChargeCard(s, ch, status)
        PROVE  \E row \in Row :
                  /\ row.settlement = task[s].row.settlement
                  /\ Await(s, [op |-> "saveCharge", of |-> task[s].of, row |-> row])
    <3>1. [task[s].row EXCEPT !.ext = ch, !.status = status] \in Row
      BY <1>2 DEF Row, PaymentStatus
    <3>2. QED
      BY <1>2, <2>2, <3>1 DEF ChargeCard, Row
  <2>3. QED
    BY <2>1, <2>2
<1>4. FreshTask
  BY <1>2, <1>3, CopyIsFresh
<1>5. QED
  BY <1>1, <1>4, UnmovedIsCalm

LEMMA PayWithCreditIsCalm ==
    ASSUME IInv, AnswerInv, overtaken \subseteq overtaken', NEW s \in Sessions, PayWithCredit(s)
    PROVE  Calm
<1> DEFINE c == task[s].of
           credit == task[s].credit
           row == NewRow("paid", credit)
<1>1. c \in Contracts /\ credit \in Nat /\ credit = Total[c]
      /\ (c \notin overtaken /\ task[s].seen = "PENDING_PAYMENT" => c \notin OpenOffer)
  BY TaskIsOK, TaskFields, TaskIsFresh DEF PayWithCredit, Fresh
<1>2. row \in Row /\ row.settlement = "HELD"
  BY <1>1, NewRowIsRow DEF PaymentStatus, NewRow
<1>3. /\ payment[c] = NoPayment /\ Save(c, row) /\ Finish(s)
      /\ CreditCovered(c, credit) /\ DebitCredit(c, credit)
      /\ \/ ConfirmContract(c, task[s].seen)
         \/ contract' = contract
  BY DEF PayWithCredit
<1> HIDE DEF c, credit, row
<1>4. row.settlement = Settlement(c)
  BY <1>2, <1>3 DEF Settlement
<1>6. c \notin overtaken /\ task[s].seen = "PENDING_PAYMENT" => Phase(c) = "offered"
  <2>1. ~Funded(c)
    BY <1>1, <1>3 DEF Funded, IInv, ChargesHold, Chargeable
  <2>2. c \notin OpenOffer => contract[c].status = "PENDING_PAYMENT"
    BY <1>1, <2>1 DEF IInv, NothingOwedUnfunded
  <2>3. QED
    BY <1>1, <2>2, UnpaidNeedsAnswer
<1>7. FreshTask
  BY <1>3, IdleIsFresh
<1>8. QED
  BY <1>1, <1>2, <1>3, <1>4, <1>6, <1>7, SaveIsCalm

LEMMA InsertPaymentIsCalm ==
    ASSUME IInv, AnswerInv, overtaken \subseteq overtaken', NEW s \in Sessions, InsertPayment(s)
    PROVE  Calm
<1> DEFINE c == task[s].of
           row == NewRow("pending", task[s].credit)
<1>1. c \in Contracts /\ task[s].credit \in Nat
  BY TaskIsOK, TaskFields DEF InsertPayment
<1>2. row \in Row /\ row.settlement = "HELD"
  BY <1>1, NewRowIsRow DEF PaymentStatus, NewRow
<1>3. /\ payment[c] = NoPayment /\ Save(c, row) /\ UNCHANGED <<contract, moneyVars>>
      /\ Await(s, [op |-> "intent", of |-> c, row |-> row])
  BY DEF InsertPayment
<1> HIDE DEF c, row
<1>4. row.settlement = Settlement(c)
  BY <1>2, <1>3 DEF Settlement
<1>5. FreshTask
  BY <1>1, <1>2, <1>3, <1>4, CopyIsFresh
<1>6. contract' = contract
  BY <1>3
<1>7. QED
  BY <1>1, <1>2, <1>3, <1>4, <1>5, <1>6, SaveIsCalm

\* A save that only writes the payment.
LEMMA PlainSaveIsCalm ==
    ASSUME IInv, AnswerInv, overtaken \subseteq overtaken', NEW s \in Sessions,
           SaveIntent(s) \/ SaveCharge(s) \/ ApplyStatus(s)
    PROVE  Calm
<1> DEFINE c == task[s].of
           sent == [task[s].row EXCEPT !.intent = TRUE, !.status = "processing"]
<1>1. task[s].op \in HasRow
  BY DEF SaveIntent, SaveCharge, ApplyStatus, HasRow
<1>2. /\ c \in Contracts /\ task[s].row \in Row
      /\ c \notin overtaken => task[s].row.settlement = Settlement(c)
  BY <1>1, HeldRow
<1>3. sent \in Row /\ (c \notin overtaken => sent.settlement = Settlement(c))
  BY <1>2 DEF Row, PaymentStatus
<1>4. /\ Save(c, sent) \/ Save(c, task[s].row)
      /\ Await(s, Idle) /\ UNCHANGED <<contract, moneyVars>>
  BY DEF SaveIntent, SaveCharge, ApplyStatus, EndEvent, Finish
<1> HIDE DEF c, sent
<1>5. FreshTask
  BY <1>4, IdleIsFresh
<1>6. contract' = contract
  BY <1>4
<1>7. QED
  BY <1>2, <1>3, <1>4, <1>5, <1>6, SaveIsCalm

\* A confirmation: the card's, or a notification's.
LEMMA ConfirmIsCalm ==
    ASSUME IInv, AnswerInv, overtaken \subseteq overtaken', NEW s \in Sessions, ConfirmCard(s) \/ ConfirmPaid(s)
    PROVE  Calm
<1> DEFINE c == task[s].of
           row == task[s].row
<1>1. task[s].op \in HasRow
  BY DEF ConfirmCard, ConfirmPaid, HasRow
<1>2. /\ c \in Contracts /\ row \in Row /\ (c \notin overtaken => row.settlement = Settlement(c))
      /\ row.credit \in Nat /\ row.credit < Total[c]
  BY <1>1, HeldRow
<1>3. FreshTask
  BY IdleIsFresh DEF ConfirmCard, ConfirmPaid, EndEvent
<1>4. \/ UNCHANGED <<contract, payment, moneyVars>>
      \/ /\ CreditCovered(c, row.credit) /\ DebitCredit(c, row.credit) /\ Save(c, row)
         /\ \E seen : /\ ConfirmContract(c, seen)
                      /\ \/ seen = contract[c].status
                         \/ task[s].op = "inTx" /\ seen = task[s].seen
  BY DEF ConfirmCard, ConfirmPaid, moneyVars
<1>5. task[s].op = "inTx" /\ c \notin overtaken /\ task[s].seen = "PENDING_PAYMENT" =>
         Phase(c) = "offered"
  BY TaskIsFresh DEF Fresh
<1>6. c \notin overtaken /\ contract[c].status = "PENDING_PAYMENT" => Phase(c) = "offered"
  BY <1>2, UnpaidNeedsAnswer
<1> HIDE DEF c, row
<1>7. CASE UNCHANGED <<contract, payment, moneyVars>>
  BY <1>3, <1>7, UnmovedIsCalm
<1>8. CASE /\ CreditCovered(c, row.credit) /\ DebitCredit(c, row.credit) /\ Save(c, row)
           /\ \E seen : /\ ConfirmContract(c, seen)
                        /\ \/ seen = contract[c].status
                           \/ task[s].op = "inTx" /\ seen = task[s].seen
  <2>1. \E seen : /\ ConfirmContract(c, seen)
                  /\ c \notin overtaken /\ seen = "PENDING_PAYMENT" => Phase(c) = "offered"
    BY <1>5, <1>6, <1>8
  <2>2. QED
    BY <1>2, <1>3, <1>8, <2>1, SaveIsCalm
<1>9. QED
  BY <1>4, <1>7, <1>8

LEMMA LoadPaymentIsCalm ==
    ASSUME IInv, AnswerInv, overtaken \subseteq overtaken', NEW s \in Sessions, LoadPayment(s)
    PROVE  Calm
<1> DEFINE ch == task[s].charge
           c == charge[ch].of
           row == [payment[c] EXCEPT !.status = task[s].status, !.ext = ch]
           t == [op |-> "loaded", event |-> task[s].event, of |-> c, seen |-> None, row |-> row]
<1>1. /\ task[s].event \in Events /\ ch \in Charges /\ task[s].status \in GatewayStatus
      /\ charge[ch] # NoCharge
  BY TaskIsOK, TaskFields DEF LoadPayment, TaskOK
<1>2. UNCHANGED <<contract, payment, moneyVars>>
  BY DEF LoadPayment
<1>3. CASE \E status \in {"orphan", "processed"} : EndEvent(s, status)
  BY <1>2, <1>3, IdleIsFresh, UnmovedIsCalm DEF EndEvent
<1>4. CASE Await(s, t)
  <2>1. c \in Contracts /\ payment[c] # NoPayment /\ payment[c] \in Row
    BY <1>1, ChargeIsThere, PaymentIsRow DEF IInv, ChargesHold, Chargeable
  <2>2. row \in Row /\ row.settlement = Settlement(c)
    BY <1>1, <2>1 DEF Row, GatewayStatus, Settlement
  <2>3. t.op = "loaded" /\ t.of = c /\ t.row = row
    OBVIOUS
  <2> HIDE DEF row, c
  <2>4. t \in Task
    BY <1>1, <2>1, <2>2, TasksAre
  <2> HIDE DEF t
  <2>5. Fresh(t)
    BY <2>2, <2>3 DEF Fresh
  <2>6. FreshTask
    BY <1>4, <2>4, <2>5 DEF FreshTask
  <2>7. QED
    BY <1>2, <2>6, UnmovedIsCalm
<1>5. QED
  BY <1>3, <1>4 DEF LoadPayment

LEMMA ReadContractIsCalm ==
    ASSUME IInv, AnswerInv, overtaken \subseteq overtaken', NEW s \in Sessions, ReadContract(s)
    PROVE  Calm
<1> DEFINE c == task[s].of
           t == [task[s] EXCEPT !.op = "inTx", !.seen = contract[c].status]
<1>1. /\ task[s].op = "loaded" /\ Await(s, t) /\ UNCHANGED <<contract, payment, moneyVars>>
  BY DEF ReadContract
<1>2. c \in Contracts /\ (c \notin overtaken => task[s].row.settlement = Settlement(c))
  BY <1>1, HeldRow DEF HasRow
<1>3. contract[c].status \in ContractStatus
  BY <1>2 DEF IInv, TypeOK
<1>4. task[s] \in [op : {"loaded", "inTx"}, event : Events, of : Contracts, row : Row,
                   seen : ContractStatus \cup {None}]
  <2>1. task[s] \in Task
    BY TaskIsOK
  <2>2. QED
    BY <1>1, <2>1 DEF Task, Idle
<1>5. /\ t \in [op : {"loaded", "inTx"}, event : Events, of : Contracts, row : Row,
                seen : ContractStatus \cup {None}]
      /\ t.op = "inTx" /\ t.of = c /\ t.row = task[s].row /\ t.seen = contract[c].status
  BY <1>1, <1>3, <1>4
<1> HIDE DEF c, t
<1>6. t \in Task
  BY <1>5 DEF Task
<1>7. Fresh(t)
  BY <1>2, <1>5, UnpaidNeedsAnswer DEF Fresh
<1>8. FreshTask
  BY <1>1, <1>6, <1>7 DEF FreshTask
<1>9. QED
  BY <1>1, <1>8, UnmovedIsCalm

LEMMA ReceiveEventIsCalm ==
    ASSUME IInv, AnswerInv, overtaken \subseteq overtaken', NEW s \in Sessions, NEW e \in Events, NEW ch \in Charges,
           ReceiveEvent(s, e, ch)
    PROVE  Calm
<1> DEFINE t == [op |-> "fetched", event |-> e, charge |-> ch, status |-> charge[ch].status]
<1>1. /\ Await(s, t) /\ charge[ch] # NoCharge /\ UNCHANGED <<contract, payment, moneyVars>>
  BY DEF ReceiveEvent
<1>2. charge[ch].status \in GatewayStatus
  BY <1>1, ChargeIsThere DEF IInv, Charge
<1>3. t \in Task /\ Fresh(t)
  BY <1>2, TasksAre DEF Fresh, HasRow
<1>4. FreshTask
  BY <1>1, <1>3 DEF FreshTask
<1>5. QED
  BY <1>1, <1>4, UnmovedIsCalm

\* The gateway, a crash and a stutter.
LEMMA OtherIsCalm ==
    ASSUME IInv, AnswerInv, overtaken \subseteq overtaken',
           \/ UNCHANGED vars
           \/ \E s \in Sessions : Abandon(s)
           \/ \E ch \in Charges :
                 ApproveCharge(ch) \/ RefuseCharge(ch) \/ RefundCharge(ch) \/ ExpirePix(ch)
    PROVE  Calm
<1>1. UNCHANGED <<contract, payment, moneyVars>>
  BY DEF vars, moneyVars, Abandon, ApproveCharge, RefuseCharge, RefundCharge, ExpirePix,
         SetChargeStatus
<1>2. FreshTask
  BY IdleIsFresh DEF FreshTask, vars, Abandon, ApproveCharge, RefuseCharge, RefundCharge,
                     ExpirePix, SetChargeStatus
<1>3. QED
  BY <1>1, <1>2, UnmovedIsCalm

\* Only an answer moves anything that the two sides and the balance were promised.
LEMMA CalmButForAnswers ==
    ASSUME IInv, AnswerInv, overtaken \subseteq overtaken', [Next]_vars
    PROVE  Calm \/ \E c \in Contracts : Accept(c) \/ Reject(c)
<1>1. ASSUME NEW s \in Sessions,
             \/ \E c \in Contracts : InitiateNew(s, c)
             \/ \E c \in Contracts : InitiateExisting(s, c)
             \/ PayWithCredit(s) \/ InsertPayment(s)
             \/ \E c \in Contracts : BeginCard(s, c)
             \/ \E c \in Contracts : BeginPix(s, c)
      PROVE  Calm
  BY <1>1, InitiateNewIsCalm, InitiateExistingIsCalm, PayWithCreditIsCalm,
     InsertPaymentIsCalm, BeginIsCalm
<1>2. ASSUME NEW s \in Sessions,
             \/ \E ch \in Charges, status \in {"paid", "processing", "failed"} :
                    ChargeCard(s, ch, status)
             \/ \E ch \in Charges : ChargePix(s, ch)
             \/ SaveIntent(s) \/ SaveCharge(s) \/ ConfirmCard(s)
      PROVE  Calm
  BY <1>2, ChargeIsCalm, PlainSaveIsCalm, ConfirmIsCalm
<1>3. ASSUME NEW s \in Sessions,
             \/ \E e \in Events, ch \in Charges : ReceiveEvent(s, e, ch)
             \/ LoadPayment(s) \/ ApplyStatus(s) \/ ReadContract(s) \/ ConfirmPaid(s)
      PROVE  Calm
  BY <1>3, ReceiveEventIsCalm, LoadPaymentIsCalm, PlainSaveIsCalm, ReadContractIsCalm,
     ConfirmIsCalm
<1>4. QED
  BY <1>1, <1>2, <1>3, OtherIsCalm DEF Next

\* The creator answers an invite: the payment follows, whatever copies of its row
\* there are.
LEMMA AnswerMoves ==
    ASSUME IInv, AnswerInv, NEW c \in Contracts, Accept(c) \/ Reject(c)
    PROVE  /\ task' = task /\ Phase(c) = "offered"
           /\ \A d \in Contracts :
                 d # c => Phase(d)' = Phase(d) /\ Settlement(d)' = Settlement(d)
           /\ c \notin overtaken =>
                 /\ c \notin OpenOffer
                 /\ \/ Phase(c)' = "agreed" /\ Settlement(c)' = "APPLIED"
                    \/ Phase(c)' = "refused" /\ Settlement(c)' = "CONVERTED_TO_CREDIT"
<1>1. PICK answer \in {"ACCEPTED", "REJECTED"} :
         /\ AnswerInvite(c, answer)
         /\ \/ answer = "ACCEPTED" /\ Accept(c)
            \/ answer = "REJECTED" /\ Reject(c)
  BY DEF Accept, Reject
<1>2. contract[c].status = "PENDING_ACCEPTANCE" /\ contract' = [contract EXCEPT ![c].status = answer]
  BY <1>1 DEF AnswerInvite
<1>3. /\ contract'[c].status = answer
      /\ \A d \in Contracts : d # c => contract'[d] = contract[d]
  BY <1>2 DEF IInv, TypeOK
<1>4. payment[c] # NoPayment /\ payment[c] \in Row /\ payment[c].settlement = Settlement(c)
  BY <1>2, PaymentIsRow DEF IInv, InviteHasPayment, Settlement
<1>5. /\ Phase(c) = "offered"
      /\ c \notin overtaken => Settlement(c) = "HELD" /\ c \notin OpenOffer
  BY <1>2, PhaseCases DEF IInv, AnswerInv, Follows
<1> DEFINE settled == IF answer = "ACCEPTED" THEN "APPLIED" ELSE "CONVERTED_TO_CREDIT"
<1>6. PICK settlement \in SettlementStatus :
         /\ payment' = [payment EXCEPT ![c].settlement = settlement]
         /\ Settlement(c) = "HELD" => settlement = settled
  BY <1>1, <1>4, RowFields DEF Accept, Reject, SettlementStatus
<1> DEFINE row == [payment[c] EXCEPT !.settlement = settlement]
<1>7. row \in Row /\ row.settlement = settlement /\ payment' = [payment EXCEPT ![c] = row]
  BY <1>4, <1>6 DEF Row
<1> HIDE DEF row
<1>8. payment'[c] = row /\ \A d \in Contracts : d # c => payment'[d] = payment[d]
  BY <1>7 DEF IInv, TypeOK
<1>9. Settlement(c)' = settlement
  BY <1>7, <1>8, RowIsPayment DEF Settlement
<1>10. \A d \in Contracts : d # c => Phase(d)' = Phase(d) /\ Settlement(d)' = Settlement(d)
  BY <1>3, <1>8 DEF Phase, Settlement
<1>11. Phase(c)' = IF answer = "ACCEPTED" THEN "agreed" ELSE "refused"
  BY <1>3 DEF Phase
<1>12. task' = task
  BY <1>1 DEF Accept, Reject
<1>13. QED
  BY <1>5, <1>6, <1>9, <1>10, <1>11, <1>12

LEMMA AnswerKeepsFresh ==
    ASSUME IInv, AnswerInv, overtaken \subseteq overtaken', NEW c \in Contracts,
           Accept(c) \/ Reject(c), Overtakes(c) => c \in overtaken'
    PROVE  AnswerInv'
<1>1. /\ task' = task
      /\ \A d \in Contracts : d # c => Phase(d)' = Phase(d) /\ Settlement(d)' = Settlement(d)
      /\ c \notin overtaken =>
            /\ c \notin OpenOffer
            /\ \/ Phase(c)' = "agreed" /\ Settlement(c)' = "APPLIED"
               \/ Phase(c)' = "refused" /\ Settlement(c)' = "CONVERTED_TO_CREDIT"
  BY AnswerMoves
<1>2. ASSUME NEW s \in Sessions
      PROVE  Fresh(task[s])'
  <2>1. PICK t : t = task[s]
    OBVIOUS
  <2>2. t \in Task /\ Fresh(t)
    BY <2>1, TaskIsOK, TaskIsFresh
  <2>3. t.op \in HasRow => t.of \in Contracts /\ (t.of = c => c \in overtaken')
    BY <2>1, <2>2, TaskFields DEF Overtakes, HoldsCopy, HasRow
  <2>4. Fresh(t)'
    BY <1>1, <2>2, <2>3, FreshStays
  <2>5. QED
    BY <1>1, <2>1, <2>4 DEF Fresh
<1>3. Follows'
  BY <1>1 DEF AnswerInv, Follows
<1>4. QED
  BY <1>2, <1>3 DEF AnswerInv

LEMMA InitAnswerInv ==
    ASSUME HistoryInit
    PROVE  AnswerInv
<1>1. \A s \in Sessions : Fresh(task[s])
  BY TasksAre DEF HistoryInit, Init, Fresh, HasRow
<1>2. \A c \in Contracts :
         /\ Phase(c) = IF c \in OpenOffer THEN "agreed" ELSE "offered"
         /\ Settlement(c) = "HELD"
  BY DEF HistoryInit, Init, Phase, Settlement
<1>3. QED
  BY <1>1, <1>2 DEF AnswerInv, Follows

LEMMA NextAnswerInv ==
    ASSUME IInv, AnswerInv, [HistoryNext]_historyVars
    PROVE  /\ AnswerInv'
           /\ AnswerStands
<1>1. /\ overtaken \subseteq overtaken' /\ [Next]_vars
      /\ UNCHANGED vars \/ \A c \in Contracts : Overtakes(c) => c \in overtaken'
  BY DEF HistoryNext, historyVars
<1>2. \A c \in Contracts \ overtaken :
         /\ contract[c].status = "ACCEPTED" <=> Phase(c) = "agreed"
         /\ contract[c].status = "REJECTED" <=> Phase(c) = "refused"
         /\ contract'[c].status = "ACCEPTED" <=> Phase(c)' = "agreed"
         /\ contract'[c].status = "REJECTED" <=> Phase(c)' = "refused"
  <2>1. TypeOK'
    BY <1>1, NextIInv DEF IInv
  <2>2. \A c \in Contracts : contract[c].status \in ContractStatus /\ contract'[c].status \in ContractStatus
    BY <2>1 DEF IInv, TypeOK
  <2>3. QED
    BY <2>2 DEF Phase, ContractStatus
<1>3. CASE Calm
  BY <1>2, <1>3 DEF Calm, Quiet, AnswerStands
<1>4. ASSUME NEW c \in Contracts, Accept(c) \/ Reject(c), ~Calm
      PROVE  AnswerInv' /\ AnswerStands
  <2>1. ~UNCHANGED vars
    BY <1>1, <1>4, OtherIsCalm
  <2>2. AnswerInv'
    BY <1>1, <1>4, <2>1, AnswerKeepsFresh
  <2>3. /\ Phase(c) = "offered"
        /\ \A d \in Contracts : d # c => Phase(d)' = Phase(d) /\ Settlement(d)' = Settlement(d)
    BY <1>4, AnswerMoves
  <2>4. QED
    BY <1>2, <2>2, <2>3 DEF AnswerStands
<1>5. QED
  BY <1>1, <1>3, <1>4, CalmButForAnswers

LEMMA FollowsIsSettlement ==
    ASSUME IInv, AnswerInv
    PROVE  SettlementFollows
<1>1. \A c \in Contracts : contract[c].status \in ContractStatus
  BY DEF IInv, TypeOK
<1>2. QED
  BY <1>1 DEF AnswerInv, Follows, SettlementFollows, Phase, ContractStatus

-----------------------------------------------------------------------------
(***************************************************************************)
(* Which paid contracts say so.                                            *)
(***************************************************************************)
LEMMA SaidStays ==
    ASSUME IInv, ChargedContractSaysPaid,
           \A c \in Contracts : contract[c].paid => contract'[c].paid,
           \A c \in Contracts : payment'[c].status = "paid" =>
              payment[c].status = "paid" /\ payment'[c].credit = payment[c].credit
    PROVE  ChargedContractSaysPaid'
BY DEF ChargedContractSaysPaid

\* A confirmation sets paymentStatus whatever the contract's status was.
LEMMA ConfirmSays ==
    ASSUME TypeOK, NEW c \in Contracts, NEW seen, ConfirmContract(c, seen)
    PROVE  contract'[c].paid /\ \A d \in Contracts : contract[d].paid => contract'[d].paid
<1>1. contract \in [Contracts -> [status : ContractStatus, paid : BOOLEAN]]
  BY DEF TypeOK
<1>2. CASE seen = "PENDING_PAYMENT"
  <2>1. contract' = [contract EXCEPT ![c] = [status |-> "PENDING_ACCEPTANCE", paid |-> TRUE]]
    BY <1>2 DEF ConfirmContract
  <2>2. QED
    BY <1>1, <2>1
<1>3. CASE seen # "PENDING_PAYMENT"
  <2>1. contract' = [contract EXCEPT ![c] = [contract[c] EXCEPT !.paid = TRUE]]
    BY <1>3 DEF ConfirmContract
  <2>2. QED
    BY <1>1, <2>1
<1>4. QED
  BY <1>2, <1>3

LEMMA SaveSays ==
    ASSUME IInv, ChargedContractSaysPaid, NEW c \in Contracts, NEW row \in Row, Save(c, row),
           \/ row.status # "paid" /\ contract' = contract
           \/ c \in OpenOffer /\ row.credit = Total[c] /\ contract' = contract
           \/ \E seen : ConfirmContract(c, seen)
    PROVE  ChargedContractSaysPaid'
<1>1. payment'[c] = row /\ \A d \in Contracts : d # c => payment'[d] = payment[d]
  BY SaveTyped DEF IInv
<1>2. \A d \in Contracts : contract[d].paid => contract'[d].paid
  BY ConfirmSays DEF IInv
<1>3. ASSUME row.status = "paid", c \notin OpenOffer \/ row.credit < Total[c]
      PROVE  contract'[c].paid
  <2>1. ~(row.credit = Total[c] /\ c \in OpenOffer)
    BY <1>3, RowFields, PaymentConstants
  <2>2. QED
    BY <1>3, <2>1, ConfirmSays DEF IInv
<1>4. QED
  BY <1>1, <1>2, <1>3 DEF ChargedContractSaysPaid

LEMMA PayWithCreditSays ==
    ASSUME IInv, ChargedContractSaysPaid, NEW s \in Sessions, PayWithCredit(s)
    PROVE  ChargedContractSaysPaid'
<1> DEFINE c == task[s].of
           credit == task[s].credit
           row == NewRow("paid", credit)
<1>1. /\ c \in Contracts /\ credit \in Nat /\ credit = Total[c]
      /\ task[s].seen = "PENDING_PAYMENT" \/ contract[c].status # "PENDING_PAYMENT"
  BY TaskIsOK, TaskFields DEF PayWithCredit, TaskOK
<1>2. row \in Row /\ row.credit = Total[c]
  BY <1>1, NewRowIsRow DEF PaymentStatus
<1>3. /\ payment[c] = NoPayment /\ Save(c, row)
      /\ \/ ConfirmContract(c, task[s].seen)
         \/ contract' = contract /\ task[s].seen # "PENDING_PAYMENT"
  BY DEF PayWithCredit
<1> HIDE DEF c, credit, row
<1>4. c \notin OpenOffer => contract[c].status = "PENDING_PAYMENT"
  <2>1. ~Funded(c)
    BY <1>1, <1>3 DEF Funded, IInv, ChargesHold, Chargeable
  <2>2. QED
    BY <1>1, <2>1 DEF IInv, NothingOwedUnfunded
<1>5. \/ \E seen : ConfirmContract(c, seen)
      \/ c \in OpenOffer /\ contract' = contract
  BY <1>1, <1>3, <1>4
<1>6. QED
  BY <1>1, <1>2, <1>3, <1>5, SaveSays

\* The other saves: of a row that does not say paid, or with a confirmation.
LEMMA SessionSays ==
    ASSUME IInv, ChargedContractSaysPaid, NEW s \in Sessions,
           \/ InsertPayment(s) \/ SaveIntent(s) \/ SaveCharge(s) \/ ApplyStatus(s)
           \/ ConfirmCard(s) \/ ConfirmPaid(s)
    PROVE  ChargedContractSaysPaid'
<1> DEFINE c == task[s].of
           new == NewRow("pending", task[s].credit)
           sent == [task[s].row EXCEPT !.intent = TRUE, !.status = "processing"]
<1>1. c \in Contracts /\ (~InsertPayment(s) => task[s].row \in Row)
  BY TaskRow, TaskIsOK, TaskFields
     DEF InsertPayment, SaveIntent, SaveCharge, ApplyStatus, ConfirmCard, ConfirmPaid, HasRow
<1>2. CASE InsertPayment(s)
  <2>1. new \in Row /\ new.status = "pending" /\ Save(c, new) /\ contract' = contract
    BY <1>2, TaskIsOK, TaskFields, NewRowIsRow DEF InsertPayment, PaymentStatus
  <2> HIDE DEF new, c
  <2>2. QED
    BY <1>1, <2>1, SaveSays
<1>3. CASE SaveIntent(s)
  <2>1. task[s].row \in Row
    BY <1>3, TaskRow DEF SaveIntent, HasRow
  <2>2. sent \in Row /\ sent.status = "processing" /\ Save(c, sent) /\ contract' = contract
    BY <1>3, <2>1 DEF SaveIntent, Row, PaymentStatus
  <2> HIDE DEF sent, c
  <2>3. QED
    BY <1>1, <2>2, SaveSays
<1>4. CASE SaveCharge(s) \/ ApplyStatus(s)
  <2>1. task[s].row \in Row /\ task[s].row.status # "paid" /\ Save(c, task[s].row)
        /\ contract' = contract
    BY <1>4, TaskRow DEF SaveCharge, ApplyStatus, HasRow
  <2> HIDE DEF c
  <2>2. QED
    BY <1>1, <2>1, SaveSays
<1>5. CASE ConfirmCard(s) \/ ConfirmPaid(s)
  <2>1. task[s].row \in Row
    BY <1>5, TaskRow DEF ConfirmCard, ConfirmPaid, HasRow
  <2>2. \/ Save(c, task[s].row) /\ \E seen : ConfirmContract(c, seen)
        \/ payment' = payment /\ contract' = contract
    BY <1>5 DEF ConfirmCard, ConfirmPaid
  <2> HIDE DEF c
  <2>3. QED
    BY <1>1, <2>1, <2>2, SaveSays, SaidStays
<1>6. QED
  BY <1>2, <1>3, <1>4, <1>5

LEMMA NextSays ==
    ASSUME IInv, ChargedContractSaysPaid, [Next]_vars
    PROVE  ChargedContractSaysPaid'
<1>1. CASE payment' = payment /\ contract' = contract
  BY <1>1, SaidStays
<1>2. ASSUME NEW c \in Contracts, Accept(c) \/ Reject(c)
      PROVE  ChargedContractSaysPaid'
  <2>1. /\ \E settlement : payment' = [payment EXCEPT ![c].settlement = settlement]
        /\ \E answer : contract' = [contract EXCEPT ![c].status = answer]
    BY <1>2 DEF Accept, Reject, AnswerInvite
  <2>2. payment[c] \in Row
    BY <1>2, PaymentIsRow DEF Accept, Reject, AnswerInvite, IInv, InviteHasPayment
  <2>3. \A d \in Contracts :
           payment'[d].status = payment[d].status /\ payment'[d].credit = payment[d].credit
    BY <2>1, <2>2 DEF IInv, TypeOK, Row
  <2>4. \A d \in Contracts : contract'[d].paid = contract[d].paid
    BY <2>1 DEF IInv, TypeOK
  <2>5. QED
    BY <2>3, <2>4, SaidStays
<1>3. ASSUME NEW s \in Sessions,
             \/ \E c \in Contracts : InitiateNew(s, c)
             \/ \E c \in Contracts : InitiateExisting(s, c)
             \/ \E c \in Contracts : BeginCard(s, c)
             \/ \E c \in Contracts : BeginPix(s, c)
             \/ \E ch \in Charges, status \in {"paid", "processing", "failed"} :
                    ChargeCard(s, ch, status)
             \/ \E ch \in Charges : ChargePix(s, ch)
             \/ \E e \in Events, ch \in Charges : ReceiveEvent(s, e, ch)
             \/ LoadPayment(s) \/ ReadContract(s) \/ Abandon(s)
      PROVE  payment' = payment /\ contract' = contract
  BY <1>3 DEF InitiateNew, InitiateExisting, BeginCard, BeginPix, ChargeCard, ChargePix,
              ReceiveEvent, LoadPayment, ReadContract, Abandon
<1>4. CASE \/ UNCHANGED vars
           \/ \E ch \in Charges :
                 ApproveCharge(ch) \/ RefuseCharge(ch) \/ RefundCharge(ch) \/ ExpirePix(ch)
  BY <1>1, <1>4 DEF vars, ApproveCharge, RefuseCharge, RefundCharge, ExpirePix, SetChargeStatus
<1>5. QED
  BY <1>1, <1>2, <1>3, <1>4, PayWithCreditSays, SessionSays DEF Next

\* "so atualiza paymentStatus" (webhooks.service.ts): the contract of a paid payment
\* says that it is paid, in any interleaving, unless it came from an open offer and
\* credit alone paid for it.
THEOREM PaidIsSaid == Spec => []ChargedContractSaysPaid
<1>1. Init => ChargedContractSaysPaid
  BY DEF Init, ChargedContractSaysPaid, NoPayment
<1>2. IInv /\ ChargedContractSaysPaid /\ [Next]_vars => ChargedContractSaysPaid'
  BY NextSays
<1>3. QED
  BY <1>1, <1>2, Invariance, PTL DEF Spec

-----------------------------------------------------------------------------
(***************************************************************************)
(* One payout.  As long as no two sessions ever held copies of its row and *)
(* no charge of it was refunded, a payment that reads paid is final: its   *)
(* charge stays paid, so that no notification of it applies any more, and  *)
(* no session keeps a copy of an earlier state of the row.                 *)
(***************************************************************************)
Kept(c) == c \notin crossed /\ ~Refunded(c)
Recorded == \A c \in Contracts \ crossed : ~CopiedTwice(c)

PaidBy(ch, c) ==
    ch # None /\ charge[ch] # NoCharge /\ charge[ch].of = c /\ charge[ch].status = "paid"

\* What paid for a payment: the charge its row names, or credit alone.
PaidByItsCharge ==
    \A c \in Contracts : Kept(c) /\ payment[c].status = "paid" =>
        \/ PaidBy(payment[c].ext, c)
        \/ payment[c].ext = None /\ ~Chargeable(c)

Unsettled(t) ==
    /\ t.op \in HasRow /\ Kept(t.of) =>
          /\ payment[t.of].status # "paid"
          /\ t.row.status = "paid" => PaidBy(t.row.ext, t.of)
    /\ t.op = "fetched" /\ Kept(charge[t.charge].of) /\ t.status # "processing" =>
          charge[t.charge].status = t.status

OnceInv == PaidOnce /\ PaidByItsCharge /\ \A s \in Sessions : Unsettled(task[s])

\* What a charge has come to stays, or is refunded.
Lasting == {"paid", "failed", "canceled"}
ChargesLast ==
    \A ch \in Charges : charge[ch] # NoCharge =>
        /\ charge'[ch] # NoCharge /\ charge'[ch].of = charge[ch].of
        /\ charge[ch].status \in Lasting => charge'[ch].status \in {charge[ch].status, "refunded"}
        /\ charge[ch].status = "refunded" => charge'[ch].status = "refunded"

LEMMA KeptShrinks ==
    ASSUME crossed \subseteq crossed', ChargesLast, NEW c, Kept(c)'
    PROVE  Kept(c)
BY DEF Kept, Refunded, ChargesLast

LEMMA ChargesUnmoved ==
    ASSUME charge' = charge
    PROVE  ChargesLast /\ \A ch, c : PaidBy(ch, c)' = PaidBy(ch, c)
BY DEF ChargesLast, PaidBy

LEMMA PaidByLasts ==
    ASSUME ChargesLast, NEW ch \in Charges, NEW c, PaidBy(ch, c), Kept(c)'
    PROVE  PaidBy(ch, c)'
<1>1. charge'[ch] # NoCharge /\ charge'[ch].of = c /\ charge'[ch].status \in {"paid", "refunded"}
  BY DEF PaidBy, ChargesLast, Lasting
<1>2. QED
  BY <1>1 DEF PaidBy, Kept, Refunded

\* A session only remembers something.
LEMMA OnceRemembers ==
    ASSUME IInv, OnceInv, crossed \subseteq crossed', NEW s \in Sessions, NEW t, Await(s, t), Unsettled(t),
           UNCHANGED <<payment, charge, payouts>>
    PROVE  OnceInv'
<1>1. \A r \in Sessions : task'[r] = IF r = s THEN t ELSE task[r]
  BY DEF Await, IInv, TypeOK
<1>2. ChargesLast /\ \A c : Kept(c)' => Kept(c)
  BY ChargesUnmoved, KeptShrinks
<1>3. ASSUME NEW r \in Sessions
      PROVE  Unsettled(task[r])'
  BY <1>1, <1>2 DEF Unsettled, OnceInv, PaidBy
<1>4. PaidOnce' /\ PaidByItsCharge'
  BY <1>2 DEF OnceInv, PaidOnce, PaidByItsCharge, Chargeable, PaidBy, Kept
<1>5. QED
  BY <1>3, <1>4 DEF OnceInv

LEMMA OnceCharges ==
    ASSUME IInv, OnceInv, crossed \subseteq crossed', UNCHANGED <<payment, payouts>>, ChargesLast,
           \/ task' = task
           \/ \E s \in Sessions : \E t : Await(s, t) /\ Unsettled(t)'
    PROVE  OnceInv'
<1>1. \A c : Kept(c)' => Kept(c)
  BY KeptShrinks
<1>2. PaidOnce'
  BY <1>1 DEF OnceInv, PaidOnce, Kept
<1>3. PaidByItsCharge'
  <2> SUFFICES ASSUME NEW c \in Contracts, Kept(c)', payment[c].status = "paid"
               PROVE  \/ PaidBy(payment[c].ext, c)'
                      \/ payment[c].ext = None /\ ~Chargeable(c)'
    BY DEF PaidByItsCharge
  <2>1. payment[c].ext \in Charges \cup {None}
    BY PaymentIsRow, RowFields DEF IInv, NoPayment
  <2>2. PaidBy(payment[c].ext, c) \/ (payment[c].ext = None /\ ~Chargeable(c))
    BY <1>1 DEF OnceInv, PaidByItsCharge
  <2>3. CASE PaidBy(payment[c].ext, c)
    <3>1. PICK ch \in Charges : ch = payment[c].ext
      BY <2>1, <2>3 DEF PaidBy
    <3>2. PaidBy(ch, c)'
      BY <2>3, <3>1, PaidByLasts
    <3>3. QED
      BY <3>1, <3>2 DEF PaidBy
  <2>4. CASE payment[c].ext = None /\ ~Chargeable(c)
    BY <2>4 DEF Chargeable
  <2>5. QED
    BY <2>2, <2>3, <2>4
<1>4. ASSUME NEW r \in Sessions, NEW t, t = task[r]
      PROVE  Unsettled(t)'
  <2>1. t \in Task /\ Unsettled(t) /\ TaskOK(t)
    BY <1>4, TaskIsOK DEF OnceInv
  <2>2. /\ t.op \in HasRow => t.row.ext \in Charges \cup {None}
        /\ t.op = "fetched" => /\ t.charge \in Charges /\ t.status \in GatewayStatus
                               /\ charge[t.charge] # NoCharge
    BY <2>1, TaskFields, RowFields DEF TaskOK
  <2>3. ASSUME t.op \in HasRow, Kept(t.of)'
        PROVE  /\ payment'[t.of].status # "paid"
               /\ t.row.status = "paid" => PaidBy(t.row.ext, t.of)'
    <3>1. /\ payment[t.of].status # "paid"
          /\ t.row.status = "paid" => PaidBy(t.row.ext, t.of)
      BY <1>1, <2>1, <2>3 DEF Unsettled
    <3>2. PaidBy(t.row.ext, t.of) => t.row.ext \in Charges
      BY <2>2, <2>3 DEF PaidBy
    <3>3. PaidBy(t.row.ext, t.of) => PaidBy(t.row.ext, t.of)'
      <4>1. PICK ch, c : ch = t.row.ext /\ c = t.of
        OBVIOUS
      <4>2. PaidBy(ch, c) => ch \in Charges /\ Kept(c)'
        BY <2>3, <3>2, <4>1 DEF Kept, Refunded
      <4>3. PaidBy(ch, c) => PaidBy(ch, c)'
        BY <4>2, PaidByLasts
      <4>4. QED
        BY <4>1, <4>3 DEF PaidBy
    <3>4. QED
      BY <3>1, <3>3
  <2>4. ASSUME t.op = "fetched", Kept(charge[t.charge].of)', t.status # "processing"
        PROVE  charge'[t.charge].status = t.status
    <3>1. PICK c : c = charge[t.charge].of
      OBVIOUS
    <3>2. charge'[t.charge].of = c /\ charge'[t.charge] # NoCharge
      BY <2>2, <2>4, <3>1 DEF ChargesLast
    <3>3. c \notin crossed' /\ ~Refunded(c)'
      BY <2>4, <3>2 DEF Kept, Refunded
    <3>4. Kept(c)
      BY <1>1, <3>3 DEF Kept
    <3>5. charge[t.charge].status = t.status
      BY <2>1, <2>4, <3>1, <3>4 DEF Unsettled
    <3>6. charge'[t.charge].status # "refunded"
      BY <2>2, <2>4, <3>2, <3>3 DEF Refunded
    <3>7. t.status \in Lasting \cup {"refunded"}
      BY <2>2, <2>4 DEF Lasting, GatewayStatus, PaymentStatus
    <3>8. QED
      BY <2>2, <2>4, <3>5, <3>6, <3>7 DEF ChargesLast
  <2>5. QED
    BY <2>3, <2>4 DEF Unsettled
<1>5. ASSUME NEW r \in Sessions
      PROVE  Unsettled(task[r])'
  <2>1. CASE task' = task
    BY <1>4, <2>1 DEF Unsettled
  <2>2. ASSUME NEW s \in Sessions, NEW t, Await(s, t), Unsettled(t)'
        PROVE  Unsettled(task[r])'
    <3>1. task'[r] = IF r = s THEN t ELSE task[r]
      BY <2>2 DEF Await, IInv, TypeOK
    <3>2. QED
      BY <1>4, <2>2, <3>1 DEF Unsettled
  <2>3. QED
    BY <2>1, <2>2
<1>6. QED
  BY <1>2, <1>3, <1>5 DEF OnceInv

\* A row is saved; where the payment is kept no other session holds it, and it does
\* not replace one that is paid; a payout comes with a row that says paid.
LEMMA OnceSaves ==
    ASSUME IInv, OnceInv, crossed \subseteq crossed',
           NEW s \in Sessions, NEW c \in Contracts, NEW row \in Row,
           Save(c, row), charge' = charge,
           Kept(c) =>
              /\ payment[c].status # "paid"
              /\ \A r \in Sessions : r # s /\ task[r].op \in HasRow => task[r].of # c
              /\ row.status = "paid" =>
                    \/ PaidBy(row.ext, c)
                    \/ row.ext = None /\ row.credit = Total[c],
           \/ payouts' = payouts
           \/ row.status = "paid" /\ \E n \in {0, 1} : AddPayouts(c, n),
           NEW t, Await(s, t), Unsettled(t)'
    PROVE  OnceInv'
<1>1. payment'[c] = row /\ \A d \in Contracts : d # c => payment'[d] = payment[d]
  BY SaveTyped DEF IInv
<1>2. /\ \A d : Kept(d)' => Kept(d)
      /\ \A ch, d : PaidBy(ch, d)' = PaidBy(ch, d)
  BY ChargesUnmoved, KeptShrinks
<1>3. PaidOnce'
  <2>1. payouts \in [Contracts -> Nat] /\ (Kept(c) => payouts[c] = 0)
    BY DEF OnceInv, PaidOnce, Kept, IInv, TypeOK
  <2>2. CASE payouts' = payouts
    BY <1>1, <1>2, <2>1, <2>2 DEF OnceInv, PaidOnce, Kept
  <2>3. ASSUME row.status = "paid", NEW n \in {0, 1}, AddPayouts(c, n)
        PROVE  PaidOnce'
    <3>1. /\ Kept(c) => payouts'[c] <= 1
          /\ \A d \in Contracts : d # c => payouts'[d] = payouts[d]
      BY <2>1, <2>3 DEF AddPayouts
    <3>2. QED
      BY <1>1, <1>2, <2>3, <3>1 DEF OnceInv, PaidOnce, Kept
  <2>4. QED
    BY <2>2, <2>3
<1>4. PaidByItsCharge'
  <2> SUFFICES ASSUME NEW d \in Contracts, Kept(d)', payment'[d].status = "paid"
               PROVE  \/ PaidBy(payment'[d].ext, d)
                      \/ payment'[d].ext = None /\ ~Chargeable(d)'
    BY <1>2 DEF PaidByItsCharge, PaidBy
  <2>1. Kept(d)
    BY <1>2
  <2>2. CASE d = c
    <3>1. PaidBy(row.ext, c) \/ (row.ext = None /\ row.credit = Total[c])
      BY <1>1, <2>1, <2>2
    <3>2. row.credit = Total[c] => ~Chargeable(c)'
      BY <1>1, PaymentConstants DEF Chargeable
    <3>3. QED
      BY <1>1, <2>2, <3>1, <3>2
  <2>3. CASE d # c
    BY <1>1, <2>1, <2>3 DEF OnceInv, PaidByItsCharge, Chargeable
  <2>4. QED
    BY <2>2, <2>3
<1>5. ASSUME NEW r \in Sessions
      PROVE  Unsettled(task[r])'
  <2>1. task'[r] = IF r = s THEN t ELSE task[r]
    BY DEF Await, IInv, TypeOK
  <2>2. CASE r = s
    BY <2>1, <2>2 DEF Unsettled
  <2>3. CASE r # s
    <3>1. task[r].op \in HasRow => task[r].of \in Contracts /\ (Kept(c) => task[r].of # c)
      BY <2>3, TaskRow
    <3>2. Unsettled(task[r])
      BY DEF OnceInv
    <3>3. task'[r] = task[r]
      BY <2>1, <2>3
    <3>4. ASSUME task[r].op \in HasRow, Kept(task[r].of)
          PROVE  payment'[task[r].of] = payment[task[r].of]
      BY <1>1, <3>1, <3>4
    <3>5. PICK x : x = task[r]
      OBVIOUS
    <3>6. x.op \in HasRow /\ Kept(x.of)' =>
             /\ payment'[x.of].status # "paid"
             /\ x.row.status = "paid" => PaidBy(x.row.ext, x.of)
      BY <1>2, <3>2, <3>4, <3>5 DEF Unsettled
    <3>7. x.op = "fetched" /\ Kept(charge[x.charge].of)' /\ x.status # "processing" =>
             charge'[x.charge].status = x.status
      BY <1>2, <3>2, <3>5 DEF Unsettled, Kept, Refunded
    <3>8. Unsettled(x)'
      BY <1>2, <3>6, <3>7 DEF Unsettled, PaidBy
    <3>9. QED
      BY <3>3, <3>5, <3>8 DEF Unsettled
  <2>4. QED
    BY <2>2, <2>3
<1>6. QED
  BY <1>3, <1>4, <1>5 DEF OnceInv

LEMMA IdleIsUnsettled == Unsettled(Idle) /\ Unsettled(Idle)'
BY DEF Unsettled, HasRow, Idle

LEMMA UnsettledRow ==
    ASSUME IInv, OnceInv, NEW s \in Sessions, task[s].op \in HasRow
    PROVE  /\ task[s].of \in Contracts /\ task[s].row \in Row
           /\ Kept(task[s].of) =>
                 /\ payment[task[s].of].status # "paid"
                 /\ task[s].row.status = "paid" => PaidBy(task[s].row.ext, task[s].of)
BY TaskRow DEF OnceInv, Unsettled

\* A session with a copy of a kept payment is the only one with a copy of that row.
LEMMA KeptAlone ==
    ASSUME IInv, Recorded, NEW s \in Sessions, task[s].op \in HasRow, Kept(task[s].of)
    PROVE  \A r \in Sessions : r # s /\ task[r].op \in HasRow => task[r].of # task[s].of
BY TaskRow DEF Recorded, Kept, CopiedTwice, HoldsCopy, HasRow

LEMMA OnceRequests ==
    ASSUME IInv, OnceInv, crossed \subseteq crossed', NEW s \in Sessions,
           \/ \E c \in Contracts : InitiateNew(s, c)
           \/ \E c \in Contracts : InitiateExisting(s, c)
           \/ \E c \in Contracts : BeginCard(s, c) \/ BeginPix(s, c)
           \/ \E e \in Events, ch \in Charges : ReceiveEvent(s, e, ch)
           \/ ReadContract(s) \/ Abandon(s)
    PROVE  OnceInv'
<1>1. UNCHANGED <<payment, charge, payouts>>
  BY DEF InitiateNew, InitiateExisting, BeginCard, BeginPix, ReceiveEvent, ReadContract,
         Abandon, gatewayVars, moneyVars
<1>2. ASSUME NEW c \in Contracts, InitiateNew(s, c)
      PROVE  OnceInv'
  <2>1. PICK credit : Await(s, [op |-> "create", of |-> c, seen |-> contract[c].status,
                                credit |-> credit])
    BY <1>2 DEF InitiateNew
  <2>2. Unsettled([op |-> "create", of |-> c, seen |-> contract[c].status, credit |-> credit])
    BY DEF Unsettled, HasRow
  <2>3. QED
    BY <1>1, <2>1, <2>2, OnceRemembers
<1>3. ASSUME NEW c \in Contracts, InitiateExisting(s, c) \/ BeginCard(s, c) \/ BeginPix(s, c)
      PROVE  OnceInv'
  <2>1. payment[c] \in Row /\ payment[c].status # "paid"
    BY <1>3, UnpaidIsChargeable DEF InitiateExisting, BeginCard, BeginPix
  <2>2. PICK op \in {"intent", "card", "pix"}, row \in Row :
           row.status # "paid" /\ Await(s, [op |-> op, of |-> c, row |-> row])
    BY <1>3, <2>1, ResetIsRow DEF InitiateExisting, BeginCard, BeginPix
  <2>3. Unsettled([op |-> op, of |-> c, row |-> row])
    BY <2>1, <2>2 DEF Unsettled
  <2>4. QED
    BY <1>1, <2>2, <2>3, OnceRemembers
<1>4. ASSUME NEW e \in Events, NEW ch \in Charges, ReceiveEvent(s, e, ch)
      PROVE  OnceInv'
  <2>1. Await(s, [op |-> "fetched", event |-> e, charge |-> ch, status |-> charge[ch].status])
    BY <1>4 DEF ReceiveEvent
  <2>2. Unsettled([op |-> "fetched", event |-> e, charge |-> ch, status |-> charge[ch].status])
    BY DEF Unsettled, HasRow
  <2>3. QED
    BY <1>1, <2>1, <2>2, OnceRemembers
<1>5. CASE ReadContract(s)
  <2>1. PICK t : t = [task[s] EXCEPT !.op = "inTx", !.seen = contract[task[s].of].status]
    OBVIOUS
  <2>2. Await(s, t) /\ task[s].op = "loaded" /\ task[s].op \in HasRow
    BY <1>5, <2>1 DEF ReadContract, HasRow
  <2>3. task[s] \in [op : {"loaded", "inTx"}, event : Events, of : Contracts, row : Row,
                     seen : ContractStatus \cup {None}]
    <3>1. task[s] \in Task
      BY TaskIsOK
    <3>2. QED
      BY <2>2, <3>1 DEF Task, Idle
  <2>4. t.op = "inTx" /\ t.of = task[s].of /\ t.row = task[s].row
    BY <2>1, <2>3
  <2>5. Unsettled(t)
    BY <2>2, <2>4, UnsettledRow DEF Unsettled
  <2>6. QED
    BY <1>1, <2>2, <2>5, OnceRemembers
<1>6. CASE Abandon(s)
  BY <1>1, <1>6, IdleIsUnsettled, OnceRemembers DEF Abandon, Finish
<1>7. QED
  BY <1>2, <1>3, <1>4, <1>5, <1>6

\* A status that applies says something new of a payment that is not paid: what a
\* paid row's charge says of it, the row says already.
LEMMA OnceLoads ==
    ASSUME IInv, OnceInv, crossed \subseteq crossed', NEW s \in Sessions, LoadPayment(s)
    PROVE  OnceInv'
<1> DEFINE ch == task[s].charge
           c == charge[ch].of
           row == [payment[c] EXCEPT !.status = task[s].status, !.ext = ch]
           t == [op |-> "loaded", event |-> task[s].event, of |-> c, seen |-> None, row |-> row]
<1>1. /\ task[s].op = "fetched" /\ ch \in Charges /\ task[s].status \in GatewayStatus
      /\ charge[ch] # NoCharge /\ c \in Contracts
      /\ Kept(c) /\ task[s].status # "processing" => charge[ch].status = task[s].status
  BY TaskIsOK, TaskFields, ChargeIsThere DEF LoadPayment, TaskOK, IInv, OnceInv, Unsettled
<1>2. UNCHANGED <<payment, charge, payouts>>
  BY DEF LoadPayment, moneyVars
<1>3. CASE \E status \in {"orphan", "processed"} : EndEvent(s, status)
  BY <1>2, <1>3, IdleIsUnsettled, OnceRemembers DEF EndEvent, Finish
<1>4. CASE /\ Await(s, t) /\ ~StaleCharge(payment[c], ch)
           /\ ShouldUpdateStatus(payment[c].status, task[s].status)
  <2>1. Chargeable(c) /\ payment[c] \in Row
    BY <1>1, PaymentIsRow DEF IInv, ChargesHold, Chargeable
  <2>2. row.status = task[s].status /\ row.ext = ch
    BY <2>1 DEF Row
  <2>3. t.op = "loaded" /\ t.of = c /\ t.row = row
    OBVIOUS
  <2>4. ASSUME Kept(c), payment[c].status = "paid"
        PROVE  FALSE
    <3>1. payment[c].ext = ch /\ charge[ch].status = "paid"
      BY <1>1, <1>4, <2>1, <2>4 DEF OnceInv, PaidByItsCharge, PaidBy, StaleCharge
    <3>2. QED
      BY <1>1, <1>4, <2>4, <3>1 DEF ShouldUpdateStatus, TerminalStatus
  <2>5. ch # None /\ charge[ch].of = c
    BY <1>1, PaymentConstants
  <2> HIDE DEF row, c, ch, t
  <2>6. Unsettled(t)
    BY <1>1, <2>2, <2>3, <2>4, <2>5 DEF Unsettled, PaidBy
  <2>7. QED
    BY <1>2, <1>4, <2>6, OnceRemembers
<1>5. QED
  BY <1>3, <1>4 DEF LoadPayment

LEMMA OnceCharging ==
    ASSUME IInv, OnceInv, crossed \subseteq crossed', NEW s \in Sessions, NEW ch \in Charges,
           \/ ChargePix(s, ch)
           \/ \E status \in {"paid", "processing", "failed"} : ChargeCard(s, ch, status)
    PROVE  OnceInv'
<1>1. PICK kind, status, row :
         /\ kind \in {"card", "pix"} /\ status \in {"paid", "processing", "failed"}
         /\ NewCharge(ch, task[s].of, kind, status)
         /\ Await(s, [op |-> "saveCharge", of |-> task[s].of, row |-> row])
         /\ \/ row = [task[s].row EXCEPT !.ext = ch, !.status = status]
            \/ row = [task[s].row EXCEPT !.ext = ch, !.pix = ch, !.status = status]
  BY DEF ChargePix, ChargeCard
<1>2. task[s].op \in HasRow /\ UNCHANGED <<payment, payouts>>
  BY DEF ChargePix, ChargeCard, HasRow, moneyVars
<1>3. /\ task[s].of \in Contracts /\ task[s].row \in Row
      /\ Kept(task[s].of) => payment[task[s].of].status # "paid"
  BY <1>2, UnsettledRow
<1>4. row.ext = ch /\ row.status = status
  BY <1>1, <1>3 DEF Row
<1>5. /\ charge'[ch].status = status /\ charge[ch] = NoCharge
      /\ charge'[ch] # NoCharge /\ charge'[ch].of = task[s].of
      /\ \A d \in Charges : d # ch => charge'[d] = charge[d]
  BY <1>1 DEF NewCharge, IInv, TypeOK, NoCharge
<1>6. ch # None
  BY PaymentConstants
<1>7. PICK t : t = [op |-> "saveCharge", of |-> task[s].of, row |-> row]
  OBVIOUS
<1>8. t.op = "saveCharge" /\ t.of = task[s].of /\ t.row = row /\ Await(s, t)
  BY <1>1, <1>7
<1>9. ChargesLast
  BY <1>5 DEF ChargesLast
<1>10. Kept(t.of)' => Kept(t.of)
  BY <1>9, KeptShrinks
<1>11. Unsettled(t)'
  <2>1. Kept(t.of)' => payment'[t.of].status # "paid"
    BY <1>2, <1>3, <1>8, <1>10
  <2>2. t.row.ext = ch /\ t.row.status = status
    BY <1>4, <1>8
  <2>3. status = "paid" => PaidBy(ch, t.of)'
    BY <1>5, <1>6, <1>8 DEF PaidBy
  <2>4. QED
    BY <1>8, <2>1, <2>2, <2>3 DEF Unsettled, PaidBy
<1>12. QED
  BY <1>2, <1>8, <1>9, <1>11, OnceCharges

LEMMA OnceGateway ==
    ASSUME IInv, OnceInv, crossed \subseteq crossed', NEW ch \in Charges,
           ApproveCharge(ch) \/ RefuseCharge(ch) \/ RefundCharge(ch) \/ ExpirePix(ch)
    PROVE  OnceInv'
<1>1. task' = task /\ UNCHANGED <<payment, payouts>>
  BY DEF ApproveCharge, RefuseCharge, RefundCharge, ExpirePix, SetChargeStatus, moneyVars
<1>2. charge[ch] # NoCharge /\ charge[ch] \in Charge
  BY ChargeIsThere DEF ApproveCharge, RefuseCharge, RefundCharge, ExpirePix, NoCharge, IInv
<1>3. \A d \in Charges : d # ch => charge'[d] = charge[d]
  BY DEF ApproveCharge, RefuseCharge, RefundCharge, ExpirePix, SetChargeStatus, IInv, TypeOK
<1>4. /\ charge'[ch] \in Charge /\ charge'[ch].of = charge[ch].of
      /\ \/ charge'[ch].status = charge[ch].status
         \/ charge[ch].status = "processing"
         \/ charge[ch].status = "paid" /\ charge'[ch].status = "refunded"
  <2>1. CASE ExpirePix(ch)
    BY <1>2, <2>1 DEF ExpirePix, IInv, TypeOK, Charge
  <2>2. CASE ApproveCharge(ch) \/ RefuseCharge(ch) \/ RefundCharge(ch)
    <3>1. PICK status \in GatewayStatus :
             /\ charge' = [charge EXCEPT ![ch].status = status]
             /\ \/ charge[ch].status = "processing"
                \/ charge[ch].status = "paid" /\ status = "refunded"
      BY <2>2 DEF ApproveCharge, RefuseCharge, RefundCharge, SetChargeStatus, GatewayStatus,
                  PaymentStatus
    <3>2. QED
      BY <1>2, <3>1 DEF IInv, TypeOK, Charge
  <2>3. QED
    BY <2>1, <2>2
<1>5. charge'[ch] # NoCharge
  BY <1>4 DEF Charge, NoCharge, GatewayStatus, PaymentStatus
<1>6. ChargesLast
  BY <1>3, <1>4, <1>5 DEF ChargesLast, Lasting
<1>7. QED
  BY <1>1, <1>6, OnceCharges

LEMMA OnceCreates ==
    ASSUME IInv, OnceInv, crossed \subseteq crossed', NEW s \in Sessions, PayWithCredit(s) \/ InsertPayment(s)
    PROVE  OnceInv'
<1> DEFINE c == task[s].of
           credit == task[s].credit
           inserted == NewRow("pending", credit)
           paid == NewRow("paid", credit)
<1>1. /\ task[s].op = "create" /\ c \in Contracts /\ credit \in Nat
      /\ payment[c] = NoPayment /\ charge' = charge
  BY TaskIsOK, TaskFields DEF PayWithCredit, InsertPayment, gatewayVars
<1>2. payment[c].status # "paid"
  BY <1>1 DEF NoPayment
<1>3. \A r \in Sessions : r # s /\ task[r].op \in HasRow => task[r].of # c
  BY <1>1, TaskRow DEF Chargeable
<1>4. /\ inserted \in Row /\ inserted.status = "pending"
      /\ paid \in Row /\ paid.status = "paid" /\ paid.credit = credit /\ paid.ext = None
  BY <1>1, NewRowIsRow DEF PaymentStatus, NewRow
<1>5. CASE PayWithCredit(s)
  <2>1. /\ Save(c, paid) /\ credit = Total[c] /\ AddPayouts(c, 1) /\ Await(s, Idle)
    BY <1>5 DEF PayWithCredit, Finish
  <2> HIDE DEF c, credit, paid
  <2>2. QED
    BY <1>1, <1>2, <1>3, <1>4, <2>1, IdleIsUnsettled, OnceSaves
<1>6. CASE InsertPayment(s)
  <2>1. PICK t : t = [op |-> "intent", of |-> c, row |-> inserted]
    OBVIOUS
  <2>2. /\ Save(c, inserted) /\ payouts' = payouts /\ Await(s, t)
        /\ t.op = "intent" /\ t.of = c /\ t.row = inserted
    BY <1>6, <2>1 DEF InsertPayment, moneyVars
  <2> HIDE DEF c, inserted
  <2>3. payment'[c] = inserted
    BY <1>1, <1>4, <2>2, SaveTyped DEF IInv
  <2>4. Unsettled(t)'
    BY <1>4, <2>2, <2>3 DEF Unsettled
  <2>5. QED
    BY <1>1, <1>2, <1>3, <1>4, <2>2, <2>4, OnceSaves
<1>7. QED
  BY <1>5, <1>6

LEMMA OnceSessionSaves ==
    ASSUME IInv, OnceInv, Recorded, crossed \subseteq crossed', NEW s \in Sessions,
           SaveIntent(s) \/ SaveCharge(s) \/ ApplyStatus(s) \/ ConfirmCard(s) \/ ConfirmPaid(s)
    PROVE  OnceInv'
<1> DEFINE c == task[s].of
           row == task[s].row
           sent == [task[s].row EXCEPT !.intent = TRUE, !.status = "processing"]
<1>1. task[s].op \in HasRow /\ charge' = charge /\ Await(s, Idle)
  BY DEF SaveIntent, SaveCharge, ApplyStatus, ConfirmCard, ConfirmPaid, EndEvent, Finish,
         gatewayVars, HasRow
<1>2. /\ c \in Contracts /\ row \in Row
      /\ Kept(c) => /\ payment[c].status # "paid"
                    /\ row.status = "paid" => PaidBy(row.ext, c)
  BY <1>1, UnsettledRow
<1>3. Kept(c) => \A r \in Sessions : r # s /\ task[r].op \in HasRow => task[r].of # c
  BY <1>1, KeptAlone
<1>4. sent \in Row /\ sent.status = "processing"
  BY <1>2 DEF Row, PaymentStatus
<1>5. CASE SaveIntent(s)
  <2>1. Save(c, sent) /\ payouts' = payouts
    BY <1>5 DEF SaveIntent, moneyVars
  <2> HIDE DEF c, sent
  <2>2. QED
    BY <1>1, <1>2, <1>3, <1>4, <2>1, IdleIsUnsettled, OnceSaves
<1>6. CASE SaveCharge(s) \/ ApplyStatus(s)
  <2>1. Save(c, row) /\ payouts' = payouts
    BY <1>6 DEF SaveCharge, ApplyStatus, moneyVars
  <2> HIDE DEF c, row
  <2>2. QED
    BY <1>1, <1>2, <1>3, <2>1, IdleIsUnsettled, OnceSaves
<1>7. CASE ConfirmCard(s) \/ ConfirmPaid(s)
  <2>1. row.status = "paid"
    BY <1>7, TaskIsOK DEF ConfirmCard, ConfirmPaid, TaskOK
  <2>2. \/ UNCHANGED <<payment, payouts>>
        \/ Save(c, row) /\ \E n \in {0, 1} : AddPayouts(c, n)
    BY <1>7 DEF ConfirmCard, ConfirmPaid
  <2> HIDE DEF c, row
  <2>3. CASE UNCHANGED <<payment, payouts>>
    BY <1>1, <2>3, IdleIsUnsettled, OnceRemembers
  <2>4. CASE Save(c, row) /\ \E n \in {0, 1} : AddPayouts(c, n)
    BY <1>1, <1>2, <1>3, <2>1, <2>4, IdleIsUnsettled, OnceSaves
  <2>5. QED
    BY <2>2, <2>3, <2>4
<1>8. QED
  BY <1>5, <1>6, <1>7

LEMMA OnceAnswers ==
    ASSUME IInv, OnceInv, crossed \subseteq crossed', NEW c \in Contracts, Accept(c) \/ Reject(c)
    PROVE  OnceInv'
<1>1. /\ task' = task /\ charge' = charge /\ payouts' = payouts
      /\ \E settlement : payment' = [payment EXCEPT ![c].settlement = settlement]
  BY DEF Accept, Reject, gatewayVars, moneyVars
<1>2. payment[c] \in Row
  BY PaymentIsRow DEF Accept, Reject, AnswerInvite, IInv, InviteHasPayment
<1>3. \A d \in Contracts :
         /\ payment'[d].status = payment[d].status /\ payment'[d].ext = payment[d].ext
         /\ payment'[d].credit = payment[d].credit
  BY <1>1, <1>2 DEF IInv, TypeOK, Row
<1>4. payment'[c] # NoPayment /\ \A d \in Contracts : d # c => payment'[d] = payment[d]
  <2>1. PICK settlement : payment' = [payment EXCEPT ![c].settlement = settlement]
    BY <1>1
  <2>2. QED
    BY <1>2, <2>1, <1>3, RowFields DEF IInv, TypeOK, NoPayment, PaymentStatus
<1>5. \A d \in Contracts : Chargeable(d)' => Chargeable(d)
  BY <1>2, <1>3, <1>4, RowIsPayment DEF Chargeable
<1>6. /\ \A d : Kept(d)' => Kept(d)
      /\ \A ch, d : PaidBy(ch, d)' = PaidBy(ch, d)
  BY <1>1, ChargesUnmoved, KeptShrinks
<1>7. PaidOnce'
  BY <1>1, <1>3, <1>6 DEF OnceInv, PaidOnce, Kept
<1>8. PaidByItsCharge'
  <2> SUFFICES ASSUME NEW d \in Contracts, Kept(d)', payment'[d].status = "paid"
               PROVE  \/ PaidBy(payment'[d].ext, d)
                      \/ payment'[d].ext = None /\ ~Chargeable(d)'
    BY <1>6 DEF PaidByItsCharge, PaidBy
  <2>1. QED
    BY <1>3, <1>5, <1>6 DEF OnceInv, PaidByItsCharge
<1>9. ASSUME NEW s \in Sessions
      PROVE  Unsettled(task[s])'
  <2>1. PICK t : t = task[s]
    OBVIOUS
  <2>2. /\ t.op \in HasRow => t.of \in Contracts
        /\ Unsettled(t)
    BY <2>1, TaskRow DEF OnceInv
  <2>3. Unsettled(t)'
    BY <1>1, <1>3, <1>6, <2>2 DEF Unsettled, PaidBy, Kept, Refunded
  <2>4. QED
    BY <1>1, <2>1, <2>3 DEF Unsettled
<1>10. QED
  BY <1>7, <1>8, <1>9 DEF OnceInv

LEMMA NextOnce ==
    ASSUME IInv, OnceInv, Recorded, crossed \subseteq crossed', [Next]_vars
    PROVE  OnceInv'
<1>1. CASE UNCHANGED vars
  <2>1. UNCHANGED <<payment, payouts, charge, task>>
    BY <1>1 DEF vars
  <2>2. QED
    BY <2>1, ChargesUnmoved, OnceCharges
<1>2. ASSUME NEW s \in Sessions,
             \/ \E c \in Contracts : InitiateNew(s, c)
             \/ \E c \in Contracts : InitiateExisting(s, c)
             \/ \E c \in Contracts : BeginCard(s, c)
             \/ \E c \in Contracts : BeginPix(s, c)
             \/ \E e \in Events, ch \in Charges : ReceiveEvent(s, e, ch)
             \/ LoadPayment(s) \/ ReadContract(s) \/ Abandon(s)
      PROVE  OnceInv'
  BY <1>2, OnceRequests, OnceLoads
<1>3. ASSUME NEW s \in Sessions,
             \/ \E ch \in Charges, status \in {"paid", "processing", "failed"} :
                    ChargeCard(s, ch, status)
             \/ \E ch \in Charges : ChargePix(s, ch)
             \/ PayWithCredit(s) \/ InsertPayment(s) \/ SaveIntent(s) \/ SaveCharge(s)
             \/ ConfirmCard(s) \/ ApplyStatus(s) \/ ConfirmPaid(s)
      PROVE  OnceInv'
  BY <1>3, OnceCharging, OnceCreates, OnceSessionSaves
<1>4. ASSUME NEW ch \in Charges,
             ApproveCharge(ch) \/ RefuseCharge(ch) \/ RefundCharge(ch) \/ ExpirePix(ch)
      PROVE  OnceInv'
  BY <1>4, OnceGateway
<1>5. ASSUME NEW c \in Contracts, Accept(c) \/ Reject(c)
      PROVE  OnceInv'
  BY <1>5, OnceAnswers
<1>6. QED
  BY <1>1, <1>2, <1>3, <1>4, <1>5 DEF Next

LEMMA NextIsRecorded ==
    ASSUME Recorded, [HistoryNext]_historyVars
    PROVE  Recorded' /\ crossed \subseteq crossed' /\ [Next]_vars
<1>1. CASE HistoryNext
  BY <1>1 DEF HistoryNext, Recorded
<1>2. CASE UNCHANGED historyVars
  BY <1>2 DEF historyVars, vars, Recorded, CopiedTwice, HoldsCopy
<1>3. QED
  BY <1>1, <1>2

LEMMA InitOnce ==
    ASSUME HistoryInit
    PROVE  Recorded /\ OnceInv
BY DEF HistoryInit, Init, Recorded, CopiedTwice, HoldsCopy, OnceInv, PaidOnce, PaidByItsCharge,
       Unsettled, NoPayment, NoCharge, HasRow, Idle

-----------------------------------------------------------------------------
\* Remembering which handlers crossed changes nothing they do.
THEOREM HistoryIsSilent == HistorySpec => Spec
<1>1. HistoryInit => Init
  BY DEF HistoryInit
<1>2. [HistoryNext]_historyVars => [Next]_vars
  BY DEF HistoryNext, historyVars, vars
<1>3. QED
  BY <1>1, <1>2, PTL DEF HistorySpec, Spec

\* Of every contract: its settlement says what was answered and the answer is final
\* (payment.entity.ts), unless an answer came between the read of the payment row and
\* the save of a copy of it; one payout is owed for its payment, which keeps reading
\* paid (webhooks.service.ts), unless two handlers held copies of the row at one time
\* or its charge was refunded, however often it is notified, tried again, or charged
\* by card and by PIX, and whatever happens to the other contracts.
THEOREM PaymentsKept == HistorySpec => KeptUnlessCrossed
<1>1. HistoryInit => AnswerInv /\ Recorded /\ OnceInv
  BY InitAnswerInv, InitOnce
<1>2. IInv /\ AnswerInv /\ Recorded /\ OnceInv /\ [HistoryNext]_historyVars
      => (AnswerInv /\ Recorded /\ OnceInv)' /\ [AnswerStands]_historyVars
  BY NextAnswerInv, NextIsRecorded, NextOnce
<1>3. IInv /\ AnswerInv /\ OnceInv => SettlementFollows /\ PaidOnce
  BY FollowsIsSettlement DEF OnceInv
<1>4. QED
  BY <1>1, <1>2, <1>3, HistoryIsSilent, Invariance, PTL DEF HistorySpec, KeptUnlessCrossed
=============================================================================
