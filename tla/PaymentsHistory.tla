-------------------------- MODULE PaymentsHistory --------------------------
(***************************************************************************)
(* Which handlers of Payments have overlapped.  A handler saves a copy of  *)
(* the payment row that it read before it awaited the gateway or the       *)
(* database, and neither a lock nor a version column stands between the    *)
(* two.  The history variables remember, contract by contract, what        *)
(* happened inside such a window; the behaviours are those of Payments.    *)
(***************************************************************************)
EXTENDS Payments

VARIABLES crossed,     \* contracts whose row two sessions held copies of at one time
          overtaken    \* contracts answered while a session held a copy of their row

historyVars == <<vars, crossed, overtaken>>

\* Session s is between the read and the save of the payment of c.
HoldsCopy(s, c) ==
    /\ task[s].op \in {"intent", "card", "pix", "saveCharge", "loaded", "inTx"}
    /\ task[s].of = c

CopiedTwice(c) == \E s, t \in Sessions : s # t /\ HoldsCopy(s, c) /\ HoldsCopy(t, c)
Overtakes(c) == (Accept(c) \/ Reject(c)) /\ \E s \in Sessions : HoldsCopy(s, c)

HistoryInit == Init /\ crossed = {} /\ overtaken = {}

HistoryNext ==
    /\ Next
    /\ crossed' = crossed \cup {c \in Contracts : CopiedTwice(c)'}
    /\ overtaken' = overtaken \cup {c \in Contracts : Overtakes(c)}

HistorySpec == HistoryInit /\ [][HistoryNext]_historyVars

-----------------------------------------------------------------------------
(***************************************************************************)
(* Properties                                                              *)
(***************************************************************************)
\* A payment not yet made is as good as one still HELD.
Settlement(c) == IF payment[c] = NoPayment THEN "HELD" ELSE payment[c].settlement

\* payment.entity.ts, "HELD -> APPLIED ... CONVERTED_TO_CREDIT": the settlement
\* says what the creator answered.  An open offer's contract is never answered.
SettlementFollows ==
    \A c \in Contracts \ overtaken :
        Settlement(c) = IF c \in OpenOffer THEN "HELD"
                        ELSE CASE contract[c].status = "ACCEPTED" -> "APPLIED"
                               [] contract[c].status = "REJECTED" -> "CONVERTED_TO_CREDIT"
                               [] OTHER -> "HELD"

\* An answer is final: no notification or retry puts the contract back among the
\* invites, or its money back on hold.
AnswerStands ==
    \A c \in Contracts \ overtaken :
        contract[c].status \in {"ACCEPTED", "REJECTED"} =>
            contract'[c].status = contract[c].status /\ Settlement(c)' = Settlement(c)

\* webhooks.service.ts, "Evita reprocessar um pagamento ja concluido" and "Evita
\* regredir um pagamento ja pago": one payout is owed for a payment, and a payment
\* for which one is owed keeps reading paid until its charge is taken back.
Refunded(c) ==
    \E ch \in Charges : charge[ch] # NoCharge /\ charge[ch].of = c /\ charge[ch].status = "refunded"
PaidOnce ==
    \A c \in Contracts \ crossed :
        ~Refunded(c) => payouts[c] <= 1 /\ (payouts[c] > 0 => payment[c].status = "paid")

\* The three promises hold of every contract in every order of notifications,
\* card answers, retries, crashes and answers, and of the contracts whose rows were
\* overwritten in the window between read and save it is known which window it was:
\* an answer inside it undoes a settlement, a second handler a payment.
KeptUnlessCrossed ==
    /\ [](SettlementFollows /\ PaidOnce)
    /\ [][AnswerStands]_historyVars
=============================================================================
