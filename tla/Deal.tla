-------------------------------- MODULE Deal --------------------------------
(***************************************************************************)
(* What a paid contract promises to a company and a creator, whichever     *)
(* handlers, crons and failures carry it: one answer, one outcome, money   *)
(* that follows the answer, one announcement.  ContractLifecycle           *)
(* implements it.                                                          *)
(***************************************************************************)
EXTENDS Integers

CONSTANTS Deals,
          Hired   \* the deals that begin agreed: a selection in an open offer

VARIABLES phase,  \* of a deal: offered, answered, concluded
          money,  \* the company's payment
          told    \* announcements of the conclusion

vars == <<phase, money, told>>

Init ==
    /\ phase = [d \in Deals |-> IF d \in Hired THEN "agreed" ELSE "offered"]
    /\ money = [d \in Deals |-> "HELD"]
    /\ told = [d \in Deals |-> 0]

\* Agreeing keeps the payment for the job.
Agree(d) ==
    /\ phase[d] = "offered" /\ money[d] = "HELD"
    /\ phase' = [phase EXCEPT ![d] = "agreed"]
    /\ money' = [money EXCEPT ![d] = "APPLIED"]
    /\ UNCHANGED told

\* A refusal gives the payment back, at once or later.
Refuse(d) ==
    /\ phase[d] = "offered" /\ money[d] = "HELD"
    /\ phase' = [phase EXCEPT ![d] = "refused"]
    /\ \E as \in {"HELD", "CONVERTED_TO_CREDIT"} : money' = [money EXCEPT ![d] = as]
    /\ UNCHANGED told

GiveBack(d) ==
    /\ phase[d] = "refused" /\ money[d] = "HELD"
    /\ money' = [money EXCEPT ![d] = "CONVERTED_TO_CREDIT"]
    /\ UNCHANGED <<phase, told>>

Conclude(d) ==
    /\ phase[d] = "agreed"
    /\ \E outcome \in {"cancelled", "disputed", "done"} :
          phase' = [phase EXCEPT ![d] = outcome]
    /\ UNCHANGED <<money, told>>

Tell(d) ==
    /\ phase[d] = "done" /\ told[d] = 0
    /\ told' = [told EXCEPT ![d] = 1]
    /\ UNCHANGED <<phase, money>>

Next == \E d \in Deals : Agree(d) \/ Refuse(d) \/ GiveBack(d) \/ Conclude(d) \/ Tell(d)

Spec == Init /\ [][Next]_vars
=============================================================================
