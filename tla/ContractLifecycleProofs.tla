----------------------- MODULE ContractLifecycleProofs -----------------------
(***************************************************************************)
(* What ContractLifecycle guarantees for every set of contracts, every     *)
(* number of replicas and every number of failures.                        *)
(***************************************************************************)
EXTENDS ContractLifecycle, TLAPS

Pending == {"PENDING_PAYMENT", "PENDING_ACCEPTANCE"}
NotForTheJob == Pending \cup {"REJECTED", "EXPIRED"}

\* A payment stays HELD past its invite only when the invite expired; the one of
\* an open offer is never settled, and its contract never was an invite.
HeldUntilAnswer ==
    \A c \in Contracts :
        IF c \in OpenOffer
        THEN contract[c].status \notin NotForTheJob /\ settlement[c] = "HELD"
        ELSE settlement[c] = "HELD" => contract[c].status \in Pending \cup {"EXPIRED"}

\* The expiration cron works through paid invites only, and credits one only
\* after it left PENDING_ACCEPTANCE.
ExpiryKnowsInvites ==
    \A r \in Replicas :
        /\ \A c \in expiry[r].todo : c \notin OpenOffer /\ ~Is(c, "PENDING_PAYMENT")
        /\ \A c \in expiry[r].credit : c \notin OpenOffer /\ contract[c].status \notin Pending

SettlementInv == TypeOK /\ HeldUntilAnswer /\ ExpiryKnowsInvites /\ SettlementMatchesAnswer

\* The completion phase is entered from ACCEPTED after the end of the job, and
\* its deadline passes after that.
PhaseInOrder ==
    \A c \in Contracts :
        /\ contract[c].status \in Pending \cup {"ACCEPTED"}
              => ~contract[c].entered /\ ~contract[c].tacit
        /\ Is(c, "AWAITING_COMPLETION_CONFIRMATION") => contract[c].entered
        /\ contract[c].entered => "endsAt" \in past[c]
        /\ "contestDeadlineAt" \in past[c] => contract[c].entered
        /\ contract[c].tacit => "contestDeadlineAt" \in past[c]

\* The lists of the two completion crons hold only contracts whose instant passed.
ListsAreDue ==
    \A r \in Replicas :
        /\ \A c \in transition[r] : "endsAt" \in past[c]
        /\ \A c \in contest[r].due : "contestDeadlineAt" \in past[c]
        /\ \A list \in List : \A c \in contest[r].found[list] : "contestDeadlineAt" \in past[c]

\* CompletedForAReason, but for whom a tacit approval leaves out.
CompletedInTime ==
    \A c \in Contracts : Is(c, "COMPLETED") =>
        /\ "endsAt" \in past[c]
        /\ contract[c].entered => contract[c].confirmed = Side \/ "contestDeadlineAt" \in past[c]
        /\ contract[c].tacit => "contestDeadlineAt" \in past[c]

ReasonInv == TypeOK /\ PhaseInOrder /\ ListsAreDue /\ CompletedInTime

-----------------------------------------------------------------------------
(***************************************************************************)
(* Types.                                                                  *)
(***************************************************************************)
LEMMA InitTypeOK == Init => TypeOK
BY LifecycleConstants DEF Init, TypeOK, Contract, ContractRequestStatus, SettlementStatus,
   NoExpiry, NoContest

\* A contract saved with the columns a handler sets.
LEMMA SavedContract ==
    ASSUME TypeOK, NEW c \in Contracts, NEW status \in ContractRequestStatus,
           NEW confirmed \in SUBSET Side, NEW entered \in BOOLEAN, NEW tacit \in BOOLEAN
    PROVE  /\ contract[c] \in Contract
           /\ [contract[c] EXCEPT !.status = status] \in Contract
           /\ [contract[c] EXCEPT !.confirmed = confirmed] \in Contract
           /\ [contract[c] EXCEPT !.confirmed = confirmed, !.status = status] \in Contract
           /\ [contract[c] EXCEPT !.status = status, !.entered = entered] \in Contract
           /\ [contract[c] EXCEPT !.status = status, !.tacit = tacit] \in Contract
<1>1. contract[c] \in Contract
  BY DEF TypeOK
<1>2. QED
  BY <1>1 DEF Contract

LEMMA MoveTypes ==
    ASSUME TypeOK, NEW c \in Contracts, NEW from, NEW to \in ContractRequestStatus,
           Move(c, from, to)
    PROVE  contract' \in [Contracts -> Contract]
<1>1. [contract[c] EXCEPT !.status = to] \in Contract
  BY SavedContract
<1>2. contract' = [contract EXCEPT ![c] = [contract[c] EXCEPT !.status = to]]
  BY DEF Move
<1>3. QED
  BY <1>1, <1>2 DEF TypeOK

LEMMA SettleTypes ==
    ASSUME TypeOK, NEW c \in Contracts, NEW as \in SettlementStatus, Settle(c, as)
    PROVE  settlement' \in [Contracts -> SettlementStatus]
BY DEF TypeOK, Settle

LEMMA EventTypes ==
    ASSUME TypeOK, NEW c \in Contracts, OweEvent(c)
    PROVE  owed' \in [Contracts -> Nat]
BY DEF TypeOK, OweEvent

LEMMA FailTypes == TypeOK /\ Fail => failures' \in 0..MaxFailures
BY LifecycleConstants DEF TypeOK, Fail

Contest == [due : SUBSET Contracts, unread : SUBSET List, found : [List -> SUBSET Contracts]]

LEMMA ContestShape ==
    ASSUME TypeOK, NEW r \in Replicas
    PROVE  contest[r] \in Contest /\ NoContest \in Contest
BY DEF TypeOK, Contest, NoContest

LEMMA TakeTypes ==
    ASSUME TypeOK, NEW r \in Replicas, NEW c, NEW list \in List, Take(r, c, list)
    PROVE  contest' \in [Replicas -> Contest]
<1> DEFINE found == [contest[r].found EXCEPT ![list] = contest[r].found[list] \ {c}]
<1> DEFINE new == [contest[r] EXCEPT !.found = found]
<1>1. found \in [List -> SUBSET Contracts]
  BY ContestShape DEF Contest
<1> HIDE DEF found
<1>2. new \in Contest
  BY <1>1, ContestShape DEF Contest
<1>3. contest' = [contest EXCEPT ![r] = new]
  BY DEF Take, found
<1> HIDE DEF new
<1>4. QED
  BY <1>2, <1>3 DEF TypeOK, Contest

LEMMA SelectTypes ==
    ASSUME TypeOK, NEW r \in Replicas, NEW list \in List, NEW chosen \in SUBSET Contracts,
           Select(r, list, chosen)
    PROVE  contest' \in [Replicas -> Contest]
<1> DEFINE found == [contest[r].found EXCEPT ![list] = chosen]
<1> DEFINE due == IF contest[r].unread = {list} THEN {} ELSE contest[r].due
<1> DEFINE new == [due |-> due, unread |-> contest[r].unread \ {list}, found |-> found]
<1>1. /\ found \in [List -> SUBSET Contracts]
      /\ due \in SUBSET Contracts
      /\ contest[r].unread \ {list} \in SUBSET List
  BY ContestShape DEF Contest
<1>2. contest' = [contest EXCEPT ![r] = new]
  BY DEF Select
<1> HIDE DEF found, due
<1>3. new \in Contest
  BY <1>1 DEF Contest
<1> HIDE DEF new
<1>4. QED
  BY <1>2, <1>3 DEF TypeOK, Contest

LEMMA NextTypeOK == TypeOK /\ [Next]_vars => TypeOK'
<1> SUFFICES ASSUME TypeOK, [Next]_vars PROVE TypeOK'
  OBVIOUS
<1> USE DEF cronVars
<1>1. {"PENDING_ACCEPTANCE", "ACCEPTED", "REJECTED", "CANCELLED", "EXPIRED", "COMPLETED",
       "AWAITING_COMPLETION_CONFIRMATION", "COMPLETION_DISPUTE"} \subseteq ContractRequestStatus
  BY DEF ContractRequestStatus
<1>2. {"APPLIED", "CONVERTED_TO_CREDIT"} \subseteq SettlementStatus
  BY DEF SettlementStatus
<1>3. ASSUME NEW c \in Contracts, ConfirmPayment(c)
      PROVE  TypeOK'
  BY <1>3, <1>1, <1>2, MoveTypes DEF TypeOK, ConfirmPayment
<1>4. ASSUME NEW c \in Contracts, Accept(c)
      PROVE  TypeOK'
  BY <1>4, <1>1, <1>2, MoveTypes, SettleTypes DEF TypeOK, Accept
<1>5. ASSUME NEW c \in Contracts, Reject(c)
      PROVE  TypeOK'
  BY <1>5, <1>1, <1>2, MoveTypes, SettleTypes DEF TypeOK, Reject
<1>6. ASSUME NEW c \in Contracts, Cancel(c)
      PROVE  TypeOK'
  BY <1>6, <1>1, <1>2, MoveTypes DEF TypeOK, Cancel
<1>7. ASSUME NEW c \in Contracts, Complete(c)
      PROVE  TypeOK'
  BY <1>7, <1>1, <1>2, MoveTypes, EventTypes DEF TypeOK, Complete
<1>8. ASSUME NEW c \in Contracts, NEW side \in Side, ConfirmCompletion(c, side)
      PROVE  TypeOK'
  <2>1. contract[c].confirmed \cup {side} \in SUBSET Side
    BY SavedContract DEF Contract, TypeOK
  <2>2. PICK new \in Contract : contract' = [contract EXCEPT ![c] = new]
    <3>1. CASE contract[c].confirmed \cup {side} = Side
      <4> DEFINE new == [contract[c] EXCEPT !.confirmed = contract[c].confirmed \cup {side},
                                            !.status = "COMPLETED"]
      <4>1. new \in Contract
        BY <1>1, <2>1, SavedContract
      <4>2. contract' = [contract EXCEPT ![c] = new]
        BY <1>8, <3>1 DEF ConfirmCompletion
      <4> HIDE DEF new
      <4>3. QED
        BY <4>1, <4>2
    <3>2. CASE contract[c].confirmed \cup {side} # Side
      <4> DEFINE new == [contract[c] EXCEPT !.confirmed = contract[c].confirmed \cup {side}]
      <4>1. new \in Contract
        BY <1>1, <2>1, SavedContract
      <4>2. contract' = [contract EXCEPT ![c] = new]
        BY <1>8, <3>2 DEF ConfirmCompletion
      <4> HIDE DEF new
      <4>3. QED
        BY <4>1, <4>2
    <3>3. QED
      BY <3>1, <3>2
  <2>3. owed' \in [Contracts -> Nat]
    BY <1>8, EventTypes DEF ConfirmCompletion, TypeOK
  <2>4. QED
    BY <1>8, <2>2, <2>3 DEF TypeOK, ConfirmCompletion
<1>9. ASSUME NEW c \in Contracts, DisputeCompletion(c)
      PROVE  TypeOK'
  BY <1>9, <1>1, <1>2, MoveTypes DEF TypeOK, DisputeCompletion
<1>10. ASSUME NEW c \in Contracts, Emit(c)
      PROVE  TypeOK'
  BY <1>10, <1>1, <1>2 DEF TypeOK, Emit
<1>11. ASSUME NEW c \in Contracts, NEW instant \in Instant, Elapse(c, instant)
      PROVE  TypeOK'
  BY <1>11, <1>1, <1>2 DEF TypeOK, Elapse
<1>12. ASSUME NEW r \in Replicas, BeginExpiry(r)
      PROVE  TypeOK'
  <2> DEFINE expired == {k \in Contracts : Is(k, "PENDING_ACCEPTANCE") /\ "expiresAt" \in past[k]}
  <2> DEFINE new == [expiry[r] EXCEPT !.todo = expired]
  <2>1. /\ expired \in SUBSET Contracts
        /\ expiry[r] \in [todo : SUBSET Contracts, credit : SUBSET Contracts]
    BY DEF TypeOK
  <2>2. expiry' = [expiry EXCEPT ![r] = new]
    BY <1>12 DEF BeginExpiry
  <2> HIDE DEF expired
  <2>3. new \in [todo : SUBSET Contracts, credit : SUBSET Contracts]
    BY <2>1
  <2> HIDE DEF new
  <2>4. expiry' \in [Replicas -> [todo : SUBSET Contracts, credit : SUBSET Contracts]]
    BY <2>2, <2>3 DEF TypeOK
  <2>5. QED
    BY <1>12, <2>4 DEF TypeOK, BeginExpiry
<1>13. ASSUME NEW r \in Replicas, NEW c \in Contracts, ExpireInvite(r, c)
      PROVE  TypeOK'
  <2>1. contract' \in [Contracts -> Contract]
    BY <1>13, <1>1, SavedContract DEF ExpireInvite, TypeOK
  <2>2. QED
    BY <1>13, <2>1 DEF TypeOK, ExpireInvite
<1>14. ASSUME NEW r \in Replicas, NEW c \in Contracts, CreditExpired(r, c)
      PROVE  TypeOK'
  <2>1. settlement' \in [Contracts -> SettlementStatus]
    BY <1>14, <1>2, SettleTypes DEF CreditExpired
  <2>2. expiry' \in [Replicas -> [todo : SUBSET Contracts, credit : SUBSET Contracts]]
    <3>1. [expiry[r] EXCEPT !.credit = {}] \in [todo : SUBSET Contracts, credit : SUBSET Contracts]
      BY DEF TypeOK
    <3>2. QED
      BY <1>14, <3>1 DEF CreditExpired, TypeOK
  <2>3. QED
    BY <1>14, <2>1, <2>2 DEF TypeOK, CreditExpired
<1>15. ASSUME NEW r \in Replicas, BeginTransition(r)
      PROVE  TypeOK'
  BY <1>15, <1>1, <1>2 DEF TypeOK, BeginTransition
<1>16. ASSUME NEW r \in Replicas, NEW c \in Contracts, AwaitConfirmation(r, c)
      PROVE  TypeOK'
  <2>1. contract' \in [Contracts -> Contract]
    BY <1>16, <1>1, SavedContract DEF AwaitConfirmation, Entered, TypeOK
  <2>2. QED
    BY <1>16, <2>1 DEF TypeOK, AwaitConfirmation
<1>17. ASSUME NEW r \in Replicas, BeginAutoComplete(r)
      PROVE  TypeOK'
  <2>1. contest' \in [Replicas -> Contest]
    <3> DEFINE due == {k \in Contracts : "contestDeadlineAt" \in past[k]}
    <3> DEFINE new == [due |-> due, unread |-> List, found |-> contest[r].found]
    <3>1. new \in Contest
      BY ContestShape DEF Contest
    <3>2. contest' = [contest EXCEPT ![r] = new]
      BY <1>17 DEF BeginAutoComplete
    <3> HIDE DEF new
    <3>3. QED
      BY <3>1, <3>2 DEF TypeOK, Contest
  <2>2. QED
    BY <1>17, <2>1 DEF TypeOK, BeginAutoComplete, Contest
<1>18. ASSUME NEW r \in Replicas, SelectConfirmed(r)
      PROVE  TypeOK'
  <2> DEFINE chosen == {k \in contest[r].due : Contestable(k) /\ contract[k].confirmed # {}}
  <2>1. chosen \in SUBSET Contracts /\ "with" \in List
    BY ContestShape DEF Contest, List
  <2>2. Select(r, "with", chosen)
    BY <1>18 DEF SelectConfirmed
  <2> HIDE DEF chosen
  <2>3. contest' \in [Replicas -> Contest]
    BY <2>1, <2>2, SelectTypes
  <2>4. QED
    BY <1>18, <2>3 DEF TypeOK, SelectConfirmed, Select, Contest
<1>19. ASSUME NEW r \in Replicas, SelectUnconfirmed(r)
      PROVE  TypeOK'
  <2> DEFINE chosen == {k \in contest[r].due : Contestable(k) /\ contract[k].confirmed = {}}
  <2>1. chosen \in SUBSET Contracts /\ "without" \in List
    BY ContestShape DEF Contest, List
  <2>2. Select(r, "without", chosen)
    BY <1>19 DEF SelectUnconfirmed
  <2> HIDE DEF chosen
  <2>3. contest' \in [Replicas -> Contest]
    BY <2>1, <2>2, SelectTypes
  <2>4. QED
    BY <1>19, <2>3 DEF TypeOK, SelectUnconfirmed, Select, Contest
<1>20. ASSUME NEW r \in Replicas, NEW c \in Contracts, NEW list \in List, AutoComplete(r, c, list)
      PROVE  TypeOK'
  <2>1. contract' \in [Contracts -> Contract]
    <3> DEFINE new == [contract[c] EXCEPT !.status = "COMPLETED",
                                          !.tacit = contract[c].tacit \/ list = "without"]
    <3>1. new \in Contract
      <4>1. (contract[c].tacit \/ list = "without") \in BOOLEAN
        OBVIOUS
      <4>2. QED
        BY <1>1, <4>1, SavedContract
    <3>2. contract' = [contract EXCEPT ![c] = new] \/ contract' = contract
      <4>1. CASE Contestable(c)
        BY <1>20, <4>1 DEF AutoComplete, Completed
      <4>2. CASE ~Contestable(c)
        BY <1>20, <4>2 DEF AutoComplete
      <4>3. QED
        BY <4>1, <4>2
    <3> HIDE DEF new
    <3>3. QED
      BY <3>1, <3>2 DEF TypeOK
  <2>2. owed' \in [Contracts -> Nat]
    BY <1>20, EventTypes DEF AutoComplete, TypeOK
  <2>3. contest' \in [Replicas -> Contest]
    BY <1>20, TakeTypes DEF AutoComplete
  <2>4. QED
    BY <1>20, <2>1, <2>2, <2>3 DEF TypeOK, AutoComplete, Contest
<1>21. ASSUME NEW r \in Replicas, NEW c \in Contracts, FailExpiry(r, c)
      PROVE  TypeOK'
  BY <1>21, <1>1, <1>2, FailTypes DEF TypeOK, FailExpiry
<1>22. ASSUME NEW r \in Replicas, NEW c \in Contracts, FailTransition(r, c)
      PROVE  TypeOK'
  BY <1>22, <1>1, <1>2, FailTypes DEF TypeOK, FailTransition
<1>23. ASSUME NEW r \in Replicas, NEW c \in Contracts, NEW list \in List,
             FailAutoComplete(r, c, list)
      PROVE  TypeOK'
  BY <1>23, <1>1, <1>2, FailTypes, TakeTypes DEF TypeOK, FailAutoComplete, Contest
<1>24. ASSUME NEW r \in Replicas, NEW lost \in SUBSET Contracts, Crash(r, lost)
      PROVE  TypeOK'
  <2>1. contest' \in [Replicas -> Contest]
    BY <1>24, ContestShape DEF Crash, TypeOK, Contest
  <2>2. expiry' \in [Replicas -> [todo : SUBSET Contracts, credit : SUBSET Contracts]]
    BY <1>24 DEF Crash, TypeOK, NoExpiry
  <2>3. QED
    BY <1>24, <2>1, <2>2, FailTypes DEF TypeOK, Crash, Contest
<1>25. CASE UNCHANGED vars
  BY <1>25 DEF vars, TypeOK
<1>26. QED
  BY <1>3, <1>4, <1>5, <1>6, <1>7, <1>8, <1>9, <1>10, <1>11, <1>12, <1>13, <1>14, <1>15, <1>16,
        <1>17, <1>18, <1>19, <1>20, <1>21, <1>22, <1>23, <1>24, <1>25
     DEF Next, ExpiryStep, TransitionStep, ContestStep

-----------------------------------------------------------------------------
(***************************************************************************)
(* What the two steps with a choice do to the contract they handle.        *)
(***************************************************************************)
LEMMA ConfirmCompletionEffect ==
    ASSUME TypeOK, NEW c \in Contracts, NEW side \in Side, ConfirmCompletion(c, side)
    PROVE  /\ UNCHANGED <<settlement, past, expiry, transition, contest, announced>>
           /\ Is(c, "AWAITING_COMPLETION_CONFIRMATION")
           /\ \A k \in Contracts : k # c => contract'[k] = contract[k]
           /\ contract'[c].entered = contract[c].entered
           /\ contract'[c].tacit = contract[c].tacit
           /\ \/ /\ contract'[c].status = "COMPLETED" /\ contract'[c].confirmed = Side
                 /\ owed' = [owed EXCEPT ![c] = @ + 1]
              \/ /\ contract'[c].status = "AWAITING_COMPLETION_CONFIRMATION"
                 /\ contract'[c].confirmed # Side
                 /\ UNCHANGED owed
<1> USE DEF TypeOK, Contract, Is, cronVars, ConfirmCompletion, OweEvent
<1>1. CASE contract[c].confirmed \cup {side} = Side
  <2> DEFINE new == [contract[c] EXCEPT !.confirmed = contract[c].confirmed \cup {side},
                                        !.status = "COMPLETED"]
  <2>1. contract' = [contract EXCEPT ![c] = new]
    BY <1>1
  <2>2. /\ new.status = "COMPLETED" /\ new.confirmed = Side
        /\ new.entered = contract[c].entered /\ new.tacit = contract[c].tacit
    BY <1>1
  <2> HIDE DEF new
  <2>3. contract'[c] = new /\ \A k \in Contracts : k # c => contract'[k] = contract[k]
    BY <2>1
  <2>4. QED
    BY <1>1, <2>2, <2>3
<1>2. CASE contract[c].confirmed \cup {side} # Side
  <2> DEFINE new == [contract[c] EXCEPT !.confirmed = contract[c].confirmed \cup {side}]
  <2>1. contract' = [contract EXCEPT ![c] = new]
    BY <1>2
  <2>2. /\ new.status = contract[c].status /\ new.confirmed # Side
        /\ new.entered = contract[c].entered /\ new.tacit = contract[c].tacit
    BY <1>2
  <2> HIDE DEF new
  <2>3. contract'[c] = new /\ \A k \in Contracts : k # c => contract'[k] = contract[k]
    BY <2>1
  <2>4. QED
    BY <1>2, <2>2, <2>3
<1>3. QED
  BY <1>1, <1>2

LEMMA AutoCompleteEffect ==
    ASSUME TypeOK, NEW r \in Replicas, NEW c \in Contracts, NEW list \in List,
           AutoComplete(r, c, list)
    PROVE  /\ UNCHANGED <<settlement, past, expiry, transition, announced>>
           /\ c \in contest[r].found[list]
           /\ \A q \in Replicas :
                 /\ contest'[q].due = contest[q].due
                 /\ \A l \in List : contest'[q].found[l] \subseteq contest[q].found[l]
           /\ \/ UNCHANGED <<contract, owed>>
              \/ /\ Is(c, "AWAITING_COMPLETION_CONFIRMATION")
                 /\ \A k \in Contracts : k # c => contract'[k] = contract[k]
                 /\ contract'[c].status = "COMPLETED"
                 /\ contract'[c].entered = contract[c].entered
                 /\ contract'[c].confirmed = contract[c].confirmed
                 /\ owed' = [owed EXCEPT ![c] = @ + 1]
<1>1. UNCHANGED <<settlement, past, expiry, transition, announced>> /\ c \in contest[r].found[list]
  BY DEF AutoComplete, Take
<1>2. ASSUME NEW q \in Replicas
      PROVE  /\ contest'[q].due = contest[q].due
             /\ \A l \in List : contest'[q].found[l] \subseteq contest[q].found[l]
  <2> DEFINE found == [contest[r].found EXCEPT ![list] = contest[r].found[list] \ {c}]
  <2> DEFINE new == [contest[r] EXCEPT !.found = found]
  <2>1. contest' = [contest EXCEPT ![r] = new]
    BY DEF AutoComplete, Take
  <2>2. \A l \in List : found[l] \subseteq contest[r].found[l]
    BY ContestShape DEF Contest
  <2> HIDE DEF found
  <2>3. new.due = contest[r].due /\ new.found = found
    BY ContestShape DEF Contest
  <2> HIDE DEF new
  <2>4. contest'[q] = IF q = r THEN new ELSE contest[q]
    BY <2>1 DEF TypeOK
  <2>5. QED
    BY <2>2, <2>3, <2>4
<1>3. CASE Contestable(c)
  <2> DEFINE new == [contract[c] EXCEPT !.status = "COMPLETED",
                                        !.tacit = contract[c].tacit \/ list = "without"]
  <2>1. contract' = [contract EXCEPT ![c] = new]
    BY <1>3 DEF AutoComplete, Completed
  <2>2. /\ new.status = "COMPLETED" /\ new.entered = contract[c].entered
        /\ new.confirmed = contract[c].confirmed
    BY DEF TypeOK, Contract
  <2> HIDE DEF new
  <2>3. contract'[c] = new /\ \A k \in Contracts : k # c => contract'[k] = contract[k]
    BY <2>1 DEF TypeOK
  <2>4. QED
    BY <1>1, <1>2, <1>3, <2>2, <2>3 DEF AutoComplete, OweEvent, Contestable
<1>4. CASE ~Contestable(c)
  BY <1>1, <1>2, <1>4 DEF AutoComplete
<1>5. QED
  BY <1>3, <1>4

-----------------------------------------------------------------------------
(***************************************************************************)
(* The statuses a contract moves through.                                  *)
(***************************************************************************)
Follows(from, to) ==
    \/ from = "PENDING_PAYMENT" /\ to = "PENDING_ACCEPTANCE"
    \/ from = "PENDING_ACCEPTANCE" /\ to \in {"ACCEPTED", "REJECTED", "EXPIRED"}
    \/ from = "ACCEPTED" /\ to \in {"CANCELLED", "COMPLETED", "AWAITING_COMPLETION_CONFIRMATION"}
    \/ from = "AWAITING_COMPLETION_CONFIRMATION" /\ to \in {"COMPLETED", "COMPLETION_DISPUTE"}

\* In this step a contract keeps its status or moves to one that follows it.
StatusStep ==
    \A k \in Contracts : \/ contract'[k].status = contract[k].status
                         \/ Follows(contract[k].status, contract'[k].status)

LEMMA NextStatus == TypeOK /\ [Next]_vars => StatusStep
<1> SUFFICES ASSUME TypeOK, [Next]_vars PROVE StatusStep
  OBVIOUS
<1> USE DEF TypeOK, Contract, Follows, StatusStep, Is
<1>1. ASSUME NEW c \in Contracts, ConfirmPayment(c)
      PROVE  StatusStep
  BY <1>1 DEF ConfirmPayment, Move
<1>2. ASSUME NEW c \in Contracts, Accept(c)
      PROVE  StatusStep
  BY <1>2 DEF Accept, Move, Settle
<1>3. ASSUME NEW c \in Contracts, Reject(c)
      PROVE  StatusStep
  BY <1>3 DEF Reject, Move, Settle
<1>4. ASSUME NEW c \in Contracts, Cancel(c)
      PROVE  StatusStep
  BY <1>4 DEF Cancel, Move
<1>5. ASSUME NEW c \in Contracts, Complete(c)
      PROVE  StatusStep
  BY <1>5 DEF Complete, Move, OweEvent
<1>6. ASSUME NEW c \in Contracts, NEW side \in Side, ConfirmCompletion(c, side)
      PROVE  StatusStep
  BY <1>6, ConfirmCompletionEffect
<1>7. ASSUME NEW c \in Contracts, DisputeCompletion(c)
      PROVE  StatusStep
  BY <1>7 DEF DisputeCompletion, Move
<1>8. ASSUME NEW c \in Contracts, Emit(c)
      PROVE  StatusStep
  BY <1>8 DEF Emit
<1>9. ASSUME NEW c \in Contracts, NEW instant \in Instant, Elapse(c, instant)
      PROVE  StatusStep
  BY <1>9 DEF Elapse
<1>10. ASSUME NEW r \in Replicas, BeginExpiry(r)
      PROVE  StatusStep
  BY <1>10 DEF BeginExpiry
<1>11. ASSUME NEW r \in Replicas, NEW c \in Contracts, ExpireInvite(r, c)
      PROVE  StatusStep
  BY <1>11 DEF ExpireInvite
<1>12. ASSUME NEW r \in Replicas, NEW c \in Contracts, CreditExpired(r, c)
      PROVE  StatusStep
  BY <1>12 DEF CreditExpired, Settle
<1>13. ASSUME NEW r \in Replicas, BeginTransition(r)
      PROVE  StatusStep
  BY <1>13 DEF BeginTransition
<1>14. ASSUME NEW r \in Replicas, NEW c \in Contracts, AwaitConfirmation(r, c)
      PROVE  StatusStep
  BY <1>14 DEF AwaitConfirmation, Entered
<1>15. ASSUME NEW r \in Replicas, BeginAutoComplete(r)
      PROVE  StatusStep
  BY <1>15 DEF BeginAutoComplete, List
<1>16. ASSUME NEW r \in Replicas, SelectConfirmed(r)
      PROVE  StatusStep
  BY <1>16 DEF SelectConfirmed, Select
<1>17. ASSUME NEW r \in Replicas, SelectUnconfirmed(r)
      PROVE  StatusStep
  BY <1>17 DEF SelectUnconfirmed, Select
<1>18. ASSUME NEW r \in Replicas, NEW c \in Contracts, NEW list \in List,
             AutoComplete(r, c, list)
      PROVE  StatusStep
  BY <1>18, AutoCompleteEffect
<1>19. ASSUME NEW r \in Replicas, NEW c \in Contracts, FailExpiry(r, c)
      PROVE  StatusStep
  BY <1>19 DEF FailExpiry, Fail
<1>20. ASSUME NEW r \in Replicas, NEW c \in Contracts, FailTransition(r, c)
      PROVE  StatusStep
  BY <1>20 DEF FailTransition, Fail
<1>21. ASSUME NEW r \in Replicas, NEW c \in Contracts, NEW list \in List,
             FailAutoComplete(r, c, list)
      PROVE  StatusStep
  BY <1>21 DEF FailAutoComplete, Fail, Take
<1>22. ASSUME NEW r \in Replicas, NEW lost \in SUBSET Contracts, Crash(r, lost)
      PROVE  StatusStep
  BY <1>22 DEF Crash, Fail, NoExpiry, NoContest
<1>23. CASE UNCHANGED vars
  BY <1>23 DEF vars
<1>24. QED
  BY <1>1, <1>2, <1>3, <1>4, <1>5, <1>6, <1>7, <1>8, <1>9, <1>10, <1>11, <1>12, <1>13, <1>14,
        <1>15, <1>16, <1>17, <1>18, <1>19, <1>20, <1>21, <1>22, <1>23
     DEF Next, ExpiryStep, TransitionStep, ContestStep

\* No contract leaves a terminal status in this step.
TerminalStep ==
    \A k \in Contracts : contract[k].status \in Terminal => contract'[k].status = contract[k].status

LEMMA NextTerminal == TypeOK /\ [Next]_vars => TerminalStep
BY NextStatus DEF StatusStep, Follows, TerminalStep, Terminal

-----------------------------------------------------------------------------
(***************************************************************************)
(* Announcements.                                                          *)
(***************************************************************************)
LEMMA NextAnnounced == TypeOK /\ AnnouncedOnce /\ [Next]_vars => AnnouncedOnce'
<1> SUFFICES ASSUME TypeOK /\ AnnouncedOnce, [Next]_vars PROVE AnnouncedOnce'
  OBVIOUS
<1> USE DEF TypeOK, Contract, AnnouncedOnce, Is, cronVars
<1>1. ASSUME NEW c \in Contracts, ConfirmPayment(c)
      PROVE  AnnouncedOnce'
  BY <1>1 DEF ConfirmPayment, Move
<1>2. ASSUME NEW c \in Contracts, Accept(c)
      PROVE  AnnouncedOnce'
  BY <1>2 DEF Accept, Move, Settle
<1>3. ASSUME NEW c \in Contracts, Reject(c)
      PROVE  AnnouncedOnce'
  BY <1>3 DEF Reject, Move, Settle
<1>4. ASSUME NEW c \in Contracts, Cancel(c)
      PROVE  AnnouncedOnce'
  BY <1>4 DEF Cancel, Move
<1>5. ASSUME NEW c \in Contracts, Complete(c)
      PROVE  AnnouncedOnce'
  BY <1>5 DEF Complete, Move, OweEvent
<1>6. ASSUME NEW c \in Contracts, NEW side \in Side, ConfirmCompletion(c, side)
      PROVE  AnnouncedOnce'
  BY <1>6, ConfirmCompletionEffect
<1>7. ASSUME NEW c \in Contracts, DisputeCompletion(c)
      PROVE  AnnouncedOnce'
  BY <1>7 DEF DisputeCompletion, Move
<1>8. ASSUME NEW c \in Contracts, Emit(c)
      PROVE  AnnouncedOnce'
  BY <1>8 DEF Emit
<1>9. ASSUME NEW c \in Contracts, NEW instant \in Instant, Elapse(c, instant)
      PROVE  AnnouncedOnce'
  BY <1>9 DEF Elapse
<1>10. ASSUME NEW r \in Replicas, BeginExpiry(r)
      PROVE  AnnouncedOnce'
  BY <1>10 DEF BeginExpiry
<1>11. ASSUME NEW r \in Replicas, NEW c \in Contracts, ExpireInvite(r, c)
      PROVE  AnnouncedOnce'
  BY <1>11 DEF ExpireInvite
<1>12. ASSUME NEW r \in Replicas, NEW c \in Contracts, CreditExpired(r, c)
      PROVE  AnnouncedOnce'
  BY <1>12 DEF CreditExpired, Settle
<1>13. ASSUME NEW r \in Replicas, BeginTransition(r)
      PROVE  AnnouncedOnce'
  BY <1>13 DEF BeginTransition
<1>14. ASSUME NEW r \in Replicas, NEW c \in Contracts, AwaitConfirmation(r, c)
      PROVE  AnnouncedOnce'
  BY <1>14 DEF AwaitConfirmation, Entered
<1>15. ASSUME NEW r \in Replicas, BeginAutoComplete(r)
      PROVE  AnnouncedOnce'
  BY <1>15 DEF BeginAutoComplete, List
<1>16. ASSUME NEW r \in Replicas, SelectConfirmed(r)
      PROVE  AnnouncedOnce'
  BY <1>16 DEF SelectConfirmed, Select
<1>17. ASSUME NEW r \in Replicas, SelectUnconfirmed(r)
      PROVE  AnnouncedOnce'
  BY <1>17 DEF SelectUnconfirmed, Select
<1>18. ASSUME NEW r \in Replicas, NEW c \in Contracts, NEW list \in List,
             AutoComplete(r, c, list)
      PROVE  AnnouncedOnce'
  <2>1. CASE UNCHANGED <<contract, owed>>
    BY <1>18, <2>1, AutoCompleteEffect
  <2>2. CASE ~UNCHANGED <<contract, owed>>
    <3>1. /\ UNCHANGED <<settlement, past, expiry, transition, announced>>
          /\ c \in contest[r].found[list]
          /\ Is(c, "AWAITING_COMPLETION_CONFIRMATION")
          /\ \A k \in Contracts : k # c => contract'[k] = contract[k]
          /\ contract'[c].status = "COMPLETED"
          /\ contract'[c].entered = contract[c].entered
          /\ contract'[c].confirmed = contract[c].confirmed
          /\ owed' = [owed EXCEPT ![c] = @ + 1]
      BY <1>18, <2>2, AutoCompleteEffect
    <3>2. QED
      BY <3>1
  <2>3. QED
    BY <2>1, <2>2
<1>19. ASSUME NEW r \in Replicas, NEW c \in Contracts, FailExpiry(r, c)
      PROVE  AnnouncedOnce'
  BY <1>19 DEF FailExpiry, Fail
<1>20. ASSUME NEW r \in Replicas, NEW c \in Contracts, FailTransition(r, c)
      PROVE  AnnouncedOnce'
  BY <1>20 DEF FailTransition, Fail
<1>21. ASSUME NEW r \in Replicas, NEW c \in Contracts, NEW list \in List,
             FailAutoComplete(r, c, list)
      PROVE  AnnouncedOnce'
  BY <1>21 DEF FailAutoComplete, Fail, Take
<1>22. ASSUME NEW r \in Replicas, NEW lost \in SUBSET Contracts, Crash(r, lost)
      PROVE  AnnouncedOnce'
  BY <1>22 DEF Crash, Fail, NoExpiry, NoContest
<1>23. CASE UNCHANGED vars
  BY <1>23 DEF vars
<1>24. QED
  BY <1>1, <1>2, <1>3, <1>4, <1>5, <1>6, <1>7, <1>8, <1>9, <1>10, <1>11, <1>12, <1>13, <1>14,
        <1>15, <1>16, <1>17, <1>18, <1>19, <1>20, <1>21, <1>22, <1>23
     DEF Next, ExpiryStep, TransitionStep, ContestStep

-----------------------------------------------------------------------------
(***************************************************************************)
(* Settlement: the three parts of SettlementInv.                           *)
(***************************************************************************)
LEMMA NextHeldUntilAnswer == SettlementInv /\ [Next]_vars => HeldUntilAnswer'
<1> SUFFICES ASSUME SettlementInv, [Next]_vars PROVE HeldUntilAnswer'
  OBVIOUS
<1> USE DEF SettlementInv, TypeOK, Contract, SettlementStatus, HeldUntilAnswer,
      ExpiryKnowsInvites, SettlementMatchesAnswer, Pending, NotForTheJob, Is, cronVars
<1>1. ASSUME NEW c \in Contracts, ConfirmPayment(c)
      PROVE  HeldUntilAnswer'
  BY <1>1 DEF ConfirmPayment, Move
<1>2. ASSUME NEW c \in Contracts, Accept(c)
      PROVE  HeldUntilAnswer'
  BY <1>2 DEF Accept, Move, Settle
<1>3. ASSUME NEW c \in Contracts, Reject(c)
      PROVE  HeldUntilAnswer'
  BY <1>3 DEF Reject, Move, Settle
<1>4. ASSUME NEW c \in Contracts, Cancel(c)
      PROVE  HeldUntilAnswer'
  BY <1>4 DEF Cancel, Move
<1>5. ASSUME NEW c \in Contracts, Complete(c)
      PROVE  HeldUntilAnswer'
  BY <1>5 DEF Complete, Move, OweEvent
<1>6. ASSUME NEW c \in Contracts, NEW side \in Side, ConfirmCompletion(c, side)
      PROVE  HeldUntilAnswer'
  BY <1>6, ConfirmCompletionEffect
<1>7. ASSUME NEW c \in Contracts, DisputeCompletion(c)
      PROVE  HeldUntilAnswer'
  BY <1>7 DEF DisputeCompletion, Move
<1>8. ASSUME NEW c \in Contracts, Emit(c)
      PROVE  HeldUntilAnswer'
  BY <1>8 DEF Emit
<1>9. ASSUME NEW c \in Contracts, NEW instant \in Instant, Elapse(c, instant)
      PROVE  HeldUntilAnswer'
  BY <1>9 DEF Elapse
<1>10. ASSUME NEW r \in Replicas, BeginExpiry(r)
      PROVE  HeldUntilAnswer'
  BY <1>10 DEF BeginExpiry
<1>11. ASSUME NEW r \in Replicas, NEW c \in Contracts, ExpireInvite(r, c)
      PROVE  HeldUntilAnswer'
  BY <1>11 DEF ExpireInvite
<1>12. ASSUME NEW r \in Replicas, NEW c \in Contracts, CreditExpired(r, c)
      PROVE  HeldUntilAnswer'
  BY <1>12 DEF CreditExpired, Settle
<1>13. ASSUME NEW r \in Replicas, BeginTransition(r)
      PROVE  HeldUntilAnswer'
  BY <1>13 DEF BeginTransition
<1>14. ASSUME NEW r \in Replicas, NEW c \in Contracts, AwaitConfirmation(r, c)
      PROVE  HeldUntilAnswer'
  BY <1>14 DEF AwaitConfirmation, Entered
<1>15. ASSUME NEW r \in Replicas, BeginAutoComplete(r)
      PROVE  HeldUntilAnswer'
  BY <1>15 DEF BeginAutoComplete, List
<1>16. ASSUME NEW r \in Replicas, SelectConfirmed(r)
      PROVE  HeldUntilAnswer'
  BY <1>16 DEF SelectConfirmed, Select
<1>17. ASSUME NEW r \in Replicas, SelectUnconfirmed(r)
      PROVE  HeldUntilAnswer'
  BY <1>17 DEF SelectUnconfirmed, Select
<1>18. ASSUME NEW r \in Replicas, NEW c \in Contracts, NEW list \in List,
             AutoComplete(r, c, list)
      PROVE  HeldUntilAnswer'
  <2>1. CASE UNCHANGED <<contract, owed>>
    BY <1>18, <2>1, AutoCompleteEffect
  <2>2. CASE ~UNCHANGED <<contract, owed>>
    <3>1. /\ UNCHANGED <<settlement, past, expiry, transition, announced>>
          /\ c \in contest[r].found[list]
          /\ Is(c, "AWAITING_COMPLETION_CONFIRMATION")
          /\ \A k \in Contracts : k # c => contract'[k] = contract[k]
          /\ contract'[c].status = "COMPLETED"
          /\ contract'[c].entered = contract[c].entered
          /\ contract'[c].confirmed = contract[c].confirmed
          /\ owed' = [owed EXCEPT ![c] = @ + 1]
      BY <1>18, <2>2, AutoCompleteEffect
    <3>2. QED
      BY <3>1
  <2>3. QED
    BY <2>1, <2>2
<1>19. ASSUME NEW r \in Replicas, NEW c \in Contracts, FailExpiry(r, c)
      PROVE  HeldUntilAnswer'
  BY <1>19 DEF FailExpiry, Fail
<1>20. ASSUME NEW r \in Replicas, NEW c \in Contracts, FailTransition(r, c)
      PROVE  HeldUntilAnswer'
  BY <1>20 DEF FailTransition, Fail
<1>21. ASSUME NEW r \in Replicas, NEW c \in Contracts, NEW list \in List,
             FailAutoComplete(r, c, list)
      PROVE  HeldUntilAnswer'
  BY <1>21 DEF FailAutoComplete, Fail, Take
<1>22. ASSUME NEW r \in Replicas, NEW lost \in SUBSET Contracts, Crash(r, lost)
      PROVE  HeldUntilAnswer'
  BY <1>22 DEF Crash, Fail, NoExpiry, NoContest
<1>23. CASE UNCHANGED vars
  BY <1>23 DEF vars
<1>24. QED
  BY <1>1, <1>2, <1>3, <1>4, <1>5, <1>6, <1>7, <1>8, <1>9, <1>10, <1>11, <1>12, <1>13, <1>14,
        <1>15, <1>16, <1>17, <1>18, <1>19, <1>20, <1>21, <1>22, <1>23
     DEF Next, ExpiryStep, TransitionStep, ContestStep

LEMMA NextExpiryKnowsInvites == SettlementInv /\ [Next]_vars => ExpiryKnowsInvites'
<1> SUFFICES ASSUME SettlementInv, [Next]_vars PROVE ExpiryKnowsInvites'
  OBVIOUS
<1> USE DEF SettlementInv, TypeOK, Contract, SettlementStatus, HeldUntilAnswer,
      ExpiryKnowsInvites, SettlementMatchesAnswer, Pending, NotForTheJob, Is, cronVars
<1>1. ASSUME NEW c \in Contracts, ConfirmPayment(c)
      PROVE  ExpiryKnowsInvites'
  BY <1>1 DEF ConfirmPayment, Move
<1>2. ASSUME NEW c \in Contracts, Accept(c)
      PROVE  ExpiryKnowsInvites'
  BY <1>2 DEF Accept, Move, Settle
<1>3. ASSUME NEW c \in Contracts, Reject(c)
      PROVE  ExpiryKnowsInvites'
  BY <1>3 DEF Reject, Move, Settle
<1>4. ASSUME NEW c \in Contracts, Cancel(c)
      PROVE  ExpiryKnowsInvites'
  BY <1>4 DEF Cancel, Move
<1>5. ASSUME NEW c \in Contracts, Complete(c)
      PROVE  ExpiryKnowsInvites'
  BY <1>5 DEF Complete, Move, OweEvent
<1>6. ASSUME NEW c \in Contracts, NEW side \in Side, ConfirmCompletion(c, side)
      PROVE  ExpiryKnowsInvites'
  BY <1>6, ConfirmCompletionEffect
<1>7. ASSUME NEW c \in Contracts, DisputeCompletion(c)
      PROVE  ExpiryKnowsInvites'
  BY <1>7 DEF DisputeCompletion, Move
<1>8. ASSUME NEW c \in Contracts, Emit(c)
      PROVE  ExpiryKnowsInvites'
  BY <1>8 DEF Emit
<1>9. ASSUME NEW c \in Contracts, NEW instant \in Instant, Elapse(c, instant)
      PROVE  ExpiryKnowsInvites'
  BY <1>9 DEF Elapse
<1>10. ASSUME NEW r \in Replicas, BeginExpiry(r)
      PROVE  ExpiryKnowsInvites'
  BY <1>10 DEF BeginExpiry
<1>11. ASSUME NEW r \in Replicas, NEW c \in Contracts, ExpireInvite(r, c)
      PROVE  ExpiryKnowsInvites'
  BY <1>11 DEF ExpireInvite
<1>12. ASSUME NEW r \in Replicas, NEW c \in Contracts, CreditExpired(r, c)
      PROVE  ExpiryKnowsInvites'
  BY <1>12 DEF CreditExpired, Settle
<1>13. ASSUME NEW r \in Replicas, BeginTransition(r)
      PROVE  ExpiryKnowsInvites'
  BY <1>13 DEF BeginTransition
<1>14. ASSUME NEW r \in Replicas, NEW c \in Contracts, AwaitConfirmation(r, c)
      PROVE  ExpiryKnowsInvites'
  BY <1>14 DEF AwaitConfirmation, Entered
<1>15. ASSUME NEW r \in Replicas, BeginAutoComplete(r)
      PROVE  ExpiryKnowsInvites'
  BY <1>15 DEF BeginAutoComplete, List
<1>16. ASSUME NEW r \in Replicas, SelectConfirmed(r)
      PROVE  ExpiryKnowsInvites'
  BY <1>16 DEF SelectConfirmed, Select
<1>17. ASSUME NEW r \in Replicas, SelectUnconfirmed(r)
      PROVE  ExpiryKnowsInvites'
  BY <1>17 DEF SelectUnconfirmed, Select
<1>18. ASSUME NEW r \in Replicas, NEW c \in Contracts, NEW list \in List,
             AutoComplete(r, c, list)
      PROVE  ExpiryKnowsInvites'
  <2>1. CASE UNCHANGED <<contract, owed>>
    BY <1>18, <2>1, AutoCompleteEffect
  <2>2. CASE ~UNCHANGED <<contract, owed>>
    <3>1. /\ UNCHANGED <<settlement, past, expiry, transition, announced>>
          /\ c \in contest[r].found[list]
          /\ Is(c, "AWAITING_COMPLETION_CONFIRMATION")
          /\ \A k \in Contracts : k # c => contract'[k] = contract[k]
          /\ contract'[c].status = "COMPLETED"
          /\ contract'[c].entered = contract[c].entered
          /\ contract'[c].confirmed = contract[c].confirmed
          /\ owed' = [owed EXCEPT ![c] = @ + 1]
      BY <1>18, <2>2, AutoCompleteEffect
    <3>2. QED
      BY <3>1
  <2>3. QED
    BY <2>1, <2>2
<1>19. ASSUME NEW r \in Replicas, NEW c \in Contracts, FailExpiry(r, c)
      PROVE  ExpiryKnowsInvites'
  BY <1>19 DEF FailExpiry, Fail
<1>20. ASSUME NEW r \in Replicas, NEW c \in Contracts, FailTransition(r, c)
      PROVE  ExpiryKnowsInvites'
  BY <1>20 DEF FailTransition, Fail
<1>21. ASSUME NEW r \in Replicas, NEW c \in Contracts, NEW list \in List,
             FailAutoComplete(r, c, list)
      PROVE  ExpiryKnowsInvites'
  BY <1>21 DEF FailAutoComplete, Fail, Take
<1>22. ASSUME NEW r \in Replicas, NEW lost \in SUBSET Contracts, Crash(r, lost)
      PROVE  ExpiryKnowsInvites'
  BY <1>22 DEF Crash, Fail, NoExpiry, NoContest
<1>23. CASE UNCHANGED vars
  BY <1>23 DEF vars
<1>24. QED
  BY <1>1, <1>2, <1>3, <1>4, <1>5, <1>6, <1>7, <1>8, <1>9, <1>10, <1>11, <1>12, <1>13, <1>14,
        <1>15, <1>16, <1>17, <1>18, <1>19, <1>20, <1>21, <1>22, <1>23
     DEF Next, ExpiryStep, TransitionStep, ContestStep

LEMMA NextSettlementMatchesAnswer == SettlementInv /\ [Next]_vars => SettlementMatchesAnswer'
<1> SUFFICES ASSUME SettlementInv, [Next]_vars PROVE SettlementMatchesAnswer'
  OBVIOUS
<1> USE DEF SettlementInv, TypeOK, Contract, SettlementStatus, HeldUntilAnswer,
      ExpiryKnowsInvites, SettlementMatchesAnswer, Pending, NotForTheJob, Is, cronVars
<1>1. ASSUME NEW c \in Contracts, ConfirmPayment(c)
      PROVE  SettlementMatchesAnswer'
  BY <1>1 DEF ConfirmPayment, Move
<1>2. ASSUME NEW c \in Contracts, Accept(c)
      PROVE  SettlementMatchesAnswer'
  BY <1>2 DEF Accept, Move, Settle
<1>3. ASSUME NEW c \in Contracts, Reject(c)
      PROVE  SettlementMatchesAnswer'
  BY <1>3 DEF Reject, Move, Settle
<1>4. ASSUME NEW c \in Contracts, Cancel(c)
      PROVE  SettlementMatchesAnswer'
  BY <1>4 DEF Cancel, Move
<1>5. ASSUME NEW c \in Contracts, Complete(c)
      PROVE  SettlementMatchesAnswer'
  BY <1>5 DEF Complete, Move, OweEvent
<1>6. ASSUME NEW c \in Contracts, NEW side \in Side, ConfirmCompletion(c, side)
      PROVE  SettlementMatchesAnswer'
  BY <1>6, ConfirmCompletionEffect
<1>7. ASSUME NEW c \in Contracts, DisputeCompletion(c)
      PROVE  SettlementMatchesAnswer'
  BY <1>7 DEF DisputeCompletion, Move
<1>8. ASSUME NEW c \in Contracts, Emit(c)
      PROVE  SettlementMatchesAnswer'
  BY <1>8 DEF Emit
<1>9. ASSUME NEW c \in Contracts, NEW instant \in Instant, Elapse(c, instant)
      PROVE  SettlementMatchesAnswer'
  BY <1>9 DEF Elapse
<1>10. ASSUME NEW r \in Replicas, BeginExpiry(r)
      PROVE  SettlementMatchesAnswer'
  BY <1>10 DEF BeginExpiry
<1>11. ASSUME NEW r \in Replicas, NEW c \in Contracts, ExpireInvite(r, c)
      PROVE  SettlementMatchesAnswer'
  BY <1>11 DEF ExpireInvite
<1>12. ASSUME NEW r \in Replicas, NEW c \in Contracts, CreditExpired(r, c)
      PROVE  SettlementMatchesAnswer'
  BY <1>12 DEF CreditExpired, Settle
<1>13. ASSUME NEW r \in Replicas, BeginTransition(r)
      PROVE  SettlementMatchesAnswer'
  BY <1>13 DEF BeginTransition
<1>14. ASSUME NEW r \in Replicas, NEW c \in Contracts, AwaitConfirmation(r, c)
      PROVE  SettlementMatchesAnswer'
  BY <1>14 DEF AwaitConfirmation, Entered
<1>15. ASSUME NEW r \in Replicas, BeginAutoComplete(r)
      PROVE  SettlementMatchesAnswer'
  BY <1>15 DEF BeginAutoComplete, List
<1>16. ASSUME NEW r \in Replicas, SelectConfirmed(r)
      PROVE  SettlementMatchesAnswer'
  BY <1>16 DEF SelectConfirmed, Select
<1>17. ASSUME NEW r \in Replicas, SelectUnconfirmed(r)
      PROVE  SettlementMatchesAnswer'
  BY <1>17 DEF SelectUnconfirmed, Select
<1>18. ASSUME NEW r \in Replicas, NEW c \in Contracts, NEW list \in List,
             AutoComplete(r, c, list)
      PROVE  SettlementMatchesAnswer'
  <2>1. CASE UNCHANGED <<contract, owed>>
    BY <1>18, <2>1, AutoCompleteEffect
  <2>2. CASE ~UNCHANGED <<contract, owed>>
    <3>1. /\ UNCHANGED <<settlement, past, expiry, transition, announced>>
          /\ c \in contest[r].found[list]
          /\ Is(c, "AWAITING_COMPLETION_CONFIRMATION")
          /\ \A k \in Contracts : k # c => contract'[k] = contract[k]
          /\ contract'[c].status = "COMPLETED"
          /\ contract'[c].entered = contract[c].entered
          /\ contract'[c].confirmed = contract[c].confirmed
          /\ owed' = [owed EXCEPT ![c] = @ + 1]
      BY <1>18, <2>2, AutoCompleteEffect
    <3>2. QED
      BY <3>1
  <2>3. QED
    BY <2>1, <2>2
<1>19. ASSUME NEW r \in Replicas, NEW c \in Contracts, FailExpiry(r, c)
      PROVE  SettlementMatchesAnswer'
  BY <1>19 DEF FailExpiry, Fail
<1>20. ASSUME NEW r \in Replicas, NEW c \in Contracts, FailTransition(r, c)
      PROVE  SettlementMatchesAnswer'
  BY <1>20 DEF FailTransition, Fail
<1>21. ASSUME NEW r \in Replicas, NEW c \in Contracts, NEW list \in List,
             FailAutoComplete(r, c, list)
      PROVE  SettlementMatchesAnswer'
  BY <1>21 DEF FailAutoComplete, Fail, Take
<1>22. ASSUME NEW r \in Replicas, NEW lost \in SUBSET Contracts, Crash(r, lost)
      PROVE  SettlementMatchesAnswer'
  BY <1>22 DEF Crash, Fail, NoExpiry, NoContest
<1>23. CASE UNCHANGED vars
  BY <1>23 DEF vars
<1>24. QED
  BY <1>1, <1>2, <1>3, <1>4, <1>5, <1>6, <1>7, <1>8, <1>9, <1>10, <1>11, <1>12, <1>13, <1>14,
        <1>15, <1>16, <1>17, <1>18, <1>19, <1>20, <1>21, <1>22, <1>23
     DEF Next, ExpiryStep, TransitionStep, ContestStep

-----------------------------------------------------------------------------
(***************************************************************************)
(* Completion: the three parts of ReasonInv.                               *)
(***************************************************************************)
LEMMA NextPhaseInOrder == ReasonInv /\ [Next]_vars => PhaseInOrder'
<1> SUFFICES ASSUME ReasonInv, [Next]_vars PROVE PhaseInOrder'
  OBVIOUS
<1> USE DEF ReasonInv, TypeOK, Contract, PhaseInOrder, ListsAreDue, CompletedInTime, Pending,
      Is, cronVars
<1>1. ASSUME NEW c \in Contracts, ConfirmPayment(c)
      PROVE  PhaseInOrder'
  BY <1>1 DEF ConfirmPayment, Move
<1>2. ASSUME NEW c \in Contracts, Accept(c)
      PROVE  PhaseInOrder'
  BY <1>2 DEF Accept, Move, Settle
<1>3. ASSUME NEW c \in Contracts, Reject(c)
      PROVE  PhaseInOrder'
  BY <1>3 DEF Reject, Move, Settle
<1>4. ASSUME NEW c \in Contracts, Cancel(c)
      PROVE  PhaseInOrder'
  BY <1>4 DEF Cancel, Move
<1>5. ASSUME NEW c \in Contracts, Complete(c)
      PROVE  PhaseInOrder'
  BY <1>5 DEF Complete, Move, OweEvent
<1>6. ASSUME NEW c \in Contracts, NEW side \in Side, ConfirmCompletion(c, side)
      PROVE  PhaseInOrder'
  BY <1>6, ConfirmCompletionEffect
<1>7. ASSUME NEW c \in Contracts, DisputeCompletion(c)
      PROVE  PhaseInOrder'
  BY <1>7 DEF DisputeCompletion, Move
<1>8. ASSUME NEW c \in Contracts, Emit(c)
      PROVE  PhaseInOrder'
  BY <1>8 DEF Emit
<1>9. ASSUME NEW c \in Contracts, NEW instant \in Instant, Elapse(c, instant)
      PROVE  PhaseInOrder'
  BY <1>9 DEF Elapse
<1>10. ASSUME NEW r \in Replicas, BeginExpiry(r)
      PROVE  PhaseInOrder'
  BY <1>10 DEF BeginExpiry
<1>11. ASSUME NEW r \in Replicas, NEW c \in Contracts, ExpireInvite(r, c)
      PROVE  PhaseInOrder'
  BY <1>11 DEF ExpireInvite
<1>12. ASSUME NEW r \in Replicas, NEW c \in Contracts, CreditExpired(r, c)
      PROVE  PhaseInOrder'
  BY <1>12 DEF CreditExpired, Settle
<1>13. ASSUME NEW r \in Replicas, BeginTransition(r)
      PROVE  PhaseInOrder'
  BY <1>13 DEF BeginTransition
<1>14. ASSUME NEW r \in Replicas, NEW c \in Contracts, AwaitConfirmation(r, c)
      PROVE  PhaseInOrder'
  BY <1>14 DEF AwaitConfirmation, Entered
<1>15. ASSUME NEW r \in Replicas, BeginAutoComplete(r)
      PROVE  PhaseInOrder'
  BY <1>15 DEF BeginAutoComplete, List
<1>16. ASSUME NEW r \in Replicas, SelectConfirmed(r)
      PROVE  PhaseInOrder'
  BY <1>16 DEF SelectConfirmed, Select
<1>17. ASSUME NEW r \in Replicas, SelectUnconfirmed(r)
      PROVE  PhaseInOrder'
  BY <1>17 DEF SelectUnconfirmed, Select
<1>18. ASSUME NEW r \in Replicas, NEW c \in Contracts, NEW list \in List,
             AutoComplete(r, c, list)
      PROVE  PhaseInOrder'
  <2>1. CASE UNCHANGED <<contract, owed>>
    BY <1>18, <2>1, AutoCompleteEffect
  <2>2. CASE ~UNCHANGED <<contract, owed>>
    <3>1. /\ UNCHANGED <<settlement, past, expiry, transition, announced>>
          /\ c \in contest[r].found[list]
          /\ Is(c, "AWAITING_COMPLETION_CONFIRMATION")
          /\ \A k \in Contracts : k # c => contract'[k] = contract[k]
          /\ contract'[c].status = "COMPLETED"
          /\ contract'[c].entered = contract[c].entered
          /\ contract'[c].confirmed = contract[c].confirmed
          /\ owed' = [owed EXCEPT ![c] = @ + 1]
      BY <1>18, <2>2, AutoCompleteEffect
    <3>2. QED
      BY <3>1
  <2>3. QED
    BY <2>1, <2>2
<1>19. ASSUME NEW r \in Replicas, NEW c \in Contracts, FailExpiry(r, c)
      PROVE  PhaseInOrder'
  BY <1>19 DEF FailExpiry, Fail
<1>20. ASSUME NEW r \in Replicas, NEW c \in Contracts, FailTransition(r, c)
      PROVE  PhaseInOrder'
  BY <1>20 DEF FailTransition, Fail
<1>21. ASSUME NEW r \in Replicas, NEW c \in Contracts, NEW list \in List,
             FailAutoComplete(r, c, list)
      PROVE  PhaseInOrder'
  BY <1>21 DEF FailAutoComplete, Fail, Take
<1>22. ASSUME NEW r \in Replicas, NEW lost \in SUBSET Contracts, Crash(r, lost)
      PROVE  PhaseInOrder'
  BY <1>22 DEF Crash, Fail, NoExpiry, NoContest
<1>23. CASE UNCHANGED vars
  BY <1>23 DEF vars
<1>24. QED
  BY <1>1, <1>2, <1>3, <1>4, <1>5, <1>6, <1>7, <1>8, <1>9, <1>10, <1>11, <1>12, <1>13, <1>14,
        <1>15, <1>16, <1>17, <1>18, <1>19, <1>20, <1>21, <1>22, <1>23
     DEF Next, ExpiryStep, TransitionStep, ContestStep

LEMMA NextListsAreDue == ReasonInv /\ [Next]_vars => ListsAreDue'
<1> SUFFICES ASSUME ReasonInv, [Next]_vars PROVE ListsAreDue'
  OBVIOUS
<1> USE DEF ReasonInv, TypeOK, Contract, PhaseInOrder, ListsAreDue, CompletedInTime, Pending,
      Is, cronVars
<1>1. ASSUME NEW c \in Contracts, ConfirmPayment(c)
      PROVE  ListsAreDue'
  BY <1>1 DEF ConfirmPayment, Move
<1>2. ASSUME NEW c \in Contracts, Accept(c)
      PROVE  ListsAreDue'
  BY <1>2 DEF Accept, Move, Settle
<1>3. ASSUME NEW c \in Contracts, Reject(c)
      PROVE  ListsAreDue'
  BY <1>3 DEF Reject, Move, Settle
<1>4. ASSUME NEW c \in Contracts, Cancel(c)
      PROVE  ListsAreDue'
  BY <1>4 DEF Cancel, Move
<1>5. ASSUME NEW c \in Contracts, Complete(c)
      PROVE  ListsAreDue'
  BY <1>5 DEF Complete, Move, OweEvent
<1>6. ASSUME NEW c \in Contracts, NEW side \in Side, ConfirmCompletion(c, side)
      PROVE  ListsAreDue'
  BY <1>6, ConfirmCompletionEffect
<1>7. ASSUME NEW c \in Contracts, DisputeCompletion(c)
      PROVE  ListsAreDue'
  BY <1>7 DEF DisputeCompletion, Move
<1>8. ASSUME NEW c \in Contracts, Emit(c)
      PROVE  ListsAreDue'
  BY <1>8 DEF Emit
<1>9. ASSUME NEW c \in Contracts, NEW instant \in Instant, Elapse(c, instant)
      PROVE  ListsAreDue'
  BY <1>9 DEF Elapse
<1>10. ASSUME NEW r \in Replicas, BeginExpiry(r)
      PROVE  ListsAreDue'
  BY <1>10 DEF BeginExpiry
<1>11. ASSUME NEW r \in Replicas, NEW c \in Contracts, ExpireInvite(r, c)
      PROVE  ListsAreDue'
  BY <1>11 DEF ExpireInvite
<1>12. ASSUME NEW r \in Replicas, NEW c \in Contracts, CreditExpired(r, c)
      PROVE  ListsAreDue'
  BY <1>12 DEF CreditExpired, Settle
<1>13. ASSUME NEW r \in Replicas, BeginTransition(r)
      PROVE  ListsAreDue'
  BY <1>13 DEF BeginTransition
<1>14. ASSUME NEW r \in Replicas, NEW c \in Contracts, AwaitConfirmation(r, c)
      PROVE  ListsAreDue'
  BY <1>14 DEF AwaitConfirmation, Entered
<1>15. ASSUME NEW r \in Replicas, BeginAutoComplete(r)
      PROVE  ListsAreDue'
  BY <1>15 DEF BeginAutoComplete, List
<1>16. ASSUME NEW r \in Replicas, SelectConfirmed(r)
      PROVE  ListsAreDue'
  BY <1>16 DEF SelectConfirmed, Select
<1>17. ASSUME NEW r \in Replicas, SelectUnconfirmed(r)
      PROVE  ListsAreDue'
  BY <1>17 DEF SelectUnconfirmed, Select
<1>18. ASSUME NEW r \in Replicas, NEW c \in Contracts, NEW list \in List,
             AutoComplete(r, c, list)
      PROVE  ListsAreDue'
  <2>1. CASE UNCHANGED <<contract, owed>>
    BY <1>18, <2>1, AutoCompleteEffect
  <2>2. CASE ~UNCHANGED <<contract, owed>>
    <3>1. /\ UNCHANGED <<settlement, past, expiry, transition, announced>>
          /\ c \in contest[r].found[list]
          /\ Is(c, "AWAITING_COMPLETION_CONFIRMATION")
          /\ \A k \in Contracts : k # c => contract'[k] = contract[k]
          /\ contract'[c].status = "COMPLETED"
          /\ contract'[c].entered = contract[c].entered
          /\ contract'[c].confirmed = contract[c].confirmed
          /\ owed' = [owed EXCEPT ![c] = @ + 1]
      BY <1>18, <2>2, AutoCompleteEffect
    <3>2. QED
      BY <3>1, <1>18, <2>2, AutoCompleteEffect
  <2>3. QED
    BY <2>1, <2>2
<1>19. ASSUME NEW r \in Replicas, NEW c \in Contracts, FailExpiry(r, c)
      PROVE  ListsAreDue'
  BY <1>19 DEF FailExpiry, Fail
<1>20. ASSUME NEW r \in Replicas, NEW c \in Contracts, FailTransition(r, c)
      PROVE  ListsAreDue'
  BY <1>20 DEF FailTransition, Fail
<1>21. ASSUME NEW r \in Replicas, NEW c \in Contracts, NEW list \in List,
             FailAutoComplete(r, c, list)
      PROVE  ListsAreDue'
  BY <1>21 DEF FailAutoComplete, Fail, Take
<1>22. ASSUME NEW r \in Replicas, NEW lost \in SUBSET Contracts, Crash(r, lost)
      PROVE  ListsAreDue'
  BY <1>22 DEF Crash, Fail, NoExpiry, NoContest
<1>23. CASE UNCHANGED vars
  BY <1>23 DEF vars
<1>24. QED
  BY <1>1, <1>2, <1>3, <1>4, <1>5, <1>6, <1>7, <1>8, <1>9, <1>10, <1>11, <1>12, <1>13, <1>14,
        <1>15, <1>16, <1>17, <1>18, <1>19, <1>20, <1>21, <1>22, <1>23
     DEF Next, ExpiryStep, TransitionStep, ContestStep

LEMMA NextCompletedInTime == ReasonInv /\ [Next]_vars => CompletedInTime'
<1> SUFFICES ASSUME ReasonInv, [Next]_vars PROVE CompletedInTime'
  OBVIOUS
<1> USE DEF ReasonInv, TypeOK, Contract, PhaseInOrder, ListsAreDue, CompletedInTime, Pending,
      Is, cronVars
<1>1. ASSUME NEW c \in Contracts, ConfirmPayment(c)
      PROVE  CompletedInTime'
  BY <1>1 DEF ConfirmPayment, Move
<1>2. ASSUME NEW c \in Contracts, Accept(c)
      PROVE  CompletedInTime'
  BY <1>2 DEF Accept, Move, Settle
<1>3. ASSUME NEW c \in Contracts, Reject(c)
      PROVE  CompletedInTime'
  BY <1>3 DEF Reject, Move, Settle
<1>4. ASSUME NEW c \in Contracts, Cancel(c)
      PROVE  CompletedInTime'
  BY <1>4 DEF Cancel, Move
<1>5. ASSUME NEW c \in Contracts, Complete(c)
      PROVE  CompletedInTime'
  BY <1>5 DEF Complete, Move, OweEvent
<1>6. ASSUME NEW c \in Contracts, NEW side \in Side, ConfirmCompletion(c, side)
      PROVE  CompletedInTime'
  BY <1>6, ConfirmCompletionEffect
<1>7. ASSUME NEW c \in Contracts, DisputeCompletion(c)
      PROVE  CompletedInTime'
  BY <1>7 DEF DisputeCompletion, Move
<1>8. ASSUME NEW c \in Contracts, Emit(c)
      PROVE  CompletedInTime'
  BY <1>8 DEF Emit
<1>9. ASSUME NEW c \in Contracts, NEW instant \in Instant, Elapse(c, instant)
      PROVE  CompletedInTime'
  BY <1>9 DEF Elapse
<1>10. ASSUME NEW r \in Replicas, BeginExpiry(r)
      PROVE  CompletedInTime'
  BY <1>10 DEF BeginExpiry
<1>11. ASSUME NEW r \in Replicas, NEW c \in Contracts, ExpireInvite(r, c)
      PROVE  CompletedInTime'
  BY <1>11 DEF ExpireInvite
<1>12. ASSUME NEW r \in Replicas, NEW c \in Contracts, CreditExpired(r, c)
      PROVE  CompletedInTime'
  BY <1>12 DEF CreditExpired, Settle
<1>13. ASSUME NEW r \in Replicas, BeginTransition(r)
      PROVE  CompletedInTime'
  BY <1>13 DEF BeginTransition
<1>14. ASSUME NEW r \in Replicas, NEW c \in Contracts, AwaitConfirmation(r, c)
      PROVE  CompletedInTime'
  BY <1>14 DEF AwaitConfirmation, Entered
<1>15. ASSUME NEW r \in Replicas, BeginAutoComplete(r)
      PROVE  CompletedInTime'
  BY <1>15 DEF BeginAutoComplete, List
<1>16. ASSUME NEW r \in Replicas, SelectConfirmed(r)
      PROVE  CompletedInTime'
  BY <1>16 DEF SelectConfirmed, Select
<1>17. ASSUME NEW r \in Replicas, SelectUnconfirmed(r)
      PROVE  CompletedInTime'
  BY <1>17 DEF SelectUnconfirmed, Select
<1>18. ASSUME NEW r \in Replicas, NEW c \in Contracts, NEW list \in List,
             AutoComplete(r, c, list)
      PROVE  CompletedInTime'
  <2>1. CASE UNCHANGED <<contract, owed>>
    BY <1>18, <2>1, AutoCompleteEffect
  <2>2. CASE ~UNCHANGED <<contract, owed>>
    <3>1. /\ UNCHANGED <<settlement, past, expiry, transition, announced>>
          /\ c \in contest[r].found[list]
          /\ Is(c, "AWAITING_COMPLETION_CONFIRMATION")
          /\ \A k \in Contracts : k # c => contract'[k] = contract[k]
          /\ contract'[c].status = "COMPLETED"
          /\ contract'[c].entered = contract[c].entered
          /\ contract'[c].confirmed = contract[c].confirmed
          /\ owed' = [owed EXCEPT ![c] = @ + 1]
      BY <1>18, <2>2, AutoCompleteEffect
    <3>2. QED
      BY <3>1
  <2>3. QED
    BY <2>1, <2>2
<1>19. ASSUME NEW r \in Replicas, NEW c \in Contracts, FailExpiry(r, c)
      PROVE  CompletedInTime'
  BY <1>19 DEF FailExpiry, Fail
<1>20. ASSUME NEW r \in Replicas, NEW c \in Contracts, FailTransition(r, c)
      PROVE  CompletedInTime'
  BY <1>20 DEF FailTransition, Fail
<1>21. ASSUME NEW r \in Replicas, NEW c \in Contracts, NEW list \in List,
             FailAutoComplete(r, c, list)
      PROVE  CompletedInTime'
  BY <1>21 DEF FailAutoComplete, Fail, Take
<1>22. ASSUME NEW r \in Replicas, NEW lost \in SUBSET Contracts, Crash(r, lost)
      PROVE  CompletedInTime'
  BY <1>22 DEF Crash, Fail, NoExpiry, NoContest
<1>23. CASE UNCHANGED vars
  BY <1>23 DEF vars
<1>24. QED
  BY <1>1, <1>2, <1>3, <1>4, <1>5, <1>6, <1>7, <1>8, <1>9, <1>10, <1>11, <1>12, <1>13, <1>14,
        <1>15, <1>16, <1>17, <1>18, <1>19, <1>20, <1>21, <1>22, <1>23
     DEF Next, ExpiryStep, TransitionStep, ContestStep

-----------------------------------------------------------------------------
(***************************************************************************)
(* The theorems.                                                           *)
(***************************************************************************)
LEMMA InitInvs == Init => AnnouncedOnce /\ SettlementInv /\ ReasonInv
<1> SUFFICES ASSUME Init PROVE AnnouncedOnce /\ SettlementInv /\ ReasonInv
  OBVIOUS
<1> USE DEF Init, Is
<1>1. TypeOK
  BY InitTypeOK
<1>2. AnnouncedOnce
  BY DEF AnnouncedOnce
<1>3. HeldUntilAnswer /\ ExpiryKnowsInvites /\ SettlementMatchesAnswer
  BY DEF HeldUntilAnswer, ExpiryKnowsInvites, SettlementMatchesAnswer, Pending, NotForTheJob,
         NoExpiry
<1>4. PhaseInOrder /\ ListsAreDue /\ CompletedInTime
  BY DEF PhaseInOrder, ListsAreDue, CompletedInTime, Pending, NoContest
<1>5. QED
  BY <1>1, <1>2, <1>3, <1>4 DEF SettlementInv, ReasonInv

\* Every variable keeps its type, for any overlap of handlers, crons and failures.
THEOREM TypeCorrect == Spec => []TypeOK
BY InitTypeOK, NextTypeOK, PTL DEF Spec

\* Rejected, cancelled, expired, completed and disputed contracts stay so: the
\* conditional UPDATEs of the crons never overwrite what a user did first.
THEOREM TerminalStays == Spec => TerminalIsFinal
<1>1. TypeOK /\ [Next]_vars
      => [\A c \in Contracts :
            contract[c].status \in Terminal => contract'[c].status = contract[c].status]_vars
  BY NextTerminal DEF TerminalStep
<1>2. QED
  BY <1>1, TypeCorrect, PTL DEF Spec, TerminalIsFinal

\* The status of a contract moves only along the machine of Follows, whichever
\* handlers and crons cross.
THEOREM StatusFollows == Spec => [][StatusStep]_vars
<1>1. TypeOK /\ [Next]_vars => [StatusStep]_vars
  BY NextStatus
<1>2. QED
  BY <1>1, TypeCorrect, PTL DEF Spec

\* The completed event of a contract is emitted at most once and only for a
\* COMPLETED contract, with any number of replicas running the crons
\* (complete, confirmCompletion, autoCompleteExpiredContests).
THEOREM AnnouncedAtMostOnce == Spec => []AnnouncedOnce
<1>1. Init => AnnouncedOnce
  BY InitInvs
<1>2. QED
  BY <1>1, NextAnnounced, TypeCorrect, PTL DEF Spec

LEMMA SettlementInvariant == Spec => []SettlementInv
<1>1. Init => SettlementInv
  BY InitInvs
<1>2. SettlementInv /\ [Next]_vars => SettlementInv'
  BY NextTypeOK, NextHeldUntilAnswer, NextExpiryKnowsInvites, NextSettlementMatchesAnswer
     DEF SettlementInv
<1>3. QED
  BY <1>1, <1>2, PTL DEF Spec

\* The payment of an accepted invite is never turned into credit and credit is
\* given only for rejected and expired invites, although processExpiredInvites
\* ignores whether its UPDATE matched.
THEOREM SettlementCorrect == Spec => []SettlementMatchesAnswer
<1>1. SettlementInv => SettlementMatchesAnswer
  BY DEF SettlementInv
<1>2. QED
  BY <1>1, SettlementInvariant, PTL

LEMMA ReasonInvariant == Spec => []ReasonInv
<1>1. Init => ReasonInv
  BY InitInvs
<1>2. ReasonInv /\ [Next]_vars => ReasonInv'
  BY NextTypeOK, NextPhaseInOrder, NextListsAreDue, NextCompletedInTime DEF ReasonInv
<1>3. QED
  BY <1>1, <1>2, PTL DEF Spec

-----------------------------------------------------------------------------
(***************************************************************************)
(* ContractLifecycle implements Deal: each of its steps is a step of Deal  *)
(* under the mapping, or stutters.                                         *)
(***************************************************************************)
LEMMA PhaseOfStatus ==
    /\ Phase("PENDING_PAYMENT") = "offered" /\ Phase("PENDING_ACCEPTANCE") = "offered"
    /\ Phase("REJECTED") = "refused" /\ Phase("EXPIRED") = "refused"
    /\ Phase("ACCEPTED") = "agreed" /\ Phase("AWAITING_COMPLETION_CONFIRMATION") = "agreed"
    /\ Phase("CANCELLED") = "cancelled" /\ Phase("COMPLETION_DISPUTE") = "disputed"
    /\ Phase("COMPLETED") = "done"
BY DEF Phase

\* One contract changes, and its phase with it.
LEMMA PhaseMoves ==
    ASSUME TypeOK, NEW c \in Contracts, NEW status,
           contract'[c].status = status,
           \A k \in Contracts : k # c => contract'[k] = contract[k]
    PROVE  /\ phases' = [phases EXCEPT ![c] = Phase(status)]
           /\ Phase(status) = phases[c] => phases' = phases
BY DEF phases

LEMMA MovePhases ==
    ASSUME TypeOK, NEW c \in Contracts, NEW from, NEW to, Move(c, from, to)
    PROVE  /\ phases[c] = Phase(from)
           /\ phases' = [phases EXCEPT ![c] = Phase(to)]
           /\ Phase(from) = Phase(to) => phases' = phases
<1>1. contract[c].status = from
  BY DEF Move, Is
<1>2. contract'[c].status = to /\ \A k \in Contracts : k # c => contract'[k] = contract[k]
  BY DEF Move, TypeOK, Contract
<1>3. phases[c] = Phase(from)
  BY <1>1 DEF phases
<1>4. QED
  BY <1>2, <1>3, PhaseMoves

\* What the mapping says of a contract of a given status.
LEMMA PhaseAt ==
    ASSUME NEW c \in Contracts, NEW status, Is(c, status)
    PROVE  phases[c] = Phase(status)
BY DEF phases, Is

LEMMA SameContracts == UNCHANGED contract => UNCHANGED phases
BY DEF phases

-----------------------------------------------------------------------------
\* Announcements of the next state are at most one: the event that is emitted now
\* was owed.
LEMMA EmitTells ==
    ASSUME TypeOK, AnnouncedOnce, NEW c \in Contracts, Emit(c)
    PROVE  Is(c, "COMPLETED") /\ announced[c] = 0 /\ announced' = [announced EXCEPT ![c] = 1]
<1>1. owed[c] \in Nat /\ announced[c] \in Nat /\ owed[c] > 0 /\ owed[c] + announced[c] <= 1
  BY DEF TypeOK, AnnouncedOnce, Emit
<1>2. announced[c] = 0 /\ announced[c] + 1 = 1
  BY <1>1
<1>3. announced' = [announced EXCEPT ![c] = announced[c] + 1]
  BY DEF Emit
<1>4. Is(c, "COMPLETED")
  BY <1>1 DEF AnnouncedOnce
<1>5. QED
  BY <1>2, <1>3, <1>4

LEMMA SettleHeld ==
    ASSUME TypeOK, NEW c \in Contracts, NEW as, Settle(c, as)
    PROVE  IF settlement[c] = "HELD" THEN settlement' = [settlement EXCEPT ![c] = as]
           ELSE UNCHANGED settlement
BY DEF TypeOK, Settle

Stutter == UNCHANGED <<phases, settlement, announced>>
DealStep == Promise!Next \/ Stutter

LEMMA NextIsDealStep ==
    SettlementInv /\ AnnouncedOnce /\ [Next]_vars => DealStep
<1> SUFFICES ASSUME SettlementInv, AnnouncedOnce, [Next]_vars PROVE DealStep
  OBVIOUS
<1> USE DEF cronVars
<1>t. TypeOK
  BY DEF SettlementInv
<1>h. \A c \in Contracts :
         Is(c, "PENDING_ACCEPTANCE") => c \notin OpenOffer /\ settlement[c] = "HELD"
  BY <1>t DEF SettlementInv, HeldUntilAnswer, SettlementMatchesAnswer, NotForTheJob, Pending,
              TypeOK, SettlementStatus, Is
<1>1. ASSUME NEW c \in Contracts, ConfirmPayment(c)
      PROVE  DealStep
  <2>1. Move(c, "PENDING_PAYMENT", "PENDING_ACCEPTANCE") /\ UNCHANGED <<settlement, announced>>
    BY <1>1 DEF ConfirmPayment
  <2>2. QED
    BY <1>t, <2>1, MovePhases, PhaseOfStatus DEF DealStep, Stutter
<1>2. ASSUME NEW c \in Contracts, Accept(c)
      PROVE  DealStep
  <2>1. /\ Move(c, "PENDING_ACCEPTANCE", "ACCEPTED") /\ Settle(c, "APPLIED")
        /\ UNCHANGED announced
    BY <1>2 DEF Accept
  <2>2. settlement[c] = "HELD"
    BY <1>h, <2>1 DEF Move
  <2>3. settlement' = [settlement EXCEPT ![c] = "APPLIED"]
    BY <1>t, <2>1, <2>2, SettleHeld
  <2>4. phases[c] = "offered" /\ phases' = [phases EXCEPT ![c] = "agreed"]
    BY <1>t, <2>1, MovePhases, PhaseOfStatus
  <2>5. Promise!Agree(c)
    BY <2>1, <2>2, <2>3, <2>4 DEF Promise!Agree
  <2>6. QED
    BY <2>5 DEF DealStep, Promise!Next
<1>3. ASSUME NEW c \in Contracts, Reject(c)
      PROVE  DealStep
  <2>1. /\ Move(c, "PENDING_ACCEPTANCE", "REJECTED") /\ Settle(c, "CONVERTED_TO_CREDIT")
        /\ UNCHANGED announced
    BY <1>3 DEF Reject
  <2>2. settlement[c] = "HELD"
    BY <1>h, <2>1 DEF Move
  <2>3. settlement' = [settlement EXCEPT ![c] = "CONVERTED_TO_CREDIT"]
    BY <1>t, <2>1, <2>2, SettleHeld
  <2>4. phases[c] = "offered" /\ phases' = [phases EXCEPT ![c] = "refused"]
    BY <1>t, <2>1, MovePhases, PhaseOfStatus
  <2>5. Promise!Refuse(c)
    BY <2>1, <2>2, <2>3, <2>4 DEF Promise!Refuse
  <2>6. QED
    BY <2>5 DEF DealStep, Promise!Next
<1>4. ASSUME NEW c \in Contracts, Cancel(c)
      PROVE  DealStep
  <2>1. Move(c, "ACCEPTED", "CANCELLED") /\ UNCHANGED <<settlement, announced>>
    BY <1>4 DEF Cancel
  <2>2. phases[c] = "agreed" /\ phases' = [phases EXCEPT ![c] = "cancelled"]
    BY <1>t, <2>1, MovePhases, PhaseOfStatus
  <2>3. Promise!Conclude(c)
    BY <2>1, <2>2 DEF Promise!Conclude
  <2>4. QED
    BY <2>3 DEF DealStep, Promise!Next
<1>5. ASSUME NEW c \in Contracts, Complete(c)
      PROVE  DealStep
  <2>1. Move(c, "ACCEPTED", "COMPLETED") /\ UNCHANGED <<settlement, announced>>
    BY <1>5 DEF Complete
  <2>2. phases[c] = "agreed" /\ phases' = [phases EXCEPT ![c] = "done"]
    BY <1>t, <2>1, MovePhases, PhaseOfStatus
  <2>3. Promise!Conclude(c)
    BY <2>1, <2>2 DEF Promise!Conclude
  <2>4. QED
    BY <2>3 DEF DealStep, Promise!Next
<1>6. ASSUME NEW c \in Contracts, NEW side \in Side, ConfirmCompletion(c, side)
      PROVE  DealStep
  <2>1. /\ UNCHANGED <<settlement, announced>>
        /\ Is(c, "AWAITING_COMPLETION_CONFIRMATION")
        /\ \A k \in Contracts : k # c => contract'[k] = contract[k]
        /\ contract'[c].status \in {"COMPLETED", "AWAITING_COMPLETION_CONFIRMATION"}
    BY <1>t, <1>6, ConfirmCompletionEffect
  <2>2. phases[c] = "agreed"
    BY <2>1, PhaseAt, PhaseOfStatus
  <2>3. CASE contract'[c].status = "COMPLETED"
    <3>1. phases' = [phases EXCEPT ![c] = "done"]
      BY <1>t, <2>1, <2>3, PhaseMoves, PhaseOfStatus
    <3>2. Promise!Conclude(c)
      BY <2>1, <2>2, <3>1 DEF Promise!Conclude
    <3>3. QED
      BY <3>2 DEF DealStep, Promise!Next
  <2>4. CASE contract'[c].status = "AWAITING_COMPLETION_CONFIRMATION"
    <3>1. UNCHANGED phases
      BY <1>t, <2>1, <2>2, <2>4, PhaseMoves, PhaseOfStatus
    <3>2. QED
      BY <2>1, <3>1 DEF DealStep, Stutter
  <2>5. QED
    BY <2>1, <2>3, <2>4
<1>7. ASSUME NEW c \in Contracts, DisputeCompletion(c)
      PROVE  DealStep
  <2>1. /\ Move(c, "AWAITING_COMPLETION_CONFIRMATION", "COMPLETION_DISPUTE")
        /\ UNCHANGED <<settlement, announced>>
    BY <1>7 DEF DisputeCompletion
  <2>2. phases[c] = "agreed" /\ phases' = [phases EXCEPT ![c] = "disputed"]
    BY <1>t, <2>1, MovePhases, PhaseOfStatus
  <2>3. Promise!Conclude(c)
    BY <2>1, <2>2 DEF Promise!Conclude
  <2>4. QED
    BY <2>3 DEF DealStep, Promise!Next
<1>8. ASSUME NEW c \in Contracts, Emit(c)
      PROVE  DealStep
  <2>1. /\ Is(c, "COMPLETED") /\ announced[c] = 0
        /\ announced' = [announced EXCEPT ![c] = 1]
    BY <1>t, <1>8, EmitTells
  <2>2. phases[c] = "done"
    BY <2>1, PhaseAt, PhaseOfStatus
  <2>3. UNCHANGED <<phases, settlement>>
    BY <1>8, SameContracts DEF Emit
  <2>4. Promise!Tell(c)
    BY <2>1, <2>2, <2>3 DEF Promise!Tell
  <2>5. QED
    BY <2>4 DEF DealStep, Promise!Next
<1>9. ASSUME NEW r \in Replicas, NEW c \in Contracts, ExpireInvite(r, c)
      PROVE  DealStep
  <2>1. UNCHANGED <<settlement, announced>>
    BY <1>9 DEF ExpireInvite
  <2>2. CASE Is(c, "PENDING_ACCEPTANCE")
    <3>1. contract' = [contract EXCEPT ![c].status = "EXPIRED"]
      BY <1>9, <2>2 DEF ExpireInvite
    <3>2. Move(c, "PENDING_ACCEPTANCE", "EXPIRED")
      BY <2>2, <3>1 DEF Move
    <3>3. phases[c] = "offered" /\ phases' = [phases EXCEPT ![c] = "refused"]
      BY <1>t, <3>2, MovePhases, PhaseOfStatus
    <3>4. settlement[c] = "HELD" /\ settlement' = [settlement EXCEPT ![c] = "HELD"]
      BY <1>t, <1>h, <2>1, <2>2 DEF TypeOK
    <3>5. Promise!Refuse(c)
      BY <2>1, <3>3, <3>4 DEF Promise!Refuse
    <3>6. QED
      BY <3>5 DEF DealStep, Promise!Next
  <2>3. CASE ~Is(c, "PENDING_ACCEPTANCE")
    <3>1. UNCHANGED contract
      BY <1>9, <2>3 DEF ExpireInvite
    <3>2. QED
      BY <2>1, <3>1, SameContracts DEF DealStep, Stutter
  <2>4. QED
    BY <2>2, <2>3
<1>10. ASSUME NEW r \in Replicas, NEW c \in Contracts, CreditExpired(r, c)
      PROVE  DealStep
  <2>1. /\ c \in expiry[r].credit /\ Settle(c, "CONVERTED_TO_CREDIT")
        /\ UNCHANGED <<contract, announced>>
    BY <1>10 DEF CreditExpired
  <2>2. UNCHANGED phases
    BY <2>1, SameContracts
  <2>3. CASE settlement[c] = "HELD"
    <3>1. c \notin OpenOffer /\ contract[c].status \notin Pending
      BY <2>1 DEF SettlementInv, ExpiryKnowsInvites
    <3>2. Is(c, "EXPIRED")
      BY <2>3, <3>1 DEF SettlementInv, HeldUntilAnswer, Is
    <3>3. phases[c] = "refused"
      BY <3>2, PhaseAt, PhaseOfStatus
    <3>4. settlement' = [settlement EXCEPT ![c] = "CONVERTED_TO_CREDIT"]
      BY <1>t, <2>1, <2>3, SettleHeld
    <3>5. Promise!GiveBack(c)
      BY <2>1, <2>2, <2>3, <3>3, <3>4 DEF Promise!GiveBack
    <3>6. QED
      BY <3>5 DEF DealStep, Promise!Next
  <2>4. CASE settlement[c] # "HELD"
    BY <1>t, <2>1, <2>2, <2>4, SettleHeld DEF DealStep, Stutter
  <2>5. QED
    BY <2>3, <2>4
<1>11. ASSUME NEW r \in Replicas, NEW c \in Contracts, AwaitConfirmation(r, c)
      PROVE  DealStep
  <2>1. UNCHANGED <<settlement, announced>>
    BY <1>11 DEF AwaitConfirmation
  <2>2. CASE Is(c, "ACCEPTED")
    <3>1. contract' = Entered(c)
      BY <1>11, <2>2 DEF AwaitConfirmation
    <3>2. /\ contract'[c].status = "AWAITING_COMPLETION_CONFIRMATION"
          /\ \A k \in Contracts : k # c => contract'[k] = contract[k]
      BY <1>t, <3>1 DEF Entered, TypeOK, Contract
    <3>3. phases[c] = "agreed"
      BY <2>2, PhaseAt, PhaseOfStatus
    <3>4. UNCHANGED phases
      BY <1>t, <3>2, <3>3, PhaseMoves, PhaseOfStatus
    <3>5. QED
      BY <2>1, <3>4 DEF DealStep, Stutter
  <2>3. CASE ~Is(c, "ACCEPTED")
    <3>1. UNCHANGED contract
      BY <1>11, <2>3 DEF AwaitConfirmation
    <3>2. QED
      BY <2>1, <3>1, SameContracts DEF DealStep, Stutter
  <2>4. QED
    BY <2>2, <2>3
<1>12. ASSUME NEW r \in Replicas, NEW c \in Contracts, NEW list \in List,
             AutoComplete(r, c, list)
      PROVE  DealStep
  <2>1. UNCHANGED <<settlement, announced>>
    BY <1>t, <1>12, AutoCompleteEffect
  <2>2. CASE UNCHANGED <<contract, owed>>
    BY <2>1, <2>2, SameContracts DEF DealStep, Stutter
  <2>3. CASE ~UNCHANGED <<contract, owed>>
    <3>1. /\ Is(c, "AWAITING_COMPLETION_CONFIRMATION")
          /\ \A k \in Contracts : k # c => contract'[k] = contract[k]
          /\ contract'[c].status = "COMPLETED"
      BY <1>t, <1>12, <2>3, AutoCompleteEffect
    <3>2. phases[c] = "agreed"
      BY <3>1, PhaseAt, PhaseOfStatus
    <3>3. phases' = [phases EXCEPT ![c] = "done"]
      BY <1>t, <3>1, PhaseMoves, PhaseOfStatus
    <3>4. Promise!Conclude(c)
      BY <2>1, <3>2, <3>3 DEF Promise!Conclude
    <3>5. QED
      BY <3>4 DEF DealStep, Promise!Next
  <2>4. QED
    BY <2>2, <2>3
<1>13. ASSUME UNCHANGED <<contract, settlement, announced>>
      PROVE  DealStep
  BY <1>13, SameContracts DEF DealStep, Stutter
<1>14. ASSUME NEW c \in Contracts, NEW instant \in Instant, Elapse(c, instant)
      PROVE  DealStep
  BY <1>13, <1>14 DEF Elapse
<1>15. ASSUME NEW r \in Replicas,
             \/ BeginExpiry(r) \/ BeginTransition(r) \/ BeginAutoComplete(r)
             \/ SelectConfirmed(r) \/ SelectUnconfirmed(r)
      PROVE  DealStep
  BY <1>13, <1>15 DEF BeginExpiry, BeginTransition, BeginAutoComplete, SelectConfirmed,
                      SelectUnconfirmed, Select
<1>16. ASSUME NEW r \in Replicas, NEW c \in Contracts, FailExpiry(r, c) \/ FailTransition(r, c)
      PROVE  DealStep
  BY <1>13, <1>16 DEF FailExpiry, FailTransition
<1>17. ASSUME NEW r \in Replicas, NEW c \in Contracts, NEW list \in List,
             FailAutoComplete(r, c, list)
      PROVE  DealStep
  BY <1>13, <1>17 DEF FailAutoComplete
<1>18. ASSUME NEW r \in Replicas, NEW lost \in SUBSET Contracts, Crash(r, lost)
      PROVE  DealStep
  BY <1>13, <1>18 DEF Crash
<1>19. CASE UNCHANGED vars
  BY <1>13, <1>19 DEF vars
<1>20. QED
  BY <1>1, <1>2, <1>3, <1>4, <1>5, <1>6, <1>7, <1>8, <1>9, <1>10, <1>11, <1>12, <1>14,
     <1>15, <1>16, <1>17, <1>18, <1>19
     DEF Next, ExpiryStep, TransitionStep, ContestStep

-----------------------------------------------------------------------------
LEMMA InitIsDealInit == Init => Promise!Init
<1> SUFFICES ASSUME Init PROVE Promise!Init
  OBVIOUS
<1>1. \A c \in Contracts :
         Phase(contract[c].status) = IF c \in OpenOffer THEN "agreed" ELSE "offered"
  BY PhaseOfStatus DEF Init
<1>2. phases = [c \in Contracts |-> IF c \in OpenOffer THEN "agreed" ELSE "offered"]
  BY <1>1 DEF phases
<1>3. QED
  BY <1>2 DEF Init, Promise!Init

\* Whatever handlers, crons of any number of replicas and crashes do, a contract is
\* answered once, its payment follows the answer (accept, reject, creditFromPayment),
\* its job is concluded once and its completion announced once.
THEOREM LifecycleImplementsDeal == Spec => DealKept
<1>1. Init => SettlementInv /\ AnnouncedOnce
  BY InitInvs
<1>2. SettlementInv /\ [Next]_vars => SettlementInv'
  BY NextTypeOK, NextHeldUntilAnswer, NextExpiryKnowsInvites, NextSettlementMatchesAnswer
     DEF SettlementInv
<1>3. SettlementInv /\ AnnouncedOnce /\ [Next]_vars => AnnouncedOnce'
  BY NextAnnounced DEF SettlementInv
<1>4. SettlementInv /\ AnnouncedOnce /\ [Next]_vars => [Promise!Next]_(Promise!vars)
  BY NextIsDealStep DEF DealStep, Stutter, Promise!vars
<1>5. QED
  BY <1>1, <1>2, <1>3, <1>4, InitIsDealInit, PTL DEF Spec, DealKept, Promise!Spec

-----------------------------------------------------------------------------
(***************************************************************************)
(* Tacit approval.                                                         *)
(***************************************************************************)
\* What a step does to the confirmations and the tacit approvals.
TacitStep ==
    \A k \in Contracts :
        /\ \/ contract'[k].confirmed = contract[k].confirmed
           \/ \E side \in Side : ConfirmCompletion(k, side)
        /\ contract'[k].tacit =>
              \/ contract[k].tacit
              \/ /\ Contestable(k) /\ contract'[k].status = "COMPLETED"
                 /\ contract'[k].confirmed = contract[k].confirmed

\* Both confirmations, like a tacit approval, complete the contract, and only one of
\* the two can.
TacitInv ==
    \A c \in Contracts :
        /\ contract[c].confirmed = Side \/ contract[c].tacit => Is(c, "COMPLETED")
        /\ contract[c].tacit => contract[c].confirmed # Side

\* The columns of one contract change, but neither of these two.
LEMMA ColumnsAreTacit ==
    ASSUME TypeOK, NEW c \in Contracts,
           \/ contract' = contract
           \/ \E to : contract' = [contract EXCEPT ![c].status = to]
           \/ contract' = Entered(c)
    PROVE  TacitStep
<1>1. \A k \in Contracts :
         contract'[k].confirmed = contract[k].confirmed /\ contract'[k].tacit = contract[k].tacit
  <2>1. CASE contract' = contract
    BY <2>1
  <2>2. ASSUME NEW to, contract' = [contract EXCEPT ![c].status = to]
        PROVE  \A k \in Contracts : /\ contract'[k].confirmed = contract[k].confirmed
                                    /\ contract'[k].tacit = contract[k].tacit
    <3>1. contract' = [contract EXCEPT ![c] = [contract[c] EXCEPT !.status = to]]
      BY <2>2
    <3>2. /\ [contract[c] EXCEPT !.status = to].confirmed = contract[c].confirmed
          /\ [contract[c] EXCEPT !.status = to].tacit = contract[c].tacit
      BY DEF TypeOK, Contract
    <3>3. QED
      BY <3>1, <3>2 DEF TypeOK
  <2>3. CASE contract' = Entered(c)
    <3> DEFINE new == [contract[c] EXCEPT !.status = "AWAITING_COMPLETION_CONFIRMATION",
                                          !.entered = TRUE]
    <3>1. contract' = [contract EXCEPT ![c] = new]
      BY <2>3 DEF Entered
    <3>2. new.confirmed = contract[c].confirmed /\ new.tacit = contract[c].tacit
      BY DEF TypeOK, Contract
    <3> HIDE DEF new
    <3>3. QED
      BY <3>1, <3>2 DEF TypeOK
  <2>4. QED
    BY <2>1, <2>2, <2>3
<1>2. QED
  BY <1>1 DEF TacitStep

LEMMA AutoCompleteIsTacit ==
    ASSUME TypeOK, NEW r \in Replicas, NEW c \in Contracts, NEW list \in List,
           AutoComplete(r, c, list)
    PROVE  TacitStep
<1>1. CASE contract' = contract
  BY <1>1 DEF TacitStep
<1>2. CASE Contestable(c) /\ contract' = Completed(c, list)
  <2> DEFINE new == [contract[c] EXCEPT !.status = "COMPLETED",
                                        !.tacit = contract[c].tacit \/ list = "without"]
  <2>1. contract' = [contract EXCEPT ![c] = new]
    BY <1>2 DEF Completed
  <2>2. new.status = "COMPLETED" /\ new.confirmed = contract[c].confirmed
    BY DEF TypeOK, Contract
  <2> HIDE DEF new
  <2>3. contract'[c] = new /\ \A k \in Contracts : k # c => contract'[k] = contract[k]
    BY <2>1 DEF TypeOK
  <2>4. QED
    BY <1>2, <2>2, <2>3 DEF TacitStep
<1>3. QED
  BY <1>1, <1>2 DEF AutoComplete

LEMMA ConfirmIsTacit ==
    ASSUME TypeOK, NEW c \in Contracts, NEW side \in Side, ConfirmCompletion(c, side)
    PROVE  TacitStep
<1>1. /\ contract'[c].tacit = contract[c].tacit
      /\ \A k \in Contracts : k # c => contract'[k] = contract[k]
  BY ConfirmCompletionEffect
<1>2. \A k \in Contracts : \/ contract'[k].confirmed = contract[k].confirmed
                           \/ \E x \in Side : ConfirmCompletion(k, x)
  BY <1>1
<1>3. \A k \in Contracts : contract'[k].tacit => contract[k].tacit
  BY <1>1
<1>4. QED
  BY <1>2, <1>3 DEF TacitStep

LEMMA NextTacitStep ==
    ASSUME TypeOK, [Next]_vars
    PROVE  TacitStep
<1>1. ASSUME NEW c \in Contracts,
             \/ ConfirmPayment(c) \/ Accept(c) \/ Reject(c) \/ Cancel(c) \/ Complete(c)
             \/ DisputeCompletion(c) \/ Emit(c)
             \/ \E instant \in Instant : Elapse(c, instant)
      PROVE  TacitStep
  <2>1. contract' = contract \/ \E to : contract' = [contract EXCEPT ![c].status = to]
    BY <1>1 DEF ConfirmPayment, Accept, Reject, Cancel, Complete, DisputeCompletion, Emit,
                Elapse, Move
  <2>2. QED
    BY <2>1, ColumnsAreTacit
<1>2. ASSUME NEW c \in Contracts, NEW side \in Side, ConfirmCompletion(c, side)
      PROVE  TacitStep
  BY <1>2, ConfirmIsTacit
<1>3. ASSUME NEW r \in Replicas, NEW c \in Contracts,
             ExpireInvite(r, c) \/ CreditExpired(r, c) \/ AwaitConfirmation(r, c)
             \/ FailExpiry(r, c) \/ FailTransition(r, c)
      PROVE  TacitStep
  <2>1. \/ contract' = contract \/ contract' = Entered(c)
        \/ \E to : contract' = [contract EXCEPT ![c].status = to]
    BY <1>3 DEF ExpireInvite, CreditExpired, AwaitConfirmation, FailExpiry, FailTransition
  <2>2. QED
    BY <2>1, ColumnsAreTacit
<1>4. ASSUME NEW r \in Replicas,
             \/ BeginExpiry(r) \/ BeginTransition(r) \/ BeginAutoComplete(r)
             \/ SelectConfirmed(r) \/ SelectUnconfirmed(r)
             \/ \E c \in Contracts, list \in List : FailAutoComplete(r, c, list)
             \/ \E lost \in SUBSET Contracts : Crash(r, lost)
      PROVE  TacitStep
  <2>1. contract' = contract
    BY <1>4 DEF BeginExpiry, BeginTransition, BeginAutoComplete, SelectConfirmed,
                SelectUnconfirmed, Select, FailAutoComplete, Crash
  <2>2. QED
    BY <2>1 DEF TacitStep
<1>5. ASSUME NEW r \in Replicas, NEW c \in Contracts, NEW list \in List,
             AutoComplete(r, c, list)
      PROVE  TacitStep
  BY <1>5, AutoCompleteIsTacit
<1>6. CASE UNCHANGED vars
  BY <1>6 DEF vars, TacitStep
<1>7. QED
  BY <1>1, <1>2, <1>3, <1>4, <1>5, <1>6 DEF Next, ExpiryStep, TransitionStep, ContestStep

LEMMA NextTacitInv ==
    ASSUME TypeOK, TacitInv, [Next]_vars
    PROVE  TacitInv'
<1> SUFFICES ASSUME NEW c \in Contracts
             PROVE  /\ contract'[c].confirmed = Side \/ contract'[c].tacit
                          => contract'[c].status = "COMPLETED"
                    /\ contract'[c].tacit => contract'[c].confirmed # Side
  BY DEF TacitInv, Is
<1>1. TacitStep /\ TerminalStep
  BY NextTacitStep, NextTerminal
<1>2. ASSUME NEW side \in Side, ConfirmCompletion(c, side)
      PROVE  /\ contract'[c].confirmed = Side => contract'[c].status = "COMPLETED"
             /\ ~contract'[c].tacit
  BY <1>2, ConfirmCompletionEffect DEF TacitInv, Is
<1>3. CASE contract'[c].confirmed = contract[c].confirmed
  <2>1. Is(c, "COMPLETED") => contract'[c].status = "COMPLETED"
    BY <1>1 DEF TerminalStep, Terminal, Is
  <2>2. contract'[c].tacit => contract[c].tacit \/ (Contestable(c) /\ contract'[c].status = "COMPLETED")
    BY <1>1 DEF TacitStep
  <2>3. Contestable(c) => contract[c].confirmed # Side
    BY DEF TacitInv, Contestable, Is
  <2>4. QED
    BY <1>3, <2>1, <2>2, <2>3 DEF TacitInv
<1>4. QED
  BY <1>1, <1>2, <1>3 DEF TacitStep

\* No contract is completed before the end of its job, nor out of the completion
\* phase without both confirmations or the deadline, and no two confirmations are
\* overridden by a tacit approval (job-completion.service.ts), on any number of
\* replicas and through failures and crashes.
THEOREM CompletionJustified == Spec => []CompletedForAReason
<1>1. Init => TacitInv
  <2>1. {} # Side
    BY DEF Side
  <2>2. QED
    BY <2>1 DEF Init, TacitInv
<1>2. TypeOK /\ TacitInv /\ [Next]_vars => TacitInv'
  BY NextTacitInv
<1>3. ReasonInv /\ TacitInv => CompletedForAReason
  BY DEF ReasonInv, CompletedInTime, TacitInv, CompletedForAReason
<1>4. QED
  BY <1>1, <1>2, <1>3, TypeCorrect, ReasonInvariant, PTL DEF Spec
=============================================================================
