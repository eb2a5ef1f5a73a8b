----------------------- MODULE CompanyBalanceHistory -----------------------
(***************************************************************************)
(* Which handlers of CompanyBalance have overlapped.  Two promises of      *)
(* company-balance.service.ts rest on a check that is made without a lock  *)
(* and is not made again: that a request is PAID once, and that a company  *)
(* has one request pending.  The two history variables remember for which  *)
(* requests and companies the check was ever shared by two handlers; the   *)
(* behaviours are those of CompanyBalance.                                 *)
(***************************************************************************)
EXTENDS CompanyBalance

VARIABLES crossedSaves,     \* requests that two administrators were saving at a time
          crossedRequests   \* companies two of whose refund requests were under way at a time

historyVars == <<vars, crossedSaves, crossedRequests>>

\* Session s is between the read and the save of request r, or between the first
\* read and the insert of a request of company c.
Saves(s, r) == task[s].op \in {"approve", "reject", "markPaid"} /\ task[s].refund = r
Asks(s, c) == task[s].op \in {"countPending", "insert"} /\ task[s].company = c

SavedTwice(r) == \E s, t \in Sessions : s # t /\ Saves(s, r) /\ Saves(t, r)
AskedTwice(c) == \E s, t \in Sessions : s # t /\ Asks(s, c) /\ Asks(t, c)

HistoryInit ==
    /\ Init
    /\ crossedSaves = {}
    /\ crossedRequests = {}

HistoryNext ==
    /\ Next
    /\ crossedSaves' = crossedSaves \cup {r \in Refunds : SavedTwice(r)'}
    /\ crossedRequests' = crossedRequests \cup {c \in Companies : AskedTwice(c)'}

HistorySpec == HistoryInit /\ [][HistoryNext]_historyVars

-----------------------------------------------------------------------------
(***************************************************************************)
(* Properties                                                              *)
(***************************************************************************)
\* markRefundPaid, "Solicitacao deve estar aprovada para marcar como paga": a
\* request is debited at most once, and reads PAID exactly when it was.
DebitedOnceUnlessCrossed ==
    \A r \in Refunds \ crossedSaves :
        /\ HasStatus(r, "PAID") <=> Entries("REFUND_PROCESSED", r) # {}
        /\ \A i, j \in Entries("REFUND_PROCESSED", r) : i = j

\* requestRefund, "Verifica se ja existe solicitacao pendente": a company has at
\* most one PENDING request.
OnePendingUnlessCrossed ==
    \A c \in Companies \ crossedRequests : \A r1, r2 \in Pending(c) : r1 = r2

\* Both promises hold of every request and every company but those whose own
\* handlers crossed, however the handlers of the others interleave: a debit is
\* not repeated by a later administrator, a PAID is not taken back by a save, and
\* a second request is refused, or there were two handlers between one check and
\* its write.
RefundsKeptUnlessCrossed == DebitedOnceUnlessCrossed /\ OnePendingUnlessCrossed
=============================================================================
