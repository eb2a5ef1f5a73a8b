------------------------------- MODULE Wallet -------------------------------
(***************************************************************************)
(* What the internal balance promises to the companies and to the code     *)
(* that charges them, whichever requests, crons and admins move it: it     *)
(* stays within its bounds, a purchase is given back at most once and at   *)
(* most at its price, and takes its credit at most once.  CompanyBalance   *)
(* implements it.                                                          *)
(***************************************************************************)
EXTENDS Integers

CONSTANTS Owners,     \* who holds a balance
          Purchases,  \* what a balance pays for
          Owner,      \* of a purchase
          Price,      \* the most a purchase may give back
          Credit,     \* the most a purchase may take
          Opening,    \* the balances at the start
          Allowed     \* what a balance may be

VARIABLES balance,
          returned,   \* purchases given back as credit
          spent       \* purchases that took credit

vars == <<balance, returned, spent>>

Init == balance = Opening /\ returned = {} /\ spent = {}

Move(o, d) ==
    /\ balance[o] + d \in Allowed
    /\ balance' = [balance EXCEPT ![o] = @ + d]

Return(p) ==
    /\ p \notin returned /\ returned' = returned \cup {p}
    /\ \E a \in 0..Price[p] : Move(Owner[p], a)
    /\ UNCHANGED spent

Spend(p) ==
    /\ p \notin spent /\ spent' = spent \cup {p}
    /\ \E a \in 1..Credit[p] : Move(Owner[p], -a)
    /\ UNCHANGED returned

\* Money that leaves the platform.
PayBack(o) ==
    /\ \E a \in 1..balance[o] : Move(o, -a)
    /\ UNCHANGED <<returned, spent>>

Next ==
    \/ \E p \in Purchases : Return(p) \/ Spend(p)
    \/ \E o \in Owners : PayBack(o)

Spec == Init /\ [][Next]_vars
=============================================================================
