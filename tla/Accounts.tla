------------------------------ MODULE Accounts ------------------------------
(***************************************************************************)
(* The accounts of the platform: how they come into being and become       *)
(* partners' (module SignUp), and the address of a profile (module         *)
(* ProfileLocation).  The two share no row: a step is one of the one or of *)
(* the other.                                                              *)
(***************************************************************************)
EXTENDS SignUp, ProfileLocation

Init == SignUpInit /\ LocationInit

Next ==
    \/ SignUpNext /\ UNCHANGED locationVars
    \/ LocationNext /\ UNCHANGED signUpVars

vars == <<signUpVars, locationVars>>

Spec == Init /\ [][Next]_vars

\* The values of every column and of every request in progress.
TypeOK == SignUpTypeOK /\ LocationTypeOK
=============================================================================
