------------------------------- MODULE SignUp -------------------------------
(***************************************************************************)
(* How an account comes into being, and becomes a partner's: the bootstrap *)
(* of users.service.ts, the legal acceptance it records, the referral code *)
(* it claims, and the activation of partners in referrals.service.ts.      *)
(*                                                                         *)
(* Bootstrap is a sequence of statements without a transaction: requests   *)
(* of one person (a form sent twice, a new identity for an old email)      *)
(* interleave between any two of them, and any of them may be the last.    *)
(* A user is named by their email, which never changes.                    *)
(***************************************************************************)
EXTENDS FiniteSets

CONSTANTS Requests,  \* calls of POST /users/bootstrap
          AuthOf,    \* the identity that sends one
          EmailOf,   \* and its email
          RoleOf,    \* the role asked for
          CodeOf,    \* the partner whose code is given, or NoOne
          Accepting, \* the requests that carry a valid legalAcceptance
          Activations, \* calls of POST /internal/partners/:userId/activate
          NoOne

Roles == {"CREATOR", "COMPANY"}
Users == {EmailOf[r] : r \in Requests}
Identities == {AuthOf[r] : r \in Requests}

ASSUME SignUpConstants ==
    /\ RoleOf \in [Requests -> Roles]
    /\ CodeOf \in [Requests -> Users \cup {NoOne}]
    /\ Accepting \subseteq Requests
    /\ NoOne \notin Users \cup Identities \cup Requests

VARIABLES user,        \* users: identity, role; history: the request that created it
          profile,     \* profiles
          roleProfile, \* creator_profiles and company_profiles
          portfolio,   \* portfolios
          accepted,    \* legal_acceptances: a user and the role whose term it is
          referral,    \* the partner of a user's referral
          step,        \* where a request is
          partner,     \* partner_profiles: the status
          activeCode,  \* partners with an active referral code
          activation   \* activatePartnerByUserId, before its commit

accountVars == <<user, profile, roleProfile, portfolio, accepted, referral>>
partnerVars == <<partner, activeCode, activation>>
signUpVars == <<accountVars, step, partnerVars>>

NoUser == [auth |-> NoOne, role |-> "NONE", by |-> NoOne]
Exists(u) == user[u] # NoUser
PartnerStatus == {"NONE", "ACTIVE", "SUSPENDED"}
NoActivation == [of |-> NoOne, seen |-> "UNREAD"]

SignUpTypeOK ==
    /\ user \in [Users -> [auth : Identities, role : Roles, by : Requests] \cup {NoUser}]
    /\ \A u, v \in Users : Exists(u) /\ user[u].auth = user[v].auth => u = v
    /\ profile \subseteq Users /\ portfolio \subseteq Users
    /\ roleProfile \subseteq Users \X Roles
    /\ accepted \subseteq Users \X Roles
    /\ referral \in [Users -> Users \cup {NoOne}]
    /\ step \in [Requests -> {"start", "byEmail", "relink", "create", "profile", "roleProfile",
                              "portfolio", "claim", "claimed", "accept", "payload", "fallback", "done",
                              "refused", "died"}]
    /\ partner \in [Users -> PartnerStatus]
    /\ activeCode \subseteq Users
    /\ activation \in [Activations -> [of : Users, seen : PartnerStatus \cup {"UNREAD"}]
                                          \cup {NoActivation}]

SignUpInit ==
    /\ user = [u \in Users |-> NoUser]
    /\ profile = {} /\ roleProfile = {} /\ portfolio = {} /\ accepted = {}
    /\ referral = [u \in Users |-> NoOne]
    /\ step = [r \in Requests |-> "start"]
    /\ partner = [u \in Users |-> "NONE"]
    /\ activeCode = {}
    /\ activation = [a \in Activations |-> NoActivation]

-----------------------------------------------------------------------------
(***************************************************************************)
(* bootstrap                                                               *)
(***************************************************************************)
Go(r, from, to) == step[r] = from /\ step' = [step EXCEPT ![r] = to]
Known(r) == \E u \in Users : user[u].auth = AuthOf[r]

\* findByAuthUserIdWithProfiles; the account it finds is the answer, and is given
\* the portfolio it may lack.
LookUpAuth(r) ==
    LET mine == {u \in Users : user[u].auth = AuthOf[r]}
    IN  /\ Go(r, "start", IF mine # {} THEN "done" ELSE "byEmail")
        /\ portfolio' = portfolio \cup mine
        /\ UNCHANGED <<user, profile, roleProfile, accepted, referral, partnerVars>>

\* findByEmail; a new account needs a legalAcceptance.
LookUpEmail(r) ==
    /\ Go(r, "byEmail", IF Exists(EmailOf[r]) THEN "relink"
                        ELSE IF r \in Accepting THEN "create" ELSE "refused")
    /\ UNCHANGED <<accountVars, partnerVars>>

\* updateAuthUserId: the old account passes to the new identity of its email.
Relink(r) ==
    LET u == EmailOf[r]
    IN  /\ IF \E v \in Users \ {u} : user[v].auth = AuthOf[r]
           THEN Go(r, "relink", "refused") /\ UNCHANGED user
           ELSE /\ Go(r, "relink", IF r \in Accepting THEN "accept" ELSE "payload")
                /\ user' = [user EXCEPT ![u].auth = AuthOf[r]]
        /\ UNCHANGED <<profile, roleProfile, portfolio, accepted, referral, partnerVars>>

\* Mutant: a request that lost the race goes on with what it was to create.
CreateOrGoOn(r) ==
    LET u == EmailOf[r]
    IN  /\ IF ~Known(r) /\ ~Exists(u)
           THEN /\ Go(r, "create", "profile")
                /\ user' = [user EXCEPT ![u] = [auth |-> AuthOf[r], role |-> RoleOf[r], by |-> r]]
           ELSE /\ Go(r, "create", IF Exists(u) THEN "profile" ELSE "refused")
                /\ UNCHANGED user
        /\ UNCHANGED <<profile, roleProfile, portfolio, accepted, referral, partnerVars>>

\* The email and the identity of a user are UNIQUE: a request that lost the race
\* answers with the account that won it.
Create(r) ==
    LET u == EmailOf[r]
    IN  /\ IF ~Known(r) /\ ~Exists(u)
           THEN /\ Go(r, "create", "profile")
                /\ user' = [user EXCEPT ![u] = [auth |-> AuthOf[r], role |-> RoleOf[r], by |-> r]]
           ELSE /\ Go(r, "create", IF Exists(u) THEN "fallback" ELSE "refused")
                /\ UNCHANGED user
        /\ UNCHANGED <<profile, roleProfile, portfolio, accepted, referral, partnerVars>>

CreateProfile(r) ==
    /\ Go(r, "profile", "roleProfile")
    /\ profile' = profile \cup {EmailOf[r]}
    /\ UNCHANGED <<user, roleProfile, portfolio, accepted, referral, partnerVars>>

CreateRoleProfile(r) ==
    /\ Go(r, "roleProfile", "portfolio")
    /\ roleProfile' = roleProfile \cup {<<EmailOf[r], RoleOf[r]>>}
    /\ UNCHANGED <<user, profile, portfolio, accepted, referral, partnerVars>>

\* A portfolio that is there already is left as it is.
CreatePortfolio(r) ==
    /\ Go(r, "portfolio", IF CodeOf[r] = NoOne THEN "accept" ELSE "claim")
    /\ portfolio' = portfolio \cup {EmailOf[r]}
    /\ UNCHANGED <<user, profile, roleProfile, accepted, referral, partnerVars>>

\* claimReferral: the code, its partner and the referral are read...
Claim(r) ==
    /\ Go(r, "claim", IF /\ CodeOf[r] \in activeCode
                         /\ partner[CodeOf[r]] = "ACTIVE"
                         /\ CodeOf[r] # EmailOf[r]
                         /\ referral[EmailOf[r]] = NoOne
                      THEN "claimed" ELSE "accept")
    /\ UNCHANGED <<accountVars, partnerVars>>

\* ... and the referral is created.
CreateReferral(r) ==
    /\ Go(r, "claimed", "accept")
    /\ referral' = [referral EXCEPT ![EmailOf[r]] = IF @ = NoOne THEN CodeOf[r] ELSE @]
    /\ UNCHANGED <<user, profile, roleProfile, portfolio, accepted, partnerVars>>

\* A read or the INSERT of claimReferral fails: bootstrap logs the error and goes on.
ClaimFails(r) ==
    /\ \E at \in {"claim", "claimed"} : Go(r, at, "accept")
    /\ UNCHANGED <<accountVars, partnerVars>>

\* recordAcceptance: the term is that of the role the request asks for.
RecordAcceptance(r) ==
    /\ Go(r, "accept", "payload")
    /\ accepted' = accepted \cup {<<EmailOf[r], RoleOf[r]>>}
    /\ UNCHANGED <<user, profile, roleProfile, portfolio, referral, partnerVars>>

\* buildPayload, of the account with the request's identity; it creates a portfolio
\* that is missing.
BuildPayload(r) ==
    LET mine == {u \in Users : user[u].auth = AuthOf[r]}
    IN  /\ Go(r, "payload", IF mine = {} THEN "refused" ELSE "done")
        /\ portfolio' = portfolio \cup mine
        /\ UNCHANGED <<user, profile, roleProfile, accepted, referral, partnerVars>>

\* buildPayload, of the account that won the race for the email
AnswerWithWinner(r) ==
    /\ Go(r, "fallback", "done")
    /\ portfolio' = portfolio \cup {EmailOf[r]}
    /\ UNCHANGED <<user, profile, roleProfile, accepted, referral, partnerVars>>

\* The process dies, or a statement outside claimReferral fails.
Die(r) ==
    /\ step[r] \notin {"start", "done", "refused", "died"}
    /\ step' = [step EXCEPT ![r] = "died"]
    /\ UNCHANGED <<accountVars, partnerVars>>

\* The profile of the user's role is created if there is none.
WithRoleProfile(u, role) ==
    /\ Exists(u) /\ user[u].role = role
    /\ roleProfile' = roleProfile \cup {<<u, role>>}
    /\ UNCHANGED <<user, profile, portfolio, accepted, referral, step, partnerVars>>

UpdateCreatorProfile(u) == WithRoleProfile(u, "CREATOR")
UpdateCreatorPayoutSettings(u) == WithRoleProfile(u, "CREATOR")
UpdateCompanyProfile(u) == WithRoleProfile(u, "COMPANY")

\* getOrCreatePortfolio, when a medium is uploaded
OpenPortfolio(u) ==
    /\ Exists(u)
    /\ u \notin portfolio
    /\ portfolio' = portfolio \cup {u}
    /\ UNCHANGED <<user, profile, roleProfile, accepted, referral, step, partnerVars>>

Bootstrap(r) ==
    \/ LookUpAuth(r) \/ LookUpEmail(r) \/ Relink(r) \/ Create(r)
    \/ CreateProfile(r) \/ CreateRoleProfile(r) \/ CreatePortfolio(r)
    \/ Claim(r) \/ CreateReferral(r) \/ ClaimFails(r) \/ RecordAcceptance(r)
    \/ BuildPayload(r) \/ AnswerWithWinner(r) \/ Die(r)

-----------------------------------------------------------------------------
(***************************************************************************)
(* Partners.  The save of a partner_profiles row with a known key is a     *)
(* SELECT, and then an INSERT or an UPDATE of what differs.                *)
(***************************************************************************)
\* A user who has a row, whatever its status, is not activated again.
FindPartner(a, u) ==
    /\ activation[a] = NoActivation
    /\ Exists(u) /\ partner[u] = "NONE"
    /\ activation' = [activation EXCEPT ![a].of = u]
    /\ UNCHANGED <<accountVars, step, partner, activeCode>>

\* createAndSave: the SELECT, inside the transaction
SeePartner(a) ==
    /\ activation[a].of # NoOne /\ activation[a].seen = "UNREAD"
    /\ activation' = [activation EXCEPT ![a].seen = partner[activation[a].of]]
    /\ UNCHANGED <<accountVars, step, partner, activeCode>>

\* Mutant: a partner who is there already gets no new code.
ActivateOldCode(a) ==
    LET u == activation[a].of
    IN  /\ activation[a].seen \in PartnerStatus
        /\ activation' = [activation EXCEPT ![a] = NoActivation]
        /\ IF activation[a].seen = "NONE" /\ partner[u] # "NONE"
           THEN UNCHANGED <<partner, activeCode>>
           ELSE /\ partner' = [partner EXCEPT ![u] = IF activation[a].seen = "ACTIVE" THEN @
                                                     ELSE "ACTIVE"]
                /\ activeCode' = IF activation[a].seen = "NONE" THEN activeCode \cup {u}
                                 ELSE activeCode
        /\ UNCHANGED <<accountVars, step>>

\* The rest of the transaction: the INSERT fails if the row has appeared since; an
\* UPDATE writes the status only if another was seen; a code is created.
Activate(a) ==
    LET u == activation[a].of
    IN  /\ activation[a].seen \in PartnerStatus
        /\ activation' = [activation EXCEPT ![a] = NoActivation]
        /\ IF activation[a].seen = "NONE" /\ partner[u] # "NONE"
           THEN UNCHANGED <<partner, activeCode>>
           ELSE /\ partner' = [partner EXCEPT ![u] = IF activation[a].seen = "ACTIVE" THEN @
                                                     ELSE "ACTIVE"]
                /\ activeCode' = activeCode \cup {u}
        /\ UNCHANGED <<accountVars, step>>

\* No unused code is found, or the process dies: the transaction is rolled back.
ActivationFails(a) ==
    /\ activation[a] # NoActivation
    /\ activation' = [activation EXCEPT ![a] = NoActivation]
    /\ UNCHANGED <<accountVars, step, partner, activeCode>>

\* deactivatePartnerByUserId: the row, locked, and all codes in one transaction
Deactivate(u) ==
    /\ partner[u] # "NONE"
    /\ partner' = [partner EXCEPT ![u] = "SUSPENDED"]
    /\ activeCode' = activeCode \ {u}
    /\ UNCHANGED <<accountVars, step, activation>>

PartnerStep ==
    \/ \E a \in Activations : \/ \E u \in Users : FindPartner(a, u)
                              \/ SeePartner(a) \/ Activate(a) \/ ActivationFails(a)
    \/ \E u \in Users : Deactivate(u)

-----------------------------------------------------------------------------
SignUpNext ==
    \/ \E r \in Requests : Bootstrap(r)
    \/ \E u \in Users : \/ UpdateCreatorProfile(u) \/ UpdateCreatorPayoutSettings(u)
                        \/ UpdateCompanyProfile(u) \/ OpenPortfolio(u)
    \/ PartnerStep

SignUpSpec == SignUpInit /\ [][SignUpNext]_signUpVars

-----------------------------------------------------------------------------
(***************************************************************************)
(* Properties that hold.                                                   *)
(***************************************************************************)
\* An account has the profile of no role but its own, whichever roles the requests
\* that raced for it asked for; and once the request that created it has its
\* answer, it has all an account needs: only a request that died leaves less.
SignUpIsWhole ==
    \A u \in Users : Exists(u) =>
        LET role == user[u].role
        IN  /\ \A other \in Roles \ {role} : <<u, other>> \notin roleProfile
            /\ step[user[u].by] \in {"payload", "done"} =>
                  /\ u \in profile \cap portfolio
                  /\ <<u, role>> \in roleProfile \cap accepted

\* A partner who is ACTIVE has a code that works, whatever activations and
\* deactivations of theirs overlap.
PartnerHasCode == \A u \in Users : partner[u] = "ACTIVE" => u \in activeCode

-----------------------------------------------------------------------------
(***************************************************************************)
(* Stated, and not kept by the code.                                       *)
(***************************************************************************)
\* Whoever got an answer has an account that is whole (the answer to the request
\* that lost the race comes before the winner is through).
AnsweredIsWhole ==
    \A r \in Requests, u \in Users :
        step[r] = "done" /\ user[u].auth = AuthOf[r] => u \in profile

\* Terms are accepted for one's own role (a request for another role that finds the
\* account by its email records its own term).
AcceptedTheirTerms == \A u \in Users, role \in Roles :
                          <<u, role>> \in accepted => user[u].role = role

\* A suspended partner's codes do not work (an activation that saw ACTIVE before
\* the suspension adds a code after it).
SuspendedHasNoCode == \A u \in Users : partner[u] = "SUSPENDED" => u \notin activeCode
=============================================================================
