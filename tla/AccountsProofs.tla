--------------------------- MODULE AccountsProofs ---------------------------
(***************************************************************************)
(* Theorems about module Accounts, for any requests, identities, emails,   *)
(* activations, addresses and updates.                                     *)
(*                                                                         *)
(* An account is built by the request whose INSERT created it and by no    *)
(* other: a request that lost the race never reaches the steps that build. *)
(* An address keeps its coordinates apart from those of another because a  *)
(* save writes its whole copy, unless its two statements were overlapped.  *)
(***************************************************************************)
EXTENDS Accounts, TLAPS

-----------------------------------------------------------------------------
(***************************************************************************)
(* Sign-up: the inductive invariant.                                       *)
(***************************************************************************)
BeforeCreation == {"start", "byEmail", "relink", "create", "fallback"}
Building == {"profile", "roleProfile", "portfolio", "claim", "claimed"}
AfterProfile == {"roleProfile", "portfolio", "claim", "claimed", "accept", "payload", "done"}
AfterRoleProfile == AfterProfile \ {"roleProfile"}
AfterPortfolio == AfterRoleProfile \ {"portfolio"}
AfterAcceptance == {"payload", "done"}

\* An account that is to pass to a new identity is there.
RelinkFinds == \A r \in Requests : step[r] = "relink" => Exists(EmailOf[r])

\* An account has the email and the role of the request that created it.
OfItsCreator ==
    \A u \in Users : Exists(u) => /\ EmailOf[user[u].by] = u
                                  /\ RoleOf[user[u].by] = user[u].role

\* Only the request that created an account builds it...
BuiltByItsCreator ==
    \A r \in Requests :
        step[r] \in Building => Exists(EmailOf[r]) /\ user[EmailOf[r]].by = r

\* ... which is past its creation, and has done what comes before its step.
BuiltInOrder ==
    \A u \in Users : Exists(u) =>
        LET at == step[user[u].by]
        IN  /\ at \notin BeforeCreation
            /\ at \in AfterProfile => u \in profile
            /\ at \in AfterRoleProfile => <<u, user[u].role>> \in roleProfile
            /\ at \in AfterPortfolio => u \in portfolio
            /\ at \in AfterAcceptance => <<u, user[u].role>> \in accepted

RoleProfilesFit ==
    \A u \in Users, role \in Roles :
        <<u, role>> \in roleProfile => Exists(u) /\ user[u].role = role

SignUpInv ==
    /\ SignUpTypeOK /\ RelinkFinds /\ OfItsCreator /\ BuiltByItsCreator
    /\ BuiltInOrder /\ RoleProfilesFit

LEMMA InitSignUp == SignUpInit => SignUpInv /\ PartnerHasCode
<1> SUFFICES ASSUME SignUpInit PROVE SignUpInv /\ PartnerHasCode
  OBVIOUS
<1>1. \A u \in Users : ~Exists(u) /\ user[u].auth = NoOne
  BY DEF SignUpInit, Exists, NoUser
<1>2. SignUpTypeOK
  BY <1>1 DEF SignUpInit, SignUpTypeOK, PartnerStatus
<1>3. RelinkFinds /\ BuiltByItsCreator
  BY DEF SignUpInit, RelinkFinds, BuiltByItsCreator, Building
<1>4. OfItsCreator /\ BuiltInOrder
  BY <1>1 DEF OfItsCreator, BuiltInOrder
<1>5. RoleProfilesFit /\ PartnerHasCode
  BY DEF SignUpInit, RoleProfilesFit, PartnerHasCode
<1>6. QED
  BY <1>2, <1>3, <1>4, <1>5 DEF SignUpInv

-----------------------------------------------------------------------------
(***************************************************************************)
(* What the constants and the type invariant say of a request.             *)
(***************************************************************************)
LEMMA RequestTypes ==
    ASSUME NEW r \in Requests
    PROVE  /\ EmailOf[r] \in Users /\ AuthOf[r] \in Identities
           /\ RoleOf[r] \in Roles /\ CodeOf[r] \in Users \cup {NoOne}
           /\ AuthOf[r] # NoOne
BY SignUpConstants DEF Users, Identities

LEMMA UserTypes ==
    ASSUME SignUpTypeOK, NEW u \in Users
    PROVE  /\ Exists(u) => /\ user[u] \in [auth : Identities, role : Roles, by : Requests]
                           /\ user[u].auth \in Identities /\ user[u].role \in Roles
                           /\ user[u].by \in Requests
           /\ ~Exists(u) => user[u].auth = NoOne /\ user[u] = NoUser
BY SignUpConstants DEF SignUpTypeOK, Exists, NoUser

LEMMA Goes ==
    ASSUME SignUpTypeOK, NEW r \in Requests, NEW from, NEW to, Go(r, from, to)
    PROVE  /\ step[r] = from /\ step'[r] = to
           /\ \A q \in Requests : q # r => step'[q] = step[q]
BY DEF Go, SignUpTypeOK

-----------------------------------------------------------------------------
(***************************************************************************)
(* Sign-up: the invariant is kept.                                         *)
(***************************************************************************)
LEMMA NextSignUpTypeOK ==
    SignUpTypeOK /\ RelinkFinds /\ [SignUpNext]_signUpVars => SignUpTypeOK'
<1> SUFFICES ASSUME SignUpTypeOK, RelinkFinds, [SignUpNext]_signUpVars
             PROVE  SignUpTypeOK'
  OBVIOUS
<1> USE DEF SignUpTypeOK, accountVars, partnerVars
<1>1. ASSUME NEW r \in Requests, LookUpAuth(r) PROVE SignUpTypeOK'
  BY <1>1, RequestTypes DEF LookUpAuth, Go, Exists
<1>2. ASSUME NEW r \in Requests, LookUpEmail(r) PROVE SignUpTypeOK'
  BY <1>2, RequestTypes DEF LookUpEmail, Go, Exists
<1>3. ASSUME NEW r \in Requests, Relink(r) PROVE SignUpTypeOK'
  BY <1>3, RequestTypes, UserTypes DEF Relink, Go, Exists, RelinkFinds
<1>4. ASSUME NEW r \in Requests, Create(r) PROVE SignUpTypeOK'
  BY <1>4, RequestTypes, UserTypes DEF Create, Go, Exists, Known
<1>5. ASSUME NEW r \in Requests, CreateProfile(r) PROVE SignUpTypeOK'
  BY <1>5, RequestTypes DEF CreateProfile, Go, Exists
<1>6. ASSUME NEW r \in Requests, CreateRoleProfile(r) PROVE SignUpTypeOK'
  BY <1>6, RequestTypes DEF CreateRoleProfile, Go, Exists
<1>7. ASSUME NEW r \in Requests, CreatePortfolio(r) PROVE SignUpTypeOK'
  BY <1>7, RequestTypes DEF CreatePortfolio, Go, Exists
<1>8. ASSUME NEW r \in Requests, Claim(r) PROVE SignUpTypeOK'
  BY <1>8, RequestTypes DEF Claim, Go, Exists
<1>9. ASSUME NEW r \in Requests, CreateReferral(r) PROVE SignUpTypeOK'
  BY <1>9, RequestTypes DEF CreateReferral, Go, Exists
<1>9a. ASSUME NEW r \in Requests, ClaimFails(r) PROVE SignUpTypeOK'
  BY <1>9a, RequestTypes DEF ClaimFails, Go, Exists
<1>10. ASSUME NEW r \in Requests, RecordAcceptance(r) PROVE SignUpTypeOK'
  BY <1>10, RequestTypes DEF RecordAcceptance, Go, Exists
<1>11. ASSUME NEW r \in Requests, BuildPayload(r) PROVE SignUpTypeOK'
  BY <1>11, RequestTypes DEF BuildPayload, Go, Exists
<1>12. ASSUME NEW r \in Requests, AnswerWithWinner(r) PROVE SignUpTypeOK'
  BY <1>12, RequestTypes DEF AnswerWithWinner, Go, Exists
<1>13. ASSUME NEW r \in Requests, Die(r) PROVE SignUpTypeOK'
  BY <1>13 DEF Die, Exists
<1>14. ASSUME NEW u \in Users, NEW role \in Roles, WithRoleProfile(u, role)
       PROVE  SignUpTypeOK'
  BY <1>14 DEF WithRoleProfile, Exists
<1>15. ASSUME NEW u \in Users, OpenPortfolio(u) PROVE SignUpTypeOK'
  BY <1>15 DEF OpenPortfolio, Exists
<1>16. ASSUME NEW a \in Activations, NEW u \in Users, FindPartner(a, u) PROVE SignUpTypeOK'
  BY <1>16 DEF FindPartner, NoActivation, Exists
<1>17. ASSUME NEW a \in Activations, SeePartner(a) PROVE SignUpTypeOK'
  BY <1>17 DEF SeePartner, NoActivation, Exists
<1>18. ASSUME NEW a \in Activations, Activate(a) PROVE SignUpTypeOK'
  BY <1>18 DEF Activate, NoActivation, PartnerStatus, Exists
<1>19. ASSUME NEW a \in Activations, ActivationFails(a) PROVE SignUpTypeOK'
  BY <1>19 DEF ActivationFails, Exists
<1>20. ASSUME NEW u \in Users, Deactivate(u) PROVE SignUpTypeOK'
  BY <1>20 DEF Deactivate, PartnerStatus, Exists
<1>21. ASSUME UNCHANGED signUpVars PROVE SignUpTypeOK'
  BY <1>21 DEF signUpVars, Exists
<1>22. QED
  BY <1>1, <1>2, <1>3, <1>4, <1>5, <1>6, <1>7, <1>8, <1>9, <1>9a, <1>10, <1>11, <1>12, <1>13,
     <1>14, <1>15, <1>16, <1>17, <1>18, <1>19, <1>20, <1>21
     DEF SignUpNext, Bootstrap, PartnerStep, UpdateCreatorProfile, UpdateCreatorPayoutSettings,
         UpdateCompanyProfile, Roles
\* Partners change nothing of the accounts and of the requests.
LEMMA PartnersApart == PartnerStep => UNCHANGED <<accountVars, step>>
BY DEF PartnerStep, FindPartner, SeePartner, Activate, ActivationFails, Deactivate

LEMMA NextRelinkFinds == SignUpInv /\ [SignUpNext]_signUpVars => RelinkFinds'
<1> SUFFICES ASSUME SignUpInv, [SignUpNext]_signUpVars PROVE RelinkFinds'
  OBVIOUS
<1> USE DEF SignUpInv, SignUpTypeOK, RelinkFinds, accountVars, partnerVars, Exists
<1>1. ASSUME NEW r \in Requests, LookUpAuth(r) PROVE RelinkFinds'
  BY <1>1, RequestTypes, UserTypes DEF LookUpAuth, Go
<1>2. ASSUME NEW r \in Requests, LookUpEmail(r) PROVE RelinkFinds'
  BY <1>2, RequestTypes, UserTypes DEF LookUpEmail, Go
<1>3. ASSUME NEW r \in Requests, Relink(r) PROVE RelinkFinds'
  BY <1>3, RequestTypes, UserTypes DEF Relink, Go, NoUser
<1>4. ASSUME NEW r \in Requests, Create(r) PROVE RelinkFinds'
  BY <1>4, RequestTypes, UserTypes DEF Create, Go, Known, NoUser
<1>5. ASSUME NEW r \in Requests, CreateProfile(r) PROVE RelinkFinds'
  BY <1>5, RequestTypes, UserTypes DEF CreateProfile, Go
<1>6. ASSUME NEW r \in Requests, CreateRoleProfile(r) PROVE RelinkFinds'
  BY <1>6, RequestTypes, UserTypes DEF CreateRoleProfile, Go
<1>7. ASSUME NEW r \in Requests, CreatePortfolio(r) PROVE RelinkFinds'
  BY <1>7, RequestTypes, UserTypes DEF CreatePortfolio, Go
<1>8. ASSUME NEW r \in Requests, Claim(r) PROVE RelinkFinds'
  BY <1>8, RequestTypes, UserTypes DEF Claim, Go
<1>9. ASSUME NEW r \in Requests, CreateReferral(r) PROVE RelinkFinds'
  BY <1>9, RequestTypes, UserTypes DEF CreateReferral, Go
<1>9a. ASSUME NEW r \in Requests, ClaimFails(r) PROVE RelinkFinds'
  BY <1>9a, RequestTypes, UserTypes DEF ClaimFails, Go
<1>10. ASSUME NEW r \in Requests, RecordAcceptance(r) PROVE RelinkFinds'
  BY <1>10, RequestTypes, UserTypes DEF RecordAcceptance, Go
<1>11. ASSUME NEW r \in Requests, BuildPayload(r) PROVE RelinkFinds'
  BY <1>11, RequestTypes, UserTypes DEF BuildPayload, Go
<1>12. ASSUME NEW r \in Requests, AnswerWithWinner(r) PROVE RelinkFinds'
  BY <1>12, RequestTypes, UserTypes DEF AnswerWithWinner, Go
<1>13. ASSUME NEW r \in Requests, Die(r) PROVE RelinkFinds'
  BY <1>13, RequestTypes, UserTypes DEF Die, Go
<1>14. ASSUME NEW u \in Users, NEW role \in Roles, WithRoleProfile(u, role) PROVE RelinkFinds'
  BY <1>14, RequestTypes, UserTypes DEF WithRoleProfile
<1>15. ASSUME NEW u \in Users, OpenPortfolio(u) PROVE RelinkFinds'
  BY <1>15, RequestTypes, UserTypes DEF OpenPortfolio
<1>16. ASSUME PartnerStep PROVE RelinkFinds'
  BY <1>16, PartnersApart, RequestTypes, UserTypes DEF PartnerStep
<1>17. ASSUME UNCHANGED signUpVars PROVE RelinkFinds'
  BY <1>17 DEF signUpVars
<1>18. QED
  BY <1>1, <1>2, <1>3, <1>4, <1>5, <1>6, <1>7, <1>8, <1>9, <1>9a, <1>10, <1>11, <1>12, <1>13, <1>14, <1>15, <1>16, <1>17
     DEF SignUpNext, Bootstrap, UpdateCreatorProfile, UpdateCreatorPayoutSettings,
         UpdateCompanyProfile, Roles

LEMMA NextOfItsCreator == SignUpInv /\ [SignUpNext]_signUpVars => OfItsCreator'
<1> SUFFICES ASSUME SignUpInv, [SignUpNext]_signUpVars PROVE OfItsCreator'
  OBVIOUS
<1> USE DEF SignUpInv, SignUpTypeOK, RelinkFinds, OfItsCreator, accountVars, partnerVars, Exists
<1>1. ASSUME NEW r \in Requests, LookUpAuth(r) PROVE OfItsCreator'
  BY <1>1, RequestTypes, UserTypes DEF LookUpAuth, Go
<1>2. ASSUME NEW r \in Requests, LookUpEmail(r) PROVE OfItsCreator'
  BY <1>2, RequestTypes, UserTypes DEF LookUpEmail, Go
<1>3. ASSUME NEW r \in Requests, Relink(r) PROVE OfItsCreator'
  BY <1>3, RequestTypes, UserTypes DEF Relink, Go, NoUser
<1>4. ASSUME NEW r \in Requests, Create(r) PROVE OfItsCreator'
  BY <1>4, RequestTypes, UserTypes DEF Create, Go, Known, NoUser
<1>5. ASSUME NEW r \in Requests, CreateProfile(r) PROVE OfItsCreator'
  BY <1>5, RequestTypes, UserTypes DEF CreateProfile, Go
<1>6. ASSUME NEW r \in Requests, CreateRoleProfile(r) PROVE OfItsCreator'
  BY <1>6, RequestTypes, UserTypes DEF CreateRoleProfile, Go
<1>7. ASSUME NEW r \in Requests, CreatePortfolio(r) PROVE OfItsCreator'
  BY <1>7, RequestTypes, UserTypes DEF CreatePortfolio, Go
<1>8. ASSUME NEW r \in Requests, Claim(r) PROVE OfItsCreator'
  BY <1>8, RequestTypes, UserTypes DEF Claim, Go
<1>9. ASSUME NEW r \in Requests, CreateReferral(r) PROVE OfItsCreator'
  BY <1>9, RequestTypes, UserTypes DEF CreateReferral, Go
<1>9a. ASSUME NEW r \in Requests, ClaimFails(r) PROVE OfItsCreator'
  BY <1>9a, RequestTypes, UserTypes DEF ClaimFails, Go
<1>10. ASSUME NEW r \in Requests, RecordAcceptance(r) PROVE OfItsCreator'
  BY <1>10, RequestTypes, UserTypes DEF RecordAcceptance, Go
<1>11. ASSUME NEW r \in Requests, BuildPayload(r) PROVE OfItsCreator'
  BY <1>11, RequestTypes, UserTypes DEF BuildPayload, Go
<1>12. ASSUME NEW r \in Requests, AnswerWithWinner(r) PROVE OfItsCreator'
  BY <1>12, RequestTypes, UserTypes DEF AnswerWithWinner, Go
<1>13. ASSUME NEW r \in Requests, Die(r) PROVE OfItsCreator'
  BY <1>13, RequestTypes, UserTypes DEF Die, Go
<1>14. ASSUME NEW u \in Users, NEW role \in Roles, WithRoleProfile(u, role) PROVE OfItsCreator'
  BY <1>14, RequestTypes, UserTypes DEF WithRoleProfile
<1>15. ASSUME NEW u \in Users, OpenPortfolio(u) PROVE OfItsCreator'
  BY <1>15, RequestTypes, UserTypes DEF OpenPortfolio
<1>16. ASSUME PartnerStep PROVE OfItsCreator'
  BY <1>16, PartnersApart, RequestTypes, UserTypes DEF PartnerStep
<1>17. ASSUME UNCHANGED signUpVars PROVE OfItsCreator'
  BY <1>17 DEF signUpVars
<1>18. QED
  BY <1>1, <1>2, <1>3, <1>4, <1>5, <1>6, <1>7, <1>8, <1>9, <1>9a, <1>10, <1>11, <1>12, <1>13, <1>14, <1>15, <1>16, <1>17
     DEF SignUpNext, Bootstrap, UpdateCreatorProfile, UpdateCreatorPayoutSettings,
         UpdateCompanyProfile, Roles

LEMMA NextBuiltByItsCreator == SignUpInv /\ [SignUpNext]_signUpVars => BuiltByItsCreator'
<1> SUFFICES ASSUME SignUpInv, [SignUpNext]_signUpVars PROVE BuiltByItsCreator'
  OBVIOUS
<1> USE DEF SignUpInv, SignUpTypeOK, RelinkFinds, BuiltByItsCreator, BuiltInOrder, Building, BeforeCreation, accountVars, partnerVars, Exists
<1>1. ASSUME NEW r \in Requests, LookUpAuth(r) PROVE BuiltByItsCreator'
  BY <1>1, RequestTypes, UserTypes DEF LookUpAuth, Go
<1>2. ASSUME NEW r \in Requests, LookUpEmail(r) PROVE BuiltByItsCreator'
  BY <1>2, RequestTypes, UserTypes DEF LookUpEmail, Go
<1>3. ASSUME NEW r \in Requests, Relink(r) PROVE BuiltByItsCreator'
  BY <1>3, RequestTypes, UserTypes DEF Relink, Go, NoUser
<1>4. ASSUME NEW r \in Requests, Create(r) PROVE BuiltByItsCreator'
  BY <1>4, RequestTypes, UserTypes DEF Create, Go, Known, NoUser
<1>5. ASSUME NEW r \in Requests, CreateProfile(r) PROVE BuiltByItsCreator'
  BY <1>5, RequestTypes, UserTypes DEF CreateProfile, Go
<1>6. ASSUME NEW r \in Requests, CreateRoleProfile(r) PROVE BuiltByItsCreator'
  BY <1>6, RequestTypes, UserTypes DEF CreateRoleProfile, Go
<1>7. ASSUME NEW r \in Requests, CreatePortfolio(r) PROVE BuiltByItsCreator'
  BY <1>7, RequestTypes, UserTypes DEF CreatePortfolio, Go
<1>8. ASSUME NEW r \in Requests, Claim(r) PROVE BuiltByItsCreator'
  BY <1>8, RequestTypes, UserTypes DEF Claim, Go
<1>9. ASSUME NEW r \in Requests, CreateReferral(r) PROVE BuiltByItsCreator'
  BY <1>9, RequestTypes, UserTypes DEF CreateReferral, Go
<1>9a. ASSUME NEW r \in Requests, ClaimFails(r) PROVE BuiltByItsCreator'
  BY <1>9a, RequestTypes, UserTypes DEF ClaimFails, Go
<1>10. ASSUME NEW r \in Requests, RecordAcceptance(r) PROVE BuiltByItsCreator'
  BY <1>10, RequestTypes, UserTypes DEF RecordAcceptance, Go
<1>11. ASSUME NEW r \in Requests, BuildPayload(r) PROVE BuiltByItsCreator'
  BY <1>11, RequestTypes, UserTypes DEF BuildPayload, Go
<1>12. ASSUME NEW r \in Requests, AnswerWithWinner(r) PROVE BuiltByItsCreator'
  BY <1>12, RequestTypes, UserTypes DEF AnswerWithWinner, Go
<1>13. ASSUME NEW r \in Requests, Die(r) PROVE BuiltByItsCreator'
  BY <1>13, RequestTypes, UserTypes DEF Die, Go
<1>14. ASSUME NEW u \in Users, NEW role \in Roles, WithRoleProfile(u, role) PROVE BuiltByItsCreator'
  BY <1>14, RequestTypes, UserTypes DEF WithRoleProfile
<1>15. ASSUME NEW u \in Users, OpenPortfolio(u) PROVE BuiltByItsCreator'
  BY <1>15, RequestTypes, UserTypes DEF OpenPortfolio
<1>16. ASSUME PartnerStep PROVE BuiltByItsCreator'
  BY <1>16, PartnersApart, RequestTypes, UserTypes DEF PartnerStep
<1>17. ASSUME UNCHANGED signUpVars PROVE BuiltByItsCreator'
  BY <1>17 DEF signUpVars
<1>18. QED
  BY <1>1, <1>2, <1>3, <1>4, <1>5, <1>6, <1>7, <1>8, <1>9, <1>9a, <1>10, <1>11, <1>12, <1>13, <1>14, <1>15, <1>16, <1>17
     DEF SignUpNext, Bootstrap, UpdateCreatorProfile, UpdateCreatorPayoutSettings,
         UpdateCompanyProfile, Roles

LEMMA NextBuiltInOrder == SignUpInv /\ [SignUpNext]_signUpVars => BuiltInOrder'
<1> SUFFICES ASSUME SignUpInv, [SignUpNext]_signUpVars PROVE BuiltInOrder'
  OBVIOUS
<1> USE DEF SignUpInv, SignUpTypeOK, RelinkFinds, OfItsCreator, BuiltByItsCreator, BuiltInOrder, Building, BeforeCreation,
           AfterProfile, AfterRoleProfile, AfterPortfolio, AfterAcceptance, accountVars, partnerVars, Exists
<1>1. ASSUME NEW r \in Requests, LookUpAuth(r) PROVE BuiltInOrder'
  BY <1>1, RequestTypes, UserTypes DEF LookUpAuth, Go
<1>2. ASSUME NEW r \in Requests, LookUpEmail(r) PROVE BuiltInOrder'
  BY <1>2, RequestTypes, UserTypes DEF LookUpEmail, Go
<1>3. ASSUME NEW r \in Requests, Relink(r) PROVE BuiltInOrder'
  BY <1>3, RequestTypes, UserTypes DEF Relink, Go, NoUser
<1>4. ASSUME NEW r \in Requests, Create(r) PROVE BuiltInOrder'
  BY <1>4, RequestTypes, UserTypes DEF Create, Go, Known, NoUser
<1>5. ASSUME NEW r \in Requests, CreateProfile(r) PROVE BuiltInOrder'
  BY <1>5, RequestTypes, UserTypes DEF CreateProfile, Go
<1>6. ASSUME NEW r \in Requests, CreateRoleProfile(r) PROVE BuiltInOrder'
  BY <1>6, RequestTypes, UserTypes DEF CreateRoleProfile, Go
<1>7. ASSUME NEW r \in Requests, CreatePortfolio(r) PROVE BuiltInOrder'
  BY <1>7, RequestTypes, UserTypes DEF CreatePortfolio, Go
<1>8. ASSUME NEW r \in Requests, Claim(r) PROVE BuiltInOrder'
  BY <1>8, RequestTypes, UserTypes DEF Claim, Go
<1>9. ASSUME NEW r \in Requests, CreateReferral(r) PROVE BuiltInOrder'
  BY <1>9, RequestTypes, UserTypes DEF CreateReferral, Go
<1>9a. ASSUME NEW r \in Requests, ClaimFails(r) PROVE BuiltInOrder'
  BY <1>9a, RequestTypes, UserTypes DEF ClaimFails, Go
<1>10. ASSUME NEW r \in Requests, RecordAcceptance(r) PROVE BuiltInOrder'
  BY <1>10, RequestTypes, UserTypes DEF RecordAcceptance, Go
<1>11. ASSUME NEW r \in Requests, BuildPayload(r) PROVE BuiltInOrder'
  BY <1>11, RequestTypes, UserTypes DEF BuildPayload, Go
<1>12. ASSUME NEW r \in Requests, AnswerWithWinner(r) PROVE BuiltInOrder'
  BY <1>12, RequestTypes, UserTypes DEF AnswerWithWinner, Go
<1>13. ASSUME NEW r \in Requests, Die(r) PROVE BuiltInOrder'
  BY <1>13, RequestTypes, UserTypes DEF Die, Go
<1>14. ASSUME NEW u \in Users, NEW role \in Roles, WithRoleProfile(u, role) PROVE BuiltInOrder'
  BY <1>14, RequestTypes, UserTypes DEF WithRoleProfile
<1>15. ASSUME NEW u \in Users, OpenPortfolio(u) PROVE BuiltInOrder'
  BY <1>15, RequestTypes, UserTypes DEF OpenPortfolio
<1>16. ASSUME PartnerStep PROVE BuiltInOrder'
  BY <1>16, PartnersApart, RequestTypes, UserTypes DEF PartnerStep
<1>17. ASSUME UNCHANGED signUpVars PROVE BuiltInOrder'
  BY <1>17 DEF signUpVars
<1>18. QED
  BY <1>1, <1>2, <1>3, <1>4, <1>5, <1>6, <1>7, <1>8, <1>9, <1>9a, <1>10, <1>11, <1>12, <1>13, <1>14, <1>15, <1>16, <1>17
     DEF SignUpNext, Bootstrap, UpdateCreatorProfile, UpdateCreatorPayoutSettings,
         UpdateCompanyProfile, Roles

LEMMA NextRoleProfilesFit == SignUpInv /\ [SignUpNext]_signUpVars => RoleProfilesFit'
<1> SUFFICES ASSUME SignUpInv, [SignUpNext]_signUpVars PROVE RoleProfilesFit'
  OBVIOUS
<1> USE DEF SignUpInv, SignUpTypeOK, RelinkFinds, OfItsCreator, BuiltByItsCreator, RoleProfilesFit, Building, accountVars, partnerVars, Exists
<1>1. ASSUME NEW r \in Requests, LookUpAuth(r) PROVE RoleProfilesFit'
  BY <1>1, RequestTypes, UserTypes DEF LookUpAuth, Go
<1>2. ASSUME NEW r \in Requests, LookUpEmail(r) PROVE RoleProfilesFit'
  BY <1>2, RequestTypes, UserTypes DEF LookUpEmail, Go
<1>3. ASSUME NEW r \in Requests, Relink(r) PROVE RoleProfilesFit'
  BY <1>3, RequestTypes, UserTypes DEF Relink, Go, NoUser
<1>4. ASSUME NEW r \in Requests, Create(r) PROVE RoleProfilesFit'
  BY <1>4, RequestTypes, UserTypes DEF Create, Go, Known, NoUser
<1>5. ASSUME NEW r \in Requests, CreateProfile(r) PROVE RoleProfilesFit'
  BY <1>5, RequestTypes, UserTypes DEF CreateProfile, Go
<1>6. ASSUME NEW r \in Requests, CreateRoleProfile(r) PROVE RoleProfilesFit'
  BY <1>6, RequestTypes, UserTypes DEF CreateRoleProfile, Go
<1>7. ASSUME NEW r \in Requests, CreatePortfolio(r) PROVE RoleProfilesFit'
  BY <1>7, RequestTypes, UserTypes DEF CreatePortfolio, Go
<1>8. ASSUME NEW r \in Requests, Claim(r) PROVE RoleProfilesFit'
  BY <1>8, RequestTypes, UserTypes DEF Claim, Go
<1>9. ASSUME NEW r \in Requests, CreateReferral(r) PROVE RoleProfilesFit'
  BY <1>9, RequestTypes, UserTypes DEF CreateReferral, Go
<1>9a. ASSUME NEW r \in Requests, ClaimFails(r) PROVE RoleProfilesFit'
  BY <1>9a, RequestTypes, UserTypes DEF ClaimFails, Go
<1>10. ASSUME NEW r \in Requests, RecordAcceptance(r) PROVE RoleProfilesFit'
  BY <1>10, RequestTypes, UserTypes DEF RecordAcceptance, Go
<1>11. ASSUME NEW r \in Requests, BuildPayload(r) PROVE RoleProfilesFit'
  BY <1>11, RequestTypes, UserTypes DEF BuildPayload, Go
<1>12. ASSUME NEW r \in Requests, AnswerWithWinner(r) PROVE RoleProfilesFit'
  BY <1>12, RequestTypes, UserTypes DEF AnswerWithWinner, Go
<1>13. ASSUME NEW r \in Requests, Die(r) PROVE RoleProfilesFit'
  BY <1>13, RequestTypes, UserTypes DEF Die, Go
<1>14. ASSUME NEW u \in Users, NEW role \in Roles, WithRoleProfile(u, role) PROVE RoleProfilesFit'
  BY <1>14, RequestTypes, UserTypes DEF WithRoleProfile
<1>15. ASSUME NEW u \in Users, OpenPortfolio(u) PROVE RoleProfilesFit'
  BY <1>15, RequestTypes, UserTypes DEF OpenPortfolio
<1>16. ASSUME PartnerStep PROVE RoleProfilesFit'
  BY <1>16, PartnersApart, RequestTypes, UserTypes DEF PartnerStep
<1>17. ASSUME UNCHANGED signUpVars PROVE RoleProfilesFit'
  BY <1>17 DEF signUpVars
<1>18. QED
  BY <1>1, <1>2, <1>3, <1>4, <1>5, <1>6, <1>7, <1>8, <1>9, <1>9a, <1>10, <1>11, <1>12, <1>13, <1>14, <1>15, <1>16, <1>17
     DEF SignUpNext, Bootstrap, UpdateCreatorProfile, UpdateCreatorPayoutSettings,
         UpdateCompanyProfile, Roles
LEMMA NextSignUpInv == SignUpInv /\ [SignUpNext]_signUpVars => SignUpInv'
<1> SUFFICES ASSUME SignUpInv, [SignUpNext]_signUpVars PROVE SignUpInv'
  OBVIOUS
<1>1. SignUpTypeOK'
  BY NextSignUpTypeOK DEF SignUpInv
<1>2. RelinkFinds' /\ OfItsCreator' /\ BuiltByItsCreator' /\ BuiltInOrder' /\ RoleProfilesFit'
  BY NextRelinkFinds, NextOfItsCreator, NextBuiltByItsCreator, NextBuiltInOrder, NextRoleProfilesFit
<1>3. QED
  BY <1>1, <1>2 DEF SignUpInv

\* A partner becomes ACTIVE in the transaction that creates a code for them, and
\* loses their codes in the one that suspends them.
LEMMA NextPartnerHasCode ==
    SignUpTypeOK /\ PartnerHasCode /\ [SignUpNext]_signUpVars => PartnerHasCode'
<1> SUFFICES ASSUME SignUpTypeOK, PartnerHasCode, [SignUpNext]_signUpVars
             PROVE  PartnerHasCode'
  OBVIOUS
<1> USE DEF PartnerHasCode
<1>1. ASSUME NEW a \in Activations, Activate(a) PROVE PartnerHasCode'
  BY <1>1 DEF Activate, SignUpTypeOK
<1>2. ASSUME NEW u \in Users, Deactivate(u) PROVE PartnerHasCode'
  BY <1>2 DEF Deactivate, SignUpTypeOK
<1>3. ASSUME UNCHANGED <<partner, activeCode>> PROVE PartnerHasCode'
  BY <1>3
<1>4. ASSUME NEW r \in Requests, Bootstrap(r) PROVE UNCHANGED <<partner, activeCode>>
  BY <1>4 DEF Bootstrap, LookUpAuth, LookUpEmail, Relink, Create, CreateProfile,
              CreateRoleProfile, CreatePortfolio, Claim, CreateReferral, ClaimFails,
              RecordAcceptance, BuildPayload, AnswerWithWinner, Die, partnerVars
<1>5. ASSUME NEW u \in Users, UpdateCreatorProfile(u) \/ UpdateCreatorPayoutSettings(u)
                              \/ UpdateCompanyProfile(u) \/ OpenPortfolio(u)
      PROVE  UNCHANGED <<partner, activeCode>>
  BY <1>5 DEF UpdateCreatorProfile, UpdateCreatorPayoutSettings, UpdateCompanyProfile,
              WithRoleProfile, OpenPortfolio, partnerVars
<1>6. ASSUME NEW a \in Activations,
             (\E u \in Users : FindPartner(a, u)) \/ SeePartner(a) \/ ActivationFails(a)
      PROVE  UNCHANGED <<partner, activeCode>>
  BY <1>6 DEF FindPartner, SeePartner, ActivationFails
<1>7. QED
  BY <1>1, <1>2, <1>3, <1>4, <1>5, <1>6 DEF SignUpNext, PartnerStep, signUpVars, partnerVars

LEMMA WholeFollows == SignUpInv => SignUpIsWhole
BY UserTypes DEF SignUpInv, SignUpIsWhole, RoleProfilesFit, BuiltInOrder, AfterProfile,
                 AfterRoleProfile, AfterPortfolio, AfterAcceptance

-----------------------------------------------------------------------------
(***************************************************************************)
(* The address of a profile: the inductive invariant.                      *)
(***************************************************************************)
\* The coordinates of a row or of a copy are those of its address; its hash is its
\* address's, or none.
Consistent(place) ==
    ~place.mixed =>
        /\ place.hash \in {NoAddress, place.address}
        /\ place.coordinates # NoAddress
             => place.address = place.coordinates /\ place.hash = place.address /\ place.status = "VALID"

UpdateSteps == {"idle", "save", "write", "sync", "geocode", "invalidate"}
UpdateRecord == [step : UpdateSteps, copy : Row, differ : SUBSET Columns, overtaken : BOOLEAN,
                 then : {"idle", "sync"}, address : Place]

Carrying(u) == update[u].step \in {"save", "write"}

\* What the requests in progress hold is consistent, what they leave out of an
\* UPDATE is as they saw it unless they were overtaken, and the geocoder is asked
\* for addresses only.
CopiesConsistent ==
    \A u \in Updates :
        /\ Carrying(u) => Consistent(update[u].copy)
        /\ At(u, "write") /\ ~update[u].overtaken =>
              \A f \in Columns \ update[u].differ : update[u].copy[f] = row[f]
        /\ At(u, "geocode") => update[u].address \in Complete

LocationInv == LocationTypeOK /\ Consistent(row) /\ CopiesConsistent

LEMMA OldRowConsistent ==
    ASSUME NEW a \in Place
    PROVE  OldRow(a) \in Row /\ Consistent(OldRow(a))
BY DEF OldRow, Row, Place, GeocodingStatus, Consistent

\* A request in progress, as a record.
LEMMA UpdateRecords ==
    /\ Idle \in UpdateRecord /\ Idle.step = "idle"
    /\ \A s \in UpdateSteps : LET next == [Idle EXCEPT !.step = s]
                              IN  next \in UpdateRecord /\ next.step = s
    /\ \A copy \in Row, then \in {"idle", "sync"} :
          LET save == Saving(copy, then)
          IN  save \in UpdateRecord /\ save.step = "save" /\ save.copy = copy
BY OldRowConsistent DEF UpdateRecord, UpdateSteps, Idle, Saving, Place

LEMMA InitLocation == LocationInit => LocationInv
<1> SUFFICES ASSUME LocationInit PROVE LocationInv
  OBVIOUS
<1>1. row \in Row /\ Consistent(row)
  BY OldRowConsistent DEF LocationInit
<1>2. \A u \in Updates : update[u] = Idle
  BY DEF LocationInit
<1>3. update \in [Updates -> UpdateRecord]
  BY UpdateRecords DEF LocationInit
<1>4. CopiesConsistent
  BY <1>2, UpdateRecords DEF CopiesConsistent, Carrying, At
<1>5. QED
  BY <1>1, <1>3, <1>4 DEF LocationInv, LocationTypeOK, UpdateRecord, UpdateSteps

LEMMA PreparedConsistent ==
    ASSUME NEW a \in Place
    PROVE  Prepared(a) \in Row /\ Consistent(Prepared(a))
BY DEF Prepared, Row, Place, GeocodingStatus, Consistent

LEMMA WithHashConsistent ==
    ASSUME LocationInv, LacksCoordinates
    PROVE  WithHash(row) \in Row /\ Consistent(WithHash(row))
BY DEF LocationInv, LocationTypeOK, LacksCoordinates, WithHash, Row, Place, GeocodingStatus, Consistent
\* One request goes on; the row stays as it is.
LEMMA RequestGoesOn ==
    ASSUME LocationInv, UNCHANGED row, NEW u \in Updates, NEW next \in UpdateRecord,
           update' = [update EXCEPT ![u] = next],
           next.step \in {"save", "write"} => Consistent(next.copy),
           next.step = "write" =>
              \A f \in Columns \ next.differ : next.copy[f] = row[f],
           next.step = "geocode" => next.address \in Complete
    PROVE  LocationInv'
<1> USE DEF LocationInv, LocationTypeOK
<1>1. update'[u] = next /\ \A v \in Updates : v # u => update'[v] = update[v]
  OBVIOUS
<1>2. row' = row /\ Consistent(row)'
  BY DEF Consistent
<1>3. update' \in [Updates -> UpdateRecord]
  BY DEF UpdateRecord, UpdateSteps
<1>4. CopiesConsistent'
  <2> SUFFICES ASSUME NEW v \in Updates
               PROVE  /\ update'[v].step \in {"save", "write"} => Consistent(update'[v].copy)
                      /\ update'[v].step = "write" /\ ~update'[v].overtaken =>
                            \A f \in Columns \ update'[v].differ : update'[v].copy[f] = row[f]
                      /\ update'[v].step = "geocode" => update'[v].address \in Complete
    BY <1>2 DEF CopiesConsistent, Carrying, At, Consistent
  <2>1. CASE v = u
    BY <1>1, <2>1
  <2>2. CASE v # u
    BY <1>1, <2>2 DEF CopiesConsistent, Carrying, At
  <2>3. QED
    BY <2>1, <2>2
<1>5. QED
  BY <1>2, <1>3, <1>4 DEF UpdateRecord, UpdateSteps

\* The UPDATE of a request that was not overtaken leaves the row like its copy.
LEMMA WriteKeeps ==
    ASSUME LocationInv, NEW u \in Updates, Write(u)
    PROVE  LocationInv'
<1> DEFINE me == update[u]
<1>1. row' \in Row /\ row'.mixed = (me.copy.mixed \/ me.overtaken)
  BY DEF LocationInv, LocationTypeOK, Write, Row, Columns
<1>2. ~me.overtaken => \A f \in Columns : row'[f] = me.copy[f]
  BY DEF LocationInv, LocationTypeOK, CopiesConsistent, Write, Row, Columns, At
<1>3. Consistent(me.copy)
  BY DEF LocationInv, CopiesConsistent, Write, Carrying, At
<1>4. Consistent(row)'
  BY <1>1, <1>2, <1>3 DEF Consistent, Columns
<1>5. update' \in [Updates -> UpdateRecord]
  BY UpdateRecords DEF LocationInv, LocationTypeOK, Write, UpdateRecord, UpdateSteps, Idle, At
<1>6. CopiesConsistent'
  <2>1. update'[u] = [Idle EXCEPT !.step = me.then] /\ me.then \in {"idle", "sync"}
    BY DEF LocationInv, LocationTypeOK, Write
  <2>2. update'[u].step \in {"idle", "sync"}
    BY <2>1, UpdateRecords DEF UpdateSteps
  <2>3. ASSUME NEW v \in Updates, v # u
        PROVE  /\ update'[v].step = update[v].step /\ update'[v].copy = update[v].copy
               /\ update'[v].address = update[v].address
               /\ update[v].step = "write" => update'[v].overtaken
    BY <2>3 DEF LocationInv, LocationTypeOK, Write, At
  <2>4. ASSUME NEW v \in Updates
        PROVE  /\ Carrying(v)' => Consistent(update[v].copy)'
               /\ At(v, "write")' => update'[v].overtaken
               /\ At(v, "geocode")' => update'[v].address \in Complete
    BY <2>2, <2>3 DEF LocationInv, CopiesConsistent, Carrying, At, Consistent
  <2>5. QED
    BY <2>4 DEF CopiesConsistent
<1>7. QED
  BY <1>1, <1>4, <1>5, <1>6 DEF LocationInv, LocationTypeOK, UpdateRecord, UpdateSteps

LEMMA NextLocationInv == LocationInv /\ [LocationNext]_locationVars => LocationInv'
<1> SUFFICES ASSUME LocationInv, [LocationNext]_locationVars PROVE LocationInv'
  OBVIOUS
<1>0. row \in Row /\ Consistent(row) /\ update \in [Updates -> UpdateRecord]
  BY DEF LocationInv, LocationTypeOK, UpdateRecord, UpdateSteps
<1>1. ASSUME NEW u \in Updates, NEW copy \in Row, NEW then \in {"idle", "sync"},
             Consistent(copy), UNCHANGED row, update' = [update EXCEPT ![u] = Saving(copy, then)]
      PROVE  LocationInv'
  <2>1. LET next == Saving(copy, then)
        IN  next \in UpdateRecord /\ next.step = "save" /\ next.copy = copy
    BY UpdateRecords
  <2>2. QED
    BY <1>1, <2>1, RequestGoesOn
<1>2. ASSUME NEW u \in Updates, NEW s \in {"idle", "sync", "invalidate"},
             UNCHANGED row, update' = [update EXCEPT ![u] = [Idle EXCEPT !.step = s]]
      PROVE  LocationInv'
  <2>1. LET next == [Idle EXCEPT !.step = s] IN next \in UpdateRecord /\ next.step = s
    BY UpdateRecords DEF UpdateSteps
  <2>2. QED
    BY <1>2, <2>1, RequestGoesOn
<1>3. ASSUME NEW u \in Updates, NEW a \in Place, UpdateProfile(u, a) PROVE LocationInv'
  BY <1>0, <1>1, <1>3, PreparedConsistent, WithHashConsistent DEF UpdateProfile
<1>4. ASSUME NEW u \in Updates, UpdatePhoto(u) PROVE LocationInv'
  BY <1>0, <1>1, <1>4 DEF UpdatePhoto
<1>5. ASSUME NEW u \in Updates, Compare(u) PROVE LocationInv'
  <2> DEFINE differ == {c \in Columns : update[u].copy[c] # row[c]}
             next == [update[u] EXCEPT !.step = "write", !.differ = differ]
  <2>1. UNCHANGED row /\ At(u, "save")
    BY <1>5 DEF Compare
  <2>2. CASE differ = {}
    <3>1. update' = [update EXCEPT ![u] = [Idle EXCEPT !.step = update[u].then]]
      BY <1>5, <2>2 DEF Compare, Goto
    <3>2. update[u].then \in {"idle", "sync", "invalidate"}
      BY <1>0 DEF UpdateRecord
    <3>3. QED
      BY <1>2, <2>1, <3>1, <3>2
  <2>3. CASE differ # {}
    <3>1. update' = [update EXCEPT ![u] = next]
      BY <1>0, <1>5, <2>3 DEF Compare, UpdateRecord
    <3>2. /\ next \in UpdateRecord /\ next.step = "write"
          /\ next.copy = update[u].copy /\ next.differ = differ
      BY <1>0 DEF UpdateRecord, UpdateSteps
    <3>3. Consistent(next.copy)
      BY <2>1, <3>2 DEF LocationInv, CopiesConsistent, Carrying, At
    <3> HIDE DEF next
    <3>4. QED
      BY <2>1, <3>1, <3>2, <3>3, RequestGoesOn
  <2>4. QED
    BY <2>2, <2>3
<1>6. ASSUME NEW u \in Updates, Write(u) PROVE LocationInv'
  BY <1>6, WriteKeeps
<1>7. ASSUME NEW u \in Updates, Snapshot(u) PROVE LocationInv'
  <2> DEFINE next == [Idle EXCEPT !.step = "geocode", !.address = row.address]
  <2>1. CASE row.address \in Complete
    <3>1. UNCHANGED row /\ update' = [update EXCEPT ![u] = next]
      BY <1>7, <2>1 DEF Snapshot
    <3>2. next \in UpdateRecord /\ next.step = "geocode" /\ next.address = row.address
      BY <1>0, UpdateRecords DEF UpdateRecord, UpdateSteps, Idle, Row
    <3> HIDE DEF next
    <3>3. QED
      BY <2>1, <3>1, <3>2, RequestGoesOn
  <2>2. CASE row.address \notin Complete
    BY <1>2, <1>7, <2>2 DEF Snapshot
  <2>3. QED
    BY <2>1, <2>2
<1>8. ASSUME NEW u \in Updates, MarkAsInvalid(u) PROVE LocationInv'
  <2>1. LET copy == [row EXCEPT !.coordinates = NoAddress, !.status = "INVALID"]
        IN  copy \in Row /\ Consistent(copy)
    BY <1>0 DEF Row, Place, GeocodingStatus, Consistent
  <2>2. QED
    BY <1>1, <1>8, <2>1 DEF MarkAsInvalid
<1>9. ASSUME NEW u \in Updates, NEW found \in BOOLEAN, Geocoded(u, found) PROVE LocationInv'
  <2> DEFINE copy == [row EXCEPT !.coordinates = update[u].address, !.status = "VALID"]
  <2>1. update[u].address \in Complete /\ update[u].address \in Addresses
    BY <1>9, LocationConstants DEF Geocoded, LocationInv, CopiesConsistent
  <2>2. row.hash = update[u].address => copy \in Row /\ Consistent(copy)
    BY <1>0, <2>1, LocationConstants DEF Row, Place, GeocodingStatus, Consistent
  <2>3. ASSUME UNCHANGED row, update' = [update EXCEPT ![u] = Idle] PROVE LocationInv'
    BY <2>3, UpdateRecords, RequestGoesOn
  <2> HIDE DEF copy
  <2>4. UNCHANGED row /\ \/ update' = [update EXCEPT ![u] = Idle]
                         \/ update' = [update EXCEPT ![u] = [Idle EXCEPT !.step = "invalidate"]]
                         \/ /\ row.hash = update[u].address
                            /\ update' = [update EXCEPT ![u] = Saving(copy, "idle")]
    BY <1>9 DEF Geocoded, copy
  <2>5. QED
    BY <1>1, <1>2, <2>2, <2>3, <2>4
<1>10. ASSUME LocationCrash PROVE LocationInv'
  <2>1. UNCHANGED row /\ update' = [u \in Updates |-> Idle]
    BY <1>10 DEF LocationCrash
  <2>2. update' \in [Updates -> UpdateRecord] /\ \A u \in Updates : update'[u].step = "idle"
    BY <2>1, UpdateRecords
  <2>3. CopiesConsistent'
    BY <2>2 DEF CopiesConsistent, Carrying, At
  <2>4. Consistent(row)'
    BY <1>0, <2>1 DEF Consistent
  <2>5. QED
    BY <1>0, <2>1, <2>2, <2>3, <2>4 DEF LocationInv, LocationTypeOK, UpdateRecord, UpdateSteps
<1>11. ASSUME UNCHANGED locationVars PROVE LocationInv'
  BY <1>11 DEF locationVars, LocationInv, LocationTypeOK, Consistent, CopiesConsistent, Carrying, At
<1>12. QED
  BY <1>3, <1>4, <1>5, <1>6, <1>7, <1>8, <1>9, <1>10, <1>11 DEF LocationNext

LEMMA MatchFollows == LocationInv => CoordinatesMatchAddress
BY DEF LocationInv, Consistent, CoordinatesMatchAddress

-----------------------------------------------------------------------------
(***************************************************************************)
(* The theorems.                                                           *)
(***************************************************************************)
\* Every reachable state of both parts is well typed; in particular two accounts
\* never have one identity.
THEOREM TypeCorrect == Spec => []TypeOK
<1>1. Init => SignUpInv /\ LocationInv
  BY InitSignUp, InitLocation DEF Init
<1>2. SignUpInv /\ LocationInv /\ [Next]_vars => SignUpInv' /\ LocationInv'
  BY NextSignUpInv, NextLocationInv DEF Next, vars
<1>3. SignUpInv /\ LocationInv => TypeOK
  BY DEF SignUpInv, LocationInv, TypeOK
<1>4. QED
  BY <1>1, <1>2, <1>3, PTL DEF Spec

\* Whatever requests race for an email, the account that comes of it has the role
\* profile of its own role only, and is whole once its creator is answered.
THEOREM AccountIsWhole == Spec => []SignUpIsWhole
<1>1. Init => SignUpInv
  BY InitSignUp DEF Init
<1>2. SignUpInv /\ [Next]_vars => SignUpInv'
  BY NextSignUpInv DEF Next, vars
<1>3. QED
  BY <1>1, <1>2, WholeFollows, PTL DEF Spec

\* An ACTIVE partner has a code that works, however activations and suspensions
\* overlap.
THEOREM ActivePartnerHasCode == Spec => []PartnerHasCode
<1>1. Init => SignUpInv /\ PartnerHasCode
  BY InitSignUp DEF Init
<1>2. SignUpInv /\ PartnerHasCode /\ [Next]_vars => SignUpInv' /\ PartnerHasCode'
  BY NextSignUpInv, NextPartnerHasCode DEF Next, vars, SignUpInv
<1>3. QED
  BY <1>1, <1>2, PTL DEF Spec

\* Coordinates never stand beside an address they were not found for, unless two
\* saves overlapped in their own two statements.
THEOREM CoordinatesFollowAddress == Spec => []CoordinatesMatchAddress
<1>1. Init => LocationInv
  BY InitLocation DEF Init
<1>2. LocationInv /\ [Next]_vars => LocationInv'
  BY NextLocationInv DEF Next, vars
<1>3. QED
  BY <1>1, <1>2, MatchFollows, PTL DEF Spec
=============================================================================
