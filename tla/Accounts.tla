------------------------------- MODULE Accounts -------------------------------
(***************************************************************************)
(* Accounts: signing up with a new organization, onboarding, users added by *)
(* an administrator, and the link that resets a forgotten password.  An     *)
(* account is known by its organization and its email, which are unique     *)
(* together and not apart.                                                  *)
(***************************************************************************)
EXTENDS Naturals, FiniteSets

CONSTANTS
  Organizations,    \* slugs, in the order resolveUniqueOrganizationSlug tries them: 1 .. n
  Emails,
  SignUpEmails,     \* bound: those that sign up, are onboarded or forget a password
  Staffed,          \* bound: organizations whose administrators add users
  Tokens,           \* reset tokens; a fresh one is never seen before
  AccountRequests   \* requests in flight

ASSUME TokensAssumption == "none" \notin Tokens
ASSUME EmailsAssumption == SignUpEmails \subseteq Emails /\ Staffed \subseteq Organizations
ASSUME RequestsAssumption == IsFiniteSet(AccountRequests)

Rows == Organizations \X Emails

VARIABLES
  organization,    \* slugs that are taken
  role,            \* role of each account, "none" without a row
  resetToken,      \* passwordResetToken
  expired,         \* tokens whose hour has passed
  accountRequest,
  issued,          \* tokens generated so far
  lastToken,       \* history: the token last stored for an account
  uses,            \* history: how often a token set a password
  signUps,         \* history: accounts signed up with an email
  overlapped       \* history: accounts whose token was stored while a reset was on its way

accountVars == <<organization, role, resetToken, expired, accountRequest, issued, lastToken, uses, signUps, overlapped>>
resetVars == <<resetToken, expired, issued, lastToken, uses, overlapped>>

NoToken == "none"
IdleAccountRequest == [at |-> "idle"]

AccountTypeOK ==
  /\ organization \subseteq Organizations
  /\ role \in [Rows -> {"none", "TENANT_ADMIN", "ADMIN", "USER"}]
  /\ resetToken \in [Rows -> Tokens \cup {NoToken}] /\ lastToken \in [Rows -> Tokens \cup {NoToken}]
  /\ expired \subseteq issued /\ issued \subseteq Tokens
  /\ accountRequest \in [AccountRequests ->
       {IdleAccountRequest} \cup [at : {"slug"}, email : Emails]
         \cup [at : {"signUp"}, email : Emails, slug : Organizations]
         \cup [at : {"forgot", "reset"}, row : Rows, token : Tokens]]
  /\ uses \in [Tokens -> Nat] /\ signUps \in [Emails -> Nat]
  /\ overlapped \subseteq Rows

AccountInit ==
  /\ organization = {} /\ expired = {} /\ issued = {} /\ overlapped = {}
  /\ role = [a \in Rows |-> "none"]
  /\ resetToken = [a \in Rows |-> NoToken] /\ lastToken = [a \in Rows |-> NoToken]
  /\ accountRequest = [r \in AccountRequests |-> IdleAccountRequest]
  /\ uses = [k \in Tokens |-> 0]
  /\ signUps = [e \in Emails |-> 0]

Waiting(r) == accountRequest[r].at = "idle"
Move(r, step) == accountRequest' = [accountRequest EXCEPT ![r] = step]

\* Fault: the email is looked up in no organization.
assertSignupEmailAvailableNever(email) == TRUE

\* Looks in all organizations, active accounts or not.
assertSignupEmailAvailable(email) == \A o \in Organizations : role[<<o, email>>] = "none"

register(r, email) ==
  /\ Waiting(r)
  /\ assertSignupEmailAvailable(email)
  /\ Move(r, [at |-> "slug", email |-> email])
  /\ UNCHANGED <<organization, role, signUps, resetVars>>

\* Organizations are never deleted: the slugs tried before the free one stay taken.
resolveUniqueOrganizationSlug(r) ==
  /\ accountRequest[r].at = "slug"
  /\ \E s \in Organizations \ organization :
       /\ \A t \in Organizations : t < s => t \in organization
       /\ Move(r, [at |-> "signUp", email |-> accountRequest[r].email, slug |-> s])
  /\ UNCHANGED <<organization, role, signUps, resetVars>>

\* The transaction of register and of onboard.
CreateOrganization(o, email) ==
  /\ organization' = organization \cup {o}
  /\ role' = [role EXCEPT ![<<o, email>>] = "TENANT_ADMIN"]

\* The slug is unique: the second of two requests that found it free is refused.
signUp(r) ==
  LET email == accountRequest[r].email
      slug == accountRequest[r].slug
  IN /\ accountRequest[r].at = "signUp"
     /\ IF slug \in organization
        THEN UNCHANGED <<organization, role, signUps>>
        ELSE CreateOrganization(slug, email) /\ signUps' = [signUps EXCEPT ![email] = @ + 1]
     /\ Move(r, IdleAccountRequest)
     /\ UNCHANGED resetVars

\* onboard, by a SUPER_ADMIN: the email may be in use in another organization.
onboard(o, email) ==
  /\ o \notin organization
  /\ CreateOrganization(o, email)
  /\ UNCHANGED <<accountRequest, signUps, resetVars>>

\* Fault: whoever may create users may create any.
assertCanCreateRoleAny(actorRole, targetRole) == actorRole \in {"TENANT_ADMIN", "ADMIN"}

\* SECURITY is a target like USER, and makes nobody.
assertCanCreateRole(actorRole, targetRole) ==
  \/ actorRole = "TENANT_ADMIN" /\ targetRole \in {"ADMIN", "USER"}
  \/ actorRole = "ADMIN" /\ targetRole = "USER"

\* By an account of the organization, whose role does not change.
createManagedUser(actor, email, targetRole) ==
  LET o == actor[1]
  IN /\ assertCanCreateRole(role[actor], targetRole)
     /\ role[<<o, email>>] = "none"
     /\ role' = [role EXCEPT ![<<o, email>>] = targetRole]
     /\ UNCHANGED <<organization, accountRequest, signUps, resetVars>>

-----------------------------------------------------------------------------
(* The reset link                                                          *)

\* forgotPassword, up to the update: one of the accounts with this email.
forgotPassword(r, row, token) ==
  /\ Waiting(r)
  /\ role[row] # "none" /\ token \notin issued
  /\ issued' = issued \cup {token}
  /\ Move(r, [at |-> "forgot", row |-> row, token |-> token])
  /\ UNCHANGED <<organization, role, signUps, resetToken, expired, lastToken, uses, overlapped>>

\* The mail is sent after it, and may fail: the link is lost then, or late.
storeToken(r) ==
  LET row == accountRequest[r].row
  IN /\ accountRequest[r].at = "forgot"
     /\ resetToken' = [resetToken EXCEPT ![row] = accountRequest[r].token]
     /\ lastToken' = [lastToken EXCEPT ![row] = accountRequest[r].token]
     /\ overlapped' = IF \E q \in AccountRequests :
                           accountRequest[q].at = "reset" /\ accountRequest[q].row = row
                      THEN overlapped \cup {row} ELSE overlapped \ {row}
     /\ Move(r, IdleAccountRequest)
     /\ UNCHANGED <<organization, role, signUps, expired, issued, uses>>

\* resetPassword, up to the update: the account that holds the token.
resetPassword(r, row) ==
  /\ Waiting(r)
  /\ resetToken[row] # NoToken /\ resetToken[row] \notin expired
  /\ Move(r, [at |-> "reset", row |-> row, token |-> resetToken[row]])
  /\ UNCHANGED <<organization, role, signUps, resetVars>>

\* Fault: the tokens of all candidates are cleared.
ClearedAll(row) == [a \in Rows |-> NoToken]

Cleared(row) == [resetToken EXCEPT ![row] = NoToken]

\* The update names the account and not the token it had when it was read.
storePassword(r) ==
  /\ accountRequest[r].at = "reset"
  /\ resetToken' = Cleared(accountRequest[r].row)
  /\ uses' = [uses EXCEPT ![accountRequest[r].token] = @ + 1]
  /\ Move(r, IdleAccountRequest)
  /\ UNCHANGED <<organization, role, signUps, expired, issued, lastToken, overlapped>>

Expire(token) ==
  /\ token \in issued \ expired
  /\ expired' = expired \cup {token}
  /\ UNCHANGED <<organization, role, signUps, resetToken, accountRequest, issued, lastToken, uses, overlapped>>

AccountNext ==
  \/ \E r \in AccountRequests, email \in SignUpEmails : register(r, email)
  \/ \E r \in AccountRequests : resolveUniqueOrganizationSlug(r) \/ signUp(r) \/ storeToken(r) \/ storePassword(r)
  \/ \E o \in Organizations, email \in SignUpEmails : onboard(o, email)
  \/ \E actor \in Staffed \X Emails, email \in Emails, targetRole \in {"TENANT_ADMIN", "ADMIN", "USER"} :
       createManagedUser(actor, email, targetRole)
  \/ \E r \in AccountRequests, row \in Organizations \X SignUpEmails :
       resetPassword(r, row) \/ \E token \in Tokens : forgotPassword(r, row, token)
  \/ \E token \in Tokens : Expire(token)

AccountSpec == AccountInit /\ [][AccountNext]_accountVars

-----------------------------------------------------------------------------
(* Properties                                                              *)

\* Whoever creates an organization, and whatever is refused on the way, it has the
\* administrator it came with and no other, and no account is without its
\* organization (register, onboard, assertCanCreateRole).
OrganizationsHaveAdmin ==
  \A o \in Organizations :
    /\ Cardinality({e \in Emails : role[<<o, e>>] = "TENANT_ADMIN"}) = IF o \in organization THEN 1 ELSE 0
    /\ (\E e \in Emails : role[<<o, e>>] # "none") => o \in organization

\* An email signs up once, except by requests that looked for it at the same time.
SignUpsBounded == \A e \in Emails : signUps[e] <= Cardinality(AccountRequests)

\* Sign-ups that overlap, collide on a slug or are refused leave no organization
\* without its administrator, and no more accounts per email than requests.
AccountsConsistent == OrganizationsHaveAdmin /\ SignUpsBounded

\* A reset link works once, except for requests that hold it at the same time.
ResetsBounded == \A k \in Tokens : uses[k] <= Cardinality(AccountRequests)

\* The link stored last for an account works until it is used or expires, whatever
\* other accounts do; only a reset that was on its way when it was stored wipes it.
LastLinkStands ==
  \A a \in Rows : lastToken[a] # NoToken /\ a \notin overlapped /\ uses[lastToken[a]] = 0 =>
    resetToken[a] = lastToken[a]

\* A link sets a password once, and stands until then; only requests on their way
\* at the same time make an exception (forgotPassword, resetPassword).
ResetLinks == ResetsBounded /\ LastLinkStands

\* Overlapping requests break accounts and reset links in no other way than these.
AccountsSound == AccountsConsistent /\ ResetLinks
===============================================================================
