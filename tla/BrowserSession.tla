---------------------------- MODULE BrowserSession ----------------------------
(***************************************************************************)
(* Who is signed in, in one tab of a browser.  The token is in             *)
(* localStorage, which all tabs share and no tab listens to; every request *)
(* takes it from there.  The tab keeps in memory a copy of the token, the  *)
(* answer to /auth/me, and the answers of the pages' queries, whose keys   *)
(* do not name the user.  A 401 to any request signs the tab out.          *)
(***************************************************************************)
EXTENDS FiniteSets

CONSTANTS
    Members,    \* users with a password
    Nobody

NoRequest == "no request"

ASSUME SessionAssumption == Nobody \notin Members /\ NoRequest \notin Members \union {Nobody}

VARIABLES
    storage,    \* localStorage: whose token
    tab,        \* [token, me, list, path]: state and query cache of the tab
    asking,     \* [me, list, login]: requests under way, by whose token
    heard,      \* no other tab wrote the storage since this one read or wrote it
    crossed     \* history: what the last sign-in in this tab crossed: a "list" being
                \* asked for, a "session" not ended

sessionVars == <<storage, tab, asking, heard, crossed>>

NoRequests == [me |-> NoRequest, list |-> NoRequest, login |-> NoRequest]

isAuthenticated == tab.token # Nobody /\ tab.me # Nobody

AppLoaded ==
    /\ tab' = [token |-> storage, me |-> Nobody, list |-> Nobody, path |-> "public"]
    /\ asking' = NoRequests
    /\ heard' = TRUE
    /\ crossed' = {}

SessionInit ==
    /\ storage \in Members \union {Nobody}
    /\ tab = [token |-> storage, me |-> Nobody, list |-> Nobody, path |-> "public"]
    /\ asking = NoRequests
    /\ heard = TRUE
    /\ crossed = {}

(***************************************************************************)
(* AuthProvider.                                                           *)
(***************************************************************************)
\* Fault: what is cached under 'auth' stays, and its request goes on.
logoutOfToken(others) ==
    /\ storage' = Nobody
    /\ heard' = TRUE
    /\ tab' = [tab EXCEPT !.token = Nobody]
    /\ asking' = [others EXCEPT !.me = asking.me]
    /\ crossed' = {}

\* The button, or a 401: the answers under 'auth' are removed, and the request
\* for them with them; the others stay.
logout(others) ==
    /\ storage' = Nobody
    /\ heard' = TRUE
    /\ tab' = [tab EXCEPT !.token = Nobody, !.me = Nobody]
    /\ asking' = [others EXCEPT !.me = NoRequest]
    /\ crossed' = {}

PressLogout ==
    /\ isAuthenticated /\ tab.path = "private"
    /\ logout(asking)

\* A request for /auth/me under way is not called back.
persistAuth ==
    /\ asking.login \in Members
    /\ storage' = asking.login
    /\ heard' = TRUE
    /\ tab' = [tab EXCEPT !.token = asking.login, !.me = asking.login, !.path = "private"]
    /\ asking' = [asking EXCEPT !.login = NoRequest]
    /\ crossed' = {c \in {"list", "session"} :
                      IF c = "list" THEN asking.list # NoRequest ELSE tab.token # Nobody}

\* LoginPage: shown as long as nobody is signed in.
handleSubmit(user) ==
    /\ tab.path = "public" /\ ~isAuthenticated
    /\ asking.login = NoRequest
    /\ asking' = [asking EXCEPT !.login = user]
    /\ UNCHANGED <<storage, tab, heard, crossed>>

\* ProtectedRoute sends a tab without a token to the login page; others go
\* where they like.
Navigate(path) ==
    /\ tab.path # path
    /\ path = "private" => tab.token # Nobody
    /\ tab' = [tab EXCEPT !.path = path]
    /\ UNCHANGED <<storage, asking, heard, crossed>>

ReloadTab == AppLoaded /\ UNCHANGED storage

\* Somebody signs in or out in another tab.
OtherTab(user) ==
    /\ user # storage
    /\ storage' = user
    /\ heard' = FALSE
    /\ UNCHANGED <<tab, asking, crossed>>

(***************************************************************************)
(* Requests: the token is read when they are sent, the answer used when it *)
(* comes.                                                                  *)
(***************************************************************************)
\* currentUserQuery: a token, and not a public page.
AskMe ==
    /\ tab.token # Nobody /\ tab.path = "private"
    /\ tab.me = Nobody /\ asking.me = NoRequest
    /\ asking' = [asking EXCEPT !.me = storage]
    /\ UNCHANGED <<storage, tab, heard, crossed>>

\* A page's list, as bookings/my: asked when the page opens, and again when it
\* is old.
AskList ==
    /\ isAuthenticated /\ tab.path = "private"
    /\ asking.list = NoRequest
    /\ asking' = [asking EXCEPT !.list = storage]
    /\ UNCHANGED <<storage, tab, heard, crossed>>

Answered(request) ==
    /\ asking[request] \in Members
    /\ tab' = [tab EXCEPT ![request] = asking[request]]
    /\ asking' = [asking EXCEPT ![request] = NoRequest]
    /\ UNCHANGED <<storage, heard, crossed>>

\* The response interceptor.  Without a token, or with one that has run out:
\* 401, and whoever is signed in by then is signed out.
Unauthorized(request) ==
    /\ asking[request] # NoRequest
    /\ logout([asking EXCEPT ![request] = NoRequest])

\* No connection, 30 seconds, wrong password: only a message.
RequestFails(request) ==
    /\ asking[request] # NoRequest
    /\ asking' = [asking EXCEPT ![request] = NoRequest]
    /\ UNCHANGED <<storage, tab, heard, crossed>>

SessionNext ==
    \/ PressLogout \/ persistAuth \/ ReloadTab \/ AskMe \/ AskList
    \/ \E user \in Members : handleSubmit(user)
    \/ \E user \in Members \union {Nobody} : OtherTab(user)
    \/ \E path \in {"public", "private"} : Navigate(path)
    \/ \E request \in {"me", "list"} : Answered(request) \/ Unauthorized(request)
    \/ \E request \in {"me", "list", "login"} : RequestFails(request)

SessionSpec == SessionInit /\ [][SessionNext]_sessionVars

(***************************************************************************)
(* Properties.                                                             *)
(***************************************************************************)
SessionTypeOK ==
    /\ storage \in Members \union {Nobody}
    /\ {tab.token, tab.me, tab.list} \subseteq Members \union {Nobody}
    /\ crossed \subseteq {"list", "session"}
    /\ {asking.me, asking.list, asking.login} \subseteq Members \union {Nobody, NoRequest}

\* The user the tab shows as signed in is the one its requests are made for
\* (AuthProvider against createApiClient), whatever requests of earlier users
\* were under way.  Left out: another tab has written the token since, which
\* this one does not notice; and a sign-in on top of a session, whose /auth/me
\* may be answered afterwards.
MeIsOwner == isAuthenticated /\ heard /\ "session" \notin crossed => tab.me = storage

\* QUALITY_REVIEW.md: signing out leaves "no stale cross-user cache".  A list
\* in the cache of the tab is that of the user signed in there, even when
\* no other tab wrote the token and nobody signed in before the user before had
\* signed out, and none of whose requests was under way any more.
NoStaleCrossUserCache ==
    isAuthenticated /\ heard /\ crossed = {} => tab.list \in {Nobody, tab.me}
=============================================================================
