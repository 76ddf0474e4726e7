--------------------------- MODULE ConsoleSession ---------------------------
(***************************************************************************)
(* Login, logout and navigation in the console UI (src/console/ui):        *)
(* AuthenticationService, the two HTTP interceptors, the route guards, the *)
(* login page and BaseComponent with its login to the LayerG portal.       *)
(*                                                                         *)
(* The browser runs one handler at a time.  What interleaves is the        *)
(* network: a request is answered, refused (401) or lost while the user    *)
(* goes on, so every answer meets a later state than the one it was sent   *)
(* in.  inFlight counts the requests of each kind that are under way.      *)
(***************************************************************************)
EXTENDS Naturals, FiniteSets

CONSTANTS Users,        \* people with a console account
          Role,           \* Role[u]: the rol claim of u's token
          Pages,          \* the pages of the route table the model visits
          MaxLogins,      \* bound: sessions created
          MaxKinds,       \* bound: kinds of request under way
          PatientUser     \* the user leaves the login form alone once it is sent

Home == "status"
None == "none"        \* no navigation is waiting

\* UserRole: a lower number is a higher privilege, 0 is an unknown role.
Admin == 1
Developer == 2
Maintainer == 3
ReadOnly == 4
Roles == 0 .. ReadOnly

\* The first path segment of every child route of BaseComponent.
routes == {"status", "config", "users", "modules", "collections", "storage",
           "leaderboards", "matches", "groups", "accounts", "apiexplorer",
           "chat", "notifications", "purchases", "subscriptions"}

\* What the side bar asks of a page (BaseComponent.routes).
minRole == [p \in routes |->
              IF p = "users" THEN Admin
              ELSE IF p \in {"config", "collections", "modules", "apiexplorer"}
                   THEN Developer ELSE ReadOnly]

\* What the guard asks of a page; a page without an entry is open to everyone.
restrictedPages == [p \in {"users", "config", "modules", "apiexplorer"} |->
                      IF p = "users" THEN Admin ELSE Developer]

\* What the server asks of the method a page's resolver calls (restrictedMethods):
\* ListUsers and GetConfig, GetRuntime, ListApiEndpoints are for higher roles, and
\* ListSubscriptions, which has no entry, is for administrators.
restrictedMethods == [p \in routes |->
              IF p \in {"users", "subscriptions"} THEN Admin
              ELSE IF p \in {"config", "collections", "modules", "apiexplorer"}
                   THEN Developer ELSE ReadOnly]

\* A console session, one for each successful login.
Tokens == [user: Users, n: 1 .. MaxLogins]
Nobody == [user |-> "nobody", n |-> 0]

ASSUME ConsoleAssumption ==
    /\ Pages \subseteq routes /\ Home \in Pages
    /\ Role \in [Users -> Roles]
    /\ MaxLogins \in Nat /\ MaxKinds \in Nat /\ PatientUser \in BOOLEAN

\* A request: what it asks, the session whose token it carries, whether the server
\* let it pass when it was sent, and what the handler of the answer kept.
Requests ==
         [kind: {"login"}, arg: Users]
    \cup [kind: {"logout"}, tok: Tokens, arg: {"menu", "401", "auth401"}]
    \cup [kind: {"config"}, tok: Tokens, ok: BOOLEAN, arg: {"base", "guard"}]
    \cup [kind: {"resolve"}, tok: Tokens, ok: BOOLEAN, arg: Pages]
    \cup [kind: {"api"}, tok: Tokens, ok: BOOLEAN]
    \cup [kind: {"hubLogin"}]
    \cup [kind: {"hub"}, arg: {"default", "hub"}]

VARIABLES
    session,      \* AuthenticationService.currentSessionSubject
    stored,       \* localStorage currentSession
    accessToken,  \* localStorage accessToken, the portal's token, is there
    host,         \* LayergPortalService.layerg.host: default or the configured hub
    page,         \* what the router shows: login, a page, or blank while loading
    pending,      \* the page a navigation waits for, until its resolver answers
    returnUrl,    \* LoginComponent.returnUrl
    submitted,    \* LoginComponent.submitted
    live,         \* sessions the server knows
    logins,       \* sessions created so far
    inFlight      \* inFlight[r]: how many requests r are under way

vars == <<session, stored, accessToken, host, page, pending, returnUrl,
          submitted, live, logins, inFlight>>

\* The session in the browser, wherever it is kept.
browser == <<session, stored, accessToken, host>>
\* What the router shows and where it is going.
router  == <<page, pending>>
form    == <<returnUrl, submitted>>
server  == <<live, logins>>

TypeOK ==
    /\ session \in Tokens \cup {Nobody}
    /\ stored \in Tokens \cup {Nobody}
    /\ accessToken \in BOOLEAN
    /\ host \in {"default", "hub"}
    /\ page \in Pages \cup {"login", "blank"}
    /\ pending \in Pages \cup {None}
    /\ returnUrl \in Pages
    /\ submitted \in BOOLEAN
    /\ live \subseteq Tokens
    /\ logins \in 0 .. MaxLogins
    /\ inFlight \in [Requests -> Nat]

-----------------------------------------------------------------------------
(* Requests.                                                               *)

Nothing == [r \in Requests |-> 0]

\* Room for the requests of another user's action (a bound of the model).
Room == /\ Cardinality({r \in Requests : inFlight[r] > 0}) < MaxKinds
        /\ \A r \in Requests : inFlight[r] <= 1

Plus(f, r)  == [f EXCEPT ![r] = @ + 1]
Minus(f, r) == [f EXCEPT ![r] = @ - 1]

\* Mutated: the server looks at the session only.
consoleInterceptorAuth(t, known, role) == t \in known

\* consoleInterceptorFunc: the session must be known, and its role, which must not
\* be 0, must reach the method's; an administrator may call everything.
consoleInterceptorFunc(t, known, role) ==
    /\ t \in known
    /\ Role[t.user] = Admin \/ (Role[t.user] # 0 /\ Role[t.user] <= role)

\* A console request takes the token of the session that is current when it is sent
\* (SessionInterceptor.intercept); known are the server's sessions.
ConfigReq(s, known, from) ==
    [kind |-> "config", tok |-> s, arg |-> from,
     ok |-> consoleInterceptorFunc(s, known, Developer)]
ResolveReq(s, known, p) ==
    [kind |-> "resolve", tok |-> s, arg |-> p,
     ok |-> consoleInterceptorFunc(s, known, restrictedMethods[p])]
ApiReq(s)           == [kind |-> "api", tok |-> s, ok |-> s \in live]
LogoutReq(s, from)  == [kind |-> "logout", tok |-> s, arg |-> from]

\* A navigation that starts unsubscribes from the resolver of the one it replaces.
Abort(f) == [r \in Requests |-> IF r.kind = "resolve" THEN 0 ELSE f[r]]

-----------------------------------------------------------------------------
(* Guards and navigation.                                                  *)

\* PageviewGuard.canActivateChild: a page that wants a higher role sends the
\* user home; undefined < role is false, so an unlisted page lets everyone in.
PageviewGuard(p, s) ==
    IF p \in DOMAIN restrictedPages /\ restrictedPages[p] < Role[s.user]
    THEN Home ELSE p

\* router.navigate to page p with session s: the guards run at once, the guard
\* asks for the configuration without waiting, the resolver's request decides
\* when the page changes.  Going where one is does nothing.
Goto(p, s, known, f) ==
    LET t == PageviewGuard(p, s) IN
    IF t = page
    THEN /\ pending' = None
         /\ inFlight' = Abort(f)
    ELSE /\ pending' = t
         /\ inFlight' = Plus(Plus(Abort(f), ConfigReq(s, known, "guard")),
                            ResolveReq(s, known, t))

\* AuthenticationGuard.canActivate: without a session the page is the login
\* page, with the URL that was asked for as its return address.
AuthenticationGuard(p) ==
    IF session # Nobody
    THEN /\ Goto(p, session, live, inFlight)
         /\ UNCHANGED <<page, returnUrl, submitted>>
    ELSE /\ page' = "login"
         /\ pending' = None
         /\ returnUrl' = IF page = "login" THEN returnUrl ELSE p
         /\ submitted' = (page = "login" /\ submitted)
         /\ inFlight' = Abort(inFlight)

\* A link of the side bar, which shows the pages the role may see.
Navigate(p) ==
    /\ page \in Pages /\ session # Nobody /\ p # page /\ p # pending /\ Room
    /\ Role[session.user] <= minRole[p]
    /\ Goto(p, session, live, inFlight)
    /\ UNCHANGED <<browser, page, form, server>>

\* A URL typed by hand, or a bookmark.
OpenUrl(p) ==
    /\ p # page /\ p # pending /\ Room
    /\ AuthenticationGuard(p)
    /\ UNCHANGED <<browser, server>>

\* The browser tab is reloaded: what was under way is gone, the session is
\* restored from localStorage and the current URL is opened again.
Reload ==
    /\ page \in Pages /\ Room
    /\ session' = stored
    /\ host' = "default"
    /\ IF stored = Nobody
       THEN /\ page' = "login" /\ returnUrl' = page
            /\ pending' = None /\ inFlight' = Nothing
       ELSE LET t == PageviewGuard(page, stored) IN
            /\ page' = "blank" /\ pending' = t
            /\ inFlight' = Plus(Plus(Nothing, ConfigReq(stored, live, "guard")),
                              ResolveReq(stored, live, t))
            /\ UNCHANGED returnUrl
    /\ submitted' = FALSE
    /\ UNCHANGED <<stored, accessToken, server>>

\* The page opens; BaseComponent.ngOnInit asks for the configuration when the
\* navigation comes from outside.
Opens(p, f) ==
    /\ page' = p
    /\ pending' = None
    /\ inFlight' = IF page \in Pages \/ session = Nobody THEN f
                   ELSE Plus(f, ConfigReq(session, live, "base"))
    /\ UNCHANGED <<browser, form, server>>

\* The resolvers of these pages turn an error into data: the page opens anyway.
\* An error of any other resolver, PermissionDenied among them, ends the navigation
\* where it began.
catchError == {"status", "matches", "chat"}
Fails(p, f) ==
    IF p \in catchError THEN Opens(p, f)
    ELSE /\ pending' = None /\ inFlight' = f
         /\ UNCHANGED <<browser, page, form, server>>

Resolved(r) ==
    /\ r.kind = "resolve" /\ inFlight[r] > 0 /\ r.ok
    /\ Opens(r.arg, Minus(inFlight, r))

ResolveFailed(r) ==
    /\ r.kind = "resolve" /\ inFlight[r] > 0
    /\ Fails(r.arg, Minus(inFlight, r))

-----------------------------------------------------------------------------
(* Login and logout.                                                       *)

\* LoginComponent.onSubmit; the button is off while a login is under way.
onSubmit(u) ==
    /\ page = "login" /\ ~submitted /\ logins < MaxLogins
    /\ PatientUser => session = Nobody
    /\ submitted' = TRUE
    /\ inFlight' = Plus(inFlight, [kind |-> "login", arg |-> u])
    /\ UNCHANGED <<browser, router, returnUrl, server>>

\* AuthenticationService.login on success, then LoginComponent's navigation.
LoggedIn(r) ==
    LET t == [user |-> r.arg, n |-> logins + 1] IN
    /\ r.kind = "login" /\ inFlight[r] > 0 /\ logins < MaxLogins
    /\ session' = t
    /\ stored' = t
    /\ live' = live \cup {t}
    /\ logins' = logins + 1
    /\ submitted' = FALSE
    /\ Goto(returnUrl, t, live', Minus(inFlight, r))
    /\ UNCHANGED <<accessToken, host, page, returnUrl>>

LoginFailed(r) ==
    /\ r.kind = "login" /\ inFlight[r] > 0
    /\ submitted' = FALSE
    /\ inFlight' = Minus(inFlight, r)
    /\ UNCHANGED <<browser, router, returnUrl, server>>

\* Mutated: a 401 is only shown.
logoutNever(f, from) == f

\* AuthenticationService.logout: nothing without a session, otherwise a request
\* that names the session current now.
logout(f, from) ==
    IF session = Nobody THEN f ELSE Plus(f, LogoutReq(session, from))

\* BaseComponent.logout.  The link also asks for the login page, which LoginGuard
\* answers, as long as there is a session, by going home.
Logout ==
    /\ page \in Pages /\ session # Nobody /\ Room
    /\ inFlight[LogoutReq(session, "menu")] = 0
    /\ Goto(Home, session, live, logout(inFlight, "menu"))
    /\ UNCHANGED <<browser, page, form, server>>

\* What the answer to a logout leaves of the session in the browser.
Forget ==
    /\ session' = Nobody
    /\ stored' = Nobody
    /\ accessToken' = FALSE

\* Mutated: the interceptor leaves the page to itself; the return address is
\* whatever the router shows.
ToLoginFromMenu(from) ==
    IF from = "menu"
    THEN page' = "login" /\ pending' = None /\ returnUrl' = Home /\ submitted' = FALSE
    ELSE UNCHANGED <<router, form>>
ToLoginKeepsUrl(from) ==
    page' = "login" /\ pending' = None /\ returnUrl' = page /\ submitted' = FALSE

\* The way to the login page after a logout: the interceptor keeps the URL.
\* A login page that is already there keeps its return address.
ToLogin(from) ==
    /\ page' = "login"
    /\ pending' = None
    /\ returnUrl' = IF page = "login" THEN returnUrl
                    ELSE IF from # "menu" /\ page \in Pages THEN page ELSE Home
    /\ submitted' = (page = "login" /\ submitted)

\* The answer to a logout: the session is dropped and the login page is shown.
\* A failed logout changes nothing.
LoggedOut(r) ==
    /\ r.kind = "logout" /\ inFlight[r] > 0
    /\ Forget
    /\ ToLogin(r.arg)
    /\ live' = live \ {r.tok}
    /\ inFlight' = Abort(Minus(inFlight, r))
    /\ UNCHANGED <<host, logins>>

LogoutFailed(r) ==
    /\ r.kind = "logout" /\ inFlight[r] > 0
    /\ inFlight' = Minus(inFlight, r)
    /\ UNCHANGED <<browser, router, form, server>>

\* The server forgets a session: it expires, or the server restarts.
Expire(t) ==
    /\ t \in live
    /\ live' = live \ {t}
    /\ UNCHANGED <<browser, router, form, logins, inFlight>>

-----------------------------------------------------------------------------
(* Console requests of the pages, and the portal.                          *)

\* Any request of the page that is open, the status page's timer among them.
Ask ==
    /\ page \in Pages /\ session # Nobody /\ Room
    /\ inFlight[ApiReq(session)] = 0
    /\ inFlight' = Plus(inFlight, ApiReq(session))
    /\ UNCHANGED <<browser, router, form, server>>

Answered(r) ==
    /\ r.kind = "api" /\ inFlight[r] > 0
    /\ inFlight' = Minus(inFlight, r)
    /\ UNCHANGED <<browser, router, form, server>>

\* AuthenticationErrorInterceptor: a 401, whatever the request, ends the session
\* that is current when it arrives.  A resolver's 401 is an error of
\* its navigation, too.
Unauthorized(r) ==
    /\ inFlight[r] > 0
    /\ \/ /\ r.kind \in {"api", "config"} /\ r.tok \notin live
          /\ inFlight' = logout(Minus(inFlight, r), "401")
          /\ UNCHANGED <<browser, router, form, server>>
       \/ /\ r.kind = "resolve" /\ r.tok \notin live
          /\ Fails(r.arg, logout(Minus(inFlight, r), "401"))

\* The same for a login that is refused, on the console or on the portal.  The
\* interceptor spares URLs with /v3/auth in them, and neither of the two has that.
AuthRefused(r) ==
    /\ inFlight[r] > 0 /\ r.kind \in {"login", "hubLogin"}
    /\ inFlight' = logout(Minus(inFlight, r), "auth401")
    /\ submitted' = (submitted /\ r.kind # "login")
    /\ accessToken' = (accessToken /\ r.kind # "hubLogin")
    /\ UNCHANGED <<session, stored, host, router, returnUrl, server>>

\* getConfig answered: the portal's host is set; BaseComponent then logs in to
\* the portal (handleLogin).
Configured(r) ==
    /\ r.kind = "config" /\ inFlight[r] > 0 /\ r.ok
    /\ host' = "hub"
    /\ inFlight' = IF r.arg = "base" THEN Plus(Minus(inFlight, r), [kind |-> "hubLogin"])
                   ELSE Minus(inFlight, r)
    /\ UNCHANGED <<session, stored, accessToken, router, form, server>>

ConfigFailed(r) ==
    /\ r.kind = "config" /\ inFlight[r] > 0
    /\ inFlight' = Minus(inFlight, r)
    /\ UNCHANGED <<browser, router, form, server>>

\* handleLogin: the portal's token is written, or removed when the login fails.
PortalAnswered(r) ==
    /\ r.kind = "hubLogin" /\ inFlight[r] > 0
    /\ accessToken' \in BOOLEAN
    /\ inFlight' = Minus(inFlight, r)
    /\ UNCHANGED <<session, stored, host, router, form, server>>

\* A portal call of the collections page (getTokenAuthHeaders): the stored token
\* to the current host.  Without a token the header says so and the portal refuses.
PortalCall ==
    LET r == [kind |-> "hub", arg |-> host] IN
    /\ page = "collections" /\ Room /\ inFlight[r] = 0
    /\ inFlight' = Plus(inFlight, r)
    /\ UNCHANGED <<browser, router, form, server>>

PortalReplied(r) ==
    /\ r.kind = "hub" /\ inFlight[r] > 0
    /\ \/ inFlight' = Minus(inFlight, r)
       \/ inFlight' = logout(Minus(inFlight, r), "401")
    /\ UNCHANGED <<browser, router, form, server>>

-----------------------------------------------------------------------------
Init ==
    /\ session = Nobody /\ stored = Nobody
    /\ accessToken = FALSE
    /\ host = "default"
    /\ page = "login" /\ pending = None
    /\ returnUrl \in Pages
    /\ submitted = FALSE
    /\ live = {} /\ logins = 0
    /\ inFlight = Nothing

Next ==
    \/ \E p \in Pages : Navigate(p) \/ OpenUrl(p)
    \/ \E u \in Users : onSubmit(u)
    \/ \E t \in Tokens : Expire(t)
    \/ Reload \/ Logout \/ Ask \/ PortalCall
    \/ \E r \in Requests :
          \/ Resolved(r) \/ ResolveFailed(r)
          \/ LoggedIn(r) \/ LoginFailed(r) \/ AuthRefused(r)
          \/ LoggedOut(r) \/ LogoutFailed(r)
          \/ Answered(r) \/ Unauthorized(r)
          \/ Configured(r) \/ ConfigFailed(r)
          \/ PortalAnswered(r) \/ PortalReplied(r)

Spec == Init /\ [][Next]_vars

\* The status page asks again every few seconds, every request is answered,
\* refused or given up in the end, and a request made again and again gets through.
\* (Strong fairness of the poll, because Room, a bound of the model, comes and goes.)
StatusPoll == page = Home /\ Ask
Gone(r) == \/ Resolved(r) \/ ResolveFailed(r) \/ LoggedIn(r) \/ LoginFailed(r)
           \/ LoggedOut(r) \/ LogoutFailed(r) \/ Answered(r)
           \/ Configured(r) \/ ConfigFailed(r) \/ PortalAnswered(r) \/ PortalReplied(r)

Fairness ==
    /\ SF_vars(StatusPoll)
    /\ \A r \in Requests : WF_vars(Gone(r))
    /\ \A t \in Tokens :
          /\ SF_vars(Unauthorized([kind |-> "api", tok |-> t, ok |-> FALSE]))
          /\ \A w \in {"menu", "401", "auth401"} : SF_vars(LoggedOut(LogoutReq(t, w)))

FairSpec == Spec /\ Fairness

-----------------------------------------------------------------------------
(* Properties.                                                             *)

\* A page behind the guard is shown only to somebody who is logged in, and whom a
\* reload would find logged in again: whatever ends the session, a late answer to an
\* earlier logout included, also leaves the page and empties localStorage, and the
\* navigations that were waiting for a resolver do not come back to it.
SignedInToSee ==
    /\ page \in Pages => session # Nobody
    /\ stored = session

\* Whoever sees a page has the role the side bar asks for it, although three tables
\* decide: the guard's when the navigation starts (which has no entry for the
\* collections), the server's when the resolver's request arrives, and neither of them
\* when the page opens, with logouts and logins in between.  Nobody waits for a page
\* the guard refuses.
RoleFitsPage ==
    session # Nobody =>
        /\ page \in Pages => Role[session.user] <= minRole[page]
        /\ pending \in DOMAIN restrictedPages => Role[session.user] <= restrictedPages[pending]

\* A session the server has forgotten does not stay on the status page: the next
\* poll is refused and the interceptor takes the user to the login page, however
\* many answers and logouts are lost on the way.
RevokedSessionLeaves ==
    \A t \in Tokens :
        (page = Home /\ session = t /\ t \notin live) ~> (page # Home \/ session # t)

=============================================================================
