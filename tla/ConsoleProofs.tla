--------------------------- MODULE ConsoleProofs ----------------------------
(***************************************************************************)
(* Proofs about ConsoleSession, for any users, roles, pages and number of  *)
(* logins and for any number of requests under way.                        *)
(*                                                                         *)
(* A page changes when a resolver answers, so what is shown depends on     *)
(* what is under way: the strengthenings say whose resolvers and whose     *)
(* logins can be.                                                          *)
(***************************************************************************)
EXTENDS ConsoleSession, TLAPS

-----------------------------------------------------------------------------
(* Requests and the function that counts them.                             *)

\* The fields of a request, by its kind.
LEMMA ReqFields ==
    ASSUME NEW r \in Requests
    PROVE  /\ r.kind = "login" => r.arg \in Users
           /\ r.kind = "logout" => r.tok \in Tokens /\ r.arg \in {"menu", "401", "auth401"}
           /\ r.kind = "config" => r.tok \in Tokens
           /\ r.kind = "resolve" => r.tok \in Tokens /\ r.arg \in Pages
           /\ r.kind = "api" => r.tok \in Tokens
  BY DEF Requests

\* Every request the code makes is one of Requests.
LEMMA ReqMade ==
    ASSUME NEW s \in Tokens, NEW known
    PROVE  /\ \A from \in {"base", "guard"} :
                 /\ ConfigReq(s, known, from) \in Requests
                 /\ ConfigReq(s, known, from).kind = "config"
           /\ \A p \in Pages :
                 /\ ResolveReq(s, known, p) \in Requests
                 /\ ResolveReq(s, known, p).kind = "resolve"
                 /\ ResolveReq(s, known, p).arg = p
           /\ ApiReq(s) \in Requests /\ ApiReq(s).kind = "api"
           /\ \A from \in {"menu", "401", "auth401"} :
                 LogoutReq(s, from) \in Requests /\ LogoutReq(s, from).kind = "logout"
<1>1. \A role : consoleInterceptorFunc(s, known, role) \in BOOLEAN
  BY DEF consoleInterceptorFunc
<1> HIDE DEF consoleInterceptorFunc
<1> QED
  BY <1>1 DEF Requests, ConfigReq, ResolveReq, ApiReq, LogoutReq

\* The requests without a token are requests.
LEMMA OtherMade ==
    /\ \A u \in Users : [kind |-> "login", arg |-> u] \in Requests
    /\ [kind |-> "hubLogin"] \in Requests
    /\ \A h \in {"default", "hub"} : [kind |-> "hub", arg |-> h] \in Requests
  BY DEF Requests

Counts == [Requests -> Nat]

\* One request more, one less.
LEMMA PlusType ==
    ASSUME NEW f \in Counts, NEW r \in Requests
    PROVE  /\ Plus(f, r) \in Counts
           /\ \A q \in Requests : Plus(f, r)[q] = IF q = r THEN f[q] + 1 ELSE f[q]
  BY DEF Counts, Plus

\* One request less of a kind.
LEMMA MinusType ==
    ASSUME NEW f \in Counts, NEW r \in Requests, f[r] > 0
    PROVE  /\ Minus(f, r) \in Counts
           /\ \A q \in Requests : Minus(f, r)[q] = IF q = r THEN f[q] - 1 ELSE f[q]
  BY DEF Counts, Minus

\* A navigation that starts takes the resolvers with it, and nothing else.
LEMMA AbortType ==
    ASSUME NEW f \in Counts
    PROVE  /\ Abort(f) \in Counts
           /\ \A q \in Requests : Abort(f)[q] = IF q.kind = "resolve" THEN 0 ELSE f[q]
  BY DEF Counts, Abort

\* A logout is asked for only by a session there is.
LEMMA LogoutType ==
    ASSUME NEW f \in Counts, NEW from \in {"menu", "401", "auth401"},
           session \in Tokens \cup {Nobody}
    PROVE  /\ logout(f, from) \in Counts
           /\ \A q \in Requests : q.kind # "logout" => logout(f, from)[q] = f[q]
<1>1. CASE session = Nobody
  BY <1>1 DEF logout
<1>2. CASE session # Nobody
  <2> DEFINE r == LogoutReq(session, from)
  <2>1. r \in Requests /\ r.kind = "logout"
    BY <1>2, ReqMade
  <2>2. logout(f, from) = Plus(f, r)
    BY <1>2 DEF logout
  <2> HIDE DEF r
  <2> QED
    BY <2>1, <2>2, PlusType
<1> QED
  BY <1>1, <1>2

-----------------------------------------------------------------------------
(* Navigation.                                                             *)

\* The guard sends the user to a page the role may see.
LEMMA GuardAdmits ==
    ASSUME NEW p \in Pages, NEW s \in Tokens
    PROVE  /\ PageviewGuard(p, s) \in Pages
           /\ PageviewGuard(p, s) \in DOMAIN restrictedPages =>
                 Role[s.user] <= restrictedPages[PageviewGuard(p, s)]
<1>1. Role[s.user] \in Nat
  BY ConsoleAssumption DEF Tokens, Roles, ReadOnly
<1>2. \A q \in DOMAIN restrictedPages : restrictedPages[q] \in Nat
  BY DEF restrictedPages, Admin, Developer
<1>3. Home \notin DOMAIN restrictedPages /\ Home \in Pages
  BY ConsoleAssumption DEF restrictedPages, Home
<1> HIDE DEF restrictedPages
<1> QED
  BY <1>1, <1>2, <1>3 DEF PageviewGuard

\* A request of a resolver that opens its page: the server lets it pass, or the
\* resolver turns the refusal into data.
Opener(r) == r.kind = "resolve" /\ (r.ok \/ r.arg \in catchError)

\* Whatever the guard lets through, the server refuses the resolver of a page the side
\* bar does not show.
LEMMA ServerAdmits ==
    ASSUME NEW p \in Pages, NEW s \in Tokens, NEW known, Opener(ResolveReq(s, known, p))
    PROVE  Role[s.user] <= minRole[p]
<1>1. Role[s.user] \in 0 .. 4 /\ p \in routes
  BY ConsoleAssumption DEF Tokens, Roles, ReadOnly
<1>2. \/ p \in catchError
      \/ consoleInterceptorFunc(s, known, restrictedMethods[p])
  BY DEF Opener, ResolveReq
<1>3. CASE minRole[p] = 4
  BY <1>1, <1>3
<1>4. CASE minRole[p] # 4
  <2>1. /\ p \notin catchError
        /\ restrictedMethods[p] = minRole[p] /\ minRole[p] \in {1, 2}
    BY <1>1, <1>4 DEF minRole, restrictedMethods, catchError, Admin, Developer, ReadOnly
  <2>2. Role[s.user] = 1 \/ Role[s.user] <= minRole[p]
    BY <1>2, <2>1 DEF consoleInterceptorFunc, Admin
  <2> QED
    BY <1>1, <2>1, <2>2
<1> QED
  BY <1>3, <1>4

\* The only resolver under way after a navigation starts is its own, for the page the
\* guard chose.
LEMMA GotoMakes ==
    ASSUME NEW p \in Pages, NEW s \in Tokens, NEW known, NEW f \in Counts,
           Goto(p, s, known, f)
    PROVE  /\ pending' \in Pages \cup {None}
           /\ pending' \in {None, PageviewGuard(p, s)}
           /\ inFlight' \in Counts
           /\ \A r \in Requests : r.kind \notin {"resolve", "config"} => inFlight'[r] = f[r]
           /\ \A r \in Requests : r.kind = "resolve" /\ inFlight'[r] > 0 =>
                 r = ResolveReq(s, known, PageviewGuard(p, s))
<1> DEFINE t == PageviewGuard(p, s)
           c == ConfigReq(s, known, "guard")
           a == Plus(Abort(f), c)
<1>1. t \in Pages
  BY GuardAdmits
<1>2. Abort(f) \in Counts
  BY AbortType
<1>3. /\ a \in Counts
      /\ \A q \in Requests : q.kind # "config" => a[q] = Abort(f)[q]
  <2>1. c \in Requests /\ c.kind = "config"
    BY ReqMade
  <2> HIDE DEF c
  <2> QED
    BY <1>2, <2>1, PlusType
<1>4. ResolveReq(s, known, t) \in Requests
  BY <1>1, ReqMade
<1>5. /\ Plus(a, ResolveReq(s, known, t)) \in Counts
      /\ \A q \in Requests : q # ResolveReq(s, known, t) =>
            Plus(a, ResolveReq(s, known, t))[q] = a[q]
  BY <1>3, <1>4, PlusType
<1>6. /\ ResolveReq(s, known, t).kind = "resolve"
      /\ ResolveReq(s, known, t).arg = t
  BY <1>1, ReqMade
<1>7. CASE t = page
  BY <1>2, <1>7, AbortType DEF Goto
<1>8. CASE t # page
  <2>1. pending' = t /\ inFlight' = Plus(a, ResolveReq(s, known, t))
    BY <1>8 DEF Goto
  <2> HIDE DEF t, c, a
  <2> QED
    BY <1>1, <1>3, <1>5, <1>6, <2>1, AbortType DEF t
<1> QED
  BY <1>7, <1>8

\* A page that opens may ask for the configuration; a resolver that fails leaves the
\* page or opens it all the same.
LEMMA OpensMakes ==
    ASSUME TypeOK, NEW p \in Pages, NEW f \in Counts, Opens(p, f) \/ Fails(p, f)
    PROVE  /\ TypeOK'
           /\ UNCHANGED <<session, stored, submitted>>
           /\ page' \in {p, page} /\ pending' = None
           /\ \A r \in Requests : r.kind # "config" => inFlight'[r] = f[r]
<1>1. CASE Opens(p, f)
  <2> DEFINE c == ConfigReq(session, live, "base")
  <2>1. session # Nobody => c \in Requests /\ c.kind = "config"
    BY ReqMade DEF TypeOK
  <2>2. inFlight' = f \/ (session # Nobody /\ inFlight' = Plus(f, c))
    BY <1>1 DEF Opens
  <2> HIDE DEF c
  <2>3. /\ inFlight' \in Counts
        /\ \A r \in Requests : r.kind # "config" => inFlight'[r] = f[r]
    BY <2>1, <2>2, PlusType
  <2> QED
    BY <1>1, <2>3 DEF Opens, TypeOK, Counts, browser, form, server
<1>2. CASE ~Opens(p, f)
  BY <1>2 DEF Fails, TypeOK, Counts, browser, form, server
<1> QED
  BY <1>1, <1>2

\* AuthenticationGuard lets a navigation start, or shows the login page.
LEMMA GuardMakes ==
    ASSUME TypeOK, NEW p \in Pages, AuthenticationGuard(p)
    PROVE  /\ page' \in {page, "login"} /\ pending' \in Pages \cup {None}
           /\ returnUrl' \in Pages /\ submitted' \in BOOLEAN
           /\ inFlight' \in Counts
  BY GotoMakes, AbortType DEF AuthenticationGuard, TypeOK, Counts

-----------------------------------------------------------------------------
(* Types.                                                                  *)

\* The types hold at the start ...
LEMMA InitType == Init => TypeOK
<1> SUFFICES ASSUME Init PROVE TypeOK
  OBVIOUS
<1>1. inFlight \in [Requests -> Nat]
  BY DEF Init, Nothing
<1>2. logins \in 0 .. MaxLogins
  BY ConsoleAssumption DEF Init
<1> QED
  BY <1>1, <1>2 DEF Init, TypeOK

\* What the user does.
LEMMA UserType ==
    ASSUME TypeOK,
           \/ \E p \in Pages : Navigate(p) \/ OpenUrl(p)
           \/ \E u \in Users : onSubmit(u)
           \/ Reload \/ Logout \/ Ask \/ PortalCall
    PROVE  TypeOK'
<1> USE DEF browser, router, form, server
<1>0. inFlight \in Counts /\ Nothing \in Counts
  BY DEF TypeOK, Counts, Nothing
<1>1. ASSUME NEW p \in Pages, Navigate(p) PROVE TypeOK'
  <2>1. session \in Tokens
    BY <1>1 DEF Navigate, TypeOK
  <2> QED
    BY <1>0, <1>1, <2>1, GotoMakes DEF Navigate, TypeOK, Counts
<1>2. ASSUME NEW p \in Pages, OpenUrl(p) PROVE TypeOK'
  BY <1>2, GuardMakes DEF OpenUrl, TypeOK, Counts
<1>3. ASSUME NEW u \in Users, onSubmit(u) PROVE TypeOK'
  <2>1. inFlight' \in Counts
    BY <1>0, <1>3, OtherMade, PlusType DEF onSubmit
  <2> QED
    BY <1>3, <2>1 DEF onSubmit, TypeOK, Counts
<1>4. CASE Reload
  <2>1. CASE stored = Nobody
    BY <1>0, <1>4, <2>1 DEF Reload, TypeOK, Counts
  <2>2. CASE stored # Nobody
    <3> DEFINE t == PageviewGuard(page, stored)
               c == ConfigReq(stored, live, "guard")
               q == ResolveReq(stored, live, t)
    <3>1. stored \in Tokens /\ page \in Pages
      BY <1>4, <2>2 DEF Reload, TypeOK
    <3>2. t \in Pages
      BY <3>1, GuardAdmits
    <3>3. c \in Requests /\ q \in Requests
      BY <3>1, <3>2, ReqMade
    <3>4. inFlight' = Plus(Plus(Nothing, c), q) /\ pending' = t
      BY <1>4, <2>2 DEF Reload
    <3> HIDE DEF t, c, q
    <3>5. inFlight' \in Counts
      BY <1>0, <3>3, <3>4, PlusType
    <3> QED
      BY <1>4, <2>2, <3>2, <3>4, <3>5 DEF Reload, TypeOK, Counts
  <2> QED
    BY <2>1, <2>2
<1>5. CASE Logout
  <2>1. session \in Tokens /\ Home \in Pages
    BY <1>5, ConsoleAssumption DEF Logout, TypeOK
  <2>2. logout(inFlight, "menu") \in Counts
    BY <1>0, LogoutType DEF TypeOK
  <2>3. Goto(Home, session, live, logout(inFlight, "menu"))
    BY <1>5 DEF Logout
  <2>4. pending' \in Pages \cup {None} /\ inFlight' \in Counts
    BY <2>1, <2>2, <2>3, GotoMakes
  <2> QED
    BY <1>5, <2>4 DEF Logout, TypeOK, Counts
<1>6. CASE Ask
  <2>1. ApiReq(session) \in Requests
    BY <1>6, ReqMade DEF Ask, TypeOK
  <2>2. inFlight' \in Counts
    BY <1>0, <1>6, <2>1, PlusType DEF Ask
  <2> QED
    BY <1>6, <2>2 DEF Ask, TypeOK, Counts
<1>7. CASE PortalCall
  <2>1. inFlight' \in Counts
    BY <1>0, <1>7, OtherMade, PlusType DEF PortalCall, TypeOK
  <2> QED
    BY <1>7, <2>1 DEF PortalCall, TypeOK, Counts
<1> QED
  BY <1>1, <1>2, <1>3, <1>4, <1>5, <1>6, <1>7
-----------------------------------------------------------------------------
(* The answers.                                                            *)

\* What an answer can change when it neither ends a session nor begins one: of the
\* requests that matter here, it only takes one away.
Calm == /\ UNCHANGED <<session, stored>> /\ pending' \in {pending, None}
        /\ \A r \in Requests : r.kind \in {"login", "resolve"} => inFlight'[r] <= inFlight[r]

\* The answers that leave the page and the form alone.
LEMMA QuietAnswer ==
    ASSUME TypeOK, NEW r \in Requests,
           \/ LogoutFailed(r) \/ Answered(r) \/ Configured(r) \/ ConfigFailed(r)
           \/ PortalAnswered(r) \/ PortalReplied(r)
           \/ Unauthorized(r) /\ r.kind # "resolve"
    PROVE  TypeOK' /\ Calm /\ UNCHANGED <<page, submitted>>
<1> DEFINE m == Minus(inFlight, r)
           h == [kind |-> "hubLogin"]
<1>1. inFlight[r] > 0 /\ inFlight \in Counts
  BY DEF LogoutFailed, Answered, Configured, ConfigFailed, PortalAnswered, PortalReplied,
         Unauthorized, TypeOK, Counts
<1>2. m \in Counts /\ \A q \in Requests : m[q] <= inFlight[q]
  <2>1. \A q \in Requests : inFlight[q] \in Nat
    BY <1>1 DEF Counts
  <2> QED
    BY <1>1, <2>1, MinusType
<1>3. h \in Requests /\ h.kind = "hubLogin"
  BY OtherMade
<1>4. /\ Plus(m, h) \in Counts
      /\ \A q \in Requests : q.kind # "hubLogin" => Plus(m, h)[q] = m[q]
  <2> HIDE DEF h, m
  <2> QED
    BY <1>2, <1>3, PlusType
<1>5. /\ logout(m, "401") \in Counts
      /\ \A q \in Requests : q.kind # "logout" => logout(m, "401")[q] = m[q]
  <2> HIDE DEF m
  <2> QED
    BY <1>2, LogoutType DEF TypeOK
<1>6. inFlight' = m \/ inFlight' = logout(m, "401") \/ inFlight' = Plus(m, h)
  BY DEF LogoutFailed, Answered, Configured, ConfigFailed, PortalAnswered, PortalReplied,
         Unauthorized
<1> HIDE DEF m, h
<1>7. /\ inFlight' \in Counts
      /\ \A q \in Requests : q.kind \in {"login", "resolve"} => inFlight'[q] <= inFlight[q]
  BY <1>2, <1>4, <1>5, <1>6
<1>8. /\ UNCHANGED <<session, stored, page, pending, returnUrl, submitted, live, logins>>
      /\ accessToken' \in BOOLEAN /\ host' \in {"default", "hub"}
  BY DEF LogoutFailed, Answered, Configured, ConfigFailed, PortalAnswered, PortalReplied,
         Unauthorized, browser, router, form, server, TypeOK
<1> QED
  BY <1>7, <1>8 DEF Calm, TypeOK, Counts

\* A resolver's answer, or its error, a 401 included.
LEMMA ResolverAnswer ==
    ASSUME TypeOK, NEW r \in Requests, r.kind = "resolve",
           Resolved(r) \/ ResolveFailed(r) \/ Unauthorized(r)
    PROVE  /\ TypeOK' /\ Calm /\ UNCHANGED submitted
           /\ inFlight[r] > 0
           /\ page' = page \/ (page' = r.arg /\ Opener(r))
<1> DEFINE m == Minus(inFlight, r)
<1>1. inFlight[r] > 0 /\ inFlight \in Counts
  BY DEF Resolved, ResolveFailed, Unauthorized, TypeOK, Counts
<1>2. m \in Counts /\ \A q \in Requests : m[q] <= inFlight[q]
  <2>1. \A q \in Requests : inFlight[q] \in Nat
    BY <1>1 DEF Counts
  <2> QED
    BY <1>1, <2>1, MinusType
<1>3. /\ logout(m, "401") \in Counts
      /\ \A q \in Requests : q.kind # "logout" => logout(m, "401")[q] = m[q]
  <2> HIDE DEF m
  <2> QED
    BY <1>2, LogoutType DEF TypeOK
<1>4. r.arg \in Pages
  BY ReqFields
<1>5. \/ r.ok /\ Opens(r.arg, m)
      \/ Fails(r.arg, m)
      \/ Fails(r.arg, logout(m, "401"))
  BY DEF Resolved, ResolveFailed, Unauthorized
<1> HIDE DEF m
<1>6. PICK f \in {m, logout(m, "401")} : (r.ok /\ Opens(r.arg, f)) \/ Fails(r.arg, f)
  BY <1>5
<1>7. f \in Counts /\ \A q \in Requests : q.kind # "logout" => f[q] <= inFlight[q]
  BY <1>2, <1>3, <1>6
<1>8. /\ TypeOK' /\ UNCHANGED <<session, stored, submitted>>
      /\ page' \in {r.arg, page} /\ pending' = None
      /\ \A q \in Requests : q.kind # "config" => inFlight'[q] = f[q]
  BY <1>4, <1>6, <1>7, OpensMakes
<1>9. page' = page \/ (page' = r.arg /\ Opener(r))
  <2>1. CASE r.ok
    BY <1>8, <2>1 DEF Opener
  <2>2. CASE ~r.ok
    BY <1>6, <1>8, <2>2 DEF Fails, Opener
  <2> QED
    BY <2>1, <2>2
<1> QED
  BY <1>1, <1>7, <1>8, <1>9 DEF Calm
\* A login that fails or is refused, on the console or on the portal.
LEMMA LoginAnswer ==
    ASSUME TypeOK, NEW r \in Requests, LoginFailed(r) \/ AuthRefused(r)
    PROVE  /\ TypeOK' /\ Calm /\ UNCHANGED page
           /\ inFlight[r] > 0
           /\ r.kind = "login" => ~submitted' /\ inFlight'[r] = inFlight[r] - 1
           /\ r.kind # "login" => submitted' = submitted
<1> DEFINE m == Minus(inFlight, r)
<1>1. inFlight[r] > 0 /\ inFlight \in Counts
  BY DEF LoginFailed, AuthRefused, TypeOK, Counts
<1>2. m \in Counts /\ (\A q \in Requests : m[q] <= inFlight[q]) /\ m[r] = inFlight[r] - 1
  <2>1. \A q \in Requests : inFlight[q] \in Nat
    BY <1>1 DEF Counts
  <2> QED
    BY <1>1, <2>1, MinusType
<1>3. /\ logout(m, "auth401") \in Counts
      /\ \A q \in Requests : q.kind # "logout" => logout(m, "auth401")[q] = m[q]
  <2> HIDE DEF m
  <2> QED
    BY <1>2, LogoutType DEF TypeOK
<1>4. inFlight' = m \/ inFlight' = logout(m, "auth401")
  BY DEF LoginFailed, AuthRefused
<1>5. /\ UNCHANGED <<session, stored, host, page, pending, returnUrl, live, logins>>
      /\ accessToken' \in BOOLEAN /\ submitted' \in BOOLEAN
      /\ r.kind \in {"login", "hubLogin"}
  BY DEF LoginFailed, AuthRefused, browser, router, server, TypeOK
<1>6. /\ r.kind = "login" => ~submitted'
      /\ r.kind # "login" => submitted' = submitted
  BY DEF LoginFailed, AuthRefused, TypeOK
<1> HIDE DEF m
<1>7. /\ inFlight' \in Counts
      /\ \A q \in Requests : q.kind # "logout" => inFlight'[q] = m[q]
  BY <1>2, <1>3, <1>4
<1> QED
  BY <1>1, <1>2, <1>5, <1>6, <1>7 DEF Calm, TypeOK, Counts

\* A login that succeeds: the new session's own navigation is all that is under way.
LEMMA LoginMakes ==
    ASSUME TypeOK, NEW r \in Requests, LoggedIn(r)
    PROVE  /\ TypeOK' /\ UNCHANGED page
           /\ session' \in Tokens /\ stored' = session'
           /\ r.kind = "login" /\ inFlight[r] > 0 /\ inFlight'[r] = inFlight[r] - 1
           /\ \A q \in Requests : q.kind = "login" /\ q # r => inFlight'[q] = inFlight[q]
           /\ pending' \in {None, PageviewGuard(returnUrl, session')}
           /\ \A q \in Requests : q.kind = "resolve" /\ inFlight'[q] > 0 =>
                 q = ResolveReq(session', live', PageviewGuard(returnUrl, session'))
<1> DEFINE m == Minus(inFlight, r)
<1>1. r.kind = "login" /\ inFlight[r] > 0 /\ inFlight \in Counts
  BY DEF LoggedIn, TypeOK, Counts
<1>2. /\ m \in Counts /\ m[r] = inFlight[r] - 1
      /\ \A q \in Requests : q # r => m[q] = inFlight[q]
  BY <1>1, MinusType
<1>3. logins + 1 \in 1 .. MaxLogins
  BY ConsoleAssumption DEF LoggedIn, TypeOK
<1>4. session' \in Tokens
  BY <1>1, <1>3, ReqFields DEF LoggedIn, Tokens
<1>5. /\ stored' = session' /\ live' = live \cup {session'} /\ logins' = logins + 1
      /\ submitted' = FALSE /\ UNCHANGED <<accessToken, host, page, returnUrl>>
  BY DEF LoggedIn
<1>6. Goto(returnUrl, session', live', m)
  BY DEF LoggedIn
<1> HIDE DEF m
<1>7. returnUrl \in Pages
  BY DEF TypeOK
<1>8. /\ pending' \in Pages \cup {None}
      /\ pending' \in {None, PageviewGuard(returnUrl, session')}
      /\ inFlight' \in Counts
      /\ \A q \in Requests : q.kind \notin {"resolve", "config"} => inFlight'[q] = m[q]
      /\ \A q \in Requests : q.kind = "resolve" /\ inFlight'[q] > 0 =>
            q = ResolveReq(session', live', PageviewGuard(returnUrl, session'))
  BY <1>2, <1>4, <1>6, <1>7, GotoMakes
<1>9. TypeOK'
  <2>1. logins' \in 0 .. MaxLogins
    BY <1>3, <1>5, ConsoleAssumption
  <2>2. live' \subseteq Tokens
    BY <1>4, <1>5 DEF TypeOK
  <2>3. submitted' \in BOOLEAN
    BY <1>5
  <2> QED
    BY <1>4, <1>5, <1>8, <2>1, <2>2, <2>3 DEF TypeOK, Counts
<1> QED
  BY <1>1, <1>2, <1>4, <1>5, <1>8, <1>9

\* A logout that is answered: nobody is there and no navigation is waiting.
LEMMA LogoutMakes ==
    ASSUME TypeOK, NEW r \in Requests, LoggedOut(r)
    PROVE  /\ TypeOK' /\ session' = Nobody /\ stored' = Nobody /\ page' = "login"
           /\ submitted' = (page = "login" /\ submitted)
           /\ \A q \in Requests : q.kind = "resolve" => inFlight'[q] = 0
           /\ \A q \in Requests : q.kind = "login" => inFlight'[q] = inFlight[q]
<1> DEFINE m == Minus(inFlight, r)
<1>1. r.kind = "logout" /\ inFlight[r] > 0 /\ inFlight \in Counts
  BY DEF LoggedOut, TypeOK, Counts
<1>2. m \in Counts /\ \A q \in Requests : q # r => m[q] = inFlight[q]
  BY <1>1, MinusType
<1>3. inFlight' = Abort(m)
  BY DEF LoggedOut
<1> HIDE DEF m
<1>4. /\ inFlight' \in Counts
      /\ \A q \in Requests : q.kind = "resolve" => inFlight'[q] = 0
      /\ \A q \in Requests : q.kind = "login" => inFlight'[q] = inFlight[q]
  BY <1>1, <1>2, <1>3, AbortType
<1>5. /\ session' = Nobody /\ stored' = Nobody /\ page' = "login"
      /\ submitted' = (page = "login" /\ submitted)
      /\ pending' = None /\ accessToken' = FALSE
      /\ live' \subseteq live /\ UNCHANGED <<host, logins>>
  BY DEF LoggedOut, Forget, ToLogin
<1>6. returnUrl' \in Pages
  BY ConsoleAssumption DEF LoggedOut, ToLogin, TypeOK
<1>7. submitted' \in BOOLEAN
  BY <1>5
<1> QED
  BY <1>4, <1>5, <1>6, <1>7 DEF TypeOK, Counts

\* ... and after every step.
LEMMA StepType ==
    ASSUME TypeOK, Next
    PROVE  TypeOK'
<1>1. ASSUME NEW t \in Tokens, Expire(t) PROVE TypeOK'
  BY <1>1 DEF Expire, TypeOK, browser, router, form
<1>2. ASSUME NEW r \in Requests, Resolved(r) \/ ResolveFailed(r) PROVE TypeOK'
  BY <1>2, ResolverAnswer DEF Resolved, ResolveFailed
<1>3. ASSUME NEW r \in Requests, Unauthorized(r) PROVE TypeOK'
  BY <1>3, ResolverAnswer, QuietAnswer
<1> QED
  BY <1>1, <1>2, <1>3, UserType, QuietAnswer, LoginAnswer, LoginMakes, LogoutMakes DEF Next

\* Every variable keeps its type whatever order requests, answers and reloads come
\* in, and no answer is counted that was not asked for.
THEOREM TypeCorrect == Spec => []TypeOK
<1>1. TypeOK /\ UNCHANGED vars => TypeOK'
  BY DEF TypeOK, vars
<1> QED
  BY <1>1, InitType, StepType, PTL DEF Spec
-----------------------------------------------------------------------------
(* Who sees what.                                                          *)

\* The browser and localStorage agree on the session; without one the login page is
\* shown and no resolver is left to open another.
SignedIn ==
    /\ stored = session
    /\ session = Nobody =>
          /\ page = "login"
          /\ \A r \in Requests : r.kind = "resolve" => inFlight[r] = 0

\* The login of a user who waits: it is the only one, the button is off, and there
\* is no session it could replace.
LoginAlone ==
    \A r \in Requests : r.kind = "login" /\ inFlight[r] > 0 =>
        /\ session = Nobody /\ submitted /\ inFlight[r] = 1
        /\ \A q \in Requests : q.kind = "login" /\ inFlight[q] > 0 => q = r

\* The role of the session fits the page, the page the guard let a navigation start
\* for, and every page a resolver is about to open.
MaySee(p) == p \in Pages => Role[session.user] <= minRole[p]
MayWait(p) == p \in DOMAIN restrictedPages => Role[session.user] <= restrictedPages[p]
RoleKept ==
    session # Nobody =>
        /\ MaySee(page)
        /\ MayWait(pending)
        /\ \A r \in Requests : Opener(r) /\ inFlight[r] > 0 => MaySee(r.arg)

\* None is no page of the guard's.
LEMMA NoneWaits == None \notin DOMAIN restrictedPages
  BY DEF None, restrictedPages

ConsoleInv ==
    /\ TypeOK
    /\ SignedIn
    /\ PatientUser => LoginAlone /\ RoleKept

\* An answer that neither begins nor ends a session and leaves the page, or opens one
\* whose resolver was under way, keeps the invariant; the form may only be cleared
\* when no login is left.
LEMMA CalmKeeps ==
    ASSUME ConsoleInv, TypeOK', Calm,
           \/ page' = page
           \/ \E r \in Requests : Opener(r) /\ inFlight[r] > 0 /\ page' = r.arg,
           \/ submitted' = submitted
           \/ \A r \in Requests : r.kind = "login" => inFlight'[r] = 0
    PROVE  ConsoleInv'
<1>1. \A r \in Requests : inFlight[r] \in Nat /\ inFlight'[r] \in Nat
  BY DEF ConsoleInv, TypeOK
<1>2. /\ UNCHANGED <<session, stored>> /\ pending' \in {pending, None}
      /\ \A r \in Requests : r.kind \in {"login", "resolve"} => inFlight'[r] <= inFlight[r]
  BY DEF Calm
<1>3. SignedIn'
  BY <1>1, <1>2 DEF ConsoleInv, SignedIn, Opener
<1>4. ASSUME LoginAlone PROVE LoginAlone'
  BY <1>1, <1>2, <1>4 DEF LoginAlone
<1>5. ASSUME RoleKept PROVE RoleKept'
  <2>1. session # Nobody => MaySee(page)'
    BY <1>2, <1>5 DEF MaySee, RoleKept
  <2>2. session # Nobody =>
           \A r \in Requests : Opener(r) /\ inFlight'[r] > 0 => MaySee(r.arg)'
    BY <1>1, <1>2, <1>5 DEF MaySee, RoleKept, Opener
  <2>3. session # Nobody => MayWait(pending)'
    BY <1>2, <1>5, NoneWaits DEF MayWait, RoleKept
  <2> QED
    BY <1>2, <2>1, <2>2, <2>3 DEF RoleKept
<1> QED
  BY <1>3, <1>4, <1>5 DEF ConsoleInv
\* A navigation of the current session keeps it, too: its resolver is the guard's.
LEMMA GotoKeeps ==
    ASSUME ConsoleInv, TypeOK', NEW p \in Pages, NEW f \in Counts, session # Nobody,
           Goto(p, session, live, f), UNCHANGED <<session, stored, page, submitted>>,
           \A r \in Requests : r.kind = "login" => f[r] = inFlight[r]
    PROVE  ConsoleInv'
<1>1. session \in Tokens
  BY DEF ConsoleInv, TypeOK
<1>2. /\ \A r \in Requests : r.kind = "login" => inFlight'[r] = inFlight[r]
      /\ pending' \in {None, PageviewGuard(p, session)}
      /\ \A r \in Requests : r.kind = "resolve" /\ inFlight'[r] > 0 =>
            r = ResolveReq(session, live, PageviewGuard(p, session))
  BY <1>1, GotoMakes
<1> DEFINE t == PageviewGuard(p, session)
<1>3. /\ t \in Pages /\ (t \in DOMAIN restrictedPages => Role[session.user] <= restrictedPages[t])
      /\ Opener(ResolveReq(session, live, t)) => Role[session.user] <= minRole[t]
      /\ ResolveReq(session, live, t).arg = t
  <2>1. t \in Pages /\ (t \in DOMAIN restrictedPages => Role[session.user] <= restrictedPages[t])
    BY <1>1, GuardAdmits
  <2> HIDE DEF t
  <2>2. Opener(ResolveReq(session, live, t)) => Role[session.user] <= minRole[t]
    BY <1>1, <2>1, ServerAdmits
  <2> QED
    BY <1>1, <2>1, <2>2, ReqMade
<1>4. SignedIn'
  BY DEF ConsoleInv, SignedIn
<1>5. ASSUME LoginAlone PROVE LoginAlone'
  BY <1>2, <1>5 DEF LoginAlone
<1>6. ASSUME RoleKept PROVE RoleKept'
  <2> HIDE DEF t
  <2>1. \A r \in Requests : Opener(r) /\ inFlight'[r] > 0 => r = ResolveReq(session, live, t)
    BY <1>2 DEF Opener, t
  <2>2. MaySee(page)' /\ (\A r \in Requests : Opener(r) /\ inFlight'[r] > 0 => MaySee(r.arg)')
    BY <1>3, <1>6, <2>1 DEF RoleKept, MaySee
  <2>3. MayWait(pending)'
    BY <1>2, <1>3, NoneWaits DEF MayWait, t
  <2> QED
    BY <2>2, <2>3 DEF RoleKept
<1> QED
  BY <1>4, <1>5, <1>6 DEF ConsoleInv

\* Pages are neither the login page nor the blank one.
LEMMA PagesApart == "login" \notin Pages /\ "blank" \notin Pages
  BY ConsoleAssumption DEF routes

\* What the user does keeps the invariant.
LEMMA UserKeeps ==
    ASSUME ConsoleInv, TypeOK',
           \/ \E p \in Pages : Navigate(p) \/ OpenUrl(p)
           \/ \E u \in Users : onSubmit(u)
           \/ Reload \/ Logout \/ Ask \/ PortalCall
    PROVE  ConsoleInv'
<1>0. inFlight \in Counts /\ TypeOK /\ Home \in Pages
  BY ConsoleAssumption DEF ConsoleInv, TypeOK, Counts
<1>1. ASSUME NEW p \in Pages, Navigate(p) PROVE ConsoleInv'
  BY <1>0, <1>1, GotoKeeps DEF Navigate, browser, form
<1>2. ASSUME NEW p \in Pages, OpenUrl(p) PROVE ConsoleInv'
  <2>1. CASE session # Nobody
    BY <1>0, <1>2, <2>1, GotoKeeps DEF OpenUrl, AuthenticationGuard, browser
  <2>2. CASE session = Nobody
    <3>1. page = "login"
      BY <2>2 DEF ConsoleInv, SignedIn
    <3>2. /\ page' = "login" /\ pending' = None
          /\ UNCHANGED <<session, stored>> /\ inFlight' = Abort(inFlight)
          /\ submitted' = (page = "login" /\ submitted)
      BY <1>2, <2>2 DEF OpenUrl, AuthenticationGuard, browser
    <3>3. submitted' = submitted
      BY <1>0, <3>1, <3>2 DEF TypeOK
    <3>4. \A r \in Requests : inFlight'[r] <= inFlight[r]
      <4>1. \A r \in Requests : inFlight[r] \in Nat
        BY <1>0 DEF Counts
      <4> QED
        BY <1>0, <3>2, <4>1, AbortType
    <3> QED
      BY <3>1, <3>2, <3>3, <3>4, CalmKeeps DEF Calm
  <2> QED
    BY <2>1, <2>2
<1>3. ASSUME NEW u \in Users, onSubmit(u) PROVE ConsoleInv'
  <2> DEFINE l == [kind |-> "login", arg |-> u]
  <2>1. /\ l \in Requests /\ l.kind = "login" /\ inFlight' = Plus(inFlight, l)
        /\ UNCHANGED <<session, stored, page>> /\ ~submitted /\ submitted'
        /\ PatientUser => session = Nobody
    BY <1>3, OtherMade DEF onSubmit, browser, router
  <2> HIDE DEF l
  <2>2. \A q \in Requests : inFlight'[q] = IF q = l THEN inFlight[q] + 1 ELSE inFlight[q]
    BY <1>0, <2>1, PlusType
  <2>3. SignedIn'
    BY <2>1, <2>2 DEF ConsoleInv, SignedIn
  <2>4. ASSUME PatientUser, LoginAlone PROVE LoginAlone'
    <3>1. \A q \in Requests : q.kind = "login" => inFlight[q] = 0
      BY <1>0, <2>1, <2>4 DEF LoginAlone, Counts
    <3> QED
      BY <2>1, <2>2, <2>4, <3>1 DEF LoginAlone
  <2>5. PatientUser => RoleKept'
    BY <2>1 DEF RoleKept
  <2> QED
    BY <2>3, <2>4, <2>5 DEF ConsoleInv
<1>4. CASE Reload
  <2>1. /\ session # Nobody /\ stored = session /\ page \in Pages
        /\ UNCHANGED <<session, stored>>
    BY <1>4, PagesApart DEF Reload, ConsoleInv, SignedIn
  <2>2. stored \in Tokens
    BY <1>0, <2>1 DEF TypeOK
  <2> DEFINE t == PageviewGuard(page, stored)
             c == ConfigReq(stored, live, "guard")
             q == ResolveReq(stored, live, t)
  <2>3. /\ t \in Pages
        /\ t \in DOMAIN restrictedPages => Role[session.user] <= restrictedPages[t]
        /\ Opener(q) => Role[session.user] <= minRole[t]
    BY <2>1, <2>2, GuardAdmits, ServerAdmits
  <2>4. /\ c \in Requests /\ c.kind = "config"
        /\ q \in Requests /\ q.kind = "resolve" /\ q.arg = t
    BY <2>2, <2>3, ReqMade
  <2>5. inFlight' = Plus(Plus(Nothing, c), q) /\ page' = "blank" /\ pending' = t
    BY <1>4, <2>1 DEF Reload
  <2>6. Nothing \in Counts /\ \A r \in Requests : Nothing[r] = 0
    BY DEF Nothing, Counts
  <2>7. "blank" \notin Pages
    BY PagesApart
  <2> HIDE DEF t, c, q
  <2>8. /\ Plus(Nothing, c) \in Counts
        /\ \A r \in Requests : r.kind # "config" => Plus(Nothing, c)[r] = 0
    BY <2>4, <2>6, PlusType
  <2>9. \A r \in Requests : r.kind \in {"login", "resolve"} /\ r # q => inFlight'[r] = 0
    BY <2>4, <2>5, <2>8, PlusType
  <2>10. SignedIn'
    BY <2>1 DEF SignedIn
  <2>11. LoginAlone'
    BY <2>4, <2>9 DEF LoginAlone
  <2>12. RoleKept'
    <3>1. \A r \in Requests : Opener(r) /\ inFlight'[r] > 0 => r = q
      BY <2>9 DEF Opener
    <3> QED
      BY <2>1, <2>3, <2>4, <2>5, <2>7, <3>1 DEF RoleKept, MaySee, MayWait
  <2> QED
    BY <2>10, <2>11, <2>12 DEF ConsoleInv
<1>5. CASE Logout
  <2>1. /\ logout(inFlight, "menu") \in Counts
        /\ \A r \in Requests : r.kind # "logout" => logout(inFlight, "menu")[r] = inFlight[r]
    BY <1>0, LogoutType DEF TypeOK
  <2>2. /\ session # Nobody /\ Goto(Home, session, live, logout(inFlight, "menu"))
        /\ UNCHANGED <<session, stored, page, submitted>>
    BY <1>5 DEF Logout, browser, form
  <2> QED
    BY <1>0, <2>1, <2>2, GotoKeeps
<1>6. CASE Ask
  <2>1. session \in Tokens
    BY <1>0, <1>6 DEF Ask, TypeOK
  <2>2. ApiReq(session) \in Requests /\ ApiReq(session).kind = "api"
    BY <2>1, ReqMade
  <2>3. \A r \in Requests : r.kind # "api" => inFlight'[r] = inFlight[r]
    BY <1>0, <1>6, <2>2, PlusType DEF Ask
  <2>4. Calm /\ UNCHANGED <<page, submitted>>
    BY <1>0, <1>6, <2>3 DEF Calm, Ask, Counts, browser, router, form
  <2> QED
    BY <2>4, CalmKeeps
<1>7. CASE PortalCall
  <2> DEFINE h == [kind |-> "hub", arg |-> host]
  <2>1. h \in Requests /\ h.kind = "hub" /\ inFlight' = Plus(inFlight, h)
    BY <1>0, <1>7, OtherMade DEF PortalCall, TypeOK
  <2> HIDE DEF h
  <2>2. \A r \in Requests : r.kind # "hub" => inFlight'[r] = inFlight[r]
    BY <1>0, <2>1, PlusType
  <2>3. Calm /\ UNCHANGED <<page, submitted>>
    BY <1>0, <1>7, <2>2 DEF Calm, PortalCall, Counts, browser, router, form
  <2> QED
    BY <2>3, CalmKeeps
<1> QED
  BY <1>1, <1>2, <1>3, <1>4, <1>5, <1>6, <1>7
\* Every answer, whenever it comes, keeps the invariant.
LEMMA AnswerKeeps ==
    ASSUME ConsoleInv, TypeOK', NEW r \in Requests,
           \/ Resolved(r) \/ ResolveFailed(r)
           \/ LoggedIn(r) \/ LoginFailed(r) \/ AuthRefused(r)
           \/ LoggedOut(r) \/ LogoutFailed(r)
           \/ Answered(r) \/ Unauthorized(r)
           \/ Configured(r) \/ ConfigFailed(r)
           \/ PortalAnswered(r) \/ PortalReplied(r)
    PROVE  ConsoleInv'
<1>0. TypeOK /\ \A q \in Requests : inFlight[q] \in Nat /\ inFlight'[q] \in Nat
  BY DEF ConsoleInv, TypeOK
<1>1. CASE r.kind = "resolve" /\ (Resolved(r) \/ ResolveFailed(r) \/ Unauthorized(r))
  BY <1>0, <1>1, ResolverAnswer, CalmKeeps
<1>2. CASE \/ LogoutFailed(r) \/ Answered(r) \/ Configured(r) \/ ConfigFailed(r)
           \/ PortalAnswered(r) \/ PortalReplied(r)
           \/ Unauthorized(r) /\ r.kind # "resolve"
  BY <1>0, <1>2, QuietAnswer, CalmKeeps
<1>3. CASE LoginFailed(r) \/ AuthRefused(r)
  <2>1. /\ Calm /\ UNCHANGED page /\ inFlight[r] > 0
        /\ r.kind = "login" => ~submitted' /\ inFlight'[r] = inFlight[r] - 1
        /\ r.kind # "login" => submitted' = submitted
    BY <1>0, <1>3, LoginAnswer
  <2>2. SignedIn'
    BY <1>0, <2>1 DEF ConsoleInv, SignedIn, Calm
  <2>3. CASE r.kind # "login" \/ ~PatientUser
    <3>1. CASE r.kind # "login"
      BY <2>1, <3>1, CalmKeeps
    <3>2. CASE ~PatientUser
      BY <2>2, <3>2 DEF ConsoleInv
    <3> QED
      BY <2>3, <3>1, <3>2
  <2>4. CASE r.kind = "login" /\ PatientUser
    <3>1. LoginAlone
      BY <2>4 DEF ConsoleInv
    <3>2. \A q \in Requests : q.kind = "login" => inFlight'[q] = 0
      BY <1>0, <2>1, <2>4, <3>1 DEF LoginAlone, Calm
    <3> QED
      BY <2>1, <3>2, CalmKeeps
  <2> QED
    BY <2>3, <2>4
<1>4. CASE LoggedIn(r)
  <2>1. /\ UNCHANGED page /\ session' \in Tokens /\ stored' = session'
        /\ r.kind = "login" /\ inFlight[r] > 0 /\ inFlight'[r] = inFlight[r] - 1
        /\ \A q \in Requests : q.kind = "login" /\ q # r => inFlight'[q] = inFlight[q]
        /\ pending' \in {None, PageviewGuard(returnUrl, session')}
        /\ \A q \in Requests : q.kind = "resolve" /\ inFlight'[q] > 0 =>
              q = ResolveReq(session', live', PageviewGuard(returnUrl, session'))
    BY <1>0, <1>4, LoginMakes
  <2>2. session' # Nobody
    BY <2>1 DEF Tokens, Nobody
  <2>3. SignedIn'
    BY <2>1, <2>2 DEF SignedIn
  <2>4. ASSUME PatientUser PROVE LoginAlone' /\ RoleKept'
    <3>1. LoginAlone /\ SignedIn
      BY <2>4 DEF ConsoleInv
    <3>2. \A q \in Requests : q.kind = "login" => inFlight'[q] = 0
      BY <1>0, <2>1, <3>1 DEF LoginAlone
    <3>3. page = "login" /\ "login" \notin Pages
      BY <2>1, <3>1, PagesApart DEF LoginAlone, SignedIn
    <3>4. returnUrl \in Pages
      BY <1>0 DEF TypeOK
    <3> DEFINE t == PageviewGuard(returnUrl, session')
               o == ResolveReq(session', live', t)
    <3>5. /\ t \in DOMAIN restrictedPages => Role[session'.user] <= restrictedPages[t]
          /\ Opener(o) => Role[session'.user] <= minRole[t]
          /\ o.arg = t
      <4>1. t \in Pages /\ (t \in DOMAIN restrictedPages =>
                                Role[session'.user] <= restrictedPages[t])
        BY <2>1, <3>4, GuardAdmits
      <4> HIDE DEF t
      <4>2. Opener(o) => Role[session'.user] <= minRole[t]
        BY <2>1, <4>1, ServerAdmits
      <4> QED
        BY <2>1, <4>1, <4>2, ReqMade
    <3>6. RoleKept'
      <4> HIDE DEF o
      <4>1. \A q \in Requests : Opener(q) /\ inFlight'[q] > 0 => q = o
        BY <2>1 DEF Opener, o
      <4>2. MayWait(pending)'
        BY <2>1, <3>5, NoneWaits DEF MayWait
      <4> QED
        BY <2>1, <3>3, <3>5, <4>1, <4>2 DEF RoleKept, MaySee
    <3> QED
      BY <3>2, <3>6 DEF LoginAlone
  <2> QED
    BY <2>3, <2>4 DEF ConsoleInv
<1>5. CASE LoggedOut(r)
  <2>1. /\ session' = Nobody /\ stored' = Nobody /\ page' = "login"
        /\ submitted' = (page = "login" /\ submitted)
        /\ \A q \in Requests : q.kind = "resolve" => inFlight'[q] = 0
        /\ \A q \in Requests : q.kind = "login" => inFlight'[q] = inFlight[q]
    BY <1>0, <1>5, LogoutMakes
  <2>2. SignedIn' /\ RoleKept'
    BY <2>1 DEF SignedIn, RoleKept
  <2>3. ASSUME LoginAlone PROVE LoginAlone'
    <3> SUFFICES ASSUME NEW q \in Requests, q.kind = "login", inFlight'[q] > 0
                 PROVE  submitted'
      BY <2>1, <2>3 DEF LoginAlone
    <3>1. session = Nobody /\ submitted
      BY <2>1, <2>3 DEF LoginAlone
    <3>2. page = "login"
      BY <3>1 DEF ConsoleInv, SignedIn
    <3> QED
      BY <2>1, <3>1, <3>2
  <2> QED
    BY <2>2, <2>3 DEF ConsoleInv
<1> QED
  BY <1>1, <1>2, <1>3, <1>4, <1>5 DEF Resolved, ResolveFailed

\* The invariant holds at the start ...
LEMMA InitInv == Init => ConsoleInv
<1> SUFFICES ASSUME Init PROVE ConsoleInv
  OBVIOUS
<1>1. \A r \in Requests : inFlight[r] = 0
  BY DEF Init, Nothing
<1>2. SignedIn /\ LoginAlone /\ RoleKept
  BY <1>1 DEF Init, SignedIn, LoginAlone, RoleKept
<1> QED
  BY <1>2, InitType DEF ConsoleInv

\* ... after every step ...
LEMMA StepInv ==
    ASSUME ConsoleInv, Next
    PROVE  ConsoleInv'
<1>1. TypeOK'
  BY StepType DEF ConsoleInv
<1>2. ASSUME NEW t \in Tokens, Expire(t) PROVE ConsoleInv'
  <2>1. \A r \in Requests : inFlight'[r] \in Nat /\ inFlight'[r] = inFlight[r]
    BY <1>1, <1>2 DEF Expire, TypeOK
  <2>2. Calm /\ UNCHANGED <<page, submitted>>
    BY <1>2, <2>1 DEF Expire, browser, router, form, Calm
  <2> QED
    BY <1>1, <2>2, CalmKeeps
<1> QED
  BY <1>1, <1>2, UserKeeps, AnswerKeeps DEF Next

\* ... and so always.
LEMMA Invariance == Spec => []ConsoleInv
<1>1. ConsoleInv /\ UNCHANGED vars => ConsoleInv'
  BY DEF ConsoleInv, TypeOK, SignedIn, LoginAlone, RoleKept, MaySee, MayWait, vars
<1> QED
  BY <1>1, InitInv, StepInv, PTL DEF Spec

\* However late the answers to logouts, logins, resolvers and refused requests come,
\* a page behind AuthenticationGuard is only shown while there is a session, and
\* localStorage holds the same one.
THEOREM SignedIsShown == Spec => []SignedInToSee
<1>1. ConsoleInv => SignedInToSee
  BY PagesApart DEF ConsoleInv, SignedIn, SignedInToSee
<1> QED
  BY <1>1, Invariance, PTL

\* When the user leaves the login form alone while a login is under way, whoever sees
\* a page has the role the side bar asks for it, for every assignment of roles: what
\* PageviewGuard has no entry for, the server refuses to the resolver.
THEOREM RoleIsEnforced == PatientUser => (Spec => []RoleFitsPage)
<1> SUFFICES ASSUME PatientUser PROVE Spec => []RoleFitsPage
  OBVIOUS
<1>1. ConsoleInv => RoleFitsPage
  BY DEF ConsoleInv, RoleKept, MaySee, MayWait, RoleFitsPage
<1> QED
  BY <1>1, Invariance, PTL
=============================================================================
