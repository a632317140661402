----------------------------- MODULE AuthSession -----------------------------
(***************************************************************************)
(* Sign-in, session and sign-out of one browser profile.                   *)
(*                                                                         *)
(* Cloud is the OAuth authority and keeps the sessions; Local's handlers   *)
(* in src/api_handlers.py and src/authentication turn a one-time handoff   *)
(* code into cookies, ask Cloud about the session on every request, and    *)
(* ask it to delete the session at logout.  All tabs of the browser share  *)
(* one cookie jar, and a sign-in can be under way in several of them.      *)
(*                                                                         *)
(* A sign-in of kind desktop was started by the desktop application in     *)
(* the system browser: its callback must end at the application's loopback *)
(* server, and one cookie (desktop_login_port) tells the callback so.      *)
(*                                                                         *)
(* Time is counted in ticks, the interval of the pages' session refresh.   *)
(***************************************************************************)
EXTENDS Naturals, FiniteSets

CONSTANTS
    Sessions,       \* session ids Cloud can hand out
    Logins,         \* sign-ins the browser can have under way
    None,           \* "no session", outside Sessions
    Ttl,            \* ticks without a request after which Cloud drops a session
    CookieLife,     \* ticks after which the browser drops the session cookie
    MaxFail         \* bound on the calls to Cloud that fail or lose their answer

ASSUME NoneAssumption == None \notin Sessions

ASSUME LoginsAssumption == IsFiniteSet(Logins)

ASSUME TimesAssumption == Ttl \in Nat \ {0} /\ CookieLife \in Nat \ {0} /\ MaxFail \in Nat

VARIABLES
    session,    \* Cloud's sessions: state, and the ticks since they were extended
    jar,        \* the browser's cookies
    login,      \* the sign-ins under way
    logout,     \* the session whose logout has reached Cloud but not answered
    landing,    \* history: how the last sign-in ended
    stale,      \* history: a sign-in ended and may have left its port cookie
    signedOut,  \* history: sessions whose logout answered 200
    faults      \* what is left of MaxFail

vars == <<session, jar, login, logout, landing, stale, signedOut, faults>>

Kinds == {"web", "desktop"}

\* offered: its handoff code has not been redeemed.
States == {"unborn", "offered", "live", "expired", "revoked"}

\* The csrf_token cookie is set, expires and is cleared with the session
\* cookie, so one field stands for both.
Jars == [session : Sessions \cup {None}, age : 0 .. CookieLife, port : BOOLEAN]

NoLogin == [kind |-> "web", at |-> "idle", s |-> None, clean |-> TRUE]

SignIns == [kind : Kinds, at : {"idle", "provider", "code", "bootstrap"},
            s : Sessions \cup {None}, clean : BOOLEAN]

Landings == [kind : Kinds, dest : {"none", "home", "loopback", "error"}, clean : BOOLEAN]

TypeOK ==
    /\ session \in [Sessions -> [state : States, idle : 0 .. Ttl]]
    /\ jar \in Jars
    /\ login \in [Logins -> SignIns]
    /\ logout \in Sessions \cup {None}
    /\ landing \in Landings
    /\ stale \in BOOLEAN
    /\ signedOut \in SUBSET Sessions
    /\ faults \in 0 .. MaxFail

Init ==
    /\ session = [s \in Sessions |-> [state |-> "unborn", idle |-> 0]]
    /\ jar = [session |-> None, age |-> 0, port |-> FALSE]
    /\ login = [l \in Logins |-> NoLogin]
    /\ logout = None
    /\ landing = [kind |-> "web", dest |-> "none", clean |-> TRUE]
    /\ stale = FALSE
    /\ signedOut = {}
    /\ faults = MaxFail

-----------------------------------------------------------------------------
(* Sessions.                                                               *)

Fault == faults > 0 /\ faults' = faults - 1

IsLive(s) == s # None /\ session[s].state = "live"

SetState(s, state) == session' = [session EXCEPT ![s] = [state |-> state, idle |-> 0]]

\* POST /auth/sessions/validate answers, and extends a session that is live.
Extended == session' = [session EXCEPT ![jar.session].idle = 0]

\* authenticate_session lets a request in.
Admitted ==
    /\ IsLive(jar.session)
    /\ Extended
    /\ UNCHANGED <<jar, login, logout, landing, stale, signedOut, faults>>

\* authenticate_session answers 302 to /login, and auth_refresh 401: there is
\* no cookie, its session is not valid, or the call to Cloud failed, which
\* validate_session reports as an invalid session.
Refused ==
    /\ \/ ~IsLive(jar.session) /\ UNCHANGED faults
       \/ IsLive(jar.session) /\ Fault
    /\ UNCHANGED <<session, jar, login, logout, landing, stale, signedOut>>

\* What a tick does to a session.  A handoff code lives much less than one.
Aged(s) ==
    LET w == session[s]
    IN  CASE w.state = "offered" -> [w EXCEPT !.state = "expired"]
          [] w.state = "live" -> IF w.idle + 1 < Ttl
                                 THEN [w EXCEPT !.idle = @ + 1]
                                 ELSE [state |-> "expired", idle |-> Ttl]
          [] OTHER -> w

-----------------------------------------------------------------------------
(* Variants of operators below, each with one plausible bug: not part of   *)
(* the specification.                                                      *)

\* LandsAsStarted: the port cookie is left to expire.
EndKeepingPort(l, dest) ==
    /\ login' = [login EXCEPT ![l] = NoLogin]
    /\ landing' = [kind |-> login[l].kind, dest |-> dest, clean |-> login[l].clean]
    /\ jar' = [session |-> login[l].s, age |-> 0, port |-> jar.port]
    /\ stale' = FALSE

\* ImplementsSessionLife: the cookie is set before the code is redeemed.
RedeemAfterCookie(l) ==
    /\ login[l].at = "code"
    /\ jar' = [session |-> login[l].s, age |-> 0, port |-> FALSE]
    /\ UNCHANGED <<session, login, logout, landing, stale, signedOut, faults>>

\* SignedOutIsOver: the handler does not read the session to pass it along,
\* and only clears the cookies.
LogoutOfCookiesOnly ==
    /\ jar.session # None /\ logout = None
    /\ logout' = jar.session
    /\ UNCHANGED <<session, jar, login, landing, stale, signedOut, faults>>

\* TypeOK: the session cookie is set without a max_age.
TickKeepingCookie ==
    /\ logout = None /\ \A l \in Logins : login[l].at # "bootstrap"
    /\ session' = [s \in Sessions |-> Aged(s)]
    /\ jar' = [jar EXCEPT !.age = IF jar.session = None THEN 0 ELSE @ + 1]
    /\ UNCHANGED <<login, logout, landing, stale, signedOut, faults>>

-----------------------------------------------------------------------------
(* Time.                                                                   *)

\* The life of the cookie is counted from the sign-in: no answer sets it again.
\* A handler waits much less than a tick for Cloud.
Tick ==
    /\ logout = None /\ \A l \in Logins : login[l].at # "bootstrap"
    /\ session' = [s \in Sessions |-> Aged(s)]
    /\ jar' = IF jar.session = None \/ jar.age + 1 < CookieLife
              THEN [jar EXCEPT !.age = IF jar.session = None THEN 0 ELSE @ + 1]
              ELSE [jar EXCEPT !.session = None, !.age = 0]
    /\ UNCHANGED <<login, logout, landing, stale, signedOut, faults>>

-----------------------------------------------------------------------------
(* Signing in.                                                             *)

InFlight(l) == login[l].at # "idle"

\* desktop_login_port is set by auth_provider_redirect for a desktop sign-in
\* and left alone by any other.
PortAfter(kind) == kind = "desktop" \/ jar.port

\* GET /auth/{provider}.  A sign-in is clean if no other is under way with it
\* and none before it may have left its port cookie behind.
Start(l, kind) ==
    /\ ~InFlight(l)
    /\ jar' = [jar EXCEPT !.port = PortAfter(kind)]
    /\ LET alone == \A k \in Logins : ~InFlight(k)
       IN  login' = [k \in Logins |->
                       IF k = l
                       THEN [kind |-> kind, at |-> "provider", s |-> None,
                             clean |-> alone /\ (kind = "desktop" \/ ~stale)]
                       ELSE [login[k] EXCEPT !.clean = @ /\ ~InFlight(k)]]
    /\ UNCHANGED <<session, logout, landing, stale, signedOut, faults>>

\* Cloud finishes OAuth, creates the session and sends the browser to
\* /auth/callback with a handoff code for it.
Authorized(l) ==
    /\ login[l].at = "provider"
    /\ \E s \in Sessions :
          /\ session[s].state = "unborn"
          /\ SetState(s, "offered")
          /\ login' = [login EXCEPT ![l].at = "code", ![l].s = s]
    /\ UNCHANGED <<jar, logout, landing, stale, signedOut, faults>>

\* A sign-in ends.
End(l, dest) ==
    /\ login' = [login EXCEPT ![l] = NoLogin]
    /\ landing' = [kind |-> login[l].kind, dest |-> dest, clean |-> login[l].clean]

LeavesPort(l) == stale' = (stale \/ login[l].kind = "desktop")

\* It ends in an error, which leaves the cookies as they were.
EndInError(l) == End(l, "error") /\ LeavesPort(l) /\ UNCHANGED jar

\* The answer sets the session cookies and deletes the port cookie it found.
EndSignedIn(l, dest) ==
    /\ End(l, dest)
    /\ jar' = [session |-> login[l].s, age |-> 0, port |-> FALSE]
    /\ stale' = FALSE

\* auth_callback without a code: the user refused, or the provider failed.
NoCode(l) ==
    /\ login[l].at = "provider"
    /\ EndInError(l)
    /\ UNCHANGED <<session, logout, signedOut, faults>>

\* The user closes the tab at the provider's page.
Abandon(l) ==
    /\ login[l].at = "provider"
    /\ login' = [login EXCEPT ![l] = NoLogin]
    /\ LeavesPort(l)
    /\ UNCHANGED <<session, jar, logout, landing, signedOut, faults>>

\* auth_callback redeems the code.  Whether this is a desktop sign-in is read
\* from the cookies of the request.
Redeem(l) ==
    /\ login[l].at = "code"
    /\ session[login[l].s].state = "offered"
    /\ SetState(login[l].s, "live")
    /\ IF jar.port
       THEN login' = [login EXCEPT ![l].at = "bootstrap"] /\ UNCHANGED <<jar, landing, stale>>
       ELSE EndSignedIn(l, "home")
    /\ UNCHANGED <<logout, signedOut, faults>>

\* The code has expired, or the call fails, before or after it took effect.
RedeemFails(l) ==
    /\ login[l].at = "code"
    /\ EndInError(l)
    /\ \/ session[login[l].s].state # "offered" /\ UNCHANGED <<session, faults>>
       \/ /\ session[login[l].s].state = "offered"
          /\ SetState(login[l].s, "live") \/ UNCHANGED session
          /\ Fault
    /\ UNCHANGED <<logout, signedOut>>

\* A device bootstrap code is made for the application; when that fails the
\* browser is signed in all the same.
Bootstrap(l) ==
    /\ login[l].at = "bootstrap"
    /\ \/ EndSignedIn(l, "loopback") /\ UNCHANGED faults
       \/ EndSignedIn(l, "error") /\ Fault
    /\ UNCHANGED <<session, logout, signedOut>>

\* The port cookie lives 300 s.
PortExpires ==
    /\ jar.port
    /\ jar' = [jar EXCEPT !.port = FALSE]
    /\ stale' = FALSE
    /\ login' = [k \in Logins |-> [login[k] EXCEPT !.clean = @ /\ ~InFlight(k)]]
    /\ UNCHANGED <<session, logout, landing, signedOut, faults>>

-----------------------------------------------------------------------------
(* Signing out.                                                            *)

\* The pages echo the csrf_token cookie in a header: the check passes if the
\* cookie is there.
CsrfOk == jar.session # None

\* logout has Cloud delete the session of the request's cookie.
LogoutRevokes ==
    /\ CsrfOk /\ logout = None
    /\ SetState(jar.session, "revoked")
    /\ logout' = jar.session
    /\ UNCHANGED <<jar, login, landing, stale, signedOut, faults>>

\* It answers 200 and clears the cookies, whichever session they name by now.
LogoutAnswers ==
    /\ logout # None
    /\ jar' = [jar EXCEPT !.session = None, !.age = 0]
    /\ signedOut' = signedOut \cup {logout}
    /\ logout' = None
    /\ UNCHANGED <<session, login, landing, stale, faults>>

\* 403 without the CSRF cookie; 500 when Cloud's call fails, before or after
\* it took effect.  The cookies stay.
LogoutFails ==
    /\ logout = None
    /\ \/ ~CsrfOk /\ UNCHANGED <<session, faults>>
       \/ /\ CsrfOk /\ Fault
          /\ SetState(jar.session, "revoked") \/ UNCHANGED session
    /\ UNCHANGED <<jar, login, logout, landing, stale, signedOut>>

\* Cloud ends a session of its own accord.
Revoked(s) ==
    /\ IsLive(s)
    /\ SetState(s, "revoked")
    /\ UNCHANGED <<jar, login, logout, landing, stale, signedOut, faults>>

-----------------------------------------------------------------------------
SignInStep(l) ==
    \/ \E kind \in Kinds : Start(l, kind)
    \/ Authorized(l) \/ NoCode(l) \/ Abandon(l) \/ Redeem(l) \/ RedeemFails(l)
    \/ Bootstrap(l)

Next ==
    \/ \E l \in Logins : SignInStep(l)
    \/ \E s \in Sessions : Revoked(s)
    \/ Admitted \/ Refused \/ PortExpires \/ Tick
    \/ LogoutRevokes \/ LogoutAnswers \/ LogoutFails

Spec == Init /\ [][Next]_vars

-----------------------------------------------------------------------------
(* What all this is to a page.                                             *)

View ==
    [signed |-> IF jar.session = None THEN "out"
                ELSE IF IsLive(jar.session) THEN "in" ELSE "over",
     idle |-> IF jar.session = None THEN 0 ELSE session[jar.session].idle,
     offers |-> Cardinality({l \in Logins : login[l].at \in {"code", "bootstrap"}})]

S == INSTANCE SessionLife WITH access <- View

\* A page's session only ever starts fresh, is extended by a request or wears
\* off tick by tick, and is back only by a sign-in that Cloud has offered, each
\* offer used once: no lost answer, second sign-in or late logout revives it.
ImplementsSessionLife == S!SessionSpec

-----------------------------------------------------------------------------
(* Safety.                                                                 *)

\* A sign-in ends as it was started, a desktop one at the application and an
\* ordinary one at the home page, unless another was under way with it, an
\* earlier desktop one left its cookie behind, or the cookie had expired.
LandsAsStarted ==
    landing.clean /\ landing.dest \in {"home", "loopback"} =>
        (landing.kind = "desktop" <=> landing.dest = "loopback")

\* A logout that answered 200 has ended its session at Cloud: the cookies are
\* never cleared over a session that goes on, and no later sign-in, refresh
\* or lost answer brings it back.
SignedOutIsOver == \A s \in signedOut : ~IsLive(s)
=============================================================================
