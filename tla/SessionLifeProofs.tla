-------------------------- MODULE SessionLifeProofs --------------------------
(***************************************************************************)
(* AuthSession implements SessionLife: what a page sees of its session,    *)
(* View, goes through nothing but the life of a session, whatever sign-ins *)
(* and logouts overlap and whichever calls fail.                           *)
(*                                                                         *)
(* The step simulation works with the three fields of View.  It needs IInv *)
(* for the one case that is not obvious: a sign-in that redeems its code   *)
(* or loses the answer makes a session live, and that session is not the   *)
(* one in the browser's cookie (OneHolder).                                *)
(***************************************************************************)
EXTENDS AuthSessionProofs

-----------------------------------------------------------------------------
(* View, by its fields.                                                    *)

SignedOf(sessions, cookies) ==
    IF cookies.session = None THEN "out"
    ELSE IF sessions[cookies.session].state = "live" THEN "in" ELSE "over"

IdleOf(sessions, cookies) ==
    IF cookies.session = None THEN 0 ELSE sessions[cookies.session].idle

HoldersOf(signIns) == {l \in Logins : signIns[l].at \in {"code", "bootstrap"}}

OffersOf(signIns) == Cardinality(HoldersOf(signIns))

ViewOf(sessions, cookies, signIns) ==
    [signed |-> SignedOf(sessions, cookies), idle |-> IdleOf(sessions, cookies),
     offers |-> OffersOf(signIns)]

\* The sign-ins on offer can be counted.
LEMMA FiniteHolders ==
    ASSUME NEW signIns
    PROVE  IsFiniteSet(HoldersOf(signIns)) /\ OffersOf(signIns) \in Nat
  <1>1. HoldersOf(signIns) \subseteq Logins
    BY DEF HoldersOf
  <1> QED BY <1>1, LoginsAssumption, FS_Subset, FS_CardinalityType DEF OffersOf

\* What the abstract session is.
LEMMA ViewFields ==
    ASSUME NEW sessions \in [Sessions -> SessionStates], NEW cookies \in Jars, NEW signIns
    PROVE  /\ ViewOf(sessions, cookies, signIns) \in S!Accesses
           /\ ViewOf(sessions, cookies, signIns).signed = SignedOf(sessions, cookies)
           /\ ViewOf(sessions, cookies, signIns).idle = IdleOf(sessions, cookies)
           /\ ViewOf(sessions, cookies, signIns).offers = OffersOf(signIns)
  <1>1. OffersOf(signIns) \in Nat
    BY FiniteHolders
  <1>2. SignedOf(sessions, cookies) \in {"out", "in", "over"}
    BY DEF SignedOf
  <1>3. IdleOf(sessions, cookies) \in 0 .. Ttl
    BY TimesAssumption DEF IdleOf, Jars, SessionStates
  <1> QED BY <1>1, <1>2, <1>3 DEF ViewOf, S!Accesses

\* Two views with the same fields are the same.
LEMMA SameView ==
    ASSUME NEW x \in S!Accesses, NEW y \in S!Accesses,
           x.signed = y.signed, x.idle = y.idle, x.offers = y.offers
    PROVE  x = y
  BY DEF S!Accesses

\* The values that SessionLife's actions give to a view x.
LEMMA NewViews ==
    ASSUME NEW x \in S!Accesses, NEW y \in S!Accesses, y.offers = x.offers
    PROVE  y = [x EXCEPT !.signed = y.signed, !.idle = y.idle]
  <1>1. PICK z : z = [x EXCEPT !.signed = y.signed, !.idle = y.idle]
    OBVIOUS
  <1>2. /\ z \in S!Accesses
        /\ z.signed = y.signed /\ z.idle = y.idle /\ z.offers = y.offers
    <2>1. PICK u : u = [x EXCEPT !.signed = y.signed]
      OBVIOUS
    <2>2. /\ u \in S!Accesses
          /\ u.signed = y.signed /\ u.offers = x.offers
      BY <2>1 DEF S!Accesses
    <2>3. z = [u EXCEPT !.idle = y.idle]
      BY <1>1, <2>1
    <2> QED BY <2>2, <2>3 DEF S!Accesses
  <1> QED BY <1>1, <1>2, SameView

-----------------------------------------------------------------------------
(* How many sign-ins hold a session.                                       *)

\* No offer comes or goes.
LEMMA SameOffers ==
    ASSUME \A l \in Logins : Holds(l)' <=> Holds(l)
    PROVE  OffersOf(login') = OffersOf(login)
  <1>1. HoldersOf(login') = HoldersOf(login)
    BY DEF HoldersOf, Holds
  <1> QED BY <1>1 DEF OffersOf

\* One more offer.
LEMMA MoreOffers ==
    ASSUME NEW l \in Logins, ~Holds(l), Holds(l)',
           \A k \in Logins \ {l} : Holds(k)' <=> Holds(k)
    PROVE  OffersOf(login') = OffersOf(login) + 1
  <1>1. HoldersOf(login') = HoldersOf(login) \cup {l} /\ l \notin HoldersOf(login)
    BY DEF HoldersOf, Holds
  <1> QED BY <1>1, FiniteHolders, FS_AddElement DEF OffersOf

\* One offer less.
LEMMA FewerOffers ==
    ASSUME NEW l \in Logins, Holds(l), ~Holds(l)',
           \A k \in Logins \ {l} : Holds(k)' <=> Holds(k)
    PROVE  OffersOf(login) > 0 /\ OffersOf(login') = OffersOf(login) - 1
  <1>1. HoldersOf(login') = HoldersOf(login) \ {l} /\ l \in HoldersOf(login)
    BY DEF HoldersOf, Holds
  <1>2. OffersOf(login') = OffersOf(login) - 1
    BY <1>1, FiniteHolders, FS_RemoveElement DEF OffersOf
  <1>3. OffersOf(login') \in Nat /\ OffersOf(login) \in Nat
    BY FiniteHolders
  <1> QED BY <1>2, <1>3

-----------------------------------------------------------------------------
(* The actions of SessionLife, in terms of the fields of View.             *)

Signed == SignedOf(session, jar)

IdleTime == IdleOf(session, jar)

Offers == OffersOf(login)

\* The abstract state before and after a step.
LEMMA ViewIs ==
    ASSUME TypeOK, TypeOK'
    PROVE  /\ View \in S!Accesses /\ View' \in S!Accesses
           /\ View.signed = Signed /\ View.idle = IdleTime /\ View.offers = Offers
           /\ View'.signed = Signed' /\ View'.idle = IdleTime' /\ View'.offers = Offers'
  <1>1. View = ViewOf(session, jar, login)
    BY Zenon DEF View, ViewOf, SignedOf, IdleOf, OffersOf, HoldersOf, IsLive
  <1>2. View' = ViewOf(session', jar', login')
    BY Zenon DEF View, ViewOf, SignedOf, IdleOf, OffersOf, HoldersOf, IsLive
  <1>3. /\ session \in [Sessions -> SessionStates] /\ jar \in Jars
        /\ session' \in [Sessions -> SessionStates] /\ jar' \in Jars
    BY DEF TypeOK, SessionStates
  <1> QED BY <1>1, <1>2, <1>3, ViewFields DEF Signed, IdleTime, Offers

\* The number of offers stays.
LEMMA ViewMoves ==
    ASSUME TypeOK, TypeOK', Offers' = Offers
    PROVE  /\ Signed' = Signed /\ IdleTime' = IdleTime => View' = View
           /\ Signed = "in" /\ Signed' = "in" /\ IdleTime' = 0 => S!Admitted
           /\ Signed' = "out" /\ IdleTime' = 0 => S!Clears
           /\ Signed # "out" /\ Signed' = "over" /\ IdleTime' = 0 => S!Ends
           /\ /\ Signed = "in"
              /\ IF IdleTime + 1 < Ttl
                 THEN Signed' = "in" /\ IdleTime' = IdleTime + 1
                 ELSE Signed' = "over" /\ IdleTime' = Ttl
              => S!TickOver
  <1>1. PICK x, y : x = View /\ y = View'
    OBVIOUS
  <1>2. /\ x \in S!Accesses /\ y \in S!Accesses
        /\ x.signed = Signed /\ x.idle = IdleTime
        /\ y.signed = Signed' /\ y.idle = IdleTime' /\ y.offers = x.offers
    BY <1>1, ViewIs
  <1>3. y = [x EXCEPT !.signed = Signed', !.idle = IdleTime']
    BY <1>2, NewViews
  <1>4. Signed' = Signed /\ IdleTime' = IdleTime => y = x
    BY <1>2, SameView
  <1>5. Signed = "in" /\ Signed' = "in" /\ IdleTime' = 0 => S!Admitted
    BY <1>1, <1>2, <1>3 DEF S!Admitted, S!SignedIn, S!In
  <1>6. Signed' = "out" /\ IdleTime' = 0 => S!Clears
    BY <1>1, <1>2, <1>3 DEF S!Clears, S!Out
  <1>7. Signed # "out" /\ Signed' = "over" /\ IdleTime' = 0 => S!Ends
    BY <1>1, <1>2, <1>3 DEF S!Ends, S!Over
  <1>8. ASSUME Signed = "in",
               IF IdleTime + 1 < Ttl
               THEN Signed' = "in" /\ IdleTime' = IdleTime + 1
               ELSE Signed' = "over" /\ IdleTime' = Ttl
        PROVE  S!TickOver
    BY <1>1, <1>2, <1>3, <1>8 DEF S!TickOver, S!SignedIn, S!In, S!Over
  <1> QED BY <1>1, <1>4, <1>5, <1>6, <1>7, <1>8

\* It does not.
LEMMA OffersMove ==
    ASSUME TypeOK, TypeOK'
    PROVE  /\ Offers' = Offers + 1 /\ Signed' = Signed /\ IdleTime' = IdleTime
              => S!Offers
           /\ /\ Offers > 0 /\ Offers' = Offers - 1
              /\ Signed' \in {"in", "over"} /\ IdleTime' = 0
              => S!Enters
           /\ /\ Offers > 0 /\ Offers' = Offers - 1
              /\ Signed' = Signed /\ IdleTime' = IdleTime
              => S!Forfeits
  <1>1. PICK x, y : x = View /\ y = View'
    OBVIOUS
  <1>2. /\ x \in S!Accesses /\ y \in S!Accesses
        /\ x.signed = Signed /\ x.idle = IdleTime /\ x.offers = Offers
        /\ y.signed = Signed' /\ y.idle = IdleTime' /\ y.offers = Offers'
    BY <1>1, ViewIs
  <1>3. y = [signed |-> Signed', idle |-> IdleTime', offers |-> Offers']
    BY <1>2 DEF S!Accesses
  <1>4. ASSUME Offers' = Offers + 1, Signed' = Signed, IdleTime' = IdleTime
        PROVE  S!Offers
    <2>1. PICK z : z = [x EXCEPT !.offers = @ + 1]
      OBVIOUS
    <2>2. /\ z \in S!Accesses
          /\ z.signed = x.signed /\ z.idle = x.idle /\ z.offers = x.offers + 1
      BY <1>2, <2>1 DEF S!Accesses
    <2>3. y = z
      BY <1>2, <1>4, <2>2, SameView
    <2> QED BY <1>1, <2>1, <2>3 DEF S!Offers
  <1>5. ASSUME Offers > 0, Offers' = Offers - 1, Signed' \in {"in", "over"}, IdleTime' = 0
        PROVE  S!Enters
    <2>1. S!UsesOffer(Signed', 0)
      BY <1>1, <1>2, <1>3, <1>5 DEF S!UsesOffer
    <2> QED BY <1>5, <2>1 DEF S!Enters
  <1>6. ASSUME Offers > 0, Offers' = Offers - 1, Signed' = Signed, IdleTime' = IdleTime
        PROVE  S!Forfeits
    BY <1>1, <1>2, <1>3, <1>6 DEF S!UsesOffer, S!Forfeits
  <1> QED BY <1>4, <1>5, <1>6

-----------------------------------------------------------------------------
(* Each step of AuthSession is one of SessionLife, or none.                *)

SessionMoves == S!SessionNext \/ View' = View

\* The browser's session is not touched.
LEMMA CookieAlone ==
    ASSUME TypeOK, jar'.session = jar.session,
           jar.session # None => session'[jar.session] = session[jar.session]
    PROVE  Signed' = Signed /\ IdleTime' = IdleTime
  BY DEF Signed, IdleTime, SignedOf, IdleOf

\* The browser's session ends at Cloud.
LEMMA CookieRevoked ==
    ASSUME TypeOK, TypeOK', login' = login, jar' = jar, jar.session # None,
           SetState(jar.session, "revoked")
    PROVE  SessionMoves
  <1>1. session'[jar.session] = [state |-> "revoked", idle |-> 0]
    BY DEF SetState, TypeOK, Jars
  <1>2. Signed # "out" /\ Signed' = "over" /\ IdleTime' = 0
    BY <1>1 DEF Signed, IdleTime, SignedOf, IdleOf
  <1>3. Offers' = Offers
    BY DEF Offers
  <1> QED BY <1>2, <1>3, ViewMoves DEF SessionMoves, S!SessionNext

\* A sign-in sets the cookie.
LEMMA CookieSet ==
    ASSUME TypeOK, TypeOK', NEW l \in Logins, NEW dest, EndSignedIn(l, dest), Holds(l),
           login[l].s \in Sessions, session'[login[l].s].idle = 0
    PROVE  S!SessionNext
  <1>1. /\ ~Holds(l)' /\ \A k \in Logins \ {l} : Holds(k)' <=> Holds(k)
        /\ jar'.session = login[l].s
    BY DEF EndSignedIn, End, Holds, NoLogin, TypeOK
  <1>2. Offers > 0 /\ Offers' = Offers - 1
    BY <1>1, FewerOffers DEF Offers
  <1>3. Signed' \in {"in", "over"} /\ IdleTime' = 0
    BY <1>1, NoneAssumption DEF Signed, IdleTime, SignedOf, IdleOf
  <1> QED BY <1>2, <1>3, OffersMove DEF S!SessionNext

\* A step of a sign-in is a step of the abstract session.
LEMMA SignInMoves ==
    ASSUME IInv, TypeOK', NEW l \in Logins, SignInStep(l)
    PROVE  SessionMoves
  <1>1. TypeOK /\ OneHolder
    BY DEF IInv
  <1> USE DEF SessionMoves
  <1>2. CASE (\E kind \in Kinds : Start(l, kind)) \/ NoCode(l) \/ Abandon(l)
    <2>1. \A k \in Logins : Holds(k)' <=> Holds(k)
      BY <1>1, <1>2
         DEF Start, NoCode, Abandon, EndInError, End, Holds, NoLogin, InFlight, TypeOK, SignIns
    <2>2. session' = session /\ jar'.session = jar.session
      BY <1>1, <1>2 DEF Start, NoCode, Abandon, EndInError, TypeOK, Jars
    <2>3. Offers' = Offers
      BY <2>1, SameOffers DEF Offers
    <2> QED BY <1>1, <2>2, <2>3, CookieAlone, ViewMoves
  <1>3. CASE Authorized(l)
    <2> PICK s \in Sessions :
              /\ session[s].state = "unborn" /\ SetState(s, "offered")
              /\ login' = [login EXCEPT ![l].at = "code", ![l].s = s]
      BY <1>3 DEF Authorized
    <2>1. /\ ~Holds(l) /\ Holds(l)' /\ \A k \in Logins \ {l} : Holds(k)' <=> Holds(k)
      BY <1>1, <1>3 DEF Authorized, Holds, TypeOK, SignIns
    <2>2. /\ jar' = jar
          /\ jar.session # None => session'[jar.session] = session[jar.session]
      BY <1>1, <1>3 DEF Authorized, SetState, OneHolder, TypeOK, Jars
    <2>3. Offers' = Offers + 1
      BY <2>1, MoreOffers DEF Offers
    <2> QED BY <1>1, <2>2, <2>3, CookieAlone, OffersMove DEF S!SessionNext
  <1>4. CASE Redeem(l)
    <2>1. /\ Holds(l) /\ login[l].s \in Sessions /\ jar.session # login[l].s
          /\ session'[login[l].s].idle = 0
          /\ \A s \in Sessions \ {login[l].s} : session'[s] = session[s]
      BY <1>1, <1>4 DEF Redeem, Holds, SetState, OneHolder, HoldsSession, TypeOK
    <2>2. CASE EndSignedIn(l, "home")
      BY <1>1, <2>1, <2>2, CookieSet
    <2>3. CASE login' = [login EXCEPT ![l].at = "bootstrap"] /\ jar' = jar
      <3>1. \A k \in Logins : Holds(k)' <=> Holds(k)
        BY <1>1, <2>1, <2>3 DEF Holds, TypeOK, SignIns
      <3>2. jar.session # None => session'[jar.session] = session[jar.session]
        BY <1>1, <2>1 DEF TypeOK, Jars
      <3>3. Offers' = Offers
        BY <3>1, SameOffers DEF Offers
      <3> QED BY <1>1, <2>3, <3>2, <3>3, CookieAlone, ViewMoves
    <2> QED BY <1>4, <2>2, <2>3 DEF Redeem
  <1>5. CASE RedeemFails(l)
    <2>1. /\ Holds(l) /\ ~Holds(l)' /\ \A k \in Logins \ {l} : Holds(k)' <=> Holds(k)
          /\ jar' = jar
      BY <1>1, <1>5 DEF RedeemFails, EndInError, End, Holds, NoLogin, TypeOK
    <2>2. jar.session # None => session'[jar.session] = session[jar.session]
      BY <1>1, <1>5, <2>1 DEF RedeemFails, SetState, OneHolder, HoldsSession, TypeOK, Jars
    <2>3. Offers > 0 /\ Offers' = Offers - 1
      BY <2>1, FewerOffers DEF Offers
    <2> QED BY <1>1, <2>1, <2>2, <2>3, CookieAlone, OffersMove DEF S!SessionNext
  <1>6. CASE Bootstrap(l)
    <2>1. /\ Holds(l) /\ login[l].s \in Sessions
          /\ session'[login[l].s].idle = 0
      BY <1>1, <1>6 DEF Bootstrap, Holds, OneHolder, HoldsSession
    <2> QED BY <1>1, <1>6, <2>1, CookieSet DEF Bootstrap
  <1> QED BY <1>2, <1>3, <1>4, <1>5, <1>6 DEF SignInStep

\* So is the passing of time.
LEMMA TickMoves ==
    ASSUME TypeOK, TypeOK', Tick
    PROVE  SessionMoves
  <1>1. Offers' = Offers
    BY DEF Tick, Offers
  <1> DEFINE s == jar.session
             w == session[s]
  <1>2. CASE s = None
    <2>1. jar'.session = None
      BY <1>2 DEF Tick, TypeOK, Jars
    <2> QED BY <1>1, <1>2, <2>1, CookieAlone, ViewMoves DEF SessionMoves
  <1>3. CASE s # None /\ ~(jar.age + 1 < CookieLife)
    <2>1. jar'.session = None
      BY <1>3 DEF Tick, TypeOK, Jars
    <2>2. Signed' = "out" /\ IdleTime' = 0
      BY <2>1 DEF Signed, IdleTime, SignedOf, IdleOf
    <2> QED BY <1>1, <2>2, ViewMoves DEF SessionMoves, S!SessionNext
  <1>4. CASE s # None /\ jar.age + 1 < CookieLife
    <2>1. s \in Sessions /\ w \in SessionStates /\ jar'.session = s /\ session'[s] = Aged(s)
      BY <1>4 DEF Tick, TypeOK, Jars, SessionStates
    <2>2. CASE w.state = "live"
      <3>1. Signed = "in" /\ IdleTime = w.idle
        BY <1>4, <2>2 DEF Signed, IdleTime, SignedOf, IdleOf
      <3>2. CASE w.idle + 1 < Ttl
        <4>1. Aged(s).state = "live" /\ Aged(s).idle = w.idle + 1
          BY <2>1, <2>2, <3>2 DEF Aged, SessionStates
        <4>2. Signed' = "in" /\ IdleTime' = IdleTime + 1
          BY <1>4, <2>1, <3>1, <4>1 DEF Signed, IdleTime, SignedOf, IdleOf
        <4> QED BY <1>1, <3>1, <3>2, <4>2, ViewMoves DEF SessionMoves, S!SessionNext
      <3>3. CASE ~(w.idle + 1 < Ttl)
        <4>1. Aged(s).state = "expired" /\ Aged(s).idle = Ttl
          BY <2>2, <3>3 DEF Aged
        <4>2. Signed' = "over" /\ IdleTime' = Ttl
          BY <1>4, <2>1, <4>1 DEF Signed, IdleTime, SignedOf, IdleOf
        <4> QED BY <1>1, <3>1, <3>3, <4>2, ViewMoves DEF SessionMoves, S!SessionNext
      <3> QED BY <3>2, <3>3
    <2>3. CASE w.state # "live"
      <3>1. Aged(s).state # "live" /\ Aged(s).idle = w.idle
        BY <2>1, <2>3 DEF Aged, SessionStates
      <3>2. Signed' = Signed /\ IdleTime' = IdleTime
        BY <1>4, <2>1, <2>3, <3>1 DEF Signed, IdleTime, SignedOf, IdleOf
      <3> QED BY <1>1, <3>2, ViewMoves DEF SessionMoves
    <2> QED BY <2>2, <2>3
  <1> QED BY <1>2, <1>3, <1>4

\* So is every step, or a stutter.
LEMMA StepMoves == IInv /\ [Next]_vars => [S!SessionNext]_View
  <1> SUFFICES ASSUME IInv, [Next]_vars PROVE SessionMoves
    BY DEF SessionMoves
  <1>1. TypeOK /\ TypeOK'
    BY TypeStep DEF IInv
  <1> USE DEF SessionMoves
  <1>2. CASE \E l \in Logins : SignInStep(l)
    BY <1>1, <1>2, SignInMoves
  <1>3. CASE \E s \in Sessions : Revoked(s)
    <2> PICK s \in Sessions : Revoked(s)
      BY <1>3
    <2>1. login' = login /\ jar' = jar /\ SetState(s, "revoked") /\ s # None
      BY NoneAssumption DEF Revoked
    <2>2. CASE s = jar.session
      BY <1>1, <2>1, <2>2, CookieRevoked
    <2>3. CASE s # jar.session
      <3>1. jar.session # None => session'[jar.session] = session[jar.session]
        BY <1>1, <2>1, <2>3 DEF SetState, TypeOK, Jars
      <3>2. Offers' = Offers
        BY <2>1 DEF Offers
      <3> QED BY <1>1, <2>1, <3>1, <3>2, CookieAlone, ViewMoves
    <2> QED BY <2>2, <2>3
  <1>4. CASE Admitted
    <2>1. jar.session \in Sessions /\ jar.session # None
      BY <1>1, <1>4, LiveSession, NoneAssumption DEF Admitted
    <2>2. /\ session'[jar.session].state = "live" /\ session'[jar.session].idle = 0
          /\ session[jar.session].state = "live" /\ jar' = jar /\ login' = login
      BY <1>1, <1>4, <2>1 DEF Admitted, Extended, IsLive, TypeOK
    <2>3. Signed = "in" /\ Signed' = "in" /\ IdleTime' = 0 /\ Offers' = Offers
      BY <2>1, <2>2 DEF Signed, IdleTime, SignedOf, IdleOf, Offers
    <2> QED BY <1>1, <2>3, ViewMoves DEF S!SessionNext
  <1>5. CASE LogoutAnswers
    <2>1. jar'.session = None /\ login' = login
      BY <1>1, <1>5 DEF LogoutAnswers, TypeOK, Jars
    <2>2. Signed' = "out" /\ IdleTime' = 0 /\ Offers' = Offers
      BY <2>1 DEF Signed, IdleTime, SignedOf, IdleOf, Offers
    <2> QED BY <1>1, <2>2, ViewMoves DEF S!SessionNext
  <1>6. CASE LogoutRevokes \/ (LogoutFails /\ SetState(jar.session, "revoked") /\ CsrfOk)
    BY <1>1, <1>6, CookieRevoked DEF LogoutRevokes, LogoutFails, CsrfOk
  <1>7. CASE \/ Refused \/ PortExpires \/ UNCHANGED vars
             \/ LogoutFails /\ UNCHANGED session
    <2>1. \A k \in Logins : Holds(k)' <=> Holds(k)
      BY <1>1, <1>7 DEF Refused, PortExpires, LogoutFails, vars, Holds, TypeOK, SignIns
    <2>2. session' = session /\ jar'.session = jar.session
      BY <1>1, <1>7 DEF Refused, PortExpires, LogoutFails, vars, TypeOK, Jars
    <2>3. Offers' = Offers
      BY <2>1, SameOffers DEF Offers
    <2> QED BY <1>1, <2>2, <2>3, CookieAlone, ViewMoves
  <1>8. CASE Tick
    BY <1>1, <1>8, TickMoves
  <1> QED BY <1>2, <1>3, <1>4, <1>5, <1>6, <1>7, <1>8 DEF Next, LogoutFails

\* The first states correspond.
LEMMA InitView == Init => S!SessionInit
  <1> SUFFICES ASSUME Init PROVE S!SessionInit
    OBVIOUS
  <1>1. HoldersOf(login) = {}
    BY DEF Init, HoldersOf, NoLogin
  <1>2. OffersOf(login) = 0
    BY <1>1, FS_EmptySet DEF OffersOf
  <1>3. SignedOf(session, jar) = "out" /\ IdleOf(session, jar) = 0
    BY DEF Init, SignedOf, IdleOf
  <1>4. View = ViewOf(session, jar, login)
    BY Zenon DEF View, ViewOf, SignedOf, IdleOf, OffersOf, HoldersOf, IsLive
  <1> QED BY <1>2, <1>3, <1>4 DEF S!SessionInit, ViewOf

\* To the pages, sign-ins, refreshes and logouts are the life of one session.
THEOREM Refinement == Spec => ImplementsSessionLife
  <1>1. Init => S!SessionInit
    BY InitView
  <1>2. IInv /\ [Next]_vars => [S!SessionNext]_View
    BY StepMoves
  <1> QED BY <1>1, <1>2, Invariance, PTL DEF Spec, ImplementsSessionLife, S!SessionSpec
=============================================================================
