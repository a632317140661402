-------------------------- MODULE AuthSessionProofs --------------------------
(***************************************************************************)
(* What AuthSession keeps invariant, for any number of sessions and of     *)
(* sign-ins under way, any lifetimes and any faults.                       *)
(*                                                                         *)
(* The invariant is about who may still change what: a session is in the   *)
(* hands of one sign-in or of the cookie jar (OneHolder); a session that was*)
(* signed out is revoked, which no handler undoes (LogoutSound); the port  *)
(* cookie comes from a desktop sign-in (PortExplained), and a sign-in that is*)
(* clean is alone, so that the cookie is its own (CleanSound).             *)
(***************************************************************************)
EXTENDS AuthSession, FiniteSetTheorems, TLAPS

\* It has been handed a session and has not ended.
Holds(l) == login[l].at \in {"code", "bootstrap"}

HoldsSession(l) ==
    Holds(l) =>
        /\ login[l].s \in Sessions
        /\ session[login[l].s].state # "unborn"
        /\ jar.session # login[l].s
        /\ login[l].at = "bootstrap" => session[login[l].s].idle = 0

OneHolder ==
    /\ \A l \in Logins : HoldsSession(l)
    /\ \A k, l \in Logins : Holds(k) /\ Holds(l) /\ k # l => login[k].s # login[l].s
    /\ jar.session # None => session[jar.session].state # "unborn"

LogoutSound ==
    /\ logout # None => session[logout].state = "revoked"
    /\ \A s \in signedOut : session[s].state = "revoked"

\* The port cookie is there because of a desktop sign-in: one that is under
\* way, or one that ended and may have left it.
PortExplained ==
    jar.port => stale \/ \E l \in Logins : InFlight(l) /\ login[l].kind = "desktop"

CleanSound ==
    \A l \in Logins :
        InFlight(l) /\ login[l].clean =>
            /\ \A k \in Logins \ {l} : ~InFlight(k)
            /\ jar.port <=> login[l].kind = "desktop"
            /\ login[l].at = "bootstrap" => jar.port

IInv ==
    /\ TypeOK
    /\ OneHolder
    /\ LogoutSound
    /\ PortExplained
    /\ CleanSound
    /\ LandsAsStarted
-----------------------------------------------------------------------------
(* Type correctness.                                                       *)

SessionStates == [state : States, idle : 0 .. Ttl]

\* A session takes another state.
LEMMA SetStateType ==
    ASSUME TypeOK, NEW s, NEW state \in States, SetState(s, state)
    PROVE  session' \in [Sessions -> SessionStates]
  <1>1. [state |-> state, idle |-> 0] \in SessionStates
    BY TimesAssumption DEF SessionStates
  <1> QED BY <1>1 DEF TypeOK, SetState, SessionStates

\* A jar without its session cookie is a jar.
LEMMA ClearedType ==
    ASSUME NEW j \in Jars
    PROVE  [j EXCEPT !.session = None, !.age = 0] \in Jars
  <1>1. 0 \in 0 .. CookieLife
    BY TimesAssumption
  <1>2. [j EXCEPT !.session = None] \in Jars
    BY DEF Jars
  <1>3. \A i \in Jars : [i EXCEPT !.age = 0] \in Jars
    BY <1>1 DEF Jars
  <1>4. [j EXCEPT !.session = None, !.age = 0] = [[j EXCEPT !.session = None] EXCEPT !.age = 0]
    OBVIOUS
  <1> QED BY <1>2, <1>3, <1>4

\* The budget of faults stays in its bounds.
LEMMA FaultType ==
    ASSUME TypeOK, Fault \/ UNCHANGED faults
    PROVE  faults' \in 0 .. MaxFail
  BY TimesAssumption DEF TypeOK, Fault

\* A session that Cloud takes is one of its sessions.
LEMMA LiveSession ==
    ASSUME TypeOK, IsLive(jar.session)
    PROVE  jar.session \in Sessions /\ session[jar.session].state = "live"
  BY DEF TypeOK, IsLive, Jars

\* A session that is a tick older is a session.
LEMMA AgedType ==
    ASSUME TypeOK, NEW s \in Sessions
    PROVE  Aged(s) \in SessionStates
  <1> DEFINE w == session[s]
  <1>1. w \in SessionStates /\ w.idle \in 0 .. Ttl
    BY DEF TypeOK, SessionStates
  <1>2. CASE w.state = "offered"
    <2>1. Aged(s) = [w EXCEPT !.state = "expired"]
      BY <1>2 DEF Aged
    <2> QED BY <1>1, <2>1 DEF SessionStates, States
  <1>3. CASE w.state = "live" /\ w.idle + 1 < Ttl
    <2>1. Aged(s) = [w EXCEPT !.idle = w.idle + 1]
      BY <1>3 DEF Aged
    <2>2. w.idle + 1 \in 0 .. Ttl
      BY <1>1, <1>3, TimesAssumption
    <2> QED BY <1>1, <2>1, <2>2 DEF SessionStates
  <1>4. CASE w.state = "live" /\ ~(w.idle + 1 < Ttl)
    <2>1. Aged(s) = [state |-> "expired", idle |-> Ttl]
      BY <1>4 DEF Aged
    <2>2. Ttl \in 0 .. Ttl /\ "expired" \in States
      BY TimesAssumption DEF States
    <2> QED BY <2>1, <2>2 DEF SessionStates
  <1>5. CASE w.state \notin {"offered", "live"}
    BY <1>1, <1>5 DEF Aged
  <1> QED BY <1>2, <1>3, <1>4, <1>5

\* A sign-in that ends.
LEMMA EndType ==
    ASSUME TypeOK, NEW l \in Logins, NEW dest \in {"home", "loopback", "error"},
           End(l, dest)
    PROVE  login' \in [Logins -> SignIns] /\ landing' \in Landings
  <1>1. NoLogin \in SignIns /\ login[l] \in SignIns
    BY DEF TypeOK, NoLogin, SignIns, Kinds
  <1> QED BY <1>1 DEF TypeOK, End, SignIns, Landings

\* The end of a sign-in that has a session.
LEMMA EndSignedInType ==
    ASSUME TypeOK, NEW l \in Logins, NEW dest \in {"home", "loopback", "error"},
           EndSignedIn(l, dest)
    PROVE  /\ login' \in [Logins -> SignIns] /\ landing' \in Landings
           /\ jar' \in Jars /\ stale' \in BOOLEAN
  <1>1. login[l].s \in Sessions \cup {None}
    BY DEF TypeOK, SignIns
  <1>2. [session |-> login[l].s, age |-> 0, port |-> FALSE] \in Jars
    BY <1>1, TimesAssumption DEF Jars
  <1> QED BY <1>2, EndType DEF EndSignedIn

\* The steps of one sign-in keep the types.
LEMMA SignInType ==
    ASSUME TypeOK, NEW l \in Logins, SignInStep(l)
    PROVE  TypeOK'
  <1> USE DEF TypeOK
  <1>1. login[l] \in SignIns /\ jar \in Jars /\ NoLogin \in SignIns
    BY DEF NoLogin, SignIns, Kinds
  <1>2. ASSUME NEW kind \in Kinds, Start(l, kind)
        PROVE  TypeOK'
    <2>1. PortAfter(kind) \in BOOLEAN
      BY <1>1 DEF PortAfter, Jars
    <2>2. jar' \in Jars
      BY <1>1, <1>2, <2>1 DEF Start, Jars
    <2>3. ASSUME NEW clean \in BOOLEAN
          PROVE  [kind |-> kind, at |-> "provider", s |-> None, clean |-> clean] \in SignIns
      BY DEF SignIns
    <2>4. ASSUME NEW k \in Logins, NEW clean \in BOOLEAN
          PROVE  [login[k] EXCEPT !.clean = clean] \in SignIns
      BY DEF SignIns
    <2>5. \A k \in Logins : login[k].clean \in BOOLEAN
      BY DEF SignIns
    <2>6. login' \in [Logins -> SignIns]
      BY <1>2, <2>3, <2>4, <2>5 DEF Start
    <2> QED BY <1>2, <2>2, <2>6 DEF Start
  <1>3. CASE Authorized(l)
    <2>1. PICK s \in Sessions : /\ SetState(s, "offered")
                                /\ login' = [login EXCEPT ![l].at = "code", ![l].s = s]
      BY <1>3 DEF Authorized
    <2>2. session' \in [Sessions -> SessionStates]
      BY <2>1, SetStateType DEF States
    <2>3. login' \in [Logins -> SignIns]
      BY <1>1, <2>1 DEF SignIns
    <2> QED BY <1>3, <2>2, <2>3 DEF Authorized, SessionStates
  <1>4. CASE NoCode(l)
    <2>1. stale' \in BOOLEAN
      BY <1>1, <1>4 DEF NoCode, EndInError, LeavesPort
    <2> QED BY <1>4, <2>1, EndType DEF NoCode, EndInError
  <1>5. CASE Abandon(l)
    BY <1>1, <1>5 DEF Abandon, LeavesPort
  <1>6. CASE Redeem(l)
    <2>1. session' \in [Sessions -> SessionStates]
      BY <1>6, SetStateType DEF Redeem, States
    <2>2. CASE login' = [login EXCEPT ![l].at = "bootstrap"] /\ UNCHANGED <<jar, landing, stale>>
      <3>1. login' \in [Logins -> SignIns]
        BY <1>1, <2>2 DEF SignIns
      <3> QED BY <1>6, <2>1, <2>2, <3>1 DEF Redeem, SessionStates
    <2>3. CASE EndSignedIn(l, "home")
      BY <1>6, <2>1, <2>3, EndSignedInType DEF Redeem, SessionStates
    <2> QED BY <1>6, <2>2, <2>3 DEF Redeem
  <1>7. CASE RedeemFails(l)
    <2>1. session' \in [Sessions -> SessionStates]
      BY <1>7, SetStateType DEF RedeemFails, States, SessionStates
    <2>2. faults' \in 0 .. MaxFail
      BY <1>7, FaultType DEF RedeemFails
    <2>3. stale' \in BOOLEAN /\ jar' \in Jars
      BY <1>1, <1>7 DEF RedeemFails, EndInError, LeavesPort
    <2>4. login' \in [Logins -> SignIns] /\ landing' \in Landings
      BY <1>7, EndType DEF RedeemFails, EndInError
    <2> QED BY <1>7, <2>1, <2>2, <2>3, <2>4 DEF RedeemFails, SessionStates
  <1>8. CASE Bootstrap(l)
    <2>1. faults' \in 0 .. MaxFail
      BY <1>8, FaultType DEF Bootstrap
    <2> QED BY <1>8, <2>1, EndSignedInType DEF Bootstrap
  <1> QED BY <1>2, <1>3, <1>4, <1>5, <1>6, <1>7, <1>8 DEF SignInStep

\* So does every step.
LEMMA TypeStep == TypeOK /\ [Next]_vars => TypeOK'
  <1> SUFFICES ASSUME TypeOK, [Next]_vars PROVE TypeOK'
    OBVIOUS
  <1> USE DEF TypeOK
  <1>1. CASE \E l \in Logins : SignInStep(l)
    BY <1>1, SignInType
  <1>2. CASE \E s \in Sessions : Revoked(s)
    BY <1>2, SetStateType DEF Revoked, States, SessionStates
  <1>3. CASE Admitted
    <2>1. jar.session \in Sessions
      BY <1>3, LiveSession DEF Admitted
    <2>2. session' \in [Sessions -> [state : States, idle : 0 .. Ttl]]
      BY <1>3, <2>1, TimesAssumption DEF Admitted, Extended
    <2> QED BY <1>3, <2>2 DEF Admitted
  <1>4. CASE Refused
    BY <1>4, FaultType DEF Refused
  <1>5. CASE PortExpires
    <2>1. jar' \in Jars
      BY <1>5 DEF PortExpires, Jars
    <2>2. ASSUME NEW k \in Logins, NEW clean \in BOOLEAN
          PROVE  [login[k] EXCEPT !.clean = clean] \in SignIns
      BY DEF SignIns
    <2>3. \A k \in Logins : login[k].clean \in BOOLEAN
      BY DEF SignIns
    <2>4. login' \in [Logins -> SignIns]
      BY <1>5, <2>2, <2>3 DEF PortExpires
    <2> QED BY <1>5, <2>1, <2>4 DEF PortExpires
  <1>6. CASE Tick
    <2>1. session' \in [Sessions -> SessionStates]
      BY <1>6, AgedType DEF Tick
    <2>2. jar \in Jars /\ jar.age \in 0 .. CookieLife
      BY DEF Jars
    <2>3. jar' \in Jars
      <3>1. CASE jar.session = None
        <4>1. jar' = [jar EXCEPT !.age = 0]
          BY <1>6, <3>1 DEF Tick
        <4> QED BY <2>2, <4>1, TimesAssumption DEF Jars
      <3>2. CASE jar.session # None /\ jar.age + 1 < CookieLife
        <4>1. jar' = [jar EXCEPT !.age = jar.age + 1]
          BY <1>6, <3>2 DEF Tick
        <4>2. jar.age + 1 \in 0 .. CookieLife
          BY <2>2, <3>2, TimesAssumption
        <4> QED BY <2>2, <4>1, <4>2 DEF Jars
      <3>3. CASE jar.session # None /\ ~(jar.age + 1 < CookieLife)
        <4>1. jar' = [jar EXCEPT !.session = None, !.age = 0]
          BY <1>6, <3>3 DEF Tick
        <4> QED BY <2>2, <4>1, ClearedType
      <3> QED BY <3>1, <3>2, <3>3
    <2> QED BY <1>6, <2>1, <2>3 DEF Tick, SessionStates
  <1>7. CASE LogoutRevokes
    <2>1. session' \in [Sessions -> SessionStates]
      BY <1>7, SetStateType DEF LogoutRevokes, States
    <2>2. jar.session \in Sessions \cup {None}
      BY DEF Jars
    <2> QED BY <1>7, <2>1, <2>2 DEF LogoutRevokes, SessionStates
  <1>8. CASE LogoutAnswers
    <2>1. jar' \in Jars
      BY <1>8, ClearedType DEF LogoutAnswers
    <2> QED BY <1>8, <2>1 DEF LogoutAnswers
  <1>9. CASE LogoutFails
    <2>1. session' \in [Sessions -> SessionStates]
      BY <1>9, SetStateType DEF LogoutFails, States, SessionStates
    <2>2. faults' \in 0 .. MaxFail
      BY <1>9, FaultType DEF LogoutFails
    <2> QED BY <1>9, <2>1, <2>2 DEF LogoutFails, SessionStates
  <1>10. CASE UNCHANGED vars
    BY <1>10 DEF vars
  <1> QED
    BY <1>1, <1>2, <1>3, <1>4, <1>5, <1>6, <1>7, <1>8, <1>9, <1>10 DEF Next

\* The types hold at first.
LEMMA TypeInit == Init => TypeOK
  <1> SUFFICES ASSUME Init PROVE TypeOK
    OBVIOUS
  <1> USE TimesAssumption DEF Init
  <1>1. [state |-> "unborn", idle |-> 0] \in SessionStates
    BY DEF SessionStates, States
  <1>2. session \in [Sessions -> SessionStates]
    BY <1>1
  <1>3. jar \in Jars
    BY DEF Jars
  <1>4. NoLogin \in SignIns
    BY DEF NoLogin, SignIns, Kinds
  <1>5. login \in [Logins -> SignIns]
    BY <1>4
  <1>6. landing \in Landings
    BY DEF Landings, Kinds
  <1>7. logout \in Sessions \cup {None} /\ stale \in BOOLEAN /\ signedOut \in SUBSET Sessions
    OBVIOUS
  <1>8. faults \in 0 .. MaxFail
    OBVIOUS
  <1> HIDE DEF Init
  <1> QED BY <1>2, <1>3, <1>5, <1>6, <1>7, <1>8 DEF TypeOK, SessionStates

\* Type correctness, for any sessions, sign-ins, lifetimes and faults.
THEOREM TypeCorrect == Spec => []TypeOK
  BY TypeInit, TypeStep, PTL DEF Spec

-----------------------------------------------------------------------------
(* Sessions only go forward.                                               *)

\* No step brings back a session that is revoked, or unmakes one.
LEMMA SessionForward ==
    ASSUME TypeOK, [Next]_vars, NEW s \in Sessions
    PROVE  /\ session[s].state = "revoked" => session'[s].state = "revoked"
           /\ session[s].state # "unborn" => session'[s].state # "unborn"
  <1> DEFINE Forward == /\ session[s].state = "revoked" => session'[s].state = "revoked"
                        /\ session[s].state # "unborn" => session'[s].state # "unborn"
  <1> USE DEF TypeOK
  <1>1. ASSUME NEW x, NEW state, SetState(x, state), state # "unborn",
               session[x].state = "revoked" => state = "revoked"
        PROVE  Forward
    BY <1>1 DEF SetState
  <1>2. CASE \E l \in Logins : Redeem(l) \/ RedeemFails(l)
    BY <1>1, <1>2 DEF Redeem, RedeemFails
  <1>3. CASE \E l \in Logins : Authorized(l)
    BY <1>1, <1>3 DEF Authorized
  <1>4. CASE \/ \E x \in Sessions : Revoked(x)
             \/ LogoutRevokes \/ LogoutFails
    BY <1>1, <1>4 DEF Revoked, LogoutRevokes, LogoutFails
  <1>5. CASE Admitted
    <2>1. jar.session \in Sessions
      BY <1>5, LiveSession DEF Admitted
    <2> QED BY <1>5, <2>1 DEF Admitted, Extended
  <1>6. CASE Tick
    BY <1>6 DEF Tick, Aged
  <1>7. CASE \/ \E l \in Logins : \/ \E kind \in Kinds : Start(l, kind)
                                 \/ NoCode(l) \/ Abandon(l) \/ Bootstrap(l)
             \/ Refused \/ PortExpires \/ LogoutAnswers \/ UNCHANGED vars
    BY <1>7 DEF Start, NoCode, Abandon, Bootstrap, Refused, PortExpires, LogoutAnswers, vars
  <1> QED BY <1>2, <1>3, <1>4, <1>5, <1>6, <1>7 DEF Next, SignInStep

\* Every step keeps what is known of a logout under way.
LEMMA LogoutStep ==
    ASSUME TypeOK, LogoutSound, [Next]_vars
    PROVE  LogoutSound'
  <1> USE DEF LogoutSound, TypeOK
  <1>1. \A s \in Sessions : session[s].state = "revoked" => session'[s].state = "revoked"
    BY SessionForward
  <1>2. CASE LogoutRevokes
    <2>1. jar.session \in Sessions
      BY <1>2 DEF LogoutRevokes, CsrfOk, Jars
    <2>2. session'[jar.session].state = "revoked"
      BY <1>2, <2>1 DEF LogoutRevokes, SetState
    <2> QED BY <1>1, <1>2, <2>2 DEF LogoutRevokes
  <1>3. CASE LogoutAnswers
    BY <1>1, <1>3, NoneAssumption DEF LogoutAnswers
  <1>4. CASE logout' = logout /\ signedOut' = signedOut
    BY <1>1, <1>4
  <1> QED
    BY <1>2, <1>3, <1>4
       DEF Next, SignInStep, Start, Authorized, NoCode, Abandon, Redeem, RedeemFails,
           Bootstrap, Revoked, Admitted, Refused, PortExpires, Tick, LogoutFails, vars

-----------------------------------------------------------------------------
(* A session is in the hands of one sign-in, or of the browser.            *)

\* The sign-ins that hold a session go on holding it or drop it, and the
\* browser keeps its session, drops it or is left with none.
LEMMA HoldersDrop ==
    ASSUME TypeOK, OneHolder,
           \A s \in Sessions : session[s].state # "unborn" => session'[s].state # "unborn",
           \A l \in Logins : login'[l].at \in {"code", "bootstrap"} =>
                /\ Holds(l) /\ login'[l].s = login[l].s
                /\ login'[l].at = "bootstrap" => session'[login[l].s].idle = 0,
           jar'.session = jar.session \/ jar'.session = None
    PROVE  OneHolder'
  BY NoneAssumption DEF OneHolder, HoldsSession, Holds, TypeOK, Jars

\* Every step keeps that no two sign-ins hold one session.
LEMMA HolderStep ==
    ASSUME TypeOK, OneHolder, [Next]_vars
    PROVE  OneHolder'
  <1> USE DEF TypeOK
  <1>1. \A s \in Sessions : session[s].state # "unborn" => session'[s].state # "unborn"
    BY SessionForward
  <1>2. ASSUME NEW l \in Logins, NEW dest, EndSignedIn(l, dest), Holds(l),
               \A k \in Logins \ {l} : Holds(k) => 
                   session'[login[k].s].idle = session[login[k].s].idle
        PROVE  OneHolder'
    <2>1. /\ jar'.session = login[l].s
          /\ login' = [login EXCEPT ![l] = NoLogin]
      BY <1>2 DEF EndSignedIn, End
    <2>2. ~Holds(l)' /\ \A k \in Logins \ {l} : login'[k] = login[k]
      BY <2>1 DEF Holds, NoLogin
    <2> QED BY <1>1, <1>2, <2>1, <2>2, NoneAssumption DEF OneHolder, HoldsSession, Holds
  <1>3. CASE \E l \in Logins : Redeem(l)
    <2> PICK l \in Logins : Redeem(l)
      BY <1>3
    <2>1. \A k \in Logins \ {l} : Holds(k) => 
                   session'[login[k].s].idle = session[login[k].s].idle
      BY DEF Redeem, SetState, OneHolder, HoldsSession, Holds
    <2>2. CASE EndSignedIn(l, "home")
      BY <1>2, <2>1, <2>2 DEF Redeem, Holds
    <2>3. CASE login' = [login EXCEPT ![l].at = "bootstrap"] /\ jar' = jar
      <3>1. login[l].s \in Sessions /\ session'[login[l].s].idle = 0
        BY DEF Redeem, SetState, OneHolder, HoldsSession, Holds
      <3>2. /\ \A k \in Logins : login'[k].s = login[k].s /\ (k # l => login'[k] = login[k])
            /\ login'[l].at = "bootstrap" /\ Holds(l)
        BY <2>3 DEF Redeem, SignIns, Holds
      <3>3. \A k \in Logins : login'[k].at \in {"code", "bootstrap"} =>
                /\ Holds(k) /\ login'[k].s = login[k].s
                /\ login'[k].at = "bootstrap" => session'[login[k].s].idle = 0
        BY <2>1, <3>1, <3>2 DEF OneHolder, HoldsSession, Holds
      <3> QED BY <1>1, <2>3, <3>3, HoldersDrop
    <2> QED BY <2>2, <2>3 DEF Redeem
  <1>4. CASE \E l \in Logins : Bootstrap(l)
    BY <1>2, <1>4 DEF Bootstrap, Holds
  <1>5. CASE \E l \in Logins : Authorized(l)
    <2> PICK l \in Logins, s \in Sessions :
              /\ Authorized(l) /\ session[s].state = "unborn" /\ SetState(s, "offered")
              /\ login' = [login EXCEPT ![l].at = "code", ![l].s = s]
      BY <1>5 DEF Authorized
    <2>1. /\ login'[l].at = "code" /\ login'[l].s = s
          /\ \A k \in Logins \ {l} : login'[k] = login[k]
      BY DEF SignIns
    <2>2. /\ jar' = jar /\ session'[s].state = "offered"
          /\ \A x \in Sessions \ {s} : session'[x] = session[x]
      BY DEF Authorized, SetState
    <2> QED BY <1>1, <2>1, <2>2, NoneAssumption DEF OneHolder, HoldsSession, Holds, Jars
  <1>6. CASE \/ \E l \in Logins : \/ \E kind \in Kinds : Start(l, kind)
                                 \/ NoCode(l) \/ Abandon(l)
             \/ PortExpires
    <2>1. \A k \in Logins : \/ login'[k].at = login[k].at /\ login'[k].s = login[k].s
                            \/ login'[k].at \in {"idle", "provider"}
      BY <1>6 DEF Start, NoCode, Abandon, EndInError, End, PortExpires, NoLogin, SignIns
    <2>2. session' = session /\ jar'.session = jar.session
      BY <1>6 DEF Start, NoCode, Abandon, EndInError, PortExpires, Jars
    <2> QED BY <1>1, <2>1, <2>2, HoldersDrop DEF OneHolder, HoldsSession, Holds
  <1>7. CASE \E l \in Logins : RedeemFails(l)
    <2> PICK l \in Logins : RedeemFails(l)
      BY <1>7
    <2>1. /\ login' = [login EXCEPT ![l] = NoLogin] /\ jar' = jar
          /\ login[l].at = "code"
      BY DEF RedeemFails, EndInError, End
    <2>2. \A x \in Sessions \ {login[l].s} : session'[x] = session[x]
      BY DEF RedeemFails, SetState
    <2>3. ~(login'[l].at \in {"code", "bootstrap"}) /\ \A k \in Logins \ {l} : login'[k] = login[k]
      BY <2>1 DEF NoLogin
    <2> QED BY <1>1, <2>1, <2>2, <2>3, HoldersDrop DEF OneHolder, HoldsSession, Holds
  <1>8. CASE Admitted \/ LogoutRevokes \/ LogoutFails
    <2>1. login' = login /\ jar' = jar
      BY <1>8 DEF Admitted, LogoutRevokes, LogoutFails
    <2>2. \A x \in Sessions \ {jar.session} : session'[x] = session[x]
      BY <1>8 DEF Admitted, Extended, LogoutRevokes, LogoutFails, SetState
    <2> QED BY <1>1, <2>1, <2>2, HoldersDrop DEF OneHolder, HoldsSession, Holds
  <1>9. CASE \E s \in Sessions : Revoked(s)
    <2> PICK s \in Sessions : Revoked(s)
      BY <1>9
    <2>1. login' = login /\ jar' = jar
      BY DEF Revoked
    <2>2. \A x \in Sessions : session'[x].idle = session[x].idle \/ session'[x].idle = 0
      BY DEF Revoked, SetState
    <2> QED BY <1>1, <2>1, <2>2, HoldersDrop DEF OneHolder, HoldsSession, Holds
  <1>10. CASE Tick
    <2>1. login' = login /\ \A l \in Logins : login[l].at # "bootstrap"
      BY <1>10 DEF Tick
    <2>2. jar'.session = jar.session \/ jar'.session = None
      BY <1>10 DEF Tick, Jars
    <2> QED BY <1>1, <2>1, <2>2, HoldersDrop DEF OneHolder, HoldsSession, Holds
  <1>11. CASE LogoutAnswers \/ Refused \/ UNCHANGED vars
    <2>1. login' = login /\ session' = session
      BY <1>11 DEF LogoutAnswers, Refused, vars
    <2>2. jar'.session = jar.session \/ jar'.session = None
      BY <1>11 DEF LogoutAnswers, Refused, vars, Jars
    <2> QED BY <1>1, <2>1, <2>2, HoldersDrop DEF OneHolder, HoldsSession, Holds
  <1> QED
    BY <1>3, <1>4, <1>5, <1>6, <1>7, <1>8, <1>9, <1>10, <1>11 DEF Next, SignInStep

-----------------------------------------------------------------------------
(* A sign-in that is alone owns the port cookie.                           *)

PortSound == PortExplained /\ CleanSound

\* A sign-in l ends with an error, or is abandoned: the port cookie stays.
LEMMA PortLeft ==
    ASSUME TypeOK, PortSound, NEW l \in Logins, login' = [login EXCEPT ![l] = NoLogin],
           LeavesPort(l), UNCHANGED jar
    PROVE  PortSound'
  <1>1. /\ ~InFlight(l)'
        /\ \A k \in Logins \ {l} : login'[k] = login[k]
    BY DEF TypeOK, InFlight, NoLogin
  <1> QED
    BY <1>1 DEF PortSound, PortExplained, CleanSound, InFlight, LeavesPort, TypeOK

\* It ends well: the port cookie is deleted.
LEMMA PortDeleted ==
    ASSUME TypeOK, PortSound, NEW l \in Logins, InFlight(l), NEW dest, EndSignedIn(l, dest)
    PROVE  PortSound'
  <1>1. /\ ~InFlight(l)' /\ ~jar'.port
        /\ \A k \in Logins \ {l} : login'[k] = login[k]
    BY DEF TypeOK, InFlight, NoLogin, EndSignedIn, End
  <1> QED BY <1>1 DEF PortSound, PortExplained, CleanSound, InFlight

\* Every step keeps what the loopback cookie says of the sign-ins.
LEMMA PortStep ==
    ASSUME TypeOK, PortSound, [Next]_vars
    PROVE  PortSound'
  <1> USE DEF TypeOK
  <1>1. CASE \E l \in Logins, kind \in Kinds : Start(l, kind)
    <2> PICK l \in Logins, kind \in Kinds : Start(l, kind)
      BY <1>1
    <2>1. /\ login'[l].kind = kind /\ login'[l].at = "provider"
          /\ login'[l].clean => /\ \A k \in Logins : ~InFlight(k)
                                /\ kind = "desktop" \/ ~stale
      BY DEF Start
    <2>2. \A k \in Logins \ {l} :
             /\ login'[k].kind = login[k].kind /\ login'[k].at = login[k].at
             /\ login'[k].clean => ~InFlight(k)
      BY DEF Start, SignIns
    <2>3. jar'.port <=> kind = "desktop" \/ jar.port
      BY DEF Start, PortAfter, Jars
    <2>4. stale' = stale /\ kind \in {"web", "desktop"}
      BY DEF Start, Kinds
    <2>5. ~InFlight(l)
      BY DEF Start
    <2>6. PortExplained'
      BY <2>1, <2>2, <2>3, <2>4, <2>5 DEF PortSound, PortExplained, InFlight
    <2>7. CleanSound'
      <3> SUFFICES ASSUME NEW k \in Logins, InFlight(k)', login'[k].clean
                   PROVE  /\ \A j \in Logins \ {k} : ~InFlight(j)'
                          /\ jar'.port <=> login'[k].kind = "desktop"
                          /\ login'[k].at = "bootstrap" => jar'.port
        BY DEF CleanSound
      <3>1. k = l
        BY <2>2 DEF InFlight
      <3>2. (\A j \in Logins : ~InFlight(j)) /\ (kind = "desktop" \/ ~stale)
        BY <2>1, <3>1
      <3>3. \A j \in Logins \ {k} : ~InFlight(j)'
        BY <2>2, <3>1, <3>2 DEF InFlight
      <3>4. kind = "desktop" \/ ~jar.port
        BY <3>2 DEF PortSound, PortExplained
      <3> QED BY <2>1, <2>3, <3>1, <3>3, <3>4
    <2> QED BY <2>6, <2>7 DEF PortSound
  <1>2. CASE \E l \in Logins : Authorized(l)
    <2> PICK l \in Logins : Authorized(l)
      BY <1>2
    <2>1. /\ login'[l].kind = login[l].kind /\ login'[l].clean = login[l].clean
          /\ InFlight(l) /\ login'[l].at = "code"
          /\ \A k \in Logins \ {l} : login'[k] = login[k]
          /\ jar' = jar /\ stale' = stale
      BY DEF Authorized, InFlight, SignIns
    <2> QED BY <2>1 DEF PortSound, PortExplained, CleanSound, InFlight
  <1>3. CASE \E l \in Logins : NoCode(l) \/ Abandon(l) \/ RedeemFails(l)
    BY <1>3, PortLeft DEF NoCode, Abandon, RedeemFails, EndInError, End
  <1>4. CASE \E l \in Logins : Redeem(l)
    <2> PICK l \in Logins : Redeem(l)
      BY <1>4
    <2>1. InFlight(l)
      BY DEF Redeem, InFlight
    <2>2. CASE EndSignedIn(l, "home")
      BY <2>1, <2>2, PortDeleted
    <2>3. CASE /\ jar.port /\ login' = [login EXCEPT ![l].at = "bootstrap"]
               /\ UNCHANGED <<jar, landing, stale>>
      <3>1. /\ login'[l].kind = login[l].kind /\ login'[l].clean = login[l].clean
            /\ login'[l].at = "bootstrap"
            /\ \A k \in Logins \ {l} : login'[k] = login[k]
        BY <2>3 DEF SignIns
      <3> QED BY <2>1, <2>3, <3>1 DEF PortSound, PortExplained, CleanSound, InFlight
    <2> QED BY <2>2, <2>3 DEF Redeem
  <1>5. CASE \E l \in Logins : Bootstrap(l)
    BY <1>5, PortDeleted DEF Bootstrap, InFlight
  <1>6. CASE PortExpires
    <2>1. ~jar'.port
      BY <1>6 DEF PortExpires, Jars
    <2>2. ASSUME NEW k \in Logins
          PROVE  ~(InFlight(k)' /\ login'[k].clean)
      <3>1. login'[k] = [login[k] EXCEPT !.clean = @ /\ ~InFlight(k)]
        BY <1>6 DEF PortExpires
      <3> QED BY <3>1 DEF SignIns, InFlight
    <2> QED BY <2>1, <2>2 DEF PortSound, PortExplained, CleanSound
  <1>7. CASE \/ \E s \in Sessions : Revoked(s)
             \/ Admitted \/ Refused \/ Tick
             \/ LogoutRevokes \/ LogoutAnswers \/ LogoutFails \/ UNCHANGED vars
    <2>1. login' = login /\ stale' = stale /\ jar'.port = jar.port
      BY <1>7 DEF Revoked, Admitted, Refused, Tick, LogoutRevokes, LogoutAnswers,
                  LogoutFails, vars, Jars
    <2> QED BY <2>1 DEF PortSound, PortExplained, CleanSound, InFlight
  <1> QED BY <1>1, <1>2, <1>3, <1>4, <1>5, <1>6, <1>7 DEF Next, SignInStep

\* Every step keeps that a sign-in alone in its browser lands as it started.
LEMMA LandsStep ==
    ASSUME TypeOK, PortSound, LandsAsStarted, [Next]_vars
    PROVE  LandsAsStarted'
  <1> USE DEF TypeOK
  <1>1. CASE \E l \in Logins : Redeem(l) /\ ~jar.port
    <2> PICK l \in Logins : Redeem(l) /\ ~jar.port
      BY <1>1
    <2>1. /\ landing'.kind = login[l].kind /\ landing'.dest = "home"
          /\ landing'.clean = login[l].clean
      BY DEF Redeem, EndSignedIn, End
    <2>2. login[l].clean => login[l].kind # "desktop"
      BY DEF Redeem, PortSound, CleanSound, InFlight
    <2> QED BY <2>1, <2>2 DEF LandsAsStarted
  <1>2. CASE \E l \in Logins : Bootstrap(l)
    <2> PICK l \in Logins : Bootstrap(l)
      BY <1>2
    <2>1. /\ landing'.kind = login[l].kind /\ landing'.dest \in {"loopback", "error"}
          /\ landing'.clean = login[l].clean
      BY DEF Bootstrap, EndSignedIn, End
    <2>2. login[l].clean => login[l].kind = "desktop"
      BY DEF Bootstrap, PortSound, CleanSound, InFlight
    <2> QED BY <2>1, <2>2 DEF LandsAsStarted
  <1>3. CASE \E l \in Logins : NoCode(l) \/ RedeemFails(l)
    BY <1>3 DEF NoCode, RedeemFails, EndInError, End, LandsAsStarted
  <1>4. CASE landing' = landing
    BY <1>4 DEF LandsAsStarted
  <1> QED
    BY <1>1, <1>2, <1>3, <1>4
       DEF Next, SignInStep, Start, Authorized, Abandon, Redeem, Revoked, Admitted, Refused,
           PortExpires, Tick, LogoutRevokes, LogoutAnswers, LogoutFails, vars

-----------------------------------------------------------------------------
(* The invariant, and what follows from it.                                *)

\* The invariant holds at first.
LEMMA InitSound == Init => IInv
  <1> SUFFICES ASSUME Init PROVE IInv
    OBVIOUS
  <1>1. TypeOK
    BY TypeInit
  <1>2. \A l \in Logins : login[l].at = "idle"
    BY DEF Init, NoLogin
  <1>3. OneHolder
    BY <1>2 DEF Init, OneHolder, HoldsSession, Holds
  <1>4. LogoutSound /\ PortExplained /\ LandsAsStarted
    BY DEF Init, LogoutSound, PortExplained, LandsAsStarted
  <1>5. CleanSound
    BY <1>2 DEF CleanSound, InFlight
  <1> QED BY <1>1, <1>3, <1>4, <1>5 DEF IInv

\* Every step keeps it.
LEMMA NextKeeps == IInv /\ [Next]_vars => IInv'
  BY TypeStep, HolderStep, LogoutStep, PortStep, LandsStep DEF IInv, PortSound

\* IInv is an invariant.
THEOREM Invariance == Spec => []IInv
  BY InitSound, NextKeeps, PTL DEF Spec

\* A sign-in that is alone lands where it was started for: a desktop one at the
\* application, any other at the home page.
THEOREM Lands == Spec => []LandsAsStarted
  <1>1. IInv => LandsAsStarted
    BY DEF IInv
  <1> QED BY <1>1, Invariance, PTL

\* A session whose logout answered 200 is never taken again.
THEOREM SignedOut == Spec => []SignedOutIsOver
  <1>1. IInv => SignedOutIsOver
    BY DEF IInv, LogoutSound, SignedOutIsOver, IsLive
  <1> QED BY <1>1, Invariance, PTL
=============================================================================
