--------------------------- MODULE BrowserTabProofs ---------------------------
(***************************************************************************)
(* What one tab keeps invariant, for any lifetime of the session, any cap  *)
(* on reconnects and any number of sign-ins elsewhere.                     *)
(*                                                                         *)
(* The three parts of a tab meet only in what a request is answered, so    *)
(* each has an invariant of its own: ConnInv of the connection of a        *)
(* terminal page, CheckoutSound of the payment page, and SessionKept of    *)
(* the session and its refresh.  A step of the tab is, to each part, a     *)
(* step of that part or none.                                              *)
(***************************************************************************)
EXTENDS BrowserTab, TLAPS

-----------------------------------------------------------------------------
(* The connection: its invariant.                                          *)

\* Each dial after the first belongs to a reconnect that has been counted, and
\* only while it is being dialled is the next one not counted yet.
DialsCounted ==
    /\ tries <= page.attempts + 1
    /\ \A g \in Stages \ {"dialing"} : chain[g] > 0 => tries <= page.attempts

ConnInv ==
    /\ ConnTypeOK
    /\ OneAttempt
    /\ HeartbeatFollowsSocket
    /\ ProgressIsReal
    /\ DialsCounted

\* What the tab can do to the connection.
ConnNext ==
    \/ Load \/ Unload \/ TicketGranted \/ (\E shown \in Refusals : TicketRefused(shown))
    \/ Opens \/ Ready \/ ClosedUnauthorized \/ BackoffOver
    \/ \E g \in {"dialing", "authenticating", "connected"} : Dropped(g)
    \/ Cleanup \/ ClickSave \/ SaveAccepted \/ SaveRejected \/ SaveRedirected
    \/ StreamOpens \/ StreamCloses \/ SaveEnds

\* Every step of the tab is one of the connection or leaves it alone.
LEMMA TabConnects == [TabNext]_allVars => [ConnNext]_connVars
  <1> SUFFICES ASSUME [TabNext]_allVars PROVE ConnNext \/ UNCHANGED connVars
    OBVIOUS
  <1> USE DEF ConnNext
  <1>1. CASE Visit \/ SignsOut \/ RefreshAnswered
    BY <1>1 DEF Visit, VisitProfile, VisitTerminals, VisitTerminal, VisitPayment,
                TurnedAway, VisitLogin, SignsOut, RefreshAnswered, Shows, pageVars
  <1>2. CASE \/ ContentLoaded \/ Elsewhere \/ TimePasses \/ RefreshBlips
             \/ PaymentPage \/ UNCHANGED allVars
    BY <1>2 DEF ContentLoaded, Elsewhere, TimePasses, RefreshBlips, PaymentPage, allVars,
                pageVars
  <1>3. CASE SnapshotEnds
    BY <1>3 DEF SnapshotEnds
  <1>4. CASE TerminalPage
    BY <1>4 DEF TerminalPage, TicketStep, SocketStep, Unloading, Heartbeat, SaveClick,
                SaveAnswer, StreamStep, Refusals
  <1> QED BY <1>1, <1>2, <1>3, <1>4 DEF TabNext

-----------------------------------------------------------------------------
(* The stages of the one attempt.                                          *)

\* The one attempt goes to another stage.
LEMMA MovesAlone ==
    ASSUME ConnTypeOK, OneAttempt, NEW from \in Stages, NEW to \in Stages, from # to,
           Moves(from, to)
    PROVE  /\ chain' \in [Stages -> Nat]
           /\ \A g \in Stages : chain[g] = IF g = from THEN 1 ELSE 0
           /\ \A g \in Stages : chain'[g] = IF g = to THEN 1 ELSE 0
  <1>1. \A g \in Stages : chain[g] \in Nat
    BY DEF ConnTypeOK
  <1>2. chain[from] > 0
    BY DEF Moves
  <1>3. chain[from] = 1 /\ \A g \in Stages \ {from} : chain[g] = 0
    BY <1>1, <1>2 DEF OneAttempt
  <1>4. chain' = [[chain EXCEPT ![from] = chain[from] - 1] EXCEPT ![to] = chain[to] + 1]
    BY DEF Moves, ConnTypeOK
  <1> QED BY <1>3, <1>4 DEF ConnTypeOK

\* The one attempt ends.
LEMMA LeavesAlone ==
    ASSUME ConnTypeOK, OneAttempt, NEW from \in Stages, Leaves(from)
    PROVE  /\ chain' \in [Stages -> Nat]
           /\ \A g \in Stages : chain[g] = IF g = from THEN 1 ELSE 0
           /\ \A g \in Stages : chain'[g] = 0
  <1>1. \A g \in Stages : chain[g] \in Nat
    BY DEF ConnTypeOK
  <1>2. chain[from] = 1 /\ \A g \in Stages \ {from} : chain[g] = 0
    BY <1>1 DEF OneAttempt, Leaves
  <1> QED BY <1>2 DEF Leaves, ConnTypeOK

-----------------------------------------------------------------------------
(* The invariant of the connection.                                        *)

\* A page that has just been loaded.
LEMMA FreshType ==
    ASSUME NEW saving \in BOOLEAN
    PROVE  /\ FreshPage(saving) \in Pages
           /\ FreshPage(saving).attempts = 0 /\ FreshPage(saving).shown = "idle"
           /\ ~FreshPage(saving).heart /\ ~FreshPage(saving).cleaned
  <1>1. 0 \in 0 .. MaxReconnects
    BY ReconnectsAssumption
  <1> QED BY <1>1 DEF FreshPage, Pages, ConnectionStates

\* The page after an event of its connection.
LEMMA PageSets ==
    ASSUME NEW p \in Pages, NEW shown \in ConnectionStates, NEW heart \in BOOLEAN,
           NEW attempts \in 0 .. MaxReconnects
    PROVE  /\ [p EXCEPT !.shown = shown] \in Pages
           /\ [p EXCEPT !.heart = heart] \in Pages
           /\ [p EXCEPT !.attempts = attempts] \in Pages
  BY DEF Pages

\* A socket closes: the heartbeat stops, the page may show something else.
LEMMA PageCloses ==
    ASSUME page \in Pages, NEW shown \in ConnectionStates,
           NEW attempts \in 0 .. MaxReconnects,
           page' = [page EXCEPT !.heart = FALSE, !.attempts = attempts, !.shown = shown]
    PROVE  /\ page' \in Pages
           /\ page'.shown = shown /\ ~page'.heart /\ page'.attempts = attempts
           /\ page'.cleaned <=> page.cleaned
  <1>1. PICK x : x = [page EXCEPT !.heart = FALSE]
    OBVIOUS
  <1>2. PICK y : y = [x EXCEPT !.attempts = attempts]
    OBVIOUS
  <1>3. page' = [y EXCEPT !.shown = shown]
    BY <1>1, <1>2
  <1>4. FALSE \in BOOLEAN
    OBVIOUS
  <1>5. x \in Pages
    BY <1>1, <1>4, PageSets
  <1>6. y \in Pages
    BY <1>2, <1>5, PageSets
  <1>7. page' \in Pages
    BY <1>3, <1>6, PageSets
  <1> QED BY <1>1, <1>2, <1>3, <1>5, <1>6, <1>7 DEF Pages

\* No attempt is under way.
LEMMA NoneUnderWay ==
    ASSUME ConnTypeOK', \A g \in Stages : chain'[g] = 0, ~page'.heart,
           page'.shown \notin {"connecting", "authenticating", "connected", "reconnecting"}
              \/ page'.cleaned,
           tries' <= page'.attempts + 1
    PROVE  ConnInv'
  <1>1. OneAttempt' /\ HeartbeatFollowsSocket' /\ DialsCounted'
    BY DEF OneAttempt, HeartbeatFollowsSocket, DialsCounted, Stages
  <1>2. ProgressIsReal'
    BY DEF ProgressIsReal
  <1> QED BY <1>1, <1>2 DEF ConnInv

\* One is, at the stage g.
LEMMA OneUnderWay ==
    ASSUME ConnTypeOK', NEW g \in Stages,
           \A h \in Stages : chain'[h] = IF h = g THEN 1 ELSE 0,
           page'.heart <=> g \in {"authenticating", "connected"},
           page'.shown \in {"connecting", "authenticating", "connected", "reconnecting"}
              => page'.cleaned \/ g \in Backing(page'.shown),
           \/ tries' <= page'.attempts
           \/ g = "dialing" /\ tries' <= page'.attempts + 1
    PROVE  ConnInv'
  <1>1. OneAttempt' /\ HeartbeatFollowsSocket'
    BY DEF OneAttempt, HeartbeatFollowsSocket, Stages
  <1>2. DialsCounted'
    BY DEF DialsCounted, Stages, ConnTypeOK, Pages
  <1>3. ProgressIsReal'
    <2>1. chain'[g] > 0
      OBVIOUS
    <2> QED BY <2>1 DEF ProgressIsReal, Backing
  <1> QED BY <1>1, <1>2, <1>3 DEF ConnInv

\* The terminal page is opened.
LEMMA Loads ==
    ASSUME ConnTypeOK, Load
    PROVE  ConnInv'
  <1>1. PICK fresh : fresh = FreshPage(save = "Pending")
    OBVIOUS
  <1>2. /\ fresh \in Pages /\ fresh.attempts = 0 /\ ~fresh.heart
        /\ ~fresh.cleaned
    BY <1>1, FreshType
  <1>3. CASE /\ page' = [FreshPage(save = "Pending") EXCEPT !.shown = "connecting"]
             /\ chain' = [NoAttempts EXCEPT !["ticket"] = 1]
    <2>1. page' = [fresh EXCEPT !.shown = "connecting"]
      BY <1>1, <1>3
    <2>2. /\ page' \in Pages /\ page'.shown = "connecting" /\ ~page'.heart
          /\ page'.attempts = 0
      BY <1>2, <2>1 DEF Pages, ConnectionStates
    <2>3. /\ chain' \in [Stages -> Nat]
          /\ \A h \in Stages : chain'[h] = IF h = "ticket" THEN 1 ELSE 0
      BY <1>3 DEF NoAttempts, Stages
    <2>4. ConnTypeOK' /\ tries' = 0
      BY <2>2, <2>3 DEF Load, ConnTypeOK
    <2>5. "ticket" \in Stages /\ "ticket" \in Backing("connecting")
      BY DEF Stages, Backing
    <2> QED BY <2>2, <2>3, <2>4, <2>5, OneUnderWay
  <1>4. CASE page' = FreshPage(FALSE) /\ chain' = NoAttempts
    <2>1. /\ page' \in Pages /\ page'.shown = "idle" /\ ~page'.heart
          /\ page'.attempts = 0
      BY <1>4, FreshType
    <2>2. chain' \in [Stages -> Nat] /\ \A h \in Stages : chain'[h] = 0
      BY <1>4 DEF NoAttempts
    <2>3. ConnTypeOK' /\ tries' = 0
      BY <2>1, <2>2 DEF Load, ConnTypeOK
    <2>4. /\ page'.shown \notin {"connecting", "authenticating", "connected", "reconnecting"}
          /\ tries' <= page'.attempts + 1
      BY <2>1, <2>3
    <2> QED BY <2>1, <2>2, <2>3, <2>4, NoneUnderWay
  <1> QED BY <1>3, <1>4 DEF Load

\* The tab goes to another page.
LEMMA Unloads ==
    ASSUME ConnTypeOK, Unload
    PROVE  ConnInv'
  <1>1. /\ page' \in Pages /\ page'.shown = "idle" /\ ~page'.heart
        /\ page'.attempts = 0
    BY FreshType DEF Unload
  <1>2. chain' \in [Stages -> Nat] /\ \A h \in Stages : chain'[h] = 0
    BY DEF Unload, NoAttempts
  <1>3. ConnTypeOK' /\ tries' = 0
    BY <1>1, <1>2 DEF Unload, ConnTypeOK
  <1>4. /\ page'.shown \notin {"connecting", "authenticating", "connected", "reconnecting"}
        /\ tries' <= page'.attempts + 1
    BY <1>1, <1>3
  <1> QED BY <1>1, <1>2, <1>3, <1>4, NoneUnderWay

\* The answer to the request of a ticket.
LEMMA TicketKeeps ==
    ASSUME ConnInv, TicketGranted \/ \E shown \in Refusals : TicketRefused(shown)
    PROVE  ConnInv'
  <1>0. ConnTypeOK /\ OneAttempt /\ HeartbeatFollowsSocket /\ ProgressIsReal /\ DialsCounted
    BY DEF ConnInv
  <1> USE <1>0
  <1>s. {"ticket", "dialing"} \subseteq Stages
    BY DEF Stages
  <1>1. CASE TicketGranted
    <2>1. /\ chain' \in [Stages -> Nat]
          /\ \A g \in Stages : chain[g] = IF g = "ticket" THEN 1 ELSE 0
          /\ \A g \in Stages : chain'[g] = IF g = "dialing" THEN 1 ELSE 0
      BY <1>1, <1>s, MovesAlone DEF TicketGranted
    <2>2. ~page.heart /\ tries <= page.attempts
      BY <2>1, <1>s DEF HeartbeatFollowsSocket, DialsCounted, Stages
    <2>3. page.shown \in {"connecting", "authenticating", "connected", "reconnecting"}
             => page.cleaned \/ page.shown = "connecting"
      BY <2>1 DEF ProgressIsReal, Backing, Stages
    <2>4. ConnTypeOK' /\ tries' <= page.attempts + 1 /\ page' = page
      BY <1>1, <2>1, <2>2 DEF TicketGranted, ConnTypeOK, Pages
    <2>5. "dialing" \in Backing("connecting")
      BY DEF Backing
    <2> QED BY <1>s, <2>1, <2>2, <2>3, <2>4, <2>5, OneUnderWay
  <1>2. CASE \E shown \in Refusals : TicketRefused(shown)
    <2>1. PICK shown \in Refusals : TicketRefused(shown)
      BY <1>2
    <2>2. /\ chain' \in [Stages -> Nat]
          /\ \A g \in Stages : chain[g] = IF g = "ticket" THEN 1 ELSE 0
          /\ \A g \in Stages : chain'[g] = 0
      BY <1>s, <2>1, LeavesAlone DEF TicketRefused
    <2>3. ~page.heart
      BY <2>2, <1>s DEF HeartbeatFollowsSocket, Stages, ConnTypeOK, Pages
    <2>4. /\ page' \in Pages /\ page'.shown = shown /\ ~page'.heart
          /\ page'.attempts = page.attempts
      BY <2>1, <2>3 DEF TicketRefused, Show, ConnTypeOK, Pages, Refusals, ConnectionStates
    <2>5. ConnTypeOK' /\ tries' <= page'.attempts + 1
      BY <2>1, <2>2, <2>4 DEF TicketRefused, ConnTypeOK, DialsCounted
    <2> QED BY <2>2, <2>4, <2>5, NoneUnderWay DEF Refusals
  <1> QED BY <1>1, <1>2

\* What the page's socket does, or its timer: a dial that succeeds, the server
\* that is ready, a close, the end of a back-off.
LEMMA SocketKeeps ==
    ASSUME ConnInv, Opens \/ Ready \/ ClosedUnauthorized \/ BackoffOver
    PROVE  ConnInv'
  <1>0. ConnTypeOK /\ OneAttempt /\ HeartbeatFollowsSocket /\ ProgressIsReal /\ DialsCounted
    BY DEF ConnInv
  <1> USE <1>0
  <1>s. Stages = {"ticket", "dialing", "authenticating", "connected", "backoff"}
    BY DEF Stages
  <1>p. /\ page \in Pages /\ page.shown \in ConnectionStates /\ page.attempts \in Nat
        /\ page.attempts \in 0 .. MaxReconnects
        /\ page.cleaned \in BOOLEAN /\ page.heart \in BOOLEAN /\ tries \in Nat
    BY ReconnectsAssumption DEF ConnTypeOK, Pages
  <1>b. /\ "authenticating" \in Backing("authenticating")
        /\ "connected" \in Backing("connected") /\ "ticket" \in Backing("connecting")
    BY DEF Backing
  <1>1. CASE Opens
    <2>1. /\ chain' \in [Stages -> Nat]
          /\ \A g \in Stages : chain'[g] = IF g = "authenticating" THEN 1 ELSE 0
      BY <1>1, <1>s, MovesAlone DEF Opens
    <2>2. page' = [page EXCEPT !.shown = "authenticating", !.attempts = 0, !.heart = TRUE]
      BY <1>1 DEF Opens
    <2>3. 0 \in 0 .. MaxReconnects /\ "authenticating" \in ConnectionStates /\ TRUE \in BOOLEAN
      BY ReconnectsAssumption DEF ConnectionStates
    <2>4. /\ page' \in Pages /\ page'.shown = "authenticating" /\ page'.heart = TRUE
          /\ page'.attempts = 0
      <3>1. PICK x : x = [page EXCEPT !.shown = "authenticating"]
        OBVIOUS
      <3>2. PICK y : y = [x EXCEPT !.attempts = 0]
        OBVIOUS
      <3>3. page' = [y EXCEPT !.heart = TRUE]
        BY <2>2, <3>1, <3>2
      <3>4. x \in Pages
        BY <1>p, <2>3, <3>1, PageSets
      <3>5. y \in Pages
        BY <2>3, <3>2, <3>4, PageSets
      <3>6. page' \in Pages
        BY <2>3, <3>3, <3>5, PageSets
      <3> QED BY <3>1, <3>2, <3>3, <3>4, <3>5, <3>6 DEF Pages
    <2>5. ConnTypeOK' /\ tries' = 0
      BY <1>1, <2>1, <2>4 DEF Opens, ConnTypeOK
    <2> QED BY <1>s, <1>b, <2>1, <2>4, <2>5, OneUnderWay
  <1>2. CASE Ready
    <2>1. /\ chain' \in [Stages -> Nat]
          /\ \A g \in Stages : chain[g] = IF g = "authenticating" THEN 1 ELSE 0
          /\ \A g \in Stages : chain'[g] = IF g = "connected" THEN 1 ELSE 0
      BY <1>2, <1>s, MovesAlone DEF Ready
    <2>2. page.heart = TRUE
      BY <1>p, <1>s, <2>1 DEF HeartbeatFollowsSocket
    <2>3. "connected" \in ConnectionStates /\ page' = [page EXCEPT !.shown = "connected"]
      BY <1>2 DEF Ready, Show, ConnectionStates
    <2>4. /\ page' \in Pages /\ page'.shown = "connected" /\ page'.heart = TRUE
          /\ page'.attempts = page.attempts
      <3>1. page' \in Pages
        BY <1>p, <2>3, PageSets
      <3> QED BY <1>p, <2>2, <2>3, <3>1 DEF Pages
    <2>5. ConnTypeOK' /\ tries' <= page'.attempts
      BY <1>2, <1>s, <2>1, <2>4 DEF Ready, ConnTypeOK, DialsCounted
    <2> QED BY <1>s, <1>b, <2>1, <2>4, <2>5, OneUnderWay
  <1>3. CASE ClosedUnauthorized
    <2> DEFINE shown == IF page.cleaned THEN page.shown ELSE "connecting"
    <2>1. shown \in ConnectionStates
      BY <1>p DEF ConnectionStates
    <2>2. page' = [page EXCEPT !.heart = FALSE, !.attempts = page.attempts, !.shown = shown]
      BY <1>3, <1>p DEF ClosedUnauthorized, Pages
    <2> HIDE DEF shown
    <2>3. /\ page' \in Pages /\ page'.shown = shown /\ ~page'.heart
          /\ page'.attempts = page.attempts
          /\ page'.cleaned <=> page.cleaned
      <3>1. page.attempts \in 0 .. MaxReconnects /\ page \in Pages
        BY <1>p
      <3> QED BY <2>1, <2>2, <3>1, PageCloses
    <2> USE DEF shown
    <2>4. chain["authenticating"] > 0 /\ chain["authenticating"] \in Nat
      BY <1>3, <1>s DEF ClosedUnauthorized, Leaves, Moves, ConnTypeOK
    <2>5. CASE page.cleaned
      <3>1. chain' \in [Stages -> Nat] /\ \A g \in Stages : chain'[g] = 0
        BY <1>3, <1>s, <2>5, LeavesAlone DEF ClosedUnauthorized
      <3>2. ConnTypeOK' /\ tries' <= page'.attempts + 1
        BY <1>3, <2>3, <3>1 DEF ClosedUnauthorized, ConnTypeOK, DialsCounted
      <3> QED BY <2>3, <2>5, <3>1, <3>2, NoneUnderWay
    <2>6. CASE ~page.cleaned
      <3>1. /\ chain' \in [Stages -> Nat]
            /\ \A g \in Stages : chain'[g] = IF g = "ticket" THEN 1 ELSE 0
        BY <1>3, <1>s, <2>6, MovesAlone DEF ClosedUnauthorized
      <3>2. ConnTypeOK' /\ tries' <= page'.attempts
        BY <1>3, <1>s, <2>3, <2>4, <3>1 DEF ClosedUnauthorized, ConnTypeOK, DialsCounted
      <3> QED BY <1>s, <1>b, <2>3, <2>6, <3>1, <3>2, OneUnderWay
    <2> QED BY <1>p, <2>5, <2>6
  <1>4. CASE BackoffOver
    <2> DEFINE shown == IF page.cleaned THEN page.shown ELSE "connecting"
    <2>1. shown \in ConnectionStates
      BY <1>p DEF ConnectionStates
    <2>2. page' = [page EXCEPT !.shown = shown]
      BY <1>4 DEF BackoffOver
    <2> HIDE DEF shown
    <2>3. /\ page' \in Pages /\ page'.shown = shown
          /\ page'.heart <=> page.heart
          /\ page'.attempts = page.attempts
          /\ page'.cleaned <=> page.cleaned
      <3>1. page' \in Pages
        BY <1>p, <2>1, <2>2, PageSets
      <3> QED BY <1>p, <2>2, <3>1 DEF Pages
    <2> USE DEF shown
    <2>4. chain["backoff"] > 0 /\ chain["backoff"] \in Nat
      BY <1>4, <1>s DEF BackoffOver, Leaves, Moves, ConnTypeOK
    <2>5. tries' <= page'.attempts
      BY <1>4, <1>s, <2>3, <2>4 DEF BackoffOver, DialsCounted
    <2>6. CASE page.cleaned
      <3>1. /\ chain' \in [Stages -> Nat]
            /\ \A g \in Stages : chain[g] = IF g = "backoff" THEN 1 ELSE 0
            /\ \A g \in Stages : chain'[g] = 0
        BY <1>4, <1>s, <2>6, LeavesAlone DEF BackoffOver
      <3>2. ~page.heart
        BY <1>s, <3>1 DEF HeartbeatFollowsSocket
      <3>3. ConnTypeOK' /\ tries' <= page'.attempts + 1
        BY <1>4, <1>p, <2>3, <2>5, <3>1 DEF BackoffOver, ConnTypeOK
      <3> QED BY <2>3, <2>6, <3>1, <3>2, <3>3, NoneUnderWay
    <2>7. CASE ~page.cleaned
      <3>1. /\ chain' \in [Stages -> Nat]
            /\ \A g \in Stages : chain[g] = IF g = "backoff" THEN 1 ELSE 0
            /\ \A g \in Stages : chain'[g] = IF g = "ticket" THEN 1 ELSE 0
        BY <1>4, <1>s, <2>7, MovesAlone DEF BackoffOver
      <3>2. ~page.heart
        BY <1>s, <3>1 DEF HeartbeatFollowsSocket
      <3>3. ConnTypeOK'
        BY <1>4, <2>3, <3>1 DEF BackoffOver, ConnTypeOK
      <3> QED BY <1>s, <1>b, <2>3, <2>5, <2>7, <3>1, <3>2, <3>3, OneUnderWay
    <2> QED BY <1>p, <2>6, <2>7
  <1> QED BY <1>1, <1>2, <1>3, <1>4

\* A socket, or a dial, is lost: the page backs off, until it gives up.
LEMMA DropKeeps ==
    ASSUME ConnInv, NEW from \in {"dialing", "authenticating", "connected"}, Dropped(from)
    PROVE  ConnInv'
  <1>0. ConnTypeOK /\ OneAttempt /\ HeartbeatFollowsSocket /\ ProgressIsReal /\ DialsCounted
    BY DEF ConnInv
  <1> USE <1>0
  <1> DEFINE again == ~page.cleaned /\ page.attempts < MaxReconnects
             shown == IF page.cleaned THEN page.shown
                      ELSE IF again THEN "reconnecting" ELSE "error"
             attempts == IF again THEN page.attempts + 1 ELSE page.attempts
  <1>s. from \in Stages /\ "backoff" \in Stages /\ from # "backoff"
    BY DEF Stages
  <1>p. /\ page \in Pages /\ page.shown \in ConnectionStates
        /\ page.attempts \in 0 .. MaxReconnects
        /\ page.cleaned \in BOOLEAN /\ tries \in Nat /\ MaxReconnects \in Nat
    BY ReconnectsAssumption DEF ConnTypeOK, Pages
  <1>1. shown \in ConnectionStates /\ attempts \in 0 .. MaxReconnects
    BY <1>p DEF ConnectionStates
  <1>2. page' = [page EXCEPT !.heart = FALSE, !.attempts = attempts, !.shown = shown]
    BY DEF Dropped
  <1>3. IF again THEN Moves(from, "backoff") ELSE Leaves(from)
    BY DEF Dropped
  <1> HIDE DEF again, shown, attempts
  <1>4. /\ page' \in Pages
        /\ page'.shown = shown /\ ~page'.heart /\ page'.attempts = attempts
        /\ page'.cleaned <=> page.cleaned
    BY <1>p, <1>1, <1>2, PageCloses
  <1>5. CASE again
    <2>1. /\ chain' \in [Stages -> Nat]
          /\ \A g \in Stages : chain'[g] = IF g = "backoff" THEN 1 ELSE 0
      BY <1>3, <1>5, <1>s, MovesAlone
    <2>2. shown = "reconnecting" /\ attempts = page.attempts + 1
      BY <1>5 DEF again, shown, attempts
    <2>3. ConnTypeOK' /\ tries' <= page'.attempts
      BY <1>4, <2>1, <2>2 DEF Dropped, ConnTypeOK, DialsCounted
    <2>4. "backoff" \in Backing("reconnecting")
      BY DEF Backing
    <2> QED BY <1>4, <1>s, <2>1, <2>2, <2>3, <2>4, OneUnderWay
  <1>6. CASE ~again
    <2>1. chain' \in [Stages -> Nat] /\ \A g \in Stages : chain'[g] = 0
      BY <1>3, <1>6, <1>s, LeavesAlone
    <2>2. attempts = page.attempts /\ (page.cleaned \/ shown = "error")
      BY <1>6 DEF again, shown, attempts
    <2>3. ConnTypeOK' /\ tries' <= page'.attempts + 1
      BY <1>4, <2>1, <2>2 DEF Dropped, ConnTypeOK, DialsCounted
    <2>4. page'.shown \notin {"connecting", "authenticating", "connected", "reconnecting"}
             \/ page'.cleaned
      BY <1>4, <2>2
    <2> QED BY <1>4, <2>1, <2>3, <2>4, NoneUnderWay
  <1> QED BY <1>5, <1>6

\* To the connection, the page y is the page x, or x cleaned up.
SameDial(x, y) ==
    /\ y.shown = x.shown /\ y.attempts = x.attempts
    /\ y.heart <=> x.heart
    /\ x.cleaned => y.cleaned

\* Steps of the Save button, and the clean-up, set flags of the page.
LEMMA FlagSet ==
    ASSUME NEW x \in Pages, NEW b \in BOOLEAN, NEW y,
           \/ y = [x EXCEPT !.spinner = b] \/ y = [x EXCEPT !.posting = b]
           \/ y = [x EXCEPT !.stream = b]  \/ y = [x EXCEPT !.astray = b]
    PROVE  y \in Pages /\ SameDial(x, y)
  <1>1. CASE y = [x EXCEPT !.spinner = b]
    BY <1>1 DEF Pages, SameDial
  <1>2. CASE y = [x EXCEPT !.posting = b]
    BY <1>2 DEF Pages, SameDial
  <1>3. CASE y = [x EXCEPT !.stream = b]
    BY <1>3 DEF Pages, SameDial
  <1>4. CASE y = [x EXCEPT !.astray = b]
    BY <1>4 DEF Pages, SameDial
  <1> QED BY <1>1, <1>2, <1>3, <1>4

\* The Save button, its stream and the clean-up leave attempts and heartbeat alone.
LEMMA QuietPage ==
    ASSUME page \in Pages,
           \/ Cleanup \/ ClickSave \/ SaveAccepted \/ SaveRejected \/ SaveRedirected
           \/ StreamOpens \/ StreamCloses \/ SaveEnds
    PROVE  page' \in Pages /\ SameDial(page, page')
  <1>b. TRUE \in BOOLEAN /\ FALSE \in BOOLEAN
    OBVIOUS
  <1>1. CASE Cleanup
    BY <1>1 DEF Cleanup, Pages, SameDial
  <1>2. CASE ClickSave \/ SaveRejected \/ SaveRedirected
    <2>1. PICK b \in BOOLEAN, c \in BOOLEAN :
             \/ page' = [page EXCEPT !.spinner = b, !.posting = c]
             \/ page' = [page EXCEPT !.posting = c, !.spinner = b]
             \/ page' = [page EXCEPT !.posting = c, !.astray = b]
      BY <1>2, <1>b DEF ClickSave, SaveRejected, SaveRedirected
    <2>2. PICK x, y :
             /\ x = [page EXCEPT !.spinner = b]
             /\ y = [page EXCEPT !.posting = c]
      OBVIOUS
    <2>3. \/ page' = [x EXCEPT !.posting = c]
          \/ page' = [y EXCEPT !.spinner = b]
          \/ page' = [y EXCEPT !.astray = b]
      BY <2>1, <2>2
    <2>4. x \in Pages /\ SameDial(page, x) /\ y \in Pages /\ SameDial(page, y)
      BY <2>2, FlagSet
    <2>5. page' \in Pages /\ (SameDial(x, page') \/ SameDial(y, page'))
      BY <2>3, <2>4, FlagSet
    <2> QED BY <2>4, <2>5 DEF SameDial
  <1>3. CASE SaveAccepted
    BY <1>3, <1>b, FlagSet DEF SaveAccepted
  <1>4. CASE StreamOpens \/ StreamCloses
    BY <1>4, <1>b, FlagSet DEF StreamOpens, StreamCloses
  <1>5. CASE SaveEnds
    <2>1. PICK b \in BOOLEAN : b <=> page.spinner /\ ~page.stream
      OBVIOUS
    <2>2. page' = [page EXCEPT !.spinner = b]
      BY <1>5, <2>1, Zenon DEF SaveEnds
    <2> QED BY <2>2, FlagSet
  <1> QED BY <1>1, <1>2, <1>3, <1>4, <1>5

\* So they keep the invariant.
LEMMA QuietKeeps ==
    ASSUME ConnInv,
           \/ Cleanup \/ ClickSave \/ SaveAccepted \/ SaveRejected \/ SaveRedirected
           \/ StreamOpens \/ StreamCloses \/ SaveEnds
    PROVE  ConnInv'
  <1>1. ConnTypeOK /\ page \in Pages
    BY DEF ConnInv, ConnTypeOK
  <1>2. page' \in Pages /\ SameDial(page, page')
    BY <1>1, QuietPage
  <1>3. UNCHANGED <<chain, tries>> /\ save' \in {save, "Pending", "Ended"}
    BY DEF Cleanup, ClickSave, SaveAccepted, SaveRejected, SaveRedirected, StreamOpens,
           StreamCloses, SaveEnds
  <1>4. missed' \in BOOLEAN
    <2>1. missed \in BOOLEAN
      BY <1>1 DEF ConnTypeOK
    <2> QED BY <2>1 DEF Cleanup, ClickSave, SaveAccepted, SaveRejected, SaveRedirected,
                        StreamOpens, StreamCloses, SaveEnds
  <1>5. ConnTypeOK'
    BY <1>1, <1>2, <1>3, <1>4 DEF ConnTypeOK
  <1> QED BY <1>2, <1>3, <1>5 DEF ConnInv, SameDial, OneAttempt, HeartbeatFollowsSocket,
                                  ProgressIsReal, DialsCounted

\* Every step of the connection keeps its invariant.
LEMMA ConnKeeps == ConnInv /\ [ConnNext]_connVars => ConnInv'
  <1> SUFFICES ASSUME ConnInv, [ConnNext]_connVars PROVE ConnInv'
    OBVIOUS
  <1>1. CASE Load \/ Unload
    BY <1>1, Loads, Unloads DEF ConnInv
  <1>2. CASE TicketGranted \/ \E shown \in Refusals : TicketRefused(shown)
    BY <1>2, TicketKeeps
  <1>3. CASE Opens \/ Ready \/ ClosedUnauthorized \/ BackoffOver
    BY <1>3, SocketKeeps
  <1>4. CASE \E g \in {"dialing", "authenticating", "connected"} : Dropped(g)
    BY <1>4, DropKeeps
  <1>5. CASE \/ Cleanup \/ ClickSave \/ SaveAccepted \/ SaveRejected \/ SaveRedirected
             \/ StreamOpens \/ StreamCloses \/ SaveEnds
    BY <1>5, QuietKeeps
  <1>6. CASE UNCHANGED connVars
    BY <1>6 DEF connVars, ConnInv, ConnTypeOK, OneAttempt, HeartbeatFollowsSocket,
                ProgressIsReal, DialsCounted
  <1> QED BY <1>1, <1>2, <1>3, <1>4, <1>5, <1>6 DEF ConnNext

\* It holds at first.
LEMMA ConnStarts == TabInit => ConnInv
  <1> SUFFICES ASSUME TabInit PROVE ConnInv
    OBVIOUS
  <1>1. /\ page \in Pages /\ page.shown = "idle" /\ ~page.heart /\ page.attempts = 0
    BY FreshType DEF TabInit, ConnInit
  <1>2. chain \in [Stages -> Nat] /\ \A h \in Stages : chain[h] = 0
    BY DEF TabInit, ConnInit, NoAttempts
  <1>3. ConnTypeOK /\ tries = 0
    BY <1>1, <1>2 DEF TabInit, ConnInit, ConnTypeOK
  <1>4. OneAttempt /\ HeartbeatFollowsSocket /\ DialsCounted
    BY <1>1, <1>2, <1>3 DEF OneAttempt, HeartbeatFollowsSocket, DialsCounted, Stages
  <1>5. ProgressIsReal
    BY <1>1 DEF ProgressIsReal
  <1> QED BY <1>3, <1>4, <1>5 DEF ConnInv

\* The invariant of the connection holds in the tab that it is part of.
THEOREM Connection == TabSpec => []ConnInv
  <1>1. ConnInv /\ [TabNext]_allVars => ConnInv'
    BY TabConnects, ConnKeeps
  <1> QED BY <1>1, ConnStarts, PTL DEF TabSpec

\* Never two attempts at once: no ticket is asked for twice, no socket of the
\* page is forgotten, whatever order its callbacks come in.
THEOREM Attempts == TabSpec => []OneAttempt
  <1>1. ConnInv => OneAttempt
    BY DEF ConnInv
  <1> QED BY <1>1, Connection, PTL

\* The heartbeat runs exactly while a socket is open.
THEOREM Heartbeats == TabSpec => []HeartbeatFollowsSocket
  <1>1. ConnInv => HeartbeatFollowsSocket
    BY DEF ConnInv
  <1> QED BY <1>1, Connection, PTL

\* A page that says it is connecting has an attempt under way.
THEOREM Progress == TabSpec => []ProgressIsReal
  <1>1. ConnInv => ProgressIsReal
    BY DEF ConnInv
  <1> QED BY <1>1, Connection, PTL

\* The page gives up after maxReconnectAttempts, whatever that is set to.
THEOREM GivesUp == TabSpec => []DialsBounded
  <1>1. ConnInv => DialsBounded
    <2> SUFFICES ASSUME ConnInv PROVE tries <= MaxReconnects + 1
      BY DEF DialsBounded
    <2>1. page.attempts \in 0 .. MaxReconnects /\ tries \in Nat /\ tries <= page.attempts + 1
      BY DEF ConnInv, ConnTypeOK, Pages, DialsCounted
    <2> QED BY <2>1, ReconnectsAssumption
  <1> QED BY <1>1, Connection, PTL

\* A page that has cleaned up asks for no ticket, whatever is still to come in.
LEMMA QuietOnceCleaned ==
    ASSUME ConnInv, ConnNext, page.cleaned, page'.cleaned
    PROVE  chain'["ticket"] <= chain["ticket"]
  <1>1. /\ chain["ticket"] \in Nat
        /\ \A g \in Stages : chain[g] \in Nat
        /\ chain \in [Stages -> Nat]
        /\ "ticket" \in Stages /\ save \in {"None", "Pending", "Ended"}
    BY DEF ConnInv, ConnTypeOK, Stages
  <1>2. CASE Load \/ Unload
    <2>1. Unload
      <3>1. ~Load
        <4> SUFFICES ASSUME Load PROVE ~page'.cleaned
          OBVIOUS
        <4>1. PICK fresh : fresh = FreshPage(save = "Pending")
          OBVIOUS
        <4>2. fresh \in Pages /\ ~fresh.cleaned
          BY <4>1, FreshType
        <4>3. CASE page' = [fresh EXCEPT !.shown = "connecting"]
          BY <4>2, <4>3 DEF Pages
        <4>4. CASE page' = FreshPage(FALSE)
          BY <4>4, FreshType
        <4> QED BY <4>1, <4>3, <4>4 DEF Load
      <3> QED BY <1>2, <3>1
    <2>2. ~page'.cleaned
      BY <2>1, FreshType DEF Unload
    <2> QED BY <2>2
  <1>3. CASE TicketGranted \/ \E shown \in Refusals : TicketRefused(shown)
    BY <1>1, <1>3 DEF TicketGranted, TicketRefused, Moves, Leaves
  <1>4. CASE Opens \/ Ready
    BY <1>1, <1>4 DEF Opens, Ready, Moves
  <1>5. CASE ClosedUnauthorized \/ BackoffOver
    BY <1>1, <1>5 DEF ClosedUnauthorized, BackoffOver, Leaves
  <1>6. CASE \E g \in {"dialing", "authenticating", "connected"} : Dropped(g)
    BY <1>1, <1>6 DEF Dropped, Leaves
  <1>7. CASE \/ Cleanup \/ ClickSave \/ SaveAccepted \/ SaveRejected \/ SaveRedirected
             \/ StreamOpens \/ StreamCloses \/ SaveEnds
    <2>1. UNCHANGED chain
      BY <1>7 DEF Cleanup, ClickSave, SaveAccepted, SaveRejected, SaveRedirected,
                  StreamOpens, StreamCloses, SaveEnds
    <2> QED BY <1>1, <2>1
  <1> QED BY <1>2, <1>3, <1>4, <1>5, <1>6, <1>7 DEF ConnNext

\* Once cleanup() has run, the page asks for no other ticket: timers and callbacks
\* that are still due find isCleanedUp set.
THEOREM CleanedUp == TabSpec => CleanedPageDialsNoMore
  <1>1. ConnInv /\ [TabNext]_allVars
          => [page.cleaned /\ page'.cleaned => chain'["ticket"] <= chain["ticket"]]_connVars
    BY TabConnects, QuietOnceCleaned
  <1> QED BY <1>1, Connection, PTL DEF TabSpec, CleanedPageDialsNoMore

-----------------------------------------------------------------------------
(* The payment page.                                                       *)

\* What has been charged since the page loaded is under its key.
CheckoutSound ==
    /\ CheckoutTypeOK
    /\ checkout.charged \subseteq {checkout.key}

CheckoutNext ==
    \/ CheckoutLoads \/ checkout' = NoCheckout
    \/ ClickPay \/ PaymentAnswered \/ PaymentFails \/ PaymentRedirected

\* Every step of the tab is one of the checkout or leaves it alone.
LEMMA TabPays == [TabNext]_allVars => [CheckoutNext]_checkout
  <1> SUFFICES ASSUME [TabNext]_allVars PROVE CheckoutNext \/ UNCHANGED checkout
    OBVIOUS
  <1> USE DEF CheckoutNext
  <1>1. CASE Visit \/ SignsOut \/ RefreshAnswered
    BY <1>1 DEF Visit, VisitProfile, VisitTerminals, VisitTerminal, VisitPayment,
                TurnedAway, VisitLogin, SignsOut, RefreshAnswered, Shows, pageVars
  <1>2. CASE ContentLoaded \/ Elsewhere \/ TimePasses \/ RefreshBlips \/ UNCHANGED allVars
    BY <1>2 DEF ContentLoaded, Elsewhere, TimePasses, RefreshBlips, allVars, pageVars
  <1>3. CASE SnapshotEnds \/ TerminalPage
    BY <1>3 DEF SnapshotEnds, TerminalPage
  <1>4. CASE PaymentPage
    BY <1>4 DEF PaymentPage
  <1> QED BY <1>1, <1>2, <1>3, <1>4 DEF TabNext

\* An answer of the gateway charges the page's own key.
LEMMA AnswerKeeps ==
    ASSUME CheckoutSound, NEW notice \in {"paid", "failed"},
           NEW charged \in {{}, {checkout.key}}, Answered(notice, charged)
    PROVE  CheckoutSound'
  <1>1. checkout \in Checkouts /\ checkout.key \in Nat
    BY DEF CheckoutSound, CheckoutTypeOK, Checkouts
  <1>2. PICK x : x = [checkout EXCEPT !.loading = FALSE]
    OBVIOUS
  <1>3. PICK y : y = [x EXCEPT !.notice = notice]
    OBVIOUS
  <1>4. checkout' = [y EXCEPT !.charged = checkout.charged \cup charged]
    BY <1>2, <1>3 DEF Answered
  <1>5. x \in Checkouts /\ x.key = checkout.key
    BY <1>1, <1>2 DEF Checkouts
  <1>6. y \in Checkouts /\ y.key = checkout.key
    BY <1>3, <1>5 DEF Checkouts
  <1>7. /\ checkout.charged \cup charged \in SUBSET Nat
        /\ checkout.charged \cup charged \subseteq {checkout.key}
    BY <1>1 DEF CheckoutSound
  <1>8. checkout' \in Checkouts /\ checkout'.key = checkout.key
         /\ checkout'.charged = checkout.charged \cup charged
    BY <1>4, <1>6, <1>7 DEF Checkouts
  <1> QED BY <1>7, <1>8 DEF CheckoutSound, CheckoutTypeOK

\* Every step of the checkout keeps what is known of it.
LEMMA CheckoutKeeps == CheckoutSound /\ [CheckoutNext]_checkout => CheckoutSound'
  <1> SUFFICES ASSUME CheckoutSound, [CheckoutNext]_checkout PROVE CheckoutSound'
    OBVIOUS
  <1>1. CASE CheckoutLoads
    <2>1. NoCheckout \in Checkouts /\ NoCheckout.charged = {}
      BY DEF NoCheckout, Checkouts
    <2>2. checkout' \in Checkouts /\ checkout'.charged = {}
      BY <1>1, <2>1 DEF CheckoutLoads, Checkouts
    <2> QED BY <2>2 DEF CheckoutSound, CheckoutTypeOK
  <1>2. CASE checkout' = NoCheckout
    BY <1>2 DEF NoCheckout, Checkouts, CheckoutSound, CheckoutTypeOK
  <1>3. CASE ClickPay
    BY <1>3 DEF ClickPay, Checkouts, CheckoutSound, CheckoutTypeOK
  <1>4. CASE PaymentAnswered \/ PaymentFails \/ PaymentRedirected
    BY <1>4, AnswerKeeps DEF PaymentAnswered, PaymentFails, PaymentRedirected
  <1>5. CASE UNCHANGED checkout
    BY <1>5 DEF CheckoutSound, CheckoutTypeOK
  <1> QED BY <1>1, <1>2, <1>3, <1>4, <1>5 DEF CheckoutNext

\* So it always holds.
LEMMA CheckoutHolds == TabSpec => []CheckoutSound
  <1>1. TabInit => CheckoutSound
    BY DEF TabInit, NoCheckout, Checkouts, CheckoutSound, CheckoutTypeOK
  <1>2. CheckoutSound /\ [TabNext]_allVars => CheckoutSound'
    BY TabPays, CheckoutKeeps
  <1> QED BY <1>1, <1>2, PTL DEF TabSpec

\* Whatever was lost on the way, what one visit of the page is charged for is
\* charged under one key.
THEOREM OnePurchase == TabSpec => []PaysOnce
  <1>1. CheckoutSound => PaysOnce
    BY DEF CheckoutSound, PaysOnce
  <1> QED BY <1>1, CheckoutHolds, PTL

-----------------------------------------------------------------------------
(* The session and its refresh.                                            *)

\* On a page of the application whose refresh is started or still may be, a
\* session that is alive is idle for the ticks
\* whose calls were lost, and for the one whose call is still to be made; one
\* that has run out did so when the tick came after too many of them.
SessionKept ==
    at \in AppPages /\ refresher # "off" =>
        /\ access.signed = "in" => access.idle <= blips + (IF due THEN 1 ELSE 0)
        /\ access.signed = "over" /\ access.idle = Ttl => blips + 1 >= Ttl

SessionInv ==
    /\ access \in Accesses /\ access.offers <= MaxOffers
    /\ at \in AppPages \cup {"login", "broken"}
    /\ refresher \in {"unset", "on", "off"}
    /\ due \in BOOLEAN
    /\ blips \in 0 .. Ttl
    /\ SessionKept

\* What the session is set to by anything but time.
LEMMA AccessSets ==
    ASSUME access \in Accesses, NEW signed \in {"out", "in", "over"}, NEW idle \in 0 .. Ttl,
           access' = [access EXCEPT !.signed = signed, !.idle = idle]
    PROVE  /\ access' \in Accesses
           /\ access'.signed = signed /\ access'.idle = idle
           /\ access'.offers = access.offers
  <1>1. PICK x : x = [access EXCEPT !.signed = signed]
    OBVIOUS
  <1>2. access' = [x EXCEPT !.idle = idle]
    BY <1>1
  <1>3. /\ x \in Accesses /\ x.signed = signed /\ x.offers = access.offers
    BY <1>1 DEF Accesses
  <1> QED BY <1>2, <1>3 DEF Accesses

\* A session may have its first and its last tick.
LEMMA ZeroTicks == 0 \in 0 .. Ttl /\ Ttl \in 0 .. Ttl /\ Ttl > 0
  BY TtlAssumption

\* A request that is let in extends the session.
LEMMA AdmittedSets ==
    ASSUME access \in Accesses, Admitted
    PROVE  access' \in Accesses /\ access'.idle = 0 /\ access'.offers = access.offers
  BY AccessSets, ZeroTicks DEF Admitted, In

\* Anything but time leaves the session as idle as it was, or ends its idleness.
LEMMA AccessMoves ==
    ASSUME access \in Accesses, access.offers <= MaxOffers,
           \/ Admitted \/ Refused \/ Enters \/ Forfeits \/ Clears \/ Ends
           \/ Offers /\ access.offers < MaxOffers
    PROVE  /\ access' \in Accesses /\ access'.offers <= MaxOffers
           /\ \/ access'.idle = 0
              \/ access'.signed = access.signed /\ access'.idle = access.idle
  <1> USE OffersAssumption
  <1>1. /\ access.offers \in Nat /\ access.idle \in 0 .. Ttl
        /\ access.signed \in {"out", "in", "over"}
    BY DEF Accesses
  <1>2. CASE Admitted
    BY <1>2, AdmittedSets
  <1>3. CASE Refused
    BY <1>3 DEF Refused
  <1>4. CASE Clears
    BY <1>4, AccessSets, ZeroTicks DEF Clears, Out
  <1>5. CASE Ends
    BY <1>5, AccessSets, ZeroTicks DEF Ends, Over
  <1>6. CASE Enters \/ Forfeits
    <2>1. PICK signed \in {"out", "in", "over"}, idle \in {0, access.idle} :
             /\ UsesOffer(signed, idle)
             /\ idle = 0 \/ signed = access.signed
      BY <1>1, <1>6 DEF Enters, Forfeits
    <2>2. access.offers - 1 \in Nat /\ access.offers - 1 <= MaxOffers /\ idle \in 0 .. Ttl
      BY <1>1, <2>1, ZeroTicks DEF UsesOffer
    <2> QED BY <2>1, <2>2 DEF UsesOffer, Accesses
  <1>7. CASE Offers /\ access.offers < MaxOffers
    <2>1. access.offers + 1 \in Nat /\ access.offers + 1 <= MaxOffers
      BY <1>1, <1>7
    <2>2. access' = [access EXCEPT !.offers = access.offers + 1]
      BY <1>7 DEF Offers
    <2> QED BY <2>1, <2>2 DEF Accesses
  <1> QED BY <1>2, <1>3, <1>4, <1>5, <1>6, <1>7

\* The tab goes to a page: to one of the application only with the session.
LEMMA ShowsKeeps ==
    ASSUME access' \in Accesses, access'.offers <= MaxOffers,
           NEW p \in AppPages \cup {"login", "broken"}, Shows(p),
           p \in AppPages => access'.idle = 0
    PROVE  SessionInv'
  <1>1. /\ at' = p /\ due' = FALSE /\ blips' = 0
        /\ refresher' \in {"unset", "on", "off"}
    BY DEF Shows
  <1>2. SessionKept'
    BY <1>1, ZeroTicks DEF SessionKept
  <1> QED BY <1>1, <1>2, ZeroTicks DEF SessionInv

\* The tab stays where it is while the session moves.
LEMMA StaysKeeps ==
    ASSUME SessionInv, UNCHANGED tabVars,
           access' \in Accesses, access'.offers <= MaxOffers,
           \/ access'.idle = 0
           \/ access'.signed = access.signed /\ access'.idle = access.idle
    PROVE  SessionInv'
  <1>1. blips \in Nat /\ due \in BOOLEAN
    BY DEF SessionInv
  <1>2. SessionKept'
    BY <1>1, ZeroTicks DEF SessionInv, SessionKept, tabVars
  <1> QED BY <1>2 DEF SessionInv, tabVars

\* A tick: on a page of the application the call of the tick before was made.
LEMMA TimeKeeps ==
    ASSUME SessionInv, TimePasses
    PROVE  SessionInv'
  <1>1. /\ access \in Accesses /\ access.idle \in 0 .. Ttl /\ blips \in 0 .. Ttl
        /\ access.offers <= MaxOffers /\ Ttl \in Nat /\ access.signed \in {"in", "out", "over"}
    BY TtlAssumption DEF SessionInv, Accesses
  <1>2. /\ ~due /\ at' = at /\ blips' = blips
        /\ refresher # "unset" /\ refresher' = refresher
        /\ refresher \in {"unset", "on", "off"}
        /\ due' <=> refresher = "on"
        /\ due' \in BOOLEAN
    <2>1. /\ ~due /\ at' = at /\ blips' = blips
          /\ refresher # "unset" /\ refresher' = refresher
          /\ refresher \in {"unset", "on", "off"}
      BY DEF TimePasses, SessionInv
    <2>2. PICK watched \in BOOLEAN : watched <=> refresher = "on"
      OBVIOUS
    <2>3. due' = watched
      BY <2>2, Zenon DEF TimePasses
    <2> QED BY <2>1, <2>2, <2>3
  <1>3. CASE access' = Out
    <2>1. /\ access' \in Accesses /\ access'.signed = "out"
          /\ access'.offers = access.offers
      BY <1>1, <1>3, AccessSets, ZeroTicks DEF Out
    <2>2. SessionKept'
      BY <2>1 DEF SessionKept
    <2> QED BY <1>1, <1>2, <2>1, <2>2 DEF SessionInv
  <1>4. CASE SignedIn /\ access.idle + 1 < Ttl /\ access' = In(access.idle + 1)
    <2>1. access.idle + 1 \in 0 .. Ttl
      BY <1>1, <1>4
    <2>2. /\ access' \in Accesses /\ access'.signed = "in"
          /\ access'.idle = access.idle + 1
          /\ access'.offers = access.offers
      BY <1>1, <1>4, <2>1, AccessSets DEF In
    <2>3. at \in AppPages /\ refresher # "off" => access.idle <= blips
      BY <1>1, <1>2, <1>4 DEF SessionInv, SessionKept, SignedIn
    <2>4. SessionKept'
      <3> SUFFICES ASSUME at' \in AppPages, refresher' # "off"
                   PROVE  access'.idle <= blips' + (IF due' THEN 1 ELSE 0)
        BY <2>2 DEF SessionKept
      <3>1. due' /\ blips' + (IF due' THEN 1 ELSE 0) = blips + 1
        BY <1>2
      <3> QED BY <1>1, <1>2, <2>2, <2>3, <3>1
    <2> QED BY <1>1, <1>2, <2>2, <2>4 DEF SessionInv
  <1>5. CASE SignedIn /\ access.idle + 1 >= Ttl /\ access' = Over(Ttl)
    <2>1. /\ access' \in Accesses /\ access'.signed = "over"
          /\ access'.offers = access.offers
      BY <1>1, <1>5, ZeroTicks, AccessSets DEF Over
    <2>2. at \in AppPages /\ refresher # "off" => blips + 1 >= Ttl
      BY <1>1, <1>2, <1>5 DEF SessionInv, SessionKept, SignedIn
    <2>3. SessionKept'
      BY <1>2, <2>1, <2>2 DEF SessionKept
    <2> QED BY <1>1, <1>2, <2>1, <2>3 DEF SessionInv
  <1>6. CASE ~SignedIn /\ access' = access
    BY <1>2, <1>6 DEF SessionInv, SessionKept, SignedIn
  <1>7. access.idle + 1 < Ttl \/ access.idle + 1 >= Ttl
    BY <1>1
  <1> QED BY <1>3, <1>4, <1>5, <1>6, <1>7 DEF TimePasses, TickOver

\* Every step keeps what is known of the session.
LEMMA SessionKeeps == SessionInv /\ [TabNext]_allVars => SessionInv'
  <1> SUFFICES ASSUME SessionInv, [TabNext]_allVars PROVE SessionInv'
    OBVIOUS
  <1>0. access \in Accesses /\ access.offers <= MaxOffers /\ blips \in 0 .. Ttl /\ Ttl \in Nat
    BY TtlAssumption DEF SessionInv
  <1>1. CASE Visit
    <2>1. CASE \E p \in AppPages \cup {"broken"} : Admitted /\ Shows(p)
      BY <1>0, <2>1, AdmittedSets, ShowsKeeps
    <2>2. CASE (Refused \/ UNCHANGED access) /\ Shows("login")
      BY <1>0, <2>2, ShowsKeeps DEF Refused, AppPages
    <2> QED BY <1>1, <2>1, <2>2 DEF Visit, VisitProfile, VisitTerminals, VisitTerminal,
                                    VisitPayment, TurnedAway, VisitLogin, AppPages
  <1>2. CASE Elsewhere
    <2>1. UNCHANGED tabVars
      BY <1>2 DEF Elsewhere
    <2> QED BY <1>0, <1>2, <2>1, AccessMoves, StaysKeeps DEF Elsewhere
  <1>3. CASE SignsOut
    <2>1. access' \in Accesses /\ access'.offers <= MaxOffers
      BY <1>0, <1>3, AccessMoves DEF SignsOut
    <2> QED BY <1>3, <2>1, ShowsKeeps DEF SignsOut, SidebarPages, AppPages
  <1>4. CASE TimePasses
    BY <1>4, TimeKeeps
  <1>5. CASE RefreshAnswered
    <2>1. CASE Admitted /\ due' = FALSE /\ blips' = 0 /\ UNCHANGED <<at, refresher>>
      <3>1. /\ access' \in Accesses /\ access'.idle = 0 /\ access'.offers <= MaxOffers
        BY <1>0, <2>1, AdmittedSets
      <3>2. SessionKept'
        BY <2>1, <3>1, ZeroTicks DEF SessionKept
      <3>3. due' \in BOOLEAN /\ blips' \in 0 .. Ttl
        BY <2>1, ZeroTicks
      <3> QED BY <2>1, <3>1, <3>2, <3>3 DEF SessionInv
    <2>2. CASE Refused /\ Shows("login")
      BY <1>0, <2>2, ShowsKeeps DEF Refused, AppPages
    <2> QED BY <1>5, <2>1, <2>2 DEF RefreshAnswered
  <1>6. CASE RefreshBlips
    <2>1. due /\ blips < Ttl /\ ~due' /\ due' \in BOOLEAN /\ blips' = blips + 1
           /\ UNCHANGED <<access, at, refresher>>
      BY <1>6 DEF RefreshBlips
    <2>2. access.idle \in Nat /\ blips' \in 0 .. Ttl
      BY <1>0, <2>1 DEF Accesses
    <2>3. SessionKept'
      BY <1>0, <2>1, <2>2 DEF SessionInv, SessionKept
    <2> QED BY <2>1, <2>2, <2>3 DEF SessionInv
  <1>7. CASE TerminalPage
    <2>1. UNCHANGED tabVars /\ (Admitted \/ Refused)
      BY <1>7 DEF TerminalPage, TicketStep, SocketStep, Unloading, Heartbeat, SaveClick,
                  SaveAnswer, StreamStep, Refused
    <2> QED BY <1>0, <2>1, AccessMoves, StaysKeeps
  <1>8. CASE PaymentPage
    <2>1. UNCHANGED tabVars /\ (Admitted \/ Refused)
      BY <1>8 DEF PaymentPage, Refused
    <2> QED BY <1>0, <2>1, AccessMoves, StaysKeeps
  <1>9. CASE SnapshotEnds \/ UNCHANGED allVars
    BY <1>0, <1>9, StaysKeeps DEF SnapshotEnds, allVars
  <1>10. CASE ContentLoaded
    <2>1. /\ refresher = "unset" /\ refresher' \in {"unset", "on", "off"}
          /\ UNCHANGED <<access, at, due, blips>>
      BY <1>10 DEF ContentLoaded
    <2>2. SessionKept'
      BY <2>1 DEF SessionInv, SessionKept
    <2> QED BY <2>1, <2>2 DEF SessionInv
  <1> QED BY <1>1, <1>2, <1>3, <1>4, <1>5, <1>6, <1>7, <1>8, <1>9, <1>10 DEF TabNext

\* So it always holds.
LEMMA SessionHolds == TabSpec => []SessionInv
  <1>1. TabInit => SessionInv
    <2> SUFFICES ASSUME TabInit PROVE SessionInv
      OBVIOUS
    <2>1. /\ access = [signed |-> "out", idle |-> 0, offers |-> 0] /\ at = "login"
          /\ refresher = "off"
      BY DEF TabInit, SessionInit
    <2>2. access \in Accesses /\ access.offers <= MaxOffers
      BY <2>1, OffersAssumption, ZeroTicks DEF Accesses
    <2>3. SessionKept
      BY <2>1 DEF SessionKept, AppPages
    <2>4. due \in BOOLEAN /\ blips \in 0 .. Ttl
      BY ZeroTicks DEF TabInit
    <2> QED BY <2>1, <2>2, <2>3, <2>4 DEF SessionInv
  <1> QED BY <1>1, SessionKeeps, PTL DEF TabSpec

\* The whole state of the tab keeps its type; above all the page never counts
\* more reconnects than maxReconnectAttempts.
THEOREM TypeCorrect == TabSpec => []TabTypeOK
  <1>1. SessionInv /\ ConnInv /\ CheckoutSound => TabTypeOK
    BY DEF SessionInv, ConnInv, CheckoutSound, TabTypeOK
  <1> QED BY <1>1, SessionHolds, Connection, CheckoutHolds, PTL

\* Whatever the life of a session, it runs out under an open page only when
\* nearly all the refresh calls of that life were lost.
THEOREM Refreshed == TabSpec => []PageKeepsSession
  <1>1. SessionInv => PageKeepsSession
    <2> SUFFICES ASSUME SessionInv, at \in AppPages, refresher = "on", access = Over(Ttl)
                 PROVE  blips + 1 >= Ttl
      BY DEF PageKeepsSession
    <2>1. access.signed = "over" /\ access.idle = Ttl
      BY DEF Over, SessionInv, Accesses
    <2> QED BY <2>1 DEF SessionInv, SessionKept
  <1> QED BY <1>1, SessionHolds, PTL
=============================================================================
