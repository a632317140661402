----------------------------- MODULE BrowserTab -----------------------------
(***************************************************************************)
(* One tab of the browser: the pages served by src/template_handlers.py,   *)
(* the session refresh and the logout of templates/static/js/base.js, and, *)
(* on the pages that have them, the terminal connection and the checkout.  *)
(* It composes SessionLife (which AuthSession implements),                 *)
(* TerminalConnection and Checkout: every request a page makes is let in   *)
(* or refused by the session of the browser, which other tabs share.       *)
(*                                                                         *)
(* A fetch that authenticate_session refuses is not told so: it follows    *)
(* the redirect and gets the login page, as a 200.                         *)
(***************************************************************************)
EXTENDS SessionLife, TerminalConnection, Checkout

CONSTANT MaxOffers          \* bound on the sign-ins under way elsewhere

ASSUME OffersAssumption == MaxOffers \in Nat

VARIABLES
    at,         \* the page the tab shows
    refresher,  \* its SessionRefreshManager: not yet, started, never started
    due,        \* the refresh interval has elapsed and its call is to be made
    blips       \* history: refresh calls in a row that never reached the server

tabVars == <<at, refresher, due, blips>>

pageVars == <<connVars, checkout>>

allVars == <<access, pageVars, tabVars>>

\* list stands for every page that only reads: home, terminals, profile.
AppPages == {"list", "terminal", "payment"}

\* Those whose template extends base.html, with its sidebar and logout button.
SidebarPages == AppPages \ {"terminal"}

TabTypeOK ==
    /\ access \in Accesses /\ access.offers <= MaxOffers
    /\ ConnTypeOK /\ CheckoutTypeOK
    /\ at \in AppPages \cup {"login", "broken"}
    /\ refresher \in {"unset", "on", "off"}
    /\ due \in BOOLEAN
    /\ blips \in 0 .. Ttl

TabInit ==
    /\ SessionInit /\ ConnInit
    /\ checkout = NoCheckout
    /\ at = "login" /\ refresher = "off"
    /\ due = FALSE /\ blips = 0

-----------------------------------------------------------------------------
(* Pages.                                                                  *)

\* The page arrives; its scripts run at DOMContentLoaded, later.  A broken one
\* is an error and has none.
Shows(p) ==
    /\ at' = p /\ due' = FALSE /\ blips' = 0
    /\ refresher' = IF p = "broken" THEN "off" ELSE "unset"
    /\ IF p = "terminal" THEN Load ELSE Unload
    /\ IF p = "payment" THEN CheckoutLoads ELSE checkout' = NoCheckout

\* home and profile, which render whatever Cloud answers.
VisitProfile == Admitted /\ Shows("list")

\* terminals fails without the images or a token for the stream of events.
VisitTerminals == Admitted /\ (Shows("list") \/ Shows("broken"))

\* terminalpage shows an error in the place of a container that cannot be read,
\* but fails without the token.
VisitTerminal == Admitted /\ (Shows("terminal") \/ Shows("broken"))

\* payment looks the plan up, and fails if it cannot.
VisitPayment == Admitted /\ (Shows("payment") \/ Shows("broken"))

\* authenticate_session answers any of them with a redirect to the login page.
TurnedAway == Refused /\ Shows("login")

\* The login page itself asks nobody.
VisitLogin == UNCHANGED access /\ Shows("login")

Visit ==
    \/ VisitProfile \/ VisitTerminals \/ VisitTerminal \/ VisitPayment
    \/ TurnedAway \/ VisitLogin

\* A sign-in or a logout in another tab, or a session revoked by Cloud; this tab
\* is not told.
Elsewhere ==
    /\ \/ Offers /\ access.offers < MaxOffers
       \/ Enters \/ Forfeits \/ Clears \/ Ends
    /\ UNCHANGED <<pageVars, tabVars>>

\* DOMContentLoaded: initialize starts the refresh if the csrf_token cookie, set
\* and cleared with that of the session, is there by now.  It does not get so
\* far where it is to restore a collapsed sidebar, the user's choice on any page
\* before, on a page that has none.
ContentLoaded ==
    /\ refresher = "unset"
    /\ \E collapsed \in BOOLEAN :
          refresher' = IF /\ access.signed # "out"
                          /\ collapsed => at \in SidebarPages
                       THEN "on" ELSE "off"
    /\ UNCHANGED <<access, pageVars, at, due, blips>>

\* handleLogout goes to the login page whatever the answer: the session is over
\* and the cookies cleared, or the call failed before or after it took effect.
SignsOut ==
    /\ at \in SidebarPages /\ refresher # "unset"
    /\ Clears \/ Ends \/ UNCHANGED access
    /\ Shows("login")

-----------------------------------------------------------------------------
(* SessionRefreshManager: a call each interval, on a page where it was      *)
(* started.  A page takes less than an interval to load.                    *)

\* Variant, not part of the specification.  PageKeepsSession: the interval is
\* never set on the terminal page.
TimePassesUnwatched ==
    /\ ~due /\ refresher # "unset"
    /\ TickOver
    /\ due' = (refresher = "on" /\ at # "terminal")
    /\ UNCHANGED <<pageVars, at, refresher, blips>>

TimePasses ==
    /\ ~due /\ refresher # "unset"
    /\ TickOver
    /\ due' = (refresher = "on")
    /\ UNCHANGED <<pageVars, at, refresher, blips>>

\* Variant, not part of the specification.  DeadPageLeaves: a refresh that is
\* refused is only logged.
RefreshIgnoringRefusal ==
    /\ due
    /\ Admitted \/ Refused
    /\ due' = FALSE /\ blips' = 0
    /\ UNCHANGED <<pageVars, at, refresher>>

RefreshAnswered ==
    /\ due
    /\ \/ /\ Admitted
          /\ due' = FALSE /\ blips' = 0
          /\ UNCHANGED <<pageVars, at, refresher>>
       \/ Refused /\ Shows("login")

\* The call does not reach the server; at most Ttl times in a row.
RefreshBlips ==
    /\ due /\ blips < Ttl
    /\ due' = FALSE /\ blips' = blips + 1
    /\ UNCHANGED <<access, pageVars, at, refresher>>

-----------------------------------------------------------------------------
(* The terminal page.                                                      *)

TicketStep ==
    \/ TicketGranted /\ Admitted
    \/ (\E shown \in Refusals : TicketRefused(shown)) /\ Admitted
    \/ TicketRefused("error") /\ (Refused \/ UNCHANGED access)

\* What socket-ssh, the network and the page's own timers do.
SocketStep ==
    /\ \/ Opens \/ Ready \/ ClosedUnauthorized \/ BackoffOver
       \/ \E g \in {"dialing", "authenticating", "connected"} : Dropped(g)
    /\ UNCHANGED access

Unloading == Cleanup /\ UNCHANGED access

\* POST /container-activity: only what it does to the session counts here.
Heartbeat == page.heart /\ (Admitted \/ Refused) /\ UNCHANGED connVars

SaveClick == ClickSave /\ UNCHANGED access

SaveAnswer ==
    \/ SaveAccepted /\ Admitted
    \/ SaveRejected /\ (Admitted \/ UNCHANGED access)
    \/ SaveRedirected /\ Refused

StreamStep == (StreamOpens \/ StreamCloses) /\ UNCHANGED access

TerminalPage ==
    /\ at = "terminal" /\ refresher # "unset"
    /\ \/ TicketStep \/ SocketStep \/ Unloading \/ Heartbeat
       \/ SaveClick \/ SaveAnswer \/ StreamStep
    /\ UNCHANGED <<checkout, tabVars>>

\* The save ends, if it does, whether or not the page is there.
SnapshotEnds == SaveEnds /\ UNCHANGED <<access, checkout, tabVars>>

-----------------------------------------------------------------------------
(* The payment page.                                                       *)

PaymentPage ==
    /\ at = "payment" /\ refresher # "unset"
    /\ \/ ClickPay /\ UNCHANGED access
       \/ PaymentAnswered /\ Admitted
       \/ PaymentFails /\ (Admitted \/ UNCHANGED access)
       \/ PaymentRedirected /\ Refused
    /\ UNCHANGED <<connVars, tabVars>>

TabNext ==
    \/ Visit \/ ContentLoaded \/ Elsewhere \/ SignsOut
    \/ TimePasses \/ RefreshAnswered \/ RefreshBlips
    \/ TerminalPage \/ SnapshotEnds \/ PaymentPage

\* Time passes, a call that is due is made and answered, a fetch in the air
\* ends.  Nothing is assumed of users, sockets, Cloud or snapshots: a hibernate
\* whose saveContainer fails, or a restart, may leave a save Pending for good.
TabFairness ==
    /\ WF_allVars(TimePasses)
    /\ WF_allVars(RefreshAnswered)
    /\ WF_allVars(/\ at = "terminal" /\ refresher # "unset"
                  /\ SaveAnswer /\ UNCHANGED <<checkout, tabVars>>)

TabSpec == TabInit /\ [][TabNext]_allVars /\ TabFairness

-----------------------------------------------------------------------------
(* A tab whose refresh was started is left on a page with a session that   *)
(* has run out only when its refresh calls were lost for almost the whole  *)
(* life of the session: the refresh keeps the session alive on a page      *)
(* where nothing else would.  No such thing holds of a page that could not *)
(* start it: where a logout elsewhere took the csrf_token cookie while the *)
(* page was loading, or the terminal page of a user whose sidebar is       *)
(* collapsed.                                                              *)
PageKeepsSession ==
    at \in AppPages /\ refresher = "on" /\ access = Over(Ttl) => blips + 1 >= Ttl

\* "rather than leaving the page silently unauthenticated": a page that has
\* started its refresh and whose session is over, by whatever cause, goes to the
\* login page, unless the user has signed in again in the meantime.
DeadPageLeaves ==
    (at \in AppPages /\ refresher = "on" /\ ~SignedIn)
        ~> (at \notin AppPages \/ SignedIn)

\* If no save stays Pending for good, the Save spinner stops, unless the page was
\* not listening when the save ended, or its request had ended at the login page.
SaveSpinnerEnds ==
    []<>(save # "Pending") =>
        ((at = "terminal" /\ page.spinner)
            ~> (~page.spinner \/ missed \/ page.astray))
=============================================================================
