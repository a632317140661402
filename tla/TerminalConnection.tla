-------------------------- MODULE TerminalConnection --------------------------
(***************************************************************************)
(* The page of one terminal, templates/static/js/terminalpage.js: how it   *)
(* gets and keeps its WebSocket to socket-ssh, and the spinner of its Save *)
(* button.                                                                 *)
(*                                                                         *)
(* A connection attempt is a ticket fetched from POST /terminal-session, a *)
(* dial, and an authentication by the ticket.  The page's callbacks could  *)
(* start an attempt while another is under way, so `chain` counts the      *)
(* attempts at each stage instead of naming the stage of one.              *)
(*                                                                         *)
(* Whether the server lets a request in is the business of AuthSession:    *)
(* BrowserTab puts the two together.                                       *)
(***************************************************************************)
EXTENDS Naturals

CONSTANT MaxReconnects      \* maxReconnectAttempts

ASSUME ReconnectsAssumption == MaxReconnects \in Nat

VARIABLES
    chain,      \* how many connection attempts are at each stage
    page,       \* the fields of TerminalPageHandler
    save,       \* save_status of the container's row at Cloud
    tries,      \* history: dials since a socket last opened
    missed      \* history: a save ended while the page was not listening

connVars == <<chain, page, save, tries, missed>>

Stages == {"ticket", "dialing", "authenticating", "connected", "backoff"}

ConnectionStates ==
    {"idle", "connecting", "authenticating", "connected", "reconnecting",
     "device-offline", "session-expired", "authorization-failed", "error"}

\* posting: the click on Save waits for the answer of POST /save-container.
\* astray is history: that answer was the login page.
FreshPage(saving) ==
    [attempts |-> 0, shown |-> "idle", heart |-> FALSE, cleaned |-> FALSE,
     spinner |-> saving, posting |-> FALSE, stream |-> FALSE, astray |-> FALSE]

Pages == [attempts : 0 .. MaxReconnects, shown : ConnectionStates, heart : BOOLEAN,
          cleaned : BOOLEAN, spinner : BOOLEAN, posting : BOOLEAN, stream : BOOLEAN,
          astray : BOOLEAN]

NoAttempts == [g \in Stages |-> 0]

ConnTypeOK ==
    /\ chain \in [Stages -> Nat]
    /\ page \in Pages
    /\ save \in {"None", "Pending", "Ended"}
    /\ tries \in Nat
    /\ missed \in BOOLEAN

ConnInit ==
    /\ chain = NoAttempts
    /\ page = FreshPage(FALSE)
    /\ save = "None"
    /\ tries = 0
    /\ missed = FALSE

Leaves(from) == chain[from] > 0 /\ chain' = [chain EXCEPT ![from] = @ - 1]

Moves(from, to) ==
    chain[from] > 0 /\ chain' = [chain EXCEPT ![from] = @ - 1, ![to] = @ + 1]

Show(shown) == page' = [page EXCEPT !.shown = shown]

-----------------------------------------------------------------------------
(* Variants of actions below, each with one plausible bug: not part of the *)
(* specification.                                                          *)

\* OneAttempt: the 4401 branch of onclose does not return.
ClosedTwice ==
    /\ chain["authenticating"] > 0
    /\ chain' = [chain EXCEPT !["authenticating"] = @ - 1, !["ticket"] = @ + 1,
                              !["backoff"] = @ + 1]
    /\ page' = [page EXCEPT !.heart = FALSE, !.shown = "reconnecting"]
    /\ UNCHANGED <<save, tries, missed>>

\* DialsBounded: the cap is never compared with.
DroppedWithoutCap(from) ==
    /\ IF page.cleaned THEN Leaves(from) ELSE Moves(from, "backoff")
    /\ page' = [page EXCEPT !.heart = FALSE,
                            !.shown = IF page.cleaned THEN @ ELSE "reconnecting"]
    /\ UNCHANGED <<save, tries, missed>>

\* TabTypeOK: the cap is compared with by <=.
DroppedOneTooMany(from) ==
    LET again == ~page.cleaned /\ page.attempts <= MaxReconnects
    IN  /\ IF again THEN Moves(from, "backoff") ELSE Leaves(from)
        /\ page' = [page EXCEPT
                      !.heart = FALSE,
                      !.attempts = IF again THEN @ + 1 ELSE @,
                      !.shown = IF page.cleaned THEN @
                                ELSE IF again THEN "reconnecting" ELSE "error"]
        /\ UNCHANGED <<save, tries, missed>>

\* HeartbeatFollowsSocket: onclose leaves the interval running.
ClosedWithHeartbeat ==
    /\ page' = [page EXCEPT !.shown = IF page.cleaned THEN @ ELSE "connecting"]
    /\ IF page.cleaned THEN Leaves("authenticating") ELSE Moves("authenticating", "ticket")
    /\ UNCHANGED <<save, tries, missed>>

\* CleanedPageDialsNoMore: the timer does not look at cleanedUp.
BackoffAlwaysDials ==
    /\ Moves("backoff", "ticket")
    /\ Show("connecting")
    /\ UNCHANGED <<save, tries, missed>>

\* ProgressIsReal: the catch of the fetch only logs.
TicketRefusedSilently(shown) ==
    /\ Leaves("ticket")
    /\ UNCHANGED <<page, save, tries, missed>>

\* SaveSpinnerEnds: the stream's handler stops the spinner for a success only.
SaveEndsUnlessFailed ==
    /\ save = "Pending"
    /\ save' = "Ended"
    /\ \E succeeded \in BOOLEAN :
          page' = [page EXCEPT !.spinner = @ /\ ~(page.stream /\ succeeded)]
    /\ missed' = (missed \/ (page.spinner /\ ~page.stream))
    /\ UNCHANGED <<chain, tries>>

-----------------------------------------------------------------------------
(* The connection.                                                         *)

\* init: the page of a container that is Running shows its save_status, and
\* connects; the stream of events opens later.  For any other, or one that could
\* not be read, init returns with nothing set up.
Load ==
    /\ \/ /\ page' = [FreshPage(save = "Pending") EXCEPT !.shown = "connecting"]
          /\ chain' = [NoAttempts EXCEPT !["ticket"] = 1]
       \/ page' = FreshPage(FALSE) /\ chain' = NoAttempts
    /\ tries' = 0
    /\ missed' = FALSE
    /\ UNCHANGED save

\* /terminal-session answers 200 with a ticket, and the page dials.
TicketGranted ==
    /\ Moves("ticket", "dialing")
    /\ tries' = tries + 1
    /\ UNCHANGED <<page, save, missed>>

\* Any other answer ends the attempt for good: 404 (not found or not owned),
\* 409 (not running, device offline), another error, no answer at all, or the
\* login page, which is no JSON.
Refusals == {"authorization-failed", "device-offline", "error"}

TicketRefused(shown) ==
    /\ Leaves("ticket")
    /\ Show(shown)
    /\ UNCHANGED <<save, tries, missed>>

\* onopen: send the ticket, forget the failed attempts, start the heartbeat.
Opens ==
    /\ Moves("dialing", "authenticating")
    /\ page' = [page EXCEPT !.shown = "authenticating", !.attempts = 0, !.heart = TRUE]
    /\ tries' = 0
    /\ UNCHANGED <<save, missed>>

\* socket-ssh has consumed the ticket and says ready.
Ready ==
    /\ Moves("authenticating", "connected")
    /\ Show("connected")
    /\ UNCHANGED <<save, tries, missed>>

\* onclose with 4401: the ticket was not accepted, so ask for another at once.
ClosedUnauthorized ==
    /\ page' = [page EXCEPT !.heart = FALSE,
                            !.shown = IF page.cleaned THEN @ ELSE "connecting"]
    /\ IF page.cleaned THEN Leaves("authenticating") ELSE Moves("authenticating", "ticket")
    /\ UNCHANGED <<save, tries, missed>>

\* onclose for any other reason, a failed dial too: attemptReconnect, after a
\* back-off, until the attempts are used up.
Dropped(from) ==
    LET again == ~page.cleaned /\ page.attempts < MaxReconnects
    IN  /\ IF again THEN Moves(from, "backoff") ELSE Leaves(from)
        /\ page' = [page EXCEPT
                      !.heart = FALSE,
                      !.attempts = IF again THEN @ + 1 ELSE @,
                      !.shown = IF page.cleaned THEN @
                                ELSE IF again THEN "reconnecting" ELSE "error"]
        /\ UNCHANGED <<save, tries, missed>>

\* The back-off is over.
BackoffOver ==
    /\ IF page.cleaned THEN Leaves("backoff") ELSE Moves("backoff", "ticket")
    /\ page' = [page EXCEPT !.shown = IF page.cleaned THEN @ ELSE "connecting"]
    /\ UNCHANGED <<save, tries, missed>>

\* The page is gone, and everything it had under way.
Unload ==
    /\ chain' = NoAttempts
    /\ page' = FreshPage(FALSE)
    /\ tries' = 0
    /\ missed' = FALSE
    /\ UNCHANGED save

\* beforeunload: no more reconnects; the socket is closed, if it is open, and
\* its onclose comes later.
Cleanup ==
    /\ page' = [page EXCEPT !.cleaned = TRUE]
    /\ UNCHANGED <<chain, save, tries, missed>>

-----------------------------------------------------------------------------
(* The Save button.                                                        *)

ClickSave ==
    /\ page.shown # "idle" /\ ~page.spinner
    /\ page' = [page EXCEPT !.spinner = TRUE, !.posting = TRUE]
    /\ UNCHANGED <<chain, save, tries, missed>>

\* 202: save_status is Pending, and the spinner waits for the stream.
SaveAccepted ==
    /\ page.posting
    /\ page' = [page EXCEPT !.posting = FALSE]
    /\ save' = "Pending"
    /\ missed' = FALSE
    /\ UNCHANGED <<chain, tries>>

\* An error, or no answer: then the save may have been accepted.
SaveRejected ==
    /\ page.posting
    /\ page' = [page EXCEPT !.posting = FALSE, !.spinner = FALSE]
    /\ save' \in {save, "Pending"}
    /\ UNCHANGED <<chain, tries, missed>>

\* The fetch followed the redirect to the login page: that is a 200, so the
\* page takes the save for accepted.
SaveRedirected ==
    /\ page.posting
    /\ page' = [page EXCEPT !.posting = FALSE, !.astray = TRUE]
    /\ UNCHANGED <<chain, save, tries, missed>>

StreamOpens ==
    /\ page.shown # "idle" /\ ~page.stream
    /\ page' = [page EXCEPT !.stream = TRUE]
    /\ UNCHANGED <<chain, save, tries, missed>>

StreamCloses ==
    /\ page.stream
    /\ page' = [page EXCEPT !.stream = FALSE]
    /\ UNCHANGED <<chain, save, tries, missed>>

\* The save ends, Succeeded or Failed; the event reaches a page that listens.
SaveEnds ==
    /\ save = "Pending"
    /\ save' = "Ended"
    /\ page' = [page EXCEPT !.spinner = @ /\ ~page.stream]
    /\ missed' = (missed \/ (page.spinner /\ ~page.stream))
    /\ UNCHANGED <<chain, tries>>

-----------------------------------------------------------------------------
(* Safety.                                                                 *)

\* However its callbacks follow one another, the page never has two attempts
\* under way, so no ticket is asked for twice and no socket is forgotten.
OneAttempt ==
    \A g, h \in Stages : chain[g] > 0 /\ chain[h] > 0 => g = h /\ chain[g] = 1

\* Without a socket that opens, the page dials once and then once for each of
\* its reconnects: it gives up after maxReconnectAttempts.
DialsBounded == tries <= MaxReconnects + 1

\* The interval of the activity heartbeat runs exactly while a socket is open: it
\* is neither left behind by a socket nor started twice.
HeartbeatFollowsSocket ==
    page.heart <=> chain["authenticating"] + chain["connected"] > 0

\* A page that shows progress has an attempt at that stage: it is never left
\* saying it connects when nothing will come of it.
Backing(shown) ==
    CASE shown = "connecting" -> {"ticket", "dialing"}
      [] shown = "authenticating" -> {"authenticating"}
      [] shown = "connected" -> {"connected"}
      [] shown = "reconnecting" -> {"backoff"}
      [] OTHER -> Stages

ProgressIsReal ==
    page.shown \in {"connecting", "authenticating", "connected", "reconnecting"}
        => page.cleaned \/ \E g \in Backing(page.shown) : chain[g] > 0

\* After beforeunload nothing starts another attempt: what was under way may
\* go on to a socket, but no ticket is asked for again.
CleanedPageDialsNoMore ==
    [][page.cleaned /\ page'.cleaned => chain'["ticket"] <= chain["ticket"]]_connVars
=============================================================================
