# A verification model of browseterm-server-local

BrowseTerm lets a user run terminals (pods) on their own machine. This repository is the *local*
control plane: a FastAPI process with the pages it serves. It keeps no database. Everything it
does to a container is a sequence of awaited calls to two other systems:

* **Cloud** owns the rows (status, save_status, saved_image, kubernetes_id, device reservation),
  the sessions and the device quota; reached by HTTP through `src/cloud_client/client.py`;
* **container-maker** owns the pods and the snapshot Jobs; reached by gRPC through
  `src/containers/containers_service.py`.

So the correctness of the program is the correctness of multi-step operations over two stores that
share no transaction, started by browser pages that may be out of date, with calls that fail or
whose answer is lost, under a session that may end at any time. The model is about that.

Paths below are relative to the repository.

## 1. Inventory

| Part | Where | State | Operations | Hard behaviour | Correct when |
|---|---|---|---|---|---|
| Container operations | `src/api_handlers.py` 290-878, `src/containers/containers_service.py`, `src/db_ops/container_db_ops.py`, `templates/static/js/terminals.js` 908-1408 | none of its own between requests; inside a handler the row it read, `resumed`, `save_status` | create (3 requests and undo), delete (2 requests), save (202 and a background task), hibernate, resume | other handlers between any two awaits; failed calls, lost answers, restarts, closed tabs; Jobs that report late or never | no pod is dropped before its snapshot; a Hibernated row can be resumed and reserves nothing; without failures nothing is left stuck, and what a failure leaves behind is known |
| Cloud's rows (external) | used by `src/cloud_client/client.py` | row of each container | create, get, update, delete, resume (compare-and-set), hibernate | 404 is turned into None or False; a timeout is a `CloudClientError(0)` | - |
| List page | `templates/static/js/terminals.js` | `terminals`, `pendingContainers`, `hibernatingIds` | load, SSE events, controls by status, Create form, cleanup of a failed create | events against fetches, fetches against fetches, a stream that opens after the list was read, what is kept from before an await, requests that outlive their page | the list ends up true; pods do not lose their row; only what never ran is cleaned up |
| Terminal page | `templates/static/js/terminalpage.js` | WebSocket, `reconnectAttempts`, `connectionState`, heartbeat, spinner | ticket, connect, 4401, back-off, heartbeat, save | single-use tickets, close codes, timers that outlive their socket, missed events | one attempt at a time; it gives up; the spinner ends |
| Login and session | `src/authentication/*`, `src/api_handlers.py` 64-205, `src/template_handlers.py`, `templates/static/js/base.js` 264-298, 536-588 | cookies `session`, `csrf_token`, `desktop_login_port` | redirect, callback, validate, refresh, logout | handoff used once, several sign-ins over one cookie jar, a 302 answered to a fetch, an outage taken for an expiry, a page that is not told to refresh | a sign-in ends as it was started; a logout is final; a page is not left on a dead session |
| Payment | `src/payments/payments_service.py`, `templates/static/js/payment.js` | `idempotencyKey` | pay, retry | lost answer then retry | one key for one checkout |
| container-maker's client | `src/common/{grpc_utils,k8s_secrets,utils}.py`, `src/containers/containers_helpers.py`, the transformer | Secret cache of the process | look the image up, read certificate, derive requests, sanitize, translate errors; certificate Job and its poll | Secret replaced between reads; rounding; wrapped errors; a Job that fails | one certificate per request; requests within limits; names survive; the poll ends |
| Rest | config, logging, DTOs, catalogue pages, infra, scripts | - | - | - | - |

Interaction: page -> handler (fetch, let in or turned away by the session) -> Cloud and
container-maker (await); container-maker's Job and the central status_monitor -> Cloud's row;
Cloud -> page (SSE). Local never hears of a row's change: it reads the row again, as the hibernate
handler does in its polling loop.

The hazards found while reading, each at its line, are in `PROJECT.json`; those that no property
covers, or only in part, carry a note that says why.

## 2. Modules and plan

    CloudRows <- ContainerOps <- MCContainerOps            SessionLife     TerminalConnection  Checkout
                  |   `- implements Lifecycle               ^   \             |              /
    TerminalsPage                                           |    `-------- BrowserTab ------'
                                                     AuthSession implements
    ResourceUnits, ContainerNames <- MakerClient <- MCMakerClient

    ContainerOps <- ContainerOpsProofs <- LifecycleProofs     TerminalsPage <- TerminalsPageProofs
                                       <- CompensationProofs
    AuthSession <- AuthSessionProofs <- SessionLifeProofs     BrowserTab <- BrowserTabProofs
    MakerClient <- MakerClientProofs

| # | Module | Models | State |
|---|---|---|---|
| 1 | `CloudRows` | what each Cloud endpoint does to a row | done |
| 2 | `ContainerOps` (extends 1) | create, delete, save, hibernate, resume with faults | done |
| 3 | `MCContainerOps` | instances for TLC | done |
| 4 | `ContainerOpsProofs` | inductive invariant and theorems of 2 | done |
| 5 | `Lifecycle` | abstract life of a row, one atomic step per operation; `ContainerOps` implements it | done |
| 6 | `TerminalsPage` | the list, events, Create form, controls, clean-up | done |
| 7 | `TerminalConnection` | ticket, WebSocket, 4401, back-off, heartbeat, Save spinner | done |
| 8 | `AuthSession` | handoff, cookies, validation, logout of one browser | done |
| 9 | `SessionLife` | abstract session of a browser; `AuthSession` implements it | done |
| 10 | `Checkout` | one payment page and its key | done |
| 11 | `BrowserTab` (extends 7, 9, 10) | the pages of a tab and the refresh timer under a session other tabs share | done |
| 12 | `ResourceUnits`, `ContainerNames` | pure helpers as operators | done |
| 13 | `MakerClient` (extends 12), `MCMakerClient` | a request to container-maker, the Secret cache, the certificate Job | done |
| 14 | `LifecycleProofs` (extends 4) | 2 implements 5 | done |
| 15 | `AuthSessionProofs`, `SessionLifeProofs` (extends it) | theorems of 8; 8 implements 9 | done |
| 16 | `BrowserTabProofs` | theorems of 11 and its parts | done |
| 17 | `MakerClientProofs` | theorems of 12 and 13 | done |
| 18 | `TerminalsPageProofs` | theorems of 6 | done |
| 19 | `CompensationProofs` (extends 4) | theorems of 2 with one tab, or before the first fault | done |

Nothing of the plan is left: every safety and action property that a passing run checks is also the
statement of a theorem. What stays with TLC is in section 5.

## 3. What is modelled

### CloudRows

Cloud's code is not in this repository, so every operator stands for one endpoint as the handlers,
their comments and tests use it. The row is cut to what the handlers tell apart: `status`, `save`
(save_status), `image` (how many snapshots `saved_image` has named; 0 is none), `kid` (whether
kubernetes_id is set) and `reserved`. An update of a missing row changes nothing and raises
nothing, since the client turns 404 into None. Hibernate changes status, device and reservation in
one step; resume is a compare-and-set from Hibernated.

### ContainerOps, and Lifecycle above it

| In the model | In the code |
|---|---|
| `row`, `pods`, `jobs` | Cloud's rows; pods with a container's label; snapshot Jobs |
| `req[r]` | an operation in flight: `op`, container, `pc`, and what it remembers between awaits (`image` for resume, `kid` for delete) |
| `pc` | the next awaited call; each awaited call is one action |
| `Write`, `BestEffort`, `Read` | the ways a call to Cloud ends and where its exception goes |
| `Raises` | a failed call and one without an answer, where the call itself has no effect: a read, or the stamp of a resume |
| `SentToLogin` | the session check ahead of the second and third request of a create: when it raises, the answer is the login page, and the form's catch undoes nothing |
| `PodStarts` / `PodAnswer`, `SaveStarts` / `SaveAnswer` | a gRPC call that takes effect some time before it answers |
| `Create*`, `Delete*` | `handleFormSubmit` and `handleDelete` with the handlers they post to |
| `Save*` | `save_container` and its background `_run_save` |
| `Hibernate*`, `Resume*` | `hibernate_container`, `resume_container` |
| `Monitor` | status_monitor copying a pod's phase to its row |
| `JobSucceeds`, `JobFails`, `JobVanishes` | the snapshot Job's report, or none |
| `Crash`, `Abandon` | server restart; a closed tab |
| `Begin` | which operation a client starts. `OneTab`: only what `getControlsHTML` offers for the row's status, one operation at a time (a save is in the background after its 202). Otherwise anything on any row that ever existed: other tabs and stale lists |

A call ends in one of three ways: effect and answer; failure without effect (`Fail`, at most
`MaxFail` times); effect and lost answer (`Lost`, at most `MaxLost`). A lost answer is what the
10 s timeout of `CloudClient` and a cut gRPC stream look like to the handler.

Where an exception goes is read off the handler, not off its comments. The one that matters most is
`createContainer`'s in a resume: `create_container_in_k8s` makes an `HTTPException` of everything that fails
inside its try block (`containers_service.py:238-247`), and `resume_container` catches that kind at
`api_handlers.py:720`, before the branch with the rollback. So `ResumeLaunch` and `ResumeLaunched` end a failed
or unanswered call at once, and the row stays Resuming and reserved, with a pod if only the answer was
lost. What is rolled back is a failure of the stamp, of the last update, or of the image lookup for a row
without a saved image (`NoBaseImage`), which stands before the try block. The test of the rollback replaces the
service by a mock that raises something else. In a create, a failed `createContainer` is followed by the
handler's undo, which catches everything (`api_handlers.py:386-400`).

`fresh` and `own` in `req` are history that no code reads: whether a snapshot Job of the
container, or the Job of this very hibernate, has ended well since the hibernate marked the row.

`Lifecycle` says what all this may amount to for a row: born once with its reservation; reported
Running or Failed; hibernated only with a snapshot, giving its reservation back in the same step;
resumed only from Hibernated, with the reservation; deleted for good. `ContainerOps` maps its row to
a life (save_status, the image's number and kubernetes_id are dropped), and `FollowsLifecycle` checks
that every awaited call is one step of it or a stutter, whatever fails or crashes and
whoever acts.

Abstractions to know of:

* the calls of a client that only read (quota, info, lists) and `container_activity` are left out;
  so is the second read at the end of hibernate, and `last_request_id` but for its failure;
* the image lookup before a create is one with createContainer's refusal, since the handler's undo follows both;
* containers share nothing but capacity, and capacity appears only as a claim that Cloud may
  refuse; the number of pods has no bound of its own, and one container is enough for TLC (the theorems hold
  for any number);
* save_status Running is one with Pending; phases Unknown and Succeeded and pods that die by
  themselves are left out; status_monitor is taken not to touch Hibernated rows, and the reaper
  is external. Nothing in the repository shows their code;
* a slot is used again only when its last Job has ended: a bound on Jobs, not a rule of the code;
* `handleDelete` refreshes the list between its two posts, which has no effect here;
* a failed `create-container-in-db` without effect leaves nothing and is not an action.

### TerminalsPage

The other side of the same operations: what the list page knows. Here a handler is coarse (its
steps are in `ContainerOps`) and the page is fine.

| In the model | In the code |
|---|---|
| `cloud[t]` | the row's status, whether kubernetes_id is set, whether a pod runs |
| `tab[t].view` | the entry of `this.terminals` (status, kubernetes_id) |
| `tab[t].tracked` | `pendingContainers.has(id)` |
| `tab[t].form` | where `handleFormSubmit` is; it adds the row to the list after its first answer, and enters it in `pendingContainers` after its last |
| `tab[t].ops` | handlers under way; `hibernate` is also `hibernatingIds` |
| `wire.phase`, `wire.up` | how far `init` is: waiting for the first list, then for the operating systems and the first connection of the stream, then done; whether the stream is up |
| `wire.events` | the SSE stream, in order, dropped as a whole with the connection |
| `wire.left` | requests that earlier pages of the tab had sent when they were reloaded, and that are still served |
| `wire.asked`, `wire.answers` | list requests not yet served, and answers under way, in no order |
| `told` | history: `ran` (has been Running), `unseen` (an event the page could not use), `misled` (the last list answer was older than a change since), `rushed` (two things done to one row at a time, the second by a click or by the clean-up), and the bound on clicks |

A page starts with one list request and no stream (`Loading`). `StreamOpens` is the first `onopen`,
which does not ask for the list again; `StreamReopens` is that of a reconnect, which does
(`terminals.js:680-689`). So a change between the first list and the first connection is one that the
page is not told of (`Changes` records it in `told.misled`). `Reload` starts a page anew and leaves the
requests under way to `LeftServed`, which does to Cloud what they would have done, with nobody there for
the answer. `FormThrows` is the form's outer catch: a request sent to the login page, or cut off, ends
the flow and undoes nothing.

`EventArrives` is `handleStatusChange` with `handleRunningStatus` and `handleFailedStatus`;
`ListAnswered` is the end of `loadTerminals`; `DeleteRow` and `DropPod` are `handleDelete`;
`CleanPod` and `CleanRow` are `cleanupFailedContainer`. A resume may be refused for want of
capacity, and a claim that ends at the login page is taken for a success: the page then only asks for
the list. A resume that got no pod leaves its row Resuming or, where it was rolled back, Hibernated.

An entry of the list may appear twice for a moment (a list answer that has the row already, then the
form's own `unshift`); the model looks at the first, as `find` does.

### AuthSession, and SessionLife above it

One browser profile, all of whose tabs share one cookie jar, and Cloud's sessions.

| In the model | In the code |
|---|---|
| `session[s]` | a session at Cloud: offered by a handoff code, live with the ticks since it was extended, expired, revoked |
| `jar` | the cookies: `session` (with `csrf_token`, set, expired and cleared together), its age, and whether `desktop_login_port` is set |
| `login[l]` | a sign-in: at the provider, back with a code, waiting for the device bootstrap |
| `Start`, `NoCode`, `Redeem`, `RedeemFails`, `Bootstrap` | `auth_provider_redirect`; the branches of `auth_callback` with `complete_login_from_handoff` |
| `Admitted`, `Refused` | `authenticate_session`, and `auth_refresh`, over `validate_session`, an outage included |
| `LogoutRevokes`, `LogoutAnswers`, `LogoutFails` | `logout`, its call to Cloud, and the cookies it clears, whichever session they name by then |
| `Tick` | the interval of the pages' refresh (10 min): a session lives `Ttl` of them, the cookie `CookieLife`, counted from the sign-in since no answer sets it again |

`landing`, `stale`, `clean` and `signedOut` are history. To pages all this looks like `SessionLife`:
signed out, in, or over, with a number of sign-ins on offer. `ImplementsSessionLife` checks the
refinement, and `BrowserTab` is built on the abstract one, so that what holds of a tab holds over the
detailed one.

### BrowserTab, TerminalConnection, Checkout

`BrowserTab` is one tab: the pages with the reads that make them fail (`Visit*`), the refresh timer
(`TimePasses`, `RefreshAnswered`, `RefreshBlips`), `handleLogout`, and, on the pages that have them,
the connection and the checkout, each of whose requests is conjoined with `Admitted` or `Refused`. A
refused fetch follows the redirect and gets the login page as a 200: the page takes that for an
accepted save (`astray`), for an error when it reads JSON (ticket, payment).
`Elsewhere` is what other tabs and Cloud do to the session.

Between a page's arrival (`Shows`) and its `DOMContentLoaded` (`ContentLoaded`) other tabs act, and only
then is it decided whether the page has a refresh at all: `BaseApp.initialize` starts the manager if the
`csrf_token` cookie is there (`base.js:635`), which a logout elsewhere clears, and does not get there
where it is to restore a collapsed sidebar on the terminal page, which has none (`base.js:80`;
`SidebarPages`). `refresher` remembers which. A page takes less than a refresh interval to load. The
logout button belongs to the pages with a sidebar.

`TerminalConnection` counts attempts at each stage in `chain` rather than naming the stage of one,
so that a second chain of callbacks shows. `page` holds the fields of `TerminalPageHandler`:
`attempts`, `shown` (connectionState), `heart`, `cleaned`, `spinner`. What goes through the socket
once it is ready is left out. The state session-expired, which 4401 sets just before connecting
again, is never seen at the end of a step.

`Checkout` is the payment page: the key minted on load, clicks, answers, failures before or after the
charge. The gateway is taken to charge at most once for a key.

### MakerClient, ResourceUnits, ContainerNames

A request handler's `ContainerService`. A create without a saved image has its base image looked up
first, outside the try block, so that this failure alone reaches the user in its own words
(`ImageMissing`). Then it reads key, certificate and CA one after another through `K8sSecretsReader`'s
process-wide cache (`GetSecret`), calls the stub with a sanitized name and derived requests (`Send`),
strips the suffix of the name that comes back (`Answered`), or ends in a cleaned error (`FailsWith`); a
container without a name is refused by the sanitizer (`NameRefused`). The reads are synchronous, so no
other request moves between them (`Blocked`), but the cluster does: `Provision` writes any subset of the
keys, `SecretDeleted` removes them. `create_certificate_job` and its poll are `CreateJob` to
`PollStops`; nothing in the server calls `CertificateUtils`, an integration test does.

Amounts are counted in halves, since limits may have decimals; a unit outside the tables is a string
that does not parse. 1024, 1000 and 1000m are the constants `Kibi`, `Kilo`, `Milli`; the run gives them
4, 3 and 10, which keeps the order and the non-divisibility that rounding depends on and stays within
TLC's 32-bit integers (1024^4 does not). Names and raw errors are sequences of pieces
(`ContainerNames`): a piece stands for all the characters that the code treats alike. `MaxLabel` is
Kubernetes' limit of 63 characters, counted in pieces; the code does not enforce it, so `NamesSurvive`
says only that a name which was not too long before is not too long after.

## 4. Runs

| Run | Instance | What it shows |
|---|---|---|
| `lifecycle` | any client, one failed call, one lost answer, one crash; 2 slots, 2 images, 1 poll | `TypeOK`; a hibernate's pod is dropped only after a snapshot recorded since it put save_status to Pending; Hibernated means an image; Hibernated or gone means nothing reserved; before the first fault no row is left behind a spinner, whoever acts; the rows implement `Lifecycle`. Deadlock is checked: some operation can always begin or go on |
| `one_tab` | one tab, fair, one failed call, one crash | active rows stay reserved; before the first fault one pod per live row; every operation ends; an accepted save leaves Pending |
| `terminals_page` | one row, a page that loads its list before its stream, 2 list requests and 4 events in flight, 2 clicks, 1 fault | `ListTellsTruth`, `PodHasOwner`, `CleanupSparesRunning`, and, fair, `FailedStartIsCleaned` |
| `sign_in` | 2 sessions, 2 sign-ins at once, 1 fault; session of 3 ticks, cookie of 4 | `LandsAsStarted`, `SignedOutIsOver`, and the refinement `ImplementsSessionLife` |
| `tab` | session of 3 ticks, 1 sign-in elsewhere, 1 reconnect | the session, connection and checkout properties of one tab; fair: `DeadPageLeaves`, `SaveSpinnerEnds` |
| `maker_request` | 2 requests of 5 kinds, 5 errors, 2 issues of the Secret, labels of 3 pieces | `NoMixedCertificates`, `RequestsFit`, `NamesSurvive`, `QuotaIsExplained`, and, fair, `PollEnds` |
| `claim_timeout` | one lost answer | *violated*: an errored claim may have reserved |
| `borrowed_save` | no faults | *violated*: hibernate accepts another save's success |
| `pending_save` | one failed call, fair | *violated*: save_status stays Pending for ever |
| `stale_image` | one tab, no faults | *violated*: resume from an older snapshot |
| `rollback_pod` | one failed call | *violated*: Hibernated with a running pod |
| `failed_start` | one failed call | *violated*: a resume whose `createContainer` failed leaves the row Resuming |

Each violated property quotes a comment of the code; `PROJECT.json` "findings" gives the line. The
findings without a run were met while translating; where a property would fail by one, its comment
says which case it leaves out.

**Bounds.** The `ContainerOps` runs use one container; two slots let any two operations overlap at every
await, which every hazard listed needs, and in `one_tab` a save that goes on in the background while the
tab starts the next operation. `MaxImage = 2` tells an older snapshot from a newer one (a Job cannot
succeed past it); `MaxPolls = 1` has a poll that finds nothing, and the deadline. Pods have no bound:
the faults and the snapshots keep their number finite. Slots are interchangeable, so `lifecycle` uses
symmetry (the runs with liveness do not; `FollowsLifecycle` does not mention slots). The violation runs
have the smallest faults that show the counterexample. In `terminals_page` two list requests are enough
for one answer to overtake another; four events for a Failed to be in flight behind the answer that the
form waits for, and ahead of all that a hibernate and a resume say of the same row; and two clicks for a
second action on a row during the first; rows are independent but for the list answer, whose arrival for
the sake of another row is `ListAskedElsewhere`. In `sign_in` two sign-ins overlap in every order, and
the two times differ so that either can be the first to run out. In `tab`, one reconnect makes the cap
reachable; `Ttl = 3` is the code's 30 min over 10 min. In `maker_request` a second issue of the Secret
tells old from new.

`CHECK_DEADLOCK FALSE`: with one tab a deleted container leaves nothing to do, and a page of
`terminals_page` that has used up its clicks on a row that is gone has nothing left either.

`ActiveIsReserved` is a property of one tab and one failed call: with two tabs, the unconditional last update of
a resume can write Running over a row that was hibernated meanwhile.

**What the properties leave out.** `NothingStuck` and `PodsSettle` speak of the time before the first
fault (`Undisturbed`). After one the code does leave rows behind a spinner: a resume whose
`createContainer` failed (run `failed_start`) or whose claim was not answered (`claim_timeout`), a
create whose session check failed between two requests, a server that restarted in the middle of either.
What still holds after faults is said by the other properties of `lifecycle` and by `ActiveIsReserved`.
`ListTellsTruth` excepts a row for which an outdated answer came in last or an answer was lost, which
changed between the first list and the first connection of the stream, or which a request of an earlier
page made or removed (`told.misled`): the page does not order its answers, and its first `onopen` does
not ask again. `PodHasOwner` excepts rows deleted while the page knew no kubernetes_id, or on which the
user, or the clean-up, started one thing before another had ended: in each the code does leave a pod.
`FailedStartIsCleaned` and `CleanupSparesRunning` except a container whose event came while the page
could not use it. `LandsAsStarted` is about sign-ins alone in their browser. `PageKeepsSession` and
`DeadPageLeaves` are about pages that have started their refresh (`refresher`). `DialsBounded` counts
from the last socket that opened. `SaveSpinnerEnds` supposes that no save stays Pending for good, which
`pending_save` shows to happen, and excepts a save that ended while the stream was down and a click that
ended at the login page. `NamesSurvive` promises a name that is short enough only of one that was. Each
exception is a case the code really has, listed as a hazard or a finding with its line.

**Fairness.** `FairSlots` (`one_tab`, `pending_save`): the asyncio loop runs every ready task and each
call ends (HTTP calls have a 10 s timeout; the gRPC calls have none, so that they end is an assumption
about container-maker). `FairJobs`: a Job ends and reports, one way or the other; a Job that vanishes
uses up a crash, and `SaveResolves` excuses those behaviours. `terminals_page`: requests are served and
answered, events arrive, the stream opens and reconnects, the form and the clean-up go on to their end
(each is an async function with awaits that end); strong fairness for the clean-up's last step only,
whose guard `CanAsk` is a bound of the model that others can use up again and again. `tab`: time passes,
a refresh that is due is answered, `fetch` ends; nothing is assumed of snapshots, and a page that is
still loading is not owed its scripts. `maker_request`: a Job ends, the cluster deletes it after its
ttl, the poll reads it every 4 s. No fairness is assumed of users, sockets, status_monitor or faults.

Every property of a passing run has a mutant of the code, in a definition marked as a variant that is
not part of the specification, that breaks it.

## 5. Proofs

TLAPS checks all of these for every value of the constants that the named assumptions allow.

| Module | Theorem | States |
|---|---|---|
| `ContainerOpsProofs` | `Invariance` | the inductive invariant |
| | `TypeCorrect` | `TypeOK` |
| | `DropAfterSnapshot` | `PodDroppedAfterSnapshot` |
| | `Restorable` | `HibernatedIsRestorable` |
| | `HoldsNothing` | `HibernatedHoldsNothing` |
| | `OperationsAreShort` | an operation has at most `MaxPolls + 8` calls to make, and only comes nearer to its end |
| | `AnsweredClaim` | `FailedClaimReservesNothing`, if no answer is lost |
| | `SerialSave`, `SerialImage` | `HibernateConfirmsOwnSave`, `ResumesLatestImage`, if operations take turns |
| `CompensationProofs` | `Compensation` | the inductive invariant of one tab |
| | `Reserved`, `Settled` | `ActiveIsReserved` (at most one failed or unanswered call) and `PodsSettle`, both with one tab |
| | `Unstuck` | `NothingStuck`, for any clients |
| | `HibernatedBare` | `HibernatedHasNoPod` with one tab, if no call fails and no answer is lost |
| `LifecycleProofs` | `Refinement` | `FollowsLifecycle`: `ContainerOps` implements `Lifecycle` |
| `AuthSessionProofs` | `Invariance`, `TypeCorrect` | the inductive invariant; `TypeOK` |
| | `Lands` | `LandsAsStarted` |
| | `SignedOut` | `SignedOutIsOver` |
| `SessionLifeProofs` | `Refinement` | `ImplementsSessionLife`: `AuthSession` implements `SessionLife` |
| `BrowserTabProofs` | `Connection`, `TypeCorrect` | the connection's inductive invariant; `TabTypeOK` |
| | `Attempts`, `Heartbeats`, `Progress`, `GivesUp` | `OneAttempt`, `HeartbeatFollowsSocket`, `ProgressIsReal`, `DialsBounded` |
| | `CleanedUp` | `CleanedPageDialsNoMore`, an action property |
| | `OnePurchase` | `PaysOnce` |
| | `Refreshed` | `PageKeepsSession` |
| `MakerClientProofs` | `MemoryRequestFits`, `CpuRequestFits` | a derived request does not exceed its limit, in any unit |
| | `SuffixComesOff` | exactly container-maker's suffix comes off a name |
| | `Invariance`, `TypeCorrect` | the inductive invariant; `TypeOK` |
| | `Together`, `Fitting`, `Explained` | `NoMixedCertificates`, `RequestsFit`, `QuotaIsExplained` |
| | `SanitizedIsLabel` | a sanitized name has the pattern of a label, is no longer than the name, and is the name if that had the pattern |
| | `NameComesBack` | `NamesSurvive`, an unchanged name included |
| `TerminalsPageProofs` | `Invariance`, `TypeCorrect` | the inductive invariant; `TypeOK` |
| | `TellsTruth` | `ListTellsTruth` |
| | `Owner` | `PodHasOwner` |
| | `Spares` | `CleanupSparesRunning`, an action property |

**Assumptions.** `None` is no container or session; `OneTab` is Boolean; the bounds, budgets and times
are naturals (positive where the code divides by them or counts from one); a browser has finitely many
sign-ins under way (`LoginsAssumption`, without which they could not be counted on offer); the ratios of
requests to limits are at most one, as `src/common/config.py` sets them by default. Sets of containers,
operations in flight, requests and sessions may be infinite. TLC evaluates each assumption in the runs.

**ContainerOps.** The invariants are not inductive by themselves. That a Hibernated row has an image
needs to know that each operation about to hibernate a row works on one with an image, which in turn
needs to know why: a hibernate past its poll has seen Succeeded, and Succeeded is only written
with an image; a resume past its claim found the row Hibernated. These facts must
survive what other operations do to the row meanwhile, which is true only because no
action but a delete takes an image away and a deleted row is never hibernated again. So `IInv` has
three parts: `TypeOK`; `RowSound` of each row (Hibernated has an image and no reservation, Succeeded
has an image, a row that is gone has neither save nor reservation); `RequestSound` of each operation
with its row. For the freshness of the snapshot it says that from `run` to `poll` a Succeeded row
implies `fresh`. `Harmless(w, v)` says that a change of a row from w to v keeps
`RequestSound` for the *other* operations on that row. Each action is then shown to make a
sound and harmless row change and to leave its own slot sound (`RowMoves`, `SlotMoves`, `BusySlot`),
with one lemma for each kind of call and each operation (`CreateKeeps` ... `ResumeKeeps`).

**One tab.** `ActiveIsReserved` and `PodsSettle` speak of one tab (`OneTab`) and of few faults, and no
invariant of a row by itself implies them: where a row and its pods must be depends on the operation
that is engaged in the container and on what has failed before. `CInv` says so: at most one operation is
engaged in a container (`Alone`); for each operation and program counter the statuses and the number of
pods it can find (`OnTrack`), and for a container nobody works on the same (`Rested`); and at all times
that whatever status_monitor could report Running is reserved (`Backed`). What holds only before the
first failure or the first kill is stated under that condition on the budget, so that a fault weakens
the invariant and breaks nothing (`Weakens`), and a second failed or unanswered call ends it (`Spared`).
One lemma moves the one engaged slot with its row and its pods (`TabMoves`), another everything that
goes on beside it (`WorldTidy`), with one lemma for each operation as above. The theorems' hypotheses
are `OneTab` and, of `Reserved`, at most one call that fails or goes unanswered. They cannot be dropped:
TLC finds each property violated without them. `Reserved` holds through any number of restarts, and
`Settled` speaks of the time before the first fault, so it needs no bound on them. The shortest way to a
Running container without a reservation takes two failures far apart: the last update of a resume fails,
its rollback leaves the new pod to a Hibernated row, and in the next resume the first read fails;
`resume_container` then marks the row Failed, and a row with a live pod that is not Hibernated is one
that status_monitor reports on.

**Any clients.** `Unstuck` needs no `OneTab`. Operations of other tabs and stale lists meet on one row
at any await, so nothing can be said of where a row must be at each program counter. `SpinInv` says
less: whoever shows a spinner has a request that will put an end to it (`Answers`: a resume between its
claim and its last update, a create that has not got its pod yet). What makes it inductive is about the
*others*: a row never becomes Pending again, a hibernate past its first read has seen the row Running,
and a delete reaches the pod only after the row is gone (`Aware`), so no operation takes the pod of a
row that is still Pending, nor the answer from a Resuming one. Each call is shown to lead its row
`Onward` in this sense. All of it holds until the first fault, and the theorem has no hypotheses because
the property speaks of that time; that nothing like it holds later is what `failed_start` and
`claim_timeout` show.

**What the comments promise.** Six runs show that a comment of the code says more than the code does.
Four of these have a theorem that says when it is right, which is what one would have to provide to rely
on it. A claim that failed has reserved nothing if no answer is lost (`AnsweredClaim`): one that was
made goes on to the next call and does not answer an error at once. A hibernate confirms its own save,
and a resume uses the latest image, if one operation at a time is under way, in the whole server and
with its snapshot Job (`SerialSave`, `SerialImage`; `Slots` has one element, and a slot is taken again
only when its Job is over): the polling loop is sound but for other people's snapshots, and a resume's
own read is stale only by what others do in between. `SerialInv` says that a resume never sees a Job in
flight. One tab is not enough for either (TLC): its save goes on in the background. What is hibernated
has no pod if no call fails and no answer is lost, whatever is killed (`HibernatedBare`).
`SavePendingResolves`, a liveness property, has none, and neither has `ResumingIsUnderWay`: before the
first fault it is part of `NothingStuck`, and one failed call breaks it.

**How long an operation lasts.** `OperationsEnd` is a liveness property and so beyond the prover, but
its argument is a safety property and is proved: `CallsLeft`, the most calls an operation can still make
from where it is, is at most `MaxPolls + 8`, falls with each call, whatever its outcome, and is not
raised by anything that happens in between, Jobs' reports and other operations included
(`OperationsAreShort`). What TLC checks beyond that is that a call is always enabled: with `FairSlots`
this gives the end.

**Lifecycle.** A step changes at most one row, so the step simulation is about two rows: `LifeMoves(w, v)`
says that `Lifecycle` lets w become v. What a handler may do to a row depends on what it knows of it,
which `IInv` provides; each call is shown to make such a move or none.

**AuthSession and SessionLife.** The invariant says who may still change what: no two sign-ins hold one
session and none holds the one in the cookie (`OneHolder`); a session that was signed out is revoked
(`LogoutSound`); a port cookie comes from a desktop sign-in (`PortExplained`), and a clean sign-in is
alone (`CleanSound`). The refinement needs `OneHolder` where a sign-in makes a session live: that
session is not the one the browser's pages run on.

**BrowserTab.** Each of the three parts has its own invariant, and a step of the tab is a step of the
part or none (`TabConnects`, `TabPays`). `DialsBounded` needs to know that the dials made are those of the
reconnects counted, and where they may be one ahead. The first attempt, which tied that to the stages
that follow a dial only, was not inductive: a page that goes from a ticket to a dial must not be ahead
already. `DialsCounted` says it of every stage but "dialing". `PageKeepsSession` needs `SessionKept`, how
the age of the session, the refresh that is due and the refreshes that were lost go together.

**MakerClient.** No certificates are mixed because the Secret always holds one issue (`OneVersion`), the
cache is a copy of it and, once filled, stays until a restart, which ends every request. The proof does
not use that the three reads are synchronous: even if they were not, the cache would keep them together.
That requests fit rests on the lemmas about shares and units, which hold for any tables. Names have any
length, so that they survive is an induction over sequences. The library's induction theorems take an
operator and cannot be used; but that < on the naturals is well-founded is a theorem about a set, and
from it comes `LeastNumber`, that a set of naturals which is not empty has a least element. `Kept`,
which drops the characters that a label cannot have, is a recursive function for that reason: the least
length at which no function satisfies its recursion cannot exist (`KeptSolution`, `KeptIs`), and
likewise the least place at which it has the wrong type (`KeptType`) or drops something of a name that
is a label already (`KeptWhole`).

**TerminalsPage.** The invariant says of each container what each of the page's sources knows of it,
from the first list on. Events in flight: that a container runs is said ahead of anything Cloud sent
knowing that it had run (`RunAhead`), and the last event has the row's status; answers in flight are
true unless they were outdated (`InFlightTrue`); the list is right about which rows exist and, once no
event is left, about their status (`ListTrue`); a request that an earlier page left behind is out of the
form's hands (`LeftSound`); until the form has its pod nobody else has the container in hand (`Unborn`,
`InForm`); and while no call has failed and one thing is done at a time, some step under way answers for
the pod (`PodOwned`). The steps of the form, of a row's controls and of the monitor are about one
container; for the others nothing changes but the tail of a sequence of events (`KeptSound`,
`LocalStep`).

The proof of `PodHasOwner` failed at first for a good reason: the property was false, in instances larger
than the run then had. A Failed event that arrives late enough finds the container hibernated and the
user's resume under way; `handleFailedStatus` starts the clean-up all the same, the row is deleted, and the
resume's pod has no row. TLC confirmed it with four events in flight. It is what `told.rushed` is
about, two things done to one row at a time, so `EventArrives` now records it there, the property says
so, and the run has four events.

Each inductive invariant was first checked with TLC as an invariant of a run's instance: `lifecycle`,
`sign_in`, `tab`, `maker_request` and `terminals_page` in turn, and `CInv` of one tab with a failed call, a
lost answer and a crash as well.

**Only model-checked.**

* The liveness properties (`OperationsEnd`, `SaveResolves`, `DeadPageLeaves`, `SaveSpinnerEnds`, `PollEnds`,
  `FailedStartIsCleaned`): fairness and ENABLED are beyond the prover.

## 6. Not modelled

Templates and the look of pages, DTO copying (no behaviour beyond `Send` and `Answered`), what goes
through the SSH socket, the form's fields and quota display, deployment files, logging and
configuration (no state; ratios and times appear as constants), `clear_cache` and the certificate reads
of `CertificateUtils` that keep nothing, `echo` and the test pages. Cloud, container-maker, socket-ssh,
status_monitor, the payment gateway and Kubernetes are external; they appear as the code uses them.

Observed while reading, outside the runs: `create_container_in_k8s` reads `resource_requirements` while
the page sends `resource_limits`, so pods get the default limits. A logout's answer clears the cookies
of a newer session if a sign-in ended in between, and `handleLogout` goes to the login page even on a
403 or 500. Two different container names may sanitize to the same, and one that is longer than
Kubernetes' 63 characters is sent as it is. A Secret that is cached while it lacks a key, or before the
certificate is rotated, is kept until a restart. `update-container` of a row that is gone reports
success.

## 7. Running

    tlc -workers 2 -config lifecycle.cfg MCContainerOps     # likewise one_tab, claim_timeout, borrowed_save,
                                                            # pending_save, stale_image, rollback_pod, failed_start
    tlc -workers 2 -config terminals_page.cfg TerminalsPage
    tlc -workers 2 -config sign_in.cfg AuthSession
    tlc -workers 2 -config tab.cfg BrowserTab
    tlc -workers 2 -config maker_request.cfg MCMakerClient
    tlapm LifecycleProofs.tla                               # and each other *Proofs.tla
