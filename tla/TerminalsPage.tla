---------------------------- MODULE TerminalsPage ----------------------------
(***************************************************************************)
(* The terminals page, templates/static/js/terminals.js: the list it keeps *)
(* of the user's containers, out of three sources that race one another.   *)
(*                                                                         *)
(*   - answers to GET /list-user-containers, each of which replaces the    *)
(*     whole list; several can be in flight and nothing orders them;       *)
(*   - status_change events, which Cloud streams in order while the stream *)
(*     is up and does not repeat;                                          *)
(*   - what the page itself does: the flow of the Create form, the         *)
(*     controls of a row, and the clean-up of a container that fails       *)
(*     before it ran, for which the form enters it in pendingContainers.   *)
(*                                                                         *)
(* A handler's own steps at Cloud and container-maker are the business of  *)
(* ContainerOps; here a call is served in one step and answered in another *)
(* where the page can do something in between.                             *)
(***************************************************************************)
EXTENDS Naturals, Sequences, FiniteSets, Functions

CONSTANTS
    Terminals,      \* container ids; each is created at most once
    MaxLoads,       \* list requests in flight
    MaxEvents,      \* events in flight
    MaxClicks,      \* clicks on the controls of the rows
    MaxFaults       \* calls that fail or are cut off, drops, page reloads

ASSUME BoundsAssumption ==
    /\ MaxLoads \in Nat \ {0} /\ MaxEvents \in Nat \ {0}
    /\ MaxClicks \in Nat /\ MaxFaults \in Nat

VARIABLES
    cloud,      \* of each container: its row's status and kubernetes_id, its pod
    tab,        \* of each container: what the page knows and does about it
    wire,       \* the stream of events and the list requests in flight
    told,       \* history: what the page has not been told in time
    faults      \* what is left of MaxFaults

vars == <<cloud, tab, wire, told, faults>>

Statuses == {"Pending", "Running", "Failed", "Hibernated", "Resuming"}

Stages == {"none", "row", "rowed", "launch", "launched", "update", "updated",
           "undo_pod", "undo_row"}

\* delete_blind deletes a row of which the page knows no kubernetes_id.
Ops == {"delete", "delete_blind", "drop_pod", "hibernate", "resume", "resuming",
        "clean_pod", "clean_row"}

\* init awaits the first list, then the operating systems and the first
\* connection of the stream; from then on the stream has been up.
Phases == {"list", "stream", "done"}

\* The request that the page has sent when it is at a stage or does an op; the
\* answer of a createContainer that started a pod may yet be lost, upon which
\* its handler removes the row.
SentAs == [row |-> "insert", launch |-> "launch", launched |-> "remove",
           update |-> "record", undo_pod |-> "drop", undo_row |-> "remove",
           delete |-> "remove", delete_blind |-> "remove", drop_pod |-> "drop",
           hibernate |-> "hibernate", resume |-> "resume", resuming |-> "resuming",
           clean_pod |-> "drop", clean_row |-> "remove"]

Requests == {"insert", "launch", "record", "remove", "drop", "hibernate", "resume",
             "resuming"}

NoRow == [status |-> "none", kid |-> FALSE, pod |-> FALSE]

NotListed == [shown |-> "none", kid |-> FALSE]

FreshTab == [t \in Terminals |-> [view |-> NotListed, tracked |-> FALSE,
                                  form |-> "none", ops |-> {}]]

Views == [shown : Statuses \cup {"none"}, kid : BOOLEAN]

Events == [t : Terminals, status : Statuses, ran : BOOLEAN]

Answers == [view : [Terminals -> Views], old : SUBSET Terminals]

\* Every variable has its type, and the bounds are kept.
TypeOK ==
    /\ cloud \in [Terminals -> [status : Statuses \cup {"none", "gone"},
                                kid : BOOLEAN, pod : BOOLEAN]]
    /\ tab \in [Terminals -> [view : Views, tracked : BOOLEAN, form : Stages,
                              ops : SUBSET Ops]]
    /\ wire \in [up : BOOLEAN, phase : Phases, events : Seq(Events),
                 asked : 0 .. MaxLoads, answers : SUBSET Answers,
                 left : SUBSET (Terminals \X Requests)]
    /\ told \in [ran : SUBSET Terminals, unseen : SUBSET Terminals,
                 misled : SUBSET Terminals, rushed : SUBSET Terminals,
                 clicks : 0 .. MaxClicks]
    /\ faults \in 0 .. MaxFaults

\* The page is loaded, while requests of earlier pages are still served.
Loading(left) == [up |-> FALSE, phase |-> "list", events |-> <<>>, asked |-> 1,
                  answers |-> {}, left |-> left]

Init ==
    /\ cloud = [t \in Terminals |-> NoRow]
    /\ tab = FreshTab
    /\ wire = Loading({})
    /\ told = [ran |-> {}, unseen |-> {}, misled |-> {}, rushed |-> {}, clicks |-> 0]
    /\ faults = MaxFaults

Exists(t) == cloud[t].status \in Statuses

Fault == faults > 0 /\ faults' = faults - 1

At(t, stage) == tab[t].form = stage

\* Whether the page has finished with what it was doing to a container.
AtRest(t) == At(t, "none") /\ tab[t].ops = {}

-----------------------------------------------------------------------------
(* The list.                                                               *)

CanAsk == wire.asked + Cardinality(wire.answers) < MaxLoads

Asking(w) == [w EXCEPT !.asked = @ + 1]

\* The list answers in flight no longer tell the truth about a container.
Outdating(w, t) ==
    [w EXCEPT !.answers = {[a EXCEPT !.old = @ \cup {t}] : a \in w.answers}]

\* What list_user_containers returns of a row.
Listing(t) ==
    IF Exists(t) THEN [shown |-> cloud[t].status, kid |-> cloud[t].kid] ELSE NotListed

\* The handler reads the rows at Cloud.
ListServed ==
    /\ wire.asked > 0
    /\ wire' = [wire EXCEPT !.asked = @ - 1,
                            !.answers = @ \cup {[view |-> [t \in Terminals |-> Listing(t)],
                                                 old |-> {}]}]
    /\ UNCHANGED <<cloud, tab, told, faults>>

\* The first list is there, or its failure was shown: init goes on.
Onward(phase) == IF phase = "list" THEN "stream" ELSE phase

\* loadTerminals: the answer that arrives replaces the list, whatever it shows.
ListAnswered(a) ==
    /\ a \in wire.answers
    /\ wire' = [wire EXCEPT !.answers = @ \ {a}, !.phase = Onward(@)]
    /\ tab' = [t \in Terminals |-> [tab[t] EXCEPT !.view = a.view[t]]]
    /\ told' = [told EXCEPT !.misled = a.old]
    /\ UNCHANGED <<cloud, faults>>

\* The page asks after a click on the row of a container that is not modelled.
ListAskedElsewhere ==
    /\ wire.phase # "list"
    /\ CanAsk /\ told.clicks < MaxClicks
    /\ wire' = Asking(wire)
    /\ told' = [told EXCEPT !.clicks = @ + 1]
    /\ UNCHANGED <<cloud, tab, faults>>

\* The call fails: a message is shown in the place of the list, which stays.
ListFails ==
    /\ wire.asked > 0
    /\ wire' = [wire EXCEPT !.asked = @ - 1, !.phase = Onward(@)]
    /\ told' = [told EXCEPT !.misled = Terminals]
    /\ Fault
    /\ UNCHANGED <<cloud, tab>>

-----------------------------------------------------------------------------
(* Events.                                                                 *)

\* Cloud publishes the new status of a row, if anyone listens.
Published(w, t, status) ==
    Outdating([w EXCEPT !.events =
                 IF w.up
                 THEN Append(@, [t |-> t, status |-> status, ran |-> t \in told.ran])
                 ELSE @], t)

\* A change after the first list and before the first connection goes unseen:
\* only a reconnect asks for the list.
Changes(t, status, pod) ==
    /\ Len(wire.events) < MaxEvents
    /\ cloud' = [cloud EXCEPT ![t].status = status, ![t].pod = pod]
    /\ told' = [told EXCEPT !.ran = IF status = "Running" THEN @ \cup {t} ELSE @,
                            !.unseen = IF wire.up THEN @ ELSE @ \cup {t},
                            !.misled = IF wire.phase = "stream" THEN @ \cup {t} ELSE @]

\* The status monitor copies the phase of a pod.
Monitor(t) ==
    /\ Exists(t) /\ cloud[t].pod
    /\ \E phase \in {"Running", "Failed"} \ {cloud[t].status} :
          /\ Changes(t, phase, TRUE)
          /\ wire' = Published(wire, t, phase)
    /\ UNCHANGED <<tab, faults>>

\* It fails before it ran: cleanupFailedContainer is called.
CleansUp(k, status) == status = "Failed" /\ k.tracked

\* Variant, not part of the specification.  CleanupSparesRunning: a container
\* that runs stays in pendingContainers.
AfterEventKeepingTrack(k, status) ==
    [k EXCEPT !.view.shown = status,
              !.tracked = @ /\ status # "Failed",
              !.ops = IF CleansUp(k, status) THEN @ \cup {"clean_pod"} ELSE @]

\* handleRunningStatus and handleFailedStatus, for what they do to the page.
AfterEvent(k, status) ==
    [k EXCEPT !.view.shown = status,
              !.tracked = @ /\ status \notin {"Running", "Failed"},
              !.ops = IF CleansUp(k, status) THEN @ \cup {"clean_pod"} ELSE @]

\* handleStatusChange: an event for a container that is not listed is dropped.
EventArrives ==
    /\ wire.events # <<>>
    /\ LET ev == Head(wire.events)
           listed == tab[ev.t].view.shown # "none"
       IN  /\ tab' = IF listed THEN [tab EXCEPT ![ev.t] = AfterEvent(@, ev.status)] ELSE tab
           /\ told' = [told EXCEPT
                         !.unseen = IF listed /\ tab[ev.t].tracked THEN @ ELSE @ \cup {ev.t},
                         !.misled = IF listed /\ Exists(ev.t) THEN @ \ {ev.t} ELSE @,
                         !.rushed = IF /\ listed /\ CleansUp(tab[ev.t], ev.status)
                                       /\ ~AtRest(ev.t)
                                    THEN @ \cup {ev.t} ELSE @]
    /\ wire' = [wire EXCEPT !.events = Tail(@)]
    /\ UNCHANGED <<cloud, faults>>

StreamDrops ==
    /\ wire.up
    /\ wire' = [wire EXCEPT !.up = FALSE, !.events = <<>>]
    /\ told' = [told EXCEPT !.unseen = @ \cup {ev.t : ev \in Range(wire.events)}]
    /\ Fault
    /\ UNCHANGED <<cloud, tab>>

\* Variant, not part of the specification.  ListTellsTruth: the reconnect is
\* taken for the first connection.
StreamReopensSilently ==
    /\ ~wire.up /\ wire.phase = "done"
    /\ wire' = [wire EXCEPT !.up = TRUE]
    /\ UNCHANGED <<cloud, tab, told, faults>>

\* setupStatusStream, once loadOperatingSystems is done: the first onopen does
\* not ask for the list.
StreamOpens ==
    /\ wire.phase = "stream"
    /\ wire' = [wire EXCEPT !.up = TRUE, !.phase = "done"]
    /\ UNCHANGED <<cloud, tab, told, faults>>

\* EventSource reconnects by itself; onopen then asks for the list.
StreamReopens ==
    /\ ~wire.up /\ wire.phase = "done" /\ CanAsk
    /\ wire' = Asking([wire EXCEPT !.up = TRUE])
    /\ UNCHANGED <<cloud, tab, told, faults>>

-----------------------------------------------------------------------------
(* The Create form: it listens once the operating systems are loaded, and   *)
(* its Submit button is disabled until the flow has ended.                 *)

Goes(t, stage) == tab' = [tab EXCEPT ![t].form = stage]

Submit(t) ==
    /\ cloud[t].status = "none" /\ <<t, "insert">> \notin wire.left
    /\ wire.phase # "list"
    /\ \A u \in Terminals : At(u, "none")
    /\ Goes(t, "row")
    /\ UNCHANGED <<cloud, wire, told, faults>>

\* Cloud reserves the capacity and inserts the row.
RowInserted(t) ==
    /\ At(t, "row")
    /\ cloud' = [cloud EXCEPT ![t].status = "Pending"]
    /\ Goes(t, "rowed")
    /\ wire' = Outdating(wire, t)
    /\ UNCHANGED <<told, faults>>

\* No capacity left on the device, or a name that is taken.
RowRefused(t) ==
    /\ At(t, "row")
    /\ Goes(t, "none")
    /\ UNCHANGED <<cloud, wire, told, faults>>

\* The form puts a row of its own in front of the list.
RowAnswered(t) ==
    /\ At(t, "rowed")
    /\ tab' = [tab EXCEPT ![t].form = "launch",
                          ![t].view = [shown |-> "Pending", kid |-> FALSE]]
    /\ told' = [told EXCEPT !.misled = IF cloud[t].status = "Pending" THEN @ \ {t} ELSE @]
    /\ UNCHANGED <<cloud, wire, faults>>

\* The answer is lost: the form reports an error and forgets the row.
RowUnanswered(t) ==
    /\ At(t, "rowed")
    /\ Goes(t, "none")
    /\ told' = [told EXCEPT !.misled = @ \cup {t}]
    /\ Fault
    /\ UNCHANGED <<cloud, wire>>

PodMade(t) ==
    /\ At(t, "launch") /\ Exists(t)
    /\ cloud' = [cloud EXCEPT ![t].pod = TRUE]
    /\ Goes(t, "launched")
    /\ UNCHANGED <<wire, told, faults>>

\* Variant, not part of the specification.  TypeOK: a row is only marked.
RowMarked(t) == [cloud EXCEPT ![t].status = "Deleted", ![t].kid = FALSE]

RowGone(t) == [cloud EXCEPT ![t].status = "gone", ![t].kid = FALSE]

PodGone(t) == [cloud EXCEPT ![t].pod = FALSE]

\* The row is gone, or the pod cannot be made and the handler deletes the row;
\* or it was made, its answer was lost, and the row is deleted all the same.
PodRefused(t) ==
    /\ \/ At(t, "launch") /\ UNCHANGED faults
       \/ At(t, "launched") /\ Fault
    /\ cloud' = RowGone(t) \/ (UNCHANGED cloud /\ At(t, "launch") /\ ~Exists(t))
    /\ Goes(t, "undo_row")
    /\ wire' = Outdating(wire, t)
    /\ UNCHANGED told

PodAnswered(t) ==
    /\ At(t, "launched")
    /\ Goes(t, "update")
    /\ UNCHANGED <<cloud, wire, told, faults>>

\* update_container; of a row that is gone it reports a success.
KidSaved(t) ==
    /\ At(t, "update")
    /\ cloud' = IF Exists(t) THEN [cloud EXCEPT ![t].kid = TRUE] ELSE cloud
    /\ Goes(t, "updated")
    /\ UNCHANGED <<wire, told, faults>>

UpdateRefused(t) ==
    /\ At(t, "update")
    /\ Goes(t, "undo_pod")
    /\ UNCHANGED <<cloud, wire, told, faults>>

\* Only now is the container entered in pendingContainers.
UpdateAnswered(t) ==
    /\ At(t, "updated")
    /\ tab' = [tab EXCEPT ![t].form = "none", ![t].tracked = TRUE,
                          ![t].view.kid = @ \/ tab[t].view.shown # "none"]
    /\ UNCHANGED <<cloud, wire, told, faults>>

\* Cloud's answer is lost to the handler, which answers an error.
UpdateUnanswered(t) ==
    /\ At(t, "updated")
    /\ Goes(t, "undo_pod")
    /\ Fault
    /\ UNCHANGED <<cloud, wire, told>>

\* A request that is sent to the login page, or an answer that the browser does
\* not get: json() or fetch throws, and the form's catch undoes nothing.
FormThrows(t) ==
    /\ tab[t].form \in {"launch", "launched", "update", "updated"}
    /\ Goes(t, "none")
    /\ Fault
    /\ UNCHANGED <<cloud, wire, told>>

\* Variant, not part of the specification.  PodHasOwner: the pod is left to the
\* cluster.
UndoPodLeft(t) ==
    /\ At(t, "undo_pod")
    /\ Goes(t, "undo_row")
    /\ UNCHANGED <<cloud, wire, told, faults>>

\* deleteContainerFromK8s and deleteContainerFromDB swallow their errors.
UndoPod(t) ==
    /\ At(t, "undo_pod")
    /\ \/ cloud' = PodGone(t) /\ UNCHANGED faults
       \/ UNCHANGED cloud /\ Fault
    /\ Goes(t, "undo_row")
    /\ UNCHANGED <<wire, told>>

UndoRow(t) ==
    /\ At(t, "undo_row") /\ CanAsk
    /\ \/ cloud' = RowGone(t) /\ UNCHANGED faults
       \/ UNCHANGED cloud /\ Fault
    /\ Goes(t, "none")
    /\ wire' = Asking(Outdating(wire, t))
    /\ UNCHANGED told

FormStep(t) ==
    \/ RowInserted(t) \/ RowRefused(t) \/ RowAnswered(t) \/ RowUnanswered(t)
    \/ PodMade(t) \/ PodRefused(t) \/ PodAnswered(t)
    \/ KidSaved(t) \/ UpdateRefused(t) \/ UpdateAnswered(t) \/ UpdateUnanswered(t)
    \/ FormThrows(t) \/ UndoPod(t) \/ UndoRow(t)

-----------------------------------------------------------------------------
(* The controls of a row.                                                  *)

Does(t, op) == op \in tab[t].ops

Starts(t, op) == ~Does(t, op) /\ tab' = [tab EXCEPT ![t].ops = @ \cup {op}]

Ends(t, op, next) == Does(t, op) /\ tab' = [tab EXCEPT ![t].ops = (@ \ {op}) \cup next]

\* A row that is being hibernated shows a spinner instead of its controls.
Offers(t, statuses) == tab[t].view.shown \in statuses /\ ~Does(t, "hibernate")

Click(t) ==
    /\ \/ /\ Offers(t, {"Running", "Failed", "Hibernated"})
          /\ Starts(t, IF tab[t].view.kid THEN "delete" ELSE "delete_blind")
       \/ Offers(t, {"Running"}) /\ Starts(t, "hibernate")
       \/ Offers(t, {"Hibernated"}) /\ Starts(t, "resume")
    /\ told.clicks < MaxClicks
    /\ told' = [told EXCEPT !.clicks = @ + 1,
                            !.rushed = IF AtRest(t) THEN @ ELSE @ \cup {t}]
    /\ UNCHANGED <<cloud, wire, faults>>

\* handleDelete: the row first, its error swallowed; then the list; then, in the
\* background, the pod if the list knew of one.
DeleteRow(t, op) ==
    /\ op \in {"delete", "delete_blind"}
    /\ Ends(t, op, IF op = "delete" THEN {"drop_pod"} ELSE {})
    /\ CanAsk
    /\ \/ cloud' = RowGone(t) /\ UNCHANGED faults
       \/ UNCHANGED cloud /\ Fault
    /\ wire' = Asking(Outdating(wire, t))
    /\ told' = [told EXCEPT !.rushed = IF op = "delete_blind" THEN @ \cup {t} ELSE @]

DropPod(t) ==
    /\ Ends(t, "drop_pod", {})
    /\ \/ cloud' = PodGone(t) /\ UNCHANGED faults
       \/ UNCHANGED cloud /\ Fault
    /\ UNCHANGED <<wire, told>>

\* The hibernate handler is done, or has failed with the row as it was, before it
\* deleted the pod or after; then the list.
Hibernate(t) ==
    /\ Ends(t, "hibernate", {}) /\ CanAsk
    /\ \/ /\ cloud[t].status = "Running" /\ cloud[t].pod
          /\ Changes(t, "Hibernated", FALSE)
          /\ wire' = Asking(Published(wire, t, "Hibernated"))
          /\ UNCHANGED faults
       \/ /\ (UNCHANGED <<cloud, faults>>) \/ (cloud' = PodGone(t) /\ Fault)
          /\ wire' = Asking(wire)
          /\ UNCHANGED told

\* The resume handler claims the container, or finds that it cannot, for want of
\* capacity perhaps; the answer to the claim may be lost; when it cannot even read
\* the row it marks it Failed.  Sent to the login page, handleResume takes that for
\* a success.
ResumeClaims(t) ==
    \/ /\ cloud[t].status = "Hibernated"
       /\ \/ Ends(t, "resume", {"resuming"}) /\ UNCHANGED faults
          \/ Ends(t, "resume", {}) /\ Fault
       /\ Changes(t, "Resuming", cloud[t].pod) /\ wire' = Published(wire, t, "Resuming")
    \/ /\ Ends(t, "resume", {})
       /\ UNCHANGED wire \/ (CanAsk /\ wire' = Asking(wire))
       /\ UNCHANGED <<cloud, told, faults>>
    \/ /\ Exists(t) /\ Fault
       /\ Ends(t, "resume", {})
       /\ Changes(t, "Failed", cloud[t].pod) /\ wire' = Published(wire, t, "Failed")

\* It has started a pod, and then the page asks for the list; or a pod could not
\* be made, or nobody heard of it, and the row stays Resuming; or a call before
\* or after that raised and the claim was rolled back.  A row that is gone hears
\* of nothing.
ResumeDone(t) ==
    /\ Ends(t, "resuming", {})
    /\ \/ /\ Exists(t) /\ CanAsk
          /\ Changes(t, "Running", TRUE)
          /\ wire' = Asking(Published(wire, t, "Running"))
          /\ UNCHANGED faults
       \/ /\ ~Exists(t) /\ CanAsk
          /\ cloud' = [cloud EXCEPT ![t].pod = TRUE]
          /\ wire' = Asking(wire)
          /\ UNCHANGED <<told, faults>>
       \/ UNCHANGED <<cloud, wire, told, faults>>
       \/ cloud' = [cloud EXCEPT ![t].pod = TRUE] /\ Fault /\ UNCHANGED <<wire, told>>
       \/ /\ Exists(t) /\ Fault
          /\ \E pod \in {cloud[t].pod, TRUE} : Changes(t, "Hibernated", pod)
          /\ wire' = Published(wire, t, "Hibernated")

\* Variant, not part of the specification.  FailedStartIsCleaned: only the pod
\* is cleaned up.
CleanPodOnly(t) ==
    /\ Ends(t, "clean_pod", {})
    /\ cloud' = PodGone(t)
    /\ UNCHANGED <<wire, told, faults>>

\* cleanupFailedContainer: the pod, the row, the list.
CleanPod(t) ==
    /\ Ends(t, "clean_pod", {"clean_row"})
    /\ \/ cloud' = PodGone(t) /\ UNCHANGED faults
       \/ UNCHANGED cloud /\ Fault
    /\ UNCHANGED <<wire, told>>

CleanRow(t) ==
    /\ Ends(t, "clean_row", {}) /\ CanAsk
    /\ \/ cloud' = RowGone(t) /\ UNCHANGED faults
       \/ UNCHANGED cloud /\ Fault
    /\ wire' = Asking(Outdating(wire, t))
    /\ UNCHANGED told

OpStep(t) ==
    \/ \E op \in {"delete", "delete_blind"} : DeleteRow(t, op)
    \/ DropPod(t) \/ Hibernate(t) \/ ResumeClaims(t) \/ ResumeDone(t)
    \/ CleanPod(t) \/ CleanRow(t)

-----------------------------------------------------------------------------
(* A page that is loaded again.                                            *)

\* What the page has under way: the request sent last is still served.
Sent(t) == {<<t, SentAs[x]>> : x \in (tab[t].ops \cup {tab[t].form}) \cap DOMAIN SentAs}

\* The user reloads the page: no flow goes further than the request it has sent,
\* and what the page knew is forgotten.
Reload ==
    /\ tab' = FreshTab
    /\ wire' = Loading(wire.left \cup UNION {Sent(t) : t \in Terminals})
    /\ told' = [told EXCEPT !.unseen = Terminals, !.misled = Terminals]
    /\ Fault
    /\ UNCHANGED cloud

\* A row appears or goes, and the new page does not ask for the list; a
\* createContainer may yet have started a pod whose answer is lost.
LeftWrites(t, q, w) ==
    /\ \/ /\ q = "insert"
          /\ cloud' = [cloud EXCEPT ![t].status = "Pending"]
       \/ q \in {"launch", "remove"} /\ cloud' = RowGone(t)
       \/ q = "launch" /\ Exists(t) /\ cloud' = [RowGone(t) EXCEPT ![t].pod = TRUE]
    /\ wire' = Outdating(w, t)
    /\ told' = [told EXCEPT !.misled = @ \cup {t}]

LeftTouches(t, q, w) ==
    /\ \/ q = "launch" /\ Exists(t) /\ cloud' = [cloud EXCEPT ![t].pod = TRUE]
       \/ q = "record" /\ Exists(t) /\ cloud' = [cloud EXCEPT ![t].kid = TRUE]
       \/ q \in {"drop", "hibernate"} /\ cloud' = PodGone(t)
       \/ q = "resuming" /\ cloud' = [cloud EXCEPT ![t].pod = TRUE]
    /\ wire' = w
    /\ UNCHANGED told

LeftChanges(t, q, w) ==
    \/ /\ q = "hibernate" /\ cloud[t].status = "Running" /\ cloud[t].pod
       /\ Changes(t, "Hibernated", FALSE)
       /\ wire' = Published(w, t, "Hibernated")
    \/ /\ q = "resume" /\ cloud[t].status = "Hibernated"
       /\ Changes(t, "Resuming", cloud[t].pod)
       /\ wire' = Published([w EXCEPT !.left = @ \cup {<<t, "resuming">>}], t, "Resuming")
    \/ /\ q = "resume" /\ Exists(t)
       /\ Changes(t, "Failed", cloud[t].pod) /\ wire' = Published(w, t, "Failed")
    \/ /\ q = "resuming" /\ Exists(t)
       /\ \/ Changes(t, "Running", TRUE) /\ wire' = Published(w, t, "Running")
          \/ /\ \E pod \in {cloud[t].pod, TRUE} : Changes(t, "Hibernated", pod)
             /\ wire' = Published(w, t, "Hibernated")

\* A request of an earlier page is served, or fails.
LeftServed(t, q) ==
    /\ <<t, q>> \in wire.left
    /\ LET w == [wire EXCEPT !.left = @ \ {<<t, q>>}]
       IN  \/ LeftWrites(t, q, w) \/ LeftTouches(t, q, w) \/ LeftChanges(t, q, w)
           \/ wire' = w /\ UNCHANGED <<cloud, told>>
    /\ UNCHANGED <<tab, faults>>

-----------------------------------------------------------------------------
\* What the page, the server and Cloud do of their own accord.
Work ==
    \/ ListServed \/ EventArrives \/ StreamOpens \/ StreamReopens
    \/ \E a \in wire.answers : ListAnswered(a)
    \/ \E t \in Terminals : FormStep(t) \/ OpStep(t) \/ \E q \in Requests : LeftServed(t, q)

Next ==
    \/ Work \/ ListAskedElsewhere \/ ListFails \/ StreamDrops \/ Reload
    \/ \E t \in Terminals : Submit(t) \/ Click(t) \/ Monitor(t)

\* Every request is served and answered, events arrive, a flow goes on to its
\* end and a dropped stream reconnects.  Users and pods owe nothing.
Fairness ==
    /\ WF_vars(ListServed) /\ WF_vars(EventArrives)
    /\ WF_vars(StreamOpens) /\ WF_vars(StreamReopens)
    /\ WF_vars(\E a \in wire.answers : ListAnswered(a))
    /\ \A t \in Terminals : WF_vars(FormStep(t)) /\ WF_vars(CleanPod(t))
                            /\ SF_vars(CleanRow(t))

Spec == Init /\ [][Next]_vars /\ Fairness

-----------------------------------------------------------------------------
(* Properties.                                                             *)

\* The page is between steps that will tell it more about a container.
Expecting(t) ==
    \/ ~wire.up \/ wire.asked > 0 \/ wire.answers # {}
    \/ \E ev \in Range(wire.events) : ev.t = t
    \/ At(t, "rowed") \/ At(t, "undo_row")

\* Once nothing more is on its way, the list shows the status of every row and
\* no row that is gone, unless an older answer came in last (loadTerminals does
\* not order its answers) or one was lost, the change fell between the first
\* list and the first connection of the stream, or an earlier page made it.
ListTellsTruth ==
    \A t \in Terminals :
        Expecting(t) \/ t \in told.misled \/ tab[t].view.shown = Listing(t).shown

\* While no call has failed, a pod whose row is gone is about to be removed by
\* the page, unless the row was deleted while the page knew no kubernetes_id, or
\* the user or the clean-up had started one thing on it before another had ended.
PodHasOwner ==
    faults = MaxFaults =>
        \A t \in Terminals :
            cloud[t].pod /\ cloud[t].status = "gone" =>
                \/ t \in told.rushed
                \/ \E op \in {"drop_pod", "clean_pod"} : Does(t, op)

\* The page deletes by itself only containers that never ran, as far as it was
\* told in time: a container that has run is the user's to delete.
CleanupSparesRunning ==
    [][\A t \in Terminals :
         ~Does(t, "clean_pod") /\ "clean_pod" \in tab'[t].ops
             => ~Head(wire.events).ran \/ t \in told.unseen]_vars

\* A container that fails before it has run does not stay in the list: it is
\* deleted, if the page was told in time and no call failed.
FailedStartIsCleaned ==
    \A t \in Terminals :
        (cloud[t].status = "Failed" /\ t \notin told.ran)
            ~> (cloud[t].status # "Failed" \/ t \in told.unseen \/ faults < MaxFaults)
=============================================================================
