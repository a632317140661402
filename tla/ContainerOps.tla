----------------------------- MODULE ContainerOps -----------------------------
(***************************************************************************)
(* The life of a container as this control plane drives it.                *)
(*                                                                         *)
(* Local keeps no database.  An operation is a browser flow of             *)
(* templates/static/js/terminals.js and the handlers of                    *)
(* src/api_handlers.py it calls: a sequence of awaited calls to Cloud      *)
(* (which owns the rows) and to container-maker (which owns the pods and   *)
(* the snapshot Jobs).  The single asyncio event loop may run anything     *)
(* else between two awaits, so an operation is a slot with a program       *)
(* counter and each awaited call is one action.                            *)
(*                                                                         *)
(* A call can end in three ways: it takes effect and answers; it fails     *)
(* before it takes effect; or it takes effect and the answer is lost (the  *)
(* 10 s client timeout, a dropped gRPC stream), which the caller sees as   *)
(* an exception.                                                           *)
(***************************************************************************)
EXTENDS CloudRows, FiniteSets

CONSTANTS
    Containers,     \* container ids; each is created and deleted at most once
    Slots,          \* how many operations can be in flight at once
    None,           \* "no container", outside Containers
    OneTab,         \* TRUE: the only client is one tab with a fresh list, whose
                    \* user waits for one operation to end before the next
    MaxFail,        \* bound on calls that fail before they take effect
    MaxLost,        \* bound on calls whose answer is lost
    MaxCrash,       \* bound on server restarts, closed tabs and killed Jobs
    MaxImage,       \* bound on the snapshots recorded for one container
    MaxPolls        \* polls that fit in the hibernate handler's 300 s wait

ASSUME NoneAssumption == None \notin Containers

ASSUME OneTabAssumption == OneTab \in BOOLEAN

ASSUME BoundsAssumption ==
    /\ MaxFail \in Nat /\ MaxLost \in Nat /\ MaxCrash \in Nat
    /\ MaxImage \in Nat /\ MaxPolls \in Nat

VARIABLES
    row,        \* Cloud's row of each container
    pods,       \* how many pods carry each container's label
    jobs,       \* snapshot Jobs in flight: the container, the slot that asked
    req,        \* the operation in each slot
    budget      \* what is left of MaxFail, MaxLost and MaxCrash

vars == <<row, pods, jobs, req, budget>>

Operations == {"create", "delete", "save", "resume", "hibernate"}

Pcs == {"idle", "own", "launch", "launched", "undo", "ui_undo", "record",
        "ui_drop_pod", "ui_drop_row", "drop_row", "drop_pod", "mark", "run",
        "running", "note_failed", "poll", "release", "claim", "stamp",
        "rollback", "mark_failed"}

\* What an operation remembers between its awaits: the container, and of the
\* row it once read the saved_image (resume) and kubernetes_id (delete).
\* fresh and own are history that no code reads: since a hibernate put
\* save_status to Pending, a snapshot Job of its container has ended well
\* (fresh), and so has the Job it asked for itself (own).
Idle == [op |-> "none", c |-> None, pc |-> "idle", image |-> 0, kid |-> FALSE,
         polls |-> 0, fresh |-> FALSE, own |-> FALSE]

Requests == [op : Operations \cup {"none"}, c : Containers \cup {None}, pc : Pcs,
             image : Nat, kid : BOOLEAN, polls : Nat, fresh : BOOLEAN, own : BOOLEAN]

Jobs == [c : Containers, slot : Slots]

TypeOK ==
    /\ row \in [Containers -> Rows]
    /\ pods \in [Containers -> Nat]
    /\ jobs \in SUBSET Jobs
    /\ req \in [Slots -> Requests]
    /\ budget \in [fail : Nat, lost : Nat, crash : Nat]

Init ==
    /\ row = [c \in Containers |-> AbsentRow]
    /\ pods = [c \in Containers |-> 0]
    /\ jobs = {}
    /\ req = [r \in Slots |-> Idle]
    /\ budget = [fail |-> MaxFail, lost |-> MaxLost, crash |-> MaxCrash]

-----------------------------------------------------------------------------
(* Steps of a slot, and the three ways an awaited call can end.            *)

At(r, op, pc) == req[r].op = op /\ req[r].pc = pc

Goto(r, pc) ==
    req' = [req EXCEPT ![r] = IF pc = "idle" THEN Idle ELSE [@ EXCEPT !.pc = pc]]

Fail == budget.fail > 0 /\ budget' = [budget EXCEPT !.fail = @ - 1]

Lost == budget.lost > 0 /\ budget' = [budget EXCEPT !.lost = @ - 1]

\* What the caller of a call without an effect sees of both.
Raises == Fail \/ Lost

Broken == budget.crash > 0 /\ budget' = [budget EXCEPT !.crash = @ - 1]

SetRow(c, new) == row' = [row EXCEPT ![c] = new]

SetPods(c, n) == pods' = [pods EXCEPT ![c] = n]

\* A write to the row whose exception is handled at onError.
Write(r, new, onOk, onError) ==
    \/ SetRow(req[r].c, new) /\ Goto(r, onOk) /\ UNCHANGED budget
    \/ SetRow(req[r].c, new) /\ Goto(r, onError) /\ Lost
    \/ UNCHANGED row /\ Goto(r, onError) /\ Fail

\* A write whose exception is swallowed.
BestEffort(r, new, next) ==
    \/ SetRow(req[r].c, new) /\ Goto(r, next) /\ UNCHANGED budget
    \/ UNCHANGED row /\ Goto(r, next) /\ Fail

\* get_container_by_id: the row, None for a row that is not there, or an
\* exception.
Read(r, onFound, onMissing, onError) ==
    \/ /\ Goto(r, IF Exists(row[req[r].c]) THEN onFound ELSE onMissing)
       /\ UNCHANGED budget
    \/ Goto(r, onError) /\ Raises

\* createContainer has made the pod, from whatever image it was given, and has
\* not answered yet.
PodStarts(r) ==
    /\ SetPods(req[r].c, pods[req[r].c] + 1)
    /\ Goto(r, "launched")
    /\ UNCHANGED <<row, jobs, budget>>

\* createContainer fails with no pod made.
PodRefused(r, onError) ==
    /\ Goto(r, onError)
    /\ Fail
    /\ UNCHANGED <<row, pods, jobs>>

\* createContainer answers, or its answer is lost.
PodAnswer(r, onOk, onError) ==
    /\ \/ Goto(r, onOk) /\ UNCHANGED budget
       \/ Goto(r, onError) /\ Lost
    /\ UNCHANGED <<row, pods, jobs>>

\* saveContainer starts a snapshot Job if the container has a pod.
SaveStarts(r, onError) ==
    /\ \/ /\ pods[req[r].c] > 0
          /\ jobs' = jobs \cup {[c |-> req[r].c, slot |-> r]}
          /\ Goto(r, "running")
          /\ UNCHANGED budget
       \/ /\ IF pods[req[r].c] > 0 THEN Fail ELSE UNCHANGED budget
          /\ Goto(r, onError)
          /\ UNCHANGED jobs
    /\ UNCHANGED <<row, pods>>

\* saveContainer answers, before or after its Job has ended, or is cut off.
SaveAnswer(r, onOk, onError) ==
    /\ \/ Goto(r, onOk) /\ UNCHANGED budget
       \/ Goto(r, onError) /\ Lost
    /\ UNCHANGED <<row, pods, jobs>>
-----------------------------------------------------------------------------
(* Variants of the actions below, each with one plausible bug.  They are   *)
(* not part of the specification: a variant put in the place of its action *)
(* must break the property named beside it.                                *)

\* TypeOK: the delete counts one pod down instead of removing what it finds.
DeleteOnePod(r) ==
    /\ At(r, "delete", "drop_pod")
    /\ Goto(r, "idle")
    /\ SetPods(req[r].c, pods[req[r].c] - 1)
    /\ UNCHANGED <<row, jobs, budget>>

\* PodDroppedAfterSnapshot: hibernate does not put save_status back to Pending.
HibernateWithoutMark(r) ==
    /\ At(r, "hibernate", "mark")
    /\ Goto(r, "run")
    /\ UNCHANGED <<row, pods, jobs, budget>>

\* HibernatedIsRestorable: the poll takes any final save_status for a success.
HibernateOnAnyEnd(r) ==
    /\ At(r, "hibernate", "poll")
    /\ IF row[req[r].c].save \in {"Succeeded", "Failed"}
       THEN Goto(r, "drop_pod")
       ELSE Goto(r, "idle")
    /\ UNCHANGED <<row, pods, jobs, budget>>

\* HibernatedHoldsNothing: the rollback writes the status itself instead of
\* asking Cloud for the whole transition.
RollbackByStatus(r) ==
    /\ At(r, "resume", "rollback")
    /\ BestEffort(r, WithStatus(row[req[r].c], "Hibernated"), "idle")
    /\ UNCHANGED <<pods, jobs>>

\* FollowsLifecycle: the claim is an ordinary update of the row, which does not
\* ask for the status Hibernated.
ClaimUnconditionally(r) ==
    /\ At(r, "resume", "claim")
    /\ SetRow(req[r].c, Updated(row[req[r].c], Claimed(row[req[r].c])))
    /\ Goto(r, "stamp")
    /\ UNCHANGED <<pods, jobs, budget>>

\* ActiveIsReserved: a refused claim is only logged.
ClaimRefusedGoesOn(r) ==
    /\ At(r, "resume", "claim")
    /\ Goto(r, "stamp")
    /\ IF Resumable(row[req[r].c])
       THEN SetRow(req[r].c, Claimed(row[req[r].c])) \/ UNCHANGED row
       ELSE UNCHANGED row
    /\ UNCHANGED <<pods, jobs, budget>>

\* NothingStuck: the last update records the pod and leaves the status to others.
RecordPodOnly(r) ==
    /\ At(r, "resume", "record")
    /\ Write(r, WithPod(row[req[r].c]), "idle", "rollback")
    /\ UNCHANGED <<pods, jobs>>

\* PodsSettle: the list forgets to pass the kubernetes_id on.
DeleteRowOnly(r) ==
    /\ At(r, "delete", "drop_row")
    /\ BestEffort(r, Removed(row[req[r].c]), "idle")
    /\ UNCHANGED <<pods, jobs>>

\* OperationsEnd: the poll waits for a success, and has no deadline.
PollForever(r) ==
    /\ At(r, "hibernate", "poll")
    /\ row[req[r].c].save = "Succeeded"
    /\ Goto(r, "drop_pod")
    /\ UNCHANGED <<row, pods, jobs, budget>>

\* SaveResolves: _run_save does not catch the failure of its call.
SaveRunUncaught(r) == At(r, "save", "run") /\ SaveStarts(r, "idle")

-----------------------------------------------------------------------------
(* Which operations the browser starts.  The list shows a container's      *)
(* controls by its status; another tab, or a list that is out of date, can *)
(* start anything on a row that once existed.                              *)

Offered(op, c) ==
    CASE op = "hibernate" -> row[c].status = "Running"
      [] op = "save"      -> row[c].status = "Running"
      [] op = "resume"    -> row[c].status = "Hibernated"
      [] op = "delete"    -> row[c].status \in {"Running", "Failed", "Hibernated"}

\* A save answers 202 and goes on in the background: it no longer keeps its
\* tab busy.
Background == {"run", "running", "note_failed"}

Engaged(r, c) ==
    req[r].c = c /\ ~(req[r].op = "save" /\ req[r].pc \in Background)

Quiet(c) == \A r \in Slots : ~Engaged(r, c)

\* A slot is taken again only when the Job it last asked for has ended.
Free(r) == req[r] = Idle /\ \A j \in jobs : j.slot # r

FirstPc(op) == IF op = "delete" THEN "drop_row" ELSE "own"

Begin(r, op, c) ==
    /\ Free(r)
    /\ row[c].status # "Absent"
    /\ OneTab => Quiet(c) /\ Offered(op, c)
    /\ req' = [req EXCEPT ![r] = [Idle EXCEPT !.op = op, !.c = c, !.kid = row[c].kid,
                                              !.pc = FirstPc(op)]]
    /\ UNCHANGED <<row, pods, jobs, budget>>

-----------------------------------------------------------------------------
(* create: handleFormSubmit posts create-container-in-db, then             *)
(* create-container-in-k8s, then update-container, and undoes what it did  *)
(* when one of the last two answers with an error.                         *)

\* A failure with no effect leaves nothing behind and is not modelled; when
\* the answer is lost the form reports an error and forgets the row.
CreateRow(r, c) ==
    /\ Free(r)
    /\ row[c].status = "Absent"
    /\ SetRow(c, Created)
    /\ \/ /\ req' = [req EXCEPT ![r] = [Idle EXCEPT !.op = "create", !.c = c,
                                                    !.pc = "own"]]
          /\ UNCHANGED budget
       \/ UNCHANGED req /\ Lost
    /\ UNCHANGED <<pods, jobs>>

\* Each request of the flow has its session validated at Cloud first.  When
\* that call raises the answer is a redirect to the login page, whose text is
\* no JSON: the form's catch reports it and undoes nothing.
SentToLogin(r) == Goto(r, "idle") /\ Raises

CreateOwn(r) ==
    /\ At(r, "create", "own")
    /\ Read(r, "launch", "ui_undo", "ui_undo") \/ SentToLogin(r)
    /\ UNCHANGED <<row, pods, jobs>>

\* The image lookup that precedes createContainer fails the same way.
CreateLaunch(r) ==
    /\ At(r, "create", "launch")
    /\ PodStarts(r) \/ PodRefused(r, "undo")

CreateLaunched(r) ==
    /\ At(r, "create", "launched")
    /\ PodAnswer(r, "record", "undo")

CreateUndo(r) ==
    /\ At(r, "create", "undo")
    /\ BestEffort(r, Removed(row[req[r].c]), "ui_undo")
    /\ UNCHANGED <<pods, jobs>>

CreateUiUndo(r) ==
    /\ At(r, "create", "ui_undo")
    /\ BestEffort(r, Removed(row[req[r].c]), "idle")
    /\ UNCHANGED <<pods, jobs>>

CreateRecord(r) ==
    /\ At(r, "create", "record")
    /\ \/ Write(r, WithPod(row[req[r].c]), "idle", "ui_drop_pod")
       \/ UNCHANGED row /\ SentToLogin(r)
    /\ UNCHANGED <<pods, jobs>>

CreateUiDropPod(r) ==
    /\ At(r, "create", "ui_drop_pod")
    /\ Goto(r, "ui_drop_row")
    /\ \/ SetPods(req[r].c, 0) /\ UNCHANGED budget
       \/ UNCHANGED pods /\ Fail
    /\ UNCHANGED <<row, jobs>>

CreateUiDropRow(r) ==
    /\ At(r, "create", "ui_drop_row")
    /\ BestEffort(r, Removed(row[req[r].c]), "idle")
    /\ UNCHANGED <<pods, jobs>>

CreateStep(r) ==
    \/ CreateOwn(r) \/ CreateLaunch(r) \/ CreateLaunched(r) \/ CreateUndo(r)
    \/ CreateUiUndo(r) \/ CreateRecord(r) \/ CreateUiDropPod(r)
    \/ CreateUiDropRow(r)

-----------------------------------------------------------------------------
(* delete: handleDelete posts delete-container-in-db, swallowing its error *)
(* and, if the list knew a kubernetes_id, delete-container-in-k8s in the   *)
(* background.                                                             *)

DeleteRow(r) ==
    /\ At(r, "delete", "drop_row")
    /\ BestEffort(r, Removed(row[req[r].c]), IF req[r].kid THEN "drop_pod" ELSE "idle")
    /\ UNCHANGED <<pods, jobs>>

DeletePod(r) ==
    /\ At(r, "delete", "drop_pod")
    /\ Goto(r, "idle")
    /\ \/ SetPods(req[r].c, 0) /\ UNCHANGED budget
       \/ UNCHANGED pods /\ Fail
    /\ UNCHANGED <<row, jobs>>

DeleteStep(r) == DeleteRow(r) \/ DeletePod(r)

-----------------------------------------------------------------------------
(* save: save_container marks the row Pending, answers 202 and leaves      *)
(* _run_save in the background.                                            *)

SaveOwn(r) ==
    /\ At(r, "save", "own")
    /\ Read(r, "mark", "idle", "idle")
    /\ UNCHANGED <<row, pods, jobs>>

\* _set_save_status(PENDING).
MarkPending(r, onOk) ==
    /\ Write(r, WithSave(row[req[r].c], "Pending"), onOk, "idle")
    /\ UNCHANGED <<pods, jobs>>

SaveMark(r) == At(r, "save", "mark") /\ MarkPending(r, "run")

SaveRun(r) == At(r, "save", "run") /\ SaveStarts(r, "note_failed")

SaveRunning(r) == At(r, "save", "running") /\ SaveAnswer(r, "idle", "note_failed")

SaveNoteFailed(r) ==
    /\ At(r, "save", "note_failed")
    /\ BestEffort(r, WithSave(row[req[r].c], "Failed"), "idle")
    /\ UNCHANGED <<pods, jobs>>

SaveStep(r) ==
    SaveOwn(r) \/ SaveMark(r) \/ SaveRun(r) \/ SaveRunning(r) \/ SaveNoteFailed(r)

-----------------------------------------------------------------------------
(* hibernate: hibernate_container saves, waits for a confirmed save_status,*)
(* deletes the pod and only then has Cloud hibernate the row.              *)

HibernateOwn(r) ==
    /\ At(r, "hibernate", "own")
    /\ LET w == row[req[r].c]
       IN  \/ /\ Goto(r, IF w.status = "Running" /\ w.kid THEN "mark" ELSE "idle")
              /\ UNCHANGED budget
           \/ Goto(r, "idle") /\ Raises
    /\ UNCHANGED <<row, pods, jobs>>

HibernateMark(r) == At(r, "hibernate", "mark") /\ MarkPending(r, "run")

HibernateRun(r) == At(r, "hibernate", "run") /\ SaveStarts(r, "idle")

HibernateRunning(r) == At(r, "hibernate", "running") /\ SaveAnswer(r, "poll", "idle")

\* One turn of the polling loop; a row that is gone has no save_status.
HibernatePoll(r) ==
    /\ At(r, "hibernate", "poll")
    /\ LET w == row[req[r].c]
           seen == IF Exists(w) THEN w.save ELSE "None"
       IN  \/ seen = "Succeeded" /\ Goto(r, "drop_pod") /\ UNCHANGED budget
           \/ seen = "Failed" /\ Goto(r, "idle") /\ UNCHANGED budget
           \/ /\ seen \notin {"Succeeded", "Failed"}
              /\ IF req[r].polls < MaxPolls
                 THEN req' = [req EXCEPT ![r].polls = @ + 1]
                 ELSE Goto(r, "idle")
              /\ UNCHANGED budget
           \/ Goto(r, "idle") /\ Raises
    /\ UNCHANGED <<row, pods, jobs>>

HibernateDropPod(r) ==
    /\ At(r, "hibernate", "drop_pod")
    /\ \/ SetPods(req[r].c, 0) /\ Goto(r, "release") /\ UNCHANGED budget
       \/ SetPods(req[r].c, 0) /\ Goto(r, "idle") /\ Lost
       \/ UNCHANGED pods /\ Goto(r, "idle") /\ Fail
    /\ UNCHANGED <<row, jobs>>

\* The row is read once more before the handler answers, to no effect.
HibernateRelease(r) ==
    /\ At(r, "hibernate", "release")
    /\ BestEffort(r, Hibernated(row[req[r].c]), "idle")
    /\ UNCHANGED <<pods, jobs>>

HibernateStep(r) ==
    \/ HibernateOwn(r) \/ HibernateMark(r) \/ HibernateRun(r) \/ HibernateRunning(r)
    \/ HibernatePoll(r) \/ HibernateDropPod(r) \/ HibernateRelease(r)

-----------------------------------------------------------------------------
(* resume: resume_container claims the row at Cloud, recreates the pod     *)
(* from the saved image of the row it read first, and records the new pod. *)
(* What raises after the claim is rolled back by hibernating the row,      *)
(* except createContainer: create_container_in_k8s turns its failure into  *)
(* an HTTPException, which the handler answers without the rollback.       *)

ResumeOwn(r) ==
    /\ At(r, "resume", "own")
    /\ LET w == row[req[r].c]
       IN  \/ /\ IF Exists(w)
                 THEN req' = [req EXCEPT ![r].pc = "claim", ![r].image = w.image]
                 ELSE Goto(r, "idle")
              /\ UNCHANGED budget
           \/ Goto(r, "mark_failed") /\ Raises
    /\ UNCHANGED <<row, pods, jobs>>

\* Cloud may also refuse a Hibernated row: its device has no capacity left.
\* Every CloudClientError is returned to the caller at once, a timeout too.
ResumeClaim(r) ==
    /\ At(r, "resume", "claim")
    /\ LET w == row[req[r].c]
       IN  \/ /\ Resumable(w)
              /\ SetRow(req[r].c, Claimed(w))
              /\ \/ Goto(r, "stamp") /\ UNCHANGED budget
                 \/ Goto(r, "idle") /\ Lost
           \/ Goto(r, "idle") /\ UNCHANGED <<row, budget>>
    /\ UNCHANGED <<pods, jobs>>

\* last_request_id is stamped for tracing; only its failure matters here.
ResumeStamp(r) ==
    /\ At(r, "resume", "stamp")
    /\ \/ Goto(r, "launch") /\ UNCHANGED budget
       \/ Goto(r, "rollback") /\ Raises
    /\ UNCHANGED <<row, pods, jobs>>

\* A row that was read without a saved_image has its base image looked up
\* first, outside of the try block that makes the HTTPException.
NoBaseImage(r) ==
    /\ req[r].image = 0
    /\ Goto(r, "rollback")
    /\ Raises
    /\ UNCHANGED <<row, pods, jobs>>

ResumeLaunch(r) ==
    /\ At(r, "resume", "launch")
    /\ PodStarts(r) \/ PodRefused(r, "idle") \/ NoBaseImage(r)

ResumeLaunched(r) ==
    /\ At(r, "resume", "launched")
    /\ PodAnswer(r, "record", "idle")

ResumeRecord(r) ==
    /\ At(r, "resume", "record")
    /\ Write(r, WithStatus(WithPod(row[req[r].c]), "Running"), "idle", "rollback")
    /\ UNCHANGED <<pods, jobs>>

ResumeRollback(r) ==
    /\ At(r, "resume", "rollback")
    /\ BestEffort(r, Hibernated(row[req[r].c]), "idle")
    /\ UNCHANGED <<pods, jobs>>

ResumeMarkFailed(r) ==
    /\ At(r, "resume", "mark_failed")
    /\ BestEffort(r, WithStatus(row[req[r].c], "Failed"), "idle")
    /\ UNCHANGED <<pods, jobs>>

ResumeStep(r) ==
    \/ ResumeOwn(r) \/ ResumeClaim(r) \/ ResumeStamp(r) \/ ResumeLaunch(r)
    \/ ResumeLaunched(r) \/ ResumeRecord(r) \/ ResumeRollback(r)
    \/ ResumeMarkFailed(r)

Step(r) ==
    CreateStep(r) \/ DeleteStep(r) \/ SaveStep(r) \/ HibernateStep(r) \/ ResumeStep(r)

-----------------------------------------------------------------------------
(* The rest of the world.                                                  *)

Monitor(c) ==
    /\ pods[c] > 0
    /\ row[c].status \in Monitored
    /\ \E s \in {"Running", "Failed"} : SetRow(c, [row[c] EXCEPT !.status = s])
    /\ UNCHANGED <<pods, jobs, req, budget>>

\* The Job's report is news to every hibernate that waits on its container.
Waits(r, c) ==
    req[r].op = "hibernate" /\ req[r].c = c /\ req[r].pc \in {"run", "running", "poll"}

JobSucceeds(j) ==
    /\ row[j.c].image < MaxImage
    /\ SetRow(j.c, WithSnapshot(row[j.c]))
    /\ jobs' = jobs \ {j}
    /\ req' = [r \in Slots |->
                 IF Waits(r, j.c)
                 THEN [req[r] EXCEPT !.fresh = TRUE, !.own = @ \/ j.slot = r]
                 ELSE req[r]]
    /\ UNCHANGED <<pods, budget>>

JobFails(j) ==
    /\ SetRow(j.c, WithSave(row[j.c], "Failed"))
    /\ jobs' = jobs \ {j}
    /\ UNCHANGED <<pods, req, budget>>

\* A Job evicted or killed before it reports anything.
JobVanishes(j) ==
    /\ Broken
    /\ jobs' = jobs \ {j}
    /\ UNCHANGED <<row, pods, req>>

\* The server restarts: every handler and background task in flight is gone.
\* The browser swallows a failed delete call and goes on; a create ends at its
\* failed call, unless the restart fell between two of its calls.
GoesOn(r) == req[r].op = "delete" \/ At(r, "create", "ui_drop_pod")

BetweenCalls(r) ==
    req[r].op = "create" /\ req[r].pc \in {"own", "record", "ui_undo", "ui_drop_row"}

Crash ==
    /\ Broken
    /\ \E unhurt \in SUBSET {r \in Slots : BetweenCalls(r)} :
          req' = [r \in Slots |-> IF GoesOn(r) \/ r \in unhurt THEN req[r] ELSE Idle]
    /\ UNCHANGED <<row, pods, jobs>>

\* The tab is closed, so what the browser would have posted next never comes.
BrowserPcs == {"own", "record", "ui_undo", "ui_drop_pod", "ui_drop_row", "drop_row",
               "drop_pod"}

Abandon(r) ==
    /\ req[r].op \in {"create", "delete"} /\ req[r].pc \in BrowserPcs
    /\ Broken
    /\ Goto(r, "idle")
    /\ UNCHANGED <<row, pods, jobs>>

Next ==
    \/ \E r \in Slots, c \in Containers :
          \/ CreateRow(r, c)
          \/ \E op \in Operations \ {"create"} : Begin(r, op, c)
    \/ \E r \in Slots : Step(r) \/ Abandon(r)
    \/ \E c \in Containers : Monitor(c)
    \/ \E j \in jobs : JobSucceeds(j) \/ JobFails(j) \/ JobVanishes(j)
    \/ Crash

Spec == Init /\ [][Next]_vars

\* The event loop runs every ready task and each call ends, so a slot keeps
\* taking steps.
FairSlots == \A r \in Slots : WF_vars(Step(r))

\* A snapshot Job ends and reports, one way or the other.
FairJobs == \A j \in Jobs : WF_vars(j \in jobs /\ (JobSucceeds(j) \/ JobFails(j)))

FairSpec == Spec /\ FairSlots /\ FairJobs

-----------------------------------------------------------------------------
(* Safety, whatever the clients and the faults.                            *)

\* hibernate_container deletes a pod only once a snapshot of the container
\* has been recorded after the handler had set save_status to Pending: an
\* earlier success left on the row never counts.
PodDroppedAfterSnapshot ==
    \A r \in Slots : At(r, "hibernate", "drop_pod") => req[r].fresh

\* A container that is Hibernated has a saved image to be resumed from, also
\* after a resume of it was rolled back, a server restart or a lost answer.
HibernatedIsRestorable ==
    \A c \in Containers : row[c].status = "Hibernated" => row[c].image > 0

\* A container that is Hibernated or gone keeps no device capacity reserved,
\* whichever path of hibernate, resume, create or delete put it there.
HibernatedHoldsNothing ==
    \A c \in Containers :
        row[c].status \in Gone \cup {"Hibernated"} => ~row[c].reserved

-----------------------------------------------------------------------------
(* The abstract life cycle that the operations implement.                  *)

Life(w) == [status |-> w.status, saved |-> w.image > 0, reserved |-> w.reserved]

L == INSTANCE Lifecycle WITH life <- [c \in Containers |-> Life(row[c])]

\* Every step of every handler, flow, Job and fault moves a row the way
\* Lifecycle allows, or not at all: created once, hibernated only with a
\* snapshot, resumed only from Hibernated, reserved and released only as
\* these change, never revived after a delete.
FollowsLifecycle == L!LifeSpec

-----------------------------------------------------------------------------
(* What the operations leave behind.                                       *)

\* A container that is being created, running or being resumed is backed by a
\* reservation on its device, in the middle of an operation too: with one tab
\* and one failed call.
ActiveIsReserved ==
    \A c \in Containers :
        row[c].status \in {"Pending", "Running", "Resuming"} => row[c].reserved

\* No call has failed, no answer was lost, and nothing was killed.
Undisturbed == budget = [fail |-> MaxFail, lost |-> MaxLost, crash |-> MaxCrash]

\* Whatever operations any clients start on a container at the same time, it
\* is left neither Resuming nor Pending without a pod: the list shows only a
\* spinner for both, so nobody could ever delete it.
NothingStuck ==
    Undisturbed =>
        \A c \in Containers :
            Quiet(c) => /\ row[c].status # "Resuming"
                        /\ row[c].status = "Pending" => pods[c] > 0

\* With one tab, a container that no operation is working on has exactly one
\* pod if it was created or resumed, and none once hibernated or deleted.
PodsSettle ==
    Undisturbed =>
        \A c \in Containers :
            Quiet(c) => pods[c] = IF row[c].status \in {"Pending", "Running", "Failed"}
                                  THEN 1 ELSE 0

-----------------------------------------------------------------------------
(* Liveness, under FairSpec.                                               *)

\* Every operation ends: the wait for a snapshot is cut off by its deadline
\* even if the Job never reports.
OperationsEnd == \A r \in Slots : req[r].pc # "idle" ~> req[r].pc = "idle"

\* With no more than one failed call in its history, a save that was accepted
\* ends in a save_status other than Pending, by its Job's report or, when
\* saveContainer raises, by _run_save; unless a Job or the server was killed.
SaveResolves ==
    \A r \in Slots, c \in Containers :
        (At(r, "save", "run") /\ req[r].c = c)
            ~> (row[c].save # "Pending" \/ budget.crash < MaxCrash)

-----------------------------------------------------------------------------
(* What the code's comments say and the code does not do.                  *)

\* "A non-2xx response here means resume never actually started (nothing was
\* reserved)": resume_container answers an error at the claim only if the
\* claim changed nothing.
FailedClaimReservesNothing ==
    [][\A r \in Slots :
         At(r, "resume", "claim") /\ req'[r] = Idle => row' = row]_vars

\* "delete the pod - ONLY after a confirmed successful save": the snapshot
\* that hibernate_container itself asked for has been recorded by then.
HibernateConfirmsOwnSave ==
    \A r \in Slots : At(r, "hibernate", "drop_pod") => req[r].own

\* "if the gRPC call itself fails before the Job records anything, mark
\* FAILED": no container stays Pending in save_status for ever.
SavePendingResolves ==
    \A c \in Containers : row[c].save = "Pending" ~> row[c].save # "Pending"

\* "recreate its pod from the saved snapshot image": a resume starts the pod
\* from the image that the row names when the pod is made.
ResumesLatestImage ==
    [][\A r \in Slots :
         At(r, "resume", "launch") /\ req'[r].pc = "launched"
             => req[r].image = row[req[r].c].image]_vars

\* "Cloud's resume transition already reserved a device's capacity ... before
\* the pod-start step above failed", "rather than just marking FAILED, which
\* would leave a dangling device reservation": where nothing is killed, a row
\* is Resuming only while a resume is under way.
ResumingIsUnderWay ==
    \A c \in Containers : row[c].status = "Resuming" => ~Quiet(c)

\* "the existing P18 hibernate endpoint already does exactly the right
\* rollback": a container that is Hibernated and left alone has no pod.
HibernatedHasNoPod ==
    \A c \in Containers : row[c].status = "Hibernated" /\ Quiet(c) => pods[c] = 0
=============================================================================
