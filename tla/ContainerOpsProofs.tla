-------------------------- MODULE ContainerOpsProofs --------------------------
(***************************************************************************)
(* What ContainerOps keeps invariant, for any number of containers and of  *)
(* operations in flight, whatever the clients do and however often calls   *)
(* fail, answers are lost and servers restart.                             *)
(*                                                                         *)
(* The invariant IInv speaks of each row by itself (RowSound) and of each  *)
(* operation together with the row it works on (RequestSound).  An action  *)
(* changes at most one slot and one row, so the proof has three parts: the *)
(* new row is sound and Harmless to the other operations on it; the slot's *)
(* new program counter is sound for the new row; SlotMoves puts them       *)
(* together.                                                               *)
(*                                                                         *)
(* Then how long an operation can last (CallsLeft), and what becomes of    *)
(* three promises of the code's comments, which do not hold as they stand, *)
(* when no answer is lost or when operations take turns (SerialInv).       *)
(***************************************************************************)
EXTENDS ContainerOps, TLAPS

\* A snapshot is recorded, or the row is deleted for good.
HasImage(w) == w.image > 0 \/ w.status = "Deleted"

RowSound(w) ==
    /\ w \in Rows
    /\ w.status \in Gone => w.save = "None" /\ ~w.reserved
    /\ w.status = "Hibernated" => w.image > 0 /\ ~w.reserved
    /\ w.save = "Succeeded" => w.image > 0

\* What an operation at pc relies on, of its own history and of its row.
RequestSound(op, pc, fresh, w) ==
    /\ w.status # "Absent"
    /\ op = "resume" /\ pc \in {"stamp", "launch", "launched", "record", "rollback"}
          => HasImage(w)
    /\ op = "hibernate" =>
          /\ pc \in {"drop_pod", "release"} => HasImage(w)
          /\ pc \in {"run", "running", "poll"} => (w.save = "Succeeded" => fresh)
          /\ pc = "drop_pod" => fresh

SlotSound(q, rows) ==
    \/ q = Idle
    \/ q.c \in Containers /\ RequestSound(q.op, q.pc, q.fresh, rows[q.c])

Budgets == [fail : Nat, lost : Nat, crash : Nat]

IInv ==
    /\ TypeOK
    /\ \A c \in Containers : RowSound(row[c])
    /\ \A r \in Slots : SlotSound(req[r], row)

\* The row changes from w to v without breaking what another operation on it
\* relies on.  Nothing works on a row that is not there yet.
Harmless(w, v) ==
    w.status # "Absent" =>
        /\ v.status # "Absent"
        /\ HasImage(w) => HasImage(v)
        /\ v.save = "Succeeded" => w.save = "Succeeded"

-----------------------------------------------------------------------------
(* What Cloud's endpoints do to a sound row.                               *)

\* Creating, deleting and hibernating a row.
LEMMA EndpointsSound ==
    ASSUME NEW w, RowSound(w)
    PROVE  /\ RowSound(Created)
           /\ RowSound(Removed(w)) /\ Harmless(w, Removed(w))
           /\ HasImage(w) =>
                RowSound(Hibernated(w)) /\ Harmless(w, Hibernated(w))
           /\ Resumable(w) =>
                /\ RowSound(Claimed(w)) /\ Harmless(w, Claimed(w))
                /\ HasImage(Claimed(w))
  <1> USE DEF RowSound, Harmless, HasImage, Rows, Gone, LiveStatuses, SaveStatuses
  <1>1. RowSound(Created)
    BY DEF Created, BlankRow
  <1>2. RowSound(Removed(w)) /\ Harmless(w, Removed(w))
    BY DEF Removed, Exists, BlankRow
  <1>3. ASSUME HasImage(w)
        PROVE  RowSound(Hibernated(w)) /\ Harmless(w, Hibernated(w))
    BY <1>3 DEF Hibernated, Updated, Exists
  <1>4. ASSUME Resumable(w)
        PROVE  RowSound(Claimed(w)) /\ Harmless(w, Claimed(w)) /\ HasImage(Claimed(w))
    BY <1>4 DEF Resumable, Claimed
  <1> QED BY <1>1, <1>2, <1>3, <1>4

\* The field updates that the handlers ask for.
LEMMA UpdatesSound ==
    ASSUME NEW w, RowSound(w)
    PROVE  /\ RowSound(w) /\ Harmless(w, w)
           /\ RowSound(WithPod(w)) /\ Harmless(w, WithPod(w))
           /\ \A s \in {"Running", "Failed"} :
                /\ RowSound(WithStatus(w, s)) /\ Harmless(w, WithStatus(w, s))
                /\ RowSound(WithStatus(WithPod(w), s))
                /\ Harmless(w, WithStatus(WithPod(w), s))
           /\ \A s \in {"Pending", "Failed"} :
                RowSound(WithSave(w, s)) /\ Harmless(w, WithSave(w, s))
  <1> USE DEF RowSound, Harmless, HasImage, Rows, Gone, LiveStatuses, SaveStatuses,
              Updated, Exists
  <1>1. RowSound(WithPod(w)) /\ Harmless(w, WithPod(w))
    BY DEF WithPod
  <1>2. ASSUME NEW x, RowSound(x), NEW s \in {"Running", "Failed"}
        PROVE  RowSound(WithStatus(x, s)) /\ Harmless(x, WithStatus(x, s))
    BY <1>2 DEF WithStatus
  <1>3. ASSUME NEW s \in {"Pending", "Failed"}
        PROVE  RowSound(WithSave(w, s)) /\ Harmless(w, WithSave(w, s))
    BY <1>3 DEF WithSave
  <1>4. RowSound(w) /\ Harmless(w, w)
    OBVIOUS
  <1>5. ASSUME NEW s \in {"Running", "Failed"}
        PROVE  /\ RowSound(WithStatus(WithPod(w), s))
               /\ Harmless(w, WithStatus(WithPod(w), s))
    <2>1. /\ RowSound(WithStatus(WithPod(w), s))
          /\ Harmless(WithPod(w), WithStatus(WithPod(w), s))
      BY <1>1, <1>2
    <2> HIDE DEF RowSound, HasImage
    <2> QED BY <1>1, <2>1 DEF Harmless
  <1> HIDE DEF RowSound, Harmless
  <1> QED BY <1>1, <1>2, <1>3, <1>4, <1>5

\* The status_monitor's update, and the snapshot Job's report.
LEMMA ReportsSound ==
    ASSUME NEW w, RowSound(w)
    PROVE  /\ w.status \in Monitored =>
                \A s \in {"Running", "Failed"} :
                    /\ RowSound([w EXCEPT !.status = s])
                    /\ Harmless(w, [w EXCEPT !.status = s])
           /\ RowSound(WithSnapshot(w))
           /\ w.status # "Absent" => WithSnapshot(w).status # "Absent"
           /\ HasImage(w) => HasImage(WithSnapshot(w))
  <1> USE DEF RowSound, Harmless, HasImage, Rows, Gone, LiveStatuses, SaveStatuses
  <1>1. ASSUME w.status \in Monitored, NEW s \in {"Running", "Failed"}
        PROVE  /\ RowSound([w EXCEPT !.status = s])
               /\ Harmless(w, [w EXCEPT !.status = s])
    BY <1>1 DEF Monitored
  <1>2. RowSound(WithSnapshot(w))
    <2>1. CASE Exists(w)
      <3> DEFINE v == [w EXCEPT !.save = "Succeeded", !.image = @ + 1]
      <3>1. WithSnapshot(w) = v
        BY <2>1 DEF WithSnapshot, Updated
      <3>2. v \in Rows
        <4>1. w \in Rows /\ w.image \in Nat /\ w.image + 1 \in Nat
          OBVIOUS
        <4> HIDE DEF RowSound, Harmless, HasImage
        <4>2. [w EXCEPT !.save = "Succeeded"] \in Rows
          BY <4>1
        <4>3. v = [[w EXCEPT !.save = "Succeeded"] EXCEPT !.image = w.image + 1]
          BY <4>1
        <4> QED BY <4>1, <4>2, <4>3
      <3>3. v.status = w.status /\ v.save = "Succeeded" /\ v.image > 0
            /\ v.reserved = w.reserved
        OBVIOUS
      <3> QED BY <2>1, <3>1, <3>2, <3>3 DEF Exists
    <2>2. CASE ~Exists(w)
      BY <2>2 DEF WithSnapshot, Updated
    <2> QED BY <2>1, <2>2
  <1>3. /\ w.status # "Absent" => WithSnapshot(w).status # "Absent"
        /\ HasImage(w) => HasImage(WithSnapshot(w))
    BY DEF WithSnapshot, Updated, Exists
  <1> QED BY <1>1, <1>2, <1>3

\* A harmless change of the row leaves every operation on it sound.
LEMMA HarmlessKeeps ==
    ASSUME NEW op, NEW pc, NEW fresh, NEW w, NEW v, Harmless(w, v),
           RequestSound(op, pc, fresh, w)
    PROVE  RequestSound(op, pc, fresh, v)
  BY DEF Harmless, RequestSound

-----------------------------------------------------------------------------
(* One step of one slot.                                                   *)

\* A slot that is free.
LEMMA IdleType == Idle \in Requests /\ Idle.pc = "idle"
  BY DEF Idle, Requests, Pcs

\* A slot that is at a program counter other than "idle" works on a container
\* that exists or existed.
LEMMA BusySlot ==
    ASSUME IInv, NEW r \in Slots, req[r].pc # "idle"
    PROVE  /\ req[r] \in Requests /\ req[r].c \in Containers
           /\ RowSound(row[req[r].c])
           /\ RequestSound(req[r].op, req[r].pc, req[r].fresh, row[req[r].c])
  BY IdleType DEF IInv, TypeOK, SlotSound

\* What a slot does not touch itself stays sound while its row changes.
LEMMA OtherSlots ==
    ASSUME IInv, NEW c \in Containers, NEW v, Harmless(row[c], v),
           row' = [row EXCEPT ![c] = v], NEW s \in Slots
    PROVE  SlotSound(req[s], row')
  <1>1. CASE req[s] = Idle
    BY <1>1 DEF SlotSound
  <1>2. CASE req[s] # Idle
    <2>1. /\ req[s].c \in Containers
          /\ RequestSound(req[s].op, req[s].pc, req[s].fresh, row[req[s].c])
      BY <1>2 DEF IInv, SlotSound
    <2>2. RequestSound(req[s].op, req[s].pc, req[s].fresh, row'[req[s].c])
      <3>1. CASE req[s].c = c
        <4>1. row'[req[s].c] = v
          BY <3>1 DEF IInv, TypeOK
        <4> QED BY <2>1, <3>1, <4>1, HarmlessKeeps
      <3>2. CASE req[s].c # c
        BY <2>1, <3>2 DEF IInv, TypeOK
      <3> QED BY <3>1, <3>2
    <2> QED BY <2>1, <2>2 DEF SlotSound
  <1> QED BY <1>1, <1>2

\* A row changes to v, and the slots as they like as long as they are sound.
LEMMA RowMoves ==
    ASSUME IInv, NEW c \in Containers, NEW v, RowSound(v),
           row' = [row EXCEPT ![c] = v],
           req' \in [Slots -> Requests], \A s \in Slots : SlotSound(req'[s], row'),
           pods' \in [Containers -> Nat], jobs' \in SUBSET Jobs, budget' \in Budgets
    PROVE  IInv'
  <1>1. TypeOK'
    BY DEF IInv, TypeOK, RowSound, Budgets
  <1>2. \A d \in Containers : RowSound(row'[d])
    BY DEF IInv, TypeOK
  <1> QED BY <1>1, <1>2 DEF IInv

\* A slot moves on to the request q, and its row to v.
LEMMA SlotMoves ==
    ASSUME IInv, NEW r \in Slots, NEW c \in Containers, NEW v, NEW q \in Requests,
           RowSound(v), Harmless(row[c], v),
           row' = [row EXCEPT ![c] = v],
           req' = [req EXCEPT ![r] = q],
           q = Idle \/ (q.c = c /\ RequestSound(q.op, q.pc, q.fresh, v)),
           pods' \in [Containers -> Nat], jobs' \in SUBSET Jobs, budget' \in Budgets
    PROVE  IInv'
  <1>1. req' \in [Slots -> Requests]
    BY DEF IInv, TypeOK
  <1>2. ASSUME NEW s \in Slots
        PROVE  SlotSound(req'[s], row')
    <2>1. CASE s = r
      BY <2>1 DEF SlotSound, IInv, TypeOK
    <2>2. CASE s # r
      <3>1. req'[s] = req[s]
        BY <2>2 DEF IInv, TypeOK
      <3> QED BY <3>1, OtherSlots
    <2> QED BY <2>1, <2>2
  <1> QED BY <1>1, <1>2, RowMoves

\* SlotMoves when the row does not change.
LEMMA SlotStays ==
    ASSUME IInv, NEW r \in Slots, NEW q \in Requests, q.c \in Containers,
           row' = row, req' = [req EXCEPT ![r] = q],
           RequestSound(q.op, q.pc, q.fresh, row[q.c]),
           pods' \in [Containers -> Nat], jobs' \in SUBSET Jobs, budget' \in Budgets
    PROVE  IInv'
  <1> DEFINE v == row[q.c]
  <1>1. RowSound(v) /\ Harmless(v, v)
    BY UpdatesSound DEF IInv
  <1>2. row' = [row EXCEPT ![q.c] = v]
    BY DEF IInv, TypeOK
  <1>3. RequestSound(q.op, q.pc, q.fresh, v) /\ Harmless(row[q.c], v)
    BY <1>1
  <1> HIDE DEF v
  <1> QED BY <1>1, <1>2, <1>3, SlotMoves

\* SlotMoves for the steps that only move the program counter.
LEMMA SlotGoes ==
    ASSUME IInv, NEW r \in Slots, req[r].pc # "idle", NEW pc \in Pcs, NEW v,
           \/ row' = row /\ v = row[req[r].c]
           \/ SetRow(req[r].c, v) /\ RowSound(v) /\ Harmless(row[req[r].c], v),
           Goto(r, pc),
           pc # "idle" => RequestSound(req[r].op, pc, req[r].fresh, v),
           pods' \in [Containers -> Nat], jobs' \in SUBSET Jobs, budget' \in Budgets
    PROVE  IInv'
  <1>1. req[r] \in Requests /\ req[r].c \in Containers /\ RowSound(row[req[r].c])
    BY BusySlot
  <1> DEFINE q == IF pc = "idle" THEN Idle ELSE [req[r] EXCEPT !.pc = pc]
  <1>2. req' = [req EXCEPT ![r] = q]
    BY DEF Goto
  <1>3. q \in Requests
    BY <1>1, IdleType DEF Requests
  <1>4. q = Idle \/ (q.c = req[r].c /\ RequestSound(q.op, q.pc, q.fresh, v))
    BY <1>1 DEF Requests
  <1>5. /\ RowSound(v) /\ Harmless(row[req[r].c], v)
        /\ row' = [row EXCEPT ![req[r].c] = v]
    BY <1>1, UpdatesSound DEF SetRow, IInv, TypeOK
  <1> HIDE DEF q
  <1> QED BY <1>1, <1>2, <1>3, <1>4, <1>5, SlotMoves

-----------------------------------------------------------------------------
(* The ways an awaited call can end.                                       *)

\* Budgets of faults stay in their bounds.
LEMMA BudgetKeeps ==
    ASSUME IInv, Fail \/ Lost \/ Broken \/ UNCHANGED budget
    PROVE  budget' \in Budgets
  BY DEF IInv, TypeOK, Budgets, Fail, Lost, Broken

\* An operation other than a resume or a hibernate relies on nothing but that
\* its row was there once.
LEMMA PlainSound ==
    ASSUME NEW op, op \notin {"resume", "hibernate"}, NEW pc, NEW fresh, NEW w,
           NEW v, w.status # "Absent", Harmless(w, v)
    PROVE  RequestSound(op, pc, fresh, w) /\ RequestSound(op, pc, fresh, v)
  BY DEF RequestSound, Harmless

\* A call that changes no row.
LEMMA CallSound ==
    ASSUME IInv, NEW r \in Slots, req[r].pc # "idle", NEW pc \in Pcs,
           pc # "idle" => RequestSound(req[r].op, pc, req[r].fresh, row[req[r].c]),
           Goto(r, pc), UNCHANGED row,
           pods' \in [Containers -> Nat], jobs' \in SUBSET Jobs, budget' \in Budgets
    PROVE  IInv'
  BY SlotGoes

\* A call to Cloud makes a sound and harmless change.
LEMMA WriteSound ==
    ASSUME IInv, NEW r \in Slots, req[r].pc # "idle", NEW v, RowSound(v),
           Harmless(row[req[r].c], v), NEW onOk \in Pcs, NEW onError \in Pcs,
           \/ Write(r, v, onOk, onError)
           \/ BestEffort(r, v, onOk) /\ onError = onOk,
           UNCHANGED <<pods, jobs>>,
           onOk # "idle" => RequestSound(req[r].op, onOk, req[r].fresh, v),
           onError # "idle" =>
              /\ RequestSound(req[r].op, onError, req[r].fresh, v)
              /\ RequestSound(req[r].op, onError, req[r].fresh, row[req[r].c])
    PROVE  IInv'
  <1>1. pods' \in [Containers -> Nat] /\ jobs' \in SUBSET Jobs
    BY DEF IInv, TypeOK
  <1>2. budget' \in Budgets
    BY BudgetKeeps DEF Write, BestEffort
  <1>3. CASE SetRow(req[r].c, v) /\ Goto(r, onOk)
    BY <1>1, <1>2, <1>3, SlotGoes
  <1>4. CASE SetRow(req[r].c, v) /\ Goto(r, onError)
    BY <1>1, <1>2, <1>4, SlotGoes
  <1>5. CASE UNCHANGED row /\ Goto(r, onError)
    BY <1>1, <1>2, <1>5, CallSound
  <1> QED BY <1>3, <1>4, <1>5 DEF Write, BestEffort

\* Making a pod, or failing to.
LEMMA PodSound ==
    ASSUME IInv, NEW r \in Slots, req[r].pc # "idle", NEW onOk \in Pcs,
           NEW onError \in Pcs,
           \/ PodStarts(r) /\ onOk = "launched"
           \/ PodRefused(r, onError)
           \/ PodAnswer(r, onOk, onError),
           RequestSound(req[r].op, onOk, req[r].fresh, row[req[r].c]),
           RequestSound(req[r].op, onError, req[r].fresh, row[req[r].c])
    PROVE  IInv'
  <1>1. pods' \in [Containers -> Nat] /\ jobs' \in SUBSET Jobs
    BY BusySlot DEF IInv, TypeOK, PodStarts, PodRefused, PodAnswer, SetPods
  <1>2. budget' \in Budgets
    BY BudgetKeeps DEF PodStarts, PodRefused, PodAnswer
  <1>3. UNCHANGED row /\ (Goto(r, onOk) \/ Goto(r, onError))
    BY DEF PodStarts, PodRefused, PodAnswer
  <1> QED BY <1>1, <1>2, <1>3, CallSound

\* Starting a snapshot Job, and its call's answer.
LEMMA SaveCallSound ==
    ASSUME IInv, NEW r \in Slots, req[r].pc # "idle", NEW onOk \in Pcs,
           NEW onError \in Pcs,
           \/ SaveStarts(r, onError) /\ onOk = "running"
           \/ SaveAnswer(r, onOk, onError),
           onOk # "idle" =>
              RequestSound(req[r].op, onOk, req[r].fresh, row[req[r].c]),
           onError # "idle" =>
              RequestSound(req[r].op, onError, req[r].fresh, row[req[r].c])
    PROVE  IInv'
  <1>1. pods' \in [Containers -> Nat] /\ UNCHANGED row
    BY DEF IInv, TypeOK, SaveStarts, SaveAnswer
  <1>2. jobs' \in SUBSET Jobs
    BY BusySlot DEF IInv, TypeOK, SaveStarts, SaveAnswer, Jobs
  <1>3. budget' \in Budgets
    BY BudgetKeeps DEF SaveStarts, SaveAnswer
  <1>4. Goto(r, onOk) \/ Goto(r, onError)
    BY DEF SaveStarts, SaveAnswer
  <1> QED BY <1>1, <1>2, <1>3, <1>4, CallSound

\* A call that deletes the pods, or leaves them.
LEMMA DropSound ==
    ASSUME IInv, NEW r \in Slots, req[r].pc # "idle",
           SetPods(req[r].c, 0) \/ UNCHANGED pods
    PROVE  pods' \in [Containers -> Nat]
  BY BusySlot DEF IInv, TypeOK, SetPods

-----------------------------------------------------------------------------
(* Every action of a slot.                                                 *)

\* The steps of an operation that relies on nothing.
LEMMA PlainWrite ==
    ASSUME IInv, NEW r \in Slots, req[r].pc # "idle",
           req[r].op \notin {"resume", "hibernate"}, NEW v, RowSound(v),
           Harmless(row[req[r].c], v), NEW onOk \in Pcs, NEW onError \in Pcs,
           \/ Write(r, v, onOk, onError)
           \/ BestEffort(r, v, onOk) /\ onError = onOk,
           UNCHANGED <<pods, jobs>>
    PROVE  IInv'
  <1>1. row[req[r].c].status # "Absent"
    BY BusySlot DEF RequestSound
  <1> QED BY <1>1, PlainSound, WriteSound

\* A call that touches no row.
LEMMA PlainCall ==
    ASSUME IInv, NEW r \in Slots, req[r].pc # "idle",
           req[r].op \notin {"resume", "hibernate"}, NEW pc \in Pcs,
           Goto(r, pc), UNCHANGED row,
           pods' \in [Containers -> Nat], jobs' \in SUBSET Jobs, budget' \in Budgets
    PROVE  IInv'
  <1>1. RowSound(row[req[r].c]) /\ row[req[r].c].status # "Absent"
    BY BusySlot DEF RequestSound
  <1> QED BY <1>1, PlainSound, UpdatesSound, CallSound

\* The calls of a create.
LEMMA CreateKeeps ==
    ASSUME IInv, NEW r \in Slots, CreateStep(r)
    PROVE  IInv'
  <1>1. req[r].op = "create" /\ req[r].pc # "idle"
    BY DEF CreateStep, At, CreateOwn, CreateLaunch, CreateLaunched, CreateUndo,
           CreateUiUndo, CreateRecord, CreateUiDropPod, CreateUiDropRow
  <1> DEFINE w == row[req[r].c]
  <1>2. RowSound(w) /\ w.status # "Absent"
    BY <1>1, BusySlot DEF RequestSound
  <1>3. RowSound(Removed(w)) /\ Harmless(w, Removed(w))
    BY <1>2, EndpointsSound
  <1>4. RowSound(WithPod(w)) /\ Harmless(w, WithPod(w))
    BY <1>2, UpdatesSound
  <1>5. \A pc \in Pcs : RequestSound("create", pc, req[r].fresh, w)
    BY <1>2 DEF RequestSound
  <1>6. \A pc \in {"idle", "launch", "ui_undo", "launched", "undo", "record",
                   "ui_drop_pod", "ui_drop_row"} : pc \in Pcs
    BY DEF Pcs
  <1>7. pods \in [Containers -> Nat] /\ jobs \in SUBSET Jobs
    BY DEF IInv, TypeOK
  <1> HIDE DEF w
  <1>8. CASE CreateOwn(r)
    <2>1. \E pc \in {"launch", "ui_undo", "idle"} : Goto(r, pc)
      BY <1>8 DEF CreateOwn, Read, SentToLogin
    <2>2. budget' \in Budgets
      BY <1>8, BudgetKeeps DEF CreateOwn, Read, SentToLogin, Raises
    <2> QED BY <1>1, <1>6, <1>7, <1>8, <2>1, <2>2, PlainCall DEF CreateOwn
  <1>9. CASE CreateLaunch(r)
    BY <1>1, <1>5, <1>6, <1>9, PodSound DEF CreateLaunch, w
  <1>10. CASE CreateLaunched(r)
    BY <1>1, <1>5, <1>6, <1>10, PodSound DEF CreateLaunched, w
  <1>11. CASE CreateUndo(r)
    BY <1>1, <1>3, <1>6, <1>11, PlainWrite DEF CreateUndo, w
  <1>12. CASE CreateUiUndo(r)
    BY <1>1, <1>3, <1>6, <1>12, PlainWrite DEF CreateUiUndo, w
  <1>13. CASE CreateRecord(r)
    <2>1. CASE Write(r, WithPod(w), "idle", "ui_drop_pod")
      BY <1>1, <1>4, <1>6, <1>13, <2>1, PlainWrite DEF CreateRecord, w
    <2>2. CASE UNCHANGED row /\ SentToLogin(r)
      <3>1. UNCHANGED <<pods, jobs>> /\ budget' \in Budgets
        BY <1>13, <2>2, BudgetKeeps DEF CreateRecord, SentToLogin, Raises
      <3> QED BY <1>1, <1>6, <1>7, <2>2, <3>1, PlainCall DEF SentToLogin
    <2> QED BY <1>13, <2>1, <2>2 DEF CreateRecord, w
  <1>14. CASE CreateUiDropPod(r)
    <2>1. pods' \in [Containers -> Nat] /\ budget' \in Budgets
      BY <1>1, <1>14, DropSound, BudgetKeeps DEF CreateUiDropPod
    <2> QED BY <1>1, <1>6, <1>7, <1>14, <2>1, PlainCall DEF CreateUiDropPod
  <1>15. CASE CreateUiDropRow(r)
    BY <1>1, <1>3, <1>6, <1>15, PlainWrite DEF CreateUiDropRow, w
  <1> QED
    BY <1>8, <1>9, <1>10, <1>11, <1>12, <1>13, <1>14, <1>15 DEF CreateStep

\* The calls of a delete.
LEMMA DeleteKeeps ==
    ASSUME IInv, NEW r \in Slots, DeleteStep(r)
    PROVE  IInv'
  <1>1. req[r].op = "delete" /\ req[r].pc # "idle"
    BY DEF DeleteStep, At, DeleteRow, DeletePod
  <1> DEFINE w == row[req[r].c]
  <1>2. RowSound(Removed(w)) /\ Harmless(w, Removed(w))
    BY <1>1, BusySlot, EndpointsSound
  <1>3. "idle" \in Pcs /\ "drop_pod" \in Pcs
    BY DEF Pcs
  <1> HIDE DEF w
  <1>4. CASE DeleteRow(r)
    <2> DEFINE next == IF req[r].kid THEN "drop_pod" ELSE "idle"
    <2>1. next \in Pcs
      BY <1>3
    <2>2. BestEffort(r, Removed(w), next)
      BY <1>4 DEF DeleteRow, w
    <2> HIDE DEF next
    <2> QED BY <1>1, <1>2, <1>4, <2>1, <2>2, PlainWrite DEF DeleteRow, w
  <1>5. CASE DeletePod(r)
    <2>1. pods' \in [Containers -> Nat] /\ budget' \in Budgets
      BY <1>1, <1>5, DropSound, BudgetKeeps DEF DeletePod
    <2>2. jobs' \in SUBSET Jobs
      BY <1>5 DEF DeletePod, IInv, TypeOK
    <2> QED BY <1>1, <1>3, <1>5, <2>1, <2>2, PlainCall DEF DeletePod
  <1> QED BY <1>4, <1>5 DEF DeleteStep

\* The calls of a save.
LEMMA SaveKeeps ==
    ASSUME IInv, NEW r \in Slots, SaveStep(r)
    PROVE  IInv'
  <1>1. req[r].op = "save" /\ req[r].pc # "idle"
    BY DEF SaveStep, At, SaveOwn, SaveMark, SaveRun, SaveRunning, SaveNoteFailed
  <1> DEFINE w == row[req[r].c]
  <1>2. RowSound(w) /\ w.status # "Absent"
    BY <1>1, BusySlot DEF RequestSound
  <1>3. \A s \in {"Pending", "Failed"} :
            RowSound(WithSave(w, s)) /\ Harmless(w, WithSave(w, s))
    BY <1>2, UpdatesSound
  <1>4. \A pc \in Pcs : RequestSound("save", pc, req[r].fresh, w)
    BY <1>2 DEF RequestSound
  <1>5. \A pc \in {"idle", "mark", "run", "running", "note_failed"} : pc \in Pcs
    BY DEF Pcs
  <1> HIDE DEF w
  <1>6. CASE SaveOwn(r)
    <2>1. \E pc \in {"mark", "idle"} : Goto(r, pc)
      BY <1>6 DEF SaveOwn, Read
    <2>2. /\ pods' \in [Containers -> Nat] /\ jobs' \in SUBSET Jobs
          /\ budget' \in Budgets
      BY <1>6, BudgetKeeps DEF SaveOwn, Read, Raises, IInv, TypeOK
    <2> QED BY <1>1, <1>5, <1>6, <2>1, <2>2, PlainCall DEF SaveOwn
  <1>7. CASE SaveMark(r)
    BY <1>1, <1>3, <1>5, <1>7, PlainWrite DEF SaveMark, MarkPending, w
  <1>8. CASE SaveRun(r)
    BY <1>1, <1>4, <1>5, <1>8, SaveCallSound DEF SaveRun, w
  <1>9. CASE SaveRunning(r)
    BY <1>1, <1>4, <1>5, <1>9, SaveCallSound DEF SaveRunning, w
  <1>10. CASE SaveNoteFailed(r)
    BY <1>1, <1>3, <1>5, <1>10, PlainWrite DEF SaveNoteFailed, w
  <1> QED BY <1>6, <1>7, <1>8, <1>9, <1>10 DEF SaveStep

\* The calls of a hibernate.
LEMMA HibernateKeeps ==
    ASSUME IInv, NEW r \in Slots, HibernateStep(r)
    PROVE  IInv'
  <1>1. req[r].op = "hibernate" /\ req[r].pc # "idle"
    BY DEF HibernateStep, At, HibernateOwn, HibernateMark, HibernateRun,
           HibernateRunning, HibernatePoll, HibernateDropPod, HibernateRelease
  <1> DEFINE w == row[req[r].c]
             f == req[r].fresh
  <1>2. /\ req[r] \in Requests /\ req[r].c \in Containers
        /\ RowSound(w) /\ RequestSound("hibernate", req[r].pc, f, w)
    BY <1>1, BusySlot
  <1>3. \A pc \in {"idle", "mark", "run", "running", "poll", "drop_pod", "release"} :
            pc \in Pcs
    BY DEF Pcs
  <1>4. pods \in [Containers -> Nat] /\ jobs \in SUBSET Jobs
    BY DEF IInv, TypeOK
  <1>5. CASE HibernateOwn(r)
    <2>1. \E pc \in {"mark", "idle"} : Goto(r, pc)
      BY <1>5 DEF HibernateOwn
    <2>2. RequestSound("hibernate", "mark", f, w)
      BY <1>2 DEF RequestSound
    <2>3. budget' \in Budgets
      BY <1>5, BudgetKeeps DEF HibernateOwn, Raises
    <2> QED BY <1>1, <1>3, <1>4, <1>5, <2>1, <2>2, <2>3, CallSound DEF HibernateOwn
  <1>6. CASE HibernateMark(r)
    <2> DEFINE v == WithSave(w, "Pending")
    <2>1. RowSound(v) /\ Harmless(w, v)
      BY <1>2, UpdatesSound
    <2>2. v.save # "Succeeded"
      BY <1>2 DEF RowSound, WithSave, Updated, Exists, Rows
    <2>3. RequestSound("hibernate", "run", f, v)
      BY <1>2, <2>1, <2>2 DEF RequestSound, Harmless
    <2>4. Write(r, v, "run", "idle") /\ UNCHANGED <<pods, jobs>>
      BY <1>6 DEF HibernateMark, MarkPending
    <2> HIDE DEF v
    <2> QED BY <1>1, <1>3, <2>1, <2>3, <2>4, WriteSound
  <1>7. CASE HibernateRun(r)
    <2>1. RequestSound("hibernate", "running", f, w)
      BY <1>2, <1>7 DEF RequestSound, HibernateRun, At
    <2> QED BY <1>1, <1>3, <1>7, <2>1, SaveCallSound DEF HibernateRun
  <1>8. CASE HibernateRunning(r)
    <2>1. RequestSound("hibernate", "poll", f, w)
      BY <1>2, <1>8 DEF RequestSound, HibernateRunning, At
    <2> QED BY <1>1, <1>3, <1>8, <2>1, SaveCallSound DEF HibernateRunning
  <1>9. CASE HibernatePoll(r)
    <2>1. req[r].pc = "poll" /\ UNCHANGED <<row, pods, jobs>>
      BY <1>9 DEF HibernatePoll, At
    <2>2. budget' \in Budgets
      BY <1>9, BudgetKeeps DEF HibernatePoll, Raises
    <2>3. CASE w.save = "Succeeded" /\ Goto(r, "drop_pod")
      <3>1. RequestSound("hibernate", "drop_pod", f, w)
        BY <1>2, <2>1, <2>3 DEF RequestSound, RowSound, HasImage
      <3> QED BY <1>1, <1>3, <1>4, <2>1, <2>2, <2>3, <3>1, CallSound
    <2>4. CASE Goto(r, "idle")
      BY <1>1, <1>3, <1>4, <2>1, <2>2, <2>4, CallSound
    <2>5. CASE req' = [req EXCEPT ![r].polls = @ + 1]
      <3> DEFINE q == [req[r] EXCEPT !.polls = @ + 1]
      <3>1. req' = [req EXCEPT ![r] = q]
        BY <2>5 DEF IInv, TypeOK
      <3>2. q \in Requests
        BY <1>2 DEF Requests
      <3>3. q.c = req[r].c /\ RequestSound(q.op, q.pc, q.fresh, w)
        BY <1>1, <1>2 DEF Requests
      <3> HIDE DEF q
      <3> QED BY <1>2, <1>4, <2>1, <2>2, <3>1, <3>2, <3>3, SlotStays
    <2>6. \/ w.save = "Succeeded" /\ Goto(r, "drop_pod")
          \/ Goto(r, "idle")
          \/ req' = [req EXCEPT ![r].polls = @ + 1]
      BY <1>9 DEF HibernatePoll
    <2> QED BY <2>3, <2>4, <2>5, <2>6
  <1>10. CASE HibernateDropPod(r)
    <2>1. RequestSound("hibernate", "release", f, w)
      BY <1>2, <1>10 DEF RequestSound, HibernateDropPod, At
    <2>2. pods' \in [Containers -> Nat] /\ budget' \in Budgets
      BY <1>1, <1>10, DropSound, BudgetKeeps DEF HibernateDropPod
    <2>3. \E pc \in {"release", "idle"} : Goto(r, pc)
      BY <1>10 DEF HibernateDropPod
    <2> QED BY <1>1, <1>3, <1>4, <1>10, <2>1, <2>2, <2>3, CallSound DEF HibernateDropPod
  <1>11. CASE HibernateRelease(r)
    <2>1. HasImage(w)
      BY <1>2, <1>11 DEF RequestSound, HibernateRelease, At
    <2>2. RowSound(Hibernated(w)) /\ Harmless(w, Hibernated(w))
      BY <1>2, <2>1, EndpointsSound
    <2> QED BY <1>1, <1>3, <1>11, <2>2, WriteSound DEF HibernateRelease
  <1> QED BY <1>5, <1>6, <1>7, <1>8, <1>9, <1>10, <1>11 DEF HibernateStep

\* The calls of a resume.
LEMMA ResumeKeeps ==
    ASSUME IInv, NEW r \in Slots, ResumeStep(r)
    PROVE  IInv'
  <1>1. req[r].op = "resume" /\ req[r].pc # "idle"
    BY DEF ResumeStep, At, ResumeOwn, ResumeClaim, ResumeStamp, ResumeLaunch,
           ResumeLaunched, ResumeRecord, ResumeRollback, ResumeMarkFailed
  <1> DEFINE w == row[req[r].c]
             f == req[r].fresh
  <1>2. /\ req[r] \in Requests /\ req[r].c \in Containers
        /\ RowSound(w) /\ RequestSound("resume", req[r].pc, f, w)
    BY <1>1, BusySlot
  <1>3. \A pc \in {"idle", "claim", "stamp", "launch", "launched", "record",
                   "rollback", "mark_failed"} : pc \in Pcs
    BY DEF Pcs
  <1>4. pods \in [Containers -> Nat] /\ jobs \in SUBSET Jobs
    BY DEF IInv, TypeOK
  <1>5. ASSUME req[r].pc \in {"stamp", "launch", "launched", "record", "rollback"}
        PROVE  HasImage(w) /\ \A pc \in Pcs : RequestSound("resume", pc, f, w)
    BY <1>2, <1>5 DEF RequestSound
  <1>6. CASE ResumeOwn(r)
    <2>1. UNCHANGED <<row, pods, jobs>> /\ budget' \in Budgets
      BY <1>6, BudgetKeeps DEF ResumeOwn, Raises
    <2>2. CASE req' = [req EXCEPT ![r].pc = "claim", ![r].image = w.image]
      <3> DEFINE q == [req[r] EXCEPT !.pc = "claim", !.image = w.image]
      <3>1. req' = [req EXCEPT ![r] = q]
        BY <2>2 DEF IInv, TypeOK
      <3>2. w.image \in Nat
        BY <1>2 DEF RowSound, Rows
      <3>3. q \in Requests
        BY <1>2, <1>3, <3>2 DEF Requests
      <3>4. /\ q.c = req[r].c
            /\ q.op = "resume" /\ q.pc = "claim"
        BY <1>1, <1>2 DEF Requests
      <3>5. RequestSound(q.op, q.pc, q.fresh, w)
        BY <1>2, <3>4 DEF RequestSound
      <3> HIDE DEF q
      <3> QED BY <1>2, <1>4, <2>1, <3>1, <3>3, <3>4, <3>5, SlotStays
    <2>3. CASE \E pc \in {"idle", "mark_failed"} : Goto(r, pc)
      <3>1. RequestSound("resume", "mark_failed", f, w)
        BY <1>2 DEF RequestSound
      <3> QED BY <1>1, <1>3, <1>4, <2>1, <2>3, <3>1, CallSound
    <2> QED BY <1>6, <2>2, <2>3 DEF ResumeOwn
  <1>7. CASE ResumeClaim(r)
    <2>1. UNCHANGED <<pods, jobs>> /\ budget' \in Budgets
      BY <1>7, BudgetKeeps DEF ResumeClaim
    <2>2. CASE Resumable(w) /\ SetRow(req[r].c, Claimed(w))
      <3>1. /\ RowSound(Claimed(w)) /\ Harmless(w, Claimed(w))
            /\ HasImage(Claimed(w))
        BY <1>2, <2>2, EndpointsSound
      <3>2. RequestSound("resume", "stamp", f, Claimed(w))
        BY <1>2, <3>1 DEF RequestSound, Harmless
      <3>3. \E pc \in {"stamp", "idle"} : Goto(r, pc)
        BY <1>7 DEF ResumeClaim
      <3> QED BY <1>1, <1>3, <1>4, <2>1, <2>2, <3>1, <3>2, <3>3, SlotGoes
    <2>3. CASE Goto(r, "idle") /\ UNCHANGED row
      BY <1>1, <1>3, <1>4, <2>1, <2>3, CallSound
    <2> QED BY <1>7, <2>2, <2>3 DEF ResumeClaim
  <1>8. CASE ResumeStamp(r)
    <2>1. \E pc \in {"launch", "rollback"} : Goto(r, pc)
      BY <1>8 DEF ResumeStamp
    <2>2. budget' \in Budgets
      BY <1>8, BudgetKeeps DEF ResumeStamp, Raises
    <2>3. \A pc \in Pcs : RequestSound("resume", pc, f, w)
      BY <1>5, <1>8 DEF ResumeStamp, At
    <2> QED BY <1>1, <1>3, <1>4, <1>8, <2>1, <2>2, <2>3, CallSound DEF ResumeStamp
  <1>9. CASE ResumeLaunch(r)
    <2>1. \A pc \in Pcs : RequestSound("resume", pc, f, w)
      BY <1>5, <1>9 DEF ResumeLaunch, At
    <2>2. CASE NoBaseImage(r)
      <3>1. UNCHANGED <<row, pods, jobs>> /\ Goto(r, "rollback") /\ budget' \in Budgets
        BY <2>2, BudgetKeeps DEF NoBaseImage, Raises
      <3> QED BY <1>1, <1>3, <1>4, <2>1, <3>1, CallSound
    <2> QED BY <1>1, <1>3, <1>9, <2>1, <2>2, PodSound DEF ResumeLaunch
  <1>10. CASE ResumeLaunched(r)
    <2>1. \A pc \in Pcs : RequestSound("resume", pc, f, w)
      BY <1>5, <1>10 DEF ResumeLaunched, At
    <2> QED BY <1>1, <1>3, <1>10, <2>1, PodSound DEF ResumeLaunched
  <1>11. CASE ResumeRecord(r)
    <2> DEFINE v == WithStatus(WithPod(w), "Running")
    <2>1. RowSound(v) /\ Harmless(w, v)
      BY <1>2, UpdatesSound
    <2>2. HasImage(w) /\ RequestSound("resume", "rollback", f, w)
      BY <1>3, <1>5, <1>11 DEF ResumeRecord, At
    <2>3. RequestSound("resume", "rollback", f, v)
      BY <2>1, <2>2, HarmlessKeeps
    <2>4. Write(r, v, "idle", "rollback") /\ UNCHANGED <<pods, jobs>>
      BY <1>11 DEF ResumeRecord
    <2> HIDE DEF v
    <2> QED BY <1>1, <1>3, <2>1, <2>2, <2>3, <2>4, WriteSound
  <1>12. CASE ResumeRollback(r)
    <2>1. HasImage(w)
      BY <1>5, <1>12 DEF ResumeRollback, At
    <2>2. RowSound(Hibernated(w)) /\ Harmless(w, Hibernated(w))
      BY <1>2, <2>1, EndpointsSound
    <2> QED BY <1>1, <1>3, <1>12, <2>2, WriteSound DEF ResumeRollback
  <1>13. CASE ResumeMarkFailed(r)
    <2>1. /\ RowSound(WithStatus(w, "Failed"))
          /\ Harmless(w, WithStatus(w, "Failed"))
      BY <1>2, UpdatesSound
    <2> QED BY <1>1, <1>3, <1>13, <2>1, WriteSound DEF ResumeMarkFailed
  <1> QED
    BY <1>6, <1>7, <1>8, <1>9, <1>10, <1>11, <1>12, <1>13 DEF ResumeStep

-----------------------------------------------------------------------------
(* The browser's first steps, and the rest of the world.                   *)

\* A client starts an operation.
LEMMA BeginKeeps ==
    ASSUME IInv, NEW r \in Slots, NEW op \in Operations \ {"create"},
           NEW c \in Containers, Begin(r, op, c)
    PROVE  IInv'
  <1> DEFINE q == [Idle EXCEPT !.op = op, !.c = c, !.kid = row[c].kid,
                               !.pc = FirstPc(op)]
  <1>1. row[c].kid \in BOOLEAN
    BY DEF IInv, TypeOK, Rows
  <1>2. FirstPc(op) \in {"drop_row", "own"} /\ FirstPc(op) \in Pcs
    BY DEF FirstPc, Pcs
  <1>3. q \in Requests
    BY <1>1, <1>2, IdleType DEF Requests
  <1>4. q.c = c /\ q.pc = FirstPc(op)
    BY IdleType DEF Requests
  <1>5. RequestSound(q.op, q.pc, q.fresh, row[c])
    BY <1>2, <1>4 DEF RequestSound, Begin
  <1>6. /\ req' = [req EXCEPT ![r] = q] /\ row' = row
        /\ pods' \in [Containers -> Nat] /\ jobs' \in SUBSET Jobs
        /\ budget' \in Budgets
    BY DEF Begin, IInv, TypeOK, Budgets
  <1> HIDE DEF q
  <1> QED BY <1>3, <1>4, <1>5, <1>6, SlotStays

\* A row is born.
LEMMA CreateRowKeeps ==
    ASSUME IInv, NEW r \in Slots, NEW c \in Containers, CreateRow(r, c)
    PROVE  IInv'
  <1>1. RowSound(Created) /\ Harmless(row[c], Created) /\ Created.status # "Absent"
    BY EndpointsSound DEF IInv, CreateRow, Harmless, Created, BlankRow
  <1>2. /\ pods' \in [Containers -> Nat] /\ jobs' \in SUBSET Jobs
        /\ row' = [row EXCEPT ![c] = Created]
    BY DEF CreateRow, SetRow, IInv, TypeOK
  <1>3. budget' \in Budgets
    BY BudgetKeeps DEF CreateRow
  <1>4. CASE UNCHANGED req
    <2>1. req' = [req EXCEPT ![r] = Idle]
      BY <1>4 DEF CreateRow, Free, IInv, TypeOK
    <2> QED BY <1>1, <1>2, <1>3, <2>1, IdleType, SlotMoves
  <1>5. CASE req' = [req EXCEPT ![r] = [Idle EXCEPT !.op = "create", !.c = c,
                                                    !.pc = "own"]]
    <2> DEFINE q == [Idle EXCEPT !.op = "create", !.c = c, !.pc = "own"]
    <2>1. q \in Requests
      BY IdleType DEF Requests, Operations, Pcs
    <2>2. q.c = c /\ q.op = "create" /\ q.pc = "own"
      BY IdleType DEF Requests
    <2>3. RequestSound(q.op, q.pc, q.fresh, Created)
      BY <1>1, <2>2 DEF RequestSound
    <2>4. req' = [req EXCEPT ![r] = q]
      BY <1>5
    <2> HIDE DEF q
    <2> QED BY <1>1, <1>2, <1>3, <2>1, <2>2, <2>3, <2>4, SlotMoves
  <1> QED BY <1>4, <1>5 DEF CreateRow

\* A row changes while every slot stays where it is.
LEMMA WorldMoves ==
    ASSUME IInv, NEW c \in Containers, NEW v, RowSound(v), Harmless(row[c], v),
           SetRow(c, v), UNCHANGED req,
           pods' \in [Containers -> Nat], jobs' \in SUBSET Jobs, budget' \in Budgets
    PROVE  IInv'
  <1>1. row' = [row EXCEPT ![c] = v] /\ req' \in [Slots -> Requests]
    BY DEF SetRow, IInv, TypeOK
  <1>2. \A s \in Slots : SlotSound(req'[s], row')
    BY <1>1, OtherSlots
  <1> QED BY <1>1, <1>2, RowMoves

\* The status monitor reports a phase.
LEMMA MonitorKeeps ==
    ASSUME IInv, NEW c \in Containers, Monitor(c)
    PROVE  IInv'
  <1>1. PICK s \in {"Running", "Failed"} : SetRow(c, [row[c] EXCEPT !.status = s])
    BY DEF Monitor
  <1> DEFINE v == [row[c] EXCEPT !.status = s]
  <1>2. RowSound(v) /\ Harmless(row[c], v)
    BY ReportsSound DEF IInv, Monitor
  <1>3. /\ pods' \in [Containers -> Nat] /\ jobs' \in SUBSET Jobs
        /\ budget' \in Budgets /\ UNCHANGED req
    BY DEF Monitor, IInv, TypeOK, Budgets
  <1>4. SetRow(c, v)
    BY <1>1
  <1> HIDE DEF v
  <1> QED BY <1>2, <1>3, <1>4, WorldMoves

\* A snapshot is recorded.
LEMMA JobSucceedsKeeps ==
    ASSUME IInv, NEW j \in jobs, JobSucceeds(j)
    PROVE  IInv'
  <1>1. j.c \in Containers
    BY DEF IInv, TypeOK, Jobs
  <1> DEFINE c == j.c
             w == row[c]
             v == WithSnapshot(w)
  <1>2. /\ RowSound(v)
        /\ w.status # "Absent" => v.status # "Absent"
        /\ HasImage(w) => HasImage(v)
    BY <1>1, ReportsSound DEF IInv
  <1>3. row' = [row EXCEPT ![c] = v] /\ row'[c] = v
    BY <1>1 DEF JobSucceeds, SetRow, IInv, TypeOK
  <1>4. /\ pods' \in [Containers -> Nat] /\ jobs' \in SUBSET Jobs
        /\ budget' \in Budgets
    BY DEF JobSucceeds, IInv, TypeOK, Budgets
  <1>5. ASSUME NEW s \in Slots
        PROVE  req'[s] \in Requests /\ SlotSound(req'[s], row')
    <2> DEFINE q == [req[s] EXCEPT !.fresh = TRUE, !.own = @ \/ j.slot = s]
    <2>1. req[s] \in Requests
      BY DEF IInv, TypeOK
    <2>2. CASE Waits(s, c)
      <3>1. req'[s] = q
        BY <2>2 DEF JobSucceeds
      <3>2. q \in Requests
        BY <2>1 DEF Requests
      <3>3. q.op = req[s].op /\ q.pc = req[s].pc /\ q.c = c /\ q.fresh
        BY <2>1, <2>2 DEF Requests, Waits
      <3>4. req[s].pc # "idle"
        BY <2>2 DEF Waits
      <3>5. RequestSound(req[s].op, req[s].pc, req[s].fresh, w)
        BY <2>2, <3>4, BusySlot DEF Waits
      <3>6. RequestSound(q.op, q.pc, q.fresh, v)
        BY <1>2, <3>3, <3>5 DEF RequestSound
      <3> HIDE DEF q, v
      <3> QED BY <1>1, <1>3, <3>1, <3>2, <3>3, <3>6 DEF SlotSound
    <2>3. CASE ~Waits(s, c)
      <3>1. req'[s] = req[s]
        BY <2>3 DEF JobSucceeds
      <3>2. CASE req[s] = Idle
        BY <2>1, <3>1, <3>2 DEF SlotSound
      <3>3. CASE req[s] # Idle /\ req[s].c = c
        <4>1. RequestSound(req[s].op, req[s].pc, req[s].fresh, w)
          BY <3>3 DEF IInv, SlotSound
        <4>2. RequestSound(req[s].op, req[s].pc, req[s].fresh, v)
          BY <1>2, <2>3, <3>3, <4>1 DEF RequestSound, Waits
        <4> HIDE DEF v
        <4> QED BY <1>1, <1>3, <2>1, <3>1, <3>3, <4>2 DEF SlotSound
      <3>4. CASE req[s] # Idle /\ req[s].c # c
        <4>1. /\ req[s].c \in Containers
              /\ RequestSound(req[s].op, req[s].pc, req[s].fresh, row[req[s].c])
          BY <3>4 DEF IInv, SlotSound
        <4>2. row'[req[s].c] = row[req[s].c]
          BY <1>3, <3>4, <4>1 DEF IInv, TypeOK
        <4> QED BY <2>1, <3>1, <4>1, <4>2 DEF SlotSound
      <3> QED BY <3>2, <3>3, <3>4
    <2> QED BY <2>2, <2>3
  <1>6. req' \in [Slots -> Requests]
    <2>1. req' = [s \in Slots |-> req'[s]]
      BY DEF JobSucceeds
    <2> QED BY <1>5, <2>1
  <1> HIDE DEF v, c
  <1> QED BY <1>1, <1>2, <1>3, <1>4, <1>5, <1>6, RowMoves DEF c

\* A snapshot fails.
LEMMA JobFailsKeeps ==
    ASSUME IInv, NEW j \in jobs, JobFails(j)
    PROVE  IInv'
  <1>1. j.c \in Containers
    BY DEF IInv, TypeOK, Jobs
  <1> DEFINE v == WithSave(row[j.c], "Failed")
  <1>2. RowSound(v) /\ Harmless(row[j.c], v)
    BY <1>1, UpdatesSound DEF IInv
  <1>3. /\ pods' \in [Containers -> Nat] /\ jobs' \in SUBSET Jobs
        /\ budget' \in Budgets /\ UNCHANGED req /\ SetRow(j.c, v)
    BY DEF JobFails, IInv, TypeOK, Budgets
  <1> HIDE DEF v
  <1> QED BY <1>1, <1>2, <1>3, WorldMoves

\* The rows stay; a slot stays or becomes idle.
LEMMA SlotsDrop ==
    ASSUME IInv, UNCHANGED row, req' \in [Slots -> Requests],
           \A r \in Slots : req'[r] = req[r] \/ req'[r] = Idle,
           pods' \in [Containers -> Nat], jobs' \in SUBSET Jobs, budget' \in Budgets
    PROVE  IInv'
  <1>1. TypeOK'
    BY DEF IInv, TypeOK, Budgets
  <1>2. \A r \in Slots : SlotSound(req'[r], row')
    BY DEF IInv, SlotSound
  <1> QED BY <1>1, <1>2 DEF IInv

\* The server restarts.
LEMMA CrashKeeps ==
    ASSUME IInv, Crash
    PROVE  IInv'
  <1>1. /\ \A r \in Slots : req'[r] = req[r] \/ req'[r] = Idle
        /\ req' \in [Slots -> Requests]
    BY IdleType DEF Crash, IInv, TypeOK
  <1>2. /\ pods' \in [Containers -> Nat] /\ jobs' \in SUBSET Jobs
        /\ budget' \in Budgets /\ UNCHANGED row
    BY BudgetKeeps DEF Crash, IInv, TypeOK
  <1> QED BY <1>1, <1>2, SlotsDrop

\* A Job reports nothing.
LEMMA JobVanishesKeeps ==
    ASSUME IInv, NEW j \in jobs, JobVanishes(j)
    PROVE  IInv'
  BY SlotsDrop, BudgetKeeps DEF JobVanishes, IInv, TypeOK

\* A tab is closed.
LEMMA AbandonKeeps ==
    ASSUME IInv, NEW r \in Slots, Abandon(r)
    PROVE  IInv'
  <1>1. /\ \A s \in Slots : req'[s] = req[s] \/ req'[s] = Idle
        /\ req' \in [Slots -> Requests]
    BY IdleType DEF Abandon, Goto, IInv, TypeOK
  <1>2. /\ pods' \in [Containers -> Nat] /\ jobs' \in SUBSET Jobs
        /\ budget' \in Budgets /\ UNCHANGED row
    BY BudgetKeeps DEF Abandon, IInv, TypeOK
  <1> QED BY <1>1, <1>2, SlotsDrop

-----------------------------------------------------------------------------
(* The invariant, and what follows from it.                                *)

\* The invariant holds at first.
LEMMA InitSound == Init => IInv
  <1> SUFFICES ASSUME Init PROVE IInv
    OBVIOUS
  <1>1. RowSound(AbsentRow)
    BY DEF RowSound, AbsentRow, BlankRow, Rows, Gone, LiveStatuses, SaveStatuses
  <1>2. TypeOK
    BY <1>1, IdleType, BoundsAssumption DEF TypeOK, Init, RowSound
  <1> QED BY <1>1, <1>2 DEF IInv, Init, SlotSound

\* Every step keeps it.
LEMMA NextKeeps == IInv /\ [Next]_vars => IInv'
  <1> SUFFICES ASSUME IInv, [Next]_vars PROVE IInv'
    OBVIOUS
  <1>1. CASE \E r \in Slots, c \in Containers : CreateRow(r, c)
    BY <1>1, CreateRowKeeps
  <1>2. CASE \E r \in Slots, c \in Containers, op \in Operations \ {"create"} :
                Begin(r, op, c)
    BY <1>2, BeginKeeps
  <1>3. CASE \E r \in Slots : Step(r)
    BY <1>3, CreateKeeps, DeleteKeeps, SaveKeeps, HibernateKeeps, ResumeKeeps DEF Step
  <1>4. CASE \E r \in Slots : Abandon(r)
    BY <1>4, AbandonKeeps
  <1>5. CASE \E c \in Containers : Monitor(c)
    BY <1>5, MonitorKeeps
  <1>6. CASE \E j \in jobs : JobSucceeds(j) \/ JobFails(j) \/ JobVanishes(j)
    BY <1>6, JobSucceedsKeeps, JobFailsKeeps, JobVanishesKeeps
  <1>7. CASE Crash
    BY <1>7, CrashKeeps
  <1>8. CASE UNCHANGED vars
    BY <1>8 DEF vars, IInv, TypeOK, SlotSound
  <1> QED BY <1>1, <1>2, <1>3, <1>4, <1>5, <1>6, <1>7, <1>8 DEF Next

\* IInv is an invariant: every row and every operation in flight stay sound.
THEOREM Invariance == Spec => []IInv
  BY InitSound, NextKeeps, PTL DEF Spec

\* Type correctness, for any number of containers and slots and any bounds.
THEOREM TypeCorrect == Spec => []TypeOK
  <1>1. IInv => TypeOK
    BY DEF IInv
  <1> QED BY <1>1, Invariance, PTL

\* hibernate_container deletes a pod only after a snapshot was recorded since
\* it set save_status to Pending.
THEOREM DropAfterSnapshot == Spec => []PodDroppedAfterSnapshot
  <1>1. IInv => PodDroppedAfterSnapshot
    BY BusySlot DEF PodDroppedAfterSnapshot, At, RequestSound
  <1> QED BY <1>1, Invariance, PTL

\* A Hibernated container always has a saved image to be resumed from.
THEOREM Restorable == Spec => []HibernatedIsRestorable
  <1>1. IInv => HibernatedIsRestorable
    BY DEF IInv, RowSound, HibernatedIsRestorable
  <1> QED BY <1>1, Invariance, PTL

\* A container that is Hibernated or gone never keeps device capacity.
THEOREM HoldsNothing == Spec => []HibernatedHoldsNothing
  <1>1. IInv => HibernatedHoldsNothing
    BY DEF IInv, RowSound, HibernatedHoldsNothing
  <1> QED BY <1>1, Invariance, PTL

-----------------------------------------------------------------------------
(* One slot at a time.                                                     *)

\* A step of a slot changes no other slot.
LEMMA StepMovesOne ==
    ASSUME NEW r \in Slots, Step(r)
    PROVE  \E q : req' = [req EXCEPT ![r] = q]
  <1> USE DEF Goto, At
  <1>1. ASSUME NEW pc, Goto(r, pc) PROVE \E q : req' = [req EXCEPT ![r] = q]
    BY <1>1
  <1> HIDE DEF Goto
  <1>2. CASE CreateStep(r)
    BY <1>1, <1>2 DEF CreateStep, CreateOwn, CreateLaunch, CreateLaunched, CreateUndo, CreateUiUndo,
         CreateRecord, CreateUiDropPod, CreateUiDropRow, Write, BestEffort, Read, SentToLogin,
         Raises, PodStarts, PodRefused, PodAnswer
  <1>3. CASE DeleteStep(r)
    BY <1>1, <1>3 DEF DeleteStep, DeleteRow, DeletePod, BestEffort
  <1>4. CASE SaveStep(r)
    BY <1>1, <1>4 DEF SaveStep, SaveOwn, SaveMark, SaveRun, SaveRunning, SaveNoteFailed, MarkPending,
         Write, BestEffort, Read, SaveStarts, SaveAnswer
  <1>5. CASE HibernateStep(r)
    <2>1. CASE HibernatePoll(r)
      BY <1>1, <2>1 DEF HibernatePoll
    <2> QED BY <1>1, <1>5, <2>1 DEF HibernateStep, HibernateOwn, HibernateMark, HibernateRun,
         HibernateRunning, HibernateDropPod, HibernateRelease, MarkPending, Write, BestEffort,
         SaveStarts, SaveAnswer
  <1>6. CASE ResumeStep(r)
    <2>1. CASE ResumeOwn(r)
      BY <1>1, <2>1 DEF ResumeOwn
    <2> QED BY <1>1, <1>6, <2>1 DEF ResumeStep, ResumeClaim, ResumeStamp, ResumeLaunch, ResumeLaunched,
         ResumeRecord, ResumeRollback, ResumeMarkFailed, Write, BestEffort, PodStarts, PodRefused,
         PodAnswer, NoBaseImage, Raises
  <1> QED BY <1>2, <1>3, <1>4, <1>5, <1>6 DEF Step

\* A slot takes the steps of its operation.
LEMMA OpSteps ==
    ASSUME NEW r \in Slots, Step(r)
    PROVE  /\ req[r].pc # "idle"
           /\ req[r].op = "create" => CreateStep(r)
           /\ req[r].op = "delete" => DeleteStep(r)
           /\ req[r].op = "save" => SaveStep(r)
           /\ req[r].op = "hibernate" => HibernateStep(r)
           /\ req[r].op = "resume" => ResumeStep(r)
  <1>1. CreateStep(r) => req[r].op = "create" /\ req[r].pc # "idle"
    BY DEF At, CreateStep, CreateOwn, CreateLaunch, CreateLaunched, CreateUndo, CreateUiUndo,
         CreateRecord, CreateUiDropPod, CreateUiDropRow
  <1>2. DeleteStep(r) => req[r].op = "delete" /\ req[r].pc # "idle"
    BY DEF At, DeleteStep, DeleteRow, DeletePod
  <1>3. SaveStep(r) => req[r].op = "save" /\ req[r].pc # "idle"
    BY DEF At, SaveStep, SaveOwn, SaveMark, SaveRun, SaveRunning, SaveNoteFailed
  <1>4. HibernateStep(r) => req[r].op = "hibernate" /\ req[r].pc # "idle"
    BY DEF At, HibernateStep, HibernateOwn, HibernateMark, HibernateRun, HibernateRunning,
         HibernatePoll, HibernateDropPod, HibernateRelease
  <1>5. ResumeStep(r) => req[r].op = "resume" /\ req[r].pc # "idle"
    BY DEF At, ResumeStep, ResumeOwn, ResumeClaim, ResumeStamp, ResumeLaunch, ResumeLaunched,
         ResumeRecord, ResumeRollback, ResumeMarkFailed
  <1> QED BY <1>1, <1>2, <1>3, <1>4, <1>5 DEF Step

\* A slot is done, or goes on with the same operation; what it read of its row
\* it has from its own read, and what it knows of Jobs from no step of its own.
LEMMA StepRemembers ==
    ASSUME IInv, NEW r \in Slots, Step(r)
    PROVE  \/ req'[r] = Idle
           \/ /\ req'[r].op = req[r].op /\ req'[r].c = req[r].c
              /\ req'[r].fresh = req[r].fresh /\ req'[r].own = req[r].own
  <1> DEFINE Same(q) == /\ q.op = req[r].op /\ q.c = req[r].c
                        /\ q.fresh = req[r].fresh /\ q.own = req[r].own
  <1>1. req \in [Slots -> Requests] /\ req[r] \in Requests
    BY DEF IInv, TypeOK
  <1>2. ASSUME NEW pc, Goto(r, pc) PROVE req'[r] = Idle \/ Same(req'[r])
    BY <1>1, <1>2 DEF Goto, Requests
  <1>3. ASSUME NEW n, req' = [req EXCEPT ![r].polls = n] PROVE Same(req'[r])
    BY <1>1, <1>3 DEF Requests
  <1>4. ASSUME NEW n, req' = [req EXCEPT ![r].pc = "claim", ![r].image = n]
        PROVE  Same(req'[r])
    BY <1>1, <1>4 DEF Requests
  <1> HIDE DEF Same
  <1>5. CASE CreateStep(r) \/ DeleteStep(r)
    BY <1>2, <1>5 DEF CreateStep, CreateOwn, CreateLaunch, CreateLaunched, CreateUndo, CreateUiUndo,
         CreateRecord, CreateUiDropPod, CreateUiDropRow, Write, BestEffort, Read, PodStarts,
         PodRefused, PodAnswer, SentToLogin, DeleteStep, DeleteRow, DeletePod, Same
  <1>6. CASE SaveStep(r)
    BY <1>2, <1>6 DEF SaveStep, SaveOwn, SaveMark, SaveRun, SaveRunning, SaveNoteFailed, MarkPending,
         Write, BestEffort, Read, SaveStarts, SaveAnswer, Same
  <1>7. CASE HibernateStep(r)
    <2>1. CASE HibernatePoll(r)
      BY <1>2, <1>3, <2>1 DEF HibernatePoll, Same
    <2> QED BY <1>2, <1>7, <2>1 DEF HibernateStep, HibernateOwn, HibernateMark, HibernateRun,
         HibernateRunning, HibernateDropPod, HibernateRelease, MarkPending, Write, BestEffort,
         SaveStarts, SaveAnswer, Same
  <1>8. CASE ResumeStep(r)
    <2>1. CASE ResumeOwn(r)
      BY <1>2, <1>4, <2>1 DEF ResumeOwn, Same
    <2> QED BY <1>2, <1>8, <2>1 DEF ResumeStep, ResumeClaim, ResumeStamp, ResumeLaunch, ResumeLaunched,
         ResumeRecord, ResumeRollback, ResumeMarkFailed, Write, BestEffort, PodStarts, PodRefused,
         PodAnswer, NoBaseImage, Raises, Same
  <1> QED BY <1>5, <1>6, <1>7, <1>8 DEF Step, Same

\* What a Job's report adds to what a hibernate knows.
Told(q, r, j) == [q EXCEPT !.fresh = TRUE, !.own = @ \/ j.slot = r]

\* What can happen to a slot: its own step, a start, an end by a fault, which
\* leaves the rows alone, or the report of a Job it waits for.
LEMMA SlotFate ==
    ASSUME IInv, [Next]_vars, NEW r \in Slots
    PROVE  \/ req'[r] = req[r]
           \/ Step(r)
           \/ Free(r)
           \/ req'[r] = Idle /\ UNCHANGED row
           \/ \E j \in jobs : JobSucceeds(j) /\ Waits(r, j.c) /\ req'[r] = Told(req[r], r, j)
  <1>1. req \in [Slots -> Requests]
    BY DEF IInv, TypeOK
  <1>2. ASSUME NEW s \in Slots, s # r, \E q : req' = [req EXCEPT ![s] = q]
        PROVE  req'[r] = req[r]
    BY <1>1, <1>2
  <1>3. CASE \E s \in Slots, c \in Containers : CreateRow(s, c)
    <2>1. PICK s \in Slots, c \in Containers : CreateRow(s, c)
      BY <1>3
    <2>2. UNCHANGED req \/ \E q : req' = [req EXCEPT ![s] = q]
      BY <2>1 DEF CreateRow
    <2>3. s = r => Free(r)
      BY <2>1 DEF CreateRow
    <2> QED BY <1>2, <2>2, <2>3
  <1>4. CASE \E s \in Slots, c \in Containers, op \in Operations \ {"create"} : Begin(s, op, c)
    <2>1. PICK s \in Slots, c \in Containers, op \in Operations \ {"create"} : Begin(s, op, c)
      BY <1>4
    <2>2. (\E q : req' = [req EXCEPT ![s] = q]) /\ Free(s)
      BY <2>1 DEF Begin
    <2> QED BY <1>2, <2>2
  <1>5. CASE \E s \in Slots : Step(s)
    BY <1>2, <1>5, StepMovesOne
  <1>6. CASE \E s \in Slots : Abandon(s)
    <2>1. PICK s \in Slots : Abandon(s)
      BY <1>6
    <2>2. req' = [req EXCEPT ![s] = Idle] /\ UNCHANGED row
      BY <2>1 DEF Abandon, Goto
    <2> QED BY <1>1, <2>2
  <1>7. CASE \E c \in Containers : Monitor(c)
    BY <1>7 DEF Monitor
  <1>8. CASE \E j \in jobs : JobSucceeds(j)
    BY <1>8 DEF JobSucceeds, Told
  <1>9. CASE \E j \in jobs : JobFails(j) \/ JobVanishes(j)
    BY <1>9 DEF JobFails, JobVanishes
  <1>10. CASE Crash
    BY <1>10 DEF Crash
  <1>11. CASE UNCHANGED vars
    BY <1>11 DEF vars
  <1> QED BY <1>3, <1>4, <1>5, <1>6, <1>7, <1>8, <1>9, <1>10, <1>11 DEF Next

\* A free slot stays so, or an operation starts at its first call.
LEMMA FreeStarts ==
    ASSUME IInv, [Next]_vars, NEW r \in Slots, Free(r)
    PROVE  /\ req'[r].pc \in {"idle", "own", "drop_row"} /\ req'[r].polls = 0
           /\ ~req'[r].fresh /\ ~req'[r].own
  <1> DEFINE Started(q) == /\ q.pc \in {"idle", "own", "drop_row"} /\ q.polls = 0
                           /\ ~q.fresh /\ ~q.own
  <1>1. req \in [Slots -> Requests] /\ req[r] = Idle /\ Idle.pc = "idle" /\ Idle.op = "none"
        /\ Started(Idle)
    BY DEF IInv, TypeOK, Free, Idle
  <1>2. ASSUME NEW s \in Slots, s # r, \E q : req' = [req EXCEPT ![s] = q]
        PROVE  Started(req'[r])
    <2>1. req'[r] = Idle
      BY <1>1, <1>2
    <2> QED BY <1>1, <2>1
  <1>3. ASSUME NEW s \in Slots, NEW q, Started(q), req' = [req EXCEPT ![s] = q]
        PROVE  Started(req'[r])
    <2>1. req'[r] = q \/ req'[r] = Idle
      BY <1>1, <1>3
    <2> HIDE DEF Started
    <2> QED BY <1>1, <1>3, <2>1
  <1>4. ASSUME req'[r] = req[r] \/ req'[r] = Idle PROVE Started(req'[r])
    BY <1>1, <1>4
  <1>5. ASSUME NEW s \in Slots, NEW c \in Containers, CreateRow(s, c) PROVE Started(req'[r])
    <2> DEFINE q == [Idle EXCEPT !.op = "create", !.c = c, !.pc = "own"]
    <2>1. Started(q)
      BY DEF Idle
    <2>2. req' = [req EXCEPT ![s] = q] \/ UNCHANGED req
      BY <1>5 DEF CreateRow
    <2> HIDE DEF q, Started
    <2> QED BY <1>3, <1>4, <2>1, <2>2
  <1>6. ASSUME NEW s \in Slots, NEW c \in Containers, NEW op, Begin(s, op, c)
        PROVE  Started(req'[r])
    <2> DEFINE q == [Idle EXCEPT !.op = op, !.c = c, !.kid = row[c].kid, !.pc = FirstPc(op)]
    <2>1. Started(q)
      BY DEF Idle, FirstPc
    <2>2. req' = [req EXCEPT ![s] = q]
      BY <1>6 DEF Begin
    <2> HIDE DEF q, Started
    <2> QED BY <1>3, <2>1, <2>2
  <1> HIDE DEF Started
  <1>7. ASSUME \E s \in Slots : Step(s)
         PROVE  Started(req'[r])
    BY <1>1, <1>2, <1>7, StepMovesOne, OpSteps
  <1>8. ASSUME \E s \in Slots : Abandon(s)
         PROVE  Started(req'[r])
    BY <1>1, <1>4, <1>8 DEF Abandon, Goto
  <1>9. ASSUME (\E c \in Containers : Monitor(c)) \/ Crash \/ UNCHANGED vars
         PROVE  Started(req'[r])
    BY <1>4, <1>9 DEF Monitor, Crash, vars
  <1>10. ASSUME \E j \in jobs : JobSucceeds(j) \/ JobFails(j) \/ JobVanishes(j)
         PROVE  Started(req'[r])
    BY <1>1, <1>4, <1>10 DEF JobSucceeds, JobFails, JobVanishes, Waits
  <1>11. ASSUME \E s \in Slots, c \in Containers :
                 CreateRow(s, c) \/ \E op \in Operations \ {"create"} : Begin(s, op, c)
         PROVE  Started(req'[r])
    BY <1>5, <1>6, <1>11
  <1>12. Started(req'[r])
    BY <1>7, <1>8, <1>9, <1>10, <1>11 DEF Next
  <1> QED BY <1>12 DEF Started

\* The budget of faults only falls, one fault at a time.
LEMMA StepBudget ==
    ASSUME [Next]_vars
    PROVE  Fail \/ Lost \/ Broken \/ UNCHANGED budget
  <1> HIDE DEF Fail, Lost, Broken
  <1>1. ASSUME NEW r \in Slots, CreateStep(r) PROVE Fail \/ Lost \/ UNCHANGED budget
    BY <1>1 DEF CreateStep, CreateOwn, CreateLaunch, CreateLaunched, CreateUndo, CreateUiUndo,
         CreateRecord, CreateUiDropPod, CreateUiDropRow, Write, BestEffort, Read, SentToLogin,
         Raises, PodStarts, PodRefused, PodAnswer
  <1>2. ASSUME NEW r \in Slots, DeleteStep(r) \/ SaveStep(r) PROVE Fail \/ Lost \/ UNCHANGED budget
    BY <1>2 DEF DeleteStep, DeleteRow, DeletePod, SaveStep, SaveOwn, SaveMark, SaveRun, SaveRunning,
         SaveNoteFailed, MarkPending, Write, BestEffort, Read, Raises, SaveStarts, SaveAnswer
  <1>3. ASSUME NEW r \in Slots, HibernateStep(r) PROVE Fail \/ Lost \/ UNCHANGED budget
    BY <1>3 DEF HibernateStep, HibernateOwn, HibernateMark, HibernateRun, HibernateRunning,
         HibernatePoll, HibernateDropPod, HibernateRelease, MarkPending, Write, BestEffort,
         Raises, SaveStarts, SaveAnswer
  <1>4. ASSUME NEW r \in Slots, ResumeStep(r) PROVE Fail \/ Lost \/ UNCHANGED budget
    BY <1>4 DEF ResumeStep, ResumeOwn, ResumeClaim, ResumeStamp, ResumeLaunch, ResumeLaunched,
         ResumeRecord, ResumeRollback, ResumeMarkFailed, Write, BestEffort, PodStarts, PodRefused,
         PodAnswer, NoBaseImage, Raises
  <1>5. CASE \E r \in Slots : Step(r)
    BY <1>1, <1>2, <1>3, <1>4, <1>5 DEF Step
  <1>6. CASE \E r \in Slots, c \in Containers :
                CreateRow(r, c) \/ \E op \in Operations \ {"create"} : Begin(r, op, c)
    BY <1>6 DEF CreateRow, Begin
  <1>7. CASE \E r \in Slots : Abandon(r)
    BY <1>7 DEF Abandon
  <1>8. CASE (\E c \in Containers : Monitor(c)) \/ Crash \/ UNCHANGED vars
    BY <1>8 DEF Monitor, Crash, vars
  <1>9. CASE \E j \in jobs : JobSucceeds(j) \/ JobFails(j) \/ JobVanishes(j)
    BY <1>9 DEF JobSucceeds, JobFails, JobVanishes
  <1> QED BY <1>5, <1>6, <1>7, <1>8, <1>9 DEF Next

\* The claim either changes nothing or goes on, unless its answer is lost.
THEOREM AnsweredClaim ==
    ASSUME MaxLost = 0
    PROVE  Spec => FailedClaimReservesNothing
  <1> DEFINE Answered == budget.lost = 0
             Claims == \A r \in Slots : At(r, "resume", "claim") /\ req'[r] = Idle => row' = row
  <1>1. Init => Answered
    BY DEF Init
  <1>2. IInv /\ Answered /\ [Next]_vars => Answered'
    <2> SUFFICES ASSUME IInv, Answered, [Next]_vars PROVE budget'.lost = 0
      OBVIOUS
    <2> QED BY StepBudget DEF Lost, Fail, Broken, IInv, TypeOK
  <1>3. IInv /\ Answered /\ [Next]_vars => Claims
    <2> SUFFICES ASSUME IInv, Answered, [Next]_vars, NEW r \in Slots,
                        At(r, "resume", "claim"), req'[r] = Idle
                 PROVE  row' = row
      OBVIOUS
    <2>1. req[r].pc = "claim" /\ req[r].op = "resume" /\ req[r] # Idle /\ ~Free(r)
          /\ \A c : ~Waits(r, c)
      BY IdleType DEF At, Free, Waits
    <2>2. CASE Step(r)
      <3>1. ResumeClaim(r)
        BY <2>1, <2>2, OpSteps DEF ResumeStep, ResumeOwn, ResumeStamp, ResumeLaunch, ResumeLaunched,
             ResumeRecord, ResumeRollback, ResumeMarkFailed, At
      <3>2. ~Goto(r, "stamp")
        BY <2>1, IdleType DEF Goto, IInv, TypeOK, Requests
      <3> QED BY <3>1, <3>2 DEF ResumeClaim, Lost
    <2> QED BY <2>1, <2>2, SlotFate
  <1> QED BY <1>1, <1>2, <1>3, Invariance, PTL DEF Spec, FailedClaimReservesNothing

\* How many calls an operation has still to make at most.
CallsLeft(q) ==
    CASE q.pc = "idle" -> 0
      [] q.pc \in {"release", "rollback", "mark_failed", "ui_drop_row", "ui_undo",
                   "note_failed"} -> 1
      [] q.pc \in {"undo", "ui_drop_pod", "drop_pod"} -> 2
      [] q.pc \in {"drop_row", "record"} -> 3
      [] q.pc = "launched" -> 4
      [] q.pc = "launch" -> 5
      [] q.pc = "stamp" -> 6
      [] q.pc = "claim" -> 7
      [] q.pc = "poll" -> 3 + (MaxPolls - q.polls)
      [] q.pc = "running" -> 4 + MaxPolls
      [] q.pc = "run" -> 5 + MaxPolls
      [] q.pc = "mark" -> 6 + MaxPolls
      [] q.pc = "own" -> 8 + MaxPolls

\* The poll counts its turns.
PollsCounted == \A r \in Slots : req[r].polls =< MaxPolls

\* Where a slot that goes to pc is.
LEMMA GoesTo ==
    ASSUME IInv, NEW r \in Slots, NEW pc, Goto(r, pc)
    PROVE  /\ req'[r].pc = pc
           /\ req'[r].polls = IF pc = "idle" THEN 0 ELSE req[r].polls
  <1>1. req \in [Slots -> Requests] /\ req[r] \in Requests
    BY DEF IInv, TypeOK
  <1>2. CASE pc = "idle"
    <2>1. req'[r] = Idle
      BY <1>1, <1>2 DEF Goto
    <2> QED BY <1>2, <2>1 DEF Idle
  <1>3. CASE pc # "idle"
    <2>1. req'[r] = [req[r] EXCEPT !.pc = pc]
      BY <1>1, <1>3 DEF Goto
    <2> QED BY <1>1, <1>3, <2>1 DEF Requests
  <1> QED BY <1>2, <1>3

\* Each call brings an operation nearer to its end.
LEMMA StepShortens ==
    ASSUME IInv, PollsCounted, NEW r \in Slots, Step(r)
    PROVE  /\ req'[r].polls =< MaxPolls
           /\ CallsLeft(req'[r]) < CallsLeft(req[r])
  <1> DEFINE q == req[r]
             x == req'[r]
  <1>1. q.polls \in Nat /\ q.polls =< MaxPolls /\ MaxPolls \in Nat
    BY BoundsAssumption DEF IInv, TypeOK, Requests, PollsCounted
  <1>2. ASSUME NEW pc, Goto(r, pc)
        PROVE  x.pc = pc /\ x.polls = IF pc = "idle" THEN 0 ELSE q.polls
    BY <1>2, GoesTo
  <1> USE DEF At
  <1> HIDE DEF x
  <1>3. CASE CreateStep(r)
    BY <1>1, <1>2, <1>3 DEF CallsLeft, CreateStep, CreateOwn, CreateLaunch, CreateLaunched, CreateUndo,
         CreateUiUndo, CreateRecord, CreateUiDropPod, CreateUiDropRow, Write, BestEffort, Read,
         SentToLogin, PodStarts, PodRefused, PodAnswer, x
  <1>4. CASE DeleteStep(r)
    BY <1>1, <1>2, <1>4 DEF CallsLeft, DeleteStep, DeleteRow, DeletePod, BestEffort, x
  <1>5. CASE SaveStep(r)
    BY <1>1, <1>2, <1>5 DEF CallsLeft, SaveStep, SaveOwn, SaveMark, SaveRun, SaveRunning,
         SaveNoteFailed, MarkPending, Write, BestEffort, Read, SaveStarts, SaveAnswer, x
  <1>6. CASE HibernateStep(r)
    <2>1. CASE HibernatePoll(r)
      BY <1>1, <1>2, <2>1 DEF CallsLeft, HibernatePoll, IInv, TypeOK, Requests, x
    <2>2. CASE HibernateOwn(r) \/ HibernateMark(r)
      BY <1>1, <1>2, <2>2 DEF CallsLeft, HibernateOwn, HibernateMark, MarkPending, Write, x
    <2>3. CASE HibernateRun(r) \/ HibernateRunning(r)
      BY <1>1, <1>2, <2>3 DEF CallsLeft, HibernateRun, HibernateRunning, SaveStarts, SaveAnswer, x
    <2>4. CASE HibernateDropPod(r) \/ HibernateRelease(r)
      BY <1>1, <1>2, <2>4 DEF CallsLeft, HibernateDropPod, HibernateRelease, BestEffort, x
    <2> QED BY <1>6, <2>1, <2>2, <2>3, <2>4 DEF HibernateStep
  <1>7. CASE ResumeStep(r)
    <2>1. CASE ResumeOwn(r)
      BY <1>1, <1>2, <2>1 DEF CallsLeft, ResumeOwn, IInv, TypeOK, Requests, x
    <2>2. CASE ResumeClaim(r) \/ ResumeStamp(r)
      BY <1>1, <1>2, <2>2 DEF CallsLeft, ResumeClaim, ResumeStamp, x
    <2>3. CASE ResumeLaunch(r) \/ ResumeLaunched(r)
      BY <1>1, <1>2, <2>3 DEF CallsLeft, ResumeLaunch, ResumeLaunched, PodStarts, PodRefused,
           PodAnswer, NoBaseImage, x
    <2>4. CASE ResumeRecord(r) \/ ResumeRollback(r) \/ ResumeMarkFailed(r)
      BY <1>1, <1>2, <2>4 DEF CallsLeft, ResumeRecord, ResumeRollback, ResumeMarkFailed, Write,
           BestEffort, x
    <2> QED BY <1>7, <2>1, <2>2, <2>3, <2>4 DEF ResumeStep
  <1> QED BY <1>3, <1>4, <1>5, <1>6, <1>7 DEF Step, x

\* An operation makes at most MaxPolls + 8 calls, whatever else happens between
\* two of them: each brings it nearer to its end, and nothing sets it back.
THEOREM OperationsAreShort ==
    Spec => /\ [](\A r \in Slots : CallsLeft(req[r]) \in 0 .. MaxPolls + 8)
            /\ [][\A r \in Slots :
                    /\ Step(r) => CallsLeft(req'[r]) < CallsLeft(req[r])
                    /\ ~Free(r) => CallsLeft(req'[r]) =< CallsLeft(req[r])]_vars
  <1> DEFINE Short == \A r \in Slots : CallsLeft(req[r]) \in 0 .. MaxPolls + 8
             Nearer == \A r \in Slots :
                    /\ Step(r) => CallsLeft(req'[r]) < CallsLeft(req[r])
                    /\ ~Free(r) => CallsLeft(req'[r]) =< CallsLeft(req[r])
  <1>1. Init => PollsCounted
    BY BoundsAssumption DEF Init, PollsCounted, Idle
  <1>2. IInv /\ IInv' /\ PollsCounted /\ [Next]_vars => PollsCounted' /\ Nearer
    <2> SUFFICES ASSUME IInv, IInv', PollsCounted, [Next]_vars, NEW r \in Slots
                 PROVE  /\ req'[r].polls =< MaxPolls
                        /\ Step(r) => CallsLeft(req'[r]) < CallsLeft(req[r])
                        /\ ~Free(r) => CallsLeft(req'[r]) =< CallsLeft(req[r])
      BY DEF PollsCounted
    <2>1. /\ MaxPolls \in Nat /\ req[r].polls =< MaxPolls /\ req[r].polls \in Nat
          /\ req[r] \in Requests /\ req[r].pc \in Pcs
      BY BoundsAssumption DEF IInv, TypeOK, Requests, PollsCounted
    <2>2. CallsLeft(req[r]) \in Nat
      BY <2>1 DEF CallsLeft, Pcs
    <2>3. CallsLeft(Idle) = 0 /\ Idle.polls = 0
      BY DEF CallsLeft, Idle
    <2>4. req'[r].polls =< MaxPolls => CallsLeft(req'[r]) \in Nat
      BY <2>1 DEF CallsLeft, Pcs, IInv, TypeOK, Requests
    <2>5. CASE Step(r)
      BY <2>2, <2>4, <2>5, StepShortens
    <2>6. CASE ~Step(r) /\ req'[r] = req[r]
      BY <2>1, <2>2, <2>6
    <2>7. CASE ~Step(r) /\ req'[r] = Idle
      BY <2>1, <2>2, <2>3, <2>7
    <2>8. CASE ~Step(r) /\ \E j \in jobs : Waits(r, j.c) /\ req'[r] = Told(req[r], r, j)
      <3>1. PICK j \in jobs : req'[r] = Told(req[r], r, j)
        BY <2>8
      <3>2. req'[r].pc = req[r].pc /\ req'[r].polls = req[r].polls
        BY <2>1, <3>1 DEF Told, Requests
      <3>3. CallsLeft(req'[r]) = CallsLeft(req[r])
        BY <3>2 DEF CallsLeft
      <3> QED BY <2>1, <2>2, <2>8, <3>2, <3>3
    <2>9. CASE ~Step(r) /\ Free(r)
      <3>1. req'[r].polls = 0
        BY <2>9, FreeStarts
      <3> QED BY <2>1, <2>9, <3>1
    <2> QED BY <2>5, <2>6, <2>7, <2>8, <2>9, SlotFate
  <1>3. IInv /\ PollsCounted => Short
    <2> SUFFICES ASSUME IInv, PollsCounted, NEW r \in Slots
                 PROVE  CallsLeft(req[r]) \in 0 .. MaxPolls + 8
      OBVIOUS
    <2>1. MaxPolls \in Nat /\ req[r].polls =< MaxPolls /\ req[r].polls \in Nat /\ req[r].pc \in Pcs
      BY BoundsAssumption DEF IInv, TypeOK, Requests, PollsCounted
    <2>2. CallsLeft(req[r]) \in Nat
      BY <2>1 DEF CallsLeft, Pcs
    <2>3. CallsLeft(req[r]) =< MaxPolls + 8
      BY <2>1 DEF CallsLeft, Pcs
    <2> QED BY <2>1, <2>2, <2>3
  <1> QED BY <1>1, <1>2, <1>3, Invariance, PTL DEF Spec

-----------------------------------------------------------------------------
(* One operation at a time, its snapshot Job included.                     *)

\* A resume works while no Job is in flight, on the image it has read, and only
\* a hibernate's own Job has told it anything.
SerialSound(q, rows, flight) ==
    /\ q.op = "resume" => flight = {}
    /\ q.op = "resume" /\ q.pc \in {"claim", "stamp", "launch"} => q.image = rows[q.c].image
    /\ q.fresh => q.own

SerialInv == \A r \in Slots : SerialSound(req[r], row, jobs)

\* A step of the one slot keeps that.
LEMMA SerialStep ==
    ASSUME IInv, SerialInv, NEW r \in Slots, Step(r)
    PROVE  SerialSound(req'[r], row', jobs')
  <1>1. /\ req[r] \in Requests /\ req[r].pc # "idle" /\ req[r].c \in Containers
        /\ req \in [Slots -> Requests] /\ row \in [Containers -> Rows]
        /\ row[req[r].c] \in Rows
    BY OpSteps, BusySlot DEF IInv, TypeOK
  <1>2. SerialSound(Idle, row', jobs')
    BY DEF SerialSound, Idle
  <1>3. ASSUME NEW pc, Goto(r, pc), pc # "idle"
        PROVE  req'[r] = [req[r] EXCEPT !.pc = pc]
    BY <1>1, <1>3 DEF Goto
  <1>4. ASSUME Goto(r, "idle") PROVE req'[r] = Idle
    BY <1>1, <1>4 DEF Goto
  <1>5. CASE req[r].op # "resume"
    <2>2. \/ req'[r] = Idle
          \/ req'[r].op = req[r].op /\ req'[r].fresh = req[r].fresh /\ req'[r].own = req[r].own
      BY <1>1, <1>3, <1>4, <1>5, StepRemembers
    <2>3. SerialSound(req[r], row, jobs)
      BY DEF SerialInv
    <2> QED BY <1>2, <1>5, <2>2, <2>3 DEF SerialSound
  <1>6. CASE req[r].op = "resume"
    <2>1. /\ ResumeStep(r) /\ req[r].op = "resume" /\ jobs = {}
          /\ req[r].pc \in {"claim", "stamp", "launch"} => req[r].image = row[req[r].c].image
          /\ req[r].fresh => req[r].own
      BY <1>6, OpSteps DEF SerialInv, SerialSound
    <2>2. CASE ResumeOwn(r)
      <3>1. \/ req'[r] = [req[r] EXCEPT !.pc = "claim", !.image = row[req[r].c].image]
            \/ req'[r] = Idle
            \/ req'[r] = [req[r] EXCEPT !.pc = "mark_failed"]
        BY <1>1, <1>3, <1>4, <2>2 DEF ResumeOwn
      <3>2. row' = row /\ jobs' = {}
        BY <2>1, <2>2 DEF ResumeOwn
      <3>3. CASE req'[r] = [req[r] EXCEPT !.pc = "claim", !.image = row[req[r].c].image]
        <4>1. /\ req'[r].image = row[req[r].c].image /\ req'[r].c = req[r].c
              /\ req'[r].fresh = req[r].fresh /\ req'[r].own = req[r].own
          BY <1>1, <3>3 DEF Requests
        <4> QED BY <2>1, <3>2, <4>1 DEF SerialSound
      <3>4. CASE req'[r] = [req[r] EXCEPT !.pc = "mark_failed"]
        BY <1>1, <2>1, <3>2, <3>4 DEF SerialSound, Requests
      <3> QED BY <1>2, <3>1, <3>3, <3>4
    <2>3. CASE ResumeClaim(r)
      <3>1. \/ /\ req'[r] = [req[r] EXCEPT !.pc = "stamp"]
               /\ row' = [row EXCEPT ![req[r].c] = Claimed(row[req[r].c])]
            \/ req'[r] = Idle
        BY <1>1, <1>3, <1>4, <2>3 DEF ResumeClaim, SetRow
      <3>2. jobs' = {} /\ req[r].pc = "claim" /\ Claimed(row[req[r].c]).image = row[req[r].c].image
        BY <1>1, <2>1, <2>3 DEF ResumeClaim, At, Claimed, Rows
      <3> QED BY <1>1, <1>2, <2>1, <3>1, <3>2 DEF SerialSound, Requests
    <2>4. CASE ResumeStamp(r)
      <3>1. req'[r] \in {[req[r] EXCEPT !.pc = "launch"], [req[r] EXCEPT !.pc = "rollback"]}
        BY <1>1, <1>3, <2>4 DEF ResumeStamp
      <3>2. row' = row /\ jobs' = {} /\ req[r].pc = "stamp"
        BY <2>1, <2>4 DEF ResumeStamp, At
      <3>3. /\ req'[r].image = req[r].image /\ req'[r].c = req[r].c
            /\ req'[r].fresh = req[r].fresh /\ req'[r].own = req[r].own
        BY <1>1, <3>1 DEF Requests
      <3> QED BY <1>1, <2>1, <3>2, <3>3 DEF SerialSound
    <2>5. CASE ResumeLaunch(r) \/ ResumeLaunched(r)
      <3>1. \/ \E pc \in {"launched", "record", "rollback"} : req'[r] = [req[r] EXCEPT !.pc = pc]
            \/ req'[r] = Idle
        BY <1>1, <1>3, <1>4, <2>5
           DEF ResumeLaunch, ResumeLaunched, PodStarts, PodRefused, PodAnswer, NoBaseImage
      <3>2. jobs' = {}
        BY <2>1, <2>5
           DEF ResumeLaunch, ResumeLaunched, PodStarts, PodRefused, PodAnswer, NoBaseImage
      <3> QED BY <1>1, <1>2, <2>1, <3>1, <3>2 DEF SerialSound, Requests
    <2>6. CASE ResumeRecord(r) \/ ResumeRollback(r) \/ ResumeMarkFailed(r)
      <3>1. req'[r] \in {Idle, [req[r] EXCEPT !.pc = "rollback"]}
        BY <1>1, <1>3, <1>4, <2>6
           DEF ResumeRecord, ResumeRollback, ResumeMarkFailed, Write, BestEffort
      <3>2. jobs' = {}
        BY <2>1, <2>6 DEF ResumeRecord, ResumeRollback, ResumeMarkFailed
      <3> QED BY <1>1, <1>2, <2>1, <3>1, <3>2 DEF SerialSound, Requests
    <2> QED BY <2>1, <2>2, <2>3, <2>4, <2>5, <2>6 DEF ResumeStep
  <1> QED BY <1>5, <1>6

\* So does every step.
LEMMA SerialKeeps ==
    ASSUME \A r, s \in Slots : r = s, IInv, SerialInv, [Next]_vars
    PROVE  SerialInv'
  <1> SUFFICES ASSUME NEW r \in Slots PROVE SerialSound(req'[r], row', jobs')
    BY DEF SerialInv
  <1>1. /\ req[r] \in Requests /\ req \in [Slots -> Requests] /\ row \in [Containers -> Rows]
        /\ jobs \in SUBSET Jobs /\ SerialSound(req[r], row, jobs)
    BY DEF IInv, TypeOK, SerialInv
  <1>2. \A s \in Slots : s = r
    OBVIOUS
  <1>3. SerialSound(Idle, row', jobs')
    BY DEF SerialSound, Idle
  <1>4. CASE \E s \in Slots : Step(s)
    BY <1>2, <1>4, SerialStep
  <1>5. CASE \E s \in Slots, c \in Containers : CreateRow(s, c)
    <2>1. PICK s \in Slots, c \in Containers : CreateRow(s, c)
      BY <1>5
    <2>2. req[r] = Idle /\ s = r
      BY <1>2, <2>1 DEF CreateRow, Free
    <2>3. req'[r] = Idle \/ req'[r] = [Idle EXCEPT !.op = "create", !.c = c, !.pc = "own"]
      BY <1>1, <2>1, <2>2 DEF CreateRow
    <2> QED BY <1>3, <2>3 DEF SerialSound, Idle
  <1>6. CASE \E s \in Slots, c \in Containers, op \in Operations \ {"create"} : Begin(s, op, c)
    <2>1. PICK s \in Slots, c \in Containers, op \in Operations \ {"create"} : Begin(s, op, c)
      BY <1>6
    <2>2. s = r /\ jobs' = jobs
      BY <1>2, <2>1 DEF Begin
    <2>3. jobs = {}
      BY <1>1, <1>2, <2>1 DEF Begin, Free, Jobs
    <2>4. req'[r] = [Idle EXCEPT !.op = op, !.c = c, !.kid = row[c].kid, !.pc = FirstPc(op)]
      BY <1>1, <2>1, <2>2 DEF Begin
    <2>5. req'[r].pc \in {"own", "drop_row"} /\ ~req'[r].fresh
      BY <2>4 DEF Idle, FirstPc
    <2> QED BY <2>2, <2>3, <2>5 DEF SerialSound
  <1>7. CASE \E s \in Slots : Abandon(s)
    BY <1>1, <1>2, <1>3, <1>7 DEF Abandon, Goto
  <1>8. CASE \E c \in Containers : Monitor(c)
    <2>1. PICK c \in Containers, t \in {"Running", "Failed"} :
              SetRow(c, [row[c] EXCEPT !.status = t])
      BY <1>8 DEF Monitor
    <2>2. \A d : row'[d].image = row[d].image
      BY <1>1, <2>1 DEF SetRow, Rows
    <2>3. req' = req /\ jobs' = jobs
      BY <1>8 DEF Monitor
    <2> QED BY <1>1, <2>2, <2>3 DEF SerialSound
  <1>9. CASE \E j \in jobs : JobSucceeds(j)
    <2>1. PICK j \in jobs : JobSucceeds(j)
      BY <1>9
    <2>2. j.slot = r /\ req[r].op # "resume"
      BY <1>1, <1>2, <2>1 DEF Jobs, SerialSound
    <2>3. req'[r] = req[r] \/ req'[r] = Told(req[r], r, j)
      BY <2>1 DEF JobSucceeds, Told
    <2>4. req'[r].op = req[r].op /\ (req'[r].fresh => req'[r].own)
      BY <1>1, <2>2, <2>3 DEF Told, Requests, SerialSound
    <2> QED BY <2>2, <2>4 DEF SerialSound
  <1>10. CASE \E j \in jobs : JobFails(j) \/ JobVanishes(j)
    <2>1. req' = req /\ req[r].op # "resume"
      BY <1>1, <1>10 DEF JobFails, JobVanishes, SerialSound
    <2> QED BY <1>1, <2>1 DEF SerialSound
  <1>11. CASE Crash
    <2>1. (req'[r] = req[r] \/ req'[r] = Idle) /\ row' = row /\ jobs' = jobs
      BY <1>11 DEF Crash
    <2> QED BY <1>1, <1>3, <2>1
  <1>12. CASE UNCHANGED vars
    BY <1>1, <1>12 DEF vars
  <1> QED BY <1>4, <1>5, <1>6, <1>7, <1>8, <1>9, <1>10, <1>11, <1>12 DEF Next

\* And it holds at first.
LEMMA SerialAlways ==
    ASSUME \A r, s \in Slots : r = s
    PROVE  Spec => []SerialInv
  <1>1. Init => SerialInv
    BY DEF Init, SerialInv, SerialSound, Idle
  <1>2. IInv /\ SerialInv /\ [Next]_vars => SerialInv'
    BY SerialKeeps
  <1> QED BY <1>1, <1>2, Invariance, PTL DEF Spec

\* Where one operation waits for the other, its snapshot Job included, a
\* hibernate deletes the pod only after its own snapshot was recorded.
THEOREM SerialSave ==
    ASSUME \A r, s \in Slots : r = s
    PROVE  Spec => []HibernateConfirmsOwnSave
  <1>1. IInv /\ SerialInv => HibernateConfirmsOwnSave
    BY BusySlot DEF SerialInv, SerialSound, HibernateConfirmsOwnSave, At, RequestSound
  <1> QED BY <1>1, SerialAlways, Invariance, PTL

\* And a resume starts the pod from the latest image.
THEOREM SerialImage ==
    ASSUME \A r, s \in Slots : r = s
    PROVE  Spec => ResumesLatestImage
  <1> DEFINE Latest == \A r \in Slots :
                 At(r, "resume", "launch") /\ req'[r].pc = "launched"
                   => req[r].image = row[req[r].c].image
  <1>1. SerialInv => Latest
    BY DEF SerialInv, SerialSound, At
  <1> QED BY <1>1, SerialAlways, PTL DEF ResumesLatestImage
=============================================================================
