--------------------------- MODULE LifecycleProofs ---------------------------
(***************************************************************************)
(* ContainerOps implements Lifecycle: the rows, seen through Life, go      *)
(* through nothing but a container's life, for any number of containers    *)
(* and of operations in flight and whatever fails.                         *)
(*                                                                         *)
(* A step changes at most one row, so the step simulation is about a pair  *)
(* of rows: LifeMoves(w, v) says that Lifecycle lets w become v.  What the *)
(* handlers may do to a row depends on what they know of it (a hibernate   *)
(* or a rollback that a snapshot is recorded), which IInv provides.        *)
(***************************************************************************)
EXTENDS ContainerOpsProofs

Lives == [c \in Containers |-> Life(row[c])]

Saved(w) == w.image > 0

LifeMoves(w, v) ==
    /\ v \in Rows
    /\ \/ /\ v.status = w.status \/ (Exists(w) /\ v.status \in {"Running", "Failed"})
          /\ (Saved(v) <=> Saved(w)) /\ (v.reserved <=> w.reserved)
       \/ w.status = "Absent" /\ v.status = "Pending" /\ ~Saved(v) /\ v.reserved
       \/ /\ Exists(w) /\ v.status = w.status
          /\ Saved(v) /\ (v.reserved <=> w.reserved)
       \/ /\ Exists(w) /\ Saved(w)
          /\ v.status = "Hibernated" /\ Saved(v) /\ ~v.reserved
       \/ /\ w.status = "Hibernated" /\ v.status = "Resuming"
          /\ (Saved(v) <=> Saved(w)) /\ v.reserved
       \/ Exists(w) /\ v.status = "Deleted" /\ ~Saved(v) /\ ~v.reserved

-----------------------------------------------------------------------------
(* What Cloud's endpoints do to a row.                                     *)

\* What each endpoint of Cloud does to a life.
LEMMA EndpointsMove ==
    ASSUME NEW w, RowSound(w)
    PROVE  /\ LifeMoves(w, w)
           /\ w.status = "Absent" => LifeMoves(w, Created)
           /\ LifeMoves(w, Removed(w))
           /\ HasImage(w) => LifeMoves(w, Hibernated(w))
           /\ Resumable(w) => LifeMoves(w, Claimed(w))
  <1> USE DEF LifeMoves, Saved
  <1>1. w \in Rows
    BY DEF RowSound
  <1>2. LifeMoves(w, w)
    BY <1>1
  <1>3. w.status = "Absent" => LifeMoves(w, Created)
    BY EndpointsSound DEF RowSound, Created, BlankRow
  <1>4. LifeMoves(w, Removed(w))
    BY <1>1, EndpointsSound DEF RowSound, Removed, BlankRow
  <1>5. HasImage(w) => LifeMoves(w, Hibernated(w))
    BY <1>1, EndpointsSound DEF RowSound, HasImage, Hibernated, Updated, Exists, Gone, Rows
  <1>6. Resumable(w) => LifeMoves(w, Claimed(w))
    BY <1>1, EndpointsSound DEF RowSound, Resumable, Claimed, Rows
  <1> QED BY <1>2, <1>3, <1>4, <1>5, <1>6

\* What each update does to it.
LEMMA UpdatesMove ==
    ASSUME NEW w, RowSound(w)
    PROVE  /\ LifeMoves(w, WithPod(w))
           /\ \A s \in {"Pending", "Failed"} : LifeMoves(w, WithSave(w, s))
           /\ LifeMoves(w, WithSnapshot(w))
           /\ \A s \in {"Running", "Failed"} :
                /\ LifeMoves(w, WithStatus(w, s))
                /\ LifeMoves(w, WithStatus(WithPod(w), s))
                /\ w.status \in Monitored => LifeMoves(w, [w EXCEPT !.status = s])
  <1> USE DEF LifeMoves, Saved, Updated, Exists
  <1>1. w \in Rows
    BY DEF RowSound
  <1>2. LifeMoves(w, WithPod(w))
    BY <1>1, UpdatesSound DEF RowSound, WithPod, Rows
  <1>3. ASSUME NEW s \in {"Pending", "Failed"}
        PROVE  LifeMoves(w, WithSave(w, s))
    BY <1>1, UpdatesSound DEF RowSound, WithSave, Rows
  <1>4. LifeMoves(w, WithSnapshot(w))
    <2>1. WithSnapshot(w) \in Rows
      BY ReportsSound DEF RowSound
    <2> QED BY <1>1, <2>1 DEF WithSnapshot, Rows
  <1>5. ASSUME NEW s \in {"Running", "Failed"}
        PROVE  /\ LifeMoves(w, WithStatus(w, s))
               /\ LifeMoves(w, WithStatus(WithPod(w), s))
    <2>1. WithStatus(w, s) \in Rows /\ WithStatus(WithPod(w), s) \in Rows
      BY UpdatesSound DEF RowSound
    <2> QED BY <1>1, <2>1 DEF WithStatus, WithPod, Rows
  <1>6. ASSUME NEW s \in {"Running", "Failed"}, w.status \in Monitored
        PROVE  LifeMoves(w, [w EXCEPT !.status = s])
    BY <1>1, <1>6, ReportsSound DEF RowSound, Monitored, Gone, Rows
  <1> QED BY <1>2, <1>3, <1>4, <1>5, <1>6

-----------------------------------------------------------------------------
(* What each operation does to the rows.                                   *)

\* The rows stay as they are, or one of them moves.
RowsMove ==
    \/ UNCHANGED row
    \/ \E c \in Containers : \E v : SetRow(c, v) /\ LifeMoves(row[c], v)

\* A call to Cloud that may fail, or lose its answer.
LEMMA WriteMoves ==
    ASSUME NEW r \in Slots, req[r].c \in Containers, NEW v, LifeMoves(row[req[r].c], v),
           NEW onOk, NEW onError, Write(r, v, onOk, onError) \/ BestEffort(r, v, onOk)
    PROVE  RowsMove
  BY DEF Write, BestEffort, RowsMove

\* The calls of a create.
LEMMA CreateMoves ==
    ASSUME IInv, NEW r \in Slots, CreateStep(r)
    PROVE  RowsMove
  <1>1. req[r].c \in Containers /\ RowSound(row[req[r].c])
    BY BusySlot DEF CreateStep, At, CreateOwn, CreateLaunch, CreateLaunched, CreateUndo,
                    CreateUiUndo, CreateRecord, CreateUiDropPod, CreateUiDropRow
  <1>2. CASE CreateOwn(r) \/ CreateLaunch(r) \/ CreateLaunched(r) \/ CreateUiDropPod(r)
    BY <1>2 DEF CreateOwn, CreateLaunch, CreateLaunched, CreateUiDropPod, PodStarts,
                PodRefused, PodAnswer, RowsMove
  <1>3. CASE CreateUndo(r) \/ CreateUiUndo(r) \/ CreateUiDropRow(r)
    BY <1>1, <1>3, EndpointsMove, WriteMoves DEF CreateUndo, CreateUiUndo, CreateUiDropRow
  <1>4. CASE CreateRecord(r)
    <2>1. CASE UNCHANGED row
      BY <2>1 DEF RowsMove
    <2>2. CASE Write(r, WithPod(row[req[r].c]), "idle", "ui_drop_pod")
      BY <1>1, <2>2, UpdatesMove, WriteMoves
    <2> QED BY <1>4, <2>1, <2>2 DEF CreateRecord
  <1> QED BY <1>2, <1>3, <1>4 DEF CreateStep

\* The calls of a delete.
LEMMA DeleteMoves ==
    ASSUME IInv, NEW r \in Slots, DeleteStep(r)
    PROVE  RowsMove
  <1>1. req[r].c \in Containers /\ RowSound(row[req[r].c])
    BY BusySlot DEF DeleteStep, At, DeleteRow, DeletePod
  <1>2. CASE DeleteRow(r)
    BY <1>1, <1>2, EndpointsMove, WriteMoves DEF DeleteRow
  <1>3. CASE DeletePod(r)
    BY <1>3 DEF DeletePod, RowsMove
  <1> QED BY <1>2, <1>3 DEF DeleteStep

\* The calls of a save.
LEMMA SaveMoves ==
    ASSUME IInv, NEW r \in Slots, SaveStep(r)
    PROVE  RowsMove
  <1>1. req[r].c \in Containers /\ RowSound(row[req[r].c])
    BY BusySlot DEF SaveStep, At, SaveOwn, SaveMark, SaveRun, SaveRunning, SaveNoteFailed
  <1>2. CASE SaveOwn(r) \/ SaveRun(r) \/ SaveRunning(r)
    BY <1>2 DEF SaveOwn, SaveRun, SaveRunning, SaveStarts, SaveAnswer, RowsMove
  <1>3. CASE SaveMark(r) \/ SaveNoteFailed(r)
    BY <1>1, <1>3, UpdatesMove, WriteMoves
       DEF SaveMark, MarkPending, SaveNoteFailed
  <1> QED BY <1>2, <1>3 DEF SaveStep

\* The calls of a hibernate.
LEMMA HibernateMoves ==
    ASSUME IInv, NEW r \in Slots, HibernateStep(r)
    PROVE  RowsMove
  <1>1. /\ req[r].c \in Containers /\ RowSound(row[req[r].c])
        /\ RequestSound(req[r].op, req[r].pc, req[r].fresh, row[req[r].c])
    BY BusySlot DEF HibernateStep, At, HibernateOwn, HibernateMark, HibernateRun,
                    HibernateRunning, HibernatePoll, HibernateDropPod, HibernateRelease
  <1>2. CASE HibernateOwn(r) \/ HibernateRun(r) \/ HibernateRunning(r)
                \/ HibernatePoll(r) \/ HibernateDropPod(r)
    BY <1>2 DEF HibernateOwn, HibernateRun, HibernateRunning, HibernatePoll,
                HibernateDropPod, SaveStarts, SaveAnswer, RowsMove
  <1>3. CASE HibernateMark(r)
    BY <1>1, <1>3, UpdatesMove, WriteMoves DEF HibernateMark, MarkPending
  <1>4. CASE HibernateRelease(r)
    <2>1. HasImage(row[req[r].c])
      BY <1>1, <1>4 DEF RequestSound, HibernateRelease, At
    <2> QED BY <1>1, <1>4, <2>1, EndpointsMove, WriteMoves DEF HibernateRelease
  <1> QED BY <1>2, <1>3, <1>4 DEF HibernateStep

\* The calls of a resume.
LEMMA ResumeMoves ==
    ASSUME IInv, NEW r \in Slots, ResumeStep(r)
    PROVE  RowsMove
  <1>1. /\ req[r].c \in Containers /\ RowSound(row[req[r].c])
        /\ RequestSound(req[r].op, req[r].pc, req[r].fresh, row[req[r].c])
    BY BusySlot DEF ResumeStep, At, ResumeOwn, ResumeClaim, ResumeStamp, ResumeLaunch,
                    ResumeLaunched, ResumeRecord, ResumeRollback, ResumeMarkFailed
  <1>2. CASE ResumeOwn(r) \/ ResumeStamp(r) \/ ResumeLaunch(r) \/ ResumeLaunched(r)
    BY <1>2 DEF ResumeOwn, ResumeStamp, ResumeLaunch, ResumeLaunched, PodStarts,
                PodRefused, PodAnswer, NoBaseImage, RowsMove
  <1>3. CASE ResumeClaim(r)
    BY <1>1, <1>3, EndpointsMove DEF ResumeClaim, RowsMove
  <1>4. CASE ResumeRecord(r) \/ ResumeMarkFailed(r)
    BY <1>1, <1>4, UpdatesMove, WriteMoves DEF ResumeRecord, ResumeMarkFailed
  <1>5. CASE ResumeRollback(r)
    <2>1. HasImage(row[req[r].c])
      BY <1>1, <1>5 DEF RequestSound, ResumeRollback, At
    <2> QED BY <1>1, <1>5, <2>1, EndpointsMove, WriteMoves DEF ResumeRollback
  <1> QED BY <1>2, <1>3, <1>4, <1>5 DEF ResumeStep

\* The rest of the world moves a row as Lifecycle allows, too.
LEMMA NextMoves ==
    ASSUME IInv, [Next]_vars
    PROVE  RowsMove
  <1>1. CASE \E r \in Slots, c \in Containers : CreateRow(r, c)
    BY <1>1, EndpointsMove DEF CreateRow, IInv, RowsMove
  <1>2. CASE \E r \in Slots : Step(r)
    BY <1>2, CreateMoves, DeleteMoves, SaveMoves, HibernateMoves, ResumeMoves DEF Step
  <1>3. CASE \E c \in Containers : Monitor(c)
    BY <1>3, UpdatesMove DEF Monitor, IInv, RowsMove
  <1>4. CASE \E j \in jobs : JobSucceeds(j) \/ JobFails(j)
    BY <1>4, UpdatesMove DEF JobSucceeds, JobFails, IInv, TypeOK, Jobs, RowsMove
  <1>5. CASE \/ \E r \in Slots, c \in Containers, op \in Operations : Begin(r, op, c)
             \/ \E r \in Slots : Abandon(r)
             \/ \E j \in jobs : JobVanishes(j)
             \/ Crash
             \/ UNCHANGED vars
    BY <1>5 DEF Begin, Abandon, JobVanishes, Crash, vars, RowsMove
  <1> QED BY <1>1, <1>2, <1>3, <1>4, <1>5 DEF Next

-----------------------------------------------------------------------------
(* The refinement.                                                         *)

LifeRecords == [status : LiveStatuses \cup Gone, saved : BOOLEAN, reserved : BOOLEAN]

\* What the abstract state of a row is.
LEMMA LifeFields ==
    ASSUME NEW w \in Rows
    PROVE  /\ Life(w) \in LifeRecords
           /\ Life(w).status = w.status
           /\ Life(w).saved <=> Saved(w)
           /\ Life(w).reserved <=> w.reserved
  <1>1. w.status \in LiveStatuses \cup Gone /\ w.reserved \in BOOLEAN
    BY DEF Rows
  <1>2. ASSUME NEW saved \in BOOLEAN, Saved(w) <=> saved
        PROVE  Life(w) = [status |-> w.status, saved |-> saved, reserved |-> w.reserved]
    <2>1. (w.image > 0) = saved
      BY <1>2 DEF Saved
    <2> QED BY <2>1, Zenon DEF Life
  <1>3. CASE Saved(w)
    <2>1. Life(w) = [status |-> w.status, saved |-> TRUE, reserved |-> w.reserved]
      BY <1>2, <1>3
    <2> QED BY <1>1, <1>3, <2>1 DEF LifeRecords
  <1>4. CASE ~Saved(w)
    <2>1. Life(w) = [status |-> w.status, saved |-> FALSE, reserved |-> w.reserved]
      BY <1>2, <1>4
    <2> QED BY <1>1, <1>4, <2>1 DEF LifeRecords
  <1> QED BY <1>3, <1>4

\* A life is its three fields.
LEMMA SameLife ==
    ASSUME NEW x \in LifeRecords, NEW y \in LifeRecords, x.status = y.status,
           x.saved <=> y.saved, x.reserved <=> y.reserved
    PROVE  x = y
  BY DEF LifeRecords

\* The new values that the actions of Lifecycle give to a life x.
LEMMA NewLives ==
    ASSUME NEW x \in LifeRecords, NEW y \in LifeRecords
    PROVE  /\ /\ y.status \in {"Running", "Failed"}
              /\ (y.saved <=> x.saved) /\ (y.reserved <=> x.reserved)
              => \E s \in {"Running", "Failed"} : y = [x EXCEPT !.status = s]
           /\ y.status = x.status /\ y.saved /\ (y.reserved <=> x.reserved)
              => y = [x EXCEPT !.saved = TRUE]
           /\ y.status = "Hibernated" /\ (y.saved <=> x.saved) /\ ~y.reserved
              => y = [x EXCEPT !.status = "Hibernated", !.reserved = FALSE]
           /\ y.status = "Resuming" /\ (y.saved <=> x.saved) /\ y.reserved
              => y = [x EXCEPT !.status = "Resuming", !.reserved = TRUE]
           /\ y.status = "Pending" /\ ~y.saved /\ y.reserved
              => y = [status |-> "Pending", saved |-> FALSE, reserved |-> TRUE]
           /\ y.status = "Deleted" /\ ~y.saved /\ ~y.reserved
              => y = [status |-> "Deleted", saved |-> FALSE, reserved |-> FALSE]
  <1> USE DEF LifeRecords, LiveStatuses, Gone
  <1>1. ASSUME NEW s \in {"Running", "Failed"}, y.status = s, y.saved <=> x.saved,
               y.reserved <=> x.reserved
        PROVE  y = [x EXCEPT !.status = s]
    <2>1. PICK z : z = [x EXCEPT !.status = s]
      OBVIOUS
    <2>2. z \in LifeRecords /\ z.status = s /\ (z.saved <=> x.saved)
          /\ (z.reserved <=> x.reserved)
      BY <2>1
    <2> QED BY <1>1, <2>1, <2>2, SameLife
  <1>2. ASSUME y.status = x.status, y.saved, y.reserved <=> x.reserved
        PROVE  y = [x EXCEPT !.saved = TRUE]
    <2>1. PICK z : z = [x EXCEPT !.saved = TRUE]
      OBVIOUS
    <2>2. z \in LifeRecords /\ z.status = x.status /\ z.saved
          /\ (z.reserved <=> x.reserved)
      BY <2>1
    <2> QED BY <1>2, <2>1, <2>2, SameLife
  <1>3. ASSUME y.status = "Hibernated", y.saved <=> x.saved, ~y.reserved
        PROVE  y = [x EXCEPT !.status = "Hibernated", !.reserved = FALSE]
    <2>1. PICK z : z = [x EXCEPT !.status = "Hibernated", !.reserved = FALSE]
      OBVIOUS
    <2>2. z \in LifeRecords /\ z.status = "Hibernated" /\ (z.saved <=> x.saved)
          /\ ~z.reserved
      BY <2>1
    <2> QED BY <1>3, <2>1, <2>2, SameLife
  <1>4. ASSUME y.status = "Resuming", y.saved <=> x.saved, y.reserved
        PROVE  y = [x EXCEPT !.status = "Resuming", !.reserved = TRUE]
    <2>1. PICK z : z = [x EXCEPT !.status = "Resuming", !.reserved = TRUE]
      OBVIOUS
    <2>2. z \in LifeRecords /\ z.status = "Resuming" /\ (z.saved <=> x.saved)
          /\ z.reserved
      BY <2>1
    <2> QED BY <1>4, <2>1, <2>2, SameLife
  <1>5. ASSUME y.status = "Pending", ~y.saved, y.reserved
        PROVE  y = [status |-> "Pending", saved |-> FALSE, reserved |-> TRUE]
    BY <1>5
  <1>6. ASSUME y.status = "Deleted", ~y.saved, ~y.reserved
        PROVE  y = [status |-> "Deleted", saved |-> FALSE, reserved |-> FALSE]
    BY <1>6
  <1> QED BY <1>1, <1>2, <1>3, <1>4, <1>5, <1>6

\* The first states correspond.
LEMMA InitLives == Init => L!LifeInit
  <1> SUFFICES ASSUME Init PROVE L!LifeInit
    OBVIOUS
  <1>1. RowSound(AbsentRow) /\ ~Saved(AbsentRow)
    BY DEF RowSound, Saved, AbsentRow, BlankRow, Rows, Gone, LiveStatuses, SaveStatuses
  <1>2. Life(AbsentRow) = L!Unborn
    BY <1>1, LifeFields DEF RowSound, AbsentRow, BlankRow, LifeRecords, L!Unborn
  <1> QED BY <1>2 DEF Init, L!LifeInit

\* A row that moves is a step of Lifecycle, or no step at all.
LEMMA MoveLives ==
    ASSUME IInv, NEW c \in Containers, NEW v, SetRow(c, v), LifeMoves(row[c], v)
    PROVE  L!LifeNext \/ Lives' = Lives
  <1>1. Lives' = [Lives EXCEPT ![c] = Life(v)]
    BY DEF SetRow, Lives, IInv, TypeOK
  <1>2. PICK w, x, y : w = row[c] /\ x = Life(w) /\ y = Life(v)
    OBVIOUS
  <1>3. w \in Rows /\ v \in Rows
    BY <1>2 DEF IInv, RowSound, LifeMoves
  <1>4. /\ x \in LifeRecords /\ x.status = w.status
        /\ x.saved <=> Saved(w)
        /\ x.reserved <=> w.reserved
    BY <1>2, <1>3, LifeFields
  <1>5. /\ y \in LifeRecords /\ y.status = v.status
        /\ y.saved <=> Saved(v)
        /\ y.reserved <=> v.reserved
    BY <1>2, <1>3, LifeFields
  <1>6. Lives[c] = x /\ Lives' = [Lives EXCEPT ![c] = y]
    BY <1>1, <1>2 DEF Lives
  <1>7. Lives = [Lives EXCEPT ![c] = x]
    BY <1>6 DEF Lives
  <1>8. L!Alive(c) <=> Exists(w)
    BY <1>4, <1>6 DEF L!Alive, L!Ended, Exists, Gone, Lives
  <1>9. \A new : L!Become(c, new) <=> Lives' = [Lives EXCEPT ![c] = new]
    BY DEF L!Become, Lives
  <1>10. CASE x = y
    BY <1>6, <1>7, <1>10
  <1>11. CASE L!Alive(c) /\ \E s \in {"Running", "Failed"} : y = [x EXCEPT !.status = s]
    BY <1>6, <1>9, <1>11 DEF L!LifeNext, L!Report, Lives
  <1>12. CASE x.status = "Absent"
              /\ y = [status |-> "Pending", saved |-> FALSE, reserved |-> TRUE]
    BY <1>6, <1>9, <1>12 DEF L!LifeNext, L!Create, Lives
  <1>13. CASE L!Alive(c) /\ y = [x EXCEPT !.saved = TRUE]
    BY <1>6, <1>9, <1>13 DEF L!LifeNext, L!Snapshot, Lives
  <1>14. CASE L!Alive(c) /\ x.saved
              /\ y = [x EXCEPT !.status = "Hibernated", !.reserved = FALSE]
    BY <1>6, <1>9, <1>14 DEF L!LifeNext, L!Hibernate, Lives
  <1>15. CASE x.status = "Hibernated"
              /\ y = [x EXCEPT !.status = "Resuming", !.reserved = TRUE]
    BY <1>6, <1>9, <1>15 DEF L!LifeNext, L!Resume, Lives
  <1>16. CASE L!Alive(c)
              /\ y = [status |-> "Deleted", saved |-> FALSE, reserved |-> FALSE]
    BY <1>6, <1>9, <1>16 DEF L!LifeNext, L!Delete, Lives
  <1>17. CASE /\ v.status = w.status \/ (Exists(w) /\ v.status \in {"Running", "Failed"})
              /\ Saved(v) <=> Saved(w)
              /\ v.reserved <=> w.reserved
    <2>1. CASE v.status = w.status
      BY <1>4, <1>5, <1>10, <1>17, <2>1, SameLife
    <2>2. CASE Exists(w) /\ v.status \in {"Running", "Failed"}
      BY <1>4, <1>5, <1>8, <1>11, <1>17, <2>2, NewLives
    <2> QED BY <1>17, <2>1, <2>2
  <1>18. CASE w.status = "Absent" /\ v.status = "Pending" /\ ~Saved(v) /\ v.reserved
    BY <1>4, <1>5, <1>12, <1>18, NewLives
  <1>19. CASE /\ Exists(w) /\ v.status = w.status
              /\ Saved(v) /\ (v.reserved <=> w.reserved)
    BY <1>4, <1>5, <1>8, <1>13, <1>19, NewLives
  <1>20. CASE /\ Exists(w) /\ Saved(w)
              /\ v.status = "Hibernated" /\ Saved(v) /\ ~v.reserved
    BY <1>4, <1>5, <1>8, <1>14, <1>20, NewLives
  <1>21. CASE /\ w.status = "Hibernated" /\ v.status = "Resuming"
              /\ (Saved(v) <=> Saved(w)) /\ v.reserved
    BY <1>4, <1>5, <1>15, <1>21, NewLives
  <1>22. CASE Exists(w) /\ v.status = "Deleted" /\ ~Saved(v) /\ ~v.reserved
    BY <1>4, <1>5, <1>8, <1>16, <1>22, NewLives
  <1> QED BY <1>2, <1>17, <1>18, <1>19, <1>20, <1>21, <1>22 DEF LifeMoves

\* Every step is one of the abstract life, or a stutter.
LEMMA StepLives == IInv /\ [Next]_vars => [L!LifeNext]_Lives
  <1> SUFFICES ASSUME IInv, [Next]_vars PROVE [L!LifeNext]_Lives
    OBVIOUS
  <1>1. CASE UNCHANGED row
    BY <1>1 DEF Lives
  <1>2. CASE \E c \in Containers : \E v : SetRow(c, v) /\ LifeMoves(row[c], v)
    BY <1>2, MoveLives
  <1> QED BY <1>1, <1>2, NextMoves DEF RowsMove

\* Whatever the clients, the faults and the interleaving, every step moves the
\* rows the way Lifecycle allows, or not at all.
THEOREM Refinement == Spec => FollowsLifecycle
  <1>1. Init => L!LifeInit
    BY InitLives
  <1>2. IInv /\ [Next]_vars => [L!LifeNext]_Lives
    BY StepLives
  <1> QED BY <1>1, <1>2, Invariance, PTL DEF Spec, FollowsLifecycle, L!LifeSpec, Lives
=============================================================================
