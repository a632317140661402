-------------------------- MODULE CompensationProofs --------------------------
(***************************************************************************)
(* What the handlers' own compensation is worth when the only client is    *)
(* one tab: reservations and pods, for any number of containers and of     *)
(* operations in flight.                                                   *)
(*                                                                         *)
(* With OneTab at most one operation is engaged in a container.  CInv says *)
(* of a container where its row and its pods must be, given that operation *)
(* and its program counter (OnTrack), or that there is none (Rested).  A   *)
(* promise made while no call has failed or gone unanswered, or while      *)
(* nothing was killed, is stated under that condition, so a fault only     *)
(* ever weakens the invariant; the second failed or unanswered call ends   *)
(* it.                                                                     *)
(*                                                                         *)
(* SpinInv goes beyond one tab, before any fault: whatever operations are    *)
(* started at the same time, each spinner has one that will end it.        *)
(***************************************************************************)
EXTENDS ContainerOpsProofs

\* What the budget b tells of the past.
Unfailed(b) == b.fail = MaxFail /\ b.lost = MaxLost

Unbroken(b) == b.crash = MaxCrash

Spared(b) == b.fail + b.lost + 1 >= MaxFail + MaxLost

Active == {"Pending", "Running", "Resuming"}

\* The statuses of a container that was created or resumed.
Made == {"Pending", "Running", "Failed"}

\* The row w and the n pods of a container at any time: what is active, or
\* could be reported Running, is reserved.
Backed(w, n, b) ==
    /\ w.status \in Active => w.reserved
    /\ n > 0 /\ w.status \in Monitored => w.reserved
    /\ w.status = "Absent" => n = 0
    /\ Unfailed(b) /\ w.status = "Hibernated" => n = 0

\* No operation is engaged in the container, or one that has changed nothing.
Rested(w, n, b) ==
    Unbroken(b) /\ Unfailed(b) =>
        /\ w.status # "Resuming"
        /\ n = IF w.status \in Made THEN 1 ELSE 0
        /\ n > 0 => w.kid

CreateOn(pc, w, n, b) ==
    /\ pc \in {"own", "launch"} => w.status = "Pending" /\ n = 0
    /\ pc \in {"launched", "record"} => w.status \in Made /\ n = 1
    /\ pc \in {"undo", "ui_undo"} =>
          ~Unfailed(b) /\ w.status \in Made \cup {"Deleted"}
    /\ pc \in {"ui_drop_pod", "ui_drop_row"} => ~Unfailed(b) /\ w.status \in Made

DeleteOn(pc, kid, w, n, b) ==
    /\ pc = "drop_row" =>
          /\ w.status \in {"Running", "Failed", "Hibernated"}
          /\ Rested(w, n, b)
          /\ Unfailed(b) /\ Unbroken(b) /\ n > 0 => kid
    /\ pc = "drop_pod" =>
          /\ w.status \in {"Running", "Failed", "Hibernated", "Deleted"}
          /\ Unfailed(b) => w.status = "Deleted"

HibernateOn(pc, w, n, b) ==
    /\ w.status \in {"Running", "Failed"}
    /\ IF pc = "release" THEN n = 0 ELSE Rested(w, n, b)

ResumeOn(pc, w, n, b) ==
    /\ pc \in {"own", "claim"} => w.status = "Hibernated" /\ Rested(w, n, b)
    /\ pc = "mark_failed" => ~Unfailed(b) /\ w.status = "Hibernated" /\ n = 0
    /\ pc \in {"stamp", "launch", "launched", "record", "rollback"} =>
          w.status \in {"Resuming", "Running", "Failed"} /\ w.reserved
    /\ pc \in {"stamp", "launch"} /\ Unfailed(b) => n = 0
    /\ pc \in {"launched", "record"} /\ Unfailed(b) => n = 1
    /\ pc = "rollback" => ~Unfailed(b)

\* Where an operation at pc must find the row w and the n pods of its container.
OnTrack(op, pc, kid, w, n, b) ==
    /\ op = "create" => CreateOn(pc, w, n, b)
    /\ op = "delete" => DeleteOn(pc, kid, w, n, b)
    /\ op = "save" => Rested(w, n, b)
    /\ op = "hibernate" => HibernateOn(pc, w, n, b)
    /\ op = "resume" => ResumeOn(pc, w, n, b)

\* Engaged, of a request.
Works(q, c) == q.c = c /\ ~(q.op = "save" /\ q.pc \in Background)

BudgetBounded ==
    budget.fail =< MaxFail /\ budget.lost =< MaxLost /\ budget.crash =< MaxCrash

Alone ==
    \A c \in Containers, r, s \in Slots :
        Works(req[r], c) /\ Works(req[s], c) => r = s

Tidy ==
    /\ \A c \in Containers :
          /\ Backed(row[c], pods[c], budget)
          /\ (\A r \in Slots : ~Works(req[r], c)) => Rested(row[c], pods[c], budget)
    /\ \A r \in Slots, c \in Containers :
          Works(req[r], c) =>
              OnTrack(req[r].op, req[r].pc, req[r].kid, row[c], pods[c], budget)

CInv == BudgetBounded /\ Alone /\ (Spared(budget) => Tidy)

-----------------------------------------------------------------------------
(* Budgets.                                                                *)

\* The budget may fall from b to a.
Later(b, a) ==
    /\ Unfailed(a) => Unfailed(b)
    /\ Unbroken(a) => Unbroken(b)
    /\ Spared(a) => Spared(b)

\* A fault takes from the budget: the first call without an answer is the last
\* one that spares the container, and a kill shows.
LEMMA BudgetFalls ==
    ASSUME IInv, CInv, Fail \/ Lost \/ Broken \/ UNCHANGED budget
    PROVE  /\ BudgetBounded' /\ Later(budget, budget')
           /\ Raises /\ Spared(budget') => Unfailed(budget) /\ ~Unfailed(budget')
           /\ Broken => ~Unbroken(budget')
  <1>1. /\ budget.fail \in Nat /\ budget.lost \in Nat /\ budget.crash \in Nat
        /\ budget \in [fail : Nat, lost : Nat, crash : Nat]
    BY DEF IInv, TypeOK
  <1>2. MaxFail \in Nat /\ MaxLost \in Nat /\ MaxCrash \in Nat
    BY BoundsAssumption
  <1>3. BudgetBounded
    BY DEF CInv
  <1>4. CASE Fail
    <2>1. /\ budget'.fail = budget.fail - 1 /\ budget'.lost = budget.lost
          /\ budget'.crash = budget.crash
      BY <1>1, <1>4 DEF Fail
    <2>2. ~Broken
      BY <1>1, <2>1 DEF Broken
    <2>3. budget.fail > 0
      BY <1>4 DEF Fail
    <2>4. BudgetBounded'
      BY <1>1, <1>2, <1>3, <2>1 DEF BudgetBounded
    <2>5. Later(budget, budget')
      BY <1>1, <1>2, <1>3, <2>1, <2>3
         DEF BudgetBounded, Later, Unfailed, Unbroken, Spared
    <2>6. Spared(budget') => Unfailed(budget) /\ ~Unfailed(budget')
      <3>1. Spared(budget') => budget.fail = MaxFail /\ budget.lost = MaxLost
        BY <1>1, <1>2, <1>3, <2>1 DEF BudgetBounded, Spared
      <3>2. ~Unfailed(budget')
        BY <1>1, <1>2, <1>3, <2>1 DEF BudgetBounded, Unfailed
      <3> QED BY <3>1, <3>2 DEF Unfailed
    <2> QED BY <2>2, <2>4, <2>5, <2>6
  <1>5. CASE Lost
    <2>1. /\ budget'.fail = budget.fail /\ budget'.lost = budget.lost - 1
          /\ budget'.crash = budget.crash
      BY <1>1, <1>5 DEF Lost
    <2>2. ~Broken
      BY <1>1, <2>1 DEF Broken
    <2>3. budget.lost > 0
      BY <1>5 DEF Lost
    <2>4. BudgetBounded'
      BY <1>1, <1>2, <1>3, <2>1 DEF BudgetBounded
    <2>5. Later(budget, budget')
      BY <1>1, <1>2, <1>3, <2>1, <2>3
         DEF BudgetBounded, Later, Unfailed, Unbroken, Spared
    <2>6. Spared(budget') => Unfailed(budget) /\ ~Unfailed(budget')
      <3>1. Spared(budget') => budget.fail = MaxFail /\ budget.lost = MaxLost
        BY <1>1, <1>2, <1>3, <2>1 DEF BudgetBounded, Spared
      <3>2. ~Unfailed(budget')
        BY <1>1, <1>2, <1>3, <2>1 DEF BudgetBounded, Unfailed
      <3> QED BY <3>1, <3>2 DEF Unfailed
    <2> QED BY <2>2, <2>4, <2>5, <2>6
  <1>6. CASE Broken
    <2>1. /\ budget'.fail = budget.fail /\ budget'.lost = budget.lost
          /\ budget'.crash = budget.crash - 1
      BY <1>1, <1>6 DEF Broken
    <2> QED BY <1>1, <1>2, <1>3, <1>6, <2>1
         DEF BudgetBounded, Later, Unfailed, Unbroken, Spared, Raises, Fail, Lost, Broken
  <1>7. CASE UNCHANGED budget
    <2>1. ~Fail /\ ~Lost /\ ~Broken
      BY <1>1, <1>7 DEF Fail, Lost, Broken
    <2> QED BY <1>3, <1>7, <2>1 DEF BudgetBounded, Later, Raises
  <1> QED BY <1>4, <1>5, <1>6, <1>7

\* A fault weakens what is promised and nothing else.
LEMMA Weakens ==
    ASSUME NEW w, NEW n, NEW b, NEW a, Later(b, a)
    PROVE  /\ Backed(w, n, b) => Backed(w, n, a)
           /\ Rested(w, n, b) => Rested(w, n, a)
           /\ \A op, pc, kid : OnTrack(op, pc, kid, w, n, b) => OnTrack(op, pc, kid, w, n, a)
  <1>1. /\ Backed(w, n, b) => Backed(w, n, a)
        /\ Rested(w, n, b) => Rested(w, n, a)
    BY DEF Later, Backed, Rested
  <1>2. ASSUME NEW op, NEW pc, NEW kid, OnTrack(op, pc, kid, w, n, b)
        PROVE  OnTrack(op, pc, kid, w, n, a)
    <2>1. op = "create" => CreateOn(pc, w, n, a)
      BY <1>2 DEF OnTrack, CreateOn, Later
    <2>2. op = "delete" => DeleteOn(pc, kid, w, n, a)
      BY <1>1, <1>2 DEF OnTrack, DeleteOn, Later
    <2>3. op = "hibernate" => HibernateOn(pc, w, n, a)
      BY <1>1, <1>2 DEF OnTrack, HibernateOn
    <2>4. op = "resume" => ResumeOn(pc, w, n, a)
      BY <1>1, <1>2 DEF OnTrack, ResumeOn, Later
    <2> QED BY <1>1, <1>2, <2>1, <2>2, <2>3, <2>4 DEF OnTrack
  <1> QED BY <1>1, <1>2

-----------------------------------------------------------------------------
(* Steps, by what they change.                                             *)

\* Nothing is engaged in a container but the request it knows of.
LEMMA Idler == \A c \in Containers : ~Works(Idle, c)
  BY NoneAssumption DEF Works, Idle

\* The slot r, the only one that is or may be engaged in c, goes on to the
\* request q, and c to the row v and m pods.
LEMMA TabMoves ==
    ASSUME IInv, CInv, NEW r \in Slots, NEW c \in Containers, NEW v, NEW m, NEW q,
           \A s \in Slots : s # r => ~Works(req[s], c),
           \A d \in Containers : d # c => ~Works(req[r], d),
           q = Idle \/ q.c = c,
           row' = [row EXCEPT ![c] = v], pods' = [pods EXCEPT ![c] = m],
           req' = [req EXCEPT ![r] = q],
           BudgetBounded', Later(budget, budget'),
           Spared(budget') =>
               /\ Backed(v, m, budget')
               /\ Works(q, c) => OnTrack(q.op, q.pc, q.kid, v, m, budget')
               /\ ~Works(q, c) => Rested(v, m, budget')
    PROVE  CInv'
  <1>1. /\ row \in [Containers -> Rows] /\ pods \in [Containers -> Nat]
        /\ req \in [Slots -> Requests]
    BY DEF IInv, TypeOK
  <1>2. \A d \in Containers : d # c => ~Works(q, d)
    BY Idler DEF Works
  <1>3. /\ req'[r] = q /\ \A s \in Slots : s # r => req'[s] = req[s]
        /\ row'[c] = v /\ \A d \in Containers : d # c => row'[d] = row[d]
        /\ pods'[c] = m /\ \A d \in Containers : d # c => pods'[d] = pods[d]
    BY <1>1
  <1>4. Alone'
    <2> SUFFICES ASSUME NEW d \in Containers, NEW s \in Slots, NEW t \in Slots,
                        Works(req'[s], d), Works(req'[t], d)
                 PROVE  s = t
      BY DEF Alone, Works
    <2>1. Alone
      BY DEF CInv
    <2> QED BY <1>2, <1>3, <2>1 DEF Alone
  <1>5. ASSUME Spared(budget')
        PROVE  Tidy'
    <2>1. Tidy
      BY <1>5 DEF CInv, Later
    <2>2. ASSUME NEW d \in Containers
          PROVE  Backed(row'[d], pods'[d], budget')
      <3>1. CASE d = c
        BY <1>3, <1>5, <3>1
      <3>2. CASE d # c
        BY <1>3, <2>1, <3>2, Weakens DEF Tidy
      <3> QED BY <3>1, <3>2
    <2>3. ASSUME NEW d \in Containers, \A s \in Slots : ~Works(req'[s], d)
          PROVE  Rested(row'[d], pods'[d], budget')
      <3>1. CASE d = c
        BY <1>3, <1>5, <2>3, <3>1
      <3>2. CASE d # c
        <4>1. \A s \in Slots : ~Works(req[s], d)
          BY <1>3, <2>3, <3>2
        <4>2. Rested(row[d], pods[d], budget)
          BY <2>1, <4>1 DEF Tidy
        <4> QED BY <1>3, <3>2, <4>2, Weakens
      <3> QED BY <3>1, <3>2
    <2>4. ASSUME NEW s \in Slots, NEW d \in Containers, Works(req'[s], d)
          PROVE  OnTrack(req'[s].op, req'[s].pc, req'[s].kid, row'[d], pods'[d], budget')
      <3>1. CASE d = c
        <4>1. s = r
          BY <1>3, <2>4, <3>1
        <4> QED BY <1>3, <1>5, <2>4, <3>1, <4>1
      <3>2. CASE d # c
        <4>1. s # r
          BY <1>2, <1>3, <2>4, <3>2
        <4>2. OnTrack(req[s].op, req[s].pc, req[s].kid, row[d], pods[d], budget)
          BY <1>3, <2>1, <2>4, <4>1 DEF Tidy
        <4> QED BY <1>3, <3>2, <4>1, <4>2, Weakens
      <3> QED BY <3>1, <3>2
    <2> QED BY <2>2, <2>3, <2>4 DEF Tidy, Works
  <1> QED BY <1>4, <1>5 DEF CInv, Spared

\* What a step leaves alone it sets to what it was.
LEMMA LeftAlone ==
    ASSUME IInv, NEW c
    PROVE  /\ UNCHANGED row => SetRow(c, row[c])
           /\ UNCHANGED pods => SetPods(c, pods[c])
  BY DEF IInv, TypeOK, SetRow, SetPods

\* TabMoves for the steps of an operation: what each must show of its row, its
\* pods and its next program counter.
LEMMA TabGoes ==
    ASSUME IInv, CInv, NEW r \in Slots, NEW pc \in Pcs, NEW v, NEW m,
           req[r].pc # "idle", req[r].op = "save" => req[r].pc \notin Background,
           SetRow(req[r].c, v), SetPods(req[r].c, m),
           Goto(r, pc),
           Fail \/ Lost \/ UNCHANGED budget,
           Spared(budget') =>
               /\ Backed(v, m, budget')
               /\ IF pc = "idle" \/ (req[r].op = "save" /\ pc \in Background)
                  THEN Rested(v, m, budget')
                  ELSE OnTrack(req[r].op, pc, req[r].kid, v, m, budget')
    PROVE  CInv'
  <1> DEFINE c == req[r].c
             q == IF pc = "idle" THEN Idle ELSE [req[r] EXCEPT !.pc = pc]
  <1>1. c \in Containers /\ req[r] \in Requests /\ Works(req[r], c)
    BY BusySlot DEF Works
  <1>2. \A s \in Slots : s # r => ~Works(req[s], c)
    BY <1>1 DEF CInv, Alone
  <1>3. \A d \in Containers : d # c => ~Works(req[r], d)
    BY DEF Works
  <1>4. /\ row' = [row EXCEPT ![c] = v] /\ pods' = [pods EXCEPT ![c] = m]
        /\ req' = [req EXCEPT ![r] = q]
    BY <1>1 DEF SetRow, SetPods, Goto, IInv, TypeOK
  <1>5. BudgetBounded' /\ Later(budget, budget')
    BY BudgetFalls
  <1>6. CASE pc = "idle"
    <2>1. q = Idle /\ ~Works(q, c)
      BY <1>1, <1>6, Idler
    <2> HIDE DEF c, q
    <2> QED BY <1>1, <1>2, <1>3, <1>4, <1>5, <1>6, <2>1, TabMoves
  <1>7. CASE pc # "idle"
    <2>1. q.op = req[r].op /\ q.pc = pc /\ q.kid = req[r].kid /\ q.c = c
      BY <1>1, <1>7 DEF Requests
    <2>2. Works(q, c) <=> ~(req[r].op = "save" /\ pc \in Background)
      BY <2>1 DEF Works
    <2> HIDE DEF c, q
    <2> QED BY <1>1, <1>2, <1>3, <1>4, <1>5, <1>7, <2>1, <2>2, TabMoves
  <1> QED BY <1>6, <1>7

\* TabGoes for the last step of an operation.
LEMMA TabEnds ==
    ASSUME IInv, CInv, NEW r \in Slots, NEW v, NEW m,
           req[r].pc # "idle", req[r].op = "save" => req[r].pc \notin Background,
           SetRow(req[r].c, v), SetPods(req[r].c, m),
           Goto(r, "idle"),
           Fail \/ Lost \/ UNCHANGED budget,
           Spared(budget') => Backed(v, m, budget') /\ Rested(v, m, budget')
    PROVE  CInv'
  <1>1. "idle" \in Pcs
    BY DEF Pcs
  <1> QED BY <1>1, TabGoes

\* TabGoes for the other steps of an operation other than a save.
LEMMA TabGoesOn ==
    ASSUME IInv, CInv, NEW r \in Slots, NEW pc \in Pcs \ {"idle"}, NEW v, NEW m,
           req[r].pc # "idle", req[r].op # "save",
           SetRow(req[r].c, v), SetPods(req[r].c, m),
           Goto(r, pc),
           Fail \/ Lost \/ UNCHANGED budget,
           Spared(budget') =>
               /\ Backed(v, m, budget')
               /\ OnTrack(req[r].op, pc, req[r].kid, v, m, budget')
    PROVE  CInv'
  BY TabGoes

\* What is known of a container whose operation is about to take a step.
LEMMA Found ==
    ASSUME IInv, CInv, Spared(budget'), Fail \/ Lost \/ UNCHANGED budget,
           NEW r \in Slots, req[r].pc # "idle",
           req[r].op = "save" => req[r].pc \notin Background
    PROVE  /\ row[req[r].c] \in Rows /\ pods[req[r].c] \in Nat
           /\ req[r].kid \in BOOLEAN
           /\ Backed(row[req[r].c], pods[req[r].c], budget')
           /\ OnTrack(req[r].op, req[r].pc, req[r].kid, row[req[r].c],
                      pods[req[r].c], budget')
           /\ Unfailed(budget') => Unfailed(budget)
           /\ Raises => ~Unfailed(budget') /\ Unfailed(budget)
           /\ Backed(row[req[r].c], pods[req[r].c], budget)
           /\ OnTrack(req[r].op, req[r].pc, req[r].kid, row[req[r].c],
                      pods[req[r].c], budget)
  <1>1. /\ req[r].c \in Containers /\ req[r] \in Requests
        /\ Works(req[r], req[r].c)
    BY BusySlot DEF Works
  <1>2. /\ row[req[r].c] \in Rows /\ pods[req[r].c] \in Nat
        /\ req[r].kid \in BOOLEAN
    BY <1>1 DEF IInv, TypeOK, Requests
  <1>3. /\ Later(budget, budget')
        /\ Raises => ~Unfailed(budget') /\ Unfailed(budget)
    BY BudgetFalls
  <1>4. Tidy
    BY <1>3 DEF CInv, Later
  <1>5. /\ Backed(row[req[r].c], pods[req[r].c], budget)
        /\ OnTrack(req[r].op, req[r].pc, req[r].kid, row[req[r].c],
                   pods[req[r].c], budget)
    BY <1>1, <1>4 DEF Tidy
  <1>6. /\ Backed(row[req[r].c], pods[req[r].c], budget')
        /\ OnTrack(req[r].op, req[r].pc, req[r].kid, row[req[r].c],
                   pods[req[r].c], budget')
    BY <1>3, <1>5, Weakens
  <1> QED BY <1>1, <1>2, <1>3, <1>5, <1>6 DEF Later

\* What the endpoints leave in the fields that CInv speaks of.
LEMMA RowEffects ==
    ASSUME NEW w \in Rows
    PROVE  /\ Removed(w).status = IF Exists(w) THEN "Deleted" ELSE w.status
           /\ /\ WithPod(w).status = w.status /\ WithPod(w).reserved = w.reserved
              /\ Exists(w) => WithPod(w).kid
           /\ Exists(w) =>
                /\ Hibernated(w).status = "Hibernated"
                /\ \A s : /\ WithStatus(w, s).status = s
                          /\ WithStatus(w, s).reserved = w.reserved
                          /\ WithStatus(w, s).kid = w.kid
                          /\ WithStatus(WithPod(w), s).status = s
                          /\ WithStatus(WithPod(w), s).reserved = w.reserved
                          /\ WithStatus(WithPod(w), s).kid
           /\ Claimed(w).status = "Resuming" /\ Claimed(w).reserved
           /\ \A s : /\ WithSave(w, s).status = w.status
                     /\ WithSave(w, s).reserved = w.reserved
                     /\ WithSave(w, s).kid = w.kid
           /\ WithSnapshot(w).status = w.status
           /\ WithSnapshot(w).reserved = w.reserved
           /\ WithSnapshot(w).kid = w.kid
  <1> USE DEF Rows, Exists, Updated
  <1>1. Removed(w).status = IF Exists(w) THEN "Deleted" ELSE w.status
    BY DEF Removed, BlankRow
  <1>2. /\ WithPod(w).status = w.status /\ WithPod(w).reserved = w.reserved
        /\ Exists(w) => WithPod(w).kid
        /\ WithPod(w) \in Rows
    BY DEF WithPod
  <1>3. Exists(w) => Hibernated(w).status = "Hibernated"
    BY DEF Hibernated
  <1>4. ASSUME NEW x \in Rows, Exists(x), NEW s
        PROVE  /\ WithStatus(x, s).status = s
               /\ WithStatus(x, s).reserved = x.reserved
               /\ WithStatus(x, s).kid = x.kid
    BY <1>4 DEF WithStatus
  <1>5. Exists(w) => Exists(WithPod(w))
    BY <1>2
  <1>6. Claimed(w).status = "Resuming" /\ Claimed(w).reserved
    BY DEF Claimed
  <1>7. \A s : /\ WithSave(w, s).status = w.status
               /\ WithSave(w, s).reserved = w.reserved
               /\ WithSave(w, s).kid = w.kid
    BY DEF WithSave
  <1>8. /\ WithSnapshot(w).status = w.status
        /\ WithSnapshot(w).reserved = w.reserved
        /\ WithSnapshot(w).kid = w.kid
    BY DEF WithSnapshot
  <1> HIDE DEF Exists, Updated, Rows
  <1> QED BY <1>1, <1>2, <1>3, <1>4, <1>5, <1>6, <1>7, <1>8

-----------------------------------------------------------------------------
(* Every step of an operation.                                             *)

\* A create: the form goes on with the row and the pod it has made, or undoes
\* them.
LEMMA CreateTidy ==
    ASSUME IInv, CInv, NEW r \in Slots, CreateStep(r)
    PROVE  CInv'
  <1>1. req[r].op = "create" /\ req[r].pc # "idle"
    BY DEF CreateStep, At, CreateOwn, CreateLaunch, CreateLaunched, CreateUndo,
           CreateUiUndo, CreateRecord, CreateUiDropPod, CreateUiDropRow
  <1> DEFINE w == row[req[r].c]
             n == pods[req[r].c]
             b == budget'
  <1>2. ASSUME Spared(b), Fail \/ Lost \/ UNCHANGED budget
        PROVE  /\ w \in Rows /\ n \in Nat
               /\ Backed(w, n, b) /\ CreateOn(req[r].pc, w, n, b)
               /\ CreateOn(req[r].pc, w, n, budget)
               /\ Unfailed(b) => Unfailed(budget)
               /\ Fail \/ Lost => ~Unfailed(b) /\ Unfailed(budget)
    BY <1>1, <1>2, Found DEF OnTrack, Raises
  <1>3. \A pc, v, m :
            OnTrack("create", pc, req[r].kid, v, m, b) <=> CreateOn(pc, v, m, b)
    BY DEF OnTrack
  <1>4. \A pc \in {"idle", "launch", "ui_undo", "launched", "undo", "record",
                   "ui_drop_pod", "ui_drop_row"} : pc \in Pcs
    BY DEF Pcs
  <1>0. /\ UNCHANGED row => SetRow(req[r].c, w)
        /\ UNCHANGED pods => SetPods(req[r].c, n)
    BY LeftAlone
  <1>5. CASE CreateOwn(r)
    <2>1. /\ req[r].pc = "own" /\ UNCHANGED <<row, pods>>
          /\ \/ Goto(r, IF Exists(w) THEN "launch" ELSE "ui_undo") /\ UNCHANGED budget
             \/ Goto(r, "ui_undo") /\ (Fail \/ Lost)
             \/ Goto(r, "idle") /\ (Fail \/ Lost)
      BY <1>5 DEF CreateOwn, At, Read, SentToLogin, Raises
    <2>2. CASE Goto(r, IF Exists(w) THEN "launch" ELSE "ui_undo") /\ UNCHANGED budget
      <3> DEFINE pc == IF Exists(w) THEN "launch" ELSE "ui_undo"
      <3>1. pc \in Pcs /\ pc # "idle" /\ Goto(r, pc)
        BY <1>4, <2>2
      <3>2. ASSUME Spared(b)
            PROVE  Backed(w, n, b) /\ CreateOn(pc, w, n, b)
        BY <1>2, <2>1, <2>2, <3>2 DEF CreateOn, Exists, Gone, Made
      <3> HIDE DEF pc
      <3> QED BY <1>0, <1>1, <1>3, <2>1, <2>2, <3>1, <3>2, TabGoes
    <2>3. CASE Goto(r, "ui_undo") /\ (Fail \/ Lost)
      <3>1. ASSUME Spared(b)
            PROVE  Backed(w, n, b) /\ CreateOn("ui_undo", w, n, b)
        BY <1>2, <2>1, <2>3, <3>1 DEF CreateOn, Made
      <3> QED BY <1>0, <1>1, <1>3, <1>4, <2>1, <2>3, <3>1, TabGoesOn
    <2>4. CASE Goto(r, "idle") /\ (Fail \/ Lost)
      <3>1. ASSUME Spared(b)
            PROVE  Backed(w, n, b) /\ Rested(w, n, b)
        BY <1>2, <2>1, <2>4, <3>1 DEF Rested
      <3> QED BY <1>0, <1>1, <2>1, <2>4, <3>1, TabEnds
    <2> QED BY <2>1, <2>2, <2>3, <2>4
  <1>6. CASE CreateLaunch(r)
    <2>1. req[r].pc = "launch" /\ UNCHANGED row
      BY <1>6 DEF CreateLaunch, At, PodStarts, PodRefused
    <2>2. CASE PodStarts(r)
      <3>1. ASSUME Spared(b)
            PROVE  Backed(w, n + 1, b) /\ CreateOn("launched", w, n + 1, b)
        BY <1>2, <2>1, <2>2, <3>1
           DEF CreateOn, PodStarts, Backed, Made, Active, Monitored
      <3>2. SetPods(req[r].c, n + 1) /\ Goto(r, "launched") /\ UNCHANGED budget
        BY <2>2 DEF PodStarts
      <3> QED BY <1>0, <1>1, <1>3, <1>4, <2>1, <3>1, <3>2, TabGoesOn
    <2>3. CASE PodRefused(r, "undo")
      <3>1. UNCHANGED pods /\ Goto(r, "undo") /\ Fail
        BY <2>3 DEF PodRefused
      <3>2. ASSUME Spared(b)
            PROVE  Backed(w, n, b) /\ CreateOn("undo", w, n, b)
        BY <1>2, <2>1, <3>1, <3>2 DEF CreateOn, Made
      <3> QED BY <1>0, <1>1, <1>3, <1>4, <2>1, <3>1, <3>2, TabGoesOn
    <2> QED BY <1>6, <2>2, <2>3 DEF CreateLaunch
  <1>7. CASE CreateLaunched(r)
    <2>1. /\ req[r].pc = "launched" /\ UNCHANGED <<row, pods>>
          /\ \/ Goto(r, "record") /\ UNCHANGED budget
             \/ Goto(r, "undo") /\ Lost
      BY <1>7 DEF CreateLaunched, At, PodAnswer
    <2>2. CASE Goto(r, "record") /\ UNCHANGED budget
      <3>1. ASSUME Spared(b)
            PROVE  Backed(w, n, b) /\ CreateOn("record", w, n, b)
        BY <1>2, <2>1, <2>2, <3>1 DEF CreateOn
      <3> QED BY <1>0, <1>1, <1>3, <1>4, <2>1, <2>2, <3>1, TabGoesOn
    <2>3. CASE Goto(r, "undo") /\ Lost
      <3>1. ASSUME Spared(b)
            PROVE  Backed(w, n, b) /\ CreateOn("undo", w, n, b)
        BY <1>2, <2>1, <2>3, <3>1 DEF CreateOn
      <3> QED BY <1>0, <1>1, <1>3, <1>4, <2>1, <2>3, <3>1, TabGoesOn
    <2> QED BY <2>1, <2>2, <2>3
  <1>8. ASSUME NEW next \in {"idle", "ui_undo"},
               req[r].pc \in {"undo", "ui_undo"}, req[r].pc = "ui_undo" => next = "idle",
               BestEffort(r, Removed(w), next), UNCHANGED pods
        PROVE  CInv'
    <2> DEFINE v == Removed(w)
    <2>1. CASE SetRow(req[r].c, v) /\ Goto(r, next) /\ UNCHANGED budget
      <3>1. ASSUME Spared(b)
            PROVE  /\ Backed(v, n, b) /\ Rested(v, n, b)
                   /\ next = "ui_undo" => CreateOn(next, v, n, b)
        <4>1. v.status = "Deleted" /\ ~Unfailed(b)
          BY <1>2, <1>8, <2>1, <3>1, RowEffects DEF CreateOn, Exists, Gone, Made
        <4> HIDE DEF v
        <4> QED BY <4>1 DEF Backed, Rested, CreateOn, Active, Monitored
      <3> HIDE DEF v
      <3>2. CASE next = "idle"
        BY <1>0, <1>1, <1>8, <2>1, <3>1, <3>2, TabEnds
      <3>3. CASE next = "ui_undo"
        BY <1>0, <1>1, <1>3, <1>4, <1>8, <2>1, <3>1, <3>3, TabGoesOn
      <3> QED BY <3>2, <3>3
    <2>2. CASE UNCHANGED row /\ Goto(r, next) /\ Fail
      <3>1. ~Spared(b)
        BY <1>2, <1>8, <2>2 DEF CreateOn
      <3> QED BY <1>0, <1>1, <1>4, <1>8, <2>2, <3>1, TabGoes
    <2> QED BY <1>8, <2>1, <2>2 DEF BestEffort
  <1>9. CASE CreateUndo(r)
    BY <1>8, <1>9 DEF CreateUndo, At
  <1>10. CASE CreateUiUndo(r)
    BY <1>8, <1>10 DEF CreateUiUndo, At
  <1>11. CASE CreateRecord(r)
    <2> DEFINE v == WithPod(w)
    <2>1. /\ req[r].pc = "record" /\ UNCHANGED pods
          /\ \/ SetRow(req[r].c, v) /\ Goto(r, "idle") /\ UNCHANGED budget
             \/ SetRow(req[r].c, v) /\ Goto(r, "ui_drop_pod") /\ Lost
             \/ UNCHANGED row /\ Goto(r, "ui_drop_pod") /\ Fail
             \/ UNCHANGED row /\ Goto(r, "idle") /\ (Fail \/ Lost)
      BY <1>11 DEF CreateRecord, At, Write, SentToLogin, Raises
    <2>2. CASE SetRow(req[r].c, v) /\ Goto(r, "idle") /\ UNCHANGED budget
      <3>1. ASSUME Spared(b)
            PROVE  Backed(v, n, b) /\ Rested(v, n, b)
        <4>1. /\ w.status \in Made /\ n = 1 /\ v.status = w.status
              /\ v.reserved = w.reserved /\ v.kid
          BY <1>2, <2>1, <2>2, <3>1, RowEffects DEF CreateOn, Exists, Gone, Made
        <4> HIDE DEF v
        <4> QED BY <1>2, <2>2, <3>1, <4>1 DEF Backed, Rested, Made
      <3> HIDE DEF v
      <3> QED BY <1>0, <1>1, <2>1, <2>2, <3>1, TabEnds
    <2>3. CASE SetRow(req[r].c, v) /\ Goto(r, "ui_drop_pod") /\ Lost
      <3>1. ASSUME Spared(b)
            PROVE  Backed(v, n, b) /\ CreateOn("ui_drop_pod", v, n, b)
        <4>1. /\ w.status \in Made /\ ~Unfailed(b) /\ v.status = w.status
              /\ v.reserved = w.reserved
          BY <1>2, <2>1, <2>3, <3>1, RowEffects DEF CreateOn
        <4> HIDE DEF v
        <4> QED BY <1>2, <2>3, <3>1, <4>1 DEF Backed, CreateOn
      <3> HIDE DEF v
      <3> QED BY <1>0, <1>1, <1>3, <1>4, <2>1, <2>3, <3>1, TabGoesOn
    <2>4. CASE UNCHANGED row /\ Goto(r, "ui_drop_pod") /\ Fail
      <3>1. ASSUME Spared(b)
            PROVE  Backed(w, n, b) /\ CreateOn("ui_drop_pod", w, n, b)
        BY <1>2, <2>1, <2>4, <3>1 DEF CreateOn
      <3> QED BY <1>0, <1>1, <1>3, <1>4, <2>1, <2>4, <3>1, TabGoesOn
    <2>5. CASE UNCHANGED row /\ Goto(r, "idle") /\ (Fail \/ Lost)
      <3>1. ASSUME Spared(b)
            PROVE  Backed(w, n, b) /\ Rested(w, n, b)
        BY <1>2, <2>1, <2>5, <3>1 DEF Rested
      <3> QED BY <1>0, <1>1, <2>1, <2>5, <3>1, TabEnds
    <2> QED BY <2>1, <2>2, <2>3, <2>4, <2>5
  <1>12. CASE CreateUiDropPod(r)
    <2>1. /\ req[r].pc = "ui_drop_pod" /\ UNCHANGED row /\ Goto(r, "ui_drop_row")
          /\ \/ SetPods(req[r].c, 0) /\ UNCHANGED budget
             \/ UNCHANGED pods /\ Fail
      BY <1>12 DEF CreateUiDropPod, At
    <2>2. CASE SetPods(req[r].c, 0) /\ UNCHANGED budget
      <3>1. ASSUME Spared(b)
            PROVE  Backed(w, 0, b) /\ CreateOn("ui_drop_row", w, 0, b)
        BY <1>2, <2>1, <2>2, <3>1 DEF CreateOn, Backed
      <3> QED BY <1>0, <1>1, <1>3, <1>4, <2>1, <2>2, <3>1, TabGoesOn
    <2>3. CASE UNCHANGED pods /\ Fail
      <3>1. ~Spared(b)
        BY <1>2, <2>1, <2>3 DEF CreateOn
      <3> QED BY <1>0, <1>1, <1>4, <2>1, <2>3, <3>1, TabGoesOn
    <2> QED BY <2>1, <2>2, <2>3
  <1>13. CASE CreateUiDropRow(r)
    <2> DEFINE v == Removed(w)
    <2>1. /\ req[r].pc = "ui_drop_row" /\ UNCHANGED pods /\ Goto(r, "idle")
          /\ \/ SetRow(req[r].c, v) /\ UNCHANGED budget
             \/ UNCHANGED row /\ Fail
      BY <1>13 DEF CreateUiDropRow, At, BestEffort
    <2>2. CASE SetRow(req[r].c, v) /\ UNCHANGED budget
      <3>1. ASSUME Spared(b)
            PROVE  Backed(v, n, b) /\ Rested(v, n, b)
        <4>1. v.status = "Deleted" /\ ~Unfailed(b)
          BY <1>2, <2>1, <2>2, <3>1, RowEffects DEF CreateOn, Exists, Gone, Made
        <4> HIDE DEF v
        <4> QED BY <4>1 DEF Backed, Rested, Active, Monitored
      <3> HIDE DEF v
      <3> QED BY <1>0, <1>1, <2>1, <2>2, <3>1, TabEnds
    <2>3. CASE UNCHANGED row /\ Fail
      <3>1. ~Spared(b)
        BY <1>2, <2>1, <2>3 DEF CreateOn
      <3> QED BY <1>0, <1>1, <2>1, <2>3, <3>1, TabEnds
    <2> QED BY <2>1, <2>2, <2>3
  <1> QED
    BY <1>5, <1>6, <1>7, <1>9, <1>10, <1>11, <1>12, <1>13 DEF CreateStep

\* A delete: the row goes first and, if the list knew of a pod, the pod next.
LEMMA DeleteTidy ==
    ASSUME IInv, CInv, NEW r \in Slots, DeleteStep(r)
    PROVE  CInv'
  <1>1. req[r].op = "delete" /\ req[r].pc # "idle"
    BY DEF DeleteStep, At, DeleteRow, DeletePod
  <1> DEFINE w == row[req[r].c]
             n == pods[req[r].c]
             b == budget'
  <1>2. ASSUME Spared(b), Fail \/ Lost \/ UNCHANGED budget
        PROVE  /\ w \in Rows /\ n \in Nat /\ req[r].kid \in BOOLEAN
               /\ Backed(w, n, b) /\ DeleteOn(req[r].pc, req[r].kid, w, n, b)
               /\ Fail \/ Lost => ~Unfailed(b)
    BY <1>1, <1>2, Found DEF OnTrack, Raises
  <1>3. \A pc, v, m : OnTrack("delete", pc, req[r].kid, v, m, b)
                         <=> DeleteOn(pc, req[r].kid, v, m, b)
    BY DEF OnTrack
  <1>4. /\ UNCHANGED row => SetRow(req[r].c, w)
        /\ UNCHANGED pods => SetPods(req[r].c, n)
    BY LeftAlone
  <1>5. CASE DeleteRow(r)
    <2> DEFINE next == IF req[r].kid THEN "drop_pod" ELSE "idle"
    <2>1. req[r].pc = "drop_row" /\ UNCHANGED pods /\ Goto(r, next)
      BY <1>5 DEF DeleteRow, At, BestEffort
    <2>2. ASSUME NEW v, SetRow(req[r].c, v), Fail \/ UNCHANGED budget,
                 Spared(b) => /\ Backed(v, n, b)
                              /\ ~req[r].kid => Rested(v, n, b)
                              /\ DeleteOn("drop_pod", req[r].kid, v, n, b)
          PROVE  CInv'
      <3>1. CASE req[r].kid
        <4>1. Goto(r, "drop_pod") /\ "drop_pod" \in Pcs \ {"idle"}
          BY <2>1, <3>1 DEF Pcs
        <4> QED BY <1>1, <1>3, <1>4, <2>1, <2>2, <4>1, TabGoesOn
      <3>2. CASE ~req[r].kid
        BY <1>1, <1>4, <2>1, <2>2, <3>2, TabEnds
      <3> QED BY <3>1, <3>2
    <2>3. CASE SetRow(req[r].c, Removed(w)) /\ UNCHANGED budget
      <3> DEFINE v == Removed(w)
      <3>1. ASSUME Spared(b)
            PROVE  /\ Backed(v, n, b)
                   /\ ~req[r].kid => Rested(v, n, b)
                   /\ DeleteOn("drop_pod", req[r].kid, v, n, b)
        <4>1. v.status = "Deleted"
          BY <1>2, <2>1, <2>3, <3>1, RowEffects DEF DeleteOn, Exists, Gone
        <4>2. Unfailed(b) /\ Unbroken(b) /\ ~req[r].kid => n = 0
          BY <1>2, <2>1, <2>3, <3>1 DEF DeleteOn
        <4> HIDE DEF v
        <4> QED BY <4>1, <4>2 DEF Backed, Rested, DeleteOn, Active, Monitored, Made
      <3> HIDE DEF v
      <3> QED BY <2>2, <2>3, <3>1 DEF v
    <2>4. CASE UNCHANGED row /\ Fail
      <3>1. ASSUME Spared(b)
            PROVE  /\ Backed(w, n, b)
                   /\ ~req[r].kid => Rested(w, n, b)
                   /\ DeleteOn("drop_pod", req[r].kid, w, n, b)
        BY <1>2, <2>1, <2>4, <3>1 DEF DeleteOn
      <3> QED BY <1>4, <2>2, <2>4, <3>1
    <2> QED BY <1>5, <2>3, <2>4 DEF DeleteRow, BestEffort
  <1>6. CASE DeletePod(r)
    <2>1. /\ req[r].pc = "drop_pod" /\ UNCHANGED row /\ Goto(r, "idle")
          /\ \/ SetPods(req[r].c, 0) /\ UNCHANGED budget
             \/ UNCHANGED pods /\ Fail
      BY <1>6 DEF DeletePod, At
    <2>2. CASE SetPods(req[r].c, 0) /\ UNCHANGED budget
      <3>1. ASSUME Spared(b)
            PROVE  Backed(w, 0, b) /\ Rested(w, 0, b)
        BY <1>2, <2>1, <2>2, <3>1 DEF DeleteOn, Backed, Rested, Made
      <3> QED BY <1>1, <1>4, <2>1, <2>2, <3>1, TabEnds
    <2>3. CASE UNCHANGED pods /\ Fail
      <3>1. ASSUME Spared(b)
            PROVE  Backed(w, n, b) /\ Rested(w, n, b)
        BY <1>2, <2>1, <2>3, <3>1 DEF DeleteOn, Rested
      <3> QED BY <1>1, <1>4, <2>1, <2>3, <3>1, TabEnds
    <2> QED BY <2>1, <2>2, <2>3
  <1> QED BY <1>5, <1>6 DEF DeleteStep

\* The part of a save that keeps its tab waiting.
LEMMA SaveTidy ==
    ASSUME IInv, CInv, NEW r \in Slots, SaveOwn(r) \/ SaveMark(r)
    PROVE  CInv'
  <1>1. /\ req[r].op = "save" /\ req[r].pc # "idle"
        /\ req[r].pc \notin Background
    BY DEF SaveOwn, SaveMark, At, Background
  <1> DEFINE w == row[req[r].c]
             n == pods[req[r].c]
             b == budget'
  <1>2. ASSUME Spared(b), Fail \/ Lost \/ UNCHANGED budget
        PROVE  w \in Rows /\ Backed(w, n, b) /\ Rested(w, n, b)
    BY <1>1, <1>2, Found DEF OnTrack, Raises
  <1>3. \A pc, v, m : OnTrack("save", pc, req[r].kid, v, m, b) <=> Rested(v, m, b)
    BY DEF OnTrack
  <1>4. /\ UNCHANGED row => SetRow(req[r].c, w)
        /\ UNCHANGED pods => SetPods(req[r].c, n)
    BY LeftAlone
  <1>5. "mark" \in Pcs /\ "run" \in Pcs /\ "idle" \in Pcs
    BY DEF Pcs
  <1>6. CASE SaveOwn(r)
    <2>1. /\ UNCHANGED <<row, pods>>
          /\ Fail \/ Lost \/ UNCHANGED budget
          /\ Goto(r, "mark") \/ Goto(r, "idle")
      BY <1>6 DEF SaveOwn, Read, Raises
    <2>2. Spared(b) => Backed(w, n, b) /\ Rested(w, n, b)
      BY <1>2, <2>1
    <2>3. Spared(b) => OnTrack("save", "mark", req[r].kid, w, n, b)
      BY <1>3, <2>2
    <2>4. "mark" \notin Background
      BY DEF Background
    <2>5. CASE Goto(r, "mark")
      <3> HIDE DEF w, n, b
      <3> QED BY <1>1, <1>4, <1>5, <2>1, <2>2, <2>3, <2>4, <2>5, TabGoes DEF b
    <2>6. CASE Goto(r, "idle")
      BY <1>1, <1>4, <2>1, <2>2, <2>6, TabEnds
    <2> QED BY <2>1, <2>5, <2>6
  <1>7. CASE SaveMark(r)
    <2> DEFINE v == WithSave(w, "Pending")
    <2>1. /\ UNCHANGED pods
          /\ Goto(r, "run") \/ Goto(r, "idle")
          /\ Fail \/ Lost \/ UNCHANGED budget
          /\ SetRow(req[r].c, v) \/ UNCHANGED row
      BY <1>7 DEF SaveMark, MarkPending, Write
    <2>2. ASSUME Spared(b)
          PROVE  Backed(v, n, b) /\ Rested(v, n, b)
      <3>1. v.status = w.status /\ v.reserved = w.reserved /\ v.kid = w.kid
        BY <1>2, <2>1, <2>2, RowEffects
      <3> HIDE DEF v
      <3> QED BY <1>2, <2>1, <2>2, <3>1 DEF Backed, Rested
    <2>3. "run" \in Background
      BY DEF Background
    <2>4. ASSUME NEW x, SetRow(req[r].c, x),
                 Spared(b) => Backed(x, n, b) /\ Rested(x, n, b)
          PROVE  CInv'
      <3>1. SetPods(req[r].c, n)
        BY <1>4, <2>1
      <3> HIDE DEF w, n
      <3>2. CASE Goto(r, "run")
        BY <1>1, <1>5, <2>1, <2>3, <2>4, <3>1, <3>2, TabGoes
      <3>3. CASE Goto(r, "idle")
        BY <1>1, <2>1, <2>4, <3>1, <3>3, TabEnds
      <3> QED BY <2>1, <3>2, <3>3
    <2>5. Spared(b) => Backed(w, n, b) /\ Rested(w, n, b)
      BY <1>2, <2>1
    <2> HIDE DEF v
    <2>6. CASE SetRow(req[r].c, v)
      BY <2>2, <2>4, <2>6
    <2>7. CASE UNCHANGED row
      BY <1>4, <2>4, <2>5, <2>7
    <2> QED BY <2>1, <2>6, <2>7
  <1> QED BY <1>6, <1>7

\* A hibernate: nothing happens to the container before its pod goes, and then
\* its row follows.
LEMMA HibernateTidy ==
    ASSUME IInv, CInv, NEW r \in Slots, HibernateStep(r)
    PROVE  CInv'
  <1>1. req[r].op = "hibernate" /\ req[r].pc # "idle"
    BY DEF HibernateStep, At, HibernateOwn, HibernateMark, HibernateRun,
           HibernateRunning, HibernatePoll, HibernateDropPod, HibernateRelease
  <1> DEFINE w == row[req[r].c]
             n == pods[req[r].c]
             b == budget'
  <1>2. ASSUME Spared(b), Fail \/ Lost \/ UNCHANGED budget
        PROVE  /\ w \in Rows /\ n \in Nat
               /\ Backed(w, n, b) /\ HibernateOn(req[r].pc, w, n, b)
               /\ Fail \/ Lost => ~Unfailed(b)
    BY <1>1, <1>2, Found DEF OnTrack, Raises
  <1>3. \A pc, v, m : OnTrack("hibernate", pc, req[r].kid, v, m, b)
                         <=> HibernateOn(pc, v, m, b)
    BY DEF OnTrack
  <1>4. /\ UNCHANGED row => SetRow(req[r].c, w)
        /\ UNCHANGED pods => SetPods(req[r].c, n)
    BY LeftAlone
  <1>5. \A pc \in {"mark", "run", "running", "poll", "drop_pod", "release"} :
            pc \in Pcs \ {"idle"}
    BY DEF Pcs
  \* The steps that leave the status and the pods alone.
  <1>6. ASSUME req[r].pc \in {"own", "mark", "run", "running", "poll"},
               UNCHANGED pods, Fail \/ Lost \/ UNCHANGED budget,
               SetRow(req[r].c, WithSave(w, "Pending")) \/ UNCHANGED row,
               NEW pc \in {"idle", "mark", "run", "running", "poll", "drop_pod"},
               Goto(r, pc)
        PROVE  CInv'
    <2> DEFINE v == WithSave(w, "Pending")
    <2>1. ASSUME Spared(b)
          PROVE  /\ Backed(w, n, b) /\ Rested(w, n, b)
                 /\ HibernateOn(pc, w, n, b)
      BY <1>2, <1>6, <2>1 DEF HibernateOn
    <2>2. ASSUME Spared(b)
          PROVE  /\ Backed(v, n, b) /\ Rested(v, n, b)
                 /\ HibernateOn(pc, v, n, b)
      <3>1. v.status = w.status /\ v.reserved = w.reserved /\ v.kid = w.kid
        BY <1>2, <1>6, <2>2, RowEffects
      <3> HIDE DEF v
      <3> QED BY <1>6, <2>1, <2>2, <3>1 DEF Backed, Rested, HibernateOn
    <2> HIDE DEF v
    <2>3. CASE pc = "idle"
      BY <1>1, <1>4, <1>6, <2>1, <2>2, <2>3, TabEnds DEF v
    <2>4. CASE pc # "idle" /\ UNCHANGED row
      BY <1>1, <1>3, <1>4, <1>5, <1>6, <2>1, <2>4, TabGoesOn
    <2>5. CASE pc # "idle" /\ SetRow(req[r].c, v)
      BY <1>1, <1>3, <1>4, <1>5, <1>6, <2>2, <2>5, TabGoesOn
    <2> QED BY <1>6, <2>3, <2>4, <2>5 DEF v
  <1>7. CASE HibernateOwn(r)
    BY <1>6, <1>7 DEF HibernateOwn, At, Raises
  <1>8. CASE HibernateMark(r)
    BY <1>6, <1>8 DEF HibernateMark, MarkPending, Write, At
  <1>9. CASE HibernateRun(r)
    BY <1>6, <1>9 DEF HibernateRun, SaveStarts, At
  <1>10. CASE HibernateRunning(r)
    BY <1>6, <1>10 DEF HibernateRunning, SaveAnswer, At
  <1>11. CASE HibernatePoll(r)
    <2>1. /\ req[r].pc = "poll" /\ UNCHANGED <<row, pods>>
          /\ Fail \/ Lost \/ UNCHANGED budget
          /\ \/ Goto(r, "drop_pod") \/ Goto(r, "idle")
             \/ req' = [req EXCEPT ![r].polls = @ + 1]
      BY <1>11 DEF HibernatePoll, At, Raises
    <2>2. CASE Goto(r, "drop_pod") \/ Goto(r, "idle")
      BY <1>6, <2>1, <2>2
    <2>3. CASE req' = [req EXCEPT ![r].polls = @ + 1]
      <3> DEFINE q == [req[r] EXCEPT !.polls = @ + 1]
                 c == req[r].c
      <3>1. c \in Containers /\ req[r] \in Requests /\ Works(req[r], c)
        BY <1>1, BusySlot DEF Works
      <3>2. /\ req' = [req EXCEPT ![r] = q]
            /\ row' = [row EXCEPT ![c] = w] /\ pods' = [pods EXCEPT ![c] = n]
        BY <2>1, <2>3 DEF IInv, TypeOK
      <3>3. /\ q.op = "hibernate" /\ q.pc = "poll" /\ q.kid = req[r].kid /\ q.c = c
        BY <1>1, <2>1, <3>1 DEF Requests
      <3>4. /\ \A s \in Slots : s # r => ~Works(req[s], c)
            /\ \A d \in Containers : d # c => ~Works(req[r], d)
        BY <3>1 DEF CInv, Alone, Works
      <3>5. Works(q, c)
        BY <3>3 DEF Works
      <3>6. BudgetBounded' /\ Later(budget, budget')
        BY <2>1, BudgetFalls
      <3>7. Spared(b) => Backed(w, n, b) /\ OnTrack(q.op, q.pc, q.kid, w, n, b)
        BY <1>2, <1>3, <2>1, <3>3
      <3> HIDE DEF q, c, w, n, b
      <3> QED BY <3>1, <3>2, <3>3, <3>4, <3>5, <3>6, <3>7, TabMoves DEF b
    <2> QED BY <2>1, <2>2, <2>3
  <1>12. CASE HibernateDropPod(r)
    <2>1. /\ req[r].pc = "drop_pod" /\ UNCHANGED row
          /\ \/ SetPods(req[r].c, 0) /\ Goto(r, "release") /\ UNCHANGED budget
             \/ SetPods(req[r].c, 0) /\ Goto(r, "idle") /\ Lost
             \/ UNCHANGED pods /\ Goto(r, "idle") /\ Fail
      BY <1>12 DEF HibernateDropPod, At
    <2>2. CASE SetPods(req[r].c, 0) /\ Goto(r, "release") /\ UNCHANGED budget
      <3>1. ASSUME Spared(b)
            PROVE  Backed(w, 0, b) /\ HibernateOn("release", w, 0, b)
        BY <1>2, <2>1, <2>2, <3>1 DEF HibernateOn, Backed
      <3> QED BY <1>1, <1>3, <1>4, <1>5, <2>1, <2>2, <3>1, TabGoesOn
    <2>3. CASE SetPods(req[r].c, 0) /\ Goto(r, "idle") /\ Lost
      <3>1. ASSUME Spared(b)
            PROVE  Backed(w, 0, b) /\ Rested(w, 0, b)
        BY <1>2, <2>1, <2>3, <3>1 DEF Backed, Rested
      <3> QED BY <1>1, <1>4, <2>1, <2>3, <3>1, TabEnds
    <2>4. CASE UNCHANGED pods /\ Goto(r, "idle") /\ Fail
      <3>1. ASSUME Spared(b)
            PROVE  Backed(w, n, b) /\ Rested(w, n, b)
        BY <1>2, <2>1, <2>4, <3>1 DEF HibernateOn
      <3> QED BY <1>1, <1>4, <2>1, <2>4, <3>1, TabEnds
    <2> QED BY <2>1, <2>2, <2>3, <2>4
  <1>13. CASE HibernateRelease(r)
    <2> DEFINE v == Hibernated(w)
    <2>1. /\ req[r].pc = "release" /\ UNCHANGED pods /\ Goto(r, "idle")
          /\ \/ SetRow(req[r].c, v) /\ UNCHANGED budget
             \/ UNCHANGED row /\ Fail
      BY <1>13 DEF HibernateRelease, At, BestEffort
    <2>2. CASE SetRow(req[r].c, v) /\ UNCHANGED budget
      <3>1. ASSUME Spared(b)
            PROVE  Backed(v, n, b) /\ Rested(v, n, b)
        <4>1. v.status = "Hibernated" /\ n = 0
          BY <1>2, <2>1, <2>2, <3>1, RowEffects DEF HibernateOn, Exists, Gone
        <4> HIDE DEF v
        <4> QED BY <4>1 DEF Backed, Rested, Active, Monitored, Made
      <3> HIDE DEF v
      <3> QED BY <1>1, <1>4, <2>1, <2>2, <3>1, TabEnds
    <2>3. CASE UNCHANGED row /\ Fail
      <3>1. ASSUME Spared(b)
            PROVE  Backed(w, n, b) /\ Rested(w, n, b)
        BY <1>2, <2>1, <2>3, <3>1 DEF HibernateOn, Rested
      <3> QED BY <1>1, <1>4, <2>1, <2>3, <3>1, TabEnds
    <2> QED BY <2>1, <2>2, <2>3
  <1> QED
    BY <1>7, <1>8, <1>9, <1>10, <1>11, <1>12, <1>13 DEF HibernateStep

\* A resume: from the claim on the row is reserved, until a rollback gives it
\* back; where there is none it stays reserved.
LEMMA ResumeTidy ==
    ASSUME IInv, CInv, NEW r \in Slots, ResumeStep(r)
    PROVE  CInv'
  <1>1. req[r].op = "resume" /\ req[r].pc # "idle"
    BY DEF ResumeStep, At, ResumeOwn, ResumeClaim, ResumeStamp, ResumeLaunch,
           ResumeLaunched, ResumeRecord, ResumeRollback, ResumeMarkFailed
  <1> DEFINE w == row[req[r].c]
             n == pods[req[r].c]
             b == budget'
  <1>2. ASSUME Spared(b), Fail \/ Lost \/ UNCHANGED budget
        PROVE  /\ w \in Rows /\ n \in Nat
               /\ Backed(w, n, b) /\ ResumeOn(req[r].pc, w, n, b)
               /\ Backed(w, n, budget) /\ ResumeOn(req[r].pc, w, n, budget)
               /\ Fail \/ Lost => ~Unfailed(b) /\ Unfailed(budget)
    BY <1>1, <1>2, Found DEF OnTrack, Raises
  <1>3. \A pc, v, m : OnTrack("resume", pc, req[r].kid, v, m, b) <=> ResumeOn(pc, v, m, b)
    BY DEF OnTrack
  <1>4. /\ UNCHANGED row => SetRow(req[r].c, w)
        /\ UNCHANGED pods => SetPods(req[r].c, n)
    BY LeftAlone
  <1>5. \A pc \in {"claim", "stamp", "launch", "launched", "record", "rollback",
                   "mark_failed"} : pc \in Pcs \ {"idle"}
    BY DEF Pcs
  <1>6. CASE ResumeOwn(r)
    <2>1. /\ req[r].pc = "own" /\ UNCHANGED <<row, pods>>
          /\ \/ /\ \/ req' = [req EXCEPT ![r].pc = "claim", ![r].image = w.image]
                   \/ Goto(r, "idle")
                /\ UNCHANGED budget
             \/ Goto(r, "mark_failed") /\ (Fail \/ Lost)
      BY <1>6 DEF ResumeOwn, At, Raises
    <2>2. CASE req' = [req EXCEPT ![r].pc = "claim", ![r].image = w.image]
               /\ UNCHANGED budget
      <3> DEFINE q == [req[r] EXCEPT !.pc = "claim", !.image = w.image]
                 c == req[r].c
      <3>1. c \in Containers /\ req[r] \in Requests /\ Works(req[r], c)
        BY <1>1, BusySlot DEF Works
      <3>2. /\ req' = [req EXCEPT ![r] = q]
            /\ row' = [row EXCEPT ![c] = w] /\ pods' = [pods EXCEPT ![c] = n]
        BY <2>1, <2>2 DEF IInv, TypeOK
      <3>3. /\ q.op = "resume" /\ q.pc = "claim" /\ q.kid = req[r].kid /\ q.c = c
        BY <1>1, <2>1, <3>1 DEF Requests
      <3>4. /\ \A s \in Slots : s # r => ~Works(req[s], c)
            /\ \A d \in Containers : d # c => ~Works(req[r], d)
        BY <3>1 DEF CInv, Alone, Works
      <3>5. Works(q, c)
        BY <3>3 DEF Works
      <3>6. BudgetBounded' /\ Later(budget, budget')
        BY <2>2, BudgetFalls
      <3>7. ASSUME Spared(b)
            PROVE  Backed(w, n, b) /\ ResumeOn("claim", w, n, b)
        BY <1>2, <2>1, <2>2, <3>7 DEF ResumeOn
      <3>8. Spared(b) => Backed(w, n, b) /\ OnTrack(q.op, q.pc, q.kid, w, n, b)
        BY <1>3, <3>3, <3>7
      <3> HIDE DEF q, c, w, n, b
      <3> QED BY <3>1, <3>2, <3>3, <3>4, <3>5, <3>6, <3>8, TabMoves DEF b
    <2>3. CASE Goto(r, "idle") /\ UNCHANGED budget
      <3>1. ASSUME Spared(b)
            PROVE  Backed(w, n, b) /\ Rested(w, n, b)
        BY <1>2, <2>1, <2>3, <3>1 DEF ResumeOn
      <3> QED BY <1>1, <1>4, <2>1, <2>3, <3>1, TabEnds
    <2>4. CASE Goto(r, "mark_failed") /\ (Fail \/ Lost)
      <3>1. ASSUME Spared(b)
            PROVE  Backed(w, n, b) /\ ResumeOn("mark_failed", w, n, b)
        BY <1>2, <2>1, <2>4, <3>1 DEF ResumeOn, Backed
      <3> QED BY <1>1, <1>3, <1>4, <1>5, <2>1, <2>4, <3>1, TabGoesOn
    <2> QED BY <2>1, <2>2, <2>3, <2>4
  <1>7. CASE ResumeClaim(r)
    <2> DEFINE v == Claimed(w)
    <2>1. /\ req[r].pc = "claim" /\ UNCHANGED pods
          /\ \/ SetRow(req[r].c, v) /\ Goto(r, "stamp") /\ UNCHANGED budget
             \/ SetRow(req[r].c, v) /\ Goto(r, "idle") /\ Lost
             \/ UNCHANGED row /\ Goto(r, "idle") /\ UNCHANGED budget
      BY <1>7 DEF ResumeClaim, At
    <2>2. CASE SetRow(req[r].c, v) /\ Goto(r, "stamp") /\ UNCHANGED budget
      <3>1. ASSUME Spared(b)
            PROVE  Backed(v, n, b) /\ ResumeOn("stamp", v, n, b)
        <4>1. /\ v.status = "Resuming" /\ v.reserved
              /\ Unfailed(b) => n = 0
          BY <1>2, <2>1, <2>2, <3>1, RowEffects DEF ResumeOn, Backed
        <4> HIDE DEF v
        <4> QED BY <4>1 DEF Backed, ResumeOn
      <3> HIDE DEF v
      <3> QED BY <1>1, <1>3, <1>4, <1>5, <2>1, <2>2, <3>1, TabGoesOn
    <2>3. CASE SetRow(req[r].c, v) /\ Goto(r, "idle") /\ Lost
      <3>1. ASSUME Spared(b)
            PROVE  Backed(v, n, b) /\ Rested(v, n, b)
        <4>1. v.status = "Resuming" /\ v.reserved /\ ~Unfailed(b)
          BY <1>2, <2>1, <2>3, <3>1, RowEffects
        <4> HIDE DEF v
        <4> QED BY <4>1 DEF Backed, Rested
      <3> HIDE DEF v
      <3> QED BY <1>1, <1>4, <2>1, <2>3, <3>1, TabEnds
    <2>4. CASE UNCHANGED row /\ Goto(r, "idle") /\ UNCHANGED budget
      <3>1. ASSUME Spared(b)
            PROVE  Backed(w, n, b) /\ Rested(w, n, b)
        BY <1>2, <2>1, <2>4, <3>1 DEF ResumeOn
      <3> QED BY <1>1, <1>4, <2>1, <2>4, <3>1, TabEnds
    <2> QED BY <2>1, <2>2, <2>3, <2>4
  <1>8. CASE ResumeStamp(r)
    <2>1. /\ req[r].pc = "stamp" /\ UNCHANGED <<row, pods>>
          /\ \/ Goto(r, "launch") /\ UNCHANGED budget
             \/ Goto(r, "rollback") /\ (Fail \/ Lost)
      BY <1>8 DEF ResumeStamp, At, Raises
    <2>2. CASE Goto(r, "launch") /\ UNCHANGED budget
      <3>1. ASSUME Spared(b)
            PROVE  Backed(w, n, b) /\ ResumeOn("launch", w, n, b)
        BY <1>2, <2>1, <2>2, <3>1 DEF ResumeOn
      <3> QED BY <1>1, <1>3, <1>4, <1>5, <2>1, <2>2, <3>1, TabGoesOn
    <2>3. CASE Goto(r, "rollback") /\ (Fail \/ Lost)
      <3>1. ASSUME Spared(b)
            PROVE  Backed(w, n, b) /\ ResumeOn("rollback", w, n, b)
        BY <1>2, <2>1, <2>3, <3>1 DEF ResumeOn
      <3> QED BY <1>1, <1>3, <1>4, <1>5, <2>1, <2>3, <3>1, TabGoesOn
    <2> QED BY <2>1, <2>2, <2>3
  <1>9. CASE ResumeLaunch(r)
    <2>1. req[r].pc = "launch" /\ UNCHANGED row
      BY <1>9 DEF ResumeLaunch, At, PodStarts, PodRefused, NoBaseImage
    <2>2. CASE PodStarts(r)
      <3>1. SetPods(req[r].c, n + 1) /\ Goto(r, "launched") /\ UNCHANGED budget
        BY <2>2 DEF PodStarts
      <3>2. ASSUME Spared(b)
            PROVE  Backed(w, n + 1, b) /\ ResumeOn("launched", w, n + 1, b)
        BY <1>2, <2>1, <3>1, <3>2 DEF ResumeOn, Backed
      <3> QED BY <1>1, <1>3, <1>4, <1>5, <2>1, <3>1, <3>2, TabGoesOn
    <2>3. CASE PodRefused(r, "idle")
      <3>1. UNCHANGED pods /\ Goto(r, "idle") /\ Fail
        BY <2>3 DEF PodRefused
      <3>2. ASSUME Spared(b)
            PROVE  Backed(w, n, b) /\ Rested(w, n, b)
        BY <1>2, <2>1, <3>1, <3>2 DEF Rested
      <3> QED BY <1>1, <1>4, <2>1, <3>1, <3>2, TabEnds
    <2>4. CASE NoBaseImage(r)
      <3>1. UNCHANGED pods /\ Goto(r, "rollback") /\ (Fail \/ Lost)
        BY <2>4 DEF NoBaseImage, Raises
      <3>2. ASSUME Spared(b)
            PROVE  Backed(w, n, b) /\ ResumeOn("rollback", w, n, b)
        BY <1>2, <2>1, <3>1, <3>2 DEF ResumeOn
      <3> QED BY <1>1, <1>3, <1>4, <1>5, <2>1, <3>1, <3>2, TabGoesOn
    <2> QED BY <1>9, <2>2, <2>3, <2>4 DEF ResumeLaunch
  <1>10. CASE ResumeLaunched(r)
    <2>1. /\ req[r].pc = "launched" /\ UNCHANGED <<row, pods>>
          /\ \/ Goto(r, "record") /\ UNCHANGED budget
             \/ Goto(r, "idle") /\ Lost
      BY <1>10 DEF ResumeLaunched, At, PodAnswer
    <2>2. CASE Goto(r, "record") /\ UNCHANGED budget
      <3>1. ASSUME Spared(b)
            PROVE  Backed(w, n, b) /\ ResumeOn("record", w, n, b)
        BY <1>2, <2>1, <2>2, <3>1 DEF ResumeOn
      <3> QED BY <1>1, <1>3, <1>4, <1>5, <2>1, <2>2, <3>1, TabGoesOn
    <2>3. CASE Goto(r, "idle") /\ Lost
      <3>1. ASSUME Spared(b)
            PROVE  Backed(w, n, b) /\ Rested(w, n, b)
        BY <1>2, <2>1, <2>3, <3>1 DEF Rested
      <3> QED BY <1>1, <1>4, <2>1, <2>3, <3>1, TabEnds
    <2> QED BY <2>1, <2>2, <2>3
  <1>11. CASE ResumeRecord(r)
    <2> DEFINE v == WithStatus(WithPod(w), "Running")
    <2>1. /\ req[r].pc = "record" /\ UNCHANGED pods
          /\ \/ SetRow(req[r].c, v) /\ Goto(r, "idle") /\ UNCHANGED budget
             \/ SetRow(req[r].c, v) /\ Goto(r, "rollback") /\ Lost
             \/ UNCHANGED row /\ Goto(r, "rollback") /\ Fail
      BY <1>11 DEF ResumeRecord, At, Write
    <2>2. CASE SetRow(req[r].c, v) /\ Goto(r, "idle") /\ UNCHANGED budget
      <3>1. ASSUME Spared(b)
            PROVE  Backed(v, n, b) /\ Rested(v, n, b)
        <4>1. w.reserved /\ Exists(w) /\ (Unfailed(b) => n = 1)
          BY <1>2, <2>1, <2>2, <3>1 DEF ResumeOn, Exists, Gone
        <4>2. v.status = "Running" /\ v.reserved /\ v.kid
          BY <1>2, <2>2, <3>1, <4>1, RowEffects
        <4> HIDE DEF v
        <4> QED BY <4>1, <4>2 DEF Backed, Rested, Made
      <3> HIDE DEF v
      <3> QED BY <1>1, <1>4, <2>1, <2>2, <3>1, TabEnds
    <2>3. CASE SetRow(req[r].c, v) /\ Goto(r, "rollback") /\ Lost
      <3>1. ASSUME Spared(b)
            PROVE  Backed(v, n, b) /\ ResumeOn("rollback", v, n, b)
        <4>1. w.reserved /\ Exists(w) /\ ~Unfailed(b)
          BY <1>2, <2>1, <2>3, <3>1 DEF ResumeOn, Exists, Gone
        <4>2. v.status = "Running" /\ v.reserved
          BY <1>2, <2>3, <3>1, <4>1, RowEffects
        <4> HIDE DEF v
        <4> QED BY <4>1, <4>2 DEF Backed, ResumeOn
      <3> HIDE DEF v
      <3> QED BY <1>1, <1>3, <1>4, <1>5, <2>1, <2>3, <3>1, TabGoesOn
    <2>4. CASE UNCHANGED row /\ Goto(r, "rollback") /\ Fail
      <3>1. ASSUME Spared(b)
            PROVE  Backed(w, n, b) /\ ResumeOn("rollback", w, n, b)
        BY <1>2, <2>1, <2>4, <3>1 DEF ResumeOn
      <3> QED BY <1>1, <1>3, <1>4, <1>5, <2>1, <2>4, <3>1, TabGoesOn
    <2> QED BY <2>1, <2>2, <2>3, <2>4
  <1>12. CASE ResumeRollback(r)
    <2> DEFINE v == Hibernated(w)
    <2>1. /\ req[r].pc = "rollback" /\ UNCHANGED pods /\ Goto(r, "idle")
          /\ \/ SetRow(req[r].c, v) /\ UNCHANGED budget
             \/ UNCHANGED row /\ Fail
      BY <1>12 DEF ResumeRollback, At, BestEffort
    <2>2. CASE SetRow(req[r].c, v) /\ UNCHANGED budget
      <3>1. ASSUME Spared(b)
            PROVE  Backed(v, n, b) /\ Rested(v, n, b)
        <4>1. v.status = "Hibernated" /\ ~Unfailed(b)
          BY <1>2, <2>1, <2>2, <3>1, RowEffects DEF ResumeOn, Exists, Gone
        <4> HIDE DEF v
        <4> QED BY <4>1 DEF Backed, Rested, Active, Monitored
      <3> HIDE DEF v
      <3> QED BY <1>1, <1>4, <2>1, <2>2, <3>1, TabEnds
    <2>3. CASE UNCHANGED row /\ Fail
      <3>1. ~Spared(b)
        BY <1>2, <2>1, <2>3 DEF ResumeOn
      <3> QED BY <1>1, <1>4, <2>1, <2>3, <3>1, TabEnds
    <2> QED BY <2>1, <2>2, <2>3
  <1>13. CASE ResumeMarkFailed(r)
    <2> DEFINE v == WithStatus(w, "Failed")
    <2>1. /\ req[r].pc = "mark_failed" /\ UNCHANGED pods /\ Goto(r, "idle")
          /\ \/ SetRow(req[r].c, v) /\ UNCHANGED budget
             \/ UNCHANGED row /\ Fail
      BY <1>13 DEF ResumeMarkFailed, At, BestEffort
    <2>2. CASE SetRow(req[r].c, v) /\ UNCHANGED budget
      <3>1. ASSUME Spared(b)
            PROVE  Backed(v, n, b) /\ Rested(v, n, b)
        <4>1. v.status = "Failed" /\ n = 0 /\ ~Unfailed(b)
          BY <1>2, <2>1, <2>2, <3>1, RowEffects DEF ResumeOn, Exists, Gone
        <4> HIDE DEF v
        <4> QED BY <4>1 DEF Backed, Rested, Active, Monitored
      <3> HIDE DEF v
      <3> QED BY <1>1, <1>4, <2>1, <2>2, <3>1, TabEnds
    <2>3. CASE UNCHANGED row /\ Fail
      <3>1. ~Spared(b)
        BY <1>2, <2>1, <2>3 DEF ResumeOn
      <3> QED BY <1>1, <1>4, <2>1, <2>3, <3>1, TabEnds
    <2> QED BY <2>1, <2>2, <2>3
  <1> QED
    BY <1>6, <1>7, <1>8, <1>9, <1>10, <1>11, <1>12, <1>13 DEF ResumeStep

-----------------------------------------------------------------------------
(* The first step of an operation.                                         *)

\* A free slot is engaged in nothing, and in a quiet container nobody is.
LEMMA FreeSlot ==
    ASSUME NEW r \in Slots, Free(r)
    PROVE  \A c \in Containers :
              /\ ~Works(req[r], c)
              /\ Quiet(c) => \A s \in Slots : ~Works(req[s], c)
  BY Idler DEF Free, Quiet, Engaged, Works

\* The tab starts an operation where nothing is going on, by the list.
LEMMA BeginTidy ==
    ASSUME IInv, CInv, OneTab, NEW r \in Slots, NEW op \in Operations \ {"create"},
           NEW c \in Containers, Begin(r, op, c)
    PROVE  CInv'
  <1> DEFINE q == [Idle EXCEPT !.op = op, !.c = c, !.kid = row[c].kid,
                               !.pc = FirstPc(op)]
             w == row[c]
             n == pods[c]
             b == budget'
  <1>1. /\ Free(r) /\ Quiet(c) /\ Offered(op, c) /\ UNCHANGED <<row, pods, budget>>
        /\ req' = [req EXCEPT ![r] = q]
    BY DEF Begin
  <1>2. /\ \A s \in Slots : s # r => ~Works(req[s], c)
        /\ \A s \in Slots : ~Works(req[s], c)
        /\ \A d \in Containers : d # c => ~Works(req[r], d)
    BY <1>1, FreeSlot
  <1>3. q.op = op /\ q.c = c /\ q.kid = w.kid /\ q.pc = FirstPc(op)
    BY DEF Idle
  <1>4. Works(q, c)
    BY <1>3 DEF Works, FirstPc, Background
  <1>5. BudgetBounded' /\ Later(budget, budget')
    BY <1>1, BudgetFalls
  <1>6. row' = [row EXCEPT ![c] = w] /\ pods' = [pods EXCEPT ![c] = n]
    BY <1>1 DEF IInv, TypeOK
  <1>7. ASSUME Spared(b)
        PROVE  Backed(w, n, b) /\ OnTrack(op, FirstPc(op), w.kid, w, n, b)
    <2>1. Backed(w, n, b) /\ Rested(w, n, b)
      BY <1>1, <1>2, <1>7 DEF CInv, Tidy
    <2>2. CASE op = "delete"
      BY <1>1, <2>1, <2>2 DEF OnTrack, DeleteOn, Offered, FirstPc, Rested
    <2>3. CASE op = "save"
      BY <2>1, <2>3 DEF OnTrack
    <2>4. CASE op = "hibernate"
      BY <1>1, <2>1, <2>4 DEF OnTrack, HibernateOn, Offered, FirstPc
    <2>5. CASE op = "resume"
      BY <1>1, <2>1, <2>5 DEF OnTrack, ResumeOn, Offered, FirstPc
    <2> QED BY <2>1, <2>2, <2>3, <2>4, <2>5 DEF Operations
  <1>8. Spared(b) => Backed(w, n, b) /\ OnTrack(q.op, q.pc, q.kid, w, n, b)
    BY <1>3, <1>7
  <1>9. q.c = c /\ req' = [req EXCEPT ![r] = q]
    BY <1>1, <1>3
  <1> HIDE DEF q, w, n, b
  <1> QED BY <1>2, <1>4, <1>5, <1>6, <1>8, <1>9, TabMoves DEF b

\* A container is born, reserved and without a pod.
LEMMA CreateRowTidy ==
    ASSUME IInv, CInv, NEW r \in Slots, NEW c \in Containers, CreateRow(r, c)
    PROVE  CInv'
  <1> DEFINE p == [Idle EXCEPT !.op = "create", !.c = c, !.pc = "own"]
             n == pods[c]
             b == budget'
  <1>1. /\ Free(r) /\ row[c].status = "Absent" /\ SetRow(c, Created) /\ UNCHANGED pods
        /\ \/ req' = [req EXCEPT ![r] = p] /\ UNCHANGED budget
           \/ UNCHANGED req /\ Lost
    BY DEF CreateRow
  <1>2. /\ \A s \in Slots : ~Works(req[s], c)
        /\ \A d \in Containers : d # c => ~Works(req[r], d)
    <2>1. ASSUME NEW s \in Slots, Works(req[s], c)
          PROVE  FALSE
      <3>1. req[s] # Idle /\ req[s].c = c
        BY <2>1, Idler DEF Works
      <3>2. row[c].status # "Absent"
        BY <3>1 DEF IInv, SlotSound, RequestSound
      <3> QED BY <1>1, <3>2
    <2> QED BY <1>1, <2>1, FreeSlot
  <1>3. BudgetBounded' /\ Later(budget, budget')
    BY <1>1, BudgetFalls
  <1>4. row' = [row EXCEPT ![c] = Created] /\ pods' = [pods EXCEPT ![c] = n]
    BY <1>1 DEF SetRow, IInv, TypeOK
  <1>5. CASE req' = [req EXCEPT ![r] = p] /\ UNCHANGED budget
    <2>1. p.op = "create" /\ p.c = c /\ p.pc = "own"
      BY DEF Idle
    <2>2. Works(p, c)
      BY <2>1 DEF Works
    <2>3. ASSUME Spared(b)
          PROVE  Backed(Created, n, b) /\ OnTrack("create", "own", p.kid, Created, n, b)
      <3>1. n = 0
        BY <1>1, <1>5, <2>3 DEF CInv, Tidy, Backed
      <3> QED BY <3>1 DEF Backed, OnTrack, CreateOn, Created, BlankRow, Active, Monitored
    <2> HIDE DEF p, n, b
    <2> QED BY <1>2, <1>3, <1>4, <1>5, <2>1, <2>2, <2>3, TabMoves DEF b
  <1>6. CASE UNCHANGED req /\ Lost
    <2>1. req' = [req EXCEPT ![r] = Idle]
      BY <1>1, <1>6 DEF Free, IInv, TypeOK
    <2>2. ASSUME Spared(b)
          PROVE  Backed(Created, n, b) /\ Rested(Created, n, b)
      <3>1. Spared(budget) /\ ~Unfailed(b)
        BY <1>3, <1>6, <2>2, BudgetFalls DEF Later, Raises
      <3>2. n = 0
        BY <1>1, <3>1 DEF CInv, Tidy, Backed
      <3> QED BY <3>1, <3>2 DEF Backed, Rested, Created, BlankRow, Active
    <2>3. ~Works(Idle, c)
      BY Idler
    <2> HIDE DEF n, b
    <2> QED BY <1>2, <1>3, <1>4, <2>1, <2>2, <2>3, TabMoves DEF b
  <1> QED BY <1>1, <1>5, <1>6

-----------------------------------------------------------------------------
(* The rest of the world.                                                  *)

\* The pods stay; an engaged operation stays where it is or is killed; what a
\* row changes in does not matter to what is known of its container.
LEMMA WorldTidy ==
    ASSUME IInv, CInv, UNCHANGED pods, BudgetBounded', Later(budget, budget'),
           \A s \in Slots, d \in Containers :
               /\ Works(req'[s], d) =>
                      /\ Works(req[s], d)
                      /\ req'[s].op = req[s].op /\ req'[s].pc = req[s].pc
                      /\ req'[s].kid = req[s].kid
               /\ Works(req[s], d) => Works(req'[s], d) \/ ~Unbroken(budget'),
           \A d \in Containers :
               Spared(budget) /\ Backed(row[d], pods[d], budget) =>
                   /\ Backed(row'[d], pods[d], budget)
                   /\ Rested(row[d], pods[d], budget) => Rested(row'[d], pods[d], budget)
                   /\ \A op, pc, kid : OnTrack(op, pc, kid, row[d], pods[d], budget)
                                       => OnTrack(op, pc, kid, row'[d], pods[d], budget)
    PROVE  CInv'
  <1>1. Alone'
    <2> SUFFICES ASSUME NEW d \in Containers, NEW s \in Slots, NEW t \in Slots,
                        Works(req'[s], d), Works(req'[t], d)
                 PROVE  s = t
      BY DEF Alone, Works
    <2> QED BY DEF CInv, Alone
  <1>2. ASSUME Spared(budget')
        PROVE  Tidy'
    <2>1. Spared(budget) /\ Tidy
      BY <1>2 DEF CInv, Later
    <2>2. ASSUME NEW d \in Containers
          PROVE  Backed(row'[d], pods'[d], budget')
      BY <2>1, Weakens DEF Tidy
    <2>3. ASSUME NEW d \in Containers, \A s \in Slots : ~Works(req'[s], d)
          PROVE  Rested(row'[d], pods'[d], budget')
      <3>1. CASE ~Unbroken(budget')
        BY <3>1 DEF Rested
      <3>2. CASE \A s \in Slots : ~Works(req[s], d)
        BY <2>1, <3>2, Weakens DEF Tidy
      <3> QED BY <2>3, <3>1, <3>2
    <2>4. ASSUME NEW s \in Slots, NEW d \in Containers, Works(req'[s], d)
          PROVE  OnTrack(req'[s].op, req'[s].pc, req'[s].kid, row'[d], pods'[d], budget')
      <3>1. OnTrack(req[s].op, req[s].pc, req[s].kid, row[d], pods[d], budget)
        BY <2>1, <2>4 DEF Tidy
      <3>2. OnTrack(req[s].op, req[s].pc, req[s].kid, row'[d], pods[d], budget)
        BY <2>1, <3>1 DEF Tidy
      <3> QED BY <2>4, <3>2, Weakens
    <2> QED BY <2>2, <2>3, <2>4 DEF Tidy, Works
  <1> QED BY <1>1, <1>2 DEF CInv, Spared

\* The fields of a row that CInv speaks of.
Alike(w, v) == v.status = w.status /\ v.reserved = w.reserved /\ v.kid = w.kid

\* What is known of a row is known of one like it.
LEMMA AlikeKeeps ==
    ASSUME NEW w, NEW v, Alike(w, v), NEW n, NEW b
    PROVE  /\ Backed(w, n, b) => Backed(v, n, b)
           /\ Rested(w, n, b) => Rested(v, n, b)
           /\ \A op, pc, kid : OnTrack(op, pc, kid, w, n, b) => OnTrack(op, pc, kid, v, n, b)
  <1>1. /\ Backed(w, n, b) => Backed(v, n, b)
        /\ Rested(w, n, b) => Rested(v, n, b)
    BY DEF Alike, Backed, Rested
  <1>2. ASSUME NEW op, NEW pc, NEW kid, OnTrack(op, pc, kid, w, n, b)
        PROVE  OnTrack(op, pc, kid, v, n, b)
    BY <1>1, <1>2 DEF OnTrack, CreateOn, DeleteOn, HibernateOn, ResumeOn, Alike
  <1> QED BY <1>1, <1>2

\* Any step that leaves the rows alike.
LEMMA AlikeTidy ==
    ASSUME IInv, CInv, UNCHANGED pods, BudgetBounded', Later(budget, budget'),
           \A s \in Slots, d \in Containers :
               /\ Works(req'[s], d) =>
                      /\ Works(req[s], d)
                      /\ req'[s].op = req[s].op /\ req'[s].pc = req[s].pc
                      /\ req'[s].kid = req[s].kid
               /\ Works(req[s], d) => Works(req'[s], d) \/ ~Unbroken(budget'),
           \A d \in Containers : Alike(row[d], row'[d])
    PROVE  CInv'
  BY AlikeKeeps, WorldTidy

\* A row that is replaced by one like it, among the others.
LEMMA AlikeRow ==
    ASSUME IInv, NEW c \in Containers, NEW v, Alike(row[c], v),
           SetRow(c, v) \/ UNCHANGED row
    PROVE  \A d \in Containers : Alike(row[d], row'[d])
  BY DEF IInv, TypeOK, SetRow, Alike

\* The background half of a save tells of nothing but save_status.
LEMMA BackgroundTidy ==
    ASSUME IInv, CInv, NEW r \in Slots, SaveRun(r) \/ SaveRunning(r) \/ SaveNoteFailed(r)
    PROVE  CInv'
  <1>1. /\ req[r].op = "save" /\ req[r].pc \in Background /\ req[r].pc # "idle"
        /\ UNCHANGED pods
        /\ Fail \/ Lost \/ UNCHANGED budget
        /\ \E pc \in Background \cup {"idle"} : Goto(r, pc)
        /\ SetRow(req[r].c, WithSave(row[req[r].c], "Failed")) \/ UNCHANGED row
    BY DEF SaveRun, SaveRunning, SaveNoteFailed, At, SaveStarts, SaveAnswer, BestEffort,
           Background
  <1>2. req[r].c \in Containers /\ req[r] \in Requests /\ req \in [Slots -> Requests]
    BY <1>1, BusySlot DEF IInv, TypeOK
  <1>3. Alike(row[req[r].c], WithSave(row[req[r].c], "Failed"))
    BY <1>2, RowEffects DEF IInv, TypeOK, Alike
  <1>4. \A d \in Containers : Alike(row[d], row'[d])
    BY <1>1, <1>2, <1>3, AlikeRow
  <1>5. \A d \in Containers : ~Works(req[r], d) /\ ~Works(req'[r], d)
    <2>1. PICK pc \in Background \cup {"idle"} : Goto(r, pc)
      BY <1>1
    <2>2. CASE pc = "idle"
      BY <1>1, <1>2, <2>1, <2>2, Idler DEF Goto, Works
    <2>3. CASE pc # "idle"
      <3>1. req'[r].op = "save" /\ req'[r].pc \in Background
        BY <1>1, <1>2, <2>1, <2>3 DEF Goto, Requests
      <3> QED BY <1>1, <3>1 DEF Works
    <2> QED BY <2>2, <2>3
  <1>6. \A s \in Slots : s # r => req'[s] = req[s]
    BY <1>1, <1>2 DEF Goto
  <1>7. BudgetBounded' /\ Later(budget, budget')
    BY <1>1, BudgetFalls
  <1> QED BY <1>1, <1>4, <1>5, <1>6, <1>7, AlikeTidy

\* A pod's phase reaches its row.
LEMMA MonitorTidy ==
    ASSUME IInv, CInv, NEW c \in Containers, Monitor(c)
    PROVE  CInv'
  <1>1. PICK t \in {"Running", "Failed"} : SetRow(c, [row[c] EXCEPT !.status = t])
    BY DEF Monitor
  <1> DEFINE w == row[c]
             v == [row[c] EXCEPT !.status = t]
             n == pods[c]
             b == budget
  <1>2. /\ n > 0 /\ n \in Nat /\ w.status \in Monitored /\ UNCHANGED <<pods, req, budget>>
        /\ w \in Rows /\ row \in [Containers -> Rows]
    BY DEF Monitor, IInv, TypeOK
  <1>3. /\ row'[c] = v /\ \A d \in Containers : d # c => row'[d] = row[d]
        /\ v.status = t /\ v.reserved = w.reserved /\ v.kid = w.kid
    BY <1>1, <1>2 DEF SetRow, Rows
  <1> HIDE DEF v, w, n
  <1>4. ASSUME Backed(w, n, b)
        PROVE  /\ Backed(v, n, b)
               /\ Rested(w, n, b) => Rested(v, n, b)
               /\ \A op, pc, kid : OnTrack(op, pc, kid, w, n, b)
                                   => OnTrack(op, pc, kid, v, n, b)
    <2>1. Backed(v, n, b)
      BY <1>2, <1>3, <1>4 DEF Backed, Monitored
    <2>2. Rested(w, n, b) => Rested(v, n, b)
      BY <1>2, <1>3 DEF Rested, Monitored, Made
    <2>3. ASSUME NEW op, NEW pc, NEW kid, OnTrack(op, pc, kid, w, n, b)
          PROVE  OnTrack(op, pc, kid, v, n, b)
      <3>1. op = "create" => CreateOn(pc, v, n, b)
        BY <1>2, <1>3, <2>3 DEF OnTrack, CreateOn, Made
      <3>2. op = "delete" => DeleteOn(pc, kid, v, n, b)
        BY <1>2, <1>3, <2>2, <2>3 DEF OnTrack, DeleteOn, Monitored
      <3>3. op = "hibernate" => HibernateOn(pc, v, n, b)
        BY <1>2, <1>3, <2>2, <2>3 DEF OnTrack, HibernateOn
      <3>4. op = "resume" => ResumeOn(pc, v, n, b)
        BY <1>2, <1>3, <2>3 DEF OnTrack, ResumeOn, Monitored
      <3> QED BY <2>2, <2>3, <3>1, <3>2, <3>3, <3>4 DEF OnTrack
    <2> QED BY <2>1, <2>2, <2>3
  <1>5. ASSUME NEW d \in Containers, Backed(row[d], pods[d], b)
        PROVE  /\ Backed(row'[d], pods[d], b)
               /\ Rested(row[d], pods[d], b) => Rested(row'[d], pods[d], b)
               /\ \A op, pc, kid : OnTrack(op, pc, kid, row[d], pods[d], b)
                                   => OnTrack(op, pc, kid, row'[d], pods[d], b)
    <2>1. CASE d = c
      BY <1>3, <1>4, <1>5, <2>1 DEF w, n
    <2>2. CASE d # c
      BY <1>3, <1>5, <2>2
    <2> QED BY <2>1, <2>2
  <1>6. BudgetBounded' /\ Later(budget, budget')
    BY <1>2, BudgetFalls
  <1> QED BY <1>2, <1>5, <1>6, WorldTidy

\* A snapshot Job ends, or is killed.
LEMMA JobTidy ==
    ASSUME IInv, CInv, NEW j \in jobs, JobSucceeds(j) \/ JobFails(j) \/ JobVanishes(j)
    PROVE  CInv'
  <1> DEFINE w == row[j.c]
  <1>1. j.c \in Containers /\ w \in Rows /\ req \in [Slots -> Requests]
    BY DEF IInv, TypeOK, Jobs
  <1>2. UNCHANGED pods /\ BudgetBounded' /\ Later(budget, budget')
    BY BudgetFalls DEF JobSucceeds, JobFails, JobVanishes
  <1>3. Alike(w, WithSnapshot(w)) /\ Alike(w, WithSave(w, "Failed")) /\ Alike(w, w)
    BY <1>1, RowEffects DEF Alike
  <1>4. \A d \in Containers : Alike(row[d], row'[d])
    <2> HIDE DEF w
    <2>1. CASE JobSucceeds(j)
      BY <1>1, <1>3, <2>1, AlikeRow DEF JobSucceeds, w
    <2>2. CASE JobFails(j)
      BY <1>1, <1>3, <2>2, AlikeRow DEF JobFails, w
    <2>3. CASE JobVanishes(j)
      BY <2>3 DEF JobVanishes, Alike
    <2> QED BY <2>1, <2>2, <2>3
  <1>5. ASSUME NEW s \in Slots
        PROVE  /\ req'[s].op = req[s].op /\ req'[s].pc = req[s].pc
               /\ req'[s].kid = req[s].kid /\ req'[s].c = req[s].c
    <2>1. CASE JobSucceeds(j) /\ Waits(s, j.c)
      <3>1. req'[s] = [req[s] EXCEPT !.fresh = TRUE, !.own = @ \/ j.slot = s]
        BY <2>1 DEF JobSucceeds
      <3> QED BY <1>1, <3>1 DEF Requests
    <2>2. CASE ~(JobSucceeds(j) /\ Waits(s, j.c))
      BY <2>2 DEF JobSucceeds, JobFails, JobVanishes
    <2> QED BY <2>1, <2>2
  <1>6. \A s \in Slots, d \in Containers : Works(req'[s], d) <=> Works(req[s], d)
    BY <1>5 DEF Works
  <1> QED BY <1>2, <1>4, <1>5, <1>6, AlikeTidy

\* A restart or a closed tab takes operations away, and shows in the budget.
LEMMA KilledTidy ==
    ASSUME IInv, CInv, Crash \/ \E r \in Slots : Abandon(r)
    PROVE  CInv'
  <1>1. /\ UNCHANGED <<row, pods>> /\ Broken
        /\ \A s \in Slots : req'[s] = req[s] \/ req'[s] = Idle
    BY DEF Crash, Abandon, Goto, IInv, TypeOK
  <1>2. BudgetBounded' /\ Later(budget, budget') /\ ~Unbroken(budget')
    BY <1>1, BudgetFalls
  <1>3. \A d \in Containers : Alike(row[d], row'[d])
    BY <1>1 DEF Alike
  <1> QED BY <1>1, <1>2, <1>3, Idler, AlikeTidy

-----------------------------------------------------------------------------
(* The invariant, and what follows from it.                                *)

\* The invariant holds at first.
LEMMA InitTidy == Init => CInv
  <1> SUFFICES ASSUME Init PROVE CInv
    OBVIOUS
  <1>1. BudgetBounded
    BY BoundsAssumption DEF Init, BudgetBounded
  <1>2. \A r \in Slots, c \in Containers : ~Works(req[r], c)
    BY Idler DEF Init
  <1>3. Backed(AbsentRow, 0, budget) /\ Rested(AbsentRow, 0, budget)
    BY DEF Backed, Rested, AbsentRow, BlankRow, Active, Monitored, Made
  <1>4. \A c \in Containers : row[c] = AbsentRow /\ pods[c] = 0
    BY DEF Init
  <1>5. Alone /\ Tidy
    BY <1>2, <1>3, <1>4 DEF Alone, Tidy
  <1> QED BY <1>1, <1>5 DEF CInv

\* Every step keeps it.
LEMMA NextTidy ==
    ASSUME OneTab
    PROVE  IInv /\ CInv /\ [Next]_vars => CInv'
  <1> SUFFICES ASSUME IInv, CInv, [Next]_vars PROVE CInv'
    OBVIOUS
  <1>1. CASE \E r \in Slots, c \in Containers : CreateRow(r, c)
    BY <1>1, CreateRowTidy
  <1>2. CASE \E r \in Slots, c \in Containers, op \in Operations \ {"create"} :
                Begin(r, op, c)
    BY <1>2, BeginTidy
  <1>3. CASE \E r \in Slots : Step(r)
    BY <1>3, CreateTidy, DeleteTidy, SaveTidy, BackgroundTidy, HibernateTidy, ResumeTidy
       DEF Step, SaveStep
  <1>4. CASE Crash \/ \E r \in Slots : Abandon(r)
    BY <1>4, KilledTidy
  <1>5. CASE \E c \in Containers : Monitor(c)
    BY <1>5, MonitorTidy
  <1>6. CASE \E j \in jobs : JobSucceeds(j) \/ JobFails(j) \/ JobVanishes(j)
    BY <1>6, JobTidy
  <1>7. CASE UNCHANGED vars
    BY <1>7 DEF vars, CInv, BudgetBounded, Alone, Tidy, Works, Spared, Backed, Rested,
                OnTrack, CreateOn, DeleteOn, HibernateOn, ResumeOn, Unfailed, Unbroken
  <1> QED BY <1>1, <1>2, <1>3, <1>4, <1>5, <1>6, <1>7 DEF Next

\* With one tab, CInv is an invariant, whatever fails: each container is where
\* the operation engaged in it left it.
THEOREM Compensation ==
    ASSUME OneTab
    PROVE  Spec => []CInv
  <1>1. IInv /\ IInv' /\ CInv /\ [Next]_vars => CInv'
    BY NextTidy
  <1> QED BY InitTidy, Invariance, <1>1, PTL DEF Spec

\* With at most one call that fails or goes unanswered, CInv speaks of every
\* state.
LEMMA AlwaysSpared ==
    ASSUME MaxFail + MaxLost =< 1, IInv, CInv
    PROVE  Tidy
  <1>1. budget.fail \in Nat /\ budget.lost \in Nat /\ MaxFail \in Nat /\ MaxLost \in Nat
    BY BoundsAssumption DEF IInv, TypeOK
  <1> QED BY <1>1 DEF CInv, Spared

\* While the tab is alone, one call that fails or goes unanswered never leaves
\* a container that is being created, running or being resumed without its
\* reservation, however often the server restarts.
THEOREM Reserved ==
    ASSUME OneTab, MaxFail + MaxLost =< 1
    PROVE  Spec => []ActiveIsReserved
  <1>1. IInv /\ CInv => ActiveIsReserved
    BY AlwaysSpared DEF Tidy, Backed, Active, ActiveIsReserved
  <1> QED BY <1>1, Invariance, Compensation, PTL

\* A container that no operation works on rests.
LEMMA QuietRests ==
    ASSUME Tidy, NEW c \in Containers, Quiet(c)
    PROVE  Rested(row[c], pods[c], budget)
  BY DEF Tidy, Quiet, Engaged, Works

\* While no call has failed, no answer was lost and nothing was killed, every
\* container left alone has the pods that its status promises.
THEOREM Settled ==
    ASSUME OneTab
    PROVE  Spec => []PodsSettle
  <1>1. IInv /\ CInv => PodsSettle
    <2> SUFFICES ASSUME IInv, CInv, Undisturbed, NEW c \in Containers, Quiet(c)
                 PROVE  pods[c] = IF row[c].status \in {"Pending", "Running", "Failed"}
                                  THEN 1 ELSE 0
      BY DEF PodsSettle
    <2>1. budget.fail = MaxFail /\ budget.lost = MaxLost /\ budget.crash = MaxCrash
      BY DEF Undisturbed
    <2>2. Spared(budget) /\ Unbroken(budget) /\ Unfailed(budget)
      BY <2>1, BoundsAssumption DEF Spared, Unbroken, Unfailed
    <2>3. Rested(row[c], pods[c], budget)
      BY <2>2, QuietRests DEF CInv
    <2> QED BY <2>2, <2>3 DEF Rested, Made
  <1> QED BY <1>1, Invariance, Compensation, PTL

\* With one tab, no call that fails and no answer lost, what is hibernated has
\* no pod, whatever is killed.
THEOREM HibernatedBare ==
    ASSUME OneTab, MaxFail = 0, MaxLost = 0
    PROVE  Spec => []HibernatedHasNoPod
  <1>1. IInv /\ CInv => HibernatedHasNoPod
    <2> SUFFICES ASSUME IInv, CInv, NEW c \in Containers, row[c].status = "Hibernated"
                 PROVE  pods[c] = 0
      BY DEF HibernatedHasNoPod
    <2>1. Unfailed(budget) /\ Spared(budget)
      BY BoundsAssumption DEF IInv, TypeOK, CInv, BudgetBounded, Unfailed, Spared
    <2> QED BY <2>1 DEF CInv, Tidy, Backed
  <1> QED BY <1>1, Invariance, Compensation, PTL

-----------------------------------------------------------------------------
(* Any clients, and no faults: the spinners.                               *)

\* A container that the list shows more than a spinner for.
Calm(w, n) == w.status # "Resuming" /\ (w.status = "Pending" => n > 0)

\* The request q will put an end to the spinner of the row w.
Answers(q, w) ==
    \/ /\ w.status = "Resuming" /\ q.op = "resume"
       /\ q.pc \in {"stamp", "launch", "launched", "record", "rollback"}
    \/ /\ w.status = "Pending" /\ q.op = "create"
       /\ q.pc \in {"own", "launch", "undo", "ui_undo"}

\* Who takes pods away works on a row that has been created and recorded.
Aware(q, w) ==
    /\ q.op = "hibernate" /\ q.pc \in {"mark", "run", "running", "poll", "drop_pod", "release"}
         => w.status # "Pending"
    /\ q.op = "delete" /\ q.pc = "drop_pod" => w.status = "Deleted"
    /\ q.op = "create" => q.pc \notin {"ui_drop_pod", "ui_drop_row"}

SpinInv ==
    /\ \A c \in Containers :
          Calm(row[c], pods[c]) \/ \E r \in Slots : req[r].c = c /\ Answers(req[r], row[c])
    /\ \A r \in Slots, c \in Containers : req[r].c = c => Aware(req[r], row[c])

\* While nothing is over that was under way, a row goes from w to v and the
\* number of its pods from n to m, and the request on it from q to x.
Onward(q, x, w, v, n, m) ==
    /\ v.status = "Pending" => w.status = "Pending"
    /\ w.status = "Deleted" => v.status = "Deleted"
    /\ Aware(x, v)
    /\ \/ Calm(v, m)
       \/ Answers(x, v)
       \/ v.status = w.status /\ (m >= n \/ w.status # "Pending") /\ ~Answers(q, w)

\* A step that leaves the budget alone is no fault.
LEMMA NoFault ==
    ASSUME IInv, UNCHANGED budget
    PROVE  ~Fail /\ ~Lost /\ ~Raises /\ ~Broken
  BY DEF IInv, TypeOK, Fail, Lost, Raises, Broken

\* Where a slot goes from where it is.
LEMMA Going ==
    ASSUME IInv, NEW r \in Slots, NEW pc, Goto(r, pc)
    PROVE  IF pc = "idle" THEN req'[r] = Idle
           ELSE req'[r].op = req[r].op /\ req'[r].pc = pc /\ req'[r].c = req[r].c
  BY DEF Goto, IInv, TypeOK, Requests

\* Without faults a step of a slot leads its container onward.
LEMMA StepOnward ==
    ASSUME IInv, SpinInv, NEW r \in Slots, Step(r), UNCHANGED budget
    PROVE  \E v, m : /\ row' = [row EXCEPT ![req[r].c] = v]
                     /\ pods' = [pods EXCEPT ![req[r].c] = m]
                     /\ req'[r] = Idle \/ req'[r].c = req[r].c
                     /\ Onward(req[r], req'[r], row[req[r].c], v, pods[req[r].c], m)
  <1> DEFINE c == req[r].c
             w == row[c]
             n == pods[c]
             Good(v, m) == /\ row' = [row EXCEPT ![c] = v]
                           /\ pods' = [pods EXCEPT ![c] = m]
                           /\ req'[r] = Idle \/ req'[r].c = req[r].c
                           /\ Onward(req[r], req'[r], w, v, n, m)
  <1>1. /\ c \in Containers /\ w.status # "Absent" /\ w \in Rows /\ n \in Nat
        /\ req[r].pc # "idle" /\ row \in [Containers -> Rows] /\ pods \in [Containers -> Nat]
        /\ row = [row EXCEPT ![c] = w] /\ pods = [pods EXCEPT ![c] = n]
    BY OpSteps, BusySlot DEF IInv, TypeOK, RequestSound
  <1>2. ~Fail /\ ~Lost /\ ~Raises
    BY NoFault
  <1>3. Aware(req[r], w)
    BY <1>1 DEF SpinInv
  <1>4. Idle.op = "none" /\ Idle.pc = "idle"
    BY DEF Idle
  <1>5. ASSUME NEW pc, Goto(r, pc)
        PROVE  IF pc = "idle" THEN req'[r] = Idle
               ELSE req'[r].op = req[r].op /\ req'[r].pc = pc /\ req'[r].c = req[r].c
    BY <1>5, Going
  <1>6. Removed(w).status = "Deleted"
    BY <1>1 DEF Removed, Exists, BlankRow, Gone
  <1>7. Hibernated(w).status \in {"Hibernated", "Deleted"}
        /\ (w.status = "Deleted" => Hibernated(w).status = "Deleted")
    BY <1>1 DEF Hibernated, Updated, Exists, Gone, Rows
  <1> HIDE DEF c, w, n
  <1>10. CASE CreateStep(r)
    <2>1. req[r].op = "create" /\ req[r].pc \notin {"ui_drop_pod", "ui_drop_row"}
      BY <1>3, <1>10 DEF Aware, CreateStep, CreateOwn, CreateLaunch, CreateLaunched, CreateUndo,
           CreateUiUndo, CreateRecord, CreateUiDropPod, CreateUiDropRow, At
    <2>2. CASE CreateOwn(r)
      <3>1. Good(w, n)
        BY <1>1, <1>2, <1>4, <1>5, <2>1, <2>2
           DEF CreateOwn, Read, SentToLogin, At, Onward, Aware, Answers, Calm, Exists, Gone, c, w
      <3> QED BY <3>1 DEF c, w, n
    <2>3. CASE CreateLaunch(r)
      <3>1. Good(w, n) \/ Good(w, n + 1)
        BY <1>1, <1>2, <1>4, <1>5, <2>1, <2>3
           DEF CreateLaunch, PodStarts, PodRefused, SetPods, At, Onward, Aware, Answers, Calm, c, n
      <3> QED BY <3>1 DEF c, w, n
    <2>4. CASE CreateLaunched(r)
      <3>1. Good(w, n)
        BY <1>1, <1>2, <1>4, <1>5, <2>1, <2>4
           DEF CreateLaunched, PodAnswer, At, Onward, Aware, Answers, Calm, c
      <3> QED BY <3>1 DEF c, w, n
    <2>5. CASE CreateUndo(r) \/ CreateUiUndo(r)
      <3>1. Good(Removed(w), n)
        BY <1>1, <1>2, <1>4, <1>5, <1>6, <2>1, <2>5
           DEF CreateUndo, CreateUiUndo, BestEffort, SetRow, At, Onward, Aware, Answers, Calm, c, w
      <3> QED BY <3>1 DEF c, w, n
    <2>6. CASE CreateRecord(r)
      <3>1. WithPod(w).status = w.status
        BY <1>1 DEF WithPod, Updated, Rows
      <3>2. Good(WithPod(w), n)
        BY <1>1, <1>2, <1>4, <1>5, <2>1, <2>6, <3>1
           DEF CreateRecord, SentToLogin, Write, SetRow, At, Onward, Aware, Answers, Calm,
               c, w
      <3> QED BY <3>2 DEF c, w, n
    <2> QED BY <1>10, <2>1, <2>2, <2>3, <2>4, <2>5, <2>6
        DEF CreateStep, CreateUiDropPod, CreateUiDropRow, At
  <1>11. CASE DeleteStep(r)
    <2>1. CASE DeleteRow(r)
      <3>1. Good(Removed(w), n)
        BY <1>1, <1>2, <1>4, <1>5, <1>6, <2>1
           DEF DeleteRow, BestEffort, SetRow, At, Onward, Aware, Answers, Calm, c, w
      <3> QED BY <3>1 DEF c, w, n
    <2>2. CASE DeletePod(r)
      <3>1. Good(w, 0)
        BY <1>1, <1>2, <1>3, <1>4, <1>5, <2>2
           DEF DeletePod, SetPods, At, Onward, Aware, Answers, Calm, c
      <3> QED BY <3>1 DEF c, w, n
    <2> QED BY <1>11, <2>1, <2>2 DEF DeleteStep
  <1>12. CASE SaveStep(r)
    <2>1. \A s : WithSave(w, s).status = w.status
      BY <1>1 DEF WithSave, Updated, Rows
    <2>2. req[r].op = "save" /\ pods' = pods
      BY <1>12 DEF SaveStep, SaveOwn, SaveMark, SaveRun, SaveRunning, SaveNoteFailed, MarkPending,
           SaveStarts, SaveAnswer, At
    <2>3. req'[r] = Idle \/ (req'[r].op = "save" /\ req'[r].c = c)
      BY <1>5, <1>12, <2>2, StepRemembers DEF Step, c
    <2>4. \E v : row' = [row EXCEPT ![c] = v] /\ v.status = w.status
      BY <1>1, <1>12, <2>1 DEF SaveStep, SaveOwn, SaveMark, SaveRun, SaveRunning, SaveNoteFailed,
           MarkPending, SaveStarts, SaveAnswer, Write, BestEffort, SetRow, c, w
    <2>5. PICK v : row' = [row EXCEPT ![c] = v] /\ v.status = w.status
      BY <2>4
    <2>6. Good(v, n)
      BY <1>1, <1>4, <2>2, <2>3, <2>5 DEF Onward, Aware, Answers, Calm, c
    <2> QED BY <2>6 DEF c, w, n
  <1>13. CASE HibernateStep(r)
    <2>1. req[r].op = "hibernate"
      BY <1>13 DEF HibernateStep, HibernateOwn, HibernateMark, HibernateRun, HibernateRunning,
           HibernatePoll, HibernateDropPod, HibernateRelease, At
    <2>2. req'[r] = Idle \/ (req'[r].op = "hibernate" /\ req'[r].c = c)
      BY <1>13, <2>1, StepRemembers DEF Step, c
    <2>3. CASE HibernateOwn(r)
      <3>1. Good(w, n)
        BY <1>1, <1>2, <1>4, <1>5, <2>1, <2>3
           DEF HibernateOwn, At, Onward, Aware, Answers, Calm, c, w
      <3> QED BY <3>1 DEF c, w, n
    <2>4. CASE HibernateMark(r)
      <3>1. \A s : WithSave(w, s).status = w.status
        BY <1>1 DEF WithSave, Updated, Rows
      <3>2. Good(WithSave(w, "Pending"), n)
        BY <1>1, <1>2, <1>3, <1>4, <2>1, <2>2, <2>4, <3>1
           DEF HibernateMark, MarkPending, Write, SetRow, At, Onward, Aware, Answers, Calm, c, w
      <3> QED BY <3>2 DEF c, w, n
    <2>5. CASE HibernateRun(r) \/ HibernateRunning(r) \/ HibernatePoll(r)
      <3>1. row' = row /\ pods' = pods /\ req[r].pc \in {"run", "running", "poll"}
        BY <2>5 DEF HibernateRun, HibernateRunning, HibernatePoll, SaveStarts, SaveAnswer, At
      <3>2. Good(w, n)
        BY <1>1, <1>3, <1>4, <2>1, <2>2, <3>1 DEF Onward, Aware, Answers, Calm, c
      <3> QED BY <3>2 DEF c, w, n
    <2>6. CASE HibernateDropPod(r)
      <3>1. Good(w, 0)
        BY <1>1, <1>2, <1>3, <1>4, <2>1, <2>2, <2>6
           DEF HibernateDropPod, SetPods, At, Onward, Aware, Answers, Calm, c
      <3> QED BY <3>1 DEF c, w, n
    <2>7. CASE HibernateRelease(r)
      <3>1. Good(Hibernated(w), n)
        BY <1>1, <1>2, <1>4, <1>5, <1>7, <2>1, <2>7
           DEF HibernateRelease, BestEffort, SetRow, At, Onward, Aware, Answers, Calm, c, w
      <3> QED BY <3>1 DEF c, w, n
    <2> QED BY <1>13, <2>3, <2>4, <2>5, <2>6, <2>7 DEF HibernateStep
  <1>14. CASE ResumeStep(r)
    <2>1. req[r].op = "resume"
      BY <1>14 DEF ResumeStep, ResumeOwn, ResumeClaim, ResumeStamp, ResumeLaunch, ResumeLaunched,
           ResumeRecord, ResumeRollback, ResumeMarkFailed, At
    <2>2. req'[r] = Idle \/ (req'[r].op = "resume" /\ req'[r].c = c)
      BY <1>14, <2>1, StepRemembers DEF Step, c
    <2>3. CASE ResumeOwn(r)
      <3>1. row' = row /\ pods' = pods /\ req[r].pc = "own"
        BY <2>3 DEF ResumeOwn, At
      <3>2. Good(w, n)
        BY <1>1, <1>4, <2>1, <2>2, <3>1 DEF Onward, Aware, Answers, Calm, c
      <3> QED BY <3>2 DEF c, w, n
    <2>4. CASE ResumeClaim(r)
      <3>1. Claimed(w).status = "Resuming" /\ (Resumable(w) => w.status = "Hibernated")
        BY <1>1 DEF Claimed, Rows, Resumable
      <3>2. Good(Claimed(w), n) \/ Good(w, n)
        BY <1>1, <1>2, <1>4, <1>5, <2>1, <2>2, <2>4, <3>1
           DEF ResumeClaim, SetRow, At, Onward, Aware, Answers, Calm, c, w
      <3> QED BY <3>2 DEF c, w, n
    <2>5. CASE ResumeStamp(r)
      <3>1. Good(w, n)
        BY <1>1, <1>2, <1>4, <1>5, <2>1, <2>5
           DEF ResumeStamp, At, Onward, Aware, Answers, Calm, c
      <3> QED BY <3>1 DEF c, w, n
    <2>6. CASE ResumeLaunch(r)
      <3>1. Good(w, n) \/ Good(w, n + 1)
        BY <1>1, <1>2, <1>4, <1>5, <2>1, <2>6
           DEF ResumeLaunch, PodStarts, PodRefused, NoBaseImage, SetPods, At, Onward, Aware,
               Answers, Calm, c, n
      <3> QED BY <3>1 DEF c, w, n
    <2>7. CASE ResumeLaunched(r)
      <3>1. Good(w, n)
        BY <1>1, <1>2, <1>4, <1>5, <2>1, <2>7
           DEF ResumeLaunched, PodAnswer, At, Onward, Aware, Answers, Calm, c
      <3> QED BY <3>1 DEF c, w, n
    <2>8. CASE ResumeRecord(r)
      <3> DEFINE v == WithStatus(WithPod(w), "Running")
      <3>1. v.status \in {"Running", "Deleted"} /\ (w.status = "Deleted" => v.status = "Deleted")
        BY <1>1 DEF WithStatus, WithPod, Updated, Exists, Gone, Rows
      <3>2. Good(v, n)
        <4> HIDE DEF v
        <4>1. row' = [row EXCEPT ![c] = v] /\ pods' = pods
          BY <1>2, <2>8 DEF ResumeRecord, Write, SetRow, c, w, v
        <4> QED BY <1>1, <1>4, <2>2, <3>1, <4>1 DEF Onward, Aware, Calm, c
      <3> QED BY <3>2 DEF c, w, n
    <2>9. CASE ResumeRollback(r)
      <3>1. Good(Hibernated(w), n)
        BY <1>1, <1>2, <1>4, <1>5, <1>7, <2>1, <2>9
           DEF ResumeRollback, BestEffort, SetRow, At, Onward, Aware, Answers, Calm, c, w
      <3> QED BY <3>1 DEF c, w, n
    <2>10. CASE ResumeMarkFailed(r)
      <3> DEFINE v == WithStatus(w, "Failed")
      <3>1. v.status \in {"Failed", "Deleted"} /\ (w.status = "Deleted" => v.status = "Deleted")
        BY <1>1 DEF WithStatus, Updated, Exists, Gone, Rows
      <3>2. Good(v, n)
        <4> HIDE DEF v
        <4>1. row' = [row EXCEPT ![c] = v] /\ pods' = pods
          BY <1>2, <2>10 DEF ResumeMarkFailed, BestEffort, SetRow, c, w, v
        <4> QED BY <1>1, <1>4, <2>2, <3>1, <4>1 DEF Onward, Aware, Calm, c
      <3> QED BY <3>2 DEF c, w, n
    <2> QED BY <1>14, <2>3, <2>4, <2>5, <2>6, <2>7, <2>8, <2>9, <2>10 DEF ResumeStep
  <1> QED BY <1>10, <1>11, <1>12, <1>13, <1>14 DEF Step

\* What StepOnward says of one slot is enough for all of them.
LEMMA SpinStep ==
    ASSUME IInv, IInv', SpinInv, NEW r \in Slots, Step(r), UNCHANGED budget
    PROVE  SpinInv'
  <1> DEFINE c == req[r].c
  <1>1. PICK v, m : /\ row' = [row EXCEPT ![c] = v]
                    /\ pods' = [pods EXCEPT ![c] = m]
                    /\ req'[r] = Idle \/ req'[r].c = c
                    /\ Onward(req[r], req'[r], row[c], v, pods[c], m)
    BY StepOnward
  <1>2. /\ c \in Containers /\ row'[c] = v /\ pods'[c] = m
        /\ pods[c] \in Nat /\ m \in Nat
        /\ \A d \in Containers : d # c => row'[d] = row[d] /\ pods'[d] = pods[d]
    BY <1>1, OpSteps, BusySlot DEF IInv, TypeOK
  <1>3. \A s \in Slots : s # r => req'[s] = req[s]
    BY StepMovesOne DEF IInv, TypeOK
  <1>4. Idle.op = "none" /\ Idle.c \notin Containers
    BY NoneAssumption DEF Idle
  <1>5. /\ v.status = "Pending" => row[c].status = "Pending"
        /\ row[c].status = "Deleted" => v.status = "Deleted"
        /\ Aware(req'[r], v)
    BY <1>1 DEF Onward
  <1>6. \/ Calm(v, m)
        \/ Answers(req'[r], v)
        \/ /\ v.status = row[c].status /\ (m >= pods[c] \/ row[c].status # "Pending")
           /\ ~Answers(req[r], row[c])
    BY <1>1 DEF Onward
  <1>7. Calm(v, m) \/ \E s \in Slots : req'[s].c = c /\ Answers(req'[s], v)
    <2>1. CASE Calm(v, m)
      BY <2>1
    <2>2. CASE Answers(req'[r], v)
      BY <1>1, <1>4, <2>2 DEF Answers
    <2>3. CASE /\ v.status = row[c].status /\ (m >= pods[c] \/ row[c].status # "Pending")
               /\ ~Answers(req[r], row[c])
      <3>1. CASE Calm(row[c], pods[c])
        <4>1. m > 0 \/ v.status # "Pending"
          BY <1>2, <2>3, <3>1 DEF Calm
        <4> QED BY <2>3, <3>1, <4>1 DEF Calm
      <3>2. CASE \E s \in Slots : req[s].c = c /\ Answers(req[s], row[c])
        <4>1. PICK s \in Slots : req[s].c = c /\ Answers(req[s], row[c])
          BY <3>2
        <4>2. s # r /\ req'[s] = req[s]
          BY <1>3, <2>3, <4>1
        <4> QED BY <2>3, <4>1, <4>2 DEF Answers
      <3> QED BY <1>2, <3>1, <3>2 DEF SpinInv
    <2> QED BY <1>6, <2>1, <2>2, <2>3
  <1>8. ASSUME NEW d \in Containers
        PROVE  \/ Calm(row'[d], pods'[d])
               \/ \E s \in Slots : req'[s].c = d /\ Answers(req'[s], row'[d])
    <2>1. CASE d = c
      BY <1>2, <1>7, <2>1
    <2>2. CASE d # c
      <3>1. ASSUME NEW s \in Slots, req[s].c = d PROVE req'[s] = req[s]
        BY <1>3, <2>2, <3>1
      <3>2. \/ Calm(row[d], pods[d])
            \/ \E s \in Slots : req[s].c = d /\ Answers(req[s], row[d])
        BY DEF SpinInv
      <3> QED BY <1>2, <2>2, <3>1, <3>2
    <2> QED BY <2>1, <2>2
  <1>9. ASSUME NEW s \in Slots, NEW d \in Containers, req'[s].c = d
        PROVE  Aware(req'[s], row'[d])
    <2>1. CASE s = r
      BY <1>1, <1>2, <1>4, <1>5, <1>9, <2>1
    <2>2. CASE s # r
      <3>1. Aware(req[s], row[d]) /\ req'[s] = req[s]
        BY <1>3, <1>9, <2>2 DEF SpinInv
      <3>2. CASE d = c
        BY <1>2, <1>5, <3>1, <3>2 DEF Aware
      <3>3. CASE d # c
        BY <1>2, <3>1, <3>3
      <3> QED BY <3>2, <3>3
    <2> QED BY <2>1, <2>2
  <1> QED BY <1>8, <1>9 DEF SpinInv

\* The pods stay, the rows keep their statuses, and the requests what they are
\* about.
LEMMA SpinStays ==
    ASSUME SpinInv, UNCHANGED pods,
           \A c \in Containers : row'[c].status = row[c].status,
           \A r \in Slots : req'[r].op = req[r].op /\ req'[r].pc = req[r].pc
                            /\ req'[r].c = req[r].c
    PROVE  SpinInv'
  <1>1. ASSUME NEW c \in Containers
        PROVE  \/ Calm(row'[c], pods'[c])
               \/ \E r \in Slots : req'[r].c = c /\ Answers(req'[r], row'[c])
    BY DEF SpinInv, Calm, Answers
  <1>2. ASSUME NEW r \in Slots, NEW c \in Containers, req'[r].c = c
        PROVE  Aware(req'[r], row'[c])
    BY <1>2 DEF SpinInv, Aware
  <1> QED BY <1>1, <1>2 DEF SpinInv

\* A request that has only begun knows nothing of the row yet; what it takes
\* over is a free slot, which answered nothing.
LEMMA SpinBegins ==
    ASSUME IInv, SpinInv, NEW r \in Slots, NEW c \in Containers, NEW op \in Operations \ {"create"},
           Begin(r, op, c)
    PROVE  SpinInv'
  <1> DEFINE q == [Idle EXCEPT !.op = op, !.c = c, !.kid = row[c].kid, !.pc = FirstPc(op)]
  <1>1. q.op = op /\ q.c = c /\ q.pc \in {"own", "drop_row"}
    BY DEF Idle, FirstPc
  <1>2. /\ req' = [req EXCEPT ![r] = q] /\ UNCHANGED <<row, pods, budget>>
        /\ req[r] = Idle /\ req \in [Slots -> Requests]
    BY DEF Begin, Free, IInv, TypeOK
  <1>3. Idle.c \notin Containers
    BY NoneAssumption DEF Idle
  <1> HIDE DEF q
  <1>4. ASSUME NEW d \in Containers
        PROVE  \/ Calm(row'[d], pods'[d])
               \/ \E s \in Slots : req'[s].c = d /\ Answers(req'[s], row'[d])
    BY <1>2, <1>3 DEF SpinInv
  <1>5. ASSUME NEW s \in Slots, NEW d \in Containers, req'[s].c = d
        PROVE  Aware(req'[s], row'[d])
    <2>1. CASE s = r
      BY <1>1, <1>2, <2>1 DEF Aware
    <2>2. CASE s # r
      BY <1>2, <1>5, <2>2 DEF SpinInv
    <2> QED BY <2>1, <2>2
  <1> QED BY <1>2, <1>4, <1>5 DEF SpinInv

\* A container that is created has its create to answer for it.
LEMMA SpinCreates ==
    ASSUME IInv, SpinInv, NEW r \in Slots, NEW c \in Containers, CreateRow(r, c),
           UNCHANGED budget
    PROVE  SpinInv'
  <1> DEFINE q == [Idle EXCEPT !.op = "create", !.c = c, !.pc = "own"]
  <1>1. q.op = "create" /\ q.c = c /\ q.pc = "own"
    BY DEF Idle
  <1>2. ~Lost
    BY NoFault
  <1>3. /\ req' = [req EXCEPT ![r] = q] /\ UNCHANGED <<pods, budget>>
        /\ row' = [row EXCEPT ![c] = Created]
        /\ req[r] = Idle /\ req \in [Slots -> Requests] /\ row \in [Containers -> Rows]
        /\ row[c].status = "Absent"
    BY <1>2 DEF CreateRow, SetRow, Free, IInv, TypeOK
  <1>4. Idle.c \notin Containers /\ Created.status = "Pending"
    BY NoneAssumption DEF Idle, Created, BlankRow
  <1>5. \A s \in Slots : req[s].c # c
    BY <1>3, <1>4 DEF IInv, SlotSound, RequestSound
  <1> HIDE DEF q
  <1>6. ASSUME NEW d \in Containers
        PROVE  \/ Calm(row'[d], pods'[d])
               \/ \E s \in Slots : req'[s].c = d /\ Answers(req'[s], row'[d])
    <2>1. CASE d = c
      BY <1>1, <1>3, <1>4, <2>1 DEF Answers
    <2>2. CASE d # c
      BY <1>3, <1>4, <2>2 DEF SpinInv
    <2> QED BY <2>1, <2>2
  <1>7. ASSUME NEW s \in Slots, NEW d \in Containers, req'[s].c = d
        PROVE  Aware(req'[s], row'[d])
    <2>1. CASE s = r
      BY <1>1, <1>3, <2>1 DEF Aware
    <2>2. CASE s # r
      BY <1>3, <1>5, <1>7, <2>2 DEF SpinInv
    <2> QED BY <2>1, <2>2
  <1> QED BY <1>3, <1>6, <1>7 DEF SpinInv

\* What a pod's phase says of a row is no spinner.
LEMMA SpinMonitored ==
    ASSUME IInv, SpinInv, NEW c \in Containers, Monitor(c)
    PROVE  SpinInv'
  <1>1. PICK t \in {"Running", "Failed"} : SetRow(c, [row[c] EXCEPT !.status = t])
    BY DEF Monitor
  <1>2. /\ row'[c].status = t /\ \A d \in Containers : d # c => row'[d] = row[d]
        /\ row[c].status # "Deleted" /\ UNCHANGED <<pods, req, budget>>
    BY <1>1 DEF Monitor, Monitored, SetRow, IInv, TypeOK, Rows
  <1>3. ASSUME NEW d \in Containers
        PROVE  \/ Calm(row'[d], pods'[d])
               \/ \E s \in Slots : req'[s].c = d /\ Answers(req'[s], row'[d])
    <2>1. CASE d = c
      BY <1>2, <2>1 DEF Calm
    <2>2. CASE d # c
      BY <1>2, <2>2 DEF SpinInv
    <2> QED BY <2>1, <2>2
  <1>4. ASSUME NEW s \in Slots, NEW d \in Containers, req'[s].c = d
        PROVE  Aware(req'[s], row'[d])
    <2>1. CASE d = c
      BY <1>2, <1>4, <2>1 DEF SpinInv, Aware
    <2>2. CASE d # c
      BY <1>2, <1>4, <2>2 DEF SpinInv
    <2> QED BY <2>1, <2>2
  <1> QED BY <1>2, <1>3, <1>4 DEF SpinInv

\* Every step that is no fault keeps all that.
LEMMA SpinKeeps ==
    ASSUME IInv, SpinInv, [Next]_vars, UNCHANGED budget
    PROVE  SpinInv'
  <1>1. ~Broken
    BY NoFault
  <1>2. CASE \E r \in Slots, c \in Containers : CreateRow(r, c)
    BY <1>2, SpinCreates
  <1>3. CASE \E r \in Slots, c \in Containers, op \in Operations \ {"create"} : Begin(r, op, c)
    BY <1>3, SpinBegins
  <1>4. CASE \E r \in Slots : Step(r)
    BY <1>1, <1>4, NextKeeps, SpinStep
  <1>5. CASE \E c \in Containers : Monitor(c)
    BY <1>5, SpinMonitored
  <1>6. CASE \E j \in jobs : JobSucceeds(j)
    <2>1. PICK j \in jobs : JobSucceeds(j)
      BY <1>6
    <2>2. j.c \in Containers /\ row[j.c] \in Rows /\ row \in [Containers -> Rows]
          /\ req \in [Slots -> Requests]
      BY DEF IInv, TypeOK, Jobs
    <2>3. WithSnapshot(row[j.c]).status = row[j.c].status
      BY <2>2 DEF WithSnapshot, Updated, Rows
    <2>4. \A c \in Containers : row'[c].status = row[c].status
      BY <2>1, <2>2, <2>3 DEF JobSucceeds, SetRow
    <2>5. \A r \in Slots : req'[r] = req[r] \/ req'[r] = Told(req[r], r, j)
      BY <2>1 DEF JobSucceeds, Told
    <2>6. ASSUME NEW r \in Slots
          PROVE  req'[r].op = req[r].op /\ req'[r].pc = req[r].pc /\ req'[r].c = req[r].c
      <3>1. CASE req'[r] = req[r]
        BY <3>1
      <3>2. CASE req'[r] = Told(req[r], r, j)
        BY <2>2, <3>2 DEF Told, Requests
      <3> QED BY <2>5, <3>1, <3>2
    <2> QED BY <1>1, <2>1, <2>4, <2>6, SpinStays DEF JobSucceeds
  <1>7. CASE \E j \in jobs : JobFails(j)
    <2>1. PICK j \in jobs : JobFails(j)
      BY <1>7
    <2>2. j.c \in Containers /\ row[j.c] \in Rows /\ row \in [Containers -> Rows]
      BY DEF IInv, TypeOK, Jobs
    <2>3. WithSave(row[j.c], "Failed").status = row[j.c].status
      BY <2>2 DEF WithSave, Updated, Rows
    <2>4. \A c \in Containers : row'[c].status = row[c].status
      BY <2>1, <2>2, <2>3 DEF JobFails, SetRow
    <2> QED BY <1>1, <2>1, <2>4, SpinStays DEF JobFails
  <1>8. CASE \E j \in jobs : JobVanishes(j)
    BY <1>1, <1>8 DEF JobVanishes
  <1>9. CASE Crash \/ \E r \in Slots : Abandon(r)
    BY <1>1, <1>9 DEF Crash, Abandon
  <1>10. CASE UNCHANGED vars
    BY <1>1, <1>10, SpinStays DEF vars
  <1> QED BY <1>2, <1>3, <1>4, <1>5, <1>6, <1>7, <1>8, <1>9, <1>10 DEF Next

\* A fault is not undone: the budget never comes back to what it was.
LEMMA Disturbed ==
    ASSUME IInv, BudgetBounded, [Next]_vars
    PROVE  BudgetBounded' /\ (Undisturbed' => Undisturbed /\ UNCHANGED budget)
  <1>1. /\ budget.fail \in Nat /\ budget.lost \in Nat /\ budget.crash \in Nat
        /\ budget \in [fail : Nat, lost : Nat, crash : Nat]
        /\ MaxFail \in Nat /\ MaxLost \in Nat /\ MaxCrash \in Nat
    BY BoundsAssumption DEF IInv, TypeOK
  <1>2. CASE Fail
    <2>1. /\ budget'.fail = budget.fail - 1 /\ budget'.lost = budget.lost
          /\ budget'.crash = budget.crash
      BY <1>1, <1>2 DEF Fail
    <2>2. ~Undisturbed'
      BY <1>1, <2>1 DEF BudgetBounded, Undisturbed
    <2> QED BY <1>1, <2>1, <2>2 DEF BudgetBounded
  <1>3. CASE Lost
    <2>1. /\ budget'.fail = budget.fail /\ budget'.lost = budget.lost - 1
          /\ budget'.crash = budget.crash
      BY <1>1, <1>3 DEF Lost
    <2>2. ~Undisturbed'
      BY <1>1, <2>1 DEF BudgetBounded, Undisturbed
    <2> QED BY <1>1, <2>1, <2>2 DEF BudgetBounded
  <1>4. CASE Broken
    <2>1. /\ budget'.fail = budget.fail /\ budget'.lost = budget.lost
          /\ budget'.crash = budget.crash - 1
      BY <1>1, <1>4 DEF Broken
    <2>2. ~Undisturbed'
      BY <1>1, <2>1 DEF BudgetBounded, Undisturbed
    <2> QED BY <1>1, <2>1, <2>2 DEF BudgetBounded
  <1>5. CASE UNCHANGED budget
    BY <1>5 DEF BudgetBounded, Undisturbed
  <1> QED BY <1>2, <1>3, <1>4, <1>5, StepBudget

\* As long as no call has failed or gone unanswered and nothing was killed, no
\* spinner is left behind, however many tabs, stale lists and clients start
\* operations on the same container at the same time.
THEOREM Unstuck == Spec => []NothingStuck
  <1> DEFINE Inv == BudgetBounded /\ (Undisturbed => SpinInv)
  <1>1. Init => Inv
    <2> SUFFICES ASSUME Init PROVE Inv
      OBVIOUS
    <2>1. Idle.c \notin Containers /\ AbsentRow.status = "Absent"
      BY NoneAssumption DEF Idle, AbsentRow, BlankRow
    <2>2. SpinInv
      BY <2>1 DEF Init, SpinInv, Calm
    <2>3. BudgetBounded
      BY BoundsAssumption DEF Init, BudgetBounded
    <2> QED BY <2>2, <2>3
  <1>2. IInv /\ Inv /\ [Next]_vars => Inv'
    BY Disturbed, SpinKeeps
  <1>3. Inv => NothingStuck
    <2> SUFFICES ASSUME SpinInv, NEW c \in Containers, Quiet(c) PROVE Calm(row[c], pods[c])
      BY DEF NothingStuck, Calm
    <2> QED BY DEF SpinInv, Quiet, Engaged, Answers
  <1> HIDE DEF Inv
  <1> QED BY <1>1, <1>2, <1>3, Invariance, PTL DEF Spec
=============================================================================
