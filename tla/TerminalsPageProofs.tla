------------------------- MODULE TerminalsPageProofs -------------------------
(***************************************************************************)
(* What TerminalsPage keeps invariant, for any number of containers and    *)
(* any bounds on requests, events, clicks and faults.                      *)
(*                                                                         *)
(* The invariant says of each container what the page's three sources know *)
(* of it: the events in flight (that a container runs is said before       *)
(* anything that follows from it, and the last event has its status), the  *)
(* answers in flight (true unless marked outdated), and the list itself;   *)
(* and, while no call has failed, which step under way answers for a pod.  *)
(***************************************************************************)
EXTENDS TerminalsPage, FiniteSetTheorems, SequenceTheorems, TLAPS

-----------------------------------------------------------------------------
(* Sequences of events.                                                    *)

NoneOf(es, t) == \A i \in 1 .. Len(es) : es[i].t # t

Runs(ev, t) == ev.t = t /\ ev.status = "Running"

RunsIn(es, t) == \E i \in 1 .. Len(es) : Runs(es[i], t)

\* An event sent after a container had run follows the one that says it runs.
RunsFirst(es, t) ==
    \A j \in 1 .. Len(es) :
        es[j].t = t /\ es[j].ran => \E i \in 1 .. (j - 1) : Runs(es[i], t)

LastIs(es, t, status) ==
    \A i \in 1 .. Len(es) :
        es[i].t = t => es[i].status = status \/ \E j \in (i + 1) .. Len(es) : es[j].t = t

\* No event.
LEMMA NoEvents ==
    ASSUME NEW t
    PROVE  /\ NoneOf(<<>>, t) /\ ~RunsIn(<<>>, t) /\ RunsFirst(<<>>, t)
           /\ \A status : LastIs(<<>>, t, status)
  BY DEF NoneOf, RunsIn, RunsFirst, LastIs

\* A sequence that has no event of a container says all of it.
LEMMA NoneOfFacts ==
    ASSUME NEW es \in Seq(Events), NEW t, NoneOf(es, t)
    PROVE  /\ ~RunsIn(es, t) /\ RunsFirst(es, t)
           /\ \A status : LastIs(es, t, status)
  BY DEF NoneOf, RunsIn, RunsFirst, LastIs, Runs

\* One more event.
LEMMA AppendFacts ==
    ASSUME NEW es \in Seq(Events), NEW ev \in Events, NEW t
    PROVE  LET more == Append(es, ev)
           IN  /\ NoneOf(more, t) <=> NoneOf(es, t) /\ ev.t # t
               /\ RunsIn(es, t) => RunsIn(more, t)
               /\ Runs(ev, t) => RunsIn(more, t)
               /\ RunsFirst(es, t) /\ (ev.t = t /\ ev.ran => RunsIn(es, t)) => RunsFirst(more, t)
               /\ ev.t = t => LastIs(more, t, ev.status)
               /\ ev.t # t => \A status : LastIs(es, t, status) => LastIs(more, t, status)
  <1> DEFINE more == Append(es, ev)
  <1>1. PICK n \in Nat : n = Len(es)
    OBVIOUS
  <1>2. /\ Len(more) = n + 1
        /\ \A i \in 1 .. n : more[i] = es[i]
        /\ more[n + 1] = ev
    BY <1>1
  <1> HIDE DEF more
  <1>3. NoneOf(more, t) <=> NoneOf(es, t) /\ ev.t # t
    BY <1>1, <1>2 DEF NoneOf
  <1>4. RunsIn(es, t) => RunsIn(more, t)
    BY <1>1, <1>2 DEF RunsIn
  <1>5. Runs(ev, t) => RunsIn(more, t)
    BY <1>1, <1>2 DEF RunsIn
  <1>6. RunsFirst(es, t) /\ (ev.t = t /\ ev.ran => RunsIn(es, t)) => RunsFirst(more, t)
    BY <1>1, <1>2 DEF RunsFirst, RunsIn
  <1>7. ev.t = t => LastIs(more, t, ev.status)
    BY <1>1, <1>2 DEF LastIs
  <1>8. ev.t # t => \A status : LastIs(es, t, status) => LastIs(more, t, status)
    BY <1>1, <1>2 DEF LastIs
  <1> QED BY <1>3, <1>4, <1>5, <1>6, <1>7, <1>8 DEF more

\* The first event is taken.
LEMMA TailFacts ==
    ASSUME NEW es \in Seq(Events), es # <<>>, NEW t
    PROVE  LET rest == Tail(es)
               ev == Head(es)
           IN  /\ NoneOf(es, t) <=> NoneOf(rest, t) /\ ev.t # t
               /\ ~Runs(ev, t) => (RunsIn(es, t) => RunsIn(rest, t))
               /\ ~Runs(ev, t) => (RunsFirst(es, t) => RunsFirst(rest, t))
               /\ RunsFirst(es, t) /\ ev.t = t => ~ev.ran
               /\ \A status : LastIs(es, t, status) => LastIs(rest, t, status)
               /\ \A status : LastIs(es, t, status) /\ NoneOf(rest, t) /\ ev.t = t
                                => ev.status = status
  <1> DEFINE rest == Tail(es)
             ev == Head(es)
  <1>1. PICK n \in Nat : Len(es) = n + 1
    <2>1. Len(es) \in Nat /\ Len(es) # 0
      OBVIOUS
    <2> QED BY <2>1
  <1>2. /\ Len(rest) = n
        /\ \A i \in 1 .. n : rest[i] = es[i + 1]
        /\ ev = es[1]
    BY <1>1
  <1> HIDE DEF rest, ev
  <1>3. NoneOf(es, t) <=> NoneOf(rest, t) /\ ev.t # t
    <2>1. ASSUME NEW i \in 1 .. (n + 1)
          PROVE  i = 1 \/ (i - 1 \in 1 .. n /\ es[i] = rest[i - 1])
      <3>1. i = 1 \/ (i - 1 \in 1 .. n /\ (i - 1) + 1 = i)
        OBVIOUS
      <3> QED BY <1>2, <3>1
    <2>2. \A i \in 1 .. n : i + 1 \in 1 .. (n + 1)
      OBVIOUS
    <2>3. 1 \in 1 .. (n + 1)
      OBVIOUS
    <2> QED BY <1>1, <1>2, <2>1, <2>2, <2>3 DEF NoneOf
  <1>4. ASSUME ~Runs(ev, t), RunsIn(es, t)
        PROVE  RunsIn(rest, t)
    <2>1. PICK i \in 1 .. (n + 1) : Runs(es[i], t)
      BY <1>1, <1>4 DEF RunsIn
    <2>2. i - 1 \in 1 .. n /\ rest[i - 1] = es[i]
      BY <1>2, <1>4, <2>1
    <2> QED BY <1>2, <2>1, <2>2 DEF RunsIn
  <1>5. ASSUME ~Runs(ev, t), RunsFirst(es, t)
        PROVE  RunsFirst(rest, t)
    <2>1. SUFFICES ASSUME NEW j \in 1 .. n, rest[j].t = t, rest[j].ran
                   PROVE  \E i \in 1 .. (j - 1) : Runs(rest[i], t)
      BY <1>2 DEF RunsFirst
    <2>2. j + 1 \in 1 .. Len(es) /\ es[j + 1].t = t /\ es[j + 1].ran /\ (j + 1) - 1 = j
      BY <1>1, <1>2, <2>1
    <2>3. PICK i \in 1 .. j : Runs(es[i], t)
      BY <1>5, <2>2 DEF RunsFirst
    <2>4. i - 1 \in 1 .. (j - 1) /\ rest[i - 1] = es[i]
      BY <1>2, <1>5, <2>3
    <2> QED BY <2>3, <2>4
  <1>6. RunsFirst(es, t) /\ ev.t = t => ~ev.ran
    BY <1>1, <1>2 DEF RunsFirst
  <1>7. ASSUME NEW status, LastIs(es, t, status)
        PROVE  LastIs(rest, t, status)
    <2>1. SUFFICES ASSUME NEW i \in 1 .. n, rest[i].t = t, rest[i].status # status
                   PROVE  \E j \in (i + 1) .. n : rest[j].t = t
      BY <1>2 DEF LastIs
    <2>2. i + 1 \in 1 .. Len(es) /\ es[i + 1].t = t /\ es[i + 1].status # status
      BY <1>1, <1>2, <2>1
    <2>3. PICK j \in (i + 2) .. (n + 1) : es[j].t = t
      BY <1>1, <1>7, <2>2 DEF LastIs
    <2>4. j - 1 \in (i + 1) .. n /\ rest[j - 1] = es[j]
      BY <1>2, <2>3
    <2> QED BY <2>3, <2>4
  <1>8. ASSUME NEW status, LastIs(es, t, status), NoneOf(rest, t), ev.t = t
        PROVE  ev.status = status
    <2>1. SUFFICES ASSUME ev.status # status
                   PROVE  FALSE
      OBVIOUS
    <2>2. PICK j \in 2 .. (n + 1) : es[j].t = t
      BY <1>1, <1>2, <1>8, <2>1 DEF LastIs
    <2>3. j - 1 \in 1 .. n /\ rest[j - 1] = es[j]
      BY <1>2, <2>2
    <2> QED BY <1>2, <1>8, <2>2, <2>3 DEF NoneOf
  <1> QED BY <1>3, <1>4, <1>5, <1>6, <1>7, <1>8 DEF rest, ev

-----------------------------------------------------------------------------
(* Sets of answers.                                                        *)

ListsOnly(as, t, shown) == \A a \in as : a.view[t].shown \in shown

TrueOf(as, t, shown) == \A a \in as : t \in a.old \/ a.view[t].shown = shown

OutdatedBy(as, t) == {[a EXCEPT !.old = @ \cup {t}] : a \in as}

\* No answer.
LEMMA NoAnswers ==
    ASSUME NEW t
    PROVE  \A shown : ListsOnly({}, t, shown) /\ TrueOf({}, t, shown)
  BY DEF ListsOnly, TrueOf

\* Answers are marked outdated for one container.
LEMMA OutdatedFacts ==
    ASSUME NEW as \in SUBSET Answers, IsFiniteSet(as), NEW u \in Terminals, NEW t
    PROVE  LET marked == OutdatedBy(as, u)
           IN  /\ marked \in SUBSET Answers /\ IsFiniteSet(marked)
               /\ marked = {} <=> as = {}
               /\ \A shown : ListsOnly(as, t, shown) => ListsOnly(marked, t, shown)
               /\ t = u => \A shown : TrueOf(marked, t, shown)
               /\ \A shown : TrueOf(as, t, shown) => TrueOf(marked, t, shown)
  <1> DEFINE mark(a) == [a EXCEPT !.old = @ \cup {u}]
             marked == OutdatedBy(as, u)
  <1>1. \A a \in as : mark(a) \in Answers /\ mark(a).view = a.view /\ mark(a).old = a.old \cup {u}
    BY DEF Answers
  <1>2. marked = {mark(a) : a \in as}
    BY DEF OutdatedBy
  <1>3. IsFiniteSet(marked)
    <2> DEFINE f == [a \in as |-> mark(a)]
    <2>1. f \in Surjection(as, marked)
      BY <1>2 DEF Surjection
    <2> QED BY <2>1, FS_Surjection
  <1> HIDE DEF mark, marked
  <1>4. marked \in SUBSET Answers /\ (marked = {} <=> as = {})
    BY <1>1, <1>2
  <1>5. \A shown : ListsOnly(as, t, shown) => ListsOnly(marked, t, shown)
    BY <1>1, <1>2 DEF ListsOnly
  <1>6. t = u => \A shown : TrueOf(marked, t, shown)
    BY <1>1, <1>2 DEF TrueOf
  <1>7. \A shown : TrueOf(as, t, shown) => TrueOf(marked, t, shown)
    BY <1>1, <1>2 DEF TrueOf
  <1> QED BY <1>3, <1>4, <1>5, <1>6, <1>7 DEF marked

-----------------------------------------------------------------------------
(* The invariant.                                                          *)

CloudRow == [status : Statuses \cup {"none", "gone"}, kid : BOOLEAN, pod : BOOLEAN]

PageRow == [view : Views, tracked : BOOLEAN, form : Stages, ops : SUBSET Ops]

Wires == [up : BOOLEAN, phase : Phases, events : Seq(Events), asked : 0 .. MaxLoads,
          answers : SUBSET Answers, left : SUBSET (Terminals \X Requests)]

Histories == [ran : SUBSET Terminals, unseen : SUBSET Terminals,
              misled : SUBSET Terminals, rushed : SUBSET Terminals,
              clicks : 0 .. MaxClicks]

\* What the list shows of a container, now and by the answers in flight.
ListShows(t, shown) ==
    tab[t].view.shown \in shown /\ ListsOnly(wire.answers, t, shown)

\* Of a container that was never created nothing is known.
Unborn(t) ==
    cloud[t].status = "none" =>
        /\ ~cloud[t].pod /\ t \notin told.ran /\ ~tab[t].tracked
        /\ tab[t].ops = {} /\ tab[t].form \in {"none", "row"}
        /\ ListShows(t, {"none"}) /\ NoneOf(wire.events, t)

\* Until its pod is made only the form has a container in hand, and as long as
\* the form has it the container is not in pendingContainers.
InForm(t) ==
    /\ At(t, "row") => cloud[t].status = "none"
    /\ tab[t].form \in {"rowed", "launch"} =>
          /\ cloud[t].status = "Pending" /\ ~cloud[t].pod /\ tab[t].ops = {}
          /\ ListShows(t, {"none", "Pending"}) /\ NoneOf(wire.events, t)
    /\ tab[t].tracked => At(t, "none")

\* As long as the page was told all of it in time, that a container has run is
\* in the events to come, ahead of what Cloud sent in that knowledge.
RunAhead(t) ==
    t \notin told.unseen /\ (tab[t].tracked \/ ~At(t, "none")) =>
        /\ t \in told.ran => RunsIn(wire.events, t)
        /\ RunsFirst(wire.events, t)

\* What is in flight ends with the truth.
InFlightTrue(t) ==
    /\ Exists(t) => LastIs(wire.events, t, cloud[t].status)
    /\ TrueOf(wire.answers, t, Listing(t).shown)

\* The page will get a list: when the stream is up again at the latest, but not
\* when it is up for the first time.
AnswerDue ==
    (~wire.up /\ wire.phase # "stream") \/ wire.asked > 0 \/ wire.answers # {}

\* The list is right about who exists, and, with no event left, about all.
ListTrue(t) ==
    \/ AnswerDue \/ At(t, "rowed") \/ At(t, "undo_row") \/ t \in told.misled
    \/ /\ Exists(t) <=> tab[t].view.shown # "none"
       /\ NoneOf(wire.events, t) => tab[t].view.shown = Listing(t).shown

\* Some step under way answers for the pod of a row that is gone.
PodCare(status, pod, form, ops) ==
    /\ \A op, other \in ops : op = other
    /\ ops # {} => form = "none"
    /\ "clean_row" \in ops => ~pod
    /\ "resuming" \in ops => status \in Statuses
    /\ form = "undo_row" => ~pod
    /\ pod /\ status = "gone" => "drop_pod" \in ops \/ "clean_pod" \in ops

\* It does while no call has failed and one thing is done at a time.
PodOwned(t) ==
    faults = MaxFaults /\ t \notin told.rushed =>
        PodCare(cloud[t].status, cloud[t].pod, tab[t].form, tab[t].ops)

\* What is left to be served of what earlier pages asked of a container.
LeftOf(t, left) == {q \in Requests : <<t, q>> \in left}

\* What an earlier page asked of a container, after a reload, is out of the hands
\* of the form.
LeftSound(t) ==
    \A q \in LeftOf(t, wire.left) :
        At(t, "none") /\ faults # MaxFaults /\ (q = "insert" <=> cloud[t].status = "none")

Sound(t) ==
    /\ Unborn(t) /\ InForm(t) /\ RunAhead(t) /\ InFlightTrue(t) /\ ListTrue(t)
    /\ PodOwned(t) /\ LeftSound(t)

IInv ==
    /\ TypeOK
    /\ IsFiniteSet(wire.answers)
    /\ IF wire.up THEN wire.phase = "done" ELSE wire.events = <<>>
    /\ \A t \in Terminals : Sound(t)

-----------------------------------------------------------------------------
(* Containers that a step is not about.                                    *)

\* What is in flight says the same of a container as before the step.
WireKept(t) ==
    /\ NoneOf(wire.events, t)' <=> NoneOf(wire.events, t)
    /\ RunsIn(wire.events, t) => RunsIn(wire.events, t)'
    /\ RunsFirst(wire.events, t) => RunsFirst(wire.events, t)'
    /\ \A status : LastIs(wire.events, t, status) => LastIs(wire'.events, t, status)
    /\ \A shown : ListsOnly(wire.answers, t, shown) => ListsOnly(wire'.answers, t, shown)
    /\ \A shown : TrueOf(wire.answers, t, shown) => TrueOf(wire'.answers, t, shown)

Kept(t) ==
    /\ cloud'[t] = cloud[t] /\ tab'[t] = tab[t] /\ WireKept(t)
    /\ t \in told'.ran <=> t \in told.ran
    /\ t \in told'.unseen <=> t \in told.unseen
    /\ t \in told'.misled <=> t \in told.misled
    /\ t \in told'.rushed <=> t \in told.rushed
    /\ AnswerDue => AnswerDue'
    /\ LeftOf(t, wire'.left) \subseteq LeftOf(t, wire.left)
    /\ faults' = MaxFaults => faults = MaxFaults

\* Nothing changes for it.
LEMMA KeptSound ==
    ASSUME NEW t, Sound(t), Kept(t)
    PROVE  Sound(t)'
  <1> USE DEF Sound, Kept, WireKept
  <1>1. Unborn(t)'
    BY DEF Unborn, ListShows
  <1>2. InForm(t)'
    BY DEF InForm, ListShows, At
  <1>3. RunAhead(t)'
    BY DEF RunAhead, At
  <1>4. InFlightTrue(t)'
    BY DEF InFlightTrue, Exists, Listing
  <1>5. ListTrue(t)'
    BY DEF ListTrue, Exists, Listing, At
  <1>6. PodOwned(t)'
    BY DEF PodOwned
  <1>7. LeftSound(t)'
    BY DEF LeftSound, At
  <1> QED BY <1>1, <1>2, <1>3, <1>4, <1>5, <1>6, <1>7

-----------------------------------------------------------------------------
(* What a step does to a row and to the page.                              *)

RowOnly(t) ==
    /\ cloud' \in [Terminals -> CloudRow]
    /\ \A u \in Terminals \ {t} : cloud'[u] = cloud[u]

PageOnly(t) ==
    /\ tab' \in [Terminals -> PageRow]
    /\ \A u \in Terminals \ {t} : tab'[u] = tab[u]

RowBecomes(t, status, pod) ==
    /\ RowOnly(t)
    /\ cloud'[t].status = status
    /\ cloud'[t].pod <=> pod

PageBecomes(t, shown, tracked, form, ops) ==
    /\ PageOnly(t)
    /\ tab'[t].view.shown = shown
    /\ tab'[t].tracked <=> tracked
    /\ tab'[t].form = form
    /\ tab'[t].ops = ops

\* The types, by their names.
LEMMA Types ==
    ASSUME TypeOK
    PROVE  /\ cloud \in [Terminals -> CloudRow]
           /\ tab \in [Terminals -> PageRow]
           /\ wire \in Wires
           /\ told \in Histories
           /\ faults \in 0 .. MaxFaults
  BY DEF TypeOK, CloudRow, PageRow, Wires, Histories

\* And back.
LEMMA TypesBack ==
    ASSUME cloud' \in [Terminals -> CloudRow], tab' \in [Terminals -> PageRow],
           wire' \in Wires, told' \in Histories, faults' \in 0 .. MaxFaults
    PROVE  TypeOK'
  BY DEF TypeOK, CloudRow, PageRow, Wires, Histories

\* No row changes.
LEMMA RowStays ==
    ASSUME TypeOK, NEW t \in Terminals, UNCHANGED cloud
    PROVE  RowBecomes(t, cloud[t].status, cloud[t].pod)
  BY Types DEF RowBecomes, RowOnly

\* The page does not change.
LEMMA PageStays ==
    ASSUME TypeOK, NEW t \in Terminals, UNCHANGED tab
    PROVE  PageBecomes(t, tab[t].view.shown, tab[t].tracked, tab[t].form, tab[t].ops)
  BY Types DEF PageBecomes, PageOnly

\* One row changes.
LEMMA RowSet ==
    ASSUME TypeOK, NEW t \in Terminals, NEW c \in CloudRow, cloud' = [cloud EXCEPT ![t] = c]
    PROVE  RowBecomes(t, c.status, c.pod)
  BY Types DEF RowBecomes, RowOnly

\* A row takes a status, or a pod comes or goes.
LEMMA RowStatus ==
    ASSUME TypeOK, NEW t \in Terminals, NEW status \in Statuses \cup {"none", "gone"},
           NEW pod \in BOOLEAN
    PROVE  /\ cloud' = [cloud EXCEPT ![t].status = status, ![t].pod = pod]
                => RowBecomes(t, status, pod)
           /\ cloud' = [cloud EXCEPT ![t].status = status] => RowBecomes(t, status, cloud[t].pod)
           /\ cloud' = [cloud EXCEPT ![t].pod = pod] => RowBecomes(t, cloud[t].status, pod)
           /\ cloud' = [cloud EXCEPT ![t].kid = pod]
                => RowBecomes(t, cloud[t].status, cloud[t].pod)
  <1>1. cloud[t] \in CloudRow
    BY Types
  <1>2. PICK x : x = [cloud[t] EXCEPT !.status = status]
    OBVIOUS
  <1>3. PICK y : y = [cloud[t] EXCEPT !.pod = pod]
    OBVIOUS
  <1>4. PICK z : z = [cloud[t] EXCEPT !.kid = pod]
    OBVIOUS
  <1>5. PICK v : v = [x EXCEPT !.pod = pod]
    OBVIOUS
  <1>6. x \in CloudRow /\ y \in CloudRow /\ z \in CloudRow
    BY <1>1, <1>2, <1>3, <1>4 DEF CloudRow
  <1>7. v \in CloudRow
    BY <1>5, <1>6 DEF CloudRow
  <1>8. /\ x.status = status /\ x.pod = cloud[t].pod
        /\ y.status = cloud[t].status /\ y.pod = pod
        /\ z.status = cloud[t].status /\ z.pod = cloud[t].pod
        /\ v.status = status /\ v.pod = pod
    BY <1>1, <1>2, <1>3, <1>4, <1>5, <1>6 DEF CloudRow
  <1>9. ASSUME cloud' = [cloud EXCEPT ![t].status = status, ![t].pod = pod]
        PROVE  RowBecomes(t, status, pod)
    <2>1. cloud' = [cloud EXCEPT ![t] = v]
      BY <1>2, <1>5, <1>9, Types
    <2> QED BY <1>7, <1>8, <2>1, RowSet
  <1>10. cloud' = [cloud EXCEPT ![t].status = status] => RowBecomes(t, status, cloud[t].pod)
    BY <1>2, <1>6, <1>8, RowSet
  <1>11. cloud' = [cloud EXCEPT ![t].pod = pod] => RowBecomes(t, cloud[t].status, pod)
    BY <1>3, <1>6, <1>8, RowSet
  <1>12. cloud' = [cloud EXCEPT ![t].kid = pod] => RowBecomes(t, cloud[t].status, cloud[t].pod)
    BY <1>4, <1>6, <1>8, RowSet
  <1> QED BY <1>9, <1>10, <1>11, <1>12

\* A row is deleted.
LEMMA RowGoes ==
    ASSUME TypeOK, NEW t \in Terminals, cloud' = RowGone(t)
    PROVE  RowBecomes(t, "gone", cloud[t].pod)
  <1>1. cloud[t] \in CloudRow
    BY Types
  <1>2. PICK x : x = [cloud[t] EXCEPT !.status = "gone"]
    OBVIOUS
  <1>3. PICK y : y = [x EXCEPT !.kid = FALSE]
    OBVIOUS
  <1>4. x \in CloudRow /\ x.status = "gone" /\ x.pod = cloud[t].pod
    BY <1>1, <1>2 DEF CloudRow
  <1>5. y \in CloudRow /\ y.status = "gone" /\ y.pod = cloud[t].pod
    BY <1>3, <1>4 DEF CloudRow
  <1>6. cloud' = [cloud EXCEPT ![t] = y]
    BY <1>2, <1>3, Types DEF RowGone
  <1> QED BY <1>5, <1>6, RowSet

\* A row goes under a pod that has just been made.
LEMMA RowGoesFromPod ==
    ASSUME TypeOK, NEW t \in Terminals, cloud' = [RowGone(t) EXCEPT ![t].pod = TRUE]
    PROVE  RowBecomes(t, "gone", TRUE)
  <1>1. cloud[t] \in CloudRow
    BY Types
  <1>2. PICK x : x = [cloud[t] EXCEPT !.status = "gone"]
    OBVIOUS
  <1>3. PICK y : y = [x EXCEPT !.kid = FALSE]
    OBVIOUS
  <1>4. PICK z : z = [y EXCEPT !.pod = TRUE]
    OBVIOUS
  <1>5. x \in CloudRow /\ x.status = "gone"
    BY <1>1, <1>2 DEF CloudRow
  <1>6. y \in CloudRow /\ y.status = "gone"
    BY <1>3, <1>5 DEF CloudRow
  <1>7. z \in CloudRow /\ z.status = "gone" /\ z.pod
    BY <1>4, <1>6 DEF CloudRow
  <1>8. RowGone(t) = [cloud EXCEPT ![t] = y]
    BY <1>2, <1>3, Types DEF RowGone
  <1>9. cloud' = [cloud EXCEPT ![t] = z]
    BY <1>4, <1>8, Types
  <1> QED BY <1>7, <1>9, RowSet

\* One row of the page changes.
LEMMA PageSet ==
    ASSUME TypeOK, NEW t \in Terminals, NEW k \in PageRow, tab' = [tab EXCEPT ![t] = k]
    PROVE  PageBecomes(t, k.view.shown, k.tracked, k.form, k.ops)
  BY Types DEF PageBecomes, PageOnly

\* The fields of a row of the page.
LEMMA PageFields ==
    ASSUME NEW k \in PageRow
    PROVE  /\ \A form \in Stages : [k EXCEPT !.form = form] \in PageRow
           /\ \A ops \in SUBSET Ops : [k EXCEPT !.ops = ops] \in PageRow
           /\ \A view \in Views : [k EXCEPT !.view = view] \in PageRow
           /\ \A tracked \in BOOLEAN : [k EXCEPT !.tracked = tracked] \in PageRow
  BY DEF PageRow

\* The form goes on.
LEMMA PageGoes ==
    ASSUME TypeOK, NEW t \in Terminals, NEW stage \in Stages, Goes(t, stage)
    PROVE  PageBecomes(t, tab[t].view.shown, tab[t].tracked, stage, tab[t].ops)
  <1>1. tab[t] \in PageRow
    BY Types
  <1>2. PICK k : k = [tab[t] EXCEPT !.form = stage]
    OBVIOUS
  <1>3. /\ k \in PageRow /\ k.form = stage /\ k.view = tab[t].view
        /\ k.tracked = tab[t].tracked /\ k.ops = tab[t].ops
    BY <1>1, <1>2, PageFields DEF PageRow
  <1>4. tab' = [tab EXCEPT ![t] = k]
    BY <1>2, Types DEF Goes
  <1> QED BY <1>3, <1>4, PageSet

\* What is under way for a row changes.
LEMMA PageOps ==
    ASSUME TypeOK, NEW t \in Terminals, NEW ops \in SUBSET Ops, tab' = [tab EXCEPT ![t].ops = ops]
    PROVE  PageBecomes(t, tab[t].view.shown, tab[t].tracked, tab[t].form, ops)
  <1>1. tab[t] \in PageRow
    BY Types
  <1>2. PICK k : k = [tab[t] EXCEPT !.ops = ops]
    OBVIOUS
  <1>3. /\ k \in PageRow /\ k.form = tab[t].form /\ k.view = tab[t].view
        /\ k.tracked = tab[t].tracked /\ k.ops = ops
    BY <1>1, <1>2, PageFields DEF PageRow
  <1>4. tab' = [tab EXCEPT ![t] = k]
    BY <1>2, Types
  <1> QED BY <1>3, <1>4, PageSet

\* Something is started.
LEMMA PageStarts ==
    ASSUME TypeOK, NEW t \in Terminals, NEW op \in Ops, Starts(t, op)
    PROVE  /\ PageBecomes(t, tab[t].view.shown, tab[t].tracked, tab[t].form,
                          tab[t].ops \cup {op})
           /\ ~Does(t, op)
  <1>1. tab[t].ops \cup {op} \in SUBSET Ops
    BY Types DEF PageRow
  <1> QED BY <1>1, PageOps DEF Starts

\* Something ends, or goes on.
LEMMA PageEnds ==
    ASSUME TypeOK, NEW t \in Terminals, NEW op \in Ops, NEW next \in SUBSET Ops,
           Ends(t, op, next)
    PROVE  /\ PageBecomes(t, tab[t].view.shown, tab[t].tracked, tab[t].form,
                          (tab[t].ops \ {op}) \cup next)
           /\ Does(t, op)
  <1>1. (tab[t].ops \ {op}) \cup next \in SUBSET Ops
    BY Types DEF PageRow
  <1> QED BY <1>1, PageOps DEF Ends

-----------------------------------------------------------------------------
(* What a step about one container does to the stream and the requests.    *)

\* The events in flight become es, answers may be marked for t and what an earlier
\* page asked about t may be served.
Said(t, es) ==
    /\ wire' \in Wires /\ IsFiniteSet(wire'.answers)
    /\ wire'.up <=> wire.up
    /\ wire'.phase = wire.phase
    /\ wire'.events = es
    /\ \A u \in Terminals \ {t} : LeftOf(u, wire'.left) \subseteq LeftOf(u, wire.left)
    /\ \A u, shown : ListsOnly(wire.answers, u, shown) => ListsOnly(wire'.answers, u, shown)
    /\ \A u, shown : TrueOf(wire.answers, u, shown) => TrueOf(wire'.answers, u, shown)
    /\ AnswerDue => AnswerDue'

\* The page asks for the list.
LEMMA AskedFacts ==
    ASSUME NEW w \in Wires, IsFiniteSet(w.answers), w.asked + Cardinality(w.answers) < MaxLoads
    PROVE  /\ Asking(w) \in Wires
           /\ Asking(w).up = w.up /\ Asking(w).events = w.events
           /\ Asking(w).answers = w.answers /\ Asking(w).asked > 0
           /\ Asking(w).phase = w.phase /\ Asking(w).left = w.left
  <1>1. Cardinality(w.answers) \in Nat
    BY FS_CardinalityType
  <1>2. w.asked \in 0 .. MaxLoads /\ MaxLoads \in Nat
    BY BoundsAssumption DEF Wires
  <1>3. w.asked + 1 \in 0 .. MaxLoads /\ w.asked + 1 > 0
    BY <1>1, <1>2
  <1> QED BY <1>3 DEF Asking, Wires

\* The answers in flight are marked.
LEMMA OutdatingFacts ==
    ASSUME NEW w \in Wires, NEW t
    PROVE  LET marked == Outdating(w, t)
           IN  /\ marked.up = w.up /\ marked.events = w.events /\ marked.asked = w.asked
               /\ marked.phase = w.phase /\ marked.left = w.left
               /\ marked.answers = OutdatedBy(w.answers, t)
               /\ OutdatedBy(w.answers, t) \in SUBSET Answers => marked \in Wires
  BY DEF Outdating, OutdatedBy, Wires

\* Nothing is sent.
LEMMA SaidNothing ==
    ASSUME IInv, NEW t, UNCHANGED wire
    PROVE  Said(t, wire.events) /\ wire'.left = wire.left
  BY Types DEF IInv, Said, AnswerDue

\* Nothing but a request for the list.
LEMMA Asked ==
    ASSUME IInv, NEW t, CanAsk, wire' = Asking(wire)
    PROVE  Said(t, wire.events) /\ AnswerDue' /\ wire'.left = wire.left
  <1>1. wire \in Wires /\ IsFiniteSet(wire.answers)
    BY Types DEF IInv
  <1> QED BY <1>1, AskedFacts DEF CanAsk, Said, AnswerDue

\* Answers are marked for t, and the list may be asked for.
LEMMA OutdatedFrom ==
    ASSUME IInv, NEW t \in Terminals, NEW v \in Wires,
           v.up = wire.up, v.asked = wire.asked, v.answers = wire.answers, v.phase = wire.phase,
           \A u \in Terminals \ {t} : LeftOf(u, v.left) \subseteq LeftOf(u, wire.left),
           \/ wire' = Outdating(v, t)
           \/ CanAsk /\ wire' = Asking(Outdating(v, t))
    PROVE  /\ Said(t, v.events)
           /\ \A shown : TrueOf(wire'.answers, t, shown)
           /\ wire' = Asking(Outdating(v, t)) => AnswerDue'
           /\ wire'.left = v.left
  <1>1. wire.answers \in SUBSET Answers /\ IsFiniteSet(wire.answers) /\ wire.asked \in Nat
    BY Types DEF IInv, Wires
  <1>2. PICK as : as = OutdatedBy(wire.answers, t)
    OBVIOUS
  <1>3. /\ as \in SUBSET Answers /\ IsFiniteSet(as)
        /\ as = {} <=> wire.answers = {}
        /\ \A u, shown : ListsOnly(wire.answers, u, shown) => ListsOnly(as, u, shown)
        /\ \A u, shown : TrueOf(wire.answers, u, shown) => TrueOf(as, u, shown)
        /\ \A shown : TrueOf(as, t, shown)
    BY <1>1, <1>2, OutdatedFacts
  <1>4. PICK w : w = Outdating(v, t)
    OBVIOUS
  <1>5. /\ w \in Wires /\ w.up = wire.up /\ w.events = v.events
        /\ w.asked = wire.asked /\ w.answers = as
        /\ w.phase = wire.phase /\ w.left = v.left
    BY <1>2, <1>3, <1>4, OutdatingFacts
  <1>6. CASE wire' = w
    <2>1. wire' # Asking(w)
      <3>1. Asking(w).asked = w.asked + 1 /\ w.asked \in Nat
        BY <1>1, <1>5 DEF Asking, Wires
      <3> QED BY <1>6, <3>1
    <2> QED BY <1>3, <1>4, <1>5, <1>6, <2>1 DEF Said, AnswerDue
  <1>7. CASE CanAsk /\ wire' = Asking(w)
    <2>1. Cardinality(as) <= Cardinality(wire.answers)
      <3>1. as = {[a EXCEPT !.old = @ \cup {t}] : a \in wire.answers}
        BY <1>2 DEF OutdatedBy
      <3> DEFINE f == [a \in wire.answers |-> [a EXCEPT !.old = @ \cup {t}]]
      <3>2. f \in Surjection(wire.answers, as)
        BY <3>1 DEF Surjection
      <3> QED BY <1>1, <3>2, FS_Surjection
    <2>2. Cardinality(as) \in Nat /\ Cardinality(wire.answers) \in Nat
      BY <1>1, <1>3, FS_CardinalityType
    <2>3. wire.asked + Cardinality(wire.answers) < MaxLoads
      BY <1>7 DEF CanAsk
    <2>4. PICK n \in Nat, m \in Nat : n = Cardinality(as) /\ m = Cardinality(wire.answers)
      BY <2>2
    <2>5. wire.asked + n < MaxLoads
      <3>1. n <= m /\ wire.asked + m < MaxLoads
        BY <2>1, <2>3, <2>4
      <3> QED BY <1>1, <3>1, BoundsAssumption
    <2>6. w.asked + Cardinality(w.answers) < MaxLoads
      BY <1>5, <2>4, <2>5
    <2>7. /\ wire' \in Wires /\ wire'.up = w.up /\ wire'.events = w.events
          /\ wire'.answers = as /\ wire'.asked > 0
          /\ wire'.phase = w.phase /\ wire'.left = w.left
      BY <1>3, <1>5, <1>7, <2>6, AskedFacts
    <2> QED BY <1>3, <1>5, <2>7 DEF Said, AnswerDue
  <1> QED BY <1>4, <1>6, <1>7

\* A row changes and nobody is told but by the answers to come.
LEMMA Outdated ==
    ASSUME IInv, NEW t \in Terminals,
           \/ wire' = Outdating(wire, t)
           \/ CanAsk /\ wire' = Asking(Outdating(wire, t))
    PROVE  /\ Said(t, wire.events)
           /\ \A shown : TrueOf(wire'.answers, t, shown)
           /\ wire' = Asking(Outdating(wire, t)) => AnswerDue'
           /\ wire'.left = wire.left
  BY OutdatedFrom, Types DEF IInv

\* The event by which Cloud tells of a new status.
Event(t, status) == [t |-> t, status |-> status, ran |-> t \in told.ran]

EventsWith(t, status) ==
    IF wire.up THEN Append(wire.events, Event(t, status)) ELSE wire.events

\* The wire but for what earlier pages asked about t.
SameBut(w, t) ==
    /\ w.up = wire.up /\ w.phase = wire.phase /\ w.events = wire.events
    /\ w.asked = wire.asked /\ w.answers = wire.answers
    /\ \A u \in Terminals \ {t} : LeftOf(u, w.left) \subseteq LeftOf(u, wire.left)

\* Cloud sends an event, if the stream is up.
LEMMA Publishes ==
    ASSUME IInv, NEW t \in Terminals, NEW status \in Statuses, NEW w \in Wires,
           SameBut(w, t),
           \/ wire' = Published(w, t, status)
           \/ CanAsk /\ wire' = Asking(Published(w, t, status))
    PROVE  /\ Said(t, EventsWith(t, status))
           /\ \A shown : TrueOf(wire'.answers, t, shown)
           /\ wire' = Asking(Published(w, t, status)) => AnswerDue'
           /\ wire'.left = w.left
  <1> USE DEF SameBut
  <1>1. wire \in Wires /\ wire.answers \in SUBSET Answers /\ IsFiniteSet(wire.answers)
    BY Types DEF IInv, Wires
  <1>2. PICK es : es = EventsWith(t, status)
    OBVIOUS
  <1>3. es \in Seq(Events)
    <2>1. Event(t, status) \in Events
      BY DEF Event, Events
    <2>2. wire.events \in Seq(Events)
      BY <1>1 DEF Wires
    <2> QED BY <1>2, <2>1, <2>2 DEF EventsWith
  <1>4. PICK v : v = [w EXCEPT !.events = es]
    OBVIOUS
  <1>5. /\ v \in Wires /\ v.up = wire.up /\ v.events = es /\ v.phase = wire.phase
        /\ v.asked = wire.asked /\ v.answers = wire.answers /\ v.left = w.left
    BY <1>1, <1>3, <1>4 DEF Wires
  <1>6. Published(w, t, status) = Outdating(v, t)
    BY <1>2, <1>4 DEF Published, EventsWith, Event
  <1> QED BY <1>2, <1>5, <1>6, OutdatedFrom

-----------------------------------------------------------------------------
(* Steps about one container.                                              *)

FaultStep == Fault \/ UNCHANGED faults

\* The budget of faults stays in its bounds.
LEMMA Faults ==
    ASSUME TypeOK, FaultStep
    PROVE  /\ faults' \in 0 .. MaxFaults
           /\ faults' = MaxFaults => faults = MaxFaults /\ ~Fault
  BY BoundsAssumption, Types DEF FaultStep, Fault

\* The history changes for t at most.
ToldAbout(t) ==
    /\ told' \in Histories
    /\ \A u \in Terminals \ {t} :
          /\ u \in told'.ran <=> u \in told.ran
          /\ u \in told'.unseen <=> u \in told.unseen
          /\ u \in told'.misled <=> u \in told.misled
          /\ u \in told'.rushed <=> u \in told.rushed

\* The events in flight are what they were, but for one about t.
EventsAbout(t, es) ==
    es = wire.events \/ \E status \in Statuses : es = EventsWith(t, status)

\* What is said about t says nothing about the others.
LEMMA OtherEvents ==
    ASSUME IInv, NEW t \in Terminals, NEW u \in Terminals \ {t}, NEW es,
           EventsAbout(t, es), Said(t, es)
    PROVE  WireKept(u)
  <1>1. wire.events \in Seq(Events)
    BY Types DEF IInv, Wires
  <1>2. /\ NoneOf(es, u) <=> NoneOf(wire.events, u)
        /\ RunsIn(wire.events, u) => RunsIn(es, u)
        /\ RunsFirst(wire.events, u) => RunsFirst(es, u)
        /\ \A status : LastIs(wire.events, u, status) => LastIs(es, u, status)
    <2>1. CASE es = wire.events
      BY <2>1
    <2>2. CASE \E status \in Statuses : es = Append(wire.events, Event(t, status))
      <3>1. PICK status \in Statuses : es = Append(wire.events, Event(t, status))
        BY <2>2
      <3>2. PICK ev : ev = Event(t, status)
        OBVIOUS
      <3>3. ev \in Events /\ ev.t = t
        BY <3>2 DEF Event, Events
      <3> QED BY <1>1, <3>1, <3>2, <3>3, AppendFacts
    <2> QED BY <2>1, <2>2 DEF EventsAbout, EventsWith
  <1> QED BY <1>2 DEF Said, WireKept

\* A step about t has only t to keep sound.
LEMMA LocalStep ==
    ASSUME IInv, NEW t \in Terminals, RowOnly(t), PageOnly(t), NEW es,
           Said(t, es), EventsAbout(t, es), ToldAbout(t), FaultStep, Sound(t)'
    PROVE  IInv'
  <1>1. TypeOK'
    BY TypesBack, Faults DEF RowOnly, PageOnly, Said, ToldAbout, IInv
  <1>2. IsFiniteSet(wire'.answers)
    BY DEF Said
  <1>3. IF wire'.up THEN wire'.phase = "done" ELSE wire'.events = <<>>
    BY DEF Said, EventsAbout, EventsWith, IInv
  <1>4. ASSUME NEW u \in Terminals \ {t}
        PROVE  Sound(u)'
    <2>1. WireKept(u)
      BY OtherEvents
    <2>2. AnswerDue => AnswerDue'
      BY DEF Said
    <2>3. /\ cloud'[u] = cloud[u] /\ tab'[u] = tab[u]
          /\ faults' = MaxFaults => faults = MaxFaults
      BY Faults DEF RowOnly, PageOnly, IInv
    <2>4. LeftOf(u, wire'.left) \subseteq LeftOf(u, wire.left)
      BY DEF Said
    <2>5. Kept(u)
      BY <2>1, <2>2, <2>3, <2>4 DEF Kept, ToldAbout
    <2> QED BY <2>5, KeptSound DEF IInv
  <1> QED BY <1>1, <1>2, <1>3, <1>4 DEF IInv

\* The status the list gives for a row.
Listed(status) == IF status \in Statuses THEN status ELSE "none"

\* It is what Listing shows.
LEMMA ListedFacts ==
    ASSUME NEW t
    PROVE  Listing(t).shown = Listed(cloud[t].status)
  BY DEF Listing, Listed, Exists, NotListed

\* What earlier pages asked about t is not in the form's way, nor the form in its.
LeftStays(t) ==
    /\ LeftOf(t, wire'.left) \subseteq LeftOf(t, wire.left)
    /\ \/ ~At(t, "none")
       \/ At(t, "none")' /\ (cloud'[t].status = "none" <=> cloud[t].status = "none")
       \/ LeftOf(t, wire'.left) = {}

\* So it stays.
LEMMA LeftStaysSound ==
    ASSUME IInv, NEW t \in Terminals, LeftStays(t), FaultStep
    PROVE  LeftSound(t)'
  <1>1. LeftSound(t)
    BY DEF IInv, Sound
  <1>2. faults' = MaxFaults => faults = MaxFaults
    BY Faults DEF IInv
  <1> QED BY <1>1, <1>2 DEF LeftSound, LeftStays, At

\* Cloud sends no event.
Quiet(t) ==
    /\ RowOnly(t) /\ PageOnly(t) /\ Said(t, wire.events) /\ ToldAbout(t) /\ FaultStep
    /\ LeftStays(t)
    /\ tab'[t].view.shown = tab[t].view.shown
    /\ t \in told'.ran <=> t \in told.ran
    /\ t \in told'.unseen <=> t \in told.unseen
    /\ t \in told.misled => t \in told'.misled
    /\ Exists(t)' => LastIs(wire.events, t, cloud'[t].status)
    /\ TrueOf(wire'.answers, t, Listed(cloud'[t].status))
    /\ \/ AnswerDue' \/ At(t, "rowed")' \/ At(t, "undo_row")' \/ t \in told'.misled
       \/ /\ cloud'[t].status = cloud[t].status
          /\ ~At(t, "rowed") /\ ~At(t, "undo_row")
    /\ cloud'[t].status = "none" =>
          /\ cloud[t].status = "none" /\ ~cloud'[t].pod /\ ~tab'[t].tracked
          /\ tab'[t].ops = {} /\ tab'[t].form \in {"none", "row"}
    /\ At(t, "row")' => cloud'[t].status = "none"
    /\ tab'[t].form \in {"rowed", "launch"} =>
          /\ cloud[t].status = "none" \/ tab[t].form \in {"rowed", "launch"}
          /\ cloud'[t].status = "Pending" /\ ~cloud'[t].pod /\ tab'[t].ops = {}
    /\ tab'[t].tracked => At(t, "none")'
    /\ tab'[t].tracked \/ ~At(t, "none")' =>
          tab[t].tracked \/ ~At(t, "none") \/ cloud[t].status = "none"
    /\ faults' = MaxFaults /\ t \notin told'.rushed =>
          PodCare(cloud'[t].status, cloud'[t].pod, tab'[t].form, tab'[t].ops)

\* Such a step keeps the invariant.
LEMMA QuietStep ==
    ASSUME IInv, NEW t \in Terminals, Quiet(t)
    PROVE  IInv'
  <1> USE DEF Quiet
  <1>1. Sound(t) /\ wire.events \in Seq(Events)
    BY Types DEF IInv, Wires
  <1>2. /\ wire'.events = wire.events
        /\ \A shown : ListShows(t, shown) => ListShows(t, shown)'
    BY DEF Said, ListShows
  <1>3. cloud[t].status = "none" => ListShows(t, {"none"}) /\ NoneOf(wire.events, t)
    BY <1>1 DEF Sound, Unborn
  <1>4. ListShows(t, {"none"}) => ListShows(t, {"none", "Pending"})
    BY DEF ListShows, ListsOnly
  <1>5. Unborn(t)'
    BY <1>1, <1>2, <1>3 DEF Sound, Unborn
  <1>6. InForm(t)'
    BY <1>1, <1>2, <1>3, <1>4 DEF Sound, InForm, At
  <1>7. RunAhead(t)'
    <2>1. CASE cloud[t].status = "none"
      <3>1. t \notin told.ran /\ RunsFirst(wire.events, t)
        BY <1>1, <1>3, <2>1, NoneOfFacts DEF Sound, Unborn
      <3> QED BY <1>2, <3>1 DEF RunAhead
    <2>2. CASE cloud[t].status # "none"
      BY <1>1, <1>2, <2>2 DEF Sound, RunAhead, At
    <2> QED BY <2>1, <2>2
  <1>8. InFlightTrue(t)'
    <2>1. Listing(t)'.shown = Listed(cloud'[t].status)
      BY <1>2 DEF Listing, Listed, Exists, NotListed
    <2> QED BY <1>2, <2>1 DEF InFlightTrue, Exists
  <1>9. ListTrue(t)'
    <2>1. CASE AnswerDue' \/ At(t, "rowed")' \/ At(t, "undo_row")' \/ t \in told'.misled
      BY <2>1 DEF ListTrue
    <2>2. CASE /\ cloud'[t].status = cloud[t].status
               /\ ~At(t, "rowed") /\ ~At(t, "undo_row")
               /\ ~AnswerDue' /\ t \notin told'.misled
      <3>1. ~AnswerDue /\ t \notin told.misled
        BY <2>2 DEF Said
      <3>2. (Exists(t)' <=> Exists(t)) /\ Listing(t)'.shown = Listing(t).shown
        BY <1>2, <2>2 DEF Exists, Listing, NotListed
      <3> QED BY <1>1, <1>2, <2>2, <3>1, <3>2 DEF Sound, ListTrue, At
    <2> QED BY <2>1, <2>2
  <1>10. PodOwned(t)'
    BY DEF PodOwned
  <1>11. Sound(t)'
    BY <1>5, <1>6, <1>7, <1>8, <1>9, <1>10, LeftStaysSound DEF Sound
  <1> QED BY <1>11, LocalStep DEF EventsAbout

\* Cloud publishes a new status of a container that the page, or its pod, is
\* past the form's first steps with.
LEMMA ChangeStep ==
    ASSUME IInv, NEW t \in Terminals, NEW status \in Statuses, NEW pod \in BOOLEAN,
           NEW ops, Exists(t), cloud[t].pod \/ tab[t].ops # {} \/ At(t, "none"),
           Changes(t, status, pod), NEW w \in Wires, SameBut(w, t),
           \A q \in LeftOf(t, w.left) : q # "insert" /\ LeftOf(t, wire.left) # {},
           \/ wire' = Published(w, t, status)
           \/ CanAsk /\ wire' = Asking(Published(w, t, status)),
           PageBecomes(t, tab[t].view.shown, tab[t].tracked, tab[t].form, ops), FaultStep,
           faults' = MaxFaults /\ t \notin told.rushed => PodCare(status, pod, tab[t].form, ops)
    PROVE  IInv'
  <1>1. Sound(t) /\ wire.events \in Seq(Events) /\ told \in Histories /\ TypeOK
    BY Types DEF IInv, Wires
  <1>2. RowBecomes(t, status, pod)
    BY <1>1, RowStatus DEF Changes
  <1>3. PICK es : es = EventsWith(t, status)
    OBVIOUS
  <1>4. Said(t, es) /\ wire'.left = w.left /\ \A shown : TrueOf(wire'.answers, t, shown)
    BY <1>3, Publishes
  <1>5. /\ cloud'[t].status = status /\ (cloud'[t].pod <=> pod)
        /\ tab'[t].view.shown = tab[t].view.shown /\ (tab'[t].tracked <=> tab[t].tracked)
        /\ tab'[t].form = tab[t].form /\ tab'[t].ops = ops
        /\ wire'.events = es
    BY <1>2, <1>4 DEF RowBecomes, PageBecomes, Said
  <1>6. /\ told' \in Histories
        /\ told'.ran = IF status = "Running" THEN told.ran \cup {t} ELSE told.ran
        /\ told'.unseen = IF wire.up THEN told.unseen ELSE told.unseen \cup {t}
        /\ told'.misled = IF wire.phase = "stream" THEN told.misled \cup {t} ELSE told.misled
        /\ told'.rushed = told.rushed
    <2>1. PICK ran \in SUBSET Terminals :
             ran = IF status = "Running" THEN told.ran \cup {t} ELSE told.ran
      BY <1>1 DEF Histories
    <2>2. PICK unseen \in SUBSET Terminals :
             unseen = IF wire.up THEN told.unseen ELSE told.unseen \cup {t}
      BY <1>1 DEF Histories
    <2>3. PICK x : x = [told EXCEPT !.ran = ran]
      OBVIOUS
    <2>4. PICK misled \in SUBSET Terminals :
             misled = IF wire.phase = "stream" THEN told.misled \cup {t} ELSE told.misled
      BY <1>1 DEF Histories
    <2>5. PICK y : y = [x EXCEPT !.unseen = unseen]
      OBVIOUS
    <2>6. told' = [y EXCEPT !.misled = misled]
      BY <1>1, <2>1, <2>2, <2>3, <2>4, <2>5 DEF Changes, Histories
    <2>7. /\ x \in Histories /\ x.ran = ran /\ x.rushed = told.rushed
      BY <1>1, <2>3 DEF Histories
    <2>8. /\ y \in Histories /\ y.ran = ran /\ y.rushed = told.rushed /\ y.unseen = unseen
      BY <2>5, <2>7 DEF Histories
    <2>9. /\ told' \in Histories /\ told'.unseen = unseen /\ told'.ran = ran
          /\ told'.misled = misled /\ told'.rushed = told.rushed
      BY <2>6, <2>8 DEF Histories
    <2> QED BY <2>1, <2>2, <2>4, <2>9
  <1>7. ToldAbout(t)
    BY <1>6 DEF ToldAbout
  <1>8. PICK ev : ev = Event(t, status)
    OBVIOUS
  <1>9. ev \in Events /\ ev.t = t /\ ev.status = status /\ (ev.ran <=> t \in told.ran)
    <2>1. Event(t, status) \in Events
      BY DEF Event, Events
    <2>2. ev.t = t /\ ev.status = status
      BY <1>8 DEF Event
    <2>3. ev.ran <=> t \in told.ran
      BY <1>8, Zenon DEF Event
    <2> QED BY <1>8, <2>1, <2>2, <2>3
  <1>10. ASSUME wire.up
         PROVE  /\ ~NoneOf(es, t) /\ LastIs(es, t, status)
                /\ RunsIn(wire.events, t) \/ status = "Running" => RunsIn(es, t)
                /\ RunsFirst(wire.events, t) /\ (t \in told.ran => RunsIn(wire.events, t))
                      => RunsFirst(es, t)
    <2>1. es = Append(wire.events, ev)
      BY <1>3, <1>8, <1>10 DEF EventsWith
    <2> QED BY <1>1, <1>9, <2>1, AppendFacts DEF Runs
  <1>11. ASSUME ~wire.up
         PROVE  es = <<>>
    BY <1>3, <1>11 DEF EventsWith, IInv
  <1>12. Unborn(t)'
    BY <1>5 DEF Unborn, Statuses
  <1>13. InForm(t)'
    <2>1. cloud[t].status # "none" /\ tab[t].form \notin {"row", "rowed", "launch"}
      BY <1>1 DEF Sound, InForm, At, Exists, Statuses
    <2> QED BY <1>1, <1>5, <2>1 DEF Sound, InForm, At
  <1>14. RunAhead(t)'
    BY <1>1, <1>5, <1>6, <1>10 DEF Sound, RunAhead, At
  <1>15. InFlightTrue(t)'
    BY <1>4, <1>5, <1>10, <1>11, NoEvents DEF InFlightTrue
  <1>16. ListTrue(t)'
    <2>1. CASE wire.up
      <3>1. (Exists(t)' <=> Exists(t)) /\ (AnswerDue => AnswerDue')
        BY <1>4, <1>5 DEF Exists, Said
      <3> QED BY <1>1, <1>5, <1>6, <1>10, <2>1, <3>1 DEF Sound, ListTrue, At
    <2>2. CASE ~wire.up
      BY <1>4, <1>6, <2>2 DEF ListTrue, AnswerDue, Said
    <2> QED BY <2>1, <2>2
  <1>17. PodOwned(t)'
    <2>1. cloud'[t].pod \in BOOLEAN
      BY <1>2 DEF RowBecomes, RowOnly, CloudRow
    <2> QED BY <1>5, <1>6, <2>1 DEF PodOwned, PodCare
  <1>18. LeftSound(t)'
    <2>1. ASSUME LeftOf(t, wire.left) # {}
          PROVE  At(t, "none") /\ faults # MaxFaults
      BY <1>1, <2>1 DEF Sound, LeftSound
    <2>2. faults' = MaxFaults => faults = MaxFaults
      BY <1>1, Faults
    <2>3. cloud'[t].status # "none"
      BY <1>5 DEF Statuses
    <2> QED BY <1>4, <1>5, <2>1, <2>2, <2>3 DEF LeftSound, At
  <1>19. Sound(t)'
    BY <1>12, <1>13, <1>14, <1>15, <1>16, <1>17, <1>18 DEF Sound
  <1> QED BY <1>2, <1>3, <1>4, <1>7, <1>19, LocalStep DEF EventsAbout, RowBecomes, PageBecomes

\* The same of a step that serves nothing an earlier page asked.
LEMMA ChangeStepNow ==
    ASSUME IInv, NEW t \in Terminals, NEW status \in Statuses, NEW pod \in BOOLEAN,
           NEW ops, Exists(t), cloud[t].pod \/ tab[t].ops # {} \/ At(t, "none"),
           Changes(t, status, pod),
           \/ wire' = Published(wire, t, status)
           \/ CanAsk /\ wire' = Asking(Published(wire, t, status)),
           PageBecomes(t, tab[t].view.shown, tab[t].tracked, tab[t].form, ops), FaultStep,
           faults' = MaxFaults /\ t \notin told.rushed => PodCare(status, pod, tab[t].form, ops)
    PROVE  IInv'
  <1>1. wire \in Wires /\ SameBut(wire, t)
    BY Types DEF IInv, SameBut
  <1>2. \A q \in LeftOf(t, wire.left) : q # "insert" /\ LeftOf(t, wire.left) # {}
    <2>1. LeftSound(t) /\ cloud[t].status # "none"
      BY DEF IInv, Sound, Exists, Statuses
    <2> QED BY <2>1 DEF LeftSound
  <1> QED BY <1>1, <1>2, ChangeStep

\* Nor does the row's status change, or what is in flight.
Inner(t) ==
    /\ RowOnly(t) /\ PageOnly(t) /\ FaultStep /\ UNCHANGED <<wire, told>>
    /\ cloud'[t].status = cloud[t].status
    /\ tab'[t].view.shown = tab[t].view.shown
    /\ tab[t].form \in {"rowed", "undo_row"} => tab'[t].form = tab[t].form
    /\ At(t, "none") => At(t, "none")' \/ LeftOf(t, wire.left) = {}
    /\ cloud[t].status = "none" =>
          /\ ~cloud'[t].pod /\ ~tab'[t].tracked
          /\ tab'[t].ops = {} /\ tab'[t].form \in {"none", "row"}
    /\ At(t, "row")' => cloud[t].status = "none"
    /\ tab'[t].form \in {"rowed", "launch"} =>
          tab'[t].form = tab[t].form /\ ~cloud'[t].pod /\ tab'[t].ops = {}
    /\ tab'[t].tracked => At(t, "none")'
    /\ tab'[t].tracked \/ ~At(t, "none")' =>
          tab[t].tracked \/ ~At(t, "none") \/ cloud[t].status = "none"
    /\ faults' = MaxFaults /\ t \notin told.rushed =>
          PodCare(cloud[t].status, cloud'[t].pod, tab'[t].form, tab'[t].ops)

\* Such a step keeps the invariant.
LEMMA InnerStep ==
    ASSUME IInv, NEW t \in Terminals, Inner(t)
    PROVE  IInv'
  <1> USE DEF Inner
  <1>1. Sound(t) /\ told \in Histories
    BY Types DEF IInv
  <1>2. Said(t, wire.events) /\ ToldAbout(t) /\ LeftStays(t)
    BY <1>1, SaidNothing DEF ToldAbout, LeftStays
  <1>3. Exists(t)' => LastIs(wire.events, t, cloud[t].status)
    BY <1>1 DEF Sound, InFlightTrue, Exists
  <1>4. TrueOf(wire'.answers, t, Listed(cloud[t].status))
    BY <1>1, ListedFacts DEF Sound, InFlightTrue
  <1>5. tab'[t].form \in {"rowed", "launch"} => cloud[t].status = "Pending"
    BY <1>1 DEF Sound, InForm
  <1>6. Quiet(t)
    BY <1>2, <1>3, <1>4, <1>5 DEF Quiet, At
  <1> QED BY <1>6, QuietStep

\* What the invariant says of a container in the form's hands.
LEMMA FormFacts ==
    ASSUME IInv, NEW t \in Terminals
    PROVE  /\ TypeOK
           /\ tab[t].form # "none" => ~tab[t].tracked
           /\ cloud[t].status = "none" => ~tab[t].tracked /\ tab[t].ops = {} /\ ~cloud[t].pod
           /\ cloud[t].status = "none" => tab[t].form \in {"none", "row"}
           /\ At(t, "row") => cloud[t].status = "none"
           /\ tab[t].form \in {"rowed", "launch"} =>
                 cloud[t].status = "Pending" /\ ~cloud[t].pod /\ tab[t].ops = {}
           /\ faults = MaxFaults /\ t \notin told.rushed =>
                 PodCare(cloud[t].status, cloud[t].pod, tab[t].form, tab[t].ops)
           /\ PodCare(cloud[t].status, cloud[t].pod, tab[t].form, tab[t].ops) /\ ~At(t, "none")
                 => tab[t].ops = {}
  BY DEF IInv, Sound, Unborn, InForm, PodOwned, PodCare, At

\* The form goes from one stage to the next and nothing else happens.
LEMMA FormGoes ==
    ASSUME IInv, NEW t \in Terminals, NEW stage \in Stages, Goes(t, stage),
           UNCHANGED <<cloud, wire, told>>, FaultStep,
           tab[t].form \notin {"rowed", "undo_row"},
           stage = "row" => cloud[t].status = "none",
           cloud[t].status = "none" => stage \in {"none", "row"},
           At(t, "none") => cloud[t].status = "none" /\ LeftOf(t, wire.left) = {},
           stage \notin {"rowed", "launch", "undo_row"}
    PROVE  IInv'
  <1>1. PageBecomes(t, tab[t].view.shown, tab[t].tracked, stage, tab[t].ops)
    BY PageGoes, FormFacts
  <1>2. RowBecomes(t, cloud[t].status, cloud[t].pod)
    BY RowStays, FormFacts
  <1>3. At(t, "none") => ~tab[t].tracked
    BY FormFacts
  <1>4. ~tab[t].tracked
    BY <1>3, FormFacts DEF At
  <1>5. ASSUME faults' = MaxFaults, t \notin told.rushed
        PROVE  PodCare(cloud[t].status, cloud[t].pod, stage, tab[t].ops)
    <2>1. PodCare(cloud[t].status, cloud[t].pod, tab[t].form, tab[t].ops)
      BY <1>5, FormFacts, Faults
    <2>2. tab[t].ops = {}
      BY <2>1, FormFacts
    <2> QED BY <2>1, <2>2 DEF PodCare
  <1>6. tab[t].form # "none" \/ cloud[t].status = "none"
    BY DEF At
  <1>7. Inner(t)
    BY <1>1, <1>2, <1>4, <1>5, <1>6, FormFacts DEF Inner, RowBecomes, PageBecomes, At
  <1> QED BY <1>7, InnerStep

-----------------------------------------------------------------------------
(* The steps of the Create form.                                           *)

\* The form's care for its own container.
LEMMA FormCare ==
    ASSUME IInv, NEW t \in Terminals, FaultStep, ~At(t, "none"),
           faults' = MaxFaults, t \notin told.rushed
    PROVE  /\ tab[t].ops = {} /\ ~Fault
           /\ PodCare(cloud[t].status, cloud[t].pod, tab[t].form, tab[t].ops)
  BY FormFacts, Faults

\* The steps that only move the form on.
LEMMA FormMovesKeep ==
    ASSUME IInv, NEW t \in Terminals,
           \/ Submit(t) \/ RowRefused(t) \/ PodAnswered(t)
           \/ UpdateRefused(t) \/ UpdateUnanswered(t) \/ FormThrows(t)
    PROVE  IInv'
  <1>1. {"row", "none", "update", "undo_pod"} \subseteq Stages
    BY DEF Stages
  <1>2. PICK stage \in {"row", "none", "update", "undo_pod"} :
           /\ Goes(t, stage) /\ UNCHANGED <<cloud, wire, told>> /\ FaultStep
           /\ tab[t].form \notin {"rowed", "undo_row"}
           /\ stage = "row" => cloud[t].status = "none"
           /\ stage \notin {"row", "none"} => tab[t].form \notin {"none", "row"}
           /\ At(t, "none") => cloud[t].status = "none" /\ <<t, "insert">> \notin wire.left
    BY DEF Submit, RowRefused, PodAnswered, UpdateRefused, UpdateUnanswered, FormThrows,
           FaultStep, At
  <1>3. cloud[t].status = "none" => stage \in {"none", "row"}
    BY <1>2, FormFacts
  <1>4. At(t, "none") => LeftOf(t, wire.left) = {}
    <2>1. LeftSound(t)
      BY DEF IInv, Sound
    <2> QED BY <1>2, <2>1 DEF LeftSound, LeftOf
  <1> QED BY <1>1, <1>2, <1>3, <1>4, FormGoes

\* container-maker has made the pod.
LEMMA PodMadeKeeps ==
    ASSUME IInv, NEW t \in Terminals, PodMade(t)
    PROVE  IInv'
  <1>1. /\ cloud' = [cloud EXCEPT ![t].pod = TRUE] /\ Goes(t, "launched")
        /\ tab[t].form = "launch" /\ UNCHANGED <<wire, told>> /\ FaultStep
    BY DEF PodMade, FaultStep, At
  <1>2. /\ cloud[t].status = "Pending" /\ ~cloud[t].pod /\ tab[t].ops = {}
        /\ ~tab[t].tracked /\ TypeOK
    BY <1>1, FormFacts
  <1>3. RowBecomes(t, "Pending", TRUE)
    BY <1>1, <1>2, RowStatus DEF Statuses
  <1>4. PageBecomes(t, tab[t].view.shown, tab[t].tracked, "launched", {})
    BY <1>1, <1>2, PageGoes DEF Stages
  <1>5. PodCare("Pending", cloud'[t].pod, "launched", {})
    BY DEF PodCare
  <1>6. Inner(t)
    BY <1>1, <1>2, <1>3, <1>4, <1>5 DEF Inner, RowBecomes, PageBecomes, At
  <1> QED BY <1>6, InnerStep

\* The row learns its kubernetes_id.
LEMMA KidSavedKeeps ==
    ASSUME IInv, NEW t \in Terminals, KidSaved(t)
    PROVE  IInv'
  <1>1. /\ cloud' = [cloud EXCEPT ![t].kid = TRUE] \/ UNCHANGED cloud
        /\ Goes(t, "updated") /\ tab[t].form = "update"
        /\ UNCHANGED <<wire, told>> /\ FaultStep
    BY DEF KidSaved, FaultStep, At
  <1>2. ~tab[t].tracked /\ TypeOK /\ cloud[t].status # "none"
    BY <1>1, FormFacts
  <1>3. RowBecomes(t, cloud[t].status, cloud[t].pod)
    BY <1>1, <1>2, RowStatus, RowStays DEF Statuses
  <1>4. PageBecomes(t, tab[t].view.shown, tab[t].tracked, "updated", tab[t].ops)
    BY <1>1, <1>2, PageGoes DEF Stages
  <1>5. ASSUME faults' = MaxFaults, t \notin told.rushed
        PROVE  PodCare(cloud[t].status, cloud'[t].pod, "updated", tab[t].ops)
    BY <1>1, <1>3, <1>5, FormCare DEF PodCare, RowBecomes, At
  <1>6. Inner(t)
    BY <1>1, <1>2, <1>3, <1>4, <1>5 DEF Inner, RowBecomes, PageBecomes, At
  <1> QED BY <1>6, InnerStep

\* The form ends; the container enters pendingContainers.
LEMMA UpdateAnsweredKeeps ==
    ASSUME IInv, NEW t \in Terminals, UpdateAnswered(t)
    PROVE  IInv'
  <1> DEFINE k == tab[t]
  <1>1. k \in PageRow /\ k.view \in Views /\ k.view.kid \in BOOLEAN
    BY Types DEF IInv, PageRow, Views
  <1>2. PICK kid \in BOOLEAN : kid <=> k.view.kid \/ k.view.shown # "none"
    <2>1. CASE k.view.kid \/ k.view.shown # "none"
      BY <2>1
    <2>2. CASE ~(k.view.kid \/ k.view.shown # "none")
      BY <2>2
    <2> QED BY <2>1, <2>2
  <1>3. PICK view : view = [k.view EXCEPT !.kid = kid]
    OBVIOUS
  <1>4. PICK x : x = [k EXCEPT !.form = "none"]
    OBVIOUS
  <1>5. PICK y : y = [x EXCEPT !.tracked = TRUE]
    OBVIOUS
  <1>6. PICK z : z = [y EXCEPT !.view = view]
    OBVIOUS
  <1>7. view \in Views /\ view.shown = k.view.shown
    BY <1>1, <1>3 DEF Views
  <1>8. x \in PageRow /\ x.form = "none" /\ x.view = k.view /\ x.ops = k.ops
    BY <1>1, <1>4 DEF PageRow, Stages
  <1>9. y \in PageRow /\ y.form = "none" /\ y.tracked = TRUE /\ y.view = k.view /\ y.ops = k.ops
    BY <1>5, <1>8 DEF PageRow
  <1>10. z \in PageRow /\ z.form = "none" /\ z.tracked = TRUE /\ z.view = view /\ z.ops = k.ops
    BY <1>6, <1>7, <1>9 DEF PageRow
  <1>11. tab' = [tab EXCEPT ![t] = z]
    BY <1>1, <1>2, <1>3, <1>4, <1>5, <1>6, Types DEF UpdateAnswered
  <1>12. PageBecomes(t, tab[t].view.shown, TRUE, "none", tab[t].ops)
    BY <1>7, <1>10, <1>11, PageSet DEF IInv
  <1>13. /\ tab[t].form = "updated" /\ UNCHANGED <<cloud, wire, told>> /\ FaultStep
    BY DEF UpdateAnswered, FaultStep, At
  <1>14. RowBecomes(t, cloud[t].status, cloud[t].pod) /\ cloud[t].status # "none"
    BY <1>13, RowStays, FormFacts DEF At
  <1>15. ASSUME faults' = MaxFaults, t \notin told.rushed
         PROVE  PodCare(cloud[t].status, cloud[t].pod, "none", tab[t].ops)
    BY <1>13, <1>15, FormCare DEF PodCare, At
  <1>16. Inner(t)
    BY <1>12, <1>13, <1>14, <1>15 DEF Inner, RowBecomes, PageBecomes, At
  <1> QED BY <1>16, InnerStep

\* The form deletes the pod that it had made.
LEMMA UndoPodKeeps ==
    ASSUME IInv, NEW t \in Terminals, UndoPod(t)
    PROVE  IInv'
  <1>1. /\ tab[t].form = "undo_pod" /\ Goes(t, "undo_row") /\ FaultStep
        /\ UNCHANGED <<wire, told>> /\ TypeOK
        /\ cloud' = PodGone(t) \/ (UNCHANGED cloud /\ Fault)
    BY DEF UndoPod, FaultStep, At, IInv
  <1>2. ~tab[t].tracked /\ cloud[t].status # "none"
    BY <1>1, FormFacts
  <1>3. PageBecomes(t, tab[t].view.shown, tab[t].tracked, "undo_row", tab[t].ops)
    BY <1>1, PageGoes DEF Stages
  <1>4. cloud' = PodGone(t) => RowBecomes(t, cloud[t].status, FALSE)
    BY <1>1, RowStatus DEF PodGone
  <1>5. UNCHANGED cloud => RowBecomes(t, cloud[t].status, cloud[t].pod)
    BY <1>1, RowStays
  <1>6. RowOnly(t) /\ cloud'[t].status = cloud[t].status
    BY <1>1, <1>4, <1>5 DEF RowBecomes
  <1>7. ASSUME faults' = MaxFaults, t \notin told.rushed
        PROVE  PodCare(cloud[t].status, cloud'[t].pod, "undo_row", tab[t].ops)
    <2>1. ~Fault /\ tab[t].ops = {}
      BY <1>1, <1>7, FormCare DEF At
    <2>2. ~cloud'[t].pod
      BY <1>1, <1>4, <2>1 DEF RowBecomes
    <2> QED BY <2>1, <2>2 DEF PodCare
  <1>8. Inner(t)
    BY <1>1, <1>2, <1>3, <1>6, <1>7 DEF Inner, PageBecomes, At
  <1> QED BY <1>8, InnerStep

\* The history after a step that sets misled for t at most.
LEMMA MisledStep ==
    ASSUME IInv, NEW t \in Terminals, NEW misled \in SUBSET Terminals,
           told' = [told EXCEPT !.misled = misled],
           \A u \in Terminals \ {t} : u \in misled <=> u \in told.misled
    PROVE  /\ ToldAbout(t) /\ told'.misled = misled
           /\ told'.ran = told.ran /\ told'.unseen = told.unseen /\ told'.rushed = told.rushed
  <1>1. told \in Histories
    BY Types DEF IInv
  <1>2. told' \in Histories
    BY <1>1 DEF Histories
  <1>3. /\ told'.misled = misled
        /\ told'.ran = told.ran /\ told'.unseen = told.unseen /\ told'.rushed = told.rushed
    BY <1>1, <1>2 DEF Histories
  <1> QED BY <1>2, <1>3 DEF ToldAbout

\* The answer to the first post is lost.
LEMMA RowUnansweredKeeps ==
    ASSUME IInv, NEW t \in Terminals, RowUnanswered(t)
    PROVE  IInv'
  <1>1. /\ tab[t].form = "rowed" /\ Goes(t, "none") /\ FaultStep /\ Fault
        /\ UNCHANGED <<cloud, wire>> /\ TypeOK /\ Sound(t)
        /\ told' = [told EXCEPT !.misled = told.misled \cup {t}]
    BY DEF RowUnanswered, FaultStep, At, IInv
  <1>2. ~tab[t].tracked /\ cloud[t].status = "Pending" /\ ~cloud[t].pod /\ tab[t].ops = {}
    BY <1>1, FormFacts
  <1>3. PageBecomes(t, tab[t].view.shown, tab[t].tracked, "none", tab[t].ops)
    BY <1>1, PageGoes DEF Stages
  <1>4. RowBecomes(t, cloud[t].status, cloud[t].pod)
    BY <1>1, RowStays
  <1>5. told.misled \cup {t} \in SUBSET Terminals
    BY Types, <1>1 DEF Histories
  <1>6. /\ ToldAbout(t) /\ t \in told'.misled
        /\ told'.ran = told.ran /\ told'.unseen = told.unseen /\ told'.rushed = told.rushed
    BY <1>1, <1>5, MisledStep
  <1>7. /\ Exists(t) => LastIs(wire.events, t, cloud[t].status)
        /\ TrueOf(wire.answers, t, Listed(cloud[t].status))
    BY <1>1, ListedFacts DEF Sound, InFlightTrue
  <1>8. PodCare("Pending", cloud'[t].pod, "none", {})
    BY DEF PodCare
  <1>9. Said(t, wire.events) /\ LeftStays(t)
    BY <1>1, SaidNothing DEF LeftStays, At
  <1>10. Quiet(t)
    BY <1>1, <1>2, <1>3, <1>4, <1>6, <1>7, <1>8, <1>9
       DEF Quiet, RowBecomes, PageBecomes, At, Exists
  <1> QED BY <1>10, QuietStep

\* The form puts the new row into the list.
LEMMA RowAnsweredKeeps ==
    ASSUME IInv, NEW t \in Terminals, RowAnswered(t)
    PROVE  IInv'
  <1> DEFINE k == tab[t]
  <1>1. /\ k.form = "rowed" /\ FaultStep /\ UNCHANGED <<cloud, wire>> /\ TypeOK /\ Sound(t)
    BY DEF RowAnswered, FaultStep, At, IInv
  <1>2. ~k.tracked /\ cloud[t].status = "Pending" /\ ~cloud[t].pod /\ k.ops = {}
    BY <1>1, FormFacts
  <1>3. PICK view \in Views : view = [shown |-> "Pending", kid |-> FALSE]
    BY DEF Views, Statuses
  <1>4. PICK x : x = [k EXCEPT !.form = "launch"]
    OBVIOUS
  <1>5. PICK y : y = [x EXCEPT !.view = view]
    OBVIOUS
  <1>6. k \in PageRow
    BY <1>1, Types
  <1>7. x \in PageRow /\ x.form = "launch" /\ x.tracked = k.tracked /\ x.ops = k.ops
    BY <1>4, <1>6 DEF PageRow, Stages
  <1>8. y \in PageRow /\ y.form = "launch" /\ y.tracked = k.tracked /\ y.ops = k.ops /\ y.view = view
    BY <1>5, <1>7 DEF PageRow
  <1>9. tab' = [tab EXCEPT ![t] = y]
    BY <1>1, <1>3, <1>4, <1>5, Types DEF RowAnswered
  <1>10. PageBecomes(t, y.view.shown, y.tracked, y.form, y.ops)
    BY <1>1, <1>8, <1>9, PageSet
  <1>11. /\ PageOnly(t) /\ tab'[t].view.shown = "Pending" /\ ~tab'[t].tracked
         /\ tab'[t].form = "launch" /\ tab'[t].ops = {}
    BY <1>2, <1>3, <1>8, <1>10 DEF PageBecomes
  <1>12. told' = [told EXCEPT !.misled = told.misled \ {t}]
    BY <1>2 DEF RowAnswered
  <1>13. told.misled \ {t} \in SUBSET Terminals
    BY Types, <1>1 DEF Histories
  <1>14. /\ ToldAbout(t)
         /\ told'.ran = told.ran /\ told'.unseen = told.unseen /\ told'.rushed = told.rushed
    BY <1>12, <1>13, MisledStep
  <1>15. RowOnly(t)
    BY <1>1, Types DEF RowOnly
  <1>16. Unborn(t)'
    BY <1>1, <1>2 DEF Unborn
  <1>17. InForm(t)'
    BY <1>1, <1>2, <1>11 DEF Sound, InForm, ListShows, At
  <1>18. RunAhead(t)'
    BY <1>1, <1>11, <1>14 DEF Sound, RunAhead, At
  <1>19. InFlightTrue(t)'
    BY <1>1 DEF Sound, InFlightTrue, Exists, Listing
  <1>20. ListTrue(t)'
    BY <1>1, <1>2, <1>11 DEF ListTrue, Exists, Listing, Statuses
  <1>21. PodOwned(t)'
    BY <1>1, <1>2, <1>11 DEF PodOwned, PodCare
  <1>22. LeftSound(t)'
    BY <1>1, LeftStaysSound DEF LeftStays, At
  <1>23. Sound(t)'
    BY <1>16, <1>17, <1>18, <1>19, <1>20, <1>21, <1>22 DEF Sound
  <1>24. Said(t, wire.events)
    BY <1>1, SaidNothing
  <1> QED BY <1>1, <1>11, <1>14, <1>15, <1>23, <1>24, LocalStep DEF EventsAbout

\* No history.
LEMMA ToldNothing ==
    ASSUME TypeOK, NEW t, UNCHANGED told
    PROVE  ToldAbout(t)
  BY Types DEF ToldAbout

\* Cloud inserts the row.
LEMMA RowInsertedKeeps ==
    ASSUME IInv, NEW t \in Terminals, RowInserted(t)
    PROVE  IInv'
  <1>1. /\ tab[t].form = "row" /\ Goes(t, "rowed") /\ FaultStep
        /\ UNCHANGED told /\ TypeOK /\ Sound(t) /\ wire.events \in Seq(Events)
        /\ cloud' = [cloud EXCEPT ![t].status = "Pending"] /\ wire' = Outdating(wire, t)
    BY Types DEF RowInserted, FaultStep, At, IInv, Wires
  <1>2. /\ ~tab[t].tracked /\ cloud[t].status = "none" /\ ~cloud[t].pod /\ tab[t].ops = {}
    BY <1>1, FormFacts DEF At
  <1>3. PageBecomes(t, tab[t].view.shown, tab[t].tracked, "rowed", tab[t].ops)
    BY <1>1, PageGoes DEF Stages
  <1>4. RowBecomes(t, "Pending", cloud[t].pod)
    BY <1>1, RowStatus DEF Statuses
  <1>5. ToldAbout(t)
    BY <1>1, ToldNothing
  <1>6. LastIs(wire.events, t, "Pending")
    BY <1>1, <1>2, NoneOfFacts DEF Sound, Unborn
  <1>7. /\ Said(t, wire.events) /\ LeftStays(t)
        /\ \A shown : TrueOf(wire'.answers, t, shown)
    BY <1>1, Outdated DEF LeftStays, At
  <1>8. PodCare("Pending", cloud'[t].pod, "rowed", {})
    BY DEF PodCare
  <1>9. Quiet(t)
    BY <1>1, <1>2, <1>3, <1>4, <1>5, <1>6, <1>7, <1>8
       DEF Quiet, RowBecomes, PageBecomes, At
  <1> QED BY <1>9, QuietStep

\* The handler deletes the row again.
LEMMA PodRefusedKeeps ==
    ASSUME IInv, NEW t \in Terminals, PodRefused(t)
    PROVE  IInv'
  <1>1. /\ tab[t].form = "launch" \/ (tab[t].form = "launched" /\ Fault)
        /\ Goes(t, "undo_row") /\ FaultStep
        /\ UNCHANGED told /\ TypeOK /\ wire' = Outdating(wire, t)
    BY DEF PodRefused, FaultStep, At, IInv
  <1>2. ~tab[t].tracked /\ cloud[t].status # "none"
    BY <1>1, FormFacts
  <1>3. tab[t].form = "launch" => Exists(t) /\ ~cloud[t].pod /\ tab[t].ops = {}
    BY FormFacts DEF Exists, Statuses
  <1>4. cloud' = RowGone(t)
    BY <1>1, <1>3 DEF PodRefused, At
  <1>5. PageBecomes(t, tab[t].view.shown, tab[t].tracked, "undo_row", tab[t].ops)
    BY <1>1, PageGoes DEF Stages
  <1>6. RowBecomes(t, "gone", cloud[t].pod)
    BY <1>1, <1>4, RowGoes
  <1>7. ToldAbout(t)
    BY <1>1, ToldNothing
  <1>8. /\ Said(t, wire.events) /\ LeftStays(t)
        /\ \A shown : TrueOf(wire'.answers, t, shown)
    BY <1>1, Outdated DEF LeftStays, At
  <1>9. ASSUME faults' = MaxFaults, t \notin told.rushed
        PROVE  PodCare("gone", cloud'[t].pod, "undo_row", tab[t].ops)
    <2>1. tab[t].form = "launch"
      BY <1>1, <1>9, FormCare DEF At
    <2> QED BY <1>3, <1>6, <2>1 DEF PodCare, RowBecomes
  <1>10. Quiet(t)
    BY <1>1, <1>2, <1>5, <1>6, <1>7, <1>8, <1>9
       DEF Quiet, RowBecomes, PageBecomes, At, Exists, Statuses
  <1> QED BY <1>10, QuietStep

\* The row is deleted, or that fails.
LEMMA RowGoesOrNot ==
    ASSUME IInv, NEW t \in Terminals,
           cloud' = RowGone(t) \/ (UNCHANGED cloud /\ Fault),
           UNCHANGED faults \/ Fault
    PROVE  /\ RowOnly(t) /\ (cloud'[t].pod <=> cloud[t].pod)
           /\ cloud'[t].status = "gone" \/ (cloud'[t].status = cloud[t].status /\ Fault)
           /\ Exists(t)' => LastIs(wire.events, t, cloud'[t].status)
  <1>1. cloud' = RowGone(t) => RowBecomes(t, "gone", cloud[t].pod)
    BY RowGoes DEF IInv
  <1>2. UNCHANGED cloud => RowBecomes(t, cloud[t].status, cloud[t].pod)
    BY RowStays DEF IInv
  <1>3. Exists(t) => LastIs(wire.events, t, cloud[t].status)
    BY DEF IInv, Sound, InFlightTrue
  <1> QED BY <1>1, <1>2, <1>3 DEF RowBecomes, Exists, Statuses

\* The form deletes the row.
LEMMA UndoRowKeeps ==
    ASSUME IInv, NEW t \in Terminals, UndoRow(t)
    PROVE  IInv'
  <1>1. /\ tab[t].form = "undo_row" /\ Goes(t, "none") /\ FaultStep
        /\ UNCHANGED told /\ TypeOK
        /\ CanAsk /\ wire' = Asking(Outdating(wire, t))
        /\ cloud' = RowGone(t) \/ (UNCHANGED cloud /\ Fault)
    BY DEF UndoRow, FaultStep, At, IInv
  <1>2. ~tab[t].tracked /\ cloud[t].status # "none"
    BY <1>1, FormFacts
  <1>3. PageBecomes(t, tab[t].view.shown, tab[t].tracked, "none", tab[t].ops)
    BY <1>1, PageGoes DEF Stages
  <1>4. /\ RowOnly(t) /\ (cloud'[t].pod <=> cloud[t].pod)
        /\ cloud'[t].status = "gone" \/ (cloud'[t].status = cloud[t].status /\ Fault)
        /\ Exists(t)' => LastIs(wire.events, t, cloud'[t].status)
    BY <1>1, RowGoesOrNot DEF FaultStep
  <1>5. ToldAbout(t)
    BY <1>1, ToldNothing
  <1>6. /\ Said(t, wire.events) /\ AnswerDue' /\ LeftStays(t)
        /\ \A shown : TrueOf(wire'.answers, t, shown)
    BY <1>1, Outdated DEF LeftStays, At
  <1>7. ASSUME faults' = MaxFaults, t \notin told.rushed
        PROVE  PodCare(cloud'[t].status, cloud'[t].pod, "none", tab[t].ops)
    BY <1>1, <1>4, <1>7, FormCare DEF At, PodCare
  <1>8. Quiet(t)
    BY <1>1, <1>2, <1>3, <1>4, <1>5, <1>6, <1>7 DEF Quiet, PageBecomes, At
  <1> QED BY <1>8, QuietStep

\* The steps of the form keep the invariant.
LEMMA FormKeeps ==
    ASSUME IInv, NEW t \in Terminals, FormStep(t) \/ Submit(t)
    PROVE  IInv'
  BY FormMovesKeep, PodMadeKeeps, KidSavedKeeps, UpdateAnsweredKeeps, UndoPodKeeps,
     RowUnansweredKeeps, RowAnsweredKeeps, RowInsertedKeeps, PodRefusedKeeps, UndoRowKeeps
     DEF FormStep

-----------------------------------------------------------------------------
(* The steps of what a row's controls start, and of the status monitor.    *)

\* A container about which something is under way is past the form's start.
LEMMA OpFacts ==
    ASSUME IInv, NEW t \in Terminals, NEW op, Does(t, op)
    PROVE  /\ TypeOK /\ tab[t].ops # {}
           /\ cloud[t].status # "none" /\ tab[t].form \notin {"row", "rowed", "launch"}
           /\ tab[t].tracked => tab[t].form = "none"
  <1>1. tab[t].ops # {}
    BY DEF Does
  <1> QED BY <1>1, FormFacts DEF IInv, At

\* Done one at a time, it is all there is.
LEMMA OpCare ==
    ASSUME IInv, NEW t \in Terminals, NEW op, Does(t, op), FaultStep,
           faults' = MaxFaults, t \notin told.rushed
    PROVE  /\ ~Fault /\ tab[t].ops = {op} /\ tab[t].form = "none"
           /\ PodCare(cloud[t].status, cloud[t].pod, "none", {op})
  <1>1. PodCare(cloud[t].status, cloud[t].pod, tab[t].form, tab[t].ops)
    BY FormFacts, Faults
  <1>2. tab[t].ops = {op} /\ tab[t].form = "none"
    BY <1>1 DEF PodCare, Does
  <1>3. ~Fault
    BY Faults DEF IInv
  <1> QED BY <1>1, <1>2, <1>3

\* The history after a step that may set rushed for t.
LEMMA RushedStep ==
    ASSUME IInv, NEW t \in Terminals, NEW x \in Histories, NEW rushed \in SUBSET Terminals,
           x.ran = told.ran, x.unseen = told.unseen, x.misled = told.misled,
           told' = [x EXCEPT !.rushed = rushed],
           rushed = told.rushed \/ rushed = told.rushed \cup {t}
    PROVE  /\ ToldAbout(t) /\ told'.rushed = rushed
           /\ told'.ran = told.ran /\ told'.unseen = told.unseen /\ told'.misled = told.misled
  <1>1. told' \in Histories
    BY DEF Histories
  <1>2. /\ told'.rushed = rushed
        /\ told'.ran = told.ran /\ told'.unseen = told.unseen /\ told'.misled = told.misled
    BY <1>1 DEF Histories
  <1> QED BY <1>1, <1>2 DEF ToldAbout

\* The user clicks a control.
LEMMA ClickKeeps ==
    ASSUME IInv, NEW t \in Terminals, Click(t)
    PROVE  IInv'
  <1>1. /\ UNCHANGED <<cloud, wire>> /\ FaultStep /\ TypeOK /\ Sound(t)
        /\ told \in Histories /\ tab[t].ops \in SUBSET Ops
    BY Types DEF Click, FaultStep, IInv, PageRow
  <1>2. PICK op \in {"delete", "delete_blind", "hibernate", "resume"} :
           Starts(t, op) /\ Offers(t, {"Running", "Failed", "Hibernated"})
    BY DEF Click, Offers
  <1>3. /\ PageBecomes(t, tab[t].view.shown, tab[t].tracked, tab[t].form,
                       tab[t].ops \cup {op})
        /\ op \in Ops
    BY <1>1, <1>2, PageStarts DEF Ops
  <1>4. /\ cloud[t].status # "none" /\ tab[t].form \notin {"row", "rowed", "launch"}
        /\ tab[t].tracked => tab[t].form = "none"
    BY <1>1, <1>2, FormFacts DEF Sound, Unborn, InForm, Offers, ListShows, At
  <1>5. RowBecomes(t, cloud[t].status, cloud[t].pod)
    BY <1>1, RowStays
  <1>6. PICK rushed \in SUBSET Terminals :
           rushed = IF AtRest(t) THEN told.rushed ELSE told.rushed \cup {t}
    BY <1>1 DEF Histories
  <1>7. PICK x : x = [told EXCEPT !.clicks = told.clicks + 1]
    OBVIOUS
  <1>8. /\ x \in Histories /\ x.ran = told.ran /\ x.unseen = told.unseen
        /\ x.misled = told.misled /\ x.rushed = told.rushed
    <2>1. told.clicks + 1 \in 0 .. MaxClicks
      <3>1. told.clicks \in 0 .. MaxClicks /\ told.clicks < MaxClicks
        BY <1>1 DEF Click, Histories
      <3> QED BY <3>1, BoundsAssumption
    <2> QED BY <1>1, <1>7, <2>1 DEF Histories
  <1>9. told' = [x EXCEPT !.rushed = rushed]
    BY <1>1, <1>6, <1>7 DEF Click, Histories
  <1>10. /\ ToldAbout(t) /\ told'.rushed = rushed
         /\ told'.ran = told.ran /\ told'.unseen = told.unseen /\ told'.misled = told.misled
    BY <1>6, <1>8, <1>9, RushedStep
  <1>11. /\ Exists(t) => LastIs(wire.events, t, cloud[t].status)
         /\ TrueOf(wire.answers, t, Listed(cloud[t].status))
    BY <1>1, ListedFacts DEF Sound, InFlightTrue
  <1>12. Said(t, wire.events) /\ LeftStays(t)
    BY <1>1, <1>3, SaidNothing DEF LeftStays, At, PageBecomes
  <1>13. ASSUME faults' = MaxFaults, t \notin rushed
         PROVE  PodCare(cloud[t].status, cloud[t].pod, tab[t].form, tab[t].ops \cup {op})
    <2>1. tab[t].form = "none" /\ tab[t].ops = {} /\ t \notin told.rushed
      BY <1>6, <1>13 DEF AtRest, At
    <2>2. PodCare(cloud[t].status, cloud[t].pod, "none", {})
      BY <1>1, <1>13, <2>1, FormFacts, Faults
    <2> QED BY <1>2, <2>1, <2>2 DEF PodCare
  <1>14. Quiet(t)
    BY <1>1, <1>3, <1>4, <1>5, <1>10, <1>11, <1>12, <1>13
       DEF Quiet, RowBecomes, PageBecomes, At, Exists
  <1> QED BY <1>14, QuietStep

\* The first post of a delete.
LEMMA DeleteRowKeeps ==
    ASSUME IInv, NEW t \in Terminals, NEW op \in {"delete", "delete_blind"}, DeleteRow(t, op)
    PROVE  IInv'
  <1>1. /\ Does(t, op) /\ FaultStep /\ told \in Histories
        /\ CanAsk /\ wire' = Asking(Outdating(wire, t))
        /\ cloud' = RowGone(t) \/ (UNCHANGED cloud /\ Fault)
    BY Types DEF DeleteRow, FaultStep, Ends, IInv
  <1>2. /\ TypeOK /\ cloud[t].status # "none"
        /\ tab[t].form \notin {"row", "rowed", "launch"}
        /\ tab[t].tracked => tab[t].form = "none"
    BY <1>1, OpFacts
  <1>3. PICK next \in SUBSET Ops : next = IF op = "delete" THEN {"drop_pod"} ELSE {}
    BY DEF Ops
  <1>4. op \in Ops /\ Ends(t, op, next)
    BY <1>3 DEF DeleteRow, Ops
  <1>5. PageBecomes(t, tab[t].view.shown, tab[t].tracked, tab[t].form,
                    (tab[t].ops \ {op}) \cup next)
    BY <1>2, <1>4, PageEnds
  <1>6. /\ RowOnly(t) /\ (cloud'[t].pod <=> cloud[t].pod)
        /\ cloud'[t].status = "gone" \/ (cloud'[t].status = cloud[t].status /\ Fault)
        /\ Exists(t)' => LastIs(wire.events, t, cloud'[t].status)
    BY <1>1, RowGoesOrNot DEF FaultStep
  <1>7. /\ Said(t, wire.events) /\ AnswerDue' /\ LeftStays(t)
        /\ \A shown : TrueOf(wire'.answers, t, shown)
    BY <1>1, <1>2, <1>5, <1>6, Outdated DEF LeftStays, At, PageBecomes
  <1>8. PICK rushed \in SUBSET Terminals :
           rushed = IF op = "delete_blind" THEN told.rushed \cup {t} ELSE told.rushed
    BY <1>1 DEF Histories
  <1>9. told' = [told EXCEPT !.rushed = rushed]
    BY <1>1, <1>8 DEF DeleteRow, Histories
  <1>10. /\ ToldAbout(t) /\ told'.rushed = rushed
         /\ told'.ran = told.ran /\ told'.unseen = told.unseen /\ told'.misled = told.misled
    BY <1>1, <1>8, <1>9, RushedStep
  <1>11. ASSUME faults' = MaxFaults, t \notin rushed
         PROVE  PodCare(cloud'[t].status, cloud'[t].pod, tab[t].form,
                        (tab[t].ops \ {op}) \cup next)
    <2>1. op = "delete" /\ t \notin told.rushed /\ next = {"drop_pod"}
      BY <1>3, <1>8, <1>11
    <2>2. tab[t].ops = {op} /\ tab[t].form = "none"
      BY <1>1, <1>11, <2>1, OpCare
    <2> QED BY <2>1, <2>2 DEF PodCare
  <1>12. Quiet(t)
    BY <1>1, <1>2, <1>5, <1>6, <1>7, <1>10, <1>11 DEF Quiet, PageBecomes, At
  <1> QED BY <1>12, QuietStep

\* What was under way for t goes on, or ends, and only its pod is affected.
LEMMA PodStep ==
    ASSUME IInv, NEW t \in Terminals, NEW op \in Ops, NEW next \in SUBSET Ops, NEW pod,
           Ends(t, op, next), RowBecomes(t, cloud[t].status, pod),
           UNCHANGED <<wire, told>>, FaultStep,
           faults' = MaxFaults /\ t \notin told.rushed =>
               PodCare(cloud[t].status, cloud'[t].pod, "none", next)
    PROVE  IInv'
  <1>1. /\ PageBecomes(t, tab[t].view.shown, tab[t].tracked, tab[t].form,
                       (tab[t].ops \ {op}) \cup next)
        /\ Does(t, op)
    BY PageEnds DEF IInv
  <1>2. /\ cloud[t].status # "none"
        /\ tab[t].form \notin {"row", "rowed", "launch"}
        /\ tab[t].tracked => tab[t].form = "none"
    BY <1>1, OpFacts
  <1>3. ASSUME faults' = MaxFaults, t \notin told.rushed
        PROVE  PodCare(cloud[t].status, cloud'[t].pod, tab[t].form,
                       (tab[t].ops \ {op}) \cup next)
    <2>1. tab[t].ops = {op} /\ tab[t].form = "none"
      BY <1>1, <1>3, OpCare
    <2>2. (tab[t].ops \ {op}) \cup next = next
      BY <2>1
    <2> QED BY <1>3, <2>1, <2>2
  <1>4. Inner(t)
    BY <1>1, <1>2, <1>3 DEF Inner, RowBecomes, PageBecomes, At
  <1> QED BY <1>4, InnerStep

\* The second post of a delete, the first of a clean-up.
LEMMA PodGoesKeeps ==
    ASSUME IInv, NEW t \in Terminals, DropPod(t) \/ CleanPod(t)
    PROVE  IInv'
  <1>1. {"drop_pod", "clean_pod", "clean_row"} \subseteq Ops
    BY DEF Ops
  <1>2. PICK op \in {"drop_pod", "clean_pod"}, next \in SUBSET {"clean_row"} :
           /\ Ends(t, op, next) /\ UNCHANGED <<wire, told>> /\ FaultStep
           /\ cloud' = PodGone(t) \/ (UNCHANGED cloud /\ Fault)
    BY DEF DropPod, CleanPod, FaultStep
  <1>3. cloud' = PodGone(t) => RowBecomes(t, cloud[t].status, FALSE)
    BY RowStatus DEF PodGone, Statuses, IInv
  <1>4. UNCHANGED cloud => RowBecomes(t, cloud[t].status, cloud[t].pod)
    BY RowStays DEF IInv
  <1>5. PICK pod : RowBecomes(t, cloud[t].status, pod)
    BY <1>2, <1>3, <1>4
  <1>6. ASSUME faults' = MaxFaults, t \notin told.rushed
        PROVE  PodCare(cloud[t].status, cloud'[t].pod, "none", next)
    <2>1. Does(t, op)
      BY <1>2 DEF Ends
    <2>2. ~Fault
      BY <1>2, <1>6, <2>1, OpCare
    <2>3. ~cloud'[t].pod
      BY <1>2, <1>3, <2>2 DEF RowBecomes
    <2> QED BY <1>2, <2>3 DEF PodCare
  <1> QED BY <1>1, <1>2, <1>5, <1>6, PodStep

\* The second post of a clean-up.
LEMMA CleanRowKeeps ==
    ASSUME IInv, NEW t \in Terminals, CleanRow(t)
    PROVE  IInv'
  <1>1. /\ Ends(t, "clean_row", {}) /\ Does(t, "clean_row") /\ FaultStep /\ UNCHANGED told
        /\ CanAsk /\ wire' = Asking(Outdating(wire, t))
        /\ cloud' = RowGone(t) \/ (UNCHANGED cloud /\ Fault)
    BY DEF CleanRow, FaultStep, Ends
  <1>2. /\ TypeOK /\ cloud[t].status # "none"
        /\ tab[t].form \notin {"row", "rowed", "launch"}
        /\ tab[t].tracked => tab[t].form = "none"
    BY <1>1, OpFacts
  <1>3. PageBecomes(t, tab[t].view.shown, tab[t].tracked, tab[t].form,
                    (tab[t].ops \ {"clean_row"}) \cup {})
    BY <1>1, <1>2, PageEnds DEF Ops
  <1>4. /\ RowOnly(t) /\ (cloud'[t].pod <=> cloud[t].pod)
        /\ cloud'[t].status = "gone" \/ (cloud'[t].status = cloud[t].status /\ Fault)
        /\ Exists(t)' => LastIs(wire.events, t, cloud'[t].status)
    BY <1>1, RowGoesOrNot DEF FaultStep
  <1>5. /\ Said(t, wire.events) /\ AnswerDue' /\ LeftStays(t)
        /\ \A shown : TrueOf(wire'.answers, t, shown)
    BY <1>1, <1>2, <1>3, <1>4, Outdated DEF LeftStays, At, PageBecomes
  <1>6. ToldAbout(t)
    BY <1>1, <1>2, ToldNothing
  <1>7. ASSUME faults' = MaxFaults, t \notin told.rushed
        PROVE  PodCare(cloud'[t].status, cloud'[t].pod, tab[t].form,
                       (tab[t].ops \ {"clean_row"}) \cup {})
    <2>1. /\ tab[t].ops = {"clean_row"} /\ tab[t].form = "none"
          /\ PodCare(cloud[t].status, cloud[t].pod, "none", {"clean_row"})
      BY <1>1, <1>7, OpCare
    <2> QED BY <1>4, <2>1 DEF PodCare
  <1>8. Quiet(t)
    BY <1>1, <1>2, <1>3, <1>4, <1>5, <1>6, <1>7 DEF Quiet, PageBecomes, At
  <1> QED BY <1>8, QuietStep

\* A handler ends: Cloud has been told of a new status.
LEMMA HandlerStep ==
    ASSUME IInv, NEW t \in Terminals, NEW op \in Ops, NEW next \in SUBSET Ops,
           NEW status \in Statuses, NEW pod \in BOOLEAN,
           Ends(t, op, next), Exists(t), Changes(t, status, pod),
           \/ wire' = Published(wire, t, status)
           \/ CanAsk /\ wire' = Asking(Published(wire, t, status)),
           FaultStep, next \subseteq {"resuming"}
    PROVE  IInv'
  <1>1. /\ PageBecomes(t, tab[t].view.shown, tab[t].tracked, tab[t].form,
                       (tab[t].ops \ {op}) \cup next)
        /\ Does(t, op)
    BY PageEnds DEF IInv
  <1>2. tab[t].ops # {}
    BY <1>1 DEF Does
  <1>3. ASSUME faults' = MaxFaults, t \notin told.rushed
        PROVE  PodCare(status, pod, tab[t].form, (tab[t].ops \ {op}) \cup next)
    <2>1. tab[t].ops = {op} /\ tab[t].form = "none"
      BY <1>1, <1>3, OpCare
    <2> QED BY <2>1 DEF PodCare, Statuses
  <1> QED BY <1>1, <1>2, <1>3, ChangeStepNow

\* A handler ends with at most a pod made or gone, and the page asks for the list.
LEMMA AskingPodStep ==
    ASSUME IInv, NEW t \in Terminals, NEW op \in Ops, NEW pod, Ends(t, op, {}),
           RowBecomes(t, cloud[t].status, pod), CanAsk, wire' = Asking(wire), UNCHANGED told,
           FaultStep,
           faults' = MaxFaults /\ t \notin told.rushed =>
               PodCare(cloud[t].status, cloud'[t].pod, "none", {})
    PROVE  IInv'
  <1>1. Does(t, op) /\ {} \in SUBSET Ops
    BY DEF Ends
  <1>2. /\ TypeOK /\ Sound(t) /\ cloud[t].status # "none"
        /\ tab[t].form \notin {"row", "rowed", "launch"}
        /\ tab[t].tracked => tab[t].form = "none"
    BY <1>1, OpFacts DEF IInv
  <1>3. PageBecomes(t, tab[t].view.shown, tab[t].tracked, tab[t].form,
                    (tab[t].ops \ {op}) \cup {})
    BY <1>1, <1>2, PageEnds
  <1>4. Said(t, wire.events) /\ AnswerDue' /\ ToldAbout(t) /\ LeftStays(t)
    BY <1>2, <1>3, Asked, ToldNothing DEF LeftStays, At, PageBecomes, RowBecomes
  <1>5. /\ Exists(t) => LastIs(wire.events, t, cloud[t].status)
        /\ TrueOf(wire'.answers, t, Listed(cloud[t].status))
    BY <1>2, <1>4, ListedFacts DEF Sound, InFlightTrue, Said
  <1>6. ASSUME faults' = MaxFaults, t \notin told.rushed
        PROVE  PodCare(cloud[t].status, cloud'[t].pod, tab[t].form, (tab[t].ops \ {op}) \cup {})
    <2>1. tab[t].ops = {op} /\ tab[t].form = "none"
      BY <1>1, <1>6, OpCare
    <2>2. (tab[t].ops \ {op}) \cup {} = {}
      BY <2>1
    <2> QED BY <1>6, <2>1, <2>2
  <1>7. Quiet(t)
    BY <1>2, <1>3, <1>4, <1>5, <1>6 DEF Quiet, RowBecomes, PageBecomes, At, Exists
  <1> QED BY <1>7, QuietStep

\* The hibernate handler.
LEMMA HibernateKeeps ==
    ASSUME IInv, NEW t \in Terminals, Hibernate(t)
    PROVE  IInv'
  <1>1. Ends(t, "hibernate", {}) /\ FaultStep /\ CanAsk /\ Does(t, "hibernate")
    BY DEF Hibernate, FaultStep, Ends
  <1>2. /\ "hibernate" \in Ops /\ {} \in SUBSET Ops /\ "Hibernated" \in Statuses
        /\ TypeOK
    BY DEF Ops, Statuses, IInv
  <1>3. CASE /\ cloud[t].status = "Running" /\ cloud[t].pod
             /\ Changes(t, "Hibernated", FALSE)
             /\ wire' = Asking(Published(wire, t, "Hibernated"))
    <2>1. Exists(t)
      BY <1>3 DEF Exists, Statuses
    <2> QED BY <1>1, <1>2, <1>3, <2>1, HandlerStep
  <1>4. CASE /\ UNCHANGED cloud \/ (cloud' = PodGone(t) /\ Fault)
             /\ UNCHANGED told /\ wire' = Asking(wire)
    <2>1. UNCHANGED cloud => RowBecomes(t, cloud[t].status, cloud[t].pod)
      BY <1>2, RowStays
    <2>2. cloud' = PodGone(t) => RowBecomes(t, cloud[t].status, FALSE)
      BY <1>2, RowStatus DEF PodGone
    <2>3. PICK pod : RowBecomes(t, cloud[t].status, pod)
      BY <1>4, <2>1, <2>2
    <2>4. ASSUME faults' = MaxFaults, t \notin told.rushed
          PROVE  PodCare(cloud[t].status, cloud'[t].pod, "none", {})
      <3>1. ~Fault /\ PodCare(cloud[t].status, cloud[t].pod, "none", {"hibernate"})
        BY <1>1, <2>4, OpCare
      <3> QED BY <1>4, <3>1 DEF PodCare
    <2> QED BY <1>1, <1>2, <1>4, <2>3, <2>4, AskingPodStep
  <1> QED BY <1>3, <1>4 DEF Hibernate

\* The resume handler claims the container.
LEMMA ResumeClaimsKeeps ==
    ASSUME IInv, NEW t \in Terminals, ResumeClaims(t)
    PROVE  IInv'
  <1>1. /\ "resume" \in Ops /\ {} \in SUBSET Ops /\ {"resuming"} \in SUBSET Ops
        /\ {"Resuming", "Failed"} \subseteq Statuses
    BY DEF Ops, Statuses
  <1>2. TypeOK /\ cloud[t].pod \in BOOLEAN
    BY Types DEF IInv, CloudRow
  <1>3. CASE /\ cloud[t].status = "Hibernated"
             /\ Ends(t, "resume", {"resuming"}) \/ Ends(t, "resume", {})
             /\ FaultStep
             /\ Changes(t, "Resuming", cloud[t].pod) /\ wire' = Published(wire, t, "Resuming")
    <2>1. Exists(t)
      BY <1>3 DEF Exists, Statuses
    <2>2. PICK next \in {{}, {"resuming"}} : Ends(t, "resume", next)
      BY <1>3
    <2> QED BY <1>1, <1>2, <1>3, <2>1, <2>2, HandlerStep
  <1>4. CASE Ends(t, "resume", {}) /\ UNCHANGED <<cloud, wire, told, faults>>
    <2>1. RowBecomes(t, cloud[t].status, cloud[t].pod) /\ FaultStep /\ Does(t, "resume")
      BY <1>2, <1>4, RowStays DEF FaultStep, Ends
    <2>2. ASSUME faults' = MaxFaults, t \notin told.rushed
          PROVE  PodCare(cloud[t].status, cloud[t].pod, "none", {})
      BY <2>1, <2>2, OpCare DEF PodCare
    <2> QED BY <1>1, <1>4, <2>1, <2>2, PodStep
  <1>5. CASE /\ Ends(t, "resume", {}) /\ CanAsk /\ wire' = Asking(wire)
             /\ UNCHANGED <<cloud, told, faults>>
    <2>1. RowBecomes(t, cloud[t].status, cloud[t].pod) /\ FaultStep /\ Does(t, "resume")
      BY <1>2, <1>5, RowStays DEF FaultStep, Ends
    <2>2. ASSUME faults' = MaxFaults, t \notin told.rushed
          PROVE  PodCare(cloud[t].status, cloud'[t].pod, "none", {})
      BY <1>5, <2>1, <2>2, OpCare DEF PodCare
    <2> QED BY <1>1, <1>5, <2>1, <2>2, AskingPodStep
  <1>6. CASE /\ Exists(t) /\ Fault
             /\ Ends(t, "resume", {})
             /\ Changes(t, "Failed", cloud[t].pod) /\ wire' = Published(wire, t, "Failed")
    <2>1. FaultStep
      BY <1>6 DEF FaultStep
    <2> QED BY <1>1, <1>2, <1>6, <2>1, HandlerStep
  <1> QED BY <1>3, <1>4, <1>5, <1>6 DEF ResumeClaims, FaultStep

\* The resume handler ends.
LEMMA ResumeDoneKeeps ==
    ASSUME IInv, NEW t \in Terminals, ResumeDone(t)
    PROVE  IInv'
  <1>1. /\ "resuming" \in Ops /\ {} \in SUBSET Ops
        /\ {"Running", "Hibernated"} \subseteq Statuses
    BY DEF Ops, Statuses
  <1>2. TypeOK /\ Sound(t) /\ cloud[t].pod \in BOOLEAN
    BY Types DEF IInv, CloudRow
  <1>3. Ends(t, "resuming", {}) /\ FaultStep /\ Does(t, "resuming")
    BY DEF ResumeDone, FaultStep, Ends
  <1>4. CASE /\ Exists(t) /\ CanAsk
             /\ Changes(t, "Running", TRUE)
             /\ wire' = Asking(Published(wire, t, "Running"))
    BY <1>1, <1>3, <1>4, HandlerStep
  <1>5. CASE /\ Exists(t)
             /\ \E pod \in {cloud[t].pod, TRUE} : Changes(t, "Hibernated", pod)
             /\ wire' = Published(wire, t, "Hibernated")
    <2>1. PICK pod \in BOOLEAN : Changes(t, "Hibernated", pod)
      BY <1>2, <1>5
    <2> QED BY <1>1, <1>3, <1>5, <2>1, HandlerStep
  <1>6. ASSUME faults' = MaxFaults, t \notin told.rushed
        PROVE  PodCare(cloud[t].status, cloud'[t].pod, "none", {})
    <2>1. PodCare(cloud[t].status, cloud[t].pod, "none", {"resuming"})
      BY <1>3, <1>6, OpCare
    <2> QED BY <2>1 DEF PodCare, Statuses
  <1>7. UNCHANGED cloud => RowBecomes(t, cloud[t].status, cloud[t].pod)
    BY <1>2, RowStays
  <1>8. cloud' = [cloud EXCEPT ![t].pod = TRUE] => RowBecomes(t, cloud[t].status, TRUE)
    BY <1>2, RowStatus
  <1>9. CASE /\ UNCHANGED cloud \/ cloud' = [cloud EXCEPT ![t].pod = TRUE]
             /\ UNCHANGED <<wire, told>>
    <2>1. PICK pod : RowBecomes(t, cloud[t].status, pod)
      BY <1>7, <1>8, <1>9
    <2> QED BY <1>1, <1>3, <1>6, <1>9, <2>1, PodStep
  <1>10. CASE /\ CanAsk /\ cloud' = [cloud EXCEPT ![t].pod = TRUE]
              /\ wire' = Asking(wire) /\ UNCHANGED told
    <2>1. RowBecomes(t, cloud[t].status, TRUE)
      BY <1>8, <1>10
    <2> QED BY <1>1, <1>3, <1>6, <1>10, <2>1, AskingPodStep
  <1> QED BY <1>4, <1>5, <1>9, <1>10 DEF ResumeDone

\* The status monitor reports a phase.
LEMMA MonitorKeeps ==
    ASSUME IInv, NEW t \in Terminals, Monitor(t)
    PROVE  IInv'
  <1>1. PICK phase \in {"Running", "Failed"} :
           Changes(t, phase, TRUE) /\ wire' = Published(wire, t, phase)
    BY DEF Monitor
  <1>2. Exists(t) /\ cloud[t].pod /\ FaultStep /\ phase \in Statuses
    BY DEF Monitor, FaultStep, Statuses
  <1>3. PageBecomes(t, tab[t].view.shown, tab[t].tracked, tab[t].form, tab[t].ops)
    BY PageStays DEF Monitor, IInv
  <1>4. ASSUME faults' = MaxFaults, t \notin told.rushed
        PROVE  PodCare(phase, TRUE, tab[t].form, tab[t].ops)
    <2>1. PodCare(cloud[t].status, cloud[t].pod, tab[t].form, tab[t].ops)
      BY <1>2, <1>4, FormFacts, Faults
    <2> QED BY <1>2, <2>1 DEF PodCare, Statuses
  <1> QED BY <1>1, <1>2, <1>3, <1>4, ChangeStepNow

\* The steps on the rows keep the invariant.
LEMMA OpKeeps ==
    ASSUME IInv, NEW t \in Terminals, OpStep(t) \/ Click(t) \/ Monitor(t)
    PROVE  IInv'
  BY DeleteRowKeeps, PodGoesKeeps, CleanRowKeeps, HibernateKeeps, ResumeClaimsKeeps,
     ResumeDoneKeeps, ClickKeeps, MonitorKeeps DEF OpStep

-----------------------------------------------------------------------------
(* What earlier pages asked.                                               *)

\* A request of an earlier page is served or fails.
LEMMA LeftServedKeeps ==
    ASSUME IInv, NEW t \in Terminals, NEW q \in Requests, LeftServed(t, q)
    PROVE  IInv'
  <1>1. /\ TypeOK /\ Sound(t) /\ wire \in Wires /\ wire.events \in Seq(Events)
        /\ told \in Histories /\ cloud[t].pod \in BOOLEAN /\ IsFiniteSet(wire.answers)
        /\ <<t, q>> \in wire.left /\ UNCHANGED <<tab, faults>> /\ FaultStep
    BY Types DEF IInv, Wires, CloudRow, LeftServed, FaultStep
  <1>2. /\ q \in LeftOf(t, wire.left) /\ At(t, "none") /\ faults # MaxFaults
        /\ q = "insert" <=> cloud[t].status = "none"
    BY <1>1 DEF Sound, LeftSound, LeftOf
  <1>3. PICK left : left = wire.left \ {<<t, q>>}
    OBVIOUS
  <1>4. PICK w : w = [wire EXCEPT !.left = left]
    OBVIOUS
  <1>5. /\ w \in Wires /\ w.left = left /\ SameBut(w, t)
        /\ LeftOf(t, left) \subseteq LeftOf(t, wire.left)
        /\ q \notin LeftOf(t, left)
    <2>1. left \in SUBSET (Terminals \X Requests)
      BY <1>1, <1>3 DEF Wires
    <2>2. /\ w \in Wires /\ w.left = left /\ w.up = wire.up /\ w.phase = wire.phase
          /\ w.events = wire.events /\ w.asked = wire.asked /\ w.answers = wire.answers
      BY <1>1, <1>4, <2>1 DEF Wires
    <2>3. /\ \A u \in Terminals : LeftOf(u, left) \subseteq LeftOf(u, wire.left)
          /\ q \notin LeftOf(t, left)
      BY <1>3 DEF LeftOf
    <2> QED BY <2>2, <2>3 DEF SameBut
  <1>6. \/ LeftWrites(t, q, w) \/ LeftTouches(t, q, w) \/ LeftChanges(t, q, w)
        \/ wire' = w /\ UNCHANGED <<cloud, told>>
    BY <1>3, <1>4 DEF LeftServed
  <1>7. PageBecomes(t, tab[t].view.shown, tab[t].tracked, tab[t].form, tab[t].ops)
    BY <1>1, PageStays
  <1>8. faults' # MaxFaults
    BY <1>1, <1>2
  <1>9. cloud[t].status = "none" =>
           ~tab[t].tracked /\ tab[t].ops = {} /\ ~cloud[t].pod /\ NoneOf(wire.events, t)
    BY <1>1 DEF Sound, Unborn
  <1>10. tab[t].tracked => At(t, "none")
    BY <1>2
  <1>11. Exists(t) => LastIs(wire.events, t, cloud[t].status)
    BY <1>1 DEF Sound, InFlightTrue
  <1>12. TrueOf(wire.answers, t, Listed(cloud[t].status))
    BY <1>1, ListedFacts DEF Sound, InFlightTrue
  <1>13. CASE LeftWrites(t, q, w)
    <2>1. /\ wire' = Outdating(w, t)
          /\ told' = [told EXCEPT !.misled = told.misled \cup {t}]
      BY <1>13 DEF LeftWrites
    <2>2. told.misled \cup {t} \in SUBSET Terminals
      BY <1>1 DEF Histories
    <2>3. /\ ToldAbout(t) /\ t \in told'.misled
          /\ told'.ran = told.ran /\ told'.unseen = told.unseen /\ told'.rushed = told.rushed
      BY <2>1, <2>2, MisledStep
    <2>4. /\ Said(t, wire.events) /\ wire'.left = left
          /\ \A shown : TrueOf(wire'.answers, t, shown)
      BY <1>5, <2>1, OutdatedFrom DEF SameBut
    <2>5. CASE q = "insert" /\ cloud' = [cloud EXCEPT ![t].status = "Pending"]
      <3>1. RowBecomes(t, "Pending", cloud[t].pod) /\ cloud[t].status = "none"
        BY <1>1, <1>2, <2>5, RowStatus DEF Statuses
      <3>2. LeftOf(t, left) = {}
        BY <1>1, <1>5, <2>5, <3>1 DEF Sound, LeftSound
      <3>3. LastIs(wire.events, t, "Pending")
        BY <1>1, <1>9, <3>1, NoneOfFacts
      <3>4. LeftStays(t)
        BY <1>5, <2>4, <3>2 DEF LeftStays
      <3>5. Quiet(t)
        BY <1>1, <1>2, <1>7, <1>8, <1>9, <2>3, <2>4, <3>1, <3>3, <3>4
           DEF Quiet, RowBecomes, PageBecomes, At
      <3> QED BY <3>5, QuietStep
    <2>6. CASE q # "insert" /\ \/ cloud' = RowGone(t)
                               \/ cloud' = [RowGone(t) EXCEPT ![t].pod = TRUE]
      <3>1. PICK pod \in BOOLEAN : RowBecomes(t, "gone", pod) /\ cloud[t].status # "none"
        <4>1. CASE cloud' = RowGone(t)
          BY <1>1, <1>2, <2>6, <4>1, RowGoes
        <4>2. CASE cloud' = [RowGone(t) EXCEPT ![t].pod = TRUE]
          BY <1>1, <1>2, <2>6, <4>2, RowGoesFromPod
        <4> QED BY <2>6, <4>1, <4>2
      <3>2. LeftStays(t)
        BY <1>2, <1>5, <1>7, <2>4, <3>1 DEF LeftStays, RowBecomes, PageBecomes, At
      <3>3. Quiet(t)
        BY <1>1, <1>2, <1>7, <1>8, <2>3, <2>4, <3>1, <3>2
           DEF Quiet, RowBecomes, PageBecomes, At, Exists, Statuses
      <3> QED BY <3>3, QuietStep
    <2> QED BY <1>13, <2>5, <2>6 DEF LeftWrites
  <1>14. CASE /\ wire' = w /\ UNCHANGED told
              /\ \/ UNCHANGED cloud
                 \/ q # "insert" /\ \E pod \in BOOLEAN : cloud' = [cloud EXCEPT ![t].pod = pod]
                 \/ q # "insert" /\ cloud' = [cloud EXCEPT ![t].kid = TRUE]
    <2>1. UNCHANGED cloud => RowBecomes(t, cloud[t].status, cloud[t].pod)
      BY <1>1, RowStays
    <2>2. \A pod \in BOOLEAN : cloud' = [cloud EXCEPT ![t].pod = pod]
                                 => RowBecomes(t, cloud[t].status, pod)
      BY <1>1, RowStatus DEF Statuses
    <2>3. cloud' = [cloud EXCEPT ![t].kid = TRUE] => RowBecomes(t, cloud[t].status, cloud[t].pod)
      BY <1>1, RowStatus DEF Statuses
    <2>4. PICK pod : /\ RowBecomes(t, cloud[t].status, pod)
                     /\ q # "insert" \/ pod = cloud[t].pod
      BY <1>14, <2>1, <2>2, <2>3
    <2>5. /\ Said(t, wire.events) /\ ToldAbout(t)
          /\ wire'.answers = wire.answers
      BY <1>1, <1>5, <1>14, ToldNothing DEF Said, SameBut, AnswerDue
    <2>6. LeftStays(t)
      BY <1>2, <1>5, <1>7, <1>14, <2>4 DEF LeftStays, RowBecomes, PageBecomes, At
    <2>7. Quiet(t)
      BY <1>1, <1>2, <1>7, <1>8, <1>9, <1>11, <1>12, <1>14, <2>4, <2>5, <2>6
         DEF Quiet, RowBecomes, PageBecomes, At, Exists
    <2> QED BY <2>7, QuietStep
  <1>15. CASE LeftChanges(t, q, w)
    <2>1. PICK status \in Statuses, pod \in BOOLEAN,
               v \in {w, [w EXCEPT !.left = @ \cup {<<t, "resuming">>}]} :
             /\ Exists(t) /\ Changes(t, status, pod) /\ wire' = Published(v, t, status)
             /\ q # "insert"
      BY <1>1, <1>15 DEF LeftChanges, Exists, Statuses
    <2>2. /\ v \in Wires /\ SameBut(v, t)
          /\ \A r \in LeftOf(t, v.left) : r = "resuming" \/ r \in LeftOf(t, left)
      <3>1. CASE v = w
        BY <1>5, <3>1
      <3>2. CASE v # w
        <4>1. PICK more : more = left \cup {<<t, "resuming">>}
          OBVIOUS
        <4>2. v = [w EXCEPT !.left = more]
          BY <1>5, <2>1, <3>2, <4>1
        <4>3. left \in SUBSET (Terminals \X Requests)
          BY <1>5 DEF Wires
        <4>4. more \in SUBSET (Terminals \X Requests)
          BY <4>1, <4>3 DEF Requests
        <4>5. /\ v \in Wires /\ v.left = more /\ v.up = w.up /\ v.phase = w.phase
              /\ v.events = w.events /\ v.asked = w.asked /\ v.answers = w.answers
          BY <1>5, <4>2, <4>4 DEF Wires
        <4>6. /\ \A u \in Terminals \ {t} : LeftOf(u, more) = LeftOf(u, left)
              /\ \A r \in LeftOf(t, more) : r = "resuming" \/ r \in LeftOf(t, left)
          BY <4>1 DEF LeftOf
        <4> QED BY <1>5, <4>5, <4>6 DEF SameBut
      <3> QED BY <3>1, <3>2
    <2>3. \A r \in LeftOf(t, v.left) : r # "insert" /\ LeftOf(t, wire.left) # {}
      BY <1>1, <1>2, <1>5, <2>1, <2>2 DEF Sound, LeftSound, Exists, Statuses
    <2> QED BY <1>1, <1>2, <1>7, <1>8, <2>1, <2>2, <2>3, ChangeStep
  <1>16. LeftTouches(t, q, w) =>
            /\ wire' = w /\ UNCHANGED told /\ q # "insert"
            /\ \/ \E pod \in BOOLEAN : cloud' = [cloud EXCEPT ![t].pod = pod]
               \/ cloud' = [cloud EXCEPT ![t].kid = TRUE]
    BY DEF LeftTouches, PodGone
  <1> QED BY <1>6, <1>13, <1>14, <1>15, <1>16

-----------------------------------------------------------------------------
(* The steps of the list and of the stream.                                *)

\* One more answer.
LEMMA AnswerMore ==
    ASSUME NEW as, NEW a, NEW t
    PROVE  /\ \A shown : ListsOnly(as, t, shown) /\ a.view[t].shown \in shown
                           => ListsOnly(as \cup {a}, t, shown)
           /\ \A shown : TrueOf(as, t, shown) /\ a.view[t].shown = shown
                           => TrueOf(as \cup {a}, t, shown)
  BY DEF ListsOnly, TrueOf

\* The rows are read for an answer.
LEMMA ListServedKeeps ==
    ASSUME IInv, ListServed
    PROVE  IInv'
  <1>1. /\ wire \in Wires /\ IsFiniteSet(wire.answers) /\ wire.asked > 0
        /\ cloud \in [Terminals -> CloudRow] /\ tab \in [Terminals -> PageRow]
        /\ told \in Histories /\ faults \in 0 .. MaxFaults
        /\ UNCHANGED <<cloud, tab, told, faults>>
    BY Types DEF IInv, ListServed
  <1>2. PICK view : view = [t \in Terminals |-> Listing(t)]
    OBVIOUS
  <1>3. PICK a : a = [view |-> view, old |-> {}]
    OBVIOUS
  <1>4. a \in Answers /\ \A t \in Terminals : a.view[t].shown = Listing(t).shown
    <2>1. \A t \in Terminals : Listing(t) \in Views
      BY <1>1 DEF Listing, Views, NotListed, CloudRow, Exists
    <2>2. view \in [Terminals -> Views]
      BY <1>2, <2>1
    <2>3. a.view = view
      BY <1>3
    <2>4. a \in Answers
      BY <1>3, <2>2 DEF Answers
    <2> QED BY <1>2, <2>3, <2>4
  <1>5. PICK as : as = wire.answers \cup {a}
    OBVIOUS
  <1>6. as \in SUBSET Answers /\ IsFiniteSet(as) /\ as # {}
    BY <1>1, <1>4, <1>5, FS_AddElement DEF Wires
  <1>7. /\ wire' \in Wires /\ wire'.up = wire.up /\ wire'.events = wire.events
        /\ wire'.answers = as /\ wire'.phase = wire.phase /\ wire'.left = wire.left
    <2>1. PICK asked \in 0 .. MaxLoads : asked = wire.asked - 1
      <3>1. wire.asked \in 0 .. MaxLoads
        BY <1>1 DEF Wires
      <3> QED BY <1>1, <3>1, BoundsAssumption
    <2>2. PICK x : x = [wire EXCEPT !.asked = asked]
      OBVIOUS
    <2>3. /\ x \in Wires /\ x.up = wire.up /\ x.events = wire.events
          /\ x.answers = wire.answers /\ x.phase = wire.phase /\ x.left = wire.left
      BY <1>1, <2>2 DEF Wires
    <2>4. wire' = [x EXCEPT !.answers = as]
      BY <1>1, <1>2, <1>3, <1>5, <2>1, <2>2 DEF ListServed, Wires
    <2> QED BY <1>6, <2>3, <2>4 DEF Wires
  <1>8. AnswerDue'
    BY <1>6, <1>7 DEF AnswerDue
  <1>9. TypeOK'
    BY <1>1, <1>7, TypesBack
  <1>10. ASSUME NEW t \in Terminals
         PROVE  Sound(t)'
    <2>1. Sound(t)
      BY DEF IInv
    <2>2. /\ \A shown : ListShows(t, shown) /\ Listing(t).shown \in shown => ListShows(t, shown)'
          /\ TrueOf(wire.answers, t, Listing(t).shown) => TrueOf(wire'.answers, t, Listing(t).shown)
      <3>1. /\ \A shown : ListsOnly(wire.answers, t, shown) /\ Listing(t).shown \in shown
                             => ListsOnly(as, t, shown)
            /\ \A shown : TrueOf(wire.answers, t, shown) /\ Listing(t).shown = shown
                             => TrueOf(as, t, shown)
        <4>1. a.view[t].shown = Listing(t).shown
          BY <1>4
        <4> QED BY <1>5, <4>1, AnswerMore
      <3>2. wire'.answers = as /\ tab' = tab
        BY <1>1, <1>7
      <3> QED BY <3>1, <3>2 DEF ListShows
    <2>3. Unborn(t)'
      <3>1. cloud[t].status = "none" => Listing(t).shown = "none"
        BY ListedFacts DEF Listed, Statuses
      <3> QED BY <1>1, <1>7, <2>1, <2>2, <3>1 DEF Sound, Unborn
    <2>4. InForm(t)'
      <3>1. cloud[t].status = "Pending" => Listing(t).shown = "Pending"
        BY ListedFacts DEF Listed, Statuses
      <3> QED BY <1>1, <1>7, <2>1, <2>2, <3>1 DEF Sound, InForm, At
    <2>5. RunAhead(t)'
      BY <1>1, <1>7, <2>1 DEF Sound, RunAhead, At
    <2>6. InFlightTrue(t)'
      BY <1>1, <1>7, <2>1, <2>2 DEF Sound, InFlightTrue, Exists, Listing
    <2>7. ListTrue(t)'
      BY <1>8 DEF ListTrue
    <2>8. PodOwned(t)' /\ LeftSound(t)'
      BY <1>1, <1>7, <2>1 DEF Sound, PodOwned, LeftSound, At
    <2> QED BY <2>3, <2>4, <2>5, <2>6, <2>7, <2>8 DEF Sound
  <1>11. IF wire'.up THEN wire'.phase = "done" ELSE wire'.events = <<>>
    BY <1>7 DEF IInv
  <1> QED BY <1>6, <1>7, <1>9, <1>10, <1>11 DEF IInv

\* An answer replaces the list.
LEMMA ListAnsweredKeeps ==
    ASSUME IInv, NEW a, ListAnswered(a)
    PROVE  IInv'
  <1>1. /\ wire \in Wires /\ IsFiniteSet(wire.answers)
        /\ cloud \in [Terminals -> CloudRow] /\ tab \in [Terminals -> PageRow]
        /\ told \in Histories /\ faults \in 0 .. MaxFaults
        /\ UNCHANGED <<cloud, faults>> /\ a \in wire.answers
        /\ tab' = [t \in Terminals |-> [tab[t] EXCEPT !.view = a.view[t]]]
        /\ told' = [told EXCEPT !.misled = a.old]
        /\ wire' = [wire EXCEPT !.answers = wire.answers \ {a}, !.phase = Onward(wire.phase)]
    BY Types DEF IInv, ListAnswered
  <1>2. a \in Answers /\ a.old \in SUBSET Terminals /\ \A t \in Terminals : a.view[t] \in Views
    <2>1. a \in Answers
      BY <1>1 DEF Wires
    <2> QED BY <2>1 DEF Answers
  <1>3. PICK as : as = wire.answers \ {a}
    OBVIOUS
  <1>4. as \in SUBSET Answers /\ IsFiniteSet(as) /\ as \subseteq wire.answers
    BY <1>1, <1>3, FS_RemoveElement DEF Wires
  <1>5. /\ wire' \in Wires /\ wire'.up = wire.up /\ wire'.events = wire.events
        /\ wire'.answers = as /\ wire'.phase = Onward(wire.phase) /\ wire'.left = wire.left
    <2>1. Onward(wire.phase) \in Phases
      BY <1>1 DEF Onward, Phases, Wires
    <2>2. PICK x : x = [wire EXCEPT !.answers = as]
      OBVIOUS
    <2>3. /\ x \in Wires /\ x.up = wire.up /\ x.events = wire.events /\ x.answers = as
          /\ x.left = wire.left
      BY <1>1, <1>4, <2>2 DEF Wires
    <2>4. wire' = [x EXCEPT !.phase = Onward(wire.phase)]
      BY <1>1, <1>3, <2>2
    <2> QED BY <2>1, <2>3, <2>4 DEF Wires
  <1>6. /\ told' \in Histories /\ told'.misled = a.old /\ told'.ran = told.ran
        /\ told'.unseen = told.unseen /\ told'.rushed = told.rushed
    BY <1>1, <1>2 DEF Histories
  <1>7. ASSUME NEW t \in Terminals
        PROVE  /\ tab'[t] \in PageRow /\ tab'[t].view = a.view[t]
               /\ tab'[t].tracked = tab[t].tracked /\ tab'[t].form = tab[t].form
               /\ tab'[t].ops = tab[t].ops
    <2>1. tab'[t] = [tab[t] EXCEPT !.view = a.view[t]]
      BY <1>1
    <2>2. tab[t] \in PageRow
      BY <1>1
    <2> QED BY <1>2, <2>1, <2>2 DEF PageRow
  <1>8. tab' \in [Terminals -> PageRow]
    <2>1. tab' = [t \in Terminals |-> tab'[t]]
      BY <1>1
    <2> QED BY <1>7, <2>1
  <1>9. TypeOK'
    BY <1>1, <1>5, <1>6, <1>8, TypesBack
  <1>10. ASSUME NEW t \in Terminals
         PROVE  Sound(t)'
    <2>1. Sound(t)
      BY DEF IInv
    <2>2. /\ \A shown : ListShows(t, shown) => ListShows(t, shown)'
          /\ \A shown : TrueOf(wire.answers, t, shown) => TrueOf(wire'.answers, t, shown)
      BY <1>1, <1>4, <1>5, <1>7 DEF ListShows, ListsOnly, TrueOf
    <2>3. Unborn(t)'
      BY <1>1, <1>5, <1>6, <1>7, <2>1, <2>2 DEF Sound, Unborn
    <2>4. InForm(t)'
      BY <1>1, <1>5, <1>7, <2>1, <2>2 DEF Sound, InForm, At
    <2>5. RunAhead(t)'
      BY <1>5, <1>6, <1>7, <2>1 DEF Sound, RunAhead, At
    <2>6. InFlightTrue(t)'
      BY <1>1, <1>5, <2>1, <2>2 DEF Sound, InFlightTrue, Exists, Listing
    <2>7. ListTrue(t)'
      <3>1. CASE t \in a.old
        BY <1>6, <3>1 DEF ListTrue
      <3>2. CASE t \notin a.old
        <4>1. tab'[t].view.shown = Listing(t).shown
          BY <1>1, <1>7, <2>1, <3>2 DEF Sound, InFlightTrue, TrueOf
        <4>2. Listing(t).shown = Listed(cloud[t].status) /\ Listing(t)' = Listing(t)
          BY <1>1, ListedFacts DEF Listing, Exists
        <4> QED BY <1>1, <4>1, <4>2 DEF ListTrue, Exists, Listed, Statuses
      <3> QED BY <3>1, <3>2
    <2>8. PodOwned(t)' /\ LeftSound(t)'
      BY <1>1, <1>5, <1>6, <1>7, <2>1 DEF Sound, PodOwned, LeftSound, At
    <2> QED BY <2>3, <2>4, <2>5, <2>6, <2>7, <2>8 DEF Sound
  <1>11. IF wire'.up THEN wire'.phase = "done" ELSE wire'.events = <<>>
    BY <1>5 DEF IInv, Onward
  <1> QED BY <1>4, <1>5, <1>9, <1>10, <1>11 DEF IInv

\* The page asks for the list, at the latest when the stream is up again.
LEMMA AsksKeep ==
    ASSUME IInv, ListAskedElsewhere \/ StreamReopens
    PROVE  IInv'
  <1>1. /\ wire \in Wires /\ IsFiniteSet(wire.answers) /\ TypeOK
        /\ cloud \in [Terminals -> CloudRow] /\ tab \in [Terminals -> PageRow]
        /\ told \in Histories /\ faults \in 0 .. MaxFaults
        /\ UNCHANGED <<cloud, tab, faults>> /\ CanAsk
    BY Types DEF IInv, ListAskedElsewhere, StreamReopens
  <1>2. PICK w \in Wires : /\ wire' = Asking(w) /\ w.events = wire.events
                           /\ w.asked = wire.asked /\ w.answers = wire.answers
                           /\ IF w.up THEN w.phase = "done" ELSE w.events = <<>>
                           /\ w.left = wire.left
    <2>1. CASE ListAskedElsewhere
      BY <1>1, <2>1 DEF ListAskedElsewhere, IInv
    <2>2. CASE StreamReopens
      <3>1. PICK w : w = [wire EXCEPT !.up = TRUE]
        OBVIOUS
      <3>2. /\ w \in Wires /\ w.events = wire.events /\ w.up /\ w.phase = wire.phase
            /\ w.asked = wire.asked /\ w.answers = wire.answers /\ w.left = wire.left
        BY <1>1, <3>1 DEF Wires
      <3> QED BY <2>2, <3>1, <3>2 DEF StreamReopens
    <2> QED BY <2>1, <2>2
  <1>3. /\ wire' \in Wires /\ wire'.up = w.up /\ wire'.events = wire.events
        /\ wire'.answers = wire.answers /\ wire'.asked > 0
        /\ wire'.phase = w.phase /\ wire'.left = wire.left
    BY <1>1, <1>2, AskedFacts DEF CanAsk
  <1>4. /\ told' \in Histories /\ told'.misled = told.misled /\ told'.ran = told.ran
        /\ told'.unseen = told.unseen /\ told'.rushed = told.rushed
    <2>1. CASE ListAskedElsewhere
      <3>1. PICK clicks \in 0 .. MaxClicks : clicks = told.clicks + 1
        <4>1. told.clicks \in 0 .. MaxClicks /\ told.clicks < MaxClicks
          BY <1>1, <2>1 DEF ListAskedElsewhere, Histories
        <4> QED BY <4>1, BoundsAssumption
      <3>2. told' = [told EXCEPT !.clicks = clicks]
        BY <2>1, <3>1 DEF ListAskedElsewhere
      <3> QED BY <1>1, <3>2 DEF Histories
    <2>2. CASE StreamReopens
      BY <1>1, <2>2 DEF StreamReopens
    <2> QED BY <2>1, <2>2
  <1>5. TypeOK'
    BY <1>1, <1>3, <1>4, TypesBack
  <1>6. ASSUME NEW t \in Terminals
        PROVE  Sound(t)'
    <2>1. WireKept(t) /\ AnswerDue'
      BY <1>3 DEF WireKept, AnswerDue
    <2>2. Kept(t)
      BY <1>1, <1>3, <1>4, <2>1 DEF Kept
    <2> QED BY <2>2, KeptSound DEF IInv
  <1> QED BY <1>1, <1>2, <1>3, <1>5, <1>6 DEF IInv

\* The stream is up for the first time.
LEMMA StreamOpensKeeps ==
    ASSUME IInv, StreamOpens
    PROVE  IInv'
  <1>1. /\ wire \in Wires /\ cloud \in [Terminals -> CloudRow] /\ tab \in [Terminals -> PageRow]
        /\ told \in Histories /\ faults \in 0 .. MaxFaults /\ IsFiniteSet(wire.answers)
        /\ UNCHANGED <<cloud, tab, told, faults>> /\ wire.phase = "stream"
    BY Types DEF IInv, StreamOpens
  <1>2. PICK x : x = [wire EXCEPT !.up = TRUE]
    OBVIOUS
  <1>3. /\ x \in Wires /\ x.up = TRUE /\ x.events = wire.events /\ x.asked = wire.asked
        /\ x.answers = wire.answers /\ x.left = wire.left
    BY <1>1, <1>2 DEF Wires
  <1>4. wire' = [x EXCEPT !.phase = "done"]
    BY <1>2 DEF StreamOpens
  <1>5. /\ wire' \in Wires /\ wire'.up /\ wire'.phase = "done" /\ wire'.events = wire.events
        /\ wire'.asked = wire.asked /\ wire'.answers = wire.answers /\ wire'.left = wire.left
    BY <1>3, <1>4 DEF Wires, Phases
  <1>6. TypeOK'
    BY <1>1, <1>5, TypesBack
  <1>7. ASSUME NEW t \in Terminals
        PROVE  Sound(t)'
    <2>1. WireKept(t) /\ (AnswerDue => AnswerDue')
      BY <1>1, <1>5 DEF WireKept, AnswerDue
    <2>2. Kept(t)
      BY <1>1, <1>5, <2>1 DEF Kept
    <2> QED BY <2>2, KeptSound DEF IInv
  <1> QED BY <1>1, <1>5, <1>6, <1>7 DEF IInv

\* The steps that leave the list in doubt about everyone: a request that fails,
\* a stream that drops, a page that is reloaded.
LEMMA ListFailsKeeps ==
    ASSUME IInv, ListFails
    PROVE  IInv'
  <1>1. /\ wire \in Wires /\ IsFiniteSet(wire.answers) /\ wire.asked > 0 /\ TypeOK
        /\ cloud \in [Terminals -> CloudRow] /\ tab \in [Terminals -> PageRow]
        /\ told \in Histories /\ FaultStep /\ Fault
        /\ UNCHANGED <<cloud, tab>> /\ told' = [told EXCEPT !.misled = Terminals]
    BY Types DEF IInv, ListFails, FaultStep
  <1>2. PICK asked \in 0 .. MaxLoads : asked = wire.asked - 1
    <2>1. wire.asked \in 0 .. MaxLoads
      BY <1>1 DEF Wires
    <2> QED BY <1>1, <2>1, BoundsAssumption
  <1>3. wire' = [wire EXCEPT !.asked = asked, !.phase = Onward(wire.phase)]
    BY <1>2 DEF ListFails
  <1>4. /\ wire' \in Wires /\ wire'.up = wire.up /\ wire'.events = wire.events
        /\ wire'.answers = wire.answers /\ wire'.phase = Onward(wire.phase)
        /\ wire'.left = wire.left
    <2>1. Onward(wire.phase) \in Phases
      BY <1>1 DEF Onward, Phases, Wires
    <2>2. PICK x : x = [wire EXCEPT !.asked = asked]
      OBVIOUS
    <2>3. /\ x \in Wires /\ x.up = wire.up /\ x.events = wire.events
          /\ x.answers = wire.answers /\ x.left = wire.left
      BY <1>1, <2>2 DEF Wires
    <2>4. wire' = [x EXCEPT !.phase = Onward(wire.phase)]
      BY <1>3, <2>2
    <2> QED BY <2>1, <2>3, <2>4 DEF Wires
  <1>5. /\ told' \in Histories /\ told'.misled = Terminals /\ told'.ran = told.ran
        /\ told'.unseen = told.unseen /\ told'.rushed = told.rushed
    BY <1>1 DEF Histories
  <1>6. faults' \in 0 .. MaxFaults /\ faults' # MaxFaults
    BY <1>1, Faults
  <1>7. TypeOK'
    BY <1>1, <1>4, <1>5, <1>6, TypesBack
  <1>8. ASSUME NEW t \in Terminals
        PROVE  Sound(t)'
    <2>1. Sound(t)
      BY DEF IInv
    <2>2. Unborn(t)' /\ InForm(t)' /\ RunAhead(t)'
      BY <1>1, <1>4, <1>5, <2>1 DEF Sound, Unborn, InForm, RunAhead, ListShows, At
    <2>3. InFlightTrue(t)'
      BY <1>1, <1>4, <2>1 DEF Sound, InFlightTrue, Exists, Listing
    <2>4. ListTrue(t)' /\ PodOwned(t)' /\ LeftSound(t)'
      BY <1>1, <1>4, <1>5, <1>6, <2>1 DEF Sound, ListTrue, PodOwned, LeftSound, At
    <2> QED BY <2>2, <2>3, <2>4 DEF Sound
  <1>9. IF wire'.up THEN wire'.phase = "done" ELSE wire'.events = <<>>
    BY <1>4 DEF IInv, Onward
  <1> QED BY <1>1, <1>4, <1>7, <1>8, <1>9 DEF IInv

\* The stream drops with the events in flight.
LEMMA StreamDropsKeeps ==
    ASSUME IInv, StreamDrops
    PROVE  IInv'
  <1> DEFINE lost == {ev.t : ev \in Range(wire.events)}
  <1>1. /\ wire \in Wires /\ IsFiniteSet(wire.answers) /\ TypeOK
        /\ cloud \in [Terminals -> CloudRow] /\ tab \in [Terminals -> PageRow]
        /\ told \in Histories /\ FaultStep /\ Fault
        /\ UNCHANGED <<cloud, tab>> /\ told' = [told EXCEPT !.unseen = told.unseen \cup lost]
        /\ wire' = [wire EXCEPT !.up = FALSE, !.events = <<>>]
    BY Types DEF IInv, StreamDrops, FaultStep
  <1>2. lost \subseteq Terminals /\ \A t : t \notin lost => NoneOf(wire.events, t)
    <2>1. wire.events \in Seq(Events)
      BY <1>1 DEF Wires
    <2>2. \A i \in 1 .. Len(wire.events) : wire.events[i] \in Range(wire.events)
      BY <2>1 DEF Range
    <2>3. Range(wire.events) \subseteq Events
      BY <2>1 DEF Range
    <2> QED BY <2>2, <2>3 DEF NoneOf, Events
  <1> HIDE DEF lost
  <1>3. PICK unseen \in SUBSET Terminals : unseen = told.unseen \cup lost
    BY <1>1, <1>2 DEF Histories
  <1>4. PICK x : x = [wire EXCEPT !.up = FALSE]
    OBVIOUS
  <1>5. wire' = [x EXCEPT !.events = <<>>]
    BY <1>1, <1>4
  <1>6. /\ x \in Wires /\ x.answers = wire.answers /\ x.asked = wire.asked /\ ~x.up
        /\ x.phase = "done" /\ x.left = wire.left
    BY <1>1, <1>4 DEF Wires, StreamDrops, IInv
  <1>7. /\ wire' \in Wires /\ ~wire'.up /\ wire'.events = <<>>
        /\ wire'.answers = wire.answers /\ wire'.phase = "done" /\ wire'.left = wire.left
    <2>1. PICK es \in Seq(Events) : es = <<>>
      BY EmptySeq
    <2>2. wire' = [x EXCEPT !.events = es]
      BY <1>5, <2>1
    <2>3. /\ wire' \in Wires /\ ~wire'.up /\ wire'.events = es
          /\ wire'.answers = wire.answers /\ wire'.phase = "done" /\ wire'.left = wire.left
      BY <1>6, <2>2 DEF Wires
    <2> QED BY <2>1, <2>3
  <1>8. /\ told' \in Histories /\ told'.unseen = unseen /\ told'.ran = told.ran
        /\ told'.misled = told.misled /\ told'.rushed = told.rushed
    BY <1>1, <1>3 DEF Histories
  <1>9. faults' \in 0 .. MaxFaults /\ faults' # MaxFaults
    BY <1>1, Faults
  <1>10. TypeOK'
    BY <1>1, <1>7, <1>8, <1>9, TypesBack
  <1>11. ASSUME NEW t \in Terminals
         PROVE  Sound(t)'
    <2>1. Sound(t)
      BY DEF IInv
    <2>2. Unborn(t)' /\ InForm(t)'
      BY <1>1, <1>7, <1>8, <2>1, NoEvents DEF Sound, Unborn, InForm, ListShows, At
    <2>3. RunAhead(t)'
      <3>1. SUFFICES ASSUME t \notin unseen, tab[t].tracked \/ ~At(t, "none"), t \in told.ran
                     PROVE  FALSE
        BY <1>1, <1>7, <1>8, NoEvents DEF RunAhead, At
      <3>2. NoneOf(wire.events, t) /\ RunsIn(wire.events, t)
        BY <1>2, <1>3, <2>1, <3>1 DEF Sound, RunAhead
      <3>3. wire.events \in Seq(Events)
        BY <1>1 DEF Wires
      <3> QED BY <3>2, <3>3, NoneOfFacts
    <2>4. InFlightTrue(t)'
      BY <1>1, <1>7, <2>1, NoEvents DEF Sound, InFlightTrue, Exists, Listing
    <2>5. ListTrue(t)' /\ PodOwned(t)' /\ LeftSound(t)'
      BY <1>1, <1>7, <1>9, <2>1 DEF Sound, ListTrue, AnswerDue, PodOwned, LeftSound, At
    <2> QED BY <2>2, <2>3, <2>4, <2>5 DEF Sound
  <1> QED BY <1>1, <1>7, <1>10, <1>11 DEF IInv

\* The page is loaded again.
LEMMA ReloadKeeps ==
    ASSUME IInv, Reload
    PROVE  IInv'
  <1>1. /\ TypeOK /\ cloud \in [Terminals -> CloudRow] /\ told \in Histories
        /\ FaultStep /\ Fault /\ UNCHANGED cloud /\ tab' = FreshTab
        /\ wire' = Loading(wire.left \cup UNION {Sent(t) : t \in Terminals})
        /\ tab \in [Terminals -> PageRow] /\ wire \in Wires
        /\ told' = [told EXCEPT !.unseen = Terminals, !.misled = Terminals]
    BY Types DEF IInv, Reload, FaultStep
  <1>2. PICK fresh \in PageRow :
           fresh = [view |-> NotListed, tracked |-> FALSE, form |-> "none", ops |-> {}]
    <2>1. NotListed \in Views
      BY DEF NotListed, Views
    <2> QED BY <2>1 DEF PageRow, Stages
  <1>3. tab' = [t \in Terminals |-> fresh]
    BY <1>1, <1>2 DEF FreshTab
  <1>4. /\ fresh.view.shown = "none" /\ ~fresh.tracked /\ fresh.form = "none" /\ fresh.ops = {}
    BY <1>2 DEF NotListed
  <1>5. /\ tab' \in [Terminals -> PageRow]
        /\ \A t \in Terminals : /\ tab'[t].view.shown = "none" /\ ~tab'[t].tracked
                                /\ tab'[t].form = "none" /\ tab'[t].ops = {}
    BY <1>3, <1>4
  <1>6. PICK left : left = wire.left \cup UNION {Sent(t) : t \in Terminals}
    OBVIOUS
  <1>7. /\ left \in SUBSET (Terminals \X Requests)
        /\ \A t \in Terminals : \A q \in LeftOf(t, left) :
              q \in LeftOf(t, wire.left) \/ (q = "insert" <=> cloud[t].status = "none")
    <2>1. \A x \in DOMAIN SentAs : SentAs[x] \in Requests /\ (SentAs[x] = "insert" <=> x = "row")
      BY DEF SentAs, Requests
    <2>2. \A t \in Terminals : Sent(t) \subseteq Terminals \X Requests
      BY <2>1 DEF Sent
    <2>3. wire.left \in SUBSET (Terminals \X Requests)
      BY <1>1 DEF Wires
    <2>4. ASSUME NEW t \in Terminals, NEW q \in LeftOf(t, left), q \notin LeftOf(t, wire.left)
          PROVE  q = "insert" <=> cloud[t].status = "none"
      <3>1. PICK u \in Terminals : <<t, q>> \in Sent(u)
        BY <1>6, <2>4 DEF LeftOf
      <3>2. PICK x \in (tab[t].ops \cup {tab[t].form}) \cap DOMAIN SentAs : q = SentAs[x]
        BY <3>1 DEF Sent
      <3>3. /\ cloud[t].status = "none" => tab[t].ops = {} /\ tab[t].form \in {"none", "row"}
            /\ tab[t].form = "row" => cloud[t].status = "none"
            /\ tab[t].ops \subseteq Ops
        BY <1>1, FormFacts DEF PageRow, At
      <3>4. "none" \notin DOMAIN SentAs /\ "row" \notin Ops
        BY DEF SentAs, Ops
      <3> QED BY <2>1, <3>2, <3>3, <3>4
    <2> QED BY <1>6, <2>2, <2>3, <2>4
  <1>8. /\ wire' \in Wires /\ IsFiniteSet(wire'.answers) /\ ~wire'.up /\ wire'.left = left
        /\ wire'.events = <<>> /\ wire'.asked > 0 /\ wire'.answers = {}
    <2>1. 1 \in 0 .. MaxLoads
      BY BoundsAssumption
    <2>2. PICK es \in Seq(Events) : es = <<>>
      BY EmptySeq
    <2>3. wire' = [up |-> FALSE, phase |-> "list", events |-> es, asked |-> 1,
                   answers |-> {}, left |-> left]
      BY <1>1, <1>6, <2>2 DEF Loading
    <2>4. wire' \in Wires
      BY <1>7, <2>1, <2>3 DEF Wires, Phases
    <2>5. ~wire'.up /\ wire'.left = left /\ wire'.events = es /\ wire'.asked = 1 /\ wire'.answers = {}
      BY <2>3
    <2> QED BY <2>2, <2>4, <2>5, FS_EmptySet
  <1>9. /\ told' \in Histories /\ told'.unseen = Terminals /\ told'.misled = Terminals
        /\ told'.ran = told.ran
    <2>1. PICK x : x = [told EXCEPT !.unseen = Terminals]
      OBVIOUS
    <2>2. told' = [x EXCEPT !.misled = Terminals]
      BY <1>1, <2>1
    <2>3. x \in Histories /\ x.unseen = Terminals /\ x.ran = told.ran
      BY <1>1, <2>1 DEF Histories
    <2> QED BY <2>2, <2>3 DEF Histories
  <1>10. faults' \in 0 .. MaxFaults /\ faults' # MaxFaults
    BY <1>1, Faults
  <1>11. TypeOK'
    BY <1>1, <1>5, <1>8, <1>9, <1>10, TypesBack
  <1>12. ASSUME NEW t \in Terminals
         PROVE  Sound(t)'
    <2>1. Sound(t)
      BY DEF IInv
    <2>2. Unborn(t)' /\ InForm(t)'
      <3>1. ListShows(t, {"none"})' /\ NoneOf(wire.events, t)'
        BY <1>5, <1>8, NoEvents, NoAnswers DEF ListShows
      <3>2. cloud[t].status = "none" => ~cloud[t].pod /\ t \notin told.ran
        BY <2>1 DEF Sound, Unborn
      <3> QED BY <1>1, <1>5, <1>9, <3>1, <3>2 DEF Unborn, InForm, At
    <2>3. RunAhead(t)' /\ ListTrue(t)' /\ PodOwned(t)'
      BY <1>9, <1>10 DEF RunAhead, ListTrue, PodOwned
    <2>4. InFlightTrue(t)'
      BY <1>8, NoEvents, NoAnswers DEF InFlightTrue
    <2>5. LeftSound(t)'
      BY <1>1, <1>5, <1>7, <1>8, <1>10, <2>1 DEF Sound, LeftSound, At
    <2> QED BY <2>2, <2>3, <2>4, <2>5 DEF Sound
  <1> QED BY <1>8, <1>11, <1>12 DEF IInv

\* The event at the head of the stream.
Arriving == Head(wire.events)

\* The page takes an event for a container that it lists.
LEMMA EventPage ==
    ASSUME IInv, EventArrives, NEW t, t = Arriving.t
    PROVE  /\ t \in Terminals /\ Arriving.status \in Statuses /\ PageOnly(t)
           /\ tab[t].view.shown = "none" => tab'[t] = tab[t]
           /\ tab[t].view.shown # "none" =>
                 /\ tab'[t].view.shown = Arriving.status
                 /\ tab'[t].tracked <=> tab[t].tracked /\ Arriving.status \notin {"Running", "Failed"}
                 /\ tab'[t].form = tab[t].form
                 /\ tab'[t].ops = IF CleansUp(tab[t], Arriving.status)
                                  THEN tab[t].ops \cup {"clean_pod"} ELSE tab[t].ops
  <1> DEFINE k == tab[t]
             status == Arriving.status
  <1>1. wire.events \in Seq(Events) /\ wire.events # <<>>
    BY Types DEF IInv, Wires, EventArrives
  <1>2. Arriving \in Events
    BY <1>1 DEF Arriving
  <1>3. t \in Terminals /\ status \in Statuses
    BY <1>2 DEF Events
  <1>4. tab \in [Terminals -> PageRow] /\ k \in PageRow /\ k.view \in Views /\ k.tracked \in BOOLEAN
    BY <1>3, Types DEF IInv, PageRow
  <1>5. CASE k.view.shown = "none"
    BY <1>3, <1>4, <1>5 DEF EventArrives, Arriving, PageOnly
  <1>6. CASE k.view.shown # "none"
    <2>1. PICK view : view = [k.view EXCEPT !.shown = status]
      OBVIOUS
    <2>2. view \in Views /\ view.shown = status
      BY <1>3, <1>4, <2>1 DEF Views
    <2>3. PICK tracked \in BOOLEAN : tracked <=> k.tracked /\ status \notin {"Running", "Failed"}
      <3>1. CASE k.tracked /\ status \notin {"Running", "Failed"}
        BY <3>1
      <3>2. CASE ~(k.tracked /\ status \notin {"Running", "Failed"})
        BY <3>2
      <3> QED BY <3>1, <3>2
    <2>4. PICK ops \in SUBSET Ops :
             ops = IF CleansUp(k, status) THEN k.ops \cup {"clean_pod"} ELSE k.ops
      BY <1>4 DEF PageRow, Ops
    <2>5. PICK x : x = [k EXCEPT !.view = view]
      OBVIOUS
    <2>6. PICK y : y = [x EXCEPT !.tracked = tracked]
      OBVIOUS
    <2>7. PICK z : z = [y EXCEPT !.ops = ops]
      OBVIOUS
    <2>8. /\ x \in PageRow /\ x.view = view /\ x.tracked = k.tracked /\ x.form = k.form
          /\ x.ops = k.ops
      BY <1>4, <2>2, <2>5 DEF PageRow
    <2>9. /\ y \in PageRow /\ y.view = view /\ y.tracked = tracked /\ y.form = k.form
          /\ y.ops = k.ops
      BY <2>6, <2>8 DEF PageRow
    <2>10. /\ z \in PageRow /\ z.view = view /\ z.tracked = tracked /\ z.form = k.form
           /\ z.ops = ops
      BY <2>7, <2>9 DEF PageRow
    <2>11. z = AfterEvent(k, status)
      BY <1>4, <2>1, <2>3, <2>4, <2>5, <2>6, <2>7, <2>8, <2>9 DEF AfterEvent
    <2>12. tab' = [tab EXCEPT ![t] = z]
      BY <1>6, <2>11 DEF EventArrives, Arriving
    <2>13. PageBecomes(t, z.view.shown, z.tracked, z.form, z.ops)
      BY <1>3, <2>10, <2>12, PageSet DEF IInv
    <2> QED BY <1>3, <1>6, <2>2, <2>3, <2>4, <2>10, <2>13 DEF PageBecomes
  <1> QED BY <1>3, <1>5, <1>6

\* The page takes note of an event that it got.
LEMMA EventTold ==
    ASSUME IInv, EventArrives, NEW t, t = Arriving.t
    PROVE  /\ told' \in Histories /\ told'.ran = told.ran
           /\ \A u \in Terminals \ {t} : /\ u \in told'.unseen <=> u \in told.unseen
                                         /\ u \in told'.misled <=> u \in told.misled
                                         /\ u \in told'.rushed <=> u \in told.rushed
           /\ t \notin told'.unseen
                => t \notin told.unseen /\ tab[t].view.shown # "none" /\ tab[t].tracked
           /\ t \notin told'.misled
                => \/ t \notin told.misled
                   \/ (tab[t].view.shown # "none" /\ Exists(t))
           /\ t \notin told'.rushed
                => /\ t \notin told.rushed
                   /\ \/ tab[t].view.shown = "none" \/ ~CleansUp(tab[t], Arriving.status)
                      \/ AtRest(t)
  <1> DEFINE listed == tab[t].view.shown # "none"
  <1>1. told \in Histories /\ t \in Terminals
    BY Types, EventPage DEF IInv
  <1>2. PICK unseen \in SUBSET Terminals :
           unseen = IF listed /\ tab[t].tracked THEN told.unseen ELSE told.unseen \cup {t}
    BY <1>1 DEF Histories
  <1>3. PICK misled \in SUBSET Terminals :
           misled = IF listed /\ Exists(t) THEN told.misled \ {t} ELSE told.misled
    BY <1>1 DEF Histories
  <1>4. PICK rushed \in SUBSET Terminals :
           rushed = IF listed /\ CleansUp(tab[t], Arriving.status) /\ ~AtRest(t)
                    THEN told.rushed \cup {t} ELSE told.rushed
    BY <1>1 DEF Histories
  <1>5. PICK x : x = [told EXCEPT !.unseen = unseen]
    OBVIOUS
  <1>6. PICK y : y = [x EXCEPT !.misled = misled]
    OBVIOUS
  <1>7. /\ x \in Histories /\ x.unseen = unseen /\ x.ran = told.ran
        /\ x.misled = told.misled /\ x.rushed = told.rushed
    BY <1>1, <1>5 DEF Histories
  <1>8. /\ y \in Histories /\ y.unseen = unseen /\ y.ran = told.ran
        /\ y.misled = misled /\ y.rushed = told.rushed
    BY <1>6, <1>7 DEF Histories
  <1>9. told' = [y EXCEPT !.rushed = rushed]
    BY <1>1, <1>2, <1>3, <1>4, <1>5, <1>6, <1>7, <1>8 DEF EventArrives, Arriving
  <1>10. /\ told' \in Histories /\ told'.unseen = unseen /\ told'.ran = told.ran
         /\ told'.misled = misled /\ told'.rushed = rushed
    BY <1>8, <1>9 DEF Histories
  <1> QED BY <1>2, <1>3, <1>4, <1>10

\* An event arrives, of use or not.
LEMMA EventArrivesKeeps ==
    ASSUME IInv, EventArrives
    PROVE  IInv'
  <1> DEFINE status == Arriving.status
             rest == Tail(wire.events)
  <1>1. /\ wire \in Wires /\ IsFiniteSet(wire.answers) /\ TypeOK
        /\ cloud \in [Terminals -> CloudRow] /\ tab \in [Terminals -> PageRow]
        /\ told \in Histories /\ faults \in 0 .. MaxFaults
        /\ UNCHANGED <<cloud, faults>>
        /\ wire.events \in Seq(Events) /\ wire.events # <<>>
    BY Types DEF IInv, EventArrives, Wires
  <1>2. PICK t : t = Arriving.t
    OBVIOUS
  <1>3. /\ t \in Terminals /\ status \in Statuses /\ PageOnly(t)
    BY <1>2, EventPage
  <1>4. PICK es \in Seq(Events) : es = rest
    BY <1>1, HeadTailProperties
  <1>5. wire' = [wire EXCEPT !.events = es]
    BY <1>4 DEF EventArrives
  <1>6. /\ wire' \in Wires /\ wire'.up = wire.up /\ wire'.events = es
        /\ wire'.answers = wire.answers /\ wire'.asked = wire.asked
        /\ wire'.phase = wire.phase /\ wire'.left = wire.left
    BY <1>1, <1>5 DEF Wires
  <1>7. told' \in Histories /\ told'.ran = told.ran
    BY <1>2, EventTold
  <1>8. TypeOK'
    BY <1>1, <1>3, <1>6, <1>7, TypesBack DEF PageOnly
  <1>9. wire'.up /\ wire'.phase = "done"
    BY <1>1, <1>6 DEF IInv
  <1>10. ASSUME NEW u \in Terminals, u # t
         PROVE  Sound(u)'
    <2>1. WireKept(u)
      <3>1. ~Runs(Arriving, u)
        BY <1>2, <1>10 DEF Runs
      <3>2. /\ NoneOf(es, u) <=> NoneOf(wire.events, u)
            /\ RunsIn(wire.events, u) => RunsIn(es, u)
            /\ RunsFirst(wire.events, u) => RunsFirst(es, u)
            /\ \A s : LastIs(wire.events, u, s) => LastIs(es, u, s)
        BY <1>1, <1>2, <1>4, <1>10, <3>1, TailFacts DEF Arriving
      <3> QED BY <1>6, <3>2 DEF WireKept
    <2>2. Kept(u)
      BY <1>1, <1>2, <1>3, <1>6, <1>7, <1>10, <2>1, EventTold DEF Kept, PageOnly, AnswerDue
    <2> QED BY <2>2, KeptSound DEF IInv
  <1>11. Sound(t)'
    <2>1. Sound(t) /\ ~NoneOf(wire.events, t)
      BY <1>1, <1>2, <1>3, TailFacts DEF IInv, Arriving
    <2>2. cloud[t].status # "none" /\ ~At(t, "row") /\ tab[t].form \notin {"rowed", "launch"}
      BY <2>1 DEF Sound, Unborn, InForm, At
    <2>3. Unborn(t)'
      BY <1>1, <2>2 DEF Unborn
    <2>4. /\ tab'[t].form = tab[t].form
          /\ tab'[t].tracked =>
                /\ tab[t].tracked
                /\ tab[t].view.shown = "none" \/ status \notin {"Running", "Failed"}
      BY <1>2, EventPage
    <2>5. InForm(t)'
      BY <2>1, <2>2, <2>4 DEF Sound, InForm, At
    <2>6. RunAhead(t)'
      <3>1. SUFFICES ASSUME t \notin told'.unseen, tab'[t].tracked \/ tab'[t].form # "none"
                     PROVE  (t \in told.ran => RunsIn(es, t)) /\ RunsFirst(es, t)
        BY <1>6, <1>7 DEF RunAhead, At
      <3>2. t \notin told.unseen /\ tab[t].view.shown # "none" /\ tab[t].tracked
        BY <1>2, <3>1, EventTold
      <3>3. At(t, "none")
        BY <2>1, <3>2 DEF Sound, InForm
      <3>4. status # "Running"
        BY <2>4, <3>1, <3>2, <3>3 DEF At
      <3>5. ~Runs(Arriving, t)
        BY <3>4 DEF Runs
      <3> QED BY <1>1, <1>4, <2>1, <3>2, <3>5, TailFacts DEF Sound, RunAhead, Arriving
    <2>7. InFlightTrue(t)'
      BY <1>1, <1>4, <1>6, <2>1, TailFacts DEF Sound, InFlightTrue, Exists, Listing
    <2>8. ListTrue(t)'
      <3>1. SUFFICES ASSUME ~AnswerDue, ~At(t, "undo_row"), t \notin told'.misled
                     PROVE  /\ Exists(t) <=> tab'[t].view.shown # "none"
                            /\ NoneOf(es, t) => tab'[t].view.shown = Listing(t).shown
        BY <1>1, <1>6, <2>4 DEF ListTrue, AnswerDue, At, Exists, Listing
      <3>2. Listing(t).shown = Listed(cloud[t].status)
        BY ListedFacts
      <3>3. CASE tab[t].view.shown # "none" /\ Exists(t)
        <4>1. tab'[t].view.shown = status
          BY <1>2, <3>3, EventPage
        <4>2. NoneOf(es, t) => status = cloud[t].status
          BY <1>1, <1>2, <1>4, <2>1, <3>3, TailFacts DEF Sound, InFlightTrue, Arriving
        <4> QED BY <1>3, <3>2, <3>3, <4>1, <4>2 DEF Exists, Listed, Statuses
      <3>4. CASE ~(tab[t].view.shown # "none" /\ Exists(t))
        <4>1. t \notin told.misled /\ ~At(t, "rowed")
          BY <1>2, <2>2, <3>1, <3>4, EventTold DEF At
        <4>2. tab[t].view.shown = "none" /\ ~Exists(t)
          BY <2>1, <3>1, <3>4, <4>1 DEF Sound, ListTrue
        <4>3. tab'[t] = tab[t]
          BY <1>2, <4>2, EventPage
        <4> QED BY <3>2, <4>2, <4>3 DEF Exists, Listed
      <3> QED BY <3>3, <3>4
    <2>9. PodOwned(t)'
      <3>1. SUFFICES ASSUME faults = MaxFaults, t \notin told'.rushed
                     PROVE  PodCare(cloud[t].status, cloud[t].pod, tab[t].form, tab'[t].ops)
        BY <1>1, <2>4 DEF PodOwned
      <3>2. t \notin told.rushed /\ (\/ tab[t].view.shown = "none"
                                     \/ ~CleansUp(tab[t], status) \/ AtRest(t))
        BY <1>2, <3>1, EventTold
      <3>3. PodCare(cloud[t].status, cloud[t].pod, tab[t].form, tab[t].ops)
        BY <2>1, <3>1, <3>2 DEF Sound, PodOwned
      <3>4. \/ tab'[t].ops = tab[t].ops
            \/ tab[t].form = "none" /\ tab[t].ops = {} /\ tab'[t].ops = {"clean_pod"}
        BY <1>2, <3>2, EventPage DEF AtRest, At
      <3> QED BY <3>3, <3>4 DEF PodCare
    <2>10. LeftSound(t)'
      BY <1>1, <1>6, <2>1, <2>4 DEF Sound, LeftSound, At
    <2> QED BY <2>3, <2>5, <2>6, <2>7, <2>8, <2>9, <2>10 DEF Sound
  <1>12. IsFiniteSet(wire'.answers)
    BY <1>1, <1>6
  <1> QED BY <1>8, <1>9, <1>10, <1>11, <1>12 DEF IInv

-----------------------------------------------------------------------------
(* The invariant is one.                                                   *)

\* Nothing is known of anything at first.
LEMMA InitSound == Init => IInv
  <1> SUFFICES ASSUME Init
               PROVE  IInv
    OBVIOUS
  <1>1. PICK row \in CloudRow : row = NoRow
    BY DEF NoRow, CloudRow
  <1>2. PICK fresh \in PageRow :
           fresh = [view |-> NotListed, tracked |-> FALSE, form |-> "none", ops |-> {}]
    <2>1. NotListed \in Views
      BY DEF NotListed, Views
    <2> QED BY <2>1 DEF PageRow, Stages
  <1>3. cloud \in [Terminals -> CloudRow] /\ tab \in [Terminals -> PageRow]
    BY <1>1, <1>2 DEF Init, FreshTab
  <1>4. /\ wire \in Wires /\ ~wire.up /\ wire.events = <<>> /\ wire.asked = 1
        /\ wire.answers = {} /\ wire.left = {}
    <2>1. 1 \in 0 .. MaxLoads
      BY BoundsAssumption
    <2>2. PICK es \in Seq(Events) : es = <<>>
      BY EmptySeq
    <2>3. wire = [up |-> FALSE, phase |-> "list", events |-> es, asked |-> 1,
                  answers |-> {}, left |-> {}]
      BY <2>2 DEF Init, Loading
    <2> QED BY <2>1, <2>2, <2>3 DEF Wires, Phases
  <1>5. told \in Histories /\ told.ran = {} /\ told.misled = {} /\ told.rushed = {}
    <2>1. 0 \in 0 .. MaxClicks
      BY BoundsAssumption
    <2> QED BY <2>1 DEF Init, Histories
  <1>6. faults \in 0 .. MaxFaults
    BY BoundsAssumption DEF Init
  <1>7. TypeOK
    BY <1>3, <1>4, <1>5, <1>6 DEF TypeOK, CloudRow, PageRow, Wires, Histories
  <1>8. ASSUME NEW t \in Terminals
        PROVE  Sound(t)
    <2>1. cloud[t].status = "none" /\ ~cloud[t].pod
      BY DEF Init, NoRow
    <2>2. /\ tab[t].view.shown = "none" /\ ~tab[t].tracked
          /\ tab[t].form = "none" /\ tab[t].ops = {}
      BY <1>2 DEF Init, FreshTab, NotListed
    <2>3. Unborn(t) /\ InForm(t) /\ RunAhead(t)
      BY <1>4, <1>5, <2>1, <2>2, NoEvents, NoAnswers
         DEF Unborn, InForm, RunAhead, ListShows, At
    <2>4. InFlightTrue(t) /\ ListTrue(t)
      BY <1>4, <2>1, <2>2, NoEvents, NoAnswers
         DEF InFlightTrue, ListTrue, Exists, Listing, NotListed, Statuses
    <2>5. PodOwned(t) /\ LeftSound(t)
      BY <1>4, <2>1, <2>2 DEF PodOwned, PodCare, LeftSound, LeftOf
    <2> QED BY <2>3, <2>4, <2>5 DEF Sound
  <1> QED BY <1>4, <1>7, <1>8, FS_EmptySet DEF IInv

\* Nothing happens.
LEMMA StutterKeeps ==
    ASSUME IInv, UNCHANGED vars
    PROVE  IInv'
  <1>1. TypeOK'
    BY DEF IInv, TypeOK, vars
  <1>2. ASSUME NEW t \in Terminals
        PROVE  Sound(t)'
    <2>1. Kept(t)
      BY DEF Kept, WireKept, AnswerDue, vars
    <2> QED BY <2>1, KeptSound DEF IInv
  <1> QED BY <1>1, <1>2 DEF IInv, vars

\* Every step keeps the invariant.
LEMMA StepKeeps == IInv /\ [Next]_vars => IInv'
  <1> SUFFICES ASSUME IInv, [Next]_vars
               PROVE  IInv'
    OBVIOUS
  <1>1. CASE ListServed
    BY <1>1, ListServedKeeps
  <1>2. CASE EventArrives
    BY <1>2, EventArrivesKeeps
  <1>3. CASE StreamReopens \/ ListAskedElsewhere
    BY <1>3, AsksKeep
  <1>4. ASSUME NEW a \in wire.answers, ListAnswered(a)
        PROVE  IInv'
    BY <1>4, ListAnsweredKeeps
  <1>5. ASSUME NEW t \in Terminals, FormStep(t) \/ Submit(t)
        PROVE  IInv'
    BY <1>5, FormKeeps
  <1>6. ASSUME NEW t \in Terminals, OpStep(t) \/ Click(t) \/ Monitor(t)
        PROVE  IInv'
    BY <1>6, OpKeeps
  <1>7. CASE ListFails
    BY <1>7, ListFailsKeeps
  <1>8. CASE StreamDrops
    BY <1>8, StreamDropsKeeps
  <1>9. CASE Reload
    BY <1>9, ReloadKeeps
  <1>10. CASE UNCHANGED vars
    BY <1>10, StutterKeeps
  <1>11. CASE StreamOpens
    BY <1>11, StreamOpensKeeps
  <1>12. ASSUME NEW t \in Terminals, NEW q \in Requests, LeftServed(t, q)
         PROVE  IInv'
    BY <1>12, LeftServedKeeps
  <1> QED BY <1>1, <1>2, <1>3, <1>4, <1>5, <1>6, <1>7, <1>8, <1>9, <1>10, <1>11, <1>12
          DEF Next, Work

\* The page, the wire and Cloud agree, whatever happens, as the invariant says.
THEOREM Invariance == Spec => []IInv
  BY InitSound, StepKeeps, PTL DEF Spec

\* Every variable has its type, and the bounds are kept.
THEOREM TypeCorrect == Spec => []TypeOK
  <1>1. IInv => TypeOK
    BY DEF IInv
  <1> QED BY <1>1, Invariance, PTL

\* Once no event of a container and no list is on its way, the list shows its
\* status, unless an older answer came in last or one was lost, the change fell
\* between the first list and the first connection, or an earlier page made it.
THEOREM TellsTruth == Spec => []ListTellsTruth
  <1>1. IInv => ListTellsTruth
    <2> SUFFICES ASSUME IInv, NEW t \in Terminals, ~Expecting(t), t \notin told.misled
                 PROVE  tab[t].view.shown = Listing(t).shown
      BY DEF ListTellsTruth
    <2>1. Sound(t) /\ ~AnswerDue /\ ~At(t, "rowed") /\ ~At(t, "undo_row")
      BY DEF IInv, Expecting, AnswerDue
    <2>2. NoneOf(wire.events, t)
      <3>1. wire.events \in Seq(Events)
        BY Types DEF IInv, Wires
      <3>2. \A i \in 1 .. Len(wire.events) : wire.events[i] \in Range(wire.events)
        BY <3>1 DEF Range
      <3> QED BY <3>2 DEF Expecting, NoneOf
    <2> QED BY <2>1, <2>2 DEF Sound, ListTrue
  <1> QED BY <1>1, Invariance, PTL

\* While no call has failed and one thing is done to a container at a time, a
\* pod whose row is gone is about to be removed by the page.
THEOREM Owner == Spec => []PodHasOwner
  <1>1. IInv => PodHasOwner
    <2> SUFFICES ASSUME IInv, faults = MaxFaults, NEW t \in Terminals,
                        cloud[t].pod, cloud[t].status = "gone", t \notin told.rushed
                 PROVE  Does(t, "drop_pod") \/ Does(t, "clean_pod")
      BY DEF PodHasOwner
    <2> QED BY DEF IInv, Sound, PodOwned, PodCare, Does
  <1> QED BY <1>1, Invariance, PTL

-----------------------------------------------------------------------------
(* What the page deletes by itself.                                        *)

\* The form's steps leave alone what is under way on the rows.
LEMMA FormStartsNothing ==
    ASSUME TypeOK, NEW u \in Terminals, FormStep(u) \/ Submit(u), NEW t \in Terminals
    PROVE  tab'[t].ops = tab[t].ops
  <1>1. tab \in [Terminals -> PageRow] /\ tab[u] \in PageRow
    BY Types
  <1>2. CASE RowAnswered(u)
    BY <1>1, <1>2 DEF RowAnswered, PageRow
  <1>3. CASE UpdateAnswered(u)
    BY <1>1, <1>3 DEF UpdateAnswered, PageRow
  <1>4. ASSUME NEW stage, Goes(u, stage)
        PROVE  tab'[t].ops = tab[t].ops
    BY <1>1, <1>4 DEF Goes, PageRow
  <1>5. RowAnswered(u) \/ UpdateAnswered(u) \/ \E stage \in Stages : Goes(u, stage)
    BY DEF FormStep, Submit, RowInserted, RowRefused, RowUnanswered, PodMade, PodRefused,
           PodAnswered, KidSaved, UpdateRefused, UpdateUnanswered, FormThrows, UndoPod,
           UndoRow, Stages
  <1> QED BY <1>2, <1>3, <1>4, <1>5

\* What a click, a handler or a clean-up sets going is no new clean-up.
LEMMA OpStartsNoCleanUp ==
    ASSUME TypeOK, NEW u \in Terminals, OpStep(u) \/ Click(u), NEW t \in Terminals,
           ~Does(t, "clean_pod")
    PROVE  "clean_pod" \notin tab'[t].ops
  <1>1. tab \in [Terminals -> PageRow] /\ tab[u] \in PageRow
    BY Types
  <1>2. ASSUME NEW op, op # "clean_pod", Starts(u, op)
        PROVE  "clean_pod" \notin tab'[t].ops
    BY <1>1, <1>2 DEF Starts, Does, PageRow
  <1>3. ASSUME NEW op, NEW next, "clean_pod" \notin next, Ends(u, op, next)
        PROVE  "clean_pod" \notin tab'[t].ops
    BY <1>1, <1>3 DEF Ends, Does, PageRow
  <1>4. CASE Click(u)
    <2>1. PICK op \in {"delete", "delete_blind", "hibernate", "resume"} : Starts(u, op)
      BY <1>4 DEF Click
    <2> QED BY <1>2, <2>1
  <1>5. CASE OpStep(u)
    <2>1. CASE \E op \in {"delete", "delete_blind"} : DeleteRow(u, op)
      <3>1. PICK op, next : Ends(u, op, next) /\ next = IF op = "delete" THEN {"drop_pod"} ELSE {}
        BY <2>1 DEF DeleteRow
      <3> QED BY <1>3, <3>1
    <2>2. CASE ResumeClaims(u)
      <3>1. Ends(u, "resume", {"resuming"}) \/ Ends(u, "resume", {})
        BY <2>2 DEF ResumeClaims
      <3> QED BY <1>3, <3>1
    <2>3. CASE CleanPod(u)
      BY <1>3, <2>3 DEF CleanPod
    <2>4. CASE DropPod(u) \/ Hibernate(u) \/ ResumeDone(u) \/ CleanRow(u)
      <3>1. PICK op : Ends(u, op, {})
        BY <2>4 DEF DropPod, Hibernate, ResumeDone, CleanRow
      <3> QED BY <1>3, <3>1
    <2> QED BY <1>5, <2>1, <2>2, <2>3, <2>4 DEF OpStep
  <1> QED BY <1>4, <1>5

\* A clean-up begins with an event that says that a container failed which the
\* page has in pendingContainers.
LEMMA CleanUpStarts ==
    ASSUME IInv, Next, NEW t \in Terminals, ~Does(t, "clean_pod"),
           "clean_pod" \in tab'[t].ops
    PROVE  EventArrives /\ t = Arriving.t /\ tab[t].tracked
  <1>1. TypeOK
    BY DEF IInv
  <1>2. tab \in [Terminals -> PageRow] /\ tab[t] \in PageRow
    BY <1>1, Types
  <1>3. CASE EventArrives
    <2>1. t = Arriving.t
      <3>1. PICK a : a = Arriving.t
        OBVIOUS
      <3>2. PageOnly(a)
        BY <1>3, <3>1, EventPage
      <3> QED BY <3>1, <3>2 DEF PageOnly, Does
    <2>2. tab[t].view.shown # "none" /\ CleansUp(tab[t], Arriving.status)
      BY <1>3, <2>1, EventPage DEF Does
    <2> QED BY <1>3, <2>1, <2>2 DEF CleansUp
  <1>4. ~(\E u \in Terminals : FormStep(u) \/ Submit(u))
    BY <1>1, FormStartsNothing DEF Does
  <1>5. ~(\E u \in Terminals : OpStep(u) \/ Click(u))
    BY <1>1, OpStartsNoCleanUp
  <1>6. ~Reload
    <2>1. Reload => tab' = FreshTab
      BY DEF Reload
    <2>2. FreshTab[t].ops = {}
      BY DEF FreshTab
    <2> QED BY <2>1, <2>2
  <1>7. ~(\E a \in wire.answers : ListAnswered(a))
    <2>1. ASSUME NEW a, ListAnswered(a)
          PROVE  tab'[t].ops = tab[t].ops
      <3>1. tab'[t] = [tab[t] EXCEPT !.view = a.view[t]]
        BY <2>1 DEF ListAnswered
      <3> QED BY <1>2, <3>1 DEF PageRow
    <2> QED BY <2>1 DEF Does
  <1>8. ~(UNCHANGED tab)
    BY DEF Does
  <1> QED BY <1>3, <1>4, <1>5, <1>6, <1>7, <1>8
          DEF Next, Work, ListServed, StreamOpens, StreamReopens, ListAskedElsewhere,
              ListFails, StreamDrops, Monitor, LeftServed

\* The page deletes by itself only containers that never ran, as far as it was
\* told in time.
THEOREM Spares == Spec => CleanupSparesRunning
  <1> DEFINE Spared == \A t \in Terminals :
                          ~Does(t, "clean_pod") /\ "clean_pod" \in tab'[t].ops
                              => ~Head(wire.events).ran \/ t \in told.unseen
  <1>1. IInv /\ Next => Spared
    <2> SUFFICES ASSUME IInv, Next, NEW t \in Terminals, ~Does(t, "clean_pod"),
                        "clean_pod" \in tab'[t].ops, t \notin told.unseen
                 PROVE  ~Head(wire.events).ran
      OBVIOUS
    <2>1. EventArrives /\ t = Arriving.t /\ tab[t].tracked
      BY CleanUpStarts
    <2>2. RunsFirst(wire.events, t)
      BY <2>1 DEF IInv, Sound, RunAhead
    <2>3. wire.events \in Seq(Events) /\ wire.events # <<>>
      BY <2>1, Types DEF IInv, Wires, EventArrives
    <2> QED BY <2>1, <2>2, <2>3, TailFacts DEF Arriving
  <1>2. IInv /\ [Next]_vars => [Spared]_vars
    BY <1>1
  <1> QED BY <1>2, Invariance, PTL DEF Spec, CleanupSparesRunning
=============================================================================
