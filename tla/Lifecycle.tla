------------------------------ MODULE Lifecycle ------------------------------
(***************************************************************************)
(* What a container's row goes through, whoever acts and whatever fails:   *)
(* the promise of the five operations of this control plane, without their *)
(* awaits.  ContainerOps is shown to implement it.                         *)
(*                                                                         *)
(* A life is a record: the status, whether a snapshot has been recorded    *)
(* (saved), and whether device capacity is held (reserved).                *)
(***************************************************************************)
CONSTANT Containers

VARIABLE life

Ended == {"Absent", "Deleted"}

Unborn == [status |-> "Absent", saved |-> FALSE, reserved |-> FALSE]

LifeInit == life = [c \in Containers |-> Unborn]

Alive(c) == life[c].status \notin Ended

Become(c, new) == life' = [life EXCEPT ![c] = new]

\* A container is born once, with its reservation.
Create(c) ==
    /\ life[c].status = "Absent"
    /\ Become(c, [status |-> "Pending", saved |-> FALSE, reserved |-> TRUE])

\* status_monitor or a handler reports how the pod is doing.
Report(c) ==
    /\ Alive(c)
    /\ \E s \in {"Running", "Failed"} : Become(c, [life[c] EXCEPT !.status = s])

Snapshot(c) == Alive(c) /\ Become(c, [life[c] EXCEPT !.saved = TRUE])

\* Only a container with a snapshot hibernates, and it gives its capacity back
\* in the same step.
Hibernate(c) ==
    /\ Alive(c) /\ life[c].saved
    /\ Become(c, [life[c] EXCEPT !.status = "Hibernated", !.reserved = FALSE])

\* A resume starts from Hibernated only, and with the capacity reserved.
Resume(c) ==
    /\ life[c].status = "Hibernated"
    /\ Become(c, [life[c] EXCEPT !.status = "Resuming", !.reserved = TRUE])

\* A deletion is final and leaves nothing reserved.
Delete(c) ==
    /\ Alive(c)
    /\ Become(c, [status |-> "Deleted", saved |-> FALSE, reserved |-> FALSE])

LifeNext ==
    \E c \in Containers :
        Create(c) \/ Report(c) \/ Snapshot(c) \/ Hibernate(c) \/ Resume(c) \/ Delete(c)

LifeSpec == LifeInit /\ [][LifeNext]_life
=============================================================================
