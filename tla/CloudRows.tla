------------------------------ MODULE CloudRows ------------------------------
(***************************************************************************)
(* The container rows that Cloud keeps and this control plane only reaches *)
(* through src/cloud_client/client.py.  Cloud's own code is not in the     *)
(* repository: each operator below is what one Cloud endpoint does to one  *)
(* row, as the handlers, their comments and their tests rely on it.        *)
(*                                                                         *)
(* A row is a record:                                                      *)
(*   status    Absent before POST /containers, Deleted after the delete    *)
(*             endpoint; otherwise one of the lifecycle statuses.          *)
(*   save      save_status, the outcome of the latest snapshot.            *)
(*   image     how many snapshots have been recorded in saved_image; 0 is  *)
(*             a container that was never saved.                           *)
(*   kid       whether kubernetes_id is set.  The handlers only ask if it  *)
(*             is, since pods are found by their container-id label.       *)
(*   reserved  whether the row holds a device and its reserved capacity.   *)
(***************************************************************************)
EXTENDS Naturals

Gone == {"Absent", "Deleted"}

LiveStatuses == {"Pending", "Running", "Failed", "Hibernated", "Resuming"}

SaveStatuses == {"None", "Pending", "Succeeded", "Failed"}

Rows == [status : LiveStatuses \cup Gone, save : SaveStatuses, image : Nat,
         kid : BOOLEAN, reserved : BOOLEAN]

BlankRow(status, reserved) ==
    [status |-> status, save |-> "None", image |-> 0, kid |-> FALSE,
     reserved |-> reserved]

AbsentRow == BlankRow("Absent", FALSE)

Exists(row) == row.status \notin Gone

\* An update of a row that is not there answers 404, which the client turns
\* into None: nothing changes and nobody is told.
Updated(row, new) == IF Exists(row) THEN new ELSE row

\* POST /containers: reserves the device's capacity, then inserts the row.
Created == BlankRow("Pending", TRUE)

\* POST /containers/{id}/delete: removes the row, releases its reservation.
Removed(row) == IF Exists(row) THEN BlankRow("Deleted", FALSE) ELSE row

\* POST /containers/{id}/resume: a compare-and-set from Hibernated that also
\* reserves the resuming device's capacity.
Resumable(row) == row.status = "Hibernated"

Claimed(row) == [row EXCEPT !.status = "Resuming", !.reserved = TRUE]

\* POST /internal/containers/{id}/hibernate: Hibernated, device cleared and
\* reservation released, in one transaction.
Hibernated(row) ==
    Updated(row, [row EXCEPT !.status = "Hibernated", !.reserved = FALSE])

\* POST /containers/{id} with the fields the handlers send.
WithStatus(row, s) == Updated(row, [row EXCEPT !.status = s])

WithSave(row, s) == Updated(row, [row EXCEPT !.save = s])

WithPod(row) == Updated(row, [row EXCEPT !.kid = TRUE])

\* What the snapshot Job reports to Cloud when it ends well.
WithSnapshot(row) ==
    Updated(row, [row EXCEPT !.save = "Succeeded", !.image = @ + 1])

\* The central status_monitor copies a live pod's phase into its row.  It is
\* taken to leave alone the rows that own no pod: Hibernated, Absent, Deleted.
Monitored == {"Pending", "Resuming", "Running", "Failed"}
=============================================================================
