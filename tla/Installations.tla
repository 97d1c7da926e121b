---------------------------- MODULE Installations ----------------------------
(***************************************************************************)
(* The back office's record of which tracker is on which vehicle: the      *)
(* installation service (domains/operations), the tracker service          *)
(* (domains/devices) and the deletion of a vehicle (domains/fleet), over   *)
(* the tables trackers, tracker_assignments and vehicles.                  *)
(*                                                                         *)
(* A request is one HTTP call, in a transaction of its own. It first reads *)
(* and checks (Begin...), then writes and commits (Commit...). PostgreSQL  *)
(* runs READ COMMITTED, no read takes a lock and no constraint covers      *)
(* tracker_assignments, so another request may commit between the two.     *)
(* SQLAlchemy writes only the columns that differ from what was loaded.    *)
(* A refused request changes nothing and is no step.                       *)
(***************************************************************************)
EXTENDS Naturals, Sequences, FiniteSets

CONSTANTS
  Trackers, Vehicles,
  Requests,          \* how many calls may be in progress at once
  Creators,          \* those of them that may be POST /installations
  CreateStatuses,    \* the statuses a tracker may be registered with
  ManualStatuses,    \* the statuses PATCH /trackers/{id}/status may ask for
  InstallationTypes, \* those in use; AUXILIARY is treated as BAIT
  MaxInstallations   \* bound of the model: rows of tracker_assignments

Installable     == {"NEW", "IN_STOCK", "PENDING_INSTALLATION"}
TrackerStatuses == Installable \cup
  {"INSTALLED", "MAINTENANCE", "BLOCKED", "LOST", "DAMAGED", "DISPOSED"}

ActiveStatuses       == {"PENDING", "IN_PROGRESS", "INSTALLED"}
ClosedStatuses       == {"REMOVED", "CANCELLED"}
InstallationStatuses == ActiveStatuses \cup ClosedStatuses

ASSUME InstallationsAssumption ==
  /\ Creators \subseteq Requests
  /\ CreateStatuses \subseteq TrackerStatuses
  /\ ManualStatuses \subseteq TrackerStatuses
  /\ InstallationTypes \subseteq {"PRIMARY", "BAIT"}
  /\ MaxInstallations \in Nat

VARIABLES
  status,         \* trackers.status, "none" before the row exists
  deleted,        \* the trackers with deleted_at
  vehicles,       \* the vehicles without deleted_at
  installations,  \* tracker_assignments, a row's id its position
  request         \* what each request has loaded and is about to write

vars == <<status, deleted, vehicles, installations, request>>

Idle == [op |-> "idle"]

Init ==
  /\ status = [t \in Trackers |-> "none"]
  /\ deleted = {}
  /\ vehicles = Vehicles
  /\ installations = <<>>
  /\ request = [r \in Requests |-> Idle]

(* The filter both repositories call active; the first form forgets          *)
(* removed_at.                                                               *)
ActiveByStatus(i) == installations[i].status \in ActiveStatuses
Active(i) ==
  /\ ~installations[i].removed
  /\ installations[i].status \in ActiveStatuses

ActiveOf(t) ==
  {i \in DOMAIN installations : Active(i) /\ installations[i].tracker = t}

PrimaryOf(v) ==
  {i \in DOMAIN installations :
     Active(i) /\ installations[i].vehicle = v /\ installations[i].type = "PRIMARY"}

(* get_active_by_tracker is None; the first form counts concluded ones only.  *)
FreeIfNotInstalled(t) ==
  \A i \in ActiveOf(t) : installations[i].status # "INSTALLED"
Free(t) == ActiveOf(t) = {}

(* _validate_primary_unique; the first form trusts every edit.               *)
PrimaryUniqueAtCreation(v, exclude) == exclude # {} \/ PrimaryOf(v) = {}
PrimaryUnique(v, exclude) == PrimaryOf(v) \subseteq exclude

InCatalogue(t) == status[t] # "none" /\ t \notin deleted

Begin(r, loaded) ==
  /\ request[r] = Idle
  /\ request' = [request EXCEPT ![r] = loaded]
  /\ UNCHANGED <<status, deleted, vehicles, installations>>

Done(r) == request' = [request EXCEPT ![r] = Idle]

(* An assignment to an attribute: an UPDATE unless the value was loaded.     *)
Write(t, loaded, new) ==
  status' = IF new = loaded THEN status ELSE [status EXCEPT ![t] = new]

-----------------------------------------------------------------------------
(* POST /trackers.                                                           *)
CreateTracker(t) ==
  /\ status[t] = "none"
  /\ \E s \in CreateStatuses : status' = [status EXCEPT ![t] = s]
  /\ UNCHANGED <<deleted, vehicles, installations, request>>

(* DELETE /vehicles/{id}, which looks at no installation.                    *)
DeleteVehicle(v) ==
  /\ v \in vehicles
  /\ vehicles' = vehicles \ {v}
  /\ UNCHANGED <<status, deleted, installations, request>>

(* POST /installations.                                                      *)
BeginCreate(r, t, v, type, complete) ==
  /\ r \in Creators
  /\ InCatalogue(t) /\ v \in vehicles
  /\ Free(t)
  /\ status[t] \in Installable
  /\ type = "PRIMARY" => PrimaryUnique(v, {})
  /\ Begin(r, [op |-> "create", tracker |-> t, vehicle |-> v, type |-> type,
               complete |-> complete, loaded |-> status[t]])

CommitCreate(r) ==
  LET q == request[r] IN
  /\ q.op = "create"
  /\ Len(installations) < MaxInstallations
  /\ installations' = Append(installations,
       [tracker |-> q.tracker, vehicle |-> q.vehicle, type |-> q.type,
        status |-> IF q.complete THEN "INSTALLED" ELSE "IN_PROGRESS",
        removed |-> FALSE])
  /\ IF q.complete THEN Write(q.tracker, q.loaded, "INSTALLED")
                   ELSE UNCHANGED status
  /\ Done(r)
  /\ UNCHANGED <<deleted, vehicles>>

(* PUT /installations/{id}; a field left out keeps what it has.              *)
BeginUpdate(r, i, type, new) ==
  LET row == installations[i] IN
  /\ row.vehicle \in vehicles
  /\ row.status \notin ClosedStatuses
  /\ type = "PRIMARY" => PrimaryUnique(row.vehicle, {i})
  /\ Begin(r, [op |-> "update", id |-> i, row |-> row, type |-> type,
               new |-> new, loaded |-> status[row.tracker]])

(* _apply_status_change: whether it puts the tracker back in stock, looked   *)
(* up after the installation's own row is flushed.                           *)
Returned(q) ==
  /\ ActiveOf(q.row.tracker) \subseteq {q.id}
  /\ q.new = "REMOVED" \/ (q.new = "CANCELLED" /\ q.loaded # "INSTALLED")

(* The row as it is written: the columns the request changed, and the stamp.  *)
Edited(row, q) ==
  [tracker |-> row.tracker, vehicle |-> row.vehicle,
   type    |-> IF q.type = q.row.type THEN row.type ELSE q.type,
   status  |-> IF q.new = q.row.status THEN row.status ELSE q.new,
   removed |-> IF q.new \in ClosedStatuses THEN TRUE ELSE row.removed]

CommitUpdate(r) ==
  LET q == request[r] IN
  /\ q.op = "update"
  /\ q.new \in ClosedStatuses => Cardinality(ActiveOf(q.row.tracker) \ {q.id}) <= 1
  /\ installations' = [installations EXCEPT ![q.id] = Edited(@, q)]
  /\ IF Returned(q) THEN Write(q.row.tracker, q.loaded, "IN_STOCK")
                    ELSE UNCHANGED status
  /\ Done(r)
  /\ UNCHANGED <<deleted, vehicles>>

(* POST /installations/{id}/finish.                                          *)
BeginFinish(r, i) ==
  LET row == installations[i] IN
  /\ row.vehicle \in vehicles
  /\ row.status \in {"PENDING", "IN_PROGRESS"}
  /\ Begin(r, [op |-> "finish", id |-> i, tracker |-> row.tracker,
               loaded |-> status[row.tracker]])

CommitFinish(r) ==
  LET q == request[r] IN
  /\ q.op = "finish"
  /\ installations' = [installations EXCEPT ![q.id].status = "INSTALLED"]
  /\ Write(q.tracker, q.loaded, "INSTALLED")
  /\ Done(r)
  /\ UNCHANGED <<deleted, vehicles>>

(* _release_active_assignments, on the way to the stock; the first form       *)
(* leaves work in progress alone.                                            *)
ReleasedIfInstalled(t, new) ==
  {i \in ActiveOf(t) : new = "IN_STOCK" /\ installations[i].status = "INSTALLED"}
Released(t, new) == {i \in ActiveOf(t) : new = "IN_STOCK"}

(* PATCH /trackers/{id}/status; scalar_one_or_none raises on a second row.   *)
BeginSetStatus(r, t, new) ==
  LET held == Released(t, new) IN
  /\ InCatalogue(t)
  /\ new # "INSTALLED"
  /\ Cardinality(held) <= 1
  /\ Begin(r, [op |-> "status", tracker |-> t, new |-> new, held |-> held,
               loaded |-> status[t]])

CommitSetStatus(r) ==
  LET q == request[r] IN
  /\ q.op = "status"
  /\ installations' = [i \in DOMAIN installations |->
       IF i \in q.held
       THEN [installations[i] EXCEPT !.status = "REMOVED", !.removed = TRUE]
       ELSE installations[i]]
  /\ Write(q.tracker, q.loaded, q.new)
  /\ Done(r)
  /\ UNCHANGED <<deleted, vehicles>>

(* DELETE /trackers/{id}, a soft delete.                                     *)
BeginDelete(r, t) ==
  /\ InCatalogue(t)
  /\ Free(t)
  /\ Begin(r, [op |-> "delete", tracker |-> t, loaded |-> status[t]])

CommitDelete(r) ==
  LET q == request[r] IN
  /\ q.op = "delete"
  /\ deleted' = deleted \cup {q.tracker}
  /\ Write(q.tracker, q.loaded, "DISPOSED")
  /\ Done(r)
  /\ UNCHANGED <<vehicles, installations>>

(* Any failure before the commit: get_session rolls the transaction back.    *)
Rollback(r) ==
  /\ request[r] # Idle
  /\ Done(r)
  /\ UNCHANGED <<status, deleted, vehicles, installations>>

Next ==
  \/ \E t \in Trackers : CreateTracker(t)
  \/ \E v \in Vehicles : DeleteVehicle(v)
  \/ \E r \in Requests :
       \/ \E t \in Trackers, v \in Vehicles, type \in InstallationTypes,
             complete \in BOOLEAN : BeginCreate(r, t, v, type, complete)
       \/ \E i \in DOMAIN installations :
            \/ BeginFinish(r, i)
            \/ \E type \in InstallationTypes, new \in InstallationStatuses :
                 BeginUpdate(r, i, type, new)
       \/ \E t \in Trackers :
            \/ BeginDelete(r, t)
            \/ \E new \in ManualStatuses : BeginSetStatus(r, t, new)
       \/ CommitCreate(r) \/ CommitUpdate(r) \/ CommitFinish(r)
       \/ CommitSetStatus(r) \/ CommitDelete(r)
       \/ Rollback(r)

Spec == Init /\ [][Next]_vars

-----------------------------------------------------------------------------
Custody == INSTANCE TrackerCustody WITH
  Nobody <- "nobody",
  retired <- deleted,
  holder <- [t \in Trackers |->
    IF ActiveOf(t) = {} THEN "nobody"
    ELSE installations[CHOOSE i \in ActiveOf(t) : TRUE].vehicle]

Rows == [tracker : Trackers, vehicle : Vehicles, type : InstallationTypes,
         status : InstallationStatuses, removed : BOOLEAN]

(* Every column holds a value of its enumeration, and what a request loaded  *)
(* is a row that still exists.                                               *)
TypeOK ==
  /\ status \in [Trackers -> TrackerStatuses \cup {"none"}]
  /\ deleted \subseteq {t \in Trackers : status[t] # "none"}
  /\ vehicles \subseteq Vehicles
  /\ installations \in Seq(Rows)
  /\ \A r \in Requests :
       request[r].op \in {"update", "finish"} => request[r].id \in DOMAIN installations

(* A tracker has at most one active installation: what create_installation's *)
(* first check keeps, as long as no edit brings a closed one back.           *)
OneActivePerTracker == \A t \in Trackers : Cardinality(ActiveOf(t)) <= 1

(* A vehicle has at most one active PRIMARY tracker, also after              *)
(* installations change type.                                                *)
OnePrimaryPerVehicle == \A v \in Vehicles : Cardinality(PrimaryOf(v)) <= 1

(* A deleted tracker is on no vehicle (tracker_has_active_assignment).       *)
DeletedIsFree == \A t \in deleted : ActiveOf(t) = {}

StockIsConsistent == OnePrimaryPerVehicle /\ DeletedIsFree

(* A tracker that goes back to the stock is released from its vehicle,       *)
(* whichever of the three ways back it takes.                                *)
BackToStockReleases ==
  [][\A t \in Trackers :
       status[t] # "IN_STOCK" /\ status'[t] = "IN_STOCK" => ActiveOf(t)' = {}]_vars

(* History is only added to: a row keeps its tracker and vehicle, and an     *)
(* installation that was closed is never active again, whatever other        *)
(* requests had loaded before it was closed.                                 *)
HistoryKept ==
  /\ Len(installations') >= Len(installations)
  /\ \A i \in DOMAIN installations :
       /\ installations'[i].tracker = installations[i].tracker
       /\ installations'[i].vehicle = installations[i].vehicle
       /\ ~Active(i) => ~Active(i)'

ClosedStaysClosed == [][HistoryKept]_vars

(* A tracker moves between vehicles only through the stock and is deleted    *)
(* only when no vehicle has it; and back in the stock it is released.        *)
KeepsCustody == Custody!Spec /\ BackToStockReleases
=============================================================================
