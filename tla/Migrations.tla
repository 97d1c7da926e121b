------------------------------ MODULE Migrations ------------------------------
(***************************************************************************)
(* The Alembic migrations 001 to 014 of the backend, up and down: the      *)
(* columns and unique indexes of the schema, and the rows whose data a     *)
(* migration moves. env.py runs a command in one transaction, so a step    *)
(* that fails changes nothing and is no step of the model. The ORM models  *)
(* of backend and worker are the sets of columns they map.                 *)
(*                                                                         *)
(* A schema is a set of <<table, column, kind>>: a column is "required"    *)
(* (NOT NULL, no default), "default" (NOT NULL, filled by the server) or   *)
(* "nullable"; <<table, column, "unique">> is a unique index on it, and    *)
(* "uniqueLive" one over the rows with deleted_at IS NULL.                 *)
(***************************************************************************)
EXTENDS Integers

CONSTANTS
  Vehicles, Trackers, Imeis, Assignments,
  CreateStatuses,  \* the statuses a tracker may be registered with
  ManualStatuses,  \* the statuses PATCH /trackers/{id}/status may ask for
  None             \* NULL

Installable     == {"NEW", "IN_STOCK", "PENDING_INSTALLATION"}
TrackerStatuses == Installable \cup
  {"INSTALLED", "MAINTENANCE", "BLOCKED", "LOST", "DAMAGED", "DISPOSED"}

ActiveStatuses       == {"PENDING", "IN_PROGRESS", "INSTALLED"}
ClosedStatuses       == {"REMOVED", "CANCELLED"}
InstallationStatuses == ActiveStatuses \cup ClosedStatuses

\* Two of the five statuses of a vehicle, which no request looks at.
VehicleStatuses == {"ACTIVE", "INACTIVE"}

(* NULL is not one of the statuses.                                          *)
NullAssumption ==
  /\ None \notin VehicleStatuses \cup TrackerStatuses \cup InstallationStatuses
  /\ CreateStatuses \cup ManualStatuses \subseteq TrackerStatuses

VARIABLES version, schema, vehicles, trackers, assignments, customers
vars == <<version, schema, vehicles, trackers, assignments, customers>>

Head == 14

-----------------------------------------------------------------------------
Cols(table, required, default, nullable) ==
  ({table} \X required \X {"required"}) \cup ({table} \X default \X {"default"})
    \cup ({table} \X nullable \X {"nullable"})
Unique(table, column) == {<<table, column, "unique">>}
UniqueLive(table, column) == {<<table, column, "uniqueLive">>}

DropTables(s, tables) == {c \in s : c[1] \notin tables}
DropColumns(s, table, columns) == {c \in s : ~(c[1] = table /\ c[2] \in columns)}
DropIndex(s, table, column) ==
  s \ (Unique(table, column) \cup UniqueLive(table, column))

\* The columns of an audit table over the entity its foreign key names.
Audit(table, entity) ==
  Cols(table, {"action"}, {"id", "created_at"},
       {entity, "user_id", "details", "ip_address", "user_agent"})

Devices == Cols("devices", {"imei"}, {"id", "created_at", "updated_at"}, {})
             \cup Unique("devices", "imei")

Up001(s) == s \cup Devices
Down001(s) == DropTables(s, {"devices"})

Up002(s) == DropTables(s, {"devices"})
  \cup Cols("companies", {"name", "slug"}, {"id", "is_active", "created_at", "updated_at"}, {})
  \cup Unique("companies", "slug")
  \cup Cols("vehicles", {"company_id", "plate"},
            {"id", "is_active", "created_at", "updated_at"}, {"label"})
  \cup Cols("trackers", {"company_id", "imei"}, {"id", "is_active", "created_at", "updated_at"},
            {"model", "last_seen_at", "last_remote_ip"})
  \cup Unique("trackers", "imei")
  \cup Cols("tracker_assignments", {"tracker_id", "vehicle_id"},
            {"id", "assigned_at", "is_current"}, {"unassigned_at"})
Down002(s) ==
  DropTables(s, {"tracker_assignments", "trackers", "vehicles", "companies"}) \cup Devices

Located == {"tracker_id", "tracker_imei", "received_at", "connection_id", "remote_ip"}

Up003(s) == s
  \cup Cols("fleets", {"company_id", "name", "slug"}, {"id", "is_active", "created_at"}, {})
  \cup Cols("vehicles", {}, {}, {"fleet_id"})
  \cup Cols("positions", Located, {"id", "created_at"},
            {"latitude", "longitude", "speed_kmh", "course_degrees", "gps_time"})
  \cup Cols("device_events", Located \cup {"event_code", "event_category"},
            {"id", "created_at"}, {"metadata"})
Down003(s) == DropColumns(DropTables(s, {"device_events", "positions", "fleets"}),
                          "vehicles", {"fleet_id"})

Up004(s) == s
  \cup Cols("positions", {}, {}, {"trace_id"}) \cup Cols("device_events", {}, {}, {"trace_id"})
  \cup Cols("processed_events", {"dedup_key", "trace_id", "tracker_imei", "message_type"},
            {"id", "processed_at"}, {})
  \cup Unique("processed_events", "dedup_key")
Down004(s) ==
  DropColumns(DropColumns(DropTables(s, {"processed_events"}), "device_events", {"trace_id"}),
              "positions", {"trace_id"})

Up005(s) == s
  \cup Cols("roles", {"name", "slug"}, {"id", "created_at"}, {"description"})
  \cup Unique("roles", "slug")
  \cup Cols("users", {"email", "password_hash", "full_name"},
            {"id", "is_active", "created_at", "updated_at"}, {})
  \cup Unique("users", "email")
  \cup Cols("user_roles", {"user_id", "role_id"}, {}, {})
  \cup Cols("refresh_tokens", {"user_id", "token_jti", "expires_at"}, {"id", "created_at"},
            {"revoked_at", "ip_address", "user_agent"})
  \cup Unique("refresh_tokens", "token_jti")
  \cup Cols("login_audit_logs", {"email", "success"}, {"id", "created_at"},
            {"user_id", "ip_address", "user_agent", "failure_reason"})
Down005(s) ==
  DropTables(s, {"login_audit_logs", "refresh_tokens", "user_roles", "users", "roles"})

Up006(s) == s
  \cup Cols("customers", {"full_name", "document", "document_type", "phone"},
            {"id", "status", "created_at", "updated_at"},
            {"company_id", "secondary_phone", "email", "zip_code", "street", "number",
             "complement", "district", "city", "state", "notes", "deleted_at"})
  \cup Audit("customer_audit_logs", "customer_id")
Down006(s) == DropTables(s, {"customer_audit_logs", "customers"})

VehicleDetails ==
  {"nickname", "brand", "model", "version", "year_model", "year_manufacture", "color", "fuel",
   "renavam", "chassis", "category", "cover_image", "odometer", "notes", "deleted_at"}
Up007(s) == DropColumns(s, "vehicles", {"fleet_id", "company_id", "label", "is_active"})
  \cup Cols("vehicles", {"customer_id"}, {"status"}, VehicleDetails)
  \cup Audit("vehicle_audit_logs", "vehicle_id")
Down007(s) ==
  DropColumns(DropTables(s, {"vehicle_audit_logs"}), "vehicles",
              VehicleDetails \cup {"customer_id", "status"})
  \cup Cols("vehicles", {}, {"company_id", "is_active"}, {"fleet_id", "label"})

TrackerDetails ==
  {"manufacturer", "firmware", "tracker_phone_number", "sim_iccid", "sim_imei", "carrier",
   "apn", "serial_number", "notes", "last_ip", "deleted_at"}
History == {"removed_at", "installed_by", "removed_by", "removal_reason"}
Up008(s) == s
  \cup Cols("trackers", {}, {"status", "health_status"}, TrackerDetails)
  \cup Cols("tracker_assignments", {"installed_at"}, {"created_at", "updated_at"}, History)
  \cup Audit("tracker_audit_logs", "tracker_id")
Down008(s) ==
  DropColumns(
    DropColumns(DropTables(s, {"tracker_audit_logs"}), "tracker_assignments",
                History \cup {"installed_at", "created_at", "updated_at"}),
    "trackers", TrackerDetails \cup {"status", "health_status"})

\* company_id stays, NOT NULL and unmapped by the ERP: it gets a default.
Up009(s) == DropColumns(s, "trackers", {"company_id"})
  \cup Cols("trackers", {}, {"origin", "company_id"}, {})
Down009(s) == DropColumns(s, "trackers", {"origin", "company_id"})
  \cup Cols("trackers", {"company_id"}, {}, {})

Checklist == {"power_connected", "gps_ok", "gsm_ok", "ignition_ok", "blocking_ok",
              "test_drive_completed", "customer_present"}
Up010(s) == s \cup Cols("tracker_assignments", {},
  Checklist \cup {"installation_type", "status"}, {"installation_notes"})
Down010(s) == DropColumns(s, "tracker_assignments",
  Checklist \cup {"installation_notes", "status", "installation_type"})

Up011(s) == DropIndex(s, "trackers", "imei") \cup UniqueLive("trackers", "imei")
Down011(s) == DropIndex(s, "trackers", "imei") \cup Unique("trackers", "imei")

LastFix == {"last_latitude", "last_longitude", "last_speed", "last_course", "last_gps_time"}
Up012(s) == s \cup Cols("trackers", {}, {}, LastFix \cup {"protocol"})
Down012Short(s) == DropColumns(s, "trackers", LastFix)
Down012(s) == DropColumns(s, "trackers", LastFix \cup {"protocol"})

Up013(s) == s
  \cup Cols("customer_users", {"customer_id", "full_name", "email", "password_hash"},
            {"id", "status", "role", "created_at", "updated_at"}, {})
  \cup Unique("customer_users", "email")
Down013(s) == DropTables(s, {"customer_users"})

Up014(s) == s \cup Cols("customer_users", {}, {"must_change_password"}, {"last_login_at"})
Down014(s) == DropColumns(s, "customer_users", {"last_login_at", "must_change_password"})

Up(n, s) ==
  CASE n = 1 -> Up001(s) [] n = 2 -> Up002(s) [] n = 3 -> Up003(s) [] n = 4 -> Up004(s)
    [] n = 5 -> Up005(s) [] n = 6 -> Up006(s) [] n = 7 -> Up007(s) [] n = 8 -> Up008(s)
    [] n = 9 -> Up009(s) [] n = 10 -> Up010(s) [] n = 11 -> Up011(s) [] n = 12 -> Up012(s)
    [] n = 13 -> Up013(s) [] n = 14 -> Up014(s)
Down(n, s) ==
  CASE n = 1 -> Down001(s) [] n = 2 -> Down002(s) [] n = 3 -> Down003(s)
    [] n = 4 -> Down004(s) [] n = 5 -> Down005(s) [] n = 6 -> Down006(s)
    [] n = 7 -> Down007(s) [] n = 8 -> Down008(s) [] n = 9 -> Down009(s)
    [] n = 10 -> Down010(s) [] n = 11 -> Down011(s) [] n = 12 -> Down012(s)
    [] n = 13 -> Down013(s) [] n = 14 -> Down014(s)

-----------------------------------------------------------------------------
(* The columns the ORM models map.                                           *)
Maps(table, columns) == {table} \X columns

TelemetryModels ==
  Maps("companies", {"id", "name", "slug", "is_active", "created_at", "updated_at"})
  \cup Maps("fleets", {"id", "company_id", "name", "slug", "is_active", "created_at"})
  \cup Maps("positions", Located \cup {"id", "trace_id", "latitude", "longitude", "speed_kmh",
                           "course_degrees", "gps_time", "created_at"})
  \cup Maps("device_events", Located \cup {"id", "trace_id", "event_code", "event_category",
                               "metadata", "created_at"})
  \cup Maps("processed_events", {"id", "dedup_key", "trace_id", "tracker_imei",
                                 "message_type", "processed_at"})
IdentityModels ==
  Maps("roles", {"id", "name", "slug", "description", "created_at"})
  \cup Maps("users", {"id", "email", "password_hash", "full_name", "is_active",
                      "created_at", "updated_at"})
  \cup Maps("user_roles", {"user_id", "role_id"})
  \cup Maps("refresh_tokens", {"id", "user_id", "token_jti", "expires_at", "revoked_at",
                               "ip_address", "user_agent", "created_at"})
  \cup Maps("login_audit_logs", {"id", "user_id", "email", "ip_address", "user_agent",
                                 "success", "failure_reason", "created_at"})
AuditModel(table, entity) ==
  Maps(table, {"id", entity, "user_id", "action", "details", "ip_address", "user_agent",
               "created_at"})
CustomerModels ==
  Maps("customers", {"id", "company_id", "full_name", "document", "document_type", "phone",
                     "secondary_phone", "email", "zip_code", "street", "number", "complement",
                     "district", "city", "state", "notes", "status", "created_at",
                     "updated_at", "deleted_at"})
  \cup Maps("customer_users", {"id", "customer_id", "full_name", "email", "password_hash",
                               "status", "role", "must_change_password", "last_login_at",
                               "created_at", "updated_at"})
  \cup AuditModel("customer_audit_logs", "customer_id")
VehicleModels ==
  Maps("vehicles", {"id", "customer_id", "plate", "status", "created_at", "updated_at"}
                     \cup VehicleDetails)
  \cup AuditModel("vehicle_audit_logs", "vehicle_id")
TrackerModels ==
  Maps("trackers", TrackerDetails \cup LastFix \cup
         {"id", "imei", "model", "status", "health_status", "origin", "last_seen_at",
          "protocol", "created_at", "updated_at"})
  \cup Maps("tracker_assignments", Checklist \cup History \cup
         {"id", "tracker_id", "vehicle_id", "installed_at", "installation_type", "status",
          "installation_notes", "created_at", "updated_at"})
  \cup AuditModel("tracker_audit_logs", "tracker_id")

BackendModels == TelemetryModels \cup IdentityModels \cup CustomerModels
                   \cup VehicleModels \cup TrackerModels

\* The worker inserts telemetry only, and reads or updates the rest.
WorkerStubs ==
  Maps("vehicles", {"id"})
  \cup Maps("trackers", LastFix \cup
         {"id", "company_id", "imei", "model", "manufacturer", "firmware", "is_active",
          "health_status", "last_seen_at", "last_ip", "last_remote_ip", "protocol",
          "deleted_at", "created_at", "updated_at"})
  \cup Maps("tracker_assignments", {"id", "tracker_id", "vehicle_id", "assigned_at",
                                    "unassigned_at", "is_current"})

\* The columns a model says are unique.
UniqueInModels ==
  Unique("companies", "slug") \cup Unique("roles", "slug") \cup Unique("users", "email")
    \cup Unique("refresh_tokens", "token_jti") \cup Unique("processed_events", "dedup_key")
    \cup Unique("customer_users", "email") \cup UniqueLive("trackers", "imei")

-----------------------------------------------------------------------------
(* The rows. A field whose column the version does not have is None, or      *)
(* FALSE for a flag or a mark (is_active, deleted_at, removed_at).           *)
Init ==
  /\ version = 0 /\ schema = {}
  /\ vehicles = <<>> /\ trackers = <<>> /\ assignments = <<>>
  /\ customers = {}

Ids(table) == DOMAIN table
Every(table, Change(_)) == [i \in Ids(table) |-> Change(table[i])]
Insert(table, i, row) == [j \in Ids(table) \cup {i} |-> IF j = i THEN row ELSE table[j]]

\* UPDATE ... SET column = value WHERE column IS NULL.
WhereNull(column, value) == IF column = None THEN value ELSE column

(* 007: ADD COLUMN with a server default fills the rows there are, so the    *)
(* UPDATE that follows finds no NULL; vehicles without a customer go to the  *)
(* legacy customer, made unless there is one.                                *)
LegacyCustomer(made) == IF Ids(vehicles) # {} THEN made \cup {"legacy"} ELSE made
RowsUp007 ==
  /\ customers' = LegacyCustomer(customers)
  /\ vehicles' = Every(vehicles, LAMBDA v :
       [v EXCEPT !.active = FALSE,
                 !.status = WhereNull("ACTIVE", IF v.active THEN "ACTIVE" ELSE "INACTIVE"),
                 !.owner = IF "legacy" \in customers' THEN "legacy" ELSE None])
  /\ UNCHANGED <<trackers, assignments>>
RowsDown007 ==
  /\ vehicles' = Every(vehicles, LAMBDA v :
       [v EXCEPT !.active = v.status = "ACTIVE", !.status = None, !.owner = None,
                 !.deleted = FALSE])
  /\ UNCHANGED <<trackers, assignments, customers>>

(* 008: the same default, and the marks of the ERP from the legacy columns.  *)
RowsUp008 ==
  /\ trackers' = Every(trackers, LAMBDA t :
       [t EXCEPT !.status = WhereNull("IN_STOCK",
                              IF t.active THEN "INSTALLED" ELSE "IN_STOCK")])
  /\ assignments' = Every(assignments, LAMBDA a : [a EXCEPT !.removed = a.unassigned])
  /\ UNCHANGED <<vehicles, customers>>
RowsDown008 ==
  /\ trackers' = Every(trackers, LAMBDA t : [t EXCEPT !.status = None, !.deleted = FALSE])
  /\ assignments' = Every(assignments, LAMBDA a : [a EXCEPT !.removed = FALSE])
  /\ UNCHANGED <<vehicles, customers>>

(* 010: both UPDATEs are without a condition on the status.                  *)
StatusOf(a) == IF a.removed THEN "REMOVED" ELSE "INSTALLED"
RowsUp010 ==
  /\ assignments' = Every(assignments, LAMBDA a : [a EXCEPT !.status = StatusOf(a)])
  /\ UNCHANGED <<vehicles, trackers, customers>>
RowsDown010 ==
  /\ assignments' = Every(assignments, LAMBDA a : [a EXCEPT !.status = None])
  /\ UNCHANGED <<vehicles, trackers, customers>>

RowsDown002 ==
  /\ vehicles' = <<>> /\ trackers' = <<>> /\ assignments' = <<>>
  /\ UNCHANGED customers
RowsDown006 == customers' = {} /\ UNCHANGED <<vehicles, trackers, assignments>>

RowsStay == UNCHANGED <<vehicles, trackers, assignments, customers>>

\* No two trackers among ts have one IMEI.
Distinct(ts) == \A t, u \in ts : trackers[t].imei = trackers[u].imei => t = u

(* alembic upgrade: 007 fails on a plate longer than ten characters.         *)
Upgrade ==
  LET n == version + 1 IN
  /\ version < Head
  /\ n = 7 => \A v \in Ids(vehicles) : ~vehicles[v].longPlate
  /\ version' = n /\ schema' = Up(n, schema)
  /\ CASE n = 7 -> RowsUp007 [] n = 8 -> RowsUp008 [] n = 10 -> RowsUp010
       [] OTHER -> RowsStay

(* alembic downgrade -1: 011 fails when a deleted tracker's IMEI was reused. *)
Downgrade ==
  /\ version > 0
  /\ version = 11 => Distinct(Ids(trackers))
  /\ version' = version - 1 /\ schema' = Down(version, schema)
  /\ CASE version = 2 -> RowsDown002 [] version = 6 -> RowsDown006
       [] version = 7 -> RowsDown007 [] version = 8 -> RowsDown008
       [] version = 10 -> RowsDown010 [] OTHER -> RowsStay

-----------------------------------------------------------------------------
(* Rows of the multi-tenant application that used versions 002 to 006.       *)
LegacyRow ==
  /\ version \in 2..6
  /\ \/ \E v \in Vehicles \ Ids(vehicles), active, long \in BOOLEAN :
          /\ vehicles' = Insert(vehicles, v,
               [active |-> active, longPlate |-> long, status |-> None, owner |-> None,
                deleted |-> FALSE])
          /\ UNCHANGED <<trackers, assignments>>
     \/ \E t \in Trackers \ Ids(trackers), i \in Imeis, active \in BOOLEAN :
          /\ \A u \in Ids(trackers) : trackers[u].imei # i
          /\ trackers' = Insert(trackers, t,
               [imei |-> i, active |-> active, status |-> None, deleted |-> FALSE])
          /\ UNCHANGED <<vehicles, assignments>>
     \/ \E a \in Assignments \ Ids(assignments), t \in Ids(trackers), v \in Ids(vehicles),
           unassigned \in BOOLEAN :
          /\ assignments' = Insert(assignments, a,
               [tracker |-> t, vehicle |-> v, unassigned |-> unassigned, removed |-> FALSE,
                status |-> None])
          /\ UNCHANGED <<vehicles, trackers>>
  /\ UNCHANGED <<version, schema, customers>>

(* What the back office does to these rows at the head: every request that   *)
(* writes a field of theirs, whole and one at a time. Requests that overlap  *)
(* are those of Installations: what is said here of a closed installation    *)
(* holds there too. Legacy columns get their server defaults.                *)
Live(t) == ~trackers[t].deleted
LiveVehicle(v) == ~vehicles[v].deleted

CreateCustomer ==
  /\ customers' = customers \cup {"own"}
  /\ UNCHANGED <<vehicles, trackers, assignments>>

CreateVehicle(v, owner) ==
  /\ v \notin Ids(vehicles)
  /\ vehicles' = Insert(vehicles, v,
       [active |-> FALSE, longPlate |-> FALSE, status |-> "ACTIVE", owner |-> owner,
        deleted |-> FALSE])
  /\ UNCHANGED <<trackers, assignments, customers>>

\* A write to the row of a vehicle; DELETE looks at no installation.
WriteVehicle(v, row) ==
  /\ LiveVehicle(v)
  /\ vehicles' = [vehicles EXCEPT ![v] = row]
  /\ UNCHANGED <<trackers, assignments, customers>>
UpdateVehicle(v, owner) == WriteVehicle(v, [vehicles[v] EXCEPT !.owner = owner])
SetVehicleStatus(v, new) == WriteVehicle(v, [vehicles[v] EXCEPT !.status = new])
DeleteVehicle(v) ==
  WriteVehicle(v, [vehicles[v] EXCEPT !.status = "INACTIVE", !.deleted = TRUE])

\* The index of 011: no other live tracker has the IMEI.
ImeiFree(i, others) == \A u \in others : Live(u) => trackers[u].imei # i

CreateTracker(t, i, status) ==
  /\ t \notin Ids(trackers)
  /\ ImeiFree(i, Ids(trackers))
  /\ trackers' = Insert(trackers, t,
       [imei |-> i, active |-> TRUE, status |-> status, deleted |-> FALSE])
  /\ UNCHANGED <<vehicles, assignments, customers>>

UpdateTracker(t, i) ==
  /\ Live(t) /\ ImeiFree(i, Ids(trackers) \ {t})
  /\ trackers' = [trackers EXCEPT ![t].imei = i]
  /\ UNCHANGED <<vehicles, assignments, customers>>

(* The filter the repositories call active. get_active_by_tracker raises on  *)
(* a second row: the legacy application could leave two.                     *)
Active(a) == ~assignments[a].removed /\ assignments[a].status \in ActiveStatuses
ActiveOf(t) == {a \in Ids(assignments) : Active(a) /\ assignments[a].tracker = t}
AtMostOne(s) == \A a, b \in s : a = b

\* PATCH /trackers/{id}/status: back in the stock, it is released.
SetTrackerStatus(t, new) ==
  /\ Live(t) /\ new # "INSTALLED"
  /\ IF new = "IN_STOCK"
     THEN /\ AtMostOne(ActiveOf(t))
          /\ assignments' = [a \in Ids(assignments) |->
               IF a \in ActiveOf(t)
               THEN [assignments[a] EXCEPT !.removed = TRUE, !.status = "REMOVED"]
               ELSE assignments[a]]
     ELSE UNCHANGED assignments
  /\ trackers' = [trackers EXCEPT ![t].status = new]
  /\ UNCHANGED <<vehicles, customers>>

DeleteTracker(t) ==
  /\ Live(t) /\ ActiveOf(t) = {}
  /\ trackers' = [trackers EXCEPT ![t].deleted = TRUE, ![t].status = "DISPOSED"]
  /\ UNCHANGED <<vehicles, assignments, customers>>

(* POST /installations, with the flag that concludes it at once. Its type is *)
(* left out, and so is the check that a vehicle has one PRIMARY.             *)
Install(a, t, v, complete) ==
  /\ a \notin Ids(assignments) /\ Live(t) /\ LiveVehicle(v)
  /\ ActiveOf(t) = {} /\ trackers[t].status \in Installable
  /\ assignments' = Insert(assignments, a,
       [tracker |-> t, vehicle |-> v, unassigned |-> FALSE, removed |-> FALSE,
        status |-> IF complete THEN "INSTALLED" ELSE "IN_PROGRESS"])
  /\ trackers' = IF complete THEN [trackers EXCEPT ![t].status = "INSTALLED"] ELSE trackers
  /\ UNCHANGED <<vehicles, customers>>

\* The statuses that set removed_at; the first form forgets a cancellation.
EndsRemoved(new) == new = "REMOVED"
Ends(new) == new \in ClosedStatuses

(* PUT /installations/{id} with a status. The tracker goes back to the stock *)
(* unless another installation has it, or a concluded one is cancelled.      *)
EditInstallation(a, new) ==
  LET row       == assignments[a]
      remaining == ActiveOf(row.tracker) \ {a}
      returned  == /\ remaining = {}
                   /\ \/ new = "REMOVED"
                      \/ new = "CANCELLED" /\ trackers[row.tracker].status # "INSTALLED"
  IN  /\ LiveVehicle(row.vehicle) /\ row.status \notin ClosedStatuses
      /\ new \in ClosedStatuses => AtMostOne(remaining)
      /\ assignments' = [assignments EXCEPT ![a] =
           [row EXCEPT !.removed = row.removed \/ Ends(new), !.status = new]]
      /\ trackers' = IF returned THEN [trackers EXCEPT ![row.tracker].status = "IN_STOCK"]
                                 ELSE trackers
      /\ UNCHANGED <<vehicles, customers>>

\* POST /installations/{id}/finish.
FinishInstallation(a) ==
  LET row == assignments[a] IN
  /\ LiveVehicle(row.vehicle) /\ row.status \in {"PENDING", "IN_PROGRESS"}
  /\ assignments' = [assignments EXCEPT ![a].status = "INSTALLED"]
  /\ trackers' = [trackers EXCEPT ![row.tracker].status = "INSTALLED"]
  /\ UNCHANGED <<vehicles, customers>>

Operate ==
  /\ version = Head
  /\ \/ CreateCustomer
     \/ \E v \in Vehicles, owner \in customers : CreateVehicle(v, owner)
     \/ \E v \in Ids(vehicles) :
          \/ \E owner \in customers : UpdateVehicle(v, owner)
          \/ \E new \in VehicleStatuses : SetVehicleStatus(v, new)
          \/ DeleteVehicle(v)
     \/ \E t \in Trackers, i \in Imeis, status \in CreateStatuses : CreateTracker(t, i, status)
     \/ \E t \in Ids(trackers) :
          \/ \E i \in Imeis : UpdateTracker(t, i)
          \/ \E new \in ManualStatuses : SetTrackerStatus(t, new)
          \/ DeleteTracker(t)
     \/ \E a \in Assignments, t \in Ids(trackers), v \in Ids(vehicles), complete \in BOOLEAN :
          Install(a, t, v, complete)
     \/ \E a \in Ids(assignments) :
          \/ \E new \in InstallationStatuses : EditInstallation(a, new)
          \/ FinishInstallation(a)
  /\ UNCHANGED <<version, schema>>

Next == Upgrade \/ Downgrade \/ LegacyRow \/ Operate

Spec == Init /\ [][Next]_vars
-----------------------------------------------------------------------------
\* The schema that upgrades alone lead to.
SchemaAt[n \in 0..Head] == IF n = 0 THEN {} ELSE Up(n, SchemaAt[n - 1])

(* A downgrade undoes its upgrade: the schema depends on the version only,   *)
(* however it was reached, but for the default that 007's downgrade leaves   *)
(* on vehicles.company_id. The next upgrade meets the columns it expects.    *)
SchemaFollowsVersion ==
  LET company == {"vehicles"} \X {"company_id"} \X {"required", "default"}
  IN  /\ schema \ company = SchemaAt[version] \ company
      /\ schema \cap company # {} <=> version \in 2..6

(* At the head, backend and worker agree with the migrations: each column    *)
(* they map exists, what they say is unique is, and an INSERT gives every    *)
(* column that needs a value one, the unmapped legacy columns included.      *)
ModelsFitHead ==
  version = Head =>
    /\ BackendModels \cup WorkerStubs \subseteq {<<c[1], c[2]>> : c \in schema}
    /\ UniqueInModels \subseteq schema
    /\ \A c \in schema :
         c[3] = "required" /\ c[1] \in {m[1] : m \in BackendModels}
           => <<c[1], c[2]>> \in BackendModels

(* The rows survive the migrations in a state the back office understands:   *)
(* every vehicle has an existing customer, every tracker and installation a  *)
(* status; an installation whose status says that it is over has removed_at, *)
(* the mark that keeps it inactive whatever becomes of its status; and what  *)
(* the legacy application ended has it however often 008 came and went.      *)
RowsFitSchema ==
  /\ \A v \in Ids(vehicles) :
       IF version >= 7
       THEN vehicles[v].owner \in customers /\ vehicles[v].status # None
       ELSE vehicles[v].owner = None /\ vehicles[v].status = None
  /\ \A t \in Ids(trackers) : trackers[t].status # None <=> version >= 8
  /\ \A a \in Ids(assignments) :
       /\ IF version >= 10
          THEN /\ assignments[a].status # None
               /\ assignments[a].status \in ClosedStatuses => assignments[a].removed
          ELSE assignments[a].status = None
       /\ version >= 8 /\ assignments[a].unassigned => assignments[a].removed
  /\ Distinct({t \in Ids(trackers) : Live(t)})

MigrationsFit == SchemaFollowsVersion /\ ModelsFitHead /\ RowsFitSchema
=============================================================================
