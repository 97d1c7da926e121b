------------------------ MODULE InstallationsProofs -------------------------
(***************************************************************************)
(* Proofs about Installations, for any trackers, vehicles and requests in  *)
(* progress and any number of rows.                                        *)
(***************************************************************************)
EXTENDS Installations, FiniteSetTheorems, TLAPS

(* What a request holds between its reads and its writes.                    *)
RequestInv ==
  /\ request = [r \in Requests |-> request[r]]
  /\ \A r \in Requests : LET q == request[r] IN
       /\ q.op = "create" =>
            /\ r \in Creators /\ q.tracker \in Trackers /\ q.vehicle \in Vehicles
            /\ q.type \in InstallationTypes /\ q.complete \in BOOLEAN
       /\ q.op = "update" =>
            /\ q.id \in DOMAIN installations /\ q.row.tracker \in Trackers
            /\ q.type \in InstallationTypes /\ q.new \in InstallationStatuses
       /\ q.op = "finish" => q.id \in DOMAIN installations /\ q.tracker \in Trackers
       /\ q.op = "status" => q.tracker \in Trackers /\ q.new \in ManualStatuses
       /\ q.op = "delete" => q.tracker \in Trackers /\ status[q.tracker] # "none"

(* A row without removed_at has an active status: whoever closes a row       *)
(* stamps it, and nobody takes the stamp away.                               *)
RowInv ==
  \A i \in DOMAIN installations :
    installations[i].removed \/ installations[i].status \in ActiveStatuses

TypeInv == TypeOK /\ RequestInv /\ RowInv

(* The rows after a step: none lost, none moved, none unstamped.             *)
Kept ==
  /\ Len(installations) \in Nat /\ Len(installations') \in Nat
  /\ Len(installations') >= Len(installations)
  /\ \A i \in DOMAIN installations :
       /\ i \in DOMAIN installations'
       /\ installations'[i].tracker = installations[i].tracker
       /\ installations'[i].vehicle = installations[i].vehicle
       /\ installations[i].removed => installations'[i].removed

-----------------------------------------------------------------------------
\* A function on the indices of a sequence is a sequence as long.
LEMMA SameIndices ==
  ASSUME NEW S, NEW s \in Seq(S), NEW f \in [DOMAIN s -> S]
  PROVE  f \in Seq(S) /\ DOMAIN f = DOMAIN s /\ Len(f) = Len(s)
<1>1. Len(s) \in Nat /\ DOMAIN s = 1..Len(s)
  OBVIOUS
<1> QED
  BY <1>1

\* A write of a status keeps the table typed.
LEMMA WriteTyped ==
  ASSUME TypeOK, NEW t \in Trackers, NEW new \in TrackerStatuses, NEW loaded,
         Write(t, loaded, new)
  PROVE  /\ status' \in [Trackers -> TrackerStatuses \cup {"none"}]
         /\ \A u \in Trackers : status[u] # "none" => status'[u] # "none"
<1>1. "none" \notin TrackerStatuses
  BY DEF TrackerStatuses, Installable
<1> QED
  BY <1>1 DEF TypeOK, Write

\* What a request that begins has loaded is sound, and it writes nothing yet.
LEMMA BeginKeeps ==
  ASSUME TypeInv, NEW r \in Requests, NEW q, Begin(r, q),
         /\ q.op = "create" =>
              /\ r \in Creators /\ q.tracker \in Trackers /\ q.vehicle \in Vehicles
              /\ q.type \in InstallationTypes /\ q.complete \in BOOLEAN
         /\ q.op = "update" =>
              /\ q.id \in DOMAIN installations /\ q.row.tracker \in Trackers
              /\ q.type \in InstallationTypes /\ q.new \in InstallationStatuses
         /\ q.op = "finish" => q.id \in DOMAIN installations /\ q.tracker \in Trackers
         /\ q.op = "status" => q.tracker \in Trackers /\ q.new \in ManualStatuses
         /\ q.op = "delete" => q.tracker \in Trackers /\ status[q.tracker] # "none"
  PROVE  TypeInv' /\ UNCHANGED installations
<1>1. /\ UNCHANGED <<status, deleted, vehicles, installations>>
      /\ request' = [request EXCEPT ![r] = q]
  BY DEF Begin
<1>2. request' = [p \in Requests |-> request'[p]]
      /\ \A p \in Requests : request'[p] = IF p = r THEN q ELSE request[p]
  BY <1>1 DEF TypeInv, RequestInv
<1>3. RequestInv'
  BY <1>1, <1>2 DEF TypeInv, RequestInv
<1>4. TypeOK'
  BY <1>1, <1>2 DEF TypeInv, TypeOK
<1>5. RowInv'
  BY <1>1 DEF TypeInv, RowInv
<1> QED
  BY <1>1, <1>3, <1>4, <1>5 DEF TypeInv

\* A step that leaves the requests alone or ends one, keeps the rows' indices
\* and types and writes no status away keeps the invariant.
LEMMA EndKeeps ==
  ASSUME TypeInv,
         request' = request \/ \E r \in Requests : Done(r),
         installations' \in Seq(Rows), Kept, RowInv',
         status' \in [Trackers -> TrackerStatuses \cup {"none"}],
         \A u \in Trackers : status[u] # "none" => status'[u] # "none",
         deleted' \subseteq {t \in Trackers : status'[t] # "none"},
         vehicles' \subseteq Vehicles
  PROVE  TypeInv'
<1>1. request' = [p \in Requests |-> request'[p]]
      /\ \A p \in Requests : request'[p] = request[p] \/ request'[p] = Idle
  BY DEF TypeInv, RequestInv, Done
<1>2. Idle.op = "idle"
  BY DEF Idle
<1>3. RequestInv'
  BY <1>1, <1>2 DEF TypeInv, RequestInv, Kept
<1>4. TypeOK'
  BY <1>1, <1>2 DEF TypeInv, TypeOK, Kept
<1> QED
  BY <1>3, <1>4 DEF TypeInv

-----------------------------------------------------------------------------
\* Rows that do not change are kept.
LEMMA SameRows ==
  ASSUME TypeInv, UNCHANGED installations
  PROVE  Kept /\ installations' \in Seq(Rows) /\ RowInv'
  BY DEF TypeInv, TypeOK, RowInv, Kept

LEMMA CreateTrackerKeeps ==
  ASSUME TypeInv, NEW t \in Trackers, CreateTracker(t)
  PROVE  TypeInv' /\ Kept
<1>1. Kept /\ installations' \in Seq(Rows) /\ RowInv'
  BY SameRows DEF CreateTracker
<1>2. /\ status' \in [Trackers -> TrackerStatuses \cup {"none"}]
      /\ \A u \in Trackers : status[u] # "none" => status'[u] # "none"
  BY InstallationsAssumption DEF CreateTracker, TypeInv, TypeOK, TrackerStatuses, Installable
<1>3. deleted' \subseteq {u \in Trackers : status'[u] # "none"} /\ vehicles' \subseteq Vehicles
  BY <1>2 DEF CreateTracker, TypeInv, TypeOK
<1> QED
  BY <1>1, <1>2, <1>3, EndKeeps DEF CreateTracker

LEMMA DeleteVehicleKeeps ==
  ASSUME TypeInv, NEW v \in Vehicles, DeleteVehicle(v)
  PROVE  TypeInv' /\ Kept
<1>1. Kept /\ installations' \in Seq(Rows) /\ RowInv'
  BY SameRows DEF DeleteVehicle
<1> QED
  BY <1>1, EndKeeps DEF DeleteVehicle, TypeInv, TypeOK

LEMMA CreateKeeps ==
  ASSUME TypeInv, NEW r \in Requests, CommitCreate(r)
  PROVE  TypeInv' /\ Kept
<1> DEFINE q == request[r]
           row == [tracker |-> q.tracker, vehicle |-> q.vehicle, type |-> q.type,
                   status |-> IF q.complete THEN "INSTALLED" ELSE "IN_PROGRESS",
                   removed |-> FALSE]
<1>1. /\ q.op = "create" /\ Done(r) /\ UNCHANGED <<deleted, vehicles>>
      /\ installations' = Append(installations, row)
      /\ IF q.complete THEN Write(q.tracker, q.loaded, "INSTALLED") ELSE UNCHANGED status
  BY DEF CommitCreate
<1>2. /\ q.tracker \in Trackers /\ q.vehicle \in Vehicles /\ q.type \in InstallationTypes
      /\ q.complete \in BOOLEAN
  BY <1>1 DEF TypeInv, RequestInv
<1>3. row \in Rows /\ row.status \in ActiveStatuses
  BY <1>2 DEF Rows, InstallationStatuses, ActiveStatuses
<1> HIDE DEF row
<1>4. installations \in Seq(Rows)
  BY DEF TypeInv, TypeOK
<1>5. /\ installations' \in Seq(Rows) /\ Len(installations) \in Nat
      /\ Len(installations') = Len(installations) + 1
      /\ DOMAIN installations = 1..Len(installations)
      /\ DOMAIN installations' = 1..(Len(installations) + 1)
      /\ \A i \in DOMAIN installations : installations'[i] = installations[i]
      /\ installations'[Len(installations) + 1] = row
  BY <1>1, <1>3, <1>4
<1>6. Kept
  BY <1>5 DEF Kept
<1>7. RowInv'
  BY <1>3, <1>5 DEF TypeInv, RowInv
<1>8. "INSTALLED" \in TrackerStatuses
  BY DEF TrackerStatuses
<1>9. /\ status' \in [Trackers -> TrackerStatuses \cup {"none"}]
      /\ \A u \in Trackers : status[u] # "none" => status'[u] # "none"
  BY <1>1, <1>2, <1>8, WriteTyped DEF TypeInv, TypeOK
<1>10. deleted' \subseteq {u \in Trackers : status'[u] # "none"} /\ vehicles' \subseteq Vehicles
  BY <1>1, <1>9 DEF TypeInv, TypeOK
<1> QED
  BY <1>1, <1>5, <1>6, <1>7, <1>9, <1>10, EndKeeps

LEMMA UpdateKeeps ==
  ASSUME TypeInv, NEW r \in Requests, CommitUpdate(r)
  PROVE  TypeInv' /\ Kept
<1> DEFINE q == request[r]
           old == installations[q.id]
           row == Edited(old, q)
<1>1. /\ q.op = "update" /\ Done(r) /\ UNCHANGED <<deleted, vehicles>>
      /\ installations' = [installations EXCEPT ![q.id] = row]
      /\ Write(q.row.tracker, q.loaded, "IN_STOCK") \/ UNCHANGED status
  BY DEF CommitUpdate
<1>2. /\ q.id \in DOMAIN installations /\ q.row.tracker \in Trackers
      /\ q.type \in InstallationTypes /\ q.new \in InstallationStatuses
  BY <1>1 DEF TypeInv, RequestInv
<1>3. installations \in Seq(Rows) /\ old \in Rows
  BY <1>2 DEF TypeInv, TypeOK
<1>4. /\ row \in Rows
      /\ row.tracker = old.tracker /\ row.vehicle = old.vehicle
      /\ old.removed => row.removed
      /\ row.removed \/ row.status \in ActiveStatuses
  <2>1. old.removed \in BOOLEAN /\ (old.removed \/ old.status \in ActiveStatuses)
    BY <1>2, <1>3 DEF TypeInv, RowInv, Rows
  <2>2. row.removed <=> old.removed \/ q.new \in ClosedStatuses
    BY <1>3 DEF Rows, Edited
  <2>3. row.status = old.status \/ row.status = q.new
    BY <1>3 DEF Rows, Edited
  <2>4. q.new \in ActiveStatuses \cup ClosedStatuses
    BY <1>2 DEF InstallationStatuses
  <2>5. row \in Rows /\ row.tracker = old.tracker /\ row.vehicle = old.vehicle
    BY <1>2, <1>3 DEF Rows, Edited
  <2> QED
    BY <2>1, <2>2, <2>3, <2>4, <2>5
<1> HIDE DEF row
<1>5. /\ installations' \in Seq(Rows) /\ DOMAIN installations' = DOMAIN installations
      /\ Len(installations') = Len(installations) /\ Len(installations) \in Nat
      /\ \A i \in DOMAIN installations :
           installations'[i] = IF i = q.id THEN row ELSE installations[i]
  <2>1. installations \in [DOMAIN installations -> Rows]
    BY <1>3
  <2>2. installations' \in [DOMAIN installations -> Rows]
    BY <1>1, <1>4, <2>1
  <2> QED
    BY <1>1, <1>3, <2>1, <2>2, SameIndices
<1>6. Kept
  BY <1>4, <1>5 DEF Kept
<1>7. RowInv'
  BY <1>4, <1>5 DEF TypeInv, RowInv
<1>8. "IN_STOCK" \in TrackerStatuses
  BY DEF TrackerStatuses, Installable
<1>9. /\ status' \in [Trackers -> TrackerStatuses \cup {"none"}]
      /\ \A u \in Trackers : status[u] # "none" => status'[u] # "none"
  BY <1>1, <1>2, <1>8, WriteTyped DEF TypeInv, TypeOK
<1>10. deleted' \subseteq {u \in Trackers : status'[u] # "none"} /\ vehicles' \subseteq Vehicles
  BY <1>1, <1>9 DEF TypeInv, TypeOK
<1> QED
  BY <1>1, <1>5, <1>6, <1>7, <1>9, <1>10, EndKeeps

LEMMA FinishKeeps ==
  ASSUME TypeInv, NEW r \in Requests, CommitFinish(r)
  PROVE  TypeInv' /\ Kept
<1> DEFINE q == request[r]
           old == installations[q.id]
           row == [old EXCEPT !.status = "INSTALLED"]
<1>1. /\ q.op = "finish" /\ Done(r) /\ UNCHANGED <<deleted, vehicles>>
      /\ installations' = [installations EXCEPT ![q.id] = row]
      /\ Write(q.tracker, q.loaded, "INSTALLED")
  BY DEF CommitFinish
<1>2. q.id \in DOMAIN installations /\ q.tracker \in Trackers
  BY <1>1 DEF TypeInv, RequestInv
<1>3. installations \in Seq(Rows) /\ old \in Rows
  BY <1>2 DEF TypeInv, TypeOK
<1>4. /\ row \in Rows /\ row.status \in ActiveStatuses
      /\ row.tracker = old.tracker /\ row.vehicle = old.vehicle /\ row.removed = old.removed
  BY <1>3 DEF Rows, InstallationStatuses, ActiveStatuses
<1> HIDE DEF row
<1>5. /\ installations' \in Seq(Rows) /\ DOMAIN installations' = DOMAIN installations
      /\ Len(installations') = Len(installations) /\ Len(installations) \in Nat
      /\ \A i \in DOMAIN installations :
           installations'[i] = IF i = q.id THEN row ELSE installations[i]
  <2>1. installations \in [DOMAIN installations -> Rows]
    BY <1>3
  <2>2. installations' \in [DOMAIN installations -> Rows]
    BY <1>1, <1>4, <2>1
  <2> QED
    BY <1>1, <1>3, <2>1, <2>2, SameIndices
<1>6. Kept /\ RowInv'
  BY <1>4, <1>5 DEF Kept, TypeInv, RowInv
<1>7. "INSTALLED" \in TrackerStatuses
  BY DEF TrackerStatuses
<1>8. /\ status' \in [Trackers -> TrackerStatuses \cup {"none"}]
      /\ \A u \in Trackers : status[u] # "none" => status'[u] # "none"
  BY <1>1, <1>2, <1>7, WriteTyped DEF TypeInv
<1>9. deleted' \subseteq {u \in Trackers : status'[u] # "none"} /\ vehicles' \subseteq Vehicles
  BY <1>1, <1>8 DEF TypeInv, TypeOK
<1> QED
  BY <1>1, <1>5, <1>6, <1>8, <1>9, EndKeeps

LEMMA SetStatusKeeps ==
  ASSUME TypeInv, NEW r \in Requests, CommitSetStatus(r)
  PROVE  TypeInv' /\ Kept
<1> DEFINE q == request[r]
           Row(i) == IF i \in q.held
                     THEN [installations[i] EXCEPT !.status = "REMOVED", !.removed = TRUE]
                     ELSE installations[i]
<1>1. /\ q.op = "status" /\ Done(r) /\ UNCHANGED <<deleted, vehicles>>
      /\ installations' = [i \in DOMAIN installations |-> Row(i)]
      /\ Write(q.tracker, q.loaded, q.new)
  BY DEF CommitSetStatus
<1>2. q.tracker \in Trackers /\ q.new \in TrackerStatuses
  BY <1>1, InstallationsAssumption DEF TypeInv, RequestInv
<1>3. installations \in Seq(Rows)
  BY DEF TypeInv, TypeOK
<1>4. ASSUME NEW i \in DOMAIN installations
      PROVE  /\ Row(i) \in Rows
             /\ Row(i).tracker = installations[i].tracker
             /\ Row(i).vehicle = installations[i].vehicle
             /\ Row(i) = installations[i] \/ Row(i).removed
             /\ installations[i].removed => Row(i).removed
  <2>1. installations[i] \in Rows
    BY <1>3
  <2> QED
    BY <2>1 DEF Rows, InstallationStatuses, ClosedStatuses
<1> HIDE DEF Row
<1>5. /\ installations' \in Seq(Rows) /\ DOMAIN installations' = DOMAIN installations
      /\ Len(installations') = Len(installations) /\ Len(installations) \in Nat
      /\ \A i \in DOMAIN installations : installations'[i] = Row(i)
  <2>1. installations' \in [DOMAIN installations -> Rows]
    BY <1>1, <1>4
  <2> QED
    BY <1>1, <1>3, <2>1, SameIndices
<1>6. Kept /\ RowInv'
  BY <1>4, <1>5 DEF Kept, TypeInv, RowInv
<1>7. /\ status' \in [Trackers -> TrackerStatuses \cup {"none"}]
      /\ \A u \in Trackers : status[u] # "none" => status'[u] # "none"
  BY <1>1, <1>2, WriteTyped DEF TypeInv
<1>8. deleted' \subseteq {u \in Trackers : status'[u] # "none"} /\ vehicles' \subseteq Vehicles
  BY <1>1, <1>7 DEF TypeInv, TypeOK
<1> QED
  BY <1>1, <1>5, <1>6, <1>7, <1>8, EndKeeps

LEMMA DeleteKeeps ==
  ASSUME TypeInv, NEW r \in Requests, CommitDelete(r)
  PROVE  TypeInv' /\ Kept
<1> DEFINE q == request[r]
<1>1. /\ q.op = "delete" /\ Done(r) /\ UNCHANGED <<vehicles, installations>>
      /\ deleted' = deleted \cup {q.tracker}
      /\ Write(q.tracker, q.loaded, "DISPOSED")
  BY DEF CommitDelete
<1>2. q.tracker \in Trackers /\ status[q.tracker] # "none"
  BY <1>1 DEF TypeInv, RequestInv
<1>3. "DISPOSED" \in TrackerStatuses
  BY DEF TrackerStatuses
<1>4. /\ status' \in [Trackers -> TrackerStatuses \cup {"none"}]
      /\ \A u \in Trackers : status[u] # "none" => status'[u] # "none"
  BY <1>1, <1>2, <1>3, WriteTyped DEF TypeInv
<1>5. deleted' \subseteq {u \in Trackers : status'[u] # "none"} /\ vehicles' \subseteq Vehicles
  BY <1>1, <1>2, <1>4 DEF TypeInv, TypeOK
<1>6. Kept /\ installations' \in Seq(Rows) /\ RowInv'
  BY <1>1, SameRows
<1> QED
  BY <1>1, <1>4, <1>5, <1>6, EndKeeps

LEMMA RollbackKeeps ==
  ASSUME TypeInv, NEW r \in Requests, Rollback(r)
  PROVE  TypeInv' /\ Kept
<1>1. Kept /\ installations' \in Seq(Rows) /\ RowInv'
  BY SameRows DEF Rollback
<1> QED
  BY <1>1, EndKeeps DEF Rollback, TypeInv, TypeOK

\* The reads and checks of every request.
LEMMA BeginsKeep ==
  ASSUME TypeInv, NEW r \in Requests,
         \/ \E t \in Trackers, v \in Vehicles, type \in InstallationTypes,
               complete \in BOOLEAN : BeginCreate(r, t, v, type, complete)
         \/ \E i \in DOMAIN installations :
              \/ BeginFinish(r, i)
              \/ \E type \in InstallationTypes, new \in InstallationStatuses :
                   BeginUpdate(r, i, type, new)
         \/ \E t \in Trackers :
              BeginDelete(r, t) \/ \E new \in ManualStatuses : BeginSetStatus(r, t, new)
  PROVE  TypeInv' /\ Kept
<1> SUFFICES TypeInv' /\ UNCHANGED installations
  BY SameRows
<1>0. installations \in Seq(Rows)
  BY DEF TypeInv, TypeOK
<1>1. CASE \E t \in Trackers, v \in Vehicles, type \in InstallationTypes,
             complete \in BOOLEAN : BeginCreate(r, t, v, type, complete)
  BY <1>1, BeginKeeps DEF BeginCreate
<1>2. ASSUME NEW i \in DOMAIN installations, BeginFinish(r, i)
      PROVE  TypeInv' /\ UNCHANGED installations
  <2>1. installations[i] \in Rows
    BY <1>0
  <2>2. installations[i].tracker \in Trackers
    BY <2>1 DEF Rows
  <2> QED
    BY <1>2, <2>2, BeginKeeps DEF BeginFinish
<1>3. ASSUME NEW i \in DOMAIN installations, NEW type \in InstallationTypes,
             NEW new \in InstallationStatuses, BeginUpdate(r, i, type, new)
      PROVE  TypeInv' /\ UNCHANGED installations
  <2>1. installations[i] \in Rows
    BY <1>0
  <2>2. installations[i].tracker \in Trackers
    BY <2>1 DEF Rows
  <2> QED
    BY <1>3, <2>2, BeginKeeps DEF BeginUpdate
<1>4. CASE \E t \in Trackers : BeginDelete(r, t)
  BY <1>4, BeginKeeps DEF BeginDelete, InCatalogue
<1>5. CASE \E t \in Trackers, new \in ManualStatuses : BeginSetStatus(r, t, new)
  BY <1>5, BeginKeeps DEF BeginSetStatus
<1> QED
  BY <1>1, <1>2, <1>3, <1>4, <1>5

-----------------------------------------------------------------------------
LEMMA InitInv == Init => TypeInv
<1> SUFFICES ASSUME Init PROVE TypeInv
  OBVIOUS
<1>1. installations = <<>> /\ \A r \in Requests : request[r].op = "idle"
  BY DEF Init, Idle
<1>2. TypeOK
  BY <1>1 DEF Init, TypeOK
<1>3. RequestInv
  BY <1>1 DEF Init, RequestInv
<1> QED
  BY <1>1, <1>2, <1>3 DEF TypeInv, RowInv

LEMMA StepKeeps == TypeInv /\ Next => TypeInv' /\ Kept
<1> SUFFICES ASSUME TypeInv, Next PROVE TypeInv' /\ Kept
  OBVIOUS
<1>1. CASE \E t \in Trackers : CreateTracker(t)
  BY <1>1, CreateTrackerKeeps
<1>2. CASE \E v \in Vehicles : DeleteVehicle(v)
  BY <1>2, DeleteVehicleKeeps
<1>3. ASSUME NEW r \in Requests,
             \/ CommitCreate(r) \/ CommitUpdate(r) \/ CommitFinish(r)
             \/ CommitSetStatus(r) \/ CommitDelete(r) \/ Rollback(r)
      PROVE  TypeInv' /\ Kept
  BY <1>3, CreateKeeps, UpdateKeeps, FinishKeeps, SetStatusKeeps, DeleteKeeps, RollbackKeeps
<1> QED
  BY <1>1, <1>2, <1>3, BeginsKeep DEF Next

LEMMA StutterKeeps == TypeInv /\ UNCHANGED vars => TypeInv' /\ Kept
<1> SUFFICES ASSUME TypeInv, UNCHANGED vars PROVE TypeInv' /\ Kept
  OBVIOUS
<1>1. Kept
  BY SameRows DEF vars
<1> QED
  BY <1>1 DEF vars, TypeInv, TypeOK, RequestInv, RowInv

LEMMA AlwaysTyped == Spec => []TypeInv
  BY InitInv, StepKeeps, StutterKeeps, PTL DEF Spec

(* The tables hold values of their enumerations whatever requests overlap,   *)
(* a deleted tracker has a row, and a request writes rows that exist.        *)
THEOREM TypeCorrect == Spec => []TypeOK
<1>1. TypeInv => TypeOK
  BY DEF TypeInv
<1> QED
  BY <1>1, AlwaysTyped, PTL

(* An installation that REMOVED or CANCELLED closed has removed_at, for any   *)
(* number of requests that overlap. The converse is not so: a finish that    *)
(* had loaded the row before leaves INSTALLED with removed_at.               *)
ClosedHasMark ==
  \A i \in DOMAIN installations :
    installations[i].status \in ClosedStatuses => installations[i].removed

THEOREM ClosedIsMarked == Spec => []ClosedHasMark
<1>1. TypeInv => ClosedHasMark
  BY DEF TypeInv, RowInv, ClosedHasMark, ClosedStatuses, ActiveStatuses
<1> QED
  BY <1>1, AlwaysTyped, PTL

(* A closed installation is never active again, and no row is lost or moved, *)
(* for any number of requests that overlap: finish_installation may write    *)
(* INSTALLED over a row closed meanwhile, removed_at stays.                  *)
THEOREM HistoryStands == Spec => ClosedStaysClosed
<1>1. ASSUME TypeInv, Kept
      PROVE  HistoryKept
  <2>1. ASSUME NEW i \in DOMAIN installations, ~Active(i)
        PROVE  ~Active(i)'
    <3>1. installations[i].removed
      BY <1>1, <2>1 DEF TypeInv, RowInv, Active
    <3> QED
      BY <1>1, <3>1 DEF Kept, Active
  <2> QED
    BY <1>1, <2>1 DEF Kept, HistoryKept
<1>2. TypeInv /\ [Next]_vars => HistoryKept
  BY <1>1, StepKeeps, StutterKeeps
<1> QED
  BY <1>2, AlwaysTyped, PTL DEF Spec, ClosedStaysClosed

-----------------------------------------------------------------------------
(* No tracker is booked twice, and the tracker of a creation in progress is  *)
(* still as free as its first check found it.                                *)
Booked ==
  /\ \A i, j \in DOMAIN installations :
       /\ Active(i) /\ Active(j)
       /\ installations[i].tracker = installations[j].tracker
       => i = j
  /\ \A r \in Requests : request[r].op = "create" => ActiveOf(request[r].tracker) = {}

\* What became of the requests when nobody began a creation.
NoCreation ==
  \A r \in Requests : request'[r] = request[r] \/ request'[r].op # "create"

\* Without a new row and a new creation nothing gets booked.
LEMMA NothingBooked ==
  ASSUME TypeInv, Kept, Booked, DOMAIN installations' = DOMAIN installations, NoCreation
  PROVE  Booked'
<1>1. ASSUME NEW i \in DOMAIN installations, Active(i)'
      PROVE  Active(i)
  BY <1>1 DEF TypeInv, RowInv, Kept, Active
<1>2. \A i \in DOMAIN installations : installations'[i].tracker = installations[i].tracker
  BY DEF Kept
<1>3. ASSUME NEW r \in Requests, request'[r].op = "create"
      PROVE  ActiveOf(request[r].tracker)' = {}
  <2>1. request'[r] = request[r] /\ ActiveOf(request[r].tracker) = {}
    BY <1>3 DEF NoCreation, Booked
  <2>2. \A u : ActiveOf(u)' \subseteq ActiveOf(u)
    BY <1>1, <1>2 DEF ActiveOf
  <2>3. ActiveOf(request[r].tracker)' \subseteq ActiveOf(request[r].tracker)
    BY <2>1, <2>2
  <2> QED
    BY <2>1, <2>3
<1>4. \A i, j \in DOMAIN installations' :
        /\ Active(i)' /\ Active(j)'
        /\ installations'[i].tracker = installations'[j].tracker
        => i = j
  BY <1>1, <1>2 DEF Booked
<1> QED
  BY <1>3, <1>4 DEF Booked

\* A request that ends is no creation, and one that begins is what it loaded.
LEMMA DoneCreatesNothing ==
  ASSUME TypeInv, NEW r \in Requests, Done(r)
  PROVE  NoCreation
<1>1. Idle.op # "create"
  BY DEF Idle
<1> QED
  BY <1>1 DEF TypeInv, RequestInv, Done, NoCreation

LEMMA BeginCreatesNothing ==
  ASSUME TypeInv, NEW r \in Requests, NEW q, q.op # "create", Begin(r, q)
  PROVE  NoCreation /\ UNCHANGED installations
  BY DEF TypeInv, RequestInv, Begin, NoCreation

\* The creation that commits is the only one, and its tracker is still free.
LEMMA CreateBooks ==
  ASSUME TypeInv, Booked, NEW r \in Requests, CommitCreate(r),
         NEW creator, Creators \subseteq {creator}
  PROVE  Booked'
<1> DEFINE q == request[r]
           n == Len(installations) + 1
<1>1. q.op = "create" /\ Done(r) /\ r = creator
  BY DEF CommitCreate, TypeInv, RequestInv
<1>2. ActiveOf(q.tracker) = {}
  BY <1>1 DEF Booked
<1>3. ASSUME NEW p \in Requests PROVE request'[p].op # "create"
  <2>1. Idle.op # "create"
    BY DEF Idle
  <2>2. CASE p = r
    BY <1>1, <2>1, <2>2 DEF TypeInv, RequestInv, Done
  <2>3. CASE p # r
    <3>1. request'[p] = request[p]
      BY <1>1, <2>3 DEF TypeInv, RequestInv, Done
    <3>2. request[p].op = "create" => p \in Creators
      BY DEF TypeInv, RequestInv
    <3> QED
      BY <1>1, <2>3, <3>1, <3>2
  <2> QED
    BY <2>2, <2>3
<1>4. /\ DOMAIN installations = 1..Len(installations) /\ Len(installations) \in Nat
      /\ DOMAIN installations' = 1..n
      /\ \A i \in DOMAIN installations : installations'[i] = installations[i]
      /\ installations'[n].tracker = q.tracker
  <2>1. installations \in Seq(Rows)
    BY DEF TypeInv, TypeOK
  <2> QED
    BY <2>1 DEF CommitCreate
<1>5. \A i \in DOMAIN installations : Active(i)' = Active(i)
  BY <1>4 DEF Active
<1>6. \A i \in DOMAIN installations :
        Active(i) => installations[i].tracker # q.tracker
  BY <1>2 DEF ActiveOf
<1>7. \A i \in DOMAIN installations' : i \in DOMAIN installations \/ i = n
  BY <1>4
<1> HIDE DEF n, q
<1>8. ASSUME NEW i \in DOMAIN installations', NEW j \in DOMAIN installations',
             Active(i)', Active(j)',
             installations'[i].tracker = installations'[j].tracker
      PROVE  i = j
  <2>1. CASE i \in DOMAIN installations /\ j \in DOMAIN installations
    BY <1>4, <1>5, <1>8, <2>1 DEF Booked
  <2>2. CASE i = n /\ j \in DOMAIN installations
    BY <1>4, <1>5, <1>6, <1>8, <2>2
  <2>3. CASE i \in DOMAIN installations /\ j = n
    BY <1>4, <1>5, <1>6, <1>8, <2>3
  <2> QED
    BY <1>7, <2>1, <2>2, <2>3
<1> QED
  BY <1>3, <1>8 DEF Booked

\* The creation that begins has checked its tracker.
LEMMA BeginCreateBooks ==
  ASSUME TypeInv, Booked, NEW r \in Requests, NEW t, NEW v, NEW type, NEW complete,
         BeginCreate(r, t, v, type, complete)
  PROVE  Booked'
<1>1. ActiveOf(t) = {} /\ UNCHANGED installations
  BY DEF BeginCreate, Free, Begin
<1>2. \A p \in Requests : request'[p] = request[p] \/ request'[p].tracker = t
  BY DEF BeginCreate, Begin, TypeInv, RequestInv
<1>3. \A u : ActiveOf(u)' = ActiveOf(u)
  BY <1>1 DEF ActiveOf, Active
<1>4. \A p \in Requests :
        request'[p].op = "create" => ActiveOf(request[p].tracker)' = {}
  <2> SUFFICES ASSUME NEW p \in Requests, request'[p].op = "create"
               PROVE  ActiveOf(request[p].tracker)' = {}
    OBVIOUS
  <2>1. CASE request'[p] = request[p]
    <3>1. ActiveOf(request[p].tracker) = {}
      BY <2>1 DEF Booked
    <3> QED
      BY <1>3, <2>1, <3>1
  <2>2. CASE request'[p].tracker = t
    BY <1>1, <1>3, <2>2
  <2> QED
    BY <1>2, <2>1, <2>2
<1>5. \A i \in DOMAIN installations : Active(i)' = Active(i)
  BY <1>1 DEF Active
<1> QED
  BY <1>1, <1>4, <1>5 DEF Booked

LEMMA StepBooks ==
  ASSUME NEW creator, Creators \subseteq {creator}, TypeInv, Booked, Next
  PROVE  Booked'
<1>0. Kept
  BY StepKeeps
<1>1. CASE \E t \in Trackers : CreateTracker(t)
  BY <1>0, <1>1, NothingBooked DEF CreateTracker, NoCreation
<1>2. CASE \E v \in Vehicles : DeleteVehicle(v)
  BY <1>0, <1>2, NothingBooked DEF DeleteVehicle, NoCreation
<1>3. ASSUME NEW r \in Requests, CommitCreate(r)
      PROVE  Booked'
  BY <1>3, CreateBooks
<1>4. ASSUME NEW r \in Requests,
             \/ CommitUpdate(r) \/ CommitFinish(r)
             \/ CommitSetStatus(r) \/ CommitDelete(r) \/ Rollback(r)
      PROVE  Booked'
  <2>1. Done(r)
    BY <1>4 DEF CommitUpdate, CommitFinish, CommitSetStatus, CommitDelete, Rollback
  <2>2. DOMAIN installations' = DOMAIN installations
    BY <1>4 DEF CommitUpdate, CommitFinish, CommitSetStatus, CommitDelete, Rollback
  <2> QED
    BY <1>0, <2>1, <2>2, DoneCreatesNothing, NothingBooked
<1>5. ASSUME NEW r \in Requests,
             \E t \in Trackers, v \in Vehicles, type \in InstallationTypes,
                complete \in BOOLEAN : BeginCreate(r, t, v, type, complete)
      PROVE  Booked'
  BY <1>5, BeginCreateBooks
<1>6. ASSUME NEW r \in Requests,
             \/ \E i \in DOMAIN installations :
                  \/ BeginFinish(r, i)
                  \/ \E type \in InstallationTypes, new \in InstallationStatuses :
                       BeginUpdate(r, i, type, new)
             \/ \E t \in Trackers :
                  BeginDelete(r, t) \/ \E new \in ManualStatuses : BeginSetStatus(r, t, new)
      PROVE  Booked'
  <2>1. NoCreation /\ UNCHANGED installations
    BY <1>6, BeginCreatesNothing DEF BeginFinish, BeginUpdate, BeginDelete, BeginSetStatus
  <2> QED
    BY <1>0, <2>1, NothingBooked
<1> QED
  BY <1>1, <1>2, <1>3, <1>4, <1>5, <1>6 DEF Next

(* With at most one creation in progress no tracker has two active           *)
(* installations, whatever edits, status changes, deletions and failures     *)
(* overlap with it: between create_installation's check and its insert the   *)
(* tracker stays free, and nobody reopens a closed row.                      *)
THEOREM OneCreationOneBooking ==
  ASSUME NEW creator, Creators \subseteq {creator}
  PROVE  Spec => []OneActivePerTracker
<1>1. Init => Booked
  BY DEF Init, Idle, Booked
<1>2. TypeInv /\ Booked /\ [Next]_vars => Booked'
  <2>1. ASSUME TypeInv, Booked, UNCHANGED vars PROVE Booked'
    <3>1. Kept /\ DOMAIN installations' = DOMAIN installations /\ NoCreation
      BY <2>1, StutterKeeps DEF vars, NoCreation
    <3> QED
      BY <2>1, <3>1, NothingBooked
  <2> QED
    BY <2>1, StepBooks
<1>3. Booked => OneActivePerTracker
  <2> SUFFICES ASSUME Booked, NEW t \in Trackers PROVE Cardinality(ActiveOf(t)) <= 1
    BY DEF OneActivePerTracker
  <2>1. CASE ActiveOf(t) = {}
    BY <2>1, FS_EmptySet
  <2>2. CASE ActiveOf(t) # {}
    <3>1. PICK i \in ActiveOf(t) : TRUE
      BY <2>2
    <3>2. ActiveOf(t) = {i}
      BY <3>1 DEF ActiveOf, Booked
    <3> QED
      BY <3>2, FS_Singleton
  <2> QED
    BY <2>1, <2>2
<1> QED
  BY <1>1, <1>2, <1>3, AlwaysTyped, PTL DEF Spec
-----------------------------------------------------------------------------
(* What the checks of the back office are worth when its requests come one   *)
(* at a time: a vehicle has one primary tracker, a deleted tracker is on no  *)
(* vehicle, and every step is a step of TrackerCustody or a stutter. With    *)
(* two requests at once none of it holds: nothing locks between a check and  *)
(* the write it was made for, as find_double_booking shows.                  *)

OneRequest == \A r, p \in Requests : r = p

(* What the request in progress has checked still holds.                     *)
Checked ==
  \A r \in Requests : LET q == request[r] IN
    /\ q.op = "create" =>
         /\ status[q.tracker] # "none" /\ q.tracker \notin deleted
         /\ q.type = "PRIMARY" => PrimaryOf(q.vehicle) = {}
    /\ q.op = "update" =>
         /\ q.row = installations[q.id]
         /\ q.type = "PRIMARY" => PrimaryOf(q.row.vehicle) \subseteq {q.id}
    /\ q.op = "status" => q.held = Released(q.tracker, q.new)
    /\ q.op = "delete" => ActiveOf(q.tracker) = {}

(* Only a tracker of the catalogue was ever installed.                       *)
Registered == \A i \in DOMAIN installations : status[installations[i].tracker] # "none"

OnePrimary ==
  \A i, j \in DOMAIN installations :
    /\ Active(i) /\ Active(j)
    /\ installations[i].type = "PRIMARY" /\ installations[j].type = "PRIMARY"
    /\ installations[i].vehicle = installations[j].vehicle
    => i = j

CustodyInv == Checked /\ Registered /\ OnePrimary /\ DeletedIsFree

(* The vehicle each tracker is on, and what the steps of the back office are *)
(* to the abstract specification.                                            *)
Custodian(t) ==
  IF ActiveOf(t) = {} THEN "nobody"
  ELSE installations[CHOOSE i \in ActiveOf(t) : TRUE].vehicle

Custodians == [t \in Trackers |-> Custodian(t)]

Maps == [Custody!Next]_Custody!cvars

Releases ==
  \A t \in Trackers :
    status[t] # "IN_STOCK" /\ status'[t] = "IN_STOCK" => ActiveOf(t)' = {}
-----------------------------------------------------------------------------
\* The abstract state follows the rows.
LEMMA Chosen == ASSUME NEW S, S # {} PROVE (CHOOSE i \in S : TRUE) \in S
  OBVIOUS

LEMMA CustodianIs ==
  ASSUME Booked, NEW t, NEW i \in ActiveOf(t)
  PROVE  Custodian(t) = installations[i].vehicle
<1>1. PICK c \in ActiveOf(t) : c = CHOOSE j \in ActiveOf(t) : TRUE
  BY Chosen
<1>2. c = i
  BY <1>1 DEF Booked, ActiveOf
<1> QED
  BY <1>1, <1>2 DEF Custodian

LEMMA CustodianIsNext ==
  ASSUME Booked', NEW t, NEW i \in ActiveOf(t)'
  PROVE  Custodian(t)' = installations'[i].vehicle
<1>1. PICK c \in ActiveOf(t)' : c = CHOOSE j \in ActiveOf(t)' : TRUE
  BY Chosen
<1>2. c = i
  BY <1>1 DEF Booked, ActiveOf
<1> QED
  BY <1>1, <1>2 DEF Custodian

LEMMA NoCustodian ==
  ASSUME NEW t
  PROVE  /\ ActiveOf(t) = {} => Custodian(t) = "nobody"
         /\ ActiveOf(t)' = {} => Custodian(t)' = "nobody"
  BY DEF Custodian

\* Rows that stay leave everything that is read from them.
LEMMA SameViews ==
  ASSUME UNCHANGED installations
  PROVE  /\ \A u : ActiveOf(u)' = ActiveOf(u)
         /\ \A v : PrimaryOf(v)' = PrimaryOf(v)
         /\ OnePrimary => OnePrimary'
<1>1. \A i : Active(i)' = Active(i)
  BY DEF Active
<1>2. \A u : ActiveOf(u)' = ActiveOf(u)
  BY <1>1 DEF ActiveOf
<1>3. \A v : PrimaryOf(v)' = PrimaryOf(v)
  BY <1>1 DEF PrimaryOf
<1>4. OnePrimary => OnePrimary'
  BY <1>1 DEF OnePrimary
<1> QED
  BY <1>2, <1>3, <1>4

LEMMA SameMaps ==
  ASSUME Booked, Booked', UNCHANGED <<installations, deleted>>
  PROVE  Maps
<1>1. \A u : ActiveOf(u)' = ActiveOf(u)
  BY SameViews
<1>2. ASSUME NEW t \in Trackers PROVE Custodian(t)' = Custodian(t)
  <2>1. CASE ActiveOf(t) = {}
    BY <1>1, <2>1, NoCustodian
  <2>2. CASE ActiveOf(t) # {}
    <3>1. PICK i \in ActiveOf(t) : TRUE
      BY <2>2
    <3>2. i \in ActiveOf(t)'
      BY <1>1, <3>1
    <3> QED
      BY <3>1, <3>2, CustodianIs, CustodianIsNext
  <2> QED
    BY <2>1, <2>2
<1>3. Custodians' = Custodians
  BY <1>2 DEF Custodians
<1> QED
  BY <1>3 DEF Maps, Custody!cvars, Custodians, Custodian

\* Closing rows of one tracker returns it, or changes nothing.
LEMMA ClosingMaps ==
  ASSUME Booked, Booked', UNCHANGED deleted, NEW t \in Trackers,
         \A u : ActiveOf(u)' \subseteq ActiveOf(u),
         \A u \in Trackers \ {t} : ActiveOf(u)' = ActiveOf(u),
         \A i \in DOMAIN installations :
           installations'[i].vehicle = installations[i].vehicle
  PROVE  Maps
<1>0. \A u : ActiveOf(u) \subseteq DOMAIN installations
  BY DEF ActiveOf
<1>1. ASSUME NEW u \in Trackers, ActiveOf(u)' # {}
      PROVE  Custodian(u)' = Custodian(u)
  <2>1. PICK i \in ActiveOf(u)' : TRUE
    BY <1>1
  <2>2. i \in ActiveOf(u) /\ installations'[i].vehicle = installations[i].vehicle
    BY <1>0, <2>1
  <2> QED
    BY <2>1, <2>2, CustodianIs, CustodianIsNext
<1>2. ASSUME NEW u \in Trackers \ {t} PROVE Custodian(u)' = Custodian(u)
  BY <1>1, NoCustodian
<1>3. CASE ActiveOf(t)' = {}
  <2>1. Custodian(t)' = "nobody"
    BY <1>3, NoCustodian
  <2>2. Custodians' = [Custodians EXCEPT ![t] = "nobody"]
    BY <1>2, <2>1 DEF Custodians
  <2>3. Custody!Return(t)
    BY <2>2 DEF Custody!Return, Custodians, Custodian
  <2> QED
    BY <2>3 DEF Maps, Custody!Next
<1>4. CASE ActiveOf(t)' # {}
  <2>1. Custodians' = Custodians
    BY <1>1, <1>2, <1>4 DEF Custodians
  <2> QED
    BY <2>1 DEF Maps, Custody!cvars, Custodians, Custodian
<1> QED
  BY <1>3, <1>4

\* Rows that only close, of whatever tracker.
LEMMA Closing ==
  ASSUME TypeInv, Kept, OnePrimary, DOMAIN installations' = DOMAIN installations
  PROVE  /\ \A i \in DOMAIN installations : Active(i)' => Active(i)
         /\ \A u : ActiveOf(u)' \subseteq ActiveOf(u)
         /\ (\A i \in DOMAIN installations :
               installations'[i].type = "PRIMARY" => installations[i].type = "PRIMARY")
            => OnePrimary'
<1>1. ASSUME NEW i \in DOMAIN installations, Active(i)'
      PROVE  Active(i)
  BY <1>1 DEF TypeInv, RowInv, Kept, Active
<1>2. \A i \in DOMAIN installations :
        /\ installations'[i].tracker = installations[i].tracker
        /\ installations'[i].vehicle = installations[i].vehicle
  BY DEF Kept
<1>3. \A u : ActiveOf(u)' \subseteq ActiveOf(u)
  BY <1>1, <1>2 DEF ActiveOf
<1>4. (\A i \in DOMAIN installations :
         installations'[i].type = "PRIMARY" => installations[i].type = "PRIMARY")
      => OnePrimary'
  BY <1>1, <1>2 DEF OnePrimary
<1> QED
  BY <1>1, <1>3, <1>4

\* The rows of the other trackers stay as they are.
LEMMA OthersStay ==
  ASSUME NEW t, DOMAIN installations' = DOMAIN installations,
         \A i \in DOMAIN installations :
           /\ installations'[i].tracker = installations[i].tracker
           /\ installations[i].tracker # t => installations'[i] = installations[i]
  PROVE  \A u \in Trackers \ {t} : ActiveOf(u)' = ActiveOf(u)
<1>1. \A i \in DOMAIN installations :
        installations[i].tracker # t => Active(i)' = Active(i)
  BY DEF Active
<1> QED
  BY <1>1 DEF ActiveOf

-----------------------------------------------------------------------------
\* The only request ends, and nothing is left to have been checked.
LEMMA DoneChecked ==
  ASSUME TypeInv, OneRequest, NEW r \in Requests, Done(r)
  PROVE  Checked'
<1>1. \A p \in Requests : request'[p] = Idle
  BY DEF TypeInv, RequestInv, Done, OneRequest
<1>2. Idle.op = "idle"
  BY DEF Idle
<1> QED
  BY <1>1, <1>2 DEF Checked

\* A row's tracker keeps its own row.
LEMMA StillRegistered ==
  ASSUME TypeInv, Kept, Registered, DOMAIN installations' = DOMAIN installations,
         \A u \in Trackers : status[u] # "none" => status'[u] # "none"
  PROVE  Registered'
<1>1. installations \in Seq(Rows)
  BY DEF TypeInv, TypeOK
<1>2. ASSUME NEW i \in DOMAIN installations
      PROVE  status'[installations'[i].tracker] # "none"
  <2>1. installations[i] \in Rows
    BY <1>1
  <2>2. installations[i].tracker \in Trackers
    BY <2>1 DEF Rows
  <2> QED
    BY <2>2 DEF Registered, Kept
<1> QED
  BY <1>2 DEF Registered

\* A request that begins reads, and what it checked is so.
LEMMA BeginChecks ==
  ASSUME TypeInv, OneRequest, CustodyInv, Booked, Booked',
         NEW r \in Requests, NEW q, Begin(r, q),
         /\ q.op = "create" =>
              /\ status[q.tracker] # "none" /\ q.tracker \notin deleted
              /\ q.type = "PRIMARY" => PrimaryOf(q.vehicle) = {}
         /\ q.op = "update" =>
              /\ q.row = installations[q.id]
              /\ q.type = "PRIMARY" => PrimaryOf(q.row.vehicle) \subseteq {q.id}
         /\ q.op = "status" => q.held = Released(q.tracker, q.new)
         /\ q.op = "delete" => ActiveOf(q.tracker) = {}
  PROVE  CustodyInv' /\ Releases /\ Maps
<1>1. /\ UNCHANGED <<status, deleted, vehicles, installations>>
      /\ \A p \in Requests : request'[p] = q
  BY DEF Begin, OneRequest, TypeInv, RequestInv
<1>2. /\ \A u : ActiveOf(u)' = ActiveOf(u)
      /\ \A v : PrimaryOf(v)' = PrimaryOf(v)
      /\ OnePrimary'
  BY <1>1, SameViews DEF CustodyInv
<1>3. Released(q.tracker, q.new)' = Released(q.tracker, q.new)
  BY <1>2 DEF Released
<1>4. ActiveOf(q.tracker)' = ActiveOf(q.tracker) /\ PrimaryOf(q.vehicle)' = PrimaryOf(q.vehicle)
      /\ PrimaryOf(q.row.vehicle)' = PrimaryOf(q.row.vehicle)
  BY <1>2
<1>5. Checked'
  BY <1>1, <1>3, <1>4 DEF Checked
<1>6. Registered' /\ DeletedIsFree'
  BY <1>1, <1>2 DEF CustodyInv, Registered, DeletedIsFree
<1>7. Releases
  BY <1>1 DEF Releases
<1>8. Maps
  BY <1>1, SameMaps
<1> QED
  BY <1>2, <1>5, <1>6, <1>7, <1>8 DEF CustodyInv
-----------------------------------------------------------------------------
LEMMA CreateTrackerCustody ==
  ASSUME TypeInv, CustodyInv, Booked, Booked', NEW t \in Trackers, CreateTracker(t)
  PROVE  CustodyInv' /\ Releases /\ Maps
<1>1. /\ status[t] = "none" /\ UNCHANGED <<deleted, vehicles, installations, request>>
      /\ \A u \in Trackers : u # t => status'[u] = status[u]
      /\ \A u \in Trackers : status[u] # "none" => status'[u] # "none"
  BY DEF CreateTracker, TypeInv, TypeOK
<1>2. /\ \A u : ActiveOf(u)' = ActiveOf(u)
      /\ \A v : PrimaryOf(v)' = PrimaryOf(v)
      /\ OnePrimary'
  BY <1>1, SameViews DEF CustodyInv
<1>3. Checked'
  <2> SUFFICES ASSUME NEW q, NEW r \in Requests, q = request[r]
               PROVE  /\ q.op = "create" =>
                           /\ status'[q.tracker] # "none" /\ q.tracker \notin deleted
                           /\ q.type = "PRIMARY" => PrimaryOf(q.vehicle)' = {}
                      /\ q.op = "update" =>
                           /\ q.row = installations[q.id]
                           /\ q.type = "PRIMARY" => PrimaryOf(q.row.vehicle)' \subseteq {q.id}
                      /\ q.op = "status" => q.held = Released(q.tracker, q.new)'
                      /\ q.op = "delete" => ActiveOf(q.tracker)' = {}
    BY <1>1 DEF Checked
  <2>1. q.op = "create" => q.tracker \in Trackers
    BY DEF TypeInv, RequestInv
  <2>2. /\ PrimaryOf(q.vehicle)' = PrimaryOf(q.vehicle)
        /\ PrimaryOf(q.row.vehicle)' = PrimaryOf(q.row.vehicle)
        /\ ActiveOf(q.tracker)' = ActiveOf(q.tracker)
    BY <1>2
  <2>3. Released(q.tracker, q.new)' = Released(q.tracker, q.new)
    BY <2>2 DEF Released
  <2> QED
    BY <1>1, <2>1, <2>2, <2>3 DEF CustodyInv, Checked
<1>4. Kept
  BY <1>1, SameRows
<1>5. Registered' /\ DeletedIsFree'
  BY <1>1, <1>2, <1>4, StillRegistered DEF CustodyInv, DeletedIsFree
<1>6. ActiveOf(t) = {}
  BY <1>1 DEF CustodyInv, Registered, ActiveOf
<1>7. Releases
  BY <1>1, <1>2, <1>6 DEF Releases
<1>8. Maps
  BY <1>1, SameMaps
<1> QED
  BY <1>2, <1>3, <1>5, <1>7, <1>8 DEF CustodyInv

LEMMA DeleteVehicleCustody ==
  ASSUME TypeInv, CustodyInv, Booked, Booked', NEW v \in Vehicles, DeleteVehicle(v)
  PROVE  CustodyInv' /\ Releases /\ Maps
<1>1. UNCHANGED <<status, deleted, installations, request>>
  BY DEF DeleteVehicle
<1>2. Checked'
  BY <1>1 DEF CustodyInv, Checked, PrimaryOf, ActiveOf, Active, Released
<1>3. Registered' /\ OnePrimary' /\ DeletedIsFree'
  BY <1>1, SameViews DEF CustodyInv, Registered, DeletedIsFree
<1>4. Releases
  BY <1>1 DEF Releases
<1>5. Maps
  BY <1>1, SameMaps
<1> QED
  BY <1>2, <1>3, <1>4, <1>5 DEF CustodyInv

\* The rolled back request leaves the tables as they were.
LEMMA RollbackCustody ==
  ASSUME TypeInv, OneRequest, CustodyInv, Booked, Booked', NEW r \in Requests, Rollback(r)
  PROVE  CustodyInv' /\ Releases /\ Maps
<1>1. UNCHANGED <<status, deleted, installations>> /\ Done(r)
  BY DEF Rollback
<1>2. Checked'
  BY <1>1, DoneChecked
<1>3. Registered' /\ OnePrimary' /\ DeletedIsFree'
  BY <1>1, SameViews DEF CustodyInv, Registered, DeletedIsFree
<1>4. Releases
  BY <1>1 DEF Releases
<1>5. Maps
  BY <1>1, SameMaps
<1> QED
  BY <1>2, <1>3, <1>4, <1>5 DEF CustodyInv

LEMMA DeleteCustody ==
  ASSUME TypeInv, OneRequest, CustodyInv, Booked, Booked', NEW r \in Requests, CommitDelete(r)
  PROVE  CustodyInv' /\ Releases /\ Maps
<1> DEFINE t == request[r].tracker
<1>1. /\ request[r].op = "delete" /\ Done(r) /\ UNCHANGED installations
      /\ deleted' = deleted \cup {t}
      /\ Write(t, request[r].loaded, "DISPOSED")
  BY DEF CommitDelete
<1>2. t \in Trackers
  BY <1>1 DEF TypeInv, RequestInv
<1>3. ActiveOf(t) = {}
  BY <1>1 DEF CustodyInv, Checked
<1> HIDE DEF t
<1>4. \A u \in Trackers : status'[u] = status[u] \/ status'[u] = "DISPOSED"
  BY <1>1, <1>2 DEF Write, TypeInv, TypeOK
<1>5. (\A u : ActiveOf(u)' = ActiveOf(u)) /\ OnePrimary' /\ Kept
  BY <1>1, SameViews, SameRows DEF CustodyInv
<1>6. Registered'
  BY <1>1, <1>4, <1>5, StillRegistered DEF CustodyInv
<1>7. \A u \in deleted' : ActiveOf(u)' = {}
  BY <1>1, <1>3, <1>5 DEF CustodyInv, DeletedIsFree
<1>8. DeletedIsFree' /\ Releases
  BY <1>4, <1>7 DEF DeletedIsFree, Releases
<1>9. Maps
  <2>1. ASSUME NEW u \in Trackers PROVE Custodian(u)' = Custodian(u)
    <3>1. CASE ActiveOf(u) = {}
      BY <1>5, <3>1, NoCustodian
    <3>2. CASE ActiveOf(u) # {}
      <4>1. PICK i \in ActiveOf(u) : i \in ActiveOf(u)'
        BY <1>5, <3>2
      <4> QED
        BY <1>1, <4>1, CustodianIs, CustodianIsNext
    <3> QED
      BY <3>1, <3>2
  <2>2. Custodians' = Custodians /\ Custodians[t] = "nobody"
    BY <1>2, <1>3, <2>1, NoCustodian DEF Custodians
  <2>3. Custody!Retire(t)
    BY <1>1, <2>2 DEF Custody!Retire, Custodians, Custodian
  <2> QED
    BY <1>2, <2>3 DEF Maps, Custody!Next
<1> QED
  BY <1>1, <1>5, <1>6, <1>8, <1>9, DoneChecked DEF CustodyInv

LEMMA FinishCustody ==
  ASSUME TypeInv, OneRequest, CustodyInv, Booked, Booked', Kept,
         NEW r \in Requests, CommitFinish(r)
  PROVE  CustodyInv' /\ Releases /\ Maps
<1> DEFINE q == request[r]
           old == installations[q.id]
           t == old.tracker
<1>1. /\ q.op = "finish" /\ Done(r) /\ UNCHANGED deleted
      /\ installations' = [installations EXCEPT ![q.id] = [old EXCEPT !.status = "INSTALLED"]]
      /\ Write(q.tracker, q.loaded, "INSTALLED")
  BY DEF CommitFinish
<1>2. q.id \in DOMAIN installations /\ q.tracker \in Trackers
  BY <1>1 DEF TypeInv, RequestInv
<1>3. old \in Rows
  BY <1>2 DEF TypeInv, TypeOK
<1>4. t \in Trackers /\ [old EXCEPT !.status = "INSTALLED"].type = old.type
  BY <1>3 DEF Rows
<1>5. /\ DOMAIN installations' = DOMAIN installations
      /\ \A i \in DOMAIN installations :
           /\ installations'[i].type = "PRIMARY" => installations[i].type = "PRIMARY"
           /\ installations[i].tracker # t => installations'[i] = installations[i]
  <2>1. DOMAIN installations' = DOMAIN installations
    BY <1>1 DEF TypeInv, TypeOK
  <2>2. \A i \in DOMAIN installations :
          i # q.id => installations'[i] = installations[i]
    BY <1>1 DEF TypeInv, TypeOK
  <2>3. installations'[q.id].type = old.type
    BY <1>1, <1>2, <1>4 DEF TypeInv, TypeOK
  <2> QED
    BY <2>1, <2>2, <2>3
<1> HIDE DEF t
<1>6. (\A u : ActiveOf(u)' \subseteq ActiveOf(u)) /\ OnePrimary'
  BY <1>5, Closing DEF CustodyInv
<1>7. \A u \in Trackers \ {t} : ActiveOf(u)' = ActiveOf(u)
  BY <1>5, OthersStay DEF Kept
<1>8. \A u \in Trackers : status'[u] = status[u] \/ status'[u] = "INSTALLED"
  BY <1>1, <1>2 DEF Write, TypeInv, TypeOK
<1>9. Registered' /\ Releases
  BY <1>5, <1>8, StillRegistered DEF CustodyInv, Releases
<1>10. DeletedIsFree'
  BY <1>1, <1>6 DEF CustodyInv, DeletedIsFree
<1>11. Maps
  BY <1>1, <1>4, <1>6, <1>7, ClosingMaps DEF Kept
<1> QED
  BY <1>1, <1>6, <1>9, <1>10, <1>11, DoneChecked DEF CustodyInv
LEMMA UpdateCustody ==
  ASSUME TypeInv, OneRequest, CustodyInv, Booked, Booked', Kept,
         NEW r \in Requests, CommitUpdate(r)
  PROVE  CustodyInv' /\ Releases /\ Maps
<1> DEFINE q == request[r]
           old == installations[q.id]
           row == Edited(old, q)
<1>0. PICK t : t = old.tracker
  OBVIOUS
<1>1. /\ q.op = "update" /\ Done(r) /\ UNCHANGED deleted
      /\ installations' = [installations EXCEPT ![q.id] = row]
      /\ IF Returned(q) THEN Write(q.row.tracker, q.loaded, "IN_STOCK")
                        ELSE UNCHANGED status
  BY DEF CommitUpdate
<1>2. /\ q.id \in DOMAIN installations /\ q.row = old
      /\ q.type = "PRIMARY" => PrimaryOf(old.vehicle) \subseteq {q.id}
  BY <1>1 DEF TypeInv, RequestInv, CustodyInv, Checked
<1>3. old \in Rows
  BY <1>2 DEF TypeInv, TypeOK
<1>4. t \in Trackers
  BY <1>0, <1>3 DEF Rows
<1>5. /\ row.type = q.type /\ row.tracker = old.tracker /\ row.vehicle = old.vehicle
      /\ q.new \in ClosedStatuses => row.removed
  BY <1>2 DEF Edited
<1> HIDE DEF row
<1>6. /\ DOMAIN installations' = DOMAIN installations
      /\ installations'[q.id] = row
      /\ \A i \in DOMAIN installations : i # q.id => installations'[i] = installations[i]
  BY <1>1, <1>2 DEF TypeInv, TypeOK
<1>7. /\ \A i \in DOMAIN installations : Active(i)' => Active(i)
      /\ \A u : ActiveOf(u)' \subseteq ActiveOf(u)
  BY <1>6, Closing DEF CustodyInv
<1>8. OnePrimary'
  <2> SUFFICES ASSUME NEW i \in DOMAIN installations, NEW j \in DOMAIN installations,
                      Active(i)', Active(j)',
                      installations'[i].type = "PRIMARY", installations'[j].type = "PRIMARY",
                      installations'[i].vehicle = installations'[j].vehicle
               PROVE  i = j
    BY <1>6 DEF OnePrimary
  <2>1. /\ Active(i) /\ Active(j)
        /\ installations[i].vehicle = installations[j].vehicle
    BY <1>7 DEF Kept
  <2>2. CASE i # q.id /\ j # q.id
    BY <1>6, <2>1, <2>2 DEF CustodyInv, OnePrimary
  <2>3. CASE i = q.id /\ j # q.id
    <3>1. j \in PrimaryOf(old.vehicle) /\ q.type = "PRIMARY"
      BY <1>5, <1>6, <2>1, <2>3 DEF PrimaryOf
    <3> QED
      BY <1>2, <2>3, <3>1
  <2>4. CASE i # q.id /\ j = q.id
    <3>1. i \in PrimaryOf(old.vehicle) /\ q.type = "PRIMARY"
      BY <1>5, <1>6, <2>1, <2>4 DEF PrimaryOf
    <3> QED
      BY <1>2, <2>4, <3>1
  <2> QED
    BY <2>2, <2>3, <2>4
<1>9. \A u \in Trackers \ {t} : ActiveOf(u)' = ActiveOf(u)
  BY <1>0, <1>6, OthersStay DEF Kept
<1>10. \A u \in Trackers :
         status'[u] = status[u] \/ (Returned(q) /\ u = t /\ status'[u] = "IN_STOCK")
  BY <1>0, <1>1, <1>2, <1>4 DEF Write, TypeInv, TypeOK
<1>11. Returned(q) => ActiveOf(t)' = {}
  <2> SUFFICES ASSUME Returned(q) PROVE ActiveOf(t)' = {}
    OBVIOUS
  <2>1. q.new \in ClosedStatuses /\ ActiveOf(t)' \subseteq {q.id}
    BY <1>0, <1>2, <1>7 DEF Returned, ClosedStatuses
  <2>2. installations'[q.id].removed
    BY <1>5, <1>6, <2>1
  <2>3. ASSUME NEW i \in ActiveOf(t)' PROVE ~installations'[i].removed
    BY DEF ActiveOf, Active
  <2> QED
    BY <2>1, <2>2, <2>3
<1>12. Registered'
  <2>1. \A u \in Trackers : status[u] # "none" => status'[u] # "none"
    BY <1>10
  <2> QED
    BY <1>6, <2>1, StillRegistered DEF CustodyInv
<1>13. Releases
  BY <1>10, <1>11 DEF Releases
<1>14. DeletedIsFree'
  BY <1>1, <1>7 DEF CustodyInv, DeletedIsFree
<1>15. Maps
  BY <1>1, <1>4, <1>7, <1>9, ClosingMaps DEF Kept
<1> QED
  BY <1>1, <1>8, <1>12, <1>13, <1>14, <1>15, DoneChecked DEF CustodyInv

LEMMA SetStatusCustody ==
  ASSUME TypeInv, OneRequest, CustodyInv, Booked, Booked', Kept,
         NEW r \in Requests, CommitSetStatus(r)
  PROVE  CustodyInv' /\ Releases /\ Maps
<1> DEFINE q == request[r]
<1>0. PICK t, held : t = q.tracker /\ held = q.held
  OBVIOUS
<1>1. /\ q.op = "status" /\ Done(r) /\ UNCHANGED deleted
      /\ installations' = [i \in DOMAIN installations |->
           IF i \in held
           THEN [installations[i] EXCEPT !.status = "REMOVED", !.removed = TRUE]
           ELSE installations[i]]
      /\ Write(t, q.loaded, q.new)
  BY <1>0 DEF CommitSetStatus
<1>2. /\ t \in Trackers /\ q.new \in TrackerStatuses
      /\ held = Released(t, q.new)
  BY <1>0, <1>1, InstallationsAssumption DEF TypeInv, RequestInv, CustodyInv, Checked
<1>3. /\ held \subseteq ActiveOf(t)
      /\ q.new = "IN_STOCK" => held = ActiveOf(t)
  BY <1>2 DEF Released
<1>4. ASSUME NEW i \in DOMAIN installations
      PROVE  /\ i \notin held => installations'[i] = installations[i]
             /\ i \in held => installations'[i].removed
             /\ installations'[i].type = installations[i].type
  <2>1. installations[i] \in Rows
    BY DEF TypeInv, TypeOK
  <2>2. /\ installations'[i] =
             IF i \in held
             THEN [installations[i] EXCEPT !.status = "REMOVED", !.removed = TRUE]
             ELSE installations[i]
    BY <1>1
  <2> QED
    BY <2>1, <2>2 DEF Rows
<1>5. DOMAIN installations' = DOMAIN installations
  BY <1>1
<1>6. (\A u : ActiveOf(u)' \subseteq ActiveOf(u)) /\ OnePrimary'
  BY <1>4, <1>5, Closing DEF CustodyInv
<1>7. \A i \in DOMAIN installations :
        installations[i].tracker # t => installations'[i] = installations[i]
  BY <1>3, <1>4 DEF ActiveOf
<1>8. \A u \in Trackers \ {t} : ActiveOf(u)' = ActiveOf(u)
  BY <1>5, <1>7, OthersStay DEF Kept
<1>9. \A u \in Trackers : status'[u] = status[u] \/ (u = t /\ status'[u] = q.new)
  BY <1>1, <1>2 DEF Write, TypeInv, TypeOK
<1>10. "none" \notin TrackerStatuses
  BY DEF TrackerStatuses, Installable
<1>11. Registered'
  <2>1. \A u \in Trackers : status[u] # "none" => status'[u] # "none"
    BY <1>2, <1>9, <1>10
  <2> QED
    BY <1>5, <2>1, StillRegistered DEF CustodyInv
<1>12. q.new = "IN_STOCK" => ActiveOf(t)' = {}
  <2>1. ASSUME NEW i \in ActiveOf(t)' PROVE i \notin held /\ i \in ActiveOf(t)
    <3>1. i \in ActiveOf(t) /\ i \in DOMAIN installations /\ ~installations'[i].removed
      BY <1>5, <1>6 DEF ActiveOf, Active
    <3> QED
      BY <1>4, <3>1
  <2> QED
    BY <1>3, <2>1
<1>13. Releases
  BY <1>9, <1>12 DEF Releases
<1>14. DeletedIsFree'
  BY <1>1, <1>6 DEF CustodyInv, DeletedIsFree
<1>15. Maps
  BY <1>1, <1>2, <1>6, <1>8, ClosingMaps DEF Kept
<1> QED
  BY <1>1, <1>6, <1>11, <1>13, <1>14, <1>15, DoneChecked DEF CustodyInv

\* The creation puts its tracker, free until now, on its vehicle.
LEMMA CreateCustody ==
  ASSUME TypeInv, OneRequest, CustodyInv, Booked, Booked', Kept,
         NEW r \in Requests, CommitCreate(r)
  PROVE  CustodyInv' /\ Releases /\ Maps
<1> DEFINE q == request[r]
<1>0. PICK t, v, n : t = q.tracker /\ v = q.vehicle /\ n = Len(installations) + 1
  OBVIOUS
<1>1. /\ q.op = "create" /\ Done(r) /\ UNCHANGED deleted
      /\ installations' = Append(installations,
           [tracker |-> t, vehicle |-> v, type |-> q.type,
            status |-> IF q.complete THEN "INSTALLED" ELSE "IN_PROGRESS",
            removed |-> FALSE])
      /\ Write(t, q.loaded, "INSTALLED") \/ UNCHANGED status
  BY <1>0 DEF CommitCreate
<1>2. /\ t \in Trackers /\ v \in Vehicles /\ ActiveOf(t) = {}
      /\ status[t] # "none" /\ t \notin deleted
      /\ q.type = "PRIMARY" => PrimaryOf(v) = {}
  BY <1>0, <1>1 DEF TypeInv, RequestInv, CustodyInv, Checked, Booked
<1>3. /\ DOMAIN installations' = DOMAIN installations \cup {n}
      /\ n \notin DOMAIN installations
      /\ \A i \in DOMAIN installations : installations'[i] = installations[i]
      /\ installations'[n].tracker = t /\ installations'[n].vehicle = v
      /\ installations'[n].type = q.type
      /\ installations'[n].status \in ActiveStatuses /\ ~installations'[n].removed
  <2> DEFINE row == [tracker |-> t, vehicle |-> v, type |-> q.type,
                     status |-> IF q.complete THEN "INSTALLED" ELSE "IN_PROGRESS",
                     removed |-> FALSE]
  <2>1. /\ row.tracker = t /\ row.vehicle = v /\ row.type = q.type
        /\ row.status \in ActiveStatuses /\ row.removed = FALSE
    BY DEF ActiveStatuses
  <2>2. installations' = Append(installations, row)
    BY <1>1
  <2> HIDE DEF row
  <2>3. installations \in Seq(Rows)
    BY DEF TypeInv, TypeOK
  <2>4. /\ DOMAIN installations' = DOMAIN installations \cup {n}
        /\ n \notin DOMAIN installations
        /\ \A i \in DOMAIN installations : installations'[i] = installations[i]
        /\ installations'[n] = row
    BY <1>0, <2>2, <2>3
  <2> QED
    BY <2>1, <2>4
<1>4. Active(n)' /\ \A i \in DOMAIN installations : Active(i)' = Active(i)
  BY <1>3 DEF Active
<1>5. /\ ActiveOf(t)' = {n}
      /\ \A u \in Trackers \ {t} : ActiveOf(u)' = ActiveOf(u)
  BY <1>2, <1>3, <1>4 DEF ActiveOf
<1>6. OnePrimary'
  <2>1. ASSUME NEW j \in DOMAIN installations, Active(j)', q.type = "PRIMARY",
               installations'[j].type = "PRIMARY", installations'[j].vehicle = v
        PROVE  FALSE
    BY <1>2, <1>3, <1>4, <2>1 DEF PrimaryOf
  <2>2. \A i, j \in DOMAIN installations :
          /\ Active(i)' /\ Active(j)'
          /\ installations'[i].type = "PRIMARY" /\ installations'[j].type = "PRIMARY"
          /\ installations'[i].vehicle = installations'[j].vehicle
          => i = j
    BY <1>3, <1>4 DEF CustodyInv, OnePrimary
  <2> QED
    BY <1>3, <2>1, <2>2 DEF OnePrimary
<1>7. \A u \in Trackers : status'[u] = status[u] \/ status'[u] = "INSTALLED"
  BY <1>1, <1>2 DEF Write, TypeInv, TypeOK
<1>8. Registered'
  <2>1. \A i \in DOMAIN installations : installations[i].tracker \in Trackers
    <3>1. \A i \in DOMAIN installations : installations[i] \in Rows
      BY DEF TypeInv, TypeOK
    <3> QED
      BY <3>1 DEF Rows
  <2> QED
    BY <1>2, <1>3, <1>7, <2>1 DEF CustodyInv, Registered
<1>9. Releases
  BY <1>7 DEF Releases
<1>10. DeletedIsFree'
  BY <1>1, <1>2, <1>5 DEF CustodyInv, DeletedIsFree, TypeInv, TypeOK
<1>11. Maps
  <2>1. Custodian(t) = "nobody" /\ Custodian(t)' = v
    BY <1>2, <1>3, <1>5, NoCustodian, CustodianIsNext
  <2>2. ASSUME NEW u \in Trackers \ {t} PROVE Custodian(u)' = Custodian(u)
    <3>1. CASE ActiveOf(u) = {}
      BY <1>5, <3>1, NoCustodian
    <3>2. CASE ActiveOf(u) # {}
      <4>1. PICK i \in ActiveOf(u) : i \in ActiveOf(u)'
        BY <1>5, <3>2
      <4>2. installations'[i] = installations[i]
        BY <1>3, <4>1 DEF ActiveOf
      <4> QED
        BY <4>1, <4>2, CustodianIs, CustodianIsNext
    <3> QED
      BY <3>1, <3>2
  <2>3. Custodians' = [Custodians EXCEPT ![t] = v] /\ Custodians[t] = "nobody"
    BY <1>2, <2>1, <2>2 DEF Custodians
  <2>4. Custody!Take(t, v)
    BY <1>1, <1>2, <2>3 DEF Custody!Take, Custodians, Custodian
  <2> QED
    BY <1>2, <2>4 DEF Maps, Custody!Next
<1> QED
  BY <1>1, <1>6, <1>8, <1>9, <1>10, <1>11, DoneChecked DEF CustodyInv
\* What each handler reads before it writes is what Checked asks for.
LEMMA BeginsCustody ==
  ASSUME TypeInv, OneRequest, CustodyInv, Booked, Booked', NEW r \in Requests,
         \/ \E t \in Trackers, v \in Vehicles, type \in InstallationTypes,
               complete \in BOOLEAN : BeginCreate(r, t, v, type, complete)
         \/ \E i \in DOMAIN installations :
              \/ BeginFinish(r, i)
              \/ \E type \in InstallationTypes, new \in InstallationStatuses :
                   BeginUpdate(r, i, type, new)
         \/ \E t \in Trackers :
              BeginDelete(r, t) \/ \E new \in ManualStatuses : BeginSetStatus(r, t, new)
  PROVE  CustodyInv' /\ Releases /\ Maps
<1>1. ASSUME NEW t \in Trackers, NEW v \in Vehicles, NEW type \in InstallationTypes,
             NEW complete \in BOOLEAN, BeginCreate(r, t, v, type, complete)
      PROVE  CustodyInv' /\ Releases /\ Maps
  <2>1. status[t] # "none" /\ t \notin deleted /\ (type = "PRIMARY" => PrimaryOf(v) = {})
    BY <1>1 DEF BeginCreate, InCatalogue, PrimaryUnique
  <2> QED
    BY <1>1, <2>1, BeginChecks DEF BeginCreate
<1>2. ASSUME NEW i \in DOMAIN installations, BeginFinish(r, i)
      PROVE  CustodyInv' /\ Releases /\ Maps
  BY <1>2, BeginChecks DEF BeginFinish
<1>3. ASSUME NEW i \in DOMAIN installations, NEW type \in InstallationTypes,
             NEW new \in InstallationStatuses, BeginUpdate(r, i, type, new)
      PROVE  CustodyInv' /\ Releases /\ Maps
  BY <1>3, BeginChecks DEF BeginUpdate, PrimaryUnique
<1>4. ASSUME NEW t \in Trackers, BeginDelete(r, t)
      PROVE  CustodyInv' /\ Releases /\ Maps
  BY <1>4, BeginChecks DEF BeginDelete, Free
<1>5. ASSUME NEW t \in Trackers, NEW new \in ManualStatuses, BeginSetStatus(r, t, new)
      PROVE  CustodyInv' /\ Releases /\ Maps
  BY <1>5, BeginChecks DEF BeginSetStatus
<1> QED
  BY <1>1, <1>2, <1>3, <1>4, <1>5

-----------------------------------------------------------------------------
LEMMA OneCreator == OneRequest => \E creator : Creators \subseteq {creator}
  BY InstallationsAssumption DEF OneRequest

LEMMA NextCustody ==
  OneRequest /\ TypeInv /\ Booked /\ CustodyInv /\ [Next]_vars
    => Booked' /\ CustodyInv' /\ Releases /\ Maps
<1> SUFFICES ASSUME OneRequest, TypeInv, Booked, CustodyInv, [Next]_vars
             PROVE  Booked' /\ CustodyInv' /\ Releases /\ Maps
  OBVIOUS
<1>1. CASE UNCHANGED vars
  <2>1. Kept /\ DOMAIN installations' = DOMAIN installations /\ NoCreation
    BY <1>1, StutterKeeps DEF vars, NoCreation
  <2>2. Booked'
    BY <2>1, NothingBooked
  <2>3. CustodyInv'
    BY <1>1 DEF vars, CustodyInv, Checked, Registered, OnePrimary, DeletedIsFree,
                PrimaryOf, ActiveOf, Active, Released
  <2>4. Releases
    BY <1>1 DEF vars, Releases
  <2>5. Maps
    BY <1>1, <2>2, SameMaps DEF vars
  <2> QED
    BY <2>2, <2>3, <2>4, <2>5
<1>2. CASE Next
  <2>1. Kept /\ Booked'
    BY <1>2, OneCreator, StepKeeps, StepBooks
  <2>2. CASE \E t \in Trackers : CreateTracker(t)
    BY <2>1, <2>2, CreateTrackerCustody
  <2>3. CASE \E v \in Vehicles : DeleteVehicle(v)
    BY <2>1, <2>3, DeleteVehicleCustody
  <2>4. ASSUME NEW r \in Requests,
               \/ CommitCreate(r) \/ CommitUpdate(r) \/ CommitFinish(r)
               \/ CommitSetStatus(r) \/ CommitDelete(r) \/ Rollback(r)
        PROVE  CustodyInv' /\ Releases /\ Maps
    BY <2>1, <2>4, CreateCustody, UpdateCustody, FinishCustody, SetStatusCustody,
       DeleteCustody, RollbackCustody
  <2> QED
    BY <1>2, <2>1, <2>2, <2>3, <2>4, BeginsCustody DEF Next
<1> QED
  BY <1>1, <1>2

LEMMA InitCustody ==
  Init => /\ Booked /\ CustodyInv
          /\ Custodians = [t \in Trackers |-> "nobody"] /\ deleted = {}
<1> SUFFICES ASSUME Init
             PROVE  /\ Booked /\ CustodyInv
                    /\ Custodians = [t \in Trackers |-> "nobody"] /\ deleted = {}
  OBVIOUS
<1>1. /\ installations = <<>> /\ deleted = {}
      /\ \A r \in Requests : request[r].op = "idle"
  BY DEF Init, Idle
<1>2. DOMAIN installations = {}
  BY <1>1
<1>3. \A t : ActiveOf(t) = {}
  BY <1>2 DEF ActiveOf
<1>4. Booked /\ CustodyInv
  BY <1>1, <1>2, <1>3
     DEF Booked, CustodyInv, Checked, Registered, OnePrimary, DeletedIsFree
<1> QED
  BY <1>1, <1>3, <1>4 DEF Custodians, Custodian

LEMMA AlwaysCustody ==
  ASSUME OneRequest
  PROVE  Spec => [](TypeInv /\ Booked /\ CustodyInv)
<1>1. TypeInv /\ Booked /\ CustodyInv /\ [Next]_vars
        => Booked' /\ CustodyInv'
  BY NextCustody
<1>2. Init => Booked /\ CustodyInv
  BY InitCustody
<1> QED
  BY <1>1, <1>2, AlwaysTyped, PTL DEF Spec

(* A vehicle never has two active primary trackers and a deleted tracker is  *)
(* on no vehicle, when requests come one at a time: what                     *)
(* _validate_primary_unique and tracker_has_active_assignment check stays so *)
(* through every later creation, edit of a type, reopening and status change.*)
THEOREM StockStaysConsistent ==
  ASSUME OneRequest
  PROVE  Spec => []StockIsConsistent
<1>1. CustodyInv => StockIsConsistent
  <2> SUFFICES ASSUME CustodyInv, NEW v \in Vehicles PROVE Cardinality(PrimaryOf(v)) <= 1
    BY DEF CustodyInv, StockIsConsistent, OnePrimaryPerVehicle
  <2>1. CASE PrimaryOf(v) = {}
    BY <2>1, FS_EmptySet
  <2>2. CASE PrimaryOf(v) # {}
    <3>1. PICK i \in PrimaryOf(v) : TRUE
      BY <2>2
    <3>2. PrimaryOf(v) = {i}
      BY <3>1 DEF PrimaryOf, CustodyInv, OnePrimary
    <3> QED
      BY <3>2, FS_Singleton
  <2> QED
    BY <2>1, <2>2
<1> QED
  BY <1>1, AlwaysCustody, PTL

(* The installation, tracker and vehicle services together implement         *)
(* TrackerCustody when requests come one at a time: a tracker changes        *)
(* vehicle only through the stock and is deleted only when free, and the     *)
(* three ways back to IN_STOCK all release it.                               *)
THEOREM ImplementsCustody ==
  ASSUME OneRequest
  PROVE  Spec => KeepsCustody
<1>1. Init => Custody!Init
  BY InitCustody DEF Custody!Init, Custodians, Custodian
<1>2. TypeInv /\ Booked /\ CustodyInv /\ [Next]_vars => Releases /\ Maps
  BY NextCustody
<1> QED
  BY <1>1, <1>2, AlwaysCustody, PTL
  DEF Spec, KeepsCustody, BackToStockReleases, Releases, Custody!Spec, Maps
===============================================================================
