----------------------------- MODULE DeviceHealth -----------------------------
(***************************************************************************)
(* Whether a device is online is computed from last_seen_at whenever it is *)
(* asked. The dashboard counts the devices with four queries, the list of  *)
(* trackers takes a filter, counts, fetches and computes anew; each of     *)
(* these steps reads a clock, or rows, of its own, while the worker hears  *)
(* from devices (READ COMMITTED: a query sees what is committed by then).  *)
(***************************************************************************)
EXTENDS Integers, Sequences, FiniteSets

CONSTANTS
  Devices,
  OnlineWindow, UnstableWindow, \* in ticks
  Filters,                      \* what GET /trackers?health= may be asked
  MaxClock                      \* bound of the model

HealthAssumption ==
  /\ {OnlineWindow, UnstableWindow, MaxClock} \subseteq Nat
  /\ OnlineWindow < UnstableWindow /\ MaxClock > 0

VARIABLES
  clock,
  trackers,  \* the devices registered and not deleted
  lastSeen,  \* last_seen_at, or Never
  persisted, \* trackers.health_status
  request,   \* what a request has asked and learnt
  touched    \* the devices something happened to since it began

vars == <<clock, trackers, lastSeen, persisted, request, touched>>

Never == 0
Computed == {"ONLINE", "UNSTABLE", "OFFLINE", "UNKNOWN"}
Legacy == {"HEALTHY", "WARNING", "ERROR", "CRITICAL"}

-----------------------------------------------------------------------------
(* resolve_health_status, in Python, and health_conditions, in SQL.          *)
Resolve(seen, now) ==
  CASE seen = Never -> "UNKNOWN"
    [] seen # Never /\ now - seen <= OnlineWindow -> "ONLINE"
    [] seen # Never /\ now - seen \in (OnlineWindow + 1)..UnstableWindow -> "UNSTABLE"
    [] OTHER -> "OFFLINE"

Fits(health, d, now) ==
  CASE health = "ONLINE"   -> lastSeen[d] # Never /\ lastSeen[d] >= now - OnlineWindow
    [] health = "UNSTABLE" -> /\ lastSeen[d] # Never /\ lastSeen[d] < now - OnlineWindow
                              /\ lastSeen[d] >= now - UnstableWindow
    [] health = "OFFLINE"  -> lastSeen[d] # Never /\ lastSeen[d] < now - UnstableWindow
    [] health = "UNKNOWN"  -> lastSeen[d] = Never
    [] health = "any"      -> TRUE
    [] OTHER               -> persisted[d] = health

Selected(health, now) == {d \in trackers : Fits(health, d, now)}

(* The order in which count_tracker_health asks. The first form is another.  *)
OrderReversed == <<"UNKNOWN", "OFFLINE", "UNSTABLE", "ONLINE">>
Order == <<"ONLINE", "UNSTABLE", "OFFLINE", "UNKNOWN">>

NoRequest == [kind |-> "none"]

-----------------------------------------------------------------------------
Init ==
  /\ clock = 1 /\ trackers \in SUBSET Devices
  /\ lastSeen = [d \in Devices |-> Never] /\ persisted = [d \in Devices |-> "UNKNOWN"]
  /\ request = NoRequest /\ touched = {}

Tick ==
  /\ clock < MaxClock /\ clock' = clock + 1
  /\ UNCHANGED <<trackers, lastSeen, persisted, request, touched>>

(* The worker's _sync_device: received_at may be earlier than what is there. *)
Heard(d) ==
  /\ d \in trackers
  /\ \E at \in 1..clock : lastSeen' = [lastSeen EXCEPT ![d] = at]
  /\ persisted' = [persisted EXCEPT ![d] = "ONLINE"]
  /\ touched' = touched \cup {d}
  /\ UNCHANGED <<clock, trackers, request>>

(* A tracker is registered, or deleted for good (another may have its IMEI). *)
Register(d) ==
  /\ d \notin trackers \cup touched /\ lastSeen[d] = Never
  /\ trackers' = trackers \cup {d} /\ touched' = touched \cup {d}
  /\ UNCHANGED <<clock, lastSeen, persisted, request>>

Delete(d) ==
  /\ d \in trackers
  /\ trackers' = trackers \ {d} /\ touched' = touched \cup {d}
  /\ UNCHANGED <<clock, lastSeen, persisted, request>>

(* GET /dashboard/overview: the conditions of a query take the time when     *)
(* they are built, the rows are read when the database answers.              *)
StartCount ==
  /\ request = NoRequest
  /\ request' = [kind |-> "count", since |-> clock, found |-> <<>>]
  /\ touched' = {}
  /\ UNCHANGED <<clock, trackers, lastSeen, persisted>>

Counting == request.kind = "count" /\ Len(request.found) < Len(Order)

AskCount ==
  /\ Counting /\ request.since = Never
  /\ request' = [request EXCEPT !.since = clock]
  /\ UNCHANGED <<clock, trackers, lastSeen, persisted, touched>>

AnswerCount ==
  /\ Counting /\ request.since # Never
  /\ request' = [request EXCEPT
       !.found = Append(@, Selected(Order[Len(@) + 1], request.since)),
       !.since = Never]
  /\ UNCHANGED <<clock, trackers, lastSeen, persisted, touched>>

(* GET /trackers: one page with all the devices. Both queries have the same  *)
(* conditions; the response computes the health of the rows fetched.         *)
StartList(health) ==
  /\ request = NoRequest
  /\ request' = [kind |-> "list", health |-> health, since |-> clock, stage |-> "asked",
                 total |-> 0, items |-> <<>>, shown |-> <<>>, at |-> Never]
  /\ touched' = {}
  /\ UNCHANGED <<clock, trackers, lastSeen, persisted>>

Listing(stage) == request.kind = "list" /\ request.stage = stage

CountList ==
  /\ Listing("asked")
  /\ request' = [request EXCEPT !.stage = "counted",
                                !.total = Cardinality(Selected(request.health, request.since))]
  /\ UNCHANGED <<clock, trackers, lastSeen, persisted, touched>>

FetchList ==
  /\ Listing("counted")
  /\ request' = [request EXCEPT !.stage = "fetched",
       !.items = [d \in Selected(request.health, request.since) |-> lastSeen[d]]]
  /\ UNCHANGED <<clock, trackers, lastSeen, persisted, touched>>

AnswerList ==
  /\ Listing("fetched")
  /\ request' = [request EXCEPT !.stage = "done", !.at = clock,
       !.shown = [d \in DOMAIN request.items |-> Resolve(request.items[d], clock)]]
  /\ UNCHANGED <<clock, trackers, lastSeen, persisted, touched>>

Next ==
  \/ Tick
  \/ \E d \in Devices : Heard(d) \/ Register(d) \/ Delete(d)
  \/ StartCount \/ AskCount \/ AnswerCount
  \/ \E health \in Filters : StartList(health)
  \/ CountList \/ FetchList \/ AnswerList

Spec == Init /\ [][Next]_vars
-----------------------------------------------------------------------------
TypeOK ==
  /\ clock \in 1..MaxClock /\ trackers \subseteq Devices /\ touched \subseteq Devices
  /\ lastSeen \in [Devices -> Never..clock]
  /\ persisted \in [Devices -> {"UNKNOWN", "ONLINE"}]
  /\ request.kind \in {"none", "count", "list"}

(* The dashboard: the four queries of a count take four times, and still no  *)
(* device is left out of all of them unless it was heard from, registered or *)
(* deleted while they ran: growing older it moves to a later query. That it  *)
(* was counted twice has one reason too: it grew older, or was heard from.   *)
NoneLeftOut ==
  request.kind = "count" /\ Len(request.found) = Len(Order) =>
    \A d \in trackers \ touched :
      LET counted == {i \in DOMAIN Order : d \in request.found[i]} IN
      /\ counted # {}
      /\ \A i, j \in counted : i < j => Resolve(lastSeen[d], clock) # Order[i]

(* The list: what it shows of a device is what was asked for, or that the    *)
(* device grew older while the list was made; it shows at once what SQL      *)
(* selected at once; a health that is not computed any more finds nothing;   *)
(* and the total is right unless something happened.                         *)
Older(health) ==
  CASE health = "ONLINE" -> {"UNSTABLE", "OFFLINE"}
    [] health = "UNSTABLE" -> {"OFFLINE"}
    [] OTHER -> {}

ListFits ==
  request.kind = "list" =>
    /\ request.health \in Computed =>
         \A d \in DOMAIN request.shown :
           \/ request.shown[d] = request.health
           \/ request.at > request.since /\ request.shown[d] \in Older(request.health)
    /\ request.health \in Legacy => DOMAIN request.items = {}
    /\ request.stage \in {"fetched", "done"} /\ touched = {} =>
         Cardinality(DOMAIN request.items) = request.total

HealthIsConsistent == NoneLeftOut /\ ListFits
=============================================================================
