--------------------------- MODULE BackOfficeProofs ---------------------------
(***************************************************************************)
(* Proofs about the back office: about the health of devices               *)
(* (DeviceHealth), for any devices, windows, filters and clock, under what *)
(* the settings give the constants; about the catalogue (Catalog), for any *)
(* keys and rows and any finite number of requests in progress; about the  *)
(* rows under the migrations (Migrations), for any vehicles, trackers,     *)
(* IMEIs and installations.                                                *)
(***************************************************************************)
EXTENDS DeviceHealth, FiniteSetTheorems, TLAPS

CONSTANTS Keys, Requests, MaxRows
VARIABLES rows, inProgress

Records == INSTANCE Catalog WITH request <- inProgress

CONSTANTS Vehicles, Trackers, Imeis, Assignments, CreateStatuses, ManualStatuses, None
VARIABLES version, schema, vehicles, trackerRows, assignments, customers

Schema == INSTANCE Migrations WITH trackers <- trackerRows

CountOf(since, found) == [kind |-> "count", since |-> since, found |-> found]

ListOf(health, since, stage, total, items, shown, at) ==
  [kind |-> "list", health |-> health, since |-> since, stage |-> stage,
   total |-> total, items |-> items, shown |-> shown, at |-> at]

(* What a request is. A list fetches what it has counted, then answers.      *)
RequestInv ==
  /\ request.kind = "none" => request = NoRequest
  /\ request.kind = "count" => request = CountOf(request.since, request.found)
  /\ request.kind = "list" =>
       request = ListOf(request.health, request.since, request.stage, request.total,
                        request.items, request.shown, request.at)
  /\ request.kind = "count" => request.since \in 0..clock /\ request.found \in Seq(SUBSET Devices)
  /\ request.kind = "list" => request.since \in 1..clock

TypeInv == TypeOK /\ RequestInv

(* The time of the query that has been asked, or will be no earlier.         *)
Asked == IF request.since = Never THEN clock ELSE request.since

(* A device the first k queries did not find has grown older than the last   *)
(* of them asks for; one that query i found is old enough for it.            *)
Beyond(seen, now, k) ==
  /\ k = 1 => seen = Never \/ seen < now - OnlineWindow
  /\ k = 2 => seen = Never \/ seen < now - UnstableWindow
  /\ k = 3 => seen = Never
  /\ k # 4

AtLeast(seen, now, i) ==
  /\ i = 1 => seen # Never
  /\ i = 2 => seen # Never /\ seen < now - OnlineWindow
  /\ i = 3 => seen # Never /\ seen < now - UnstableWindow
  /\ i = 4 => seen = Never

CountInv ==
  request.kind = "count" =>
    /\ Len(request.found) <= 4
    /\ \A d \in trackers \ touched :
         /\ \A i \in DOMAIN request.found :
              d \in request.found[i] => AtLeast(lastSeen[d], Asked, i)
         /\ (\A i \in DOMAIN request.found : d \notin request.found[i]) =>
              Beyond(lastSeen[d], Asked, Len(request.found))

(* What was fetched is what the conditions select of when they were built.   *)
SeenFits(health, seen, now) ==
  /\ health = "ONLINE"   => seen # Never /\ seen >= now - OnlineWindow
  /\ health = "UNSTABLE" =>
       seen # Never /\ seen < now - OnlineWindow /\ seen >= now - UnstableWindow
  /\ health = "OFFLINE"  => seen # Never /\ seen < now - UnstableWindow
  /\ health = "UNKNOWN"  => seen = Never

ListInv ==
  request.kind = "list" =>
    /\ request.stage = "counted" /\ touched = {} =>
         request.total = Cardinality(Selected(request.health, request.since))
    /\ request.stage \in {"fetched", "done"} /\ touched = {} =>
         request.total = Cardinality(DOMAIN request.items)
    /\ \A d \in DOMAIN request.items :
         request.items[d] \in Nat /\ SeenFits(request.health, request.items[d], request.since)
    /\ request.health \in Legacy => DOMAIN request.items = {}
    /\ request.stage # "done" => request.shown = <<>>
    /\ request.stage = "done" =>
         /\ request.at \in Nat /\ request.at >= request.since
         /\ request.shown = [d \in DOMAIN request.items |-> Resolve(request.items[d], request.at)]

-----------------------------------------------------------------------------
LEMMA NoneIs == NoRequest.kind = "none"
  BY DEF NoRequest

LEMMA CountIs ==
  ASSUME NEW s, NEW f
  PROVE  CountOf(s, f).kind = "count" /\ CountOf(s, f).since = s /\ CountOf(s, f).found = f
  BY DEF CountOf

LEMMA ListIs ==
  ASSUME NEW h, NEW s, NEW g, NEW t, NEW i, NEW o, NEW a
  PROVE  LET r == ListOf(h, s, g, t, i, o, a) IN
         /\ r.kind = "list" /\ r.health = h /\ r.since = s /\ r.stage = g
         /\ r.total = t /\ r.items = i /\ r.shown = o /\ r.at = a
  BY DEF ListOf

LEMMA OrderIs ==
  /\ Len(Order) = 4 /\ Order[1] = "ONLINE" /\ Order[2] = "UNSTABLE"
  /\ Order[3] = "OFFLINE" /\ Order[4] = "UNKNOWN" /\ DOMAIN Order = 1..4
  BY DEF Order

LEMMA Numbers ==
  ASSUME HealthAssumption, TypeInv
  PROVE  /\ OnlineWindow \in Nat /\ UnstableWindow \in Nat /\ OnlineWindow < UnstableWindow
         /\ clock \in Nat \ {0} /\ trackers \subseteq Devices
         /\ \A d \in Devices : lastSeen[d] \in Nat /\ lastSeen[d] <= clock
  BY DEF HealthAssumption, TypeInv, TypeOK, Never

\* What each step does to the request and to the devices it may miss.
LEMMA DevicesChange ==
  ASSUME HealthAssumption, TypeInv, NEW d \in Devices, Heard(d) \/ Register(d) \/ Delete(d)
  PROVE  /\ TypeInv' /\ UNCHANGED <<clock, request>> /\ touched' # {}
         /\ \A e \in trackers' \ touched' :
              e \in trackers \ touched /\ lastSeen'[e] = lastSeen[e]
<1>1. /\ UNCHANGED <<clock, request>> /\ touched' = touched \cup {d}
      /\ trackers' \subseteq trackers \cup {d}
  BY DEF Heard, Register, Delete
<1>2. \A e \in Devices \ {d} : lastSeen'[e] = lastSeen[e]
  BY DEF Heard, Register, Delete, TypeInv, TypeOK
<1>3. lastSeen' \in [Devices -> Never..clock] /\ persisted' \in [Devices -> {"UNKNOWN", "ONLINE"}]
  BY Numbers DEF Heard, Register, Delete, TypeInv, TypeOK, Never
<1>4. TypeOK'
  BY <1>1, <1>3 DEF TypeInv, TypeOK
<1>5. RequestInv'
  BY <1>1 DEF TypeInv, RequestInv
<1>6. \A e \in trackers' \ touched' :
        e \in trackers \ touched /\ lastSeen'[e] = lastSeen[e]
  BY <1>1, <1>2 DEF TypeInv, TypeOK
<1> QED
  BY <1>1, <1>4, <1>5, <1>6 DEF TypeInv

\* A request goes on: a clock that ticks, and the devices, are left alone.
LEMMA RequestChanges ==
  ASSUME TypeInv, UNCHANGED <<clock, trackers, lastSeen, persisted>>,
         touched' \subseteq Devices, request'.kind \in {"none", "count", "list"}, RequestInv'
  PROVE  TypeInv'
  BY DEF TypeInv, TypeOK

LEMMA CountTyped ==
  ASSUME NEW s \in Nat, s <= clock', NEW f \in Seq(SUBSET Devices), clock' \in Nat,
         request' = CountOf(s, f)
  PROVE  RequestInv'
<1>1. request'.kind = "count" /\ request'.since = s /\ request'.found = f
  BY CountIs
<1>2. s \in 0..clock'
  OBVIOUS
<1> QED
  BY <1>1, <1>2 DEF RequestInv

LEMMA CountStep ==
  ASSUME HealthAssumption, TypeInv, StartCount \/ AskCount \/ AnswerCount
  PROVE  /\ TypeInv' /\ request'.kind = "count"
         /\ UNCHANGED <<clock, trackers, lastSeen, persisted>>
         /\ \/ /\ request'.found = <<>> /\ touched' = {} /\ request'.since = clock
            \/ /\ request.kind = "count" /\ touched' = touched
               /\ \/ request.since = Never /\ request'.since = clock
                     /\ request'.found = request.found
                  \/ /\ request.since # Never /\ request'.since = Never
                     /\ Len(request.found) < 4
                     /\ request'.found = Append(request.found,
                          Selected(Order[Len(request.found) + 1], request.since))
<1>1. UNCHANGED <<clock, trackers, lastSeen, persisted>>
  BY DEF StartCount, AskCount, AnswerCount
<1>2. clock \in Nat \ {0}
  BY Numbers
<1>0. /\ clock' \in Nat /\ clock \in Nat /\ clock <= clock' /\ Never \in Nat /\ Never <= clock'
      /\ <<>> \in Seq(SUBSET Devices)
  BY <1>1, <1>2 DEF Never
<1>3. CASE StartCount
  <2>1. request' = CountOf(clock, <<>>) /\ touched' = {}
    BY <1>3 DEF StartCount, CountOf
  <2>2. RequestInv'
    BY <1>0, <2>1, CountTyped
  <2> QED
    BY <1>1, <2>1, <2>2, CountIs, RequestChanges
<1>4. CASE AskCount
  <2>1. PICK f : request = CountOf(request.since, f)
    BY <1>4 DEF AskCount, Counting, TypeInv, RequestInv
  <2>2. request.kind = "count" /\ request.found = f /\ f \in Seq(SUBSET Devices)
    BY <2>1, CountIs DEF TypeInv, RequestInv
  <2>3. request' = CountOf(clock, f)
    BY <1>4, <2>1 DEF AskCount, CountOf
  <2>4. RequestInv'
    BY <1>0, <2>2, <2>3, CountTyped
  <2>5. touched' = touched /\ touched \subseteq Devices /\ request.since = Never
    BY <1>4 DEF AskCount, TypeInv, TypeOK
  <2> QED
    BY <1>1, <2>2, <2>3, <2>4, <2>5, CountIs, RequestChanges
<1>5. CASE AnswerCount
  <2>1. PICK f, s : request = CountOf(s, f)
    BY <1>5 DEF AnswerCount, Counting, TypeInv, RequestInv
  <2>2. /\ request.kind = "count" /\ request.found = f /\ request.since = s
        /\ f \in Seq(SUBSET Devices)
    BY <2>1, CountIs DEF TypeInv, RequestInv
  <2> DEFINE more == Selected(Order[Len(f) + 1], s)
  <2>3. request' = CountOf(Never, Append(f, more))
    BY <1>5, <2>1 DEF AnswerCount, CountOf
  <2>4. more \in SUBSET Devices
    BY DEF Selected, TypeInv, TypeOK
  <2>5. Len(f) < 4 /\ s # Never /\ touched' = touched /\ touched \subseteq Devices
    BY <1>5, <2>2, OrderIs DEF AnswerCount, Counting, TypeInv, TypeOK
  <2> HIDE DEF more
  <2>6. Append(f, more) \in Seq(SUBSET Devices)
    BY <2>2, <2>4
  <2>7. RequestInv'
    BY <1>0, <2>3, <2>6, CountTyped
  <2>8. TypeInv'
    BY <1>1, <2>3, <2>5, <2>7, CountIs, RequestChanges
  <2> QED
    BY <1>1, <2>2, <2>3, <2>5, <2>8, CountIs DEF more
<1> QED
  BY <1>3, <1>4, <1>5
\* The list: asked, counted, fetched, shown.
LEMMA ListStep ==
  ASSUME HealthAssumption, TypeInv,
         \/ \E health \in Filters : StartList(health)
         \/ CountList \/ FetchList \/ AnswerList
  PROVE  /\ TypeInv' /\ UNCHANGED <<clock, trackers, lastSeen, persisted>>
         /\ request'.kind = "list"
         /\ \/ /\ request'.stage = "asked" /\ request'.items = <<>> /\ request'.shown = <<>>
            \/ /\ request.kind = "list" /\ touched' = touched
               /\ request'.health = request.health /\ request'.since = request.since
               /\ \/ /\ request'.stage = "counted" /\ request.stage = "asked"
                     /\ request'.total = Cardinality(Selected(request.health, request.since))
                     /\ request'.items = request.items /\ request'.shown = request.shown
                  \/ /\ request'.stage = "fetched" /\ request.stage = "counted"
                     /\ request'.total = request.total /\ request'.shown = request.shown
                     /\ request'.items =
                          [d \in Selected(request.health, request.since) |-> lastSeen[d]]
                  \/ /\ request'.stage = "done" /\ request.stage = "fetched"
                     /\ request'.total = request.total /\ request'.items = request.items
                     /\ request'.at = clock
                     /\ request'.shown =
                          [d \in DOMAIN request.items |-> Resolve(request.items[d], clock)]
<1>1. UNCHANGED <<clock, trackers, lastSeen, persisted>>
  BY DEF StartList, CountList, FetchList, AnswerList
<1>2. clock \in Nat \ {0} /\ clock' = clock
  BY <1>1, Numbers
<1>3. ASSUME NEW h, NEW s \in 1..clock, NEW g, NEW t, NEW i, NEW o, NEW a,
             request' = ListOf(h, s, g, t, i, o, a), touched' \subseteq Devices
      PROVE  TypeInv'
  <2>1. /\ request'.kind = "list" /\ request'.health = h /\ request'.since = s
        /\ request'.stage = g /\ request'.total = t /\ request'.items = i
        /\ request'.shown = o /\ request'.at = a
    BY <1>3, ListIs
  <2>2. RequestInv'
    BY <1>2, <1>3, <2>1 DEF RequestInv
  <2> QED
    BY <1>1, <1>3, <2>1, <2>2, RequestChanges
<1>4. ASSUME NEW health \in Filters, StartList(health)
      PROVE  /\ TypeInv' /\ request'.kind = "list"
             /\ request'.stage = "asked" /\ request'.items = <<>> /\ request'.shown = <<>>
  <2>1. /\ request' = ListOf(health, clock, "asked", 0, <<>>, <<>>, Never)
        /\ touched' \subseteq Devices
    BY <1>4 DEF StartList, ListOf
  <2>2. clock \in 1..clock
    BY <1>2
  <2>3. TypeInv'
    BY <1>3, <2>1, <2>2
  <2> QED
    BY <2>1, <2>3, ListIs
<1>5. ASSUME CountList \/ FetchList \/ AnswerList
      PROVE  \E h, s, g, t, i, o, a : request = ListOf(h, s, g, t, i, o, a)
  BY <1>5 DEF CountList, FetchList, AnswerList, Listing, TypeInv, RequestInv
<1>6. ASSUME NEW h, NEW s, NEW g, NEW t, NEW i, NEW o, NEW a,
             request = ListOf(h, s, g, t, i, o, a)
      PROVE  /\ request.kind = "list" /\ request.health = h /\ request.since = s
             /\ request.stage = g /\ request.total = t /\ request.items = i
             /\ request.shown = o /\ request.at = a /\ s \in 1..clock
  <2>1. /\ request.kind = "list" /\ request.health = h /\ request.since = s
        /\ request.stage = g /\ request.total = t /\ request.items = i
        /\ request.shown = o /\ request.at = a
    BY <1>6, ListIs
  <2> QED
    BY <2>1 DEF TypeInv, RequestInv
<1>7. CASE CountList
  <2>1. PICK h, s, g, t, i, o, a : request = ListOf(h, s, g, t, i, o, a)
    BY <1>5, <1>7
  <2> DEFINE n == Cardinality(Selected(request.health, request.since))
  <2>2. /\ request' = [request EXCEPT !.stage = "counted", !.total = n]
        /\ request.stage = "asked" /\ touched' = touched
    BY <1>7 DEF CountList, Listing
  <2> HIDE DEF n
  <2>3. request' = ListOf(h, s, "counted", n, i, o, a)
    BY <2>1, <2>2 DEF ListOf
  <2>4. touched' \subseteq Devices
    BY <2>2 DEF TypeInv, TypeOK
  <2>5. TypeInv'
    BY <1>3, <1>6, <2>1, <2>3, <2>4
  <2>6. /\ request'.kind = "list" /\ request'.health = h /\ request'.since = s
        /\ request'.stage = "counted" /\ request'.total = n /\ request'.items = i
        /\ request'.shown = o
    BY <2>3, ListIs
  <2> QED
    BY <1>1, <1>6, <2>1, <2>2, <2>5, <2>6 DEF n
<1>8. CASE FetchList
  <2>1. PICK h, s, g, t, i, o, a : request = ListOf(h, s, g, t, i, o, a)
    BY <1>5, <1>8
  <2> DEFINE n == [d \in Selected(request.health, request.since) |-> lastSeen[d]]
  <2>2. /\ request' = [request EXCEPT !.stage = "fetched", !.items = n]
        /\ request.stage = "counted" /\ touched' = touched
    BY <1>8 DEF FetchList, Listing
  <2> HIDE DEF n
  <2>3. request' = ListOf(h, s, "fetched", t, n, o, a)
    BY <2>1, <2>2 DEF ListOf
  <2>4. touched' \subseteq Devices
    BY <2>2 DEF TypeInv, TypeOK
  <2>5. TypeInv'
    BY <1>3, <1>6, <2>1, <2>3, <2>4
  <2>6. /\ request'.kind = "list" /\ request'.health = h /\ request'.since = s
        /\ request'.stage = "fetched" /\ request'.total = t /\ request'.items = n
        /\ request'.shown = o
    BY <2>3, ListIs
  <2> QED
    BY <1>1, <1>6, <2>1, <2>2, <2>5, <2>6 DEF n
<1>9. CASE AnswerList
  <2>1. PICK h, s, g, t, i, o, a : request = ListOf(h, s, g, t, i, o, a)
    BY <1>5, <1>9
  <2> DEFINE n == [d \in DOMAIN request.items |-> Resolve(request.items[d], clock)]
  <2>2. /\ request' = [request EXCEPT !.stage = "done", !.at = clock, !.shown = n]
        /\ request.stage = "fetched" /\ touched' = touched
    BY <1>9 DEF AnswerList, Listing
  <2> HIDE DEF n
  <2>3. request' = ListOf(h, s, "done", t, i, n, clock)
    BY <2>1, <2>2 DEF ListOf
  <2>4. touched' \subseteq Devices
    BY <2>2 DEF TypeInv, TypeOK
  <2>5. TypeInv'
    BY <1>3, <1>6, <2>1, <2>3, <2>4
  <2>6. /\ request'.kind = "list" /\ request'.health = h /\ request'.since = s
        /\ request'.stage = "done" /\ request'.total = t /\ request'.items = i
        /\ request'.shown = n /\ request'.at = clock
    BY <2>3, ListIs
  <2> QED
    BY <1>1, <1>6, <2>1, <2>2, <2>5, <2>6 DEF n
<1> QED
  BY <1>1, <1>4, <1>7, <1>8, <1>9

LEMMA TickStep ==
  ASSUME HealthAssumption, TypeInv, Tick
  PROVE  /\ TypeInv' /\ clock' = clock + 1
         /\ UNCHANGED <<trackers, lastSeen, persisted, request, touched>>
<1>1. /\ clock' = clock + 1 /\ clock < MaxClock
      /\ UNCHANGED <<trackers, lastSeen, persisted, request, touched>>
  BY DEF Tick
<1>2. clock \in Nat \ {0} /\ MaxClock \in Nat
  BY Numbers DEF HealthAssumption
<1>3. \A d \in Devices : lastSeen[d] \in Never..clock'
  BY <1>1, <1>2, Numbers DEF Never
<1>4. lastSeen' \in [Devices -> Never..clock']
  BY <1>1, <1>3 DEF TypeInv, TypeOK
<1>5. TypeOK'
  BY <1>1, <1>2, <1>4 DEF TypeInv, TypeOK
<1>6. RequestInv'
  BY <1>1, <1>2 DEF TypeInv, RequestInv
<1> QED
  BY <1>1, <1>5, <1>6 DEF TypeInv

LEMMA StutterStep ==
  ASSUME TypeInv, UNCHANGED vars
  PROVE  TypeInv' /\ UNCHANGED <<clock, trackers, lastSeen, persisted, request, touched>>
  BY DEF vars, TypeInv, TypeOK, RequestInv

-----------------------------------------------------------------------------
(* The dashboard's count.                                                    *)

\* As time passes a device only gets older.
LEMMA OlderYet ==
  ASSUME HealthAssumption, NEW seen \in Nat, NEW now \in Int, NEW later \in Int, now <= later,
         NEW k
  PROVE  /\ Beyond(seen, now, k) => Beyond(seen, later, k)
         /\ AtLeast(seen, now, k) => AtLeast(seen, later, k)
<1>1. OnlineWindow \in Nat /\ UnstableWindow \in Nat
  BY DEF HealthAssumption
<1>2. /\ seen < now - OnlineWindow => seen < later - OnlineWindow
      /\ seen < now - UnstableWindow => seen < later - UnstableWindow
  BY <1>1
<1>3. Beyond(seen, now, k) => Beyond(seen, later, k)
  BY <1>2 DEF Beyond
<1>4. AtLeast(seen, now, k) => AtLeast(seen, later, k)
  BY <1>2 DEF AtLeast
<1> QED
  BY <1>3, <1>4

\* The query that comes next finds a device, or it is older than that.
LEMMA NextQuery ==
  ASSUME HealthAssumption, TypeInv, NEW d \in trackers, NEW s \in Nat, NEW k \in 0..3
  PROVE  /\ d \in Selected(Order[k + 1], s) => AtLeast(lastSeen[d], s, k + 1)
         /\ /\ d \notin Selected(Order[k + 1], s)
            /\ k # 0 => Beyond(lastSeen[d], s, k)
            => Beyond(lastSeen[d], s, k + 1)
<1>1. lastSeen[d] \in Nat /\ OnlineWindow \in Nat /\ UnstableWindow \in Nat
  BY Numbers
<1>2. d \in Selected(Order[k + 1], s) <=> Fits(Order[k + 1], d, s)
  BY DEF Selected
<1>3. CASE k = 0
  <2>1. Fits("ONLINE", d, s) <=> lastSeen[d] # Never /\ lastSeen[d] >= s - OnlineWindow
    BY DEF Fits
  <2> QED
    BY <1>1, <1>2, <1>3, <2>1, OrderIs DEF Beyond, AtLeast
<1>4. CASE k = 1
  <2>1. Fits("UNSTABLE", d, s) <=> /\ lastSeen[d] # Never /\ lastSeen[d] < s - OnlineWindow
                                   /\ lastSeen[d] >= s - UnstableWindow
    BY DEF Fits
  <2> QED
    BY <1>1, <1>2, <1>4, <2>1, OrderIs DEF Beyond, AtLeast
<1>5. CASE k = 2
  <2>1. Fits("OFFLINE", d, s) <=> lastSeen[d] # Never /\ lastSeen[d] < s - UnstableWindow
    BY DEF Fits
  <2> QED
    BY <1>1, <1>2, <1>5, <2>1, OrderIs DEF Beyond, AtLeast
<1>6. CASE k = 3
  <2>1. Fits("UNKNOWN", d, s) <=> lastSeen[d] = Never
    BY DEF Fits
  <2> QED
    BY <1>1, <1>2, <1>6, <2>1, OrderIs DEF Beyond, AtLeast
<1> QED
  BY <1>3, <1>4, <1>5, <1>6

\* Nothing was asked: the devices not touched only grew older.
LEMMA CountWaits ==
  ASSUME HealthAssumption, TypeInv, CountInv,
         request'.kind = request.kind, request'.found = request.found,
         Asked <= Asked', Asked \in Int, Asked' \in Int,
         \A e \in trackers' \ touched' :
           e \in trackers \ touched /\ lastSeen'[e] = lastSeen[e]
  PROVE  CountInv'
<1> SUFFICES ASSUME request.kind = "count", NEW d \in trackers' \ touched'
             PROVE  /\ Len(request.found) <= 4
                    /\ \A i \in DOMAIN request.found :
                         d \in request.found[i] => AtLeast(lastSeen'[d], Asked', i)
                    /\ (\A i \in DOMAIN request.found : d \notin request.found[i]) =>
                         Beyond(lastSeen'[d], Asked', Len(request.found))
  BY DEF CountInv
<1>1. d \in trackers \ touched /\ lastSeen'[d] = lastSeen[d] /\ lastSeen[d] \in Nat
  BY Numbers
<1>2. /\ Len(request.found) <= 4
      /\ \A i \in DOMAIN request.found :
           d \in request.found[i] => AtLeast(lastSeen[d], Asked, i)
      /\ (\A i \in DOMAIN request.found : d \notin request.found[i]) =>
           Beyond(lastSeen[d], Asked, Len(request.found))
  BY <1>1 DEF CountInv
<1>3. \A k : /\ Beyond(lastSeen[d], Asked, k) => Beyond(lastSeen[d], Asked', k)
             /\ AtLeast(lastSeen[d], Asked, k) => AtLeast(lastSeen[d], Asked', k)
  BY <1>1, OlderYet
<1> QED
  BY <1>1, <1>2, <1>3
\* When the next query is, or was, asked.
LEMMA AskedIs ==
  ASSUME HealthAssumption, TypeInv, request.kind = "count"
  PROVE  /\ request.found \in Seq(SUBSET Devices) /\ request.since \in Nat
         /\ Asked \in Nat /\ Asked <= clock
BY Numbers DEF TypeInv, RequestInv, Asked

\* A count starts with nothing found.
LEMMA CountStarts ==
  ASSUME request'.found = <<>>
  PROVE  CountInv'
<1>1. Len(<<>>) = 0 /\ DOMAIN <<>> = {}
  OBVIOUS
<1>2. \A seen, now : Beyond(seen, now, 0)
  BY DEF Beyond
<1> QED
  BY <1>1, <1>2 DEF CountInv

\* A query is answered: what it found is found, what it missed is older.
LEMMA CountAnswers ==
  ASSUME HealthAssumption, TypeInv, CountInv, request.kind = "count",
         request.since # Never, Len(request.found) < 4,
         UNCHANGED <<clock, trackers, lastSeen, touched>>,
         request'.kind = "count", request'.since = Never,
         request'.found = Append(request.found,
                            Selected(Order[Len(request.found) + 1], request.since))
  PROVE  CountInv'
<1> DEFINE f == request.found
           s == request.since
           m == Selected(Order[Len(f) + 1], s)
           n == Len(f)
<1>1. f \in Seq(SUBSET Devices) /\ s \in Nat /\ s <= clock
  BY AskedIs, Numbers DEF TypeInv, RequestInv
<1>2. m \in SUBSET Devices
  BY DEF Selected, TypeInv, TypeOK
<1>3. Asked = s /\ Asked' = clock
  BY DEF Asked
<1>4. \A d \in trackers \ touched :
        /\ \A i \in DOMAIN f : d \in f[i] => AtLeast(lastSeen[d], s, i)
        /\ (\A i \in DOMAIN f : d \notin f[i]) => Beyond(lastSeen[d], s, n)
  BY <1>3 DEF CountInv
<1>5. n \in 0..3
  <2>1. n < 4
    OBVIOUS
  <2>2. n \in Nat
    <3>1. f \in Seq(SUBSET Devices)
      BY <1>1
    <3> HIDE DEF f
    <3> QED
      BY <3>1
  <2> HIDE DEF n
  <2> QED
    BY <2>1, <2>2
<1>6. \A d \in trackers : /\ d \in m => AtLeast(lastSeen[d], s, n + 1)
                          /\ /\ d \notin m
                             /\ n # 0 => Beyond(lastSeen[d], s, n)
                             => Beyond(lastSeen[d], s, n + 1)
  BY <1>1, <1>5, NextQuery
<1>7. request'.found = Append(f, m)
  OBVIOUS
<1> HIDE DEF f, m, s
<1>8. /\ Len(request'.found) = n + 1 /\ DOMAIN request'.found = 1..(n + 1) /\ DOMAIN f = 1..n
      /\ request'.found[n + 1] = m /\ \A i \in 1..n : request'.found[i] = f[i]
  BY <1>1, <1>2, <1>7
<1> HIDE DEF n
<1>9. ASSUME NEW d \in trackers \ touched
      PROVE  /\ \A i \in DOMAIN request'.found :
                  d \in request'.found[i] => AtLeast(lastSeen[d], clock, i)
             /\ (\A i \in DOMAIN request'.found : d \notin request'.found[i]) =>
                  Beyond(lastSeen[d], clock, n + 1)
  <2>1. lastSeen[d] \in Nat /\ clock \in Nat
    BY Numbers
  <2>2. \A k : /\ Beyond(lastSeen[d], s, k) => Beyond(lastSeen[d], clock, k)
               /\ AtLeast(lastSeen[d], s, k) => AtLeast(lastSeen[d], clock, k)
    BY <1>1, <2>1, OlderYet
  <2>3. ASSUME NEW i \in DOMAIN request'.found, d \in request'.found[i]
        PROVE  AtLeast(lastSeen[d], s, i)
    <3>1. i \in 1..n \/ i = n + 1
      BY <1>5, <1>8
    <3> QED
      BY <1>4, <1>6, <1>8, <2>3, <3>1
  <2>4. ASSUME \A i \in DOMAIN request'.found : d \notin request'.found[i]
        PROVE  Beyond(lastSeen[d], s, n + 1)
    <3>1. n + 1 \in 1..(n + 1) /\ \A i \in 1..n : i \in 1..(n + 1)
      BY <1>5
    <3>2. d \notin m /\ \A i \in DOMAIN f : d \notin f[i]
      BY <1>8, <2>4, <3>1
    <3> QED
      BY <1>4, <1>6, <3>2
  <2> QED
    BY <2>2, <2>3, <2>4
<1>10. n + 1 <= 4
  BY <1>5
<1> QED
  BY <1>3, <1>8, <1>9, <1>10 DEF CountInv

\* Every step keeps what a count knows.
LEMMA CountKeeps ==
  ASSUME HealthAssumption, TypeInv, CountInv, [Next]_vars
  PROVE  CountInv'
<1> SUFFICES ASSUME request'.kind = "count"
             PROVE  CountInv'
  BY DEF CountInv
<1>1. ASSUME request' = request, clock' \in Nat, clock <= clock', request.kind = "count",
             \A e \in trackers' \ touched' :
               e \in trackers \ touched /\ lastSeen'[e] = lastSeen[e]
      PROVE  CountInv'
  <2>1. Asked \in Nat /\ request.since \in Nat /\ clock \in Nat
    BY <1>1, AskedIs, Numbers
  <2>2. Asked' \in Nat /\ Asked <= Asked'
    BY <1>1, <2>1 DEF Asked
  <2> QED
    BY <1>1, <2>1, <2>2, CountWaits
<1>2. clock \in Nat
  BY Numbers
<1>3. CASE Tick
  BY <1>1, <1>2, <1>3, TickStep
<1>4. ASSUME NEW d \in Devices, Heard(d) \/ Register(d) \/ Delete(d)
      PROVE  CountInv'
  BY <1>1, <1>2, <1>4, DevicesChange
<1>5. CASE UNCHANGED vars
  BY <1>1, <1>2, <1>5, StutterStep
<1>6. CASE StartCount \/ AskCount \/ AnswerCount
  <2>1. \/ request'.found = <<>>
        \/ /\ request.kind = "count" /\ touched' = touched /\ request.since = Never
           /\ request'.since = clock /\ request'.found = request.found
        \/ /\ request.kind = "count" /\ touched' = touched
           /\ request.since # Never /\ request'.since = Never /\ Len(request.found) < 4
           /\ request'.found = Append(request.found,
                Selected(Order[Len(request.found) + 1], request.since))
    BY <1>6, CountStep
  <2>2. UNCHANGED <<clock, trackers, lastSeen, persisted>>
    BY <1>6, CountStep
  <2>3. CASE request'.found = <<>>
    BY <2>3, CountStarts
  <2>4. CASE /\ request.kind = "count" /\ touched' = touched /\ request.since = Never
             /\ request'.since = clock /\ request'.found = request.found
    <3>1. Asked = clock /\ Asked' = clock
      BY <2>2, <2>4 DEF Asked
    <3>2. \A e \in trackers' \ touched' :
            e \in trackers \ touched /\ lastSeen'[e] = lastSeen[e]
      BY <2>2, <2>4
    <3>3. Asked \in Int /\ Asked' \in Int /\ Asked <= Asked'
      BY <1>2, <3>1
    <3> QED
      BY <2>4, <3>2, <3>3, CountWaits
  <2>5. CASE /\ request.kind = "count" /\ touched' = touched
             /\ request.since # Never /\ request'.since = Never /\ Len(request.found) < 4
             /\ request'.found = Append(request.found,
                  Selected(Order[Len(request.found) + 1], request.since))
    BY <2>2, <2>5, CountAnswers
  <2> QED
    BY <2>1, <2>3, <2>4, <2>5
<1>7. CASE (\E health \in Filters : StartList(health)) \/ CountList \/ FetchList \/ AnswerList
  <2>1. request'.kind = "list"
    BY <1>7, ListStep
  <2> QED
    BY <2>1
<1> QED
  BY <1>3, <1>4, <1>5, <1>6, <1>7 DEF Next

-----------------------------------------------------------------------------
(* The list of trackers.                                                     *)

\* What the conditions select fits what was asked; a legacy health nothing.
LEMMA WhatIsSelected ==
  ASSUME HealthAssumption, TypeInv, NEW health, NEW now \in Nat,
         NEW d \in Selected(health, now)
  PROVE  /\ lastSeen[d] \in Nat /\ SeenFits(health, lastSeen[d], now)
         /\ health \notin Legacy
<1>1. d \in Devices /\ Fits(health, d, now) /\ lastSeen[d] \in Nat
  BY Numbers DEF Selected
<1>2. SeenFits(health, lastSeen[d], now)
  <2>1. health = "ONLINE" => lastSeen[d] # Never /\ lastSeen[d] >= now - OnlineWindow
    BY <1>1 DEF Fits
  <2>2. health = "UNSTABLE" => /\ lastSeen[d] # Never /\ lastSeen[d] < now - OnlineWindow
                               /\ lastSeen[d] >= now - UnstableWindow
    BY <1>1 DEF Fits
  <2>3. health = "OFFLINE" => lastSeen[d] # Never /\ lastSeen[d] < now - UnstableWindow
    BY <1>1 DEF Fits
  <2>4. health = "UNKNOWN" => lastSeen[d] = Never
    BY <1>1 DEF Fits
  <2> QED
    BY <2>1, <2>2, <2>3, <2>4 DEF SeenFits
<1>3. ASSUME health \in Legacy
      PROVE  FALSE
  <2>1. persisted[d] = health
    BY <1>1, <1>3 DEF Fits, Legacy
  <2>2. persisted[d] \in {"UNKNOWN", "ONLINE"}
    BY <1>1 DEF TypeInv, TypeOK
  <2> QED
    BY <1>3, <2>1, <2>2 DEF Legacy
<1> QED
  BY <1>1, <1>2, <1>3

\* Every step keeps what a list knows.
LEMMA ListKeeps ==
  ASSUME HealthAssumption, TypeInv, ListInv, [Next]_vars
  PROVE  ListInv'
<1> SUFFICES ASSUME request'.kind = "list"
             PROVE  ListInv'
  BY DEF ListInv
<1>1. clock \in Nat
  BY Numbers
<1>2. CASE Tick \/ UNCHANGED vars
  <2>1. UNCHANGED <<trackers, lastSeen, persisted, request, touched>>
    BY <1>2, TickStep, StutterStep
  <2>2. Selected(request.health, request.since)' = Selected(request.health, request.since)
    BY <2>1 DEF Selected, Fits
  <2> QED
    BY <2>1, <2>2 DEF ListInv
<1>3. ASSUME NEW d \in Devices, Heard(d) \/ Register(d) \/ Delete(d)
      PROVE  ListInv'
  <2>1. request' = request /\ touched' # {}
    BY <1>3, DevicesChange
  <2> QED
    BY <2>1 DEF ListInv
<1>4. CASE StartCount \/ AskCount \/ AnswerCount
  <2>1. request'.kind = "count"
    BY <1>4, CountStep
  <2> QED
    BY <2>1
<1>5. CASE (\E health \in Filters : StartList(health)) \/ CountList \/ FetchList \/ AnswerList
  <2>1. /\ UNCHANGED <<clock, trackers, lastSeen, persisted>>
        /\ \/ /\ request'.stage = "asked" /\ request'.items = <<>> /\ request'.shown = <<>>
           \/ /\ request.kind = "list" /\ touched' = touched
              /\ request'.health = request.health /\ request'.since = request.since
              /\ \/ /\ request'.stage = "counted" /\ request.stage = "asked"
                    /\ request'.total = Cardinality(Selected(request.health, request.since))
                    /\ request'.items = request.items /\ request'.shown = request.shown
                 \/ /\ request'.stage = "fetched" /\ request.stage = "counted"
                    /\ request'.total = request.total /\ request'.shown = request.shown
                    /\ request'.items =
                         [d \in Selected(request.health, request.since) |-> lastSeen[d]]
                 \/ /\ request'.stage = "done" /\ request.stage = "fetched"
                    /\ request'.total = request.total /\ request'.items = request.items
                    /\ request'.at = clock
                    /\ request'.shown =
                         [d \in DOMAIN request.items |-> Resolve(request.items[d], clock)]
    BY <1>5, ListStep
  <2>2. DOMAIN <<>> = {}
    OBVIOUS
  <2>3. CASE request'.stage = "asked" /\ request'.items = <<>> /\ request'.shown = <<>>
    BY <2>2, <2>3 DEF ListInv
  <2>4. Selected(request.health, request.since)' = Selected(request'.health, request'.since)
    BY <2>1 DEF Selected, Fits
  <2>5. CASE /\ request.kind = "list" /\ touched' = touched
             /\ request'.health = request.health /\ request'.since = request.since
             /\ request'.stage = "counted" /\ request.stage = "asked"
             /\ request'.total = Cardinality(Selected(request.health, request.since))
             /\ request'.items = request.items /\ request'.shown = request.shown
    BY <2>4, <2>5 DEF ListInv
  <2>6. CASE /\ request.kind = "list" /\ touched' = touched
             /\ request'.health = request.health /\ request'.since = request.since
             /\ request'.stage = "fetched" /\ request.stage = "counted"
             /\ request'.total = request.total /\ request'.shown = request.shown
             /\ request'.items =
                  [d \in Selected(request.health, request.since) |-> lastSeen[d]]
    <3>1. DOMAIN request'.items = Selected(request.health, request.since)
      BY <2>6
    <3>2. request.since \in Nat
      BY <1>1, <2>6 DEF TypeInv, RequestInv
    <3>3. \A d \in DOMAIN request'.items :
            /\ request'.items[d] \in Nat
            /\ SeenFits(request.health, request'.items[d], request.since)
            /\ request.health \notin Legacy
      BY <2>6, <3>1, <3>2, WhatIsSelected
    <3>4. touched = {} => request.total = Cardinality(Selected(request.health, request.since))
      BY <2>6 DEF ListInv
    <3>5. request'.shown = <<>>
      BY <2>6 DEF ListInv
    <3> QED
      BY <2>6, <3>1, <3>3, <3>4, <3>5 DEF ListInv
  <2>7. CASE /\ request.kind = "list" /\ touched' = touched
             /\ request'.health = request.health /\ request'.since = request.since
             /\ request'.stage = "done" /\ request.stage = "fetched"
             /\ request'.total = request.total /\ request'.items = request.items
             /\ request'.at = clock
             /\ request'.shown =
                  [d \in DOMAIN request.items |-> Resolve(request.items[d], clock)]
    <3>1. clock >= request.since
      BY <1>1, <2>7 DEF TypeInv, RequestInv
    <3>2. \A seen, now : Resolve(seen, now)' = Resolve(seen, now)
      BY DEF Resolve
    <3> QED
      BY <1>1, <2>7, <3>1 DEF ListInv
  <2> QED
    BY <2>1, <2>3, <2>5, <2>6, <2>7
<1> QED
  BY <1>2, <1>3, <1>4, <1>5 DEF Next

-----------------------------------------------------------------------------
(* What the health of a device is, and becomes.                              *)
LEMMA HealthIs ==
  ASSUME HealthAssumption, NEW seen \in Nat, NEW now \in Nat
  PROVE  /\ seen = Never => Resolve(seen, now) = "UNKNOWN"
         /\ seen # Never /\ seen >= now - OnlineWindow => Resolve(seen, now) = "ONLINE"
         /\ seen # Never /\ seen < now - OnlineWindow /\ seen >= now - UnstableWindow =>
              Resolve(seen, now) = "UNSTABLE"
         /\ seen # Never /\ seen < now - UnstableWindow => Resolve(seen, now) = "OFFLINE"
<1>1. OnlineWindow \in Nat /\ UnstableWindow \in Nat /\ OnlineWindow < UnstableWindow
  BY DEF HealthAssumption
<1>2. CASE seen = Never
  BY <1>2 DEF Resolve
<1>3. CASE seen # Never /\ seen >= now - OnlineWindow
  <2>1. now - seen <= OnlineWindow /\ ~ (seen < now - OnlineWindow)
    BY <1>1, <1>3
  <2>2. ~ (seen < now - UnstableWindow)
    BY <1>1, <1>3
  <2>3. now - seen \notin (OnlineWindow + 1)..UnstableWindow
    BY <1>1, <2>1
  <2> QED
    BY <1>3, <2>1, <2>2, <2>3 DEF Resolve
<1>4. CASE seen # Never /\ seen < now - OnlineWindow /\ seen >= now - UnstableWindow
  <2>1. /\ ~ (now - seen <= OnlineWindow) /\ ~ (seen >= now - OnlineWindow)
        /\ ~ (seen < now - UnstableWindow)
    BY <1>1, <1>4
  <2>2. now - seen \in (OnlineWindow + 1)..UnstableWindow
    BY <1>1, <1>4
  <2> QED
    BY <1>4, <2>1, <2>2 DEF Resolve
<1>5. CASE seen # Never /\ seen < now - UnstableWindow
  <2>1. /\ ~ (now - seen <= OnlineWindow) /\ ~ (seen >= now - OnlineWindow)
        /\ ~ (seen >= now - UnstableWindow)
    BY <1>1, <1>5
  <2>2. now - seen \notin (OnlineWindow + 1)..UnstableWindow
    BY <1>1, <1>5
  <2> QED
    BY <1>5, <2>1, <2>2 DEF Resolve
<1>6. seen >= now - OnlineWindow \/ seen < now - OnlineWindow
  BY <1>1
<1>7. seen >= now - UnstableWindow \/ seen < now - UnstableWindow
  BY <1>1
<1> QED
  BY <1>2, <1>3, <1>4, <1>5, <1>6, <1>7

\* A device that fitted what was asked fits it still, or has grown older.
LEMMA ShownFits ==
  ASSUME HealthAssumption, NEW health \in Computed, NEW seen \in Nat,
         NEW since \in Nat, NEW at \in Nat, since <= at, SeenFits(health, seen, since)
  PROVE  \/ Resolve(seen, at) = health
         \/ at > since /\ Resolve(seen, at) \in Older(health)
<1>1. OnlineWindow \in Nat /\ UnstableWindow \in Nat /\ OnlineWindow < UnstableWindow
  BY DEF HealthAssumption
<1>2. health \in {"ONLINE", "UNSTABLE", "OFFLINE", "UNKNOWN"}
  BY DEF Computed
<1>3. /\ seen < since - OnlineWindow => seen < at - OnlineWindow
      /\ seen < since - UnstableWindow => seen < at - UnstableWindow
      /\ at = since \/ at > since
      /\ seen >= at - OnlineWindow \/ seen < at - OnlineWindow
      /\ seen >= at - UnstableWindow \/ seen < at - UnstableWindow
  BY <1>1
<1>4. CASE health = "ONLINE"
  <2>1. seen # Never /\ seen >= since - OnlineWindow
    BY <1>4 DEF SeenFits
  <2>2. Older(health) = {"UNSTABLE", "OFFLINE"}
    BY <1>4 DEF Older
  <2>3. CASE at = since
    BY <1>4, <2>1, <2>3, HealthIs
  <2>4. CASE at > since
    <3>1. Resolve(seen, at) \in {"ONLINE", "UNSTABLE", "OFFLINE"}
      BY <1>3, <2>1, HealthIs
    <3> QED
      BY <1>4, <2>2, <2>4, <3>1
  <2> QED
    BY <1>3, <2>3, <2>4
<1>5. CASE health = "UNSTABLE"
  <2>1. seen # Never /\ seen < since - OnlineWindow /\ seen >= since - UnstableWindow
    BY <1>5 DEF SeenFits
  <2>2. Older(health) = {"OFFLINE"}
    BY <1>5 DEF Older
  <2>3. CASE at = since
    BY <1>5, <2>1, <2>3, HealthIs
  <2>4. CASE at > since
    <3>1. Resolve(seen, at) \in {"UNSTABLE", "OFFLINE"}
      BY <1>3, <2>1, HealthIs
    <3> QED
      BY <1>5, <2>2, <2>4, <3>1
  <2> QED
    BY <1>3, <2>3, <2>4
<1>6. CASE health = "OFFLINE"
  <2>1. seen # Never /\ seen < since - UnstableWindow
    BY <1>6 DEF SeenFits
  <2> QED
    BY <1>3, <1>6, <2>1, HealthIs
<1>7. CASE health = "UNKNOWN"
  <2>1. seen = Never
    BY <1>7 DEF SeenFits
  <2> QED
    BY <1>7, <2>1, HealthIs
<1> QED
  BY <1>2, <1>4, <1>5, <1>6, <1>7

\* What a count, and a list, know says what they promise.
LEMMA CountSays ==
  ASSUME HealthAssumption, TypeInv, CountInv
  PROVE  NoneLeftOut
<1> SUFFICES ASSUME request.kind = "count", Len(request.found) = Len(Order),
                    NEW d \in trackers \ touched
             PROVE  LET counted == {i \in DOMAIN Order : d \in request.found[i]} IN
                    /\ counted # {}
                    /\ \A i, j \in counted : i < j => Resolve(lastSeen[d], clock) # Order[i]
  BY DEF NoneLeftOut
<1> DEFINE f == request.found
<1>1. f \in Seq(SUBSET Devices) /\ Len(f) = 4
  BY AskedIs, OrderIs
<1>2. DOMAIN f = DOMAIN Order /\ DOMAIN Order = 1..4
  <2> HIDE DEF f
  <2> QED
    BY <1>1, OrderIs
<1>3. lastSeen[d] \in Nat /\ clock \in Nat /\ Asked \in Nat /\ Asked <= clock
  BY Numbers, AskedIs
<1>4. (\A i \in DOMAIN f : d \notin f[i]) => Beyond(lastSeen[d], Asked, 4)
  BY <1>1 DEF CountInv
<1>5. ~ Beyond(lastSeen[d], Asked, 4)
  BY DEF Beyond
<1>6. \E i \in DOMAIN Order : d \in f[i]
  BY <1>2, <1>4, <1>5
<1>7. ASSUME NEW i \in DOMAIN Order, NEW j \in DOMAIN Order, d \in f[j], i < j
      PROVE  Resolve(lastSeen[d], clock) # Order[i]
  <2>1. AtLeast(lastSeen[d], Asked, j)
    BY <1>2, <1>7 DEF CountInv
  <2>2. AtLeast(lastSeen[d], clock, j)
    BY <1>3, <2>1, OlderYet
  <2>3. \/ j = 2 /\ i = 1
        \/ j = 3 /\ i \in {1, 2}
        \/ j = 4 /\ i \in {1, 2, 3}
    BY <1>2, <1>7
  <2>4. OnlineWindow \in Nat /\ UnstableWindow \in Nat
    BY Numbers
  <2>5. CASE j = 2 /\ i = 1
    <3>1. lastSeen[d] # Never /\ lastSeen[d] < clock - OnlineWindow
      BY <2>2, <2>5 DEF AtLeast
    <3>2. Resolve(lastSeen[d], clock) \in {"UNSTABLE", "OFFLINE"}
      BY <1>3, <2>4, <3>1, HealthIs
    <3> QED
      BY <2>5, <3>2, OrderIs
  <2>6. CASE j = 3 /\ i \in {1, 2}
    <3>1. lastSeen[d] # Never /\ lastSeen[d] < clock - UnstableWindow
      BY <2>2, <2>6 DEF AtLeast
    <3>2. Resolve(lastSeen[d], clock) = "OFFLINE"
      BY <1>3, <3>1, HealthIs
    <3> QED
      BY <2>6, <3>2, OrderIs
  <2>7. CASE j = 4 /\ i \in {1, 2, 3}
    <3>1. lastSeen[d] = Never
      BY <2>2, <2>7 DEF AtLeast
    <3>2. Resolve(lastSeen[d], clock) = "UNKNOWN"
      BY <1>3, <3>1, HealthIs
    <3> QED
      BY <2>7, <3>2, OrderIs
  <2> QED
    BY <2>3, <2>5, <2>6, <2>7
<1> QED
  BY <1>6, <1>7

LEMMA ListSays ==
  ASSUME HealthAssumption, TypeInv, ListInv
  PROVE  ListFits
<1> SUFFICES ASSUME request.kind = "list"
             PROVE  ListFits
  BY DEF ListFits
<1>1. ASSUME request.health \in Computed, NEW d \in DOMAIN request.shown
      PROVE  \/ request.shown[d] = request.health
             \/ request.at > request.since /\ request.shown[d] \in Older(request.health)
  <2>1. DOMAIN <<>> = {}
    OBVIOUS
  <2>2. request.stage = "done"
    BY <1>1, <2>1 DEF ListInv
  <2>3. /\ request.at \in Nat /\ request.at >= request.since
        /\ request.shown = [e \in DOMAIN request.items |-> Resolve(request.items[e], request.at)]
    BY <2>2 DEF ListInv
  <2>4. d \in DOMAIN request.items /\ request.shown[d] = Resolve(request.items[d], request.at)
    BY <1>1, <2>3
  <2>5. /\ request.items[d] \in Nat
        /\ SeenFits(request.health, request.items[d], request.since)
    BY <2>4 DEF ListInv
  <2>6. request.since \in Nat
    BY Numbers DEF TypeInv, RequestInv
  <2> QED
    BY <1>1, <2>3, <2>4, <2>5, <2>6, ShownFits
<1>2. request.health \in Legacy => DOMAIN request.items = {}
  BY DEF ListInv
<1>3. request.stage \in {"fetched", "done"} /\ touched = {} =>
        Cardinality(DOMAIN request.items) = request.total
  BY DEF ListInv
<1> QED
  BY <1>1, <1>2, <1>3 DEF ListFits

-----------------------------------------------------------------------------
LEMMA Starts ==
  ASSUME HealthAssumption, Init
  PROVE  TypeInv /\ CountInv /\ ListInv
<1>1. request = NoRequest /\ request.kind = "none"
  BY NoneIs DEF Init
<1>2. TypeOK
  <2>1. MaxClock \in Nat /\ MaxClock > 0
    BY DEF HealthAssumption
  <2>2. 1 \in 1..MaxClock /\ 0 \in 0..1
    BY <2>1
  <2> QED
    BY <1>1, <2>2 DEF Init, TypeOK, Never
<1>3. RequestInv /\ CountInv /\ ListInv
  BY <1>1 DEF RequestInv, CountInv, ListInv
<1> QED
  BY <1>2, <1>3 DEF TypeInv

LEMMA TypeKeeps ==
  ASSUME HealthAssumption, TypeInv, [Next]_vars
  PROVE  TypeInv'
BY TickStep, DevicesChange, CountStep, ListStep, StutterStep DEF Next

\* Type correctness: the time, last_seen_at and the request stay what they are.
THEOREM TypeCorrect ==
  ASSUME HealthAssumption
  PROVE  Spec => []TypeOK
<1>1. Init => TypeInv
  BY Starts
<1>2. TypeInv /\ [Next]_vars => TypeInv'
  BY TypeKeeps
<1>3. TypeInv => TypeOK
  BY DEF TypeInv
<1> QED
  BY <1>1, <1>2, <1>3, PTL DEF Spec

\* The dashboard: no device that nothing happened to is left out of all the
\* queries of a count, however the clock runs between them, and one is counted
\* twice only because it grew older (NoneLeftOut); count_tracker_health.
THEOREM CountIsComplete ==
  ASSUME HealthAssumption
  PROVE  Spec => []NoneLeftOut
<1>1. Init => TypeInv /\ CountInv
  BY Starts
<1>2. TypeInv /\ CountInv /\ [Next]_vars => (TypeInv /\ CountInv)'
  BY TypeKeeps, CountKeeps
<1>3. TypeInv /\ CountInv => NoneLeftOut
  BY CountSays
<1> QED
  BY <1>1, <1>2, <1>3, PTL DEF Spec

\* The list of trackers shows what was asked for, or a device that grew older
\* in between, and its total is right unless something happened (ListFits).
THEOREM ListIsRight ==
  ASSUME HealthAssumption
  PROVE  Spec => []ListFits
<1>1. Init => TypeInv /\ ListInv
  BY Starts
<1>2. TypeInv /\ ListInv /\ [Next]_vars => (TypeInv /\ ListInv)'
  BY TypeKeeps, ListKeeps
<1>3. TypeInv /\ ListInv => ListFits
  BY ListSays
<1> QED
  BY <1>1, <1>2, <1>3, PTL DEF Spec

\* Both: what the back office shows of the health of devices is consistent.
THEOREM HealthHolds ==
  ASSUME HealthAssumption
  PROVE  Spec => []HealthIsConsistent
<1>1. NoneLeftOut /\ ListFits => HealthIsConsistent
  BY DEF HealthIsConsistent
<1> QED
  BY <1>1, CountIsComplete, ListIsRight, PTL

-----------------------------------------------------------------------------
(* The catalogue.                                                            *)
(* What the rows and the requests may be.                                    *)
Rows    == [kind : Records!Kinds, key : Keys, active : BOOLEAN, deleted : BOOLEAN]
Creates == [op : {"create"}, kind : Records!Kinds, key : Keys]
Updates == [op : {"update"}, id : Nat, kind : Records!Kinds, key : Keys, loaded : Keys]
Changes == [op : {"status"}, id : Nat, new : BOOLEAN, loaded : BOOLEAN]
Deletes == [op : {"delete"}, id : Nat, loaded : BOOLEAN]
Forms   == {Records!Idle} \cup Creates \cup Updates \cup Changes \cup Deletes

(* A request is about a row that exists, of the kind it was.                 *)
FormInv ==
  /\ inProgress \in [Requests -> Forms]
  /\ \A r \in Requests :
       /\ inProgress[r].op \in {"update", "status", "delete"} => inProgress[r].id \in DOMAIN rows
       /\ inProgress[r].op = "update" => inProgress[r].kind = rows[inProgress[r].id].kind

RecordTypes == Records!TypeOK /\ FormInv

(* The requests in progress that found a key free and are about to take it.  *)
Takers(kind, key) ==
  {r \in Requests :
     \/ inProgress[r].op = "create" /\ inProgress[r].kind = kind /\ inProgress[r].key = key
     \/ /\ inProgress[r].op = "update" /\ inProgress[r].kind = kind /\ inProgress[r].key = key
        /\ inProgress[r].key # inProgress[r].loaded}

PlaceInv ==
  \A kind \in Records!Kinds, key \in Keys :
    Cardinality(Records!Holders(kind, key)) + Cardinality(Takers(kind, key))
      <= Cardinality(Requests)

IndexInv ==
  \A kind \in Records!Indexed, key \in Keys : Cardinality(Records!Holders(kind, key)) <= 1

(* The rows after a step: none lost, none of another kind, none back from    *)
(* its deletion.                                                             *)
Kept ==
  \A i \in DOMAIN rows :
    /\ i \in DOMAIN rows' /\ rows'[i].kind = rows[i].kind
    /\ rows[i].deleted => rows'[i].deleted

-----------------------------------------------------------------------------
LEMMA FormKinds ==
  ASSUME NEW q \in Forms
  PROVE  /\ q.op \in {"idle", "create", "update", "status", "delete"}
         /\ q.op = "create" => q \in Creates
         /\ q.op = "update" => q \in Updates
         /\ q.op = "status" => q \in Changes
         /\ q.op = "delete" => q \in Deletes
  BY DEF Forms, Creates, Updates, Changes, Deletes, Records!Idle

LEMMA IdleIs == Records!Idle \in Forms /\ Records!Idle.op = "idle"
  BY DEF Forms, Records!Idle

LEMMA RowsAre ==
  ASSUME RecordTypes
  PROVE  /\ rows \in Seq(Rows) /\ Len(rows) \in Nat /\ DOMAIN rows = 1..Len(rows)
         /\ \A i \in DOMAIN rows : rows[i] \in Rows /\ i \in Nat
<1>1. rows \in Seq(Rows)
  BY DEF RecordTypes, Records!TypeOK, Rows
<1>2. Len(rows) \in Nat /\ DOMAIN rows = 1..Len(rows)
  BY <1>1
<1>3. \A i \in DOMAIN rows : rows[i] \in Rows
  BY <1>1
<1> QED
  BY <1>1, <1>2, <1>3

\* A row that is written is the only one that changes.
LEMMA Written ==
  ASSUME RecordTypes, NEW i \in DOMAIN rows, NEW row \in Rows
  PROVE  LET new == [rows EXCEPT ![i] = row] IN
         /\ new \in Seq(Rows) /\ DOMAIN new = DOMAIN rows
         /\ \A j \in DOMAIN rows : new[j] = IF j = i THEN row ELSE rows[j]
<1>1. rows \in [1..Len(rows) -> Rows] /\ Len(rows) \in Nat /\ DOMAIN rows = 1..Len(rows)
  BY RowsAre
<1>2. [rows EXCEPT ![i] = row] \in [1..Len(rows) -> Rows]
  BY <1>1
<1> QED
  BY <1>1, <1>2

\* A row that is created comes last.
LEMMA Created ==
  ASSUME RecordTypes, NEW row \in Rows
  PROVE  LET new == Append(rows, row) IN
         /\ new \in Seq(Rows) /\ DOMAIN new = DOMAIN rows \cup {Len(rows) + 1}
         /\ Len(rows) + 1 \notin DOMAIN rows /\ new[Len(rows) + 1] = row
         /\ \A j \in DOMAIN rows : new[j] = rows[j]
<1>1. rows \in Seq(Rows) /\ Len(rows) \in Nat /\ DOMAIN rows = 1..Len(rows)
  BY RowsAre
<1> QED
  BY <1>1

\* Every step: one request changes, rows are kept.
LEMMA TypeAgain ==
  ASSUME RecordTypes, NEW r \in Requests, NEW q \in Forms,
         inProgress' = [inProgress EXCEPT ![r] = q],
         rows' \in Seq(Rows), Kept,
         q.op \in {"update", "status", "delete"} => q.id \in DOMAIN rows,
         q.op = "update" => q.kind = rows[q.id].kind
  PROVE  RecordTypes'
<1>1. /\ inProgress' \in [Requests -> Forms] /\ inProgress'[r] = q
      /\ \A o \in Requests \ {r} : inProgress'[o] = inProgress[o]
  BY DEF RecordTypes, FormInv
<1>2. Records!TypeOK'
  BY <1>1, FormKinds DEF Records!TypeOK, Rows
<1>3. ASSUME NEW o \in Requests
      PROVE  /\ inProgress'[o].op \in {"update", "status", "delete"} =>
                  inProgress'[o].id \in DOMAIN rows'
             /\ inProgress'[o].op = "update" => inProgress'[o].kind = rows'[inProgress'[o].id].kind
  <2>1. /\ inProgress'[o].op \in {"update", "status", "delete"} => inProgress'[o].id \in DOMAIN rows
        /\ inProgress'[o].op = "update" => inProgress'[o].kind = rows[inProgress'[o].id].kind
    BY <1>1 DEF RecordTypes, FormInv
  <2> QED
    BY <2>1 DEF Kept
<1>4. FormInv'
  BY <1>1, <1>3 DEF FormInv
<1> QED
  BY <1>2, <1>4 DEF RecordTypes

-----------------------------------------------------------------------------
(* The steps: what a request holds when it begins, what a commit writes.     *)

LEMMA BeginIs ==
  ASSUME RecordTypes, NEW r \in Requests, NEW q \in Forms, Records!Begin(r, q),
         q.op \in {"update", "status", "delete"} => q.id \in DOMAIN rows,
         q.op = "update" => q.kind = rows[q.id].kind
  PROVE  RecordTypes' /\ Kept /\ rows' = rows /\ inProgress[r] = Records!Idle
         /\ inProgress' = [inProgress EXCEPT ![r] = q]
<1>1. rows' = rows /\ inProgress[r] = Records!Idle /\ inProgress' = [inProgress EXCEPT ![r] = q]
  BY DEF Records!Begin
<1>2. Kept /\ rows' \in Seq(Rows)
  BY <1>1, RowsAre DEF Kept
<1> QED
  BY <1>1, <1>2, TypeAgain

\* A commit: the rows as they were, or one more, or one of them written.
LEMMA DoneIs ==
  ASSUME RecordTypes, NEW r \in Requests, Records!Done(r), rows' \in Seq(Rows), Kept
  PROVE  RecordTypes'
<1>1. inProgress' = [inProgress EXCEPT ![r] = Records!Idle]
  BY DEF Records!Done
<1> QED
  BY <1>1, IdleIs, TypeAgain

LEMMA CreateIs ==
  ASSUME RecordTypes, NEW r \in Requests, Records!CommitCreate(r)
  PROVE  /\ RecordTypes' /\ Kept
         /\ \/ rows' = rows
            \/ /\ ~Records!Violates(inProgress[r].kind, inProgress[r].key, {})
               /\ \E n : /\ DOMAIN rows' = DOMAIN rows \cup {n} /\ n \notin DOMAIN rows
                         /\ rows'[n].kind = inProgress[r].kind /\ rows'[n].key = inProgress[r].key
                         /\ \A j \in DOMAIN rows : rows'[j] = rows[j]
<1>1. inProgress[r] \in Creates /\ Records!Done(r)
  BY FormKinds DEF Records!CommitCreate, RecordTypes, FormInv
<1>2. CASE rows' = rows
  <2>1. Kept /\ rows' \in Seq(Rows)
    BY <1>2, RowsAre DEF Kept
  <2> QED
    BY <1>1, <1>2, <2>1, DoneIs
<1>3. CASE rows' # rows
  <2>1. PICK active \in BOOLEAN :
          /\ ~Records!Violates(inProgress[r].kind, inProgress[r].key, {})
          /\ rows' = Append(rows, [kind |-> inProgress[r].kind, key |-> inProgress[r].key,
                                   active |-> active, deleted |-> FALSE])
    BY <1>3 DEF Records!CommitCreate
  <2> DEFINE row == [kind |-> inProgress[r].kind, key |-> inProgress[r].key,
                     active |-> active, deleted |-> FALSE]
  <2>2. row \in Rows /\ row.kind = inProgress[r].kind /\ row.key = inProgress[r].key
    BY <1>1 DEF Creates, Rows
  <2>3. rows' = Append(rows, row)
    BY <2>1
  <2> HIDE DEF row
  <2>4. PICK n : n = Len(rows) + 1
    OBVIOUS
  <2>5. /\ rows' \in Seq(Rows) /\ DOMAIN rows' = DOMAIN rows \cup {n}
        /\ n \notin DOMAIN rows /\ rows'[n] = row
        /\ \A j \in DOMAIN rows : rows'[j] = rows[j]
    BY <2>2, <2>3, <2>4, Created
  <2>6. Kept
    BY <2>5 DEF Kept
  <2>7. RecordTypes'
    BY <1>1, <2>5, <2>6, DoneIs
  <2> QED
    BY <2>1, <2>2, <2>5, <2>6, <2>7
<1> QED
  BY <1>2, <1>3

LEMMA UpdateIs ==
  ASSUME RecordTypes, NEW r \in Requests, Records!CommitUpdate(r)
  PROVE  /\ RecordTypes' /\ Kept
         /\ \/ rows' = rows
            \/ LET q == inProgress[r] IN
               /\ q.key # q.loaded /\ ~Records!Violates(q.kind, q.key, {q.id})
               /\ q.id \in DOMAIN rows /\ DOMAIN rows' = DOMAIN rows
               /\ rows'[q.id].kind = q.kind /\ rows'[q.id].key = q.key
               /\ \A j \in DOMAIN rows : j # q.id => rows'[j] = rows[j]
<1>1. inProgress[r].op = "update" /\ Records!Done(r)
  BY DEF Records!CommitUpdate
<1>2. /\ inProgress[r] \in Updates /\ inProgress[r].id \in DOMAIN rows
      /\ inProgress[r].kind = rows[inProgress[r].id].kind
  BY <1>1, FormKinds DEF RecordTypes, FormInv
<1>3. CASE rows' = rows
  <2>1. Kept /\ rows' \in Seq(Rows)
    BY <1>3, RowsAre DEF Kept
  <2> QED
    BY <1>1, <1>3, <2>1, DoneIs
<1>4. CASE rows' # rows
  <2>0. PICK i, key : i = inProgress[r].id /\ key = inProgress[r].key
    OBVIOUS
  <2>1. /\ key # inProgress[r].loaded /\ ~Records!Violates(inProgress[r].kind, key, {i})
        /\ rows' = [rows EXCEPT ![i].key = key]
    BY <1>4, <2>0 DEF Records!CommitUpdate
  <2> DEFINE row == [rows[i] EXCEPT !.key = key]
  <2>2. i \in DOMAIN rows /\ key \in Keys /\ rows[i] \in Rows /\ inProgress[r].kind = rows[i].kind
    BY <1>2, <2>0, RowsAre DEF Updates
  <2>3. row \in Rows /\ row.key = key /\ row.kind = rows[i].kind /\ row.deleted = rows[i].deleted
    BY <2>2 DEF Rows
  <2>4. rows' = [rows EXCEPT ![i] = row]
    BY <2>1
  <2> HIDE DEF row
  <2>5. /\ rows' \in Seq(Rows) /\ DOMAIN rows' = DOMAIN rows
        /\ \A j \in DOMAIN rows : rows'[j] = IF j = i THEN row ELSE rows[j]
    BY <2>2, <2>3, <2>4, Written
  <2>6. Kept
    BY <2>2, <2>3, <2>5 DEF Kept
  <2>7. RecordTypes'
    BY <1>1, <2>5, <2>6, DoneIs
  <2> QED
    BY <2>0, <2>1, <2>2, <2>3, <2>5, <2>6, <2>7
<1> QED
  BY <1>3, <1>4

\* A change of status and a deletion: no live row gets another key.
LEMMA RestIs ==
  ASSUME RecordTypes, NEW r \in Requests, Records!CommitSetStatus(r) \/ Records!CommitDelete(r)
  PROVE  /\ RecordTypes' /\ Kept /\ Records!Done(r) /\ DOMAIN rows' = DOMAIN rows
         /\ \A j \in DOMAIN rows : rows'[j].key = rows[j].key
<1>1. inProgress[r].op \in {"status", "delete"} /\ Records!Done(r)
  BY DEF Records!CommitSetStatus, Records!CommitDelete
<1>2. inProgress[r] \in Changes \cup Deletes /\ inProgress[r].id \in DOMAIN rows
  BY <1>1, FormKinds DEF RecordTypes, FormInv
<1>3. CASE rows' = rows
  <2>1. Kept /\ rows' \in Seq(Rows)
    BY <1>3, RowsAre DEF Kept
  <2> QED
    BY <1>1, <1>3, <2>1, DoneIs
<1>4. CASE rows' # rows
  <2>0. PICK i : i = inProgress[r].id
    OBVIOUS
  <2>1. i \in DOMAIN rows /\ rows[i] \in Rows
    BY <1>2, <2>0, RowsAre
  <2>2. PICK row \in Rows :
          /\ rows' = [rows EXCEPT ![i] = row]
          /\ row.kind = rows[i].kind /\ row.key = rows[i].key
          /\ rows[i].deleted => row.deleted
    <3>1. CASE Records!CommitSetStatus(r)
      <4>1. inProgress[r].op = "status" /\ rows' = [rows EXCEPT ![i].active = inProgress[r].new]
        BY <1>4, <2>0, <3>1 DEF Records!CommitSetStatus
      <4>2. inProgress[r].new \in BOOLEAN
        BY <4>1, FormKinds DEF RecordTypes, FormInv, Changes
      <4>3. [rows[i] EXCEPT !.active = inProgress[r].new] \in Rows
        BY <2>1, <4>2 DEF Rows
      <4> QED
        BY <2>1, <4>1, <4>3 DEF Rows
    <3>2. CASE Records!CommitDelete(r)
      <4>1. PICK active : active = IF inProgress[r].loaded THEN FALSE ELSE rows[i].active
        OBVIOUS
      <4>2. rows' = [rows EXCEPT ![i] = [rows[i] EXCEPT !.deleted = TRUE, !.active = active]]
        BY <2>0, <2>1, <3>2, <4>1, RowsAre DEF Records!CommitDelete
      <4>3. active \in BOOLEAN
        BY <2>1, <4>1 DEF Rows
      <4>4. [rows[i] EXCEPT !.deleted = TRUE, !.active = active] \in Rows
        BY <2>1, <4>3 DEF Rows
      <4> QED
        BY <2>1, <4>2, <4>4 DEF Rows
    <3> QED
      BY <3>1, <3>2
  <2>3. /\ rows' \in Seq(Rows) /\ DOMAIN rows' = DOMAIN rows
        /\ \A j \in DOMAIN rows : rows'[j] = IF j = i THEN row ELSE rows[j]
    BY <2>1, <2>2, Written
  <2>4. Kept
    BY <2>2, <2>3 DEF Kept
  <2>5. \A j \in DOMAIN rows : rows'[j].key = rows[j].key
    BY <2>2, <2>3
  <2>6. RecordTypes'
    BY <1>1, <2>3, <2>4, DoneIs
  <2> QED
    BY <1>1, <2>3, <2>4, <2>5, <2>6
<1> QED
  BY <1>3, <1>4

-----------------------------------------------------------------------------
(* Counting who holds a key and who is about to.                             *)

LEMMA Finite ==
  ASSUME IsFiniteSet(Requests), RecordTypes, NEW kind \in Records!Kinds, NEW key \in Keys
  PROVE  /\ IsFiniteSet(Records!Holders(kind, key))
         /\ Cardinality(Records!Holders(kind, key)) \in Nat
         /\ IsFiniteSet(Takers(kind, key)) /\ Cardinality(Takers(kind, key)) \in Nat
         /\ Cardinality(Takers(kind, key)) <= Cardinality(Requests)
         /\ Cardinality(Requests) \in Nat
<1>1. IsFiniteSet(DOMAIN rows)
  BY RowsAre, FS_Interval
<1>2. Records!Holders(kind, key) \subseteq DOMAIN rows /\ Takers(kind, key) \subseteq Requests
  BY DEF Records!Holders, Takers
<1> QED
  BY <1>1, <1>2, FS_Subset, FS_CardinalityType

\* A request that begins takes no place of its own, unless the key is free.
LEMMA BeginPlaces ==
  ASSUME IsFiniteSet(Requests), RecordTypes, RecordTypes', PlaceInv, IndexInv,
         NEW r \in Requests, NEW q \in Forms,
         rows' = rows, inProgress' = [inProgress EXCEPT ![r] = q],
         \A kind \in Records!Kinds, key \in Keys :
           r \in Takers(kind, key)' => Records!Holders(kind, key) = {}
  PROVE  PlaceInv' /\ IndexInv'
<1>1. \A kind, key : Records!Holders(kind, key)' = Records!Holders(kind, key)
  BY DEF Records!Holders, Records!Live
<1>2. ASSUME NEW kind \in Records!Kinds, NEW key \in Keys
      PROVE  Cardinality(Records!Holders(kind, key)') + Cardinality(Takers(kind, key)')
               <= Cardinality(Requests)
  <2>1. /\ IsFiniteSet(Takers(kind, key)') /\ Cardinality(Takers(kind, key)') \in Nat
        /\ Cardinality(Takers(kind, key)') <= Cardinality(Requests)
    BY FS_Subset, FS_CardinalityType DEF Takers
  <2>2. CASE r \in Takers(kind, key)'
    <3>1. Cardinality(Records!Holders(kind, key)') = 0
      BY <1>1, <2>2, FS_EmptySet
    <3> QED
      BY <2>1, <3>1
  <2>3. CASE r \notin Takers(kind, key)'
    <3>1. Takers(kind, key)' \subseteq Takers(kind, key)
      BY <2>3 DEF Takers, RecordTypes, FormInv
    <3>2. Cardinality(Takers(kind, key)') <= Cardinality(Takers(kind, key))
      BY <3>1, Finite, FS_Subset
    <3>3. Cardinality(Records!Holders(kind, key)) + Cardinality(Takers(kind, key))
            <= Cardinality(Requests)
      BY DEF PlaceInv
    <3> QED
      BY <1>1, <2>1, <3>2, <3>3, Finite
  <2> QED
    BY <2>2, <2>3
<1>3. PlaceInv'
  BY <1>2 DEF PlaceInv
<1>4. IndexInv'
  BY <1>1 DEF IndexInv
<1> QED
  BY <1>3, <1>4

LEMMA AtMost ==
  ASSUME NEW H, NEW G, IsFiniteSet(H), G \subseteq H
  PROVE  /\ IsFiniteSet(G) /\ Cardinality(G) \in Nat /\ Cardinality(H) \in Nat
         /\ Cardinality(G) <= Cardinality(H)
  BY FS_Subset, FS_CardinalityType

LEMMA OneLess ==
  ASSUME NEW H, NEW G, NEW n, IsFiniteSet(H), G = H \ {n}
  PROVE  /\ IsFiniteSet(G) /\ Cardinality(G) \in Nat /\ Cardinality(G) <= Cardinality(H)
         /\ n \in H => Cardinality(G) = Cardinality(H) - 1
  BY AtMost, FS_RemoveElement

LEMMA OneMore ==
  ASSUME NEW H, NEW G, NEW n, IsFiniteSet(H), G \subseteq H \cup {n}
  PROVE  /\ Cardinality(G) \in Nat /\ Cardinality(G) <= Cardinality(H) + 1
         /\ H \subseteq {n} => Cardinality(G) <= 1
<1>1. IsFiniteSet(H \cup {n}) /\ Cardinality(H) \in Nat /\ Cardinality(H \cup {n}) \in Nat
  BY FS_AddElement, FS_CardinalityType
<1>2. Cardinality(H \cup {n}) <= Cardinality(H) + 1
  <2>1. Cardinality(H \cup {n}) = IF n \in H THEN Cardinality(H) ELSE Cardinality(H) + 1
    BY FS_AddElement
  <2> QED
    BY <1>1, <2>1
<1>3. Cardinality(G) \in Nat /\ Cardinality(G) <= Cardinality(H \cup {n})
  BY <1>1, AtMost
<1>4. H \subseteq {n} => Cardinality(G) <= 1
  <2>1. IsFiniteSet({n}) /\ Cardinality({n}) = 1
    BY FS_Singleton
  <2>2. H \subseteq {n} => G \subseteq {n}
    OBVIOUS
  <2> QED
    BY <2>1, <2>2, AtMost
<1> QED
  BY <1>1, <1>2, <1>3, <1>4

\* A commit: whoever takes a key gives up the place it kept for that.
LEMMA CommitPlaces ==
  ASSUME IsFiniteSet(Requests), RecordTypes, RecordTypes', PlaceInv, IndexInv,
         NEW r \in Requests, Records!Done(r), NEW n,
         \A kind \in Records!Kinds, key \in Keys :
           \/ Records!Holders(kind, key)' \subseteq Records!Holders(kind, key)
           \/ /\ r \in Takers(kind, key)
              /\ Records!Holders(kind, key)' \subseteq Records!Holders(kind, key) \cup {n}
              /\ kind \in Records!Indexed => Records!Holders(kind, key) \subseteq {n}
  PROVE  PlaceInv' /\ IndexInv'
<1>1. /\ inProgress'[r] = Records!Idle /\ \A o \in Requests \ {r} : inProgress'[o] = inProgress[o]
  BY DEF Records!Done, RecordTypes, FormInv
<1>2. ASSUME NEW kind \in Records!Kinds, NEW key \in Keys
      PROVE  /\ Cardinality(Records!Holders(kind, key)') + Cardinality(Takers(kind, key)')
                  <= Cardinality(Requests)
             /\ kind \in Records!Indexed => Cardinality(Records!Holders(kind, key)') <= 1
  <2> DEFINE H == Records!Holders(kind, key)
             T == Takers(kind, key)
  <2>1. T' = T \ {r}
    BY <1>1, IdleIs DEF Takers
  <2>2. /\ IsFiniteSet(H) /\ Cardinality(H) \in Nat /\ IsFiniteSet(T) /\ Cardinality(T) \in Nat
        /\ Cardinality(Requests) \in Nat /\ Cardinality(H) + Cardinality(T) <= Cardinality(Requests)
        /\ kind \in Records!Indexed => Cardinality(H) <= 1
    BY Finite DEF PlaceInv, IndexInv
  <2>3. \/ H' \subseteq H
        \/ /\ r \in T /\ H' \subseteq H \cup {n}
           /\ kind \in Records!Indexed => H \subseteq {n}
    OBVIOUS
  <2> HIDE DEF H, T
  <2>4. /\ IsFiniteSet(T') /\ Cardinality(T') \in Nat /\ Cardinality(T') <= Cardinality(T)
        /\ r \in T => Cardinality(T') = Cardinality(T) - 1
    BY <2>1, <2>2, OneLess
  <2>5. CASE H' \subseteq H
    <3>1. Cardinality(H') \in Nat /\ Cardinality(H') <= Cardinality(H)
      BY <2>2, <2>5, AtMost
    <3>2. Cardinality(H') + Cardinality(T') <= Cardinality(Requests)
      BY <2>2, <2>4, <3>1
    <3>3. Cardinality(H) <= 1 => Cardinality(H') <= 1
      BY <2>2, <3>1
    <3> QED
      BY <2>2, <3>2, <3>3 DEF H, T
  <2>6. CASE r \in T /\ H' \subseteq H \cup {n} /\ (kind \in Records!Indexed => H \subseteq {n})
    <3>1. /\ Cardinality(H') \in Nat /\ Cardinality(H') <= Cardinality(H) + 1
          /\ H \subseteq {n} => Cardinality(H') <= 1
      BY <2>2, <2>6, OneMore
    <3>2. Cardinality(T') = Cardinality(T) - 1
      BY <2>4, <2>6
    <3>3. Cardinality(H') + Cardinality(T') <= Cardinality(Requests)
      BY <2>2, <3>1, <3>2
    <3> QED
      BY <2>6, <3>1, <3>3 DEF H, T
  <2> QED
    BY <2>3, <2>5, <2>6
<1> QED
  BY <1>2 DEF PlaceInv, IndexInv, Records!Indexed, Records!Kinds

-----------------------------------------------------------------------------
LEMMA CreateBegins ==
  ASSUME IsFiniteSet(Requests), RecordTypes, PlaceInv, IndexInv, NEW r \in Requests,
         NEW kind \in Records!Kinds, NEW key \in Keys, Records!BeginCreate(r, kind, key)
  PROVE  RecordTypes' /\ Kept /\ PlaceInv' /\ IndexInv'
<1> DEFINE q == [op |-> "create", kind |-> kind, key |-> key]
<1>1. q \in Forms /\ q.op = "create" /\ q.kind = kind /\ q.key = key
  BY DEF Forms, Creates
<1>2. Records!Begin(r, q) /\ Records!Holders(kind, key) = {}
  BY DEF Records!BeginCreate, Records!Unique
<1> HIDE DEF q
<1>3. RecordTypes' /\ Kept /\ rows' = rows /\ inProgress' = [inProgress EXCEPT ![r] = q]
  BY <1>1, <1>2, BeginIs
<1>4. \A k \in Records!Kinds, y \in Keys : r \in Takers(k, y)' => Records!Holders(k, y) = {}
  BY <1>1, <1>2, <1>3 DEF Takers, RecordTypes, FormInv
<1> QED
  BY <1>1, <1>3, <1>4, BeginPlaces

LEMMA UpdateBegins ==
  ASSUME IsFiniteSet(Requests), RecordTypes, PlaceInv, IndexInv, NEW r \in Requests,
         NEW i \in DOMAIN rows, NEW key \in Keys, Records!BeginUpdate(r, i, key)
  PROVE  RecordTypes' /\ Kept /\ PlaceInv' /\ IndexInv'
<1>0. PICK kind, loaded : kind = rows[i].kind /\ loaded = rows[i].key
  OBVIOUS
<1> DEFINE q == [op |-> "update", id |-> i, kind |-> kind, key |-> key, loaded |-> loaded]
<1>1. kind \in Records!Kinds /\ loaded \in Keys /\ i \in Nat
  BY <1>0, RowsAre DEF Rows
<1>2. /\ q \in Forms /\ q.op = "update" /\ q.id = i
      /\ q.kind = kind /\ q.key = key /\ q.loaded = loaded
  BY <1>1 DEF Forms, Updates
<1>3. Records!Begin(r, q) /\ Records!Holders(kind, key) \subseteq {i}
  BY <1>0 DEF Records!BeginUpdate, Records!Unique
<1> HIDE DEF q
<1>4. RecordTypes' /\ Kept /\ rows' = rows /\ inProgress' = [inProgress EXCEPT ![r] = q]
  BY <1>0, <1>2, <1>3, BeginIs
<1>5. key # loaded => Records!Holders(kind, key) = {}
  BY <1>0, <1>3 DEF Records!Holders
<1>6. \A k \in Records!Kinds, y \in Keys : r \in Takers(k, y)' => Records!Holders(k, y) = {}
  BY <1>2, <1>4, <1>5 DEF Takers, RecordTypes, FormInv
<1> QED
  BY <1>2, <1>4, <1>6, BeginPlaces

LEMMA RestBegins ==
  ASSUME IsFiniteSet(Requests), RecordTypes, PlaceInv, IndexInv, NEW r \in Requests,
         NEW i \in DOMAIN rows,
         Records!BeginDelete(r, i) \/ \E new \in BOOLEAN : Records!BeginSetStatus(r, i, new)
  PROVE  RecordTypes' /\ Kept /\ PlaceInv' /\ IndexInv'
<1>1. rows[i].active \in BOOLEAN /\ i \in Nat
  BY RowsAre DEF Rows
<1>2. PICK q \in Forms : Records!Begin(r, q) /\ q.op \in {"status", "delete"} /\ q.id = i
  <2>1. CASE Records!BeginDelete(r, i)
    <3>1. [op |-> "delete", id |-> i, loaded |-> rows[i].active] \in Deletes
      BY <1>1 DEF Deletes
    <3> QED
      BY <2>1, <3>1 DEF Records!BeginDelete, Forms
  <2>2. ASSUME NEW new \in BOOLEAN, Records!BeginSetStatus(r, i, new)
        PROVE  \E q \in Forms : Records!Begin(r, q) /\ q.op \in {"status", "delete"} /\ q.id = i
    <3>1. [op |-> "status", id |-> i, new |-> new, loaded |-> rows[i].active] \in Changes
      BY <1>1 DEF Changes
    <3> QED
      BY <2>2, <3>1 DEF Records!BeginSetStatus, Forms
  <2> QED
    BY <2>1, <2>2
<1>3. RecordTypes' /\ Kept /\ rows' = rows /\ inProgress' = [inProgress EXCEPT ![r] = q]
  BY <1>2, BeginIs
<1>4. \A k \in Records!Kinds, y \in Keys : r \notin Takers(k, y)'
  BY <1>2, <1>3 DEF Takers, RecordTypes, FormInv
<1> QED
  BY <1>3, <1>4, BeginPlaces

LEMMA CreateCommits ==
  ASSUME IsFiniteSet(Requests), RecordTypes, PlaceInv, IndexInv, NEW r \in Requests,
         Records!CommitCreate(r)
  PROVE  RecordTypes' /\ Kept /\ PlaceInv' /\ IndexInv'
<1>1. RecordTypes' /\ Kept
  BY CreateIs
<1>2. Records!Done(r) /\ inProgress[r].op = "create"
  BY DEF Records!CommitCreate
<1>3. CASE rows' = rows
  <2>1. \A kind, key : Records!Holders(kind, key)' \subseteq Records!Holders(kind, key)
    BY <1>3 DEF Records!Holders, Records!Live
  <2> QED
    BY <1>1, <1>2, <2>1, CommitPlaces
<1>4. CASE rows' # rows
  <2>1. PICK n : /\ ~Records!Violates(inProgress[r].kind, inProgress[r].key, {})
                 /\ DOMAIN rows' = DOMAIN rows \cup {n} /\ n \notin DOMAIN rows
                 /\ rows'[n].kind = inProgress[r].kind /\ rows'[n].key = inProgress[r].key
                 /\ \A j \in DOMAIN rows : rows'[j] = rows[j]
    BY <1>4, CreateIs
  <2>2. ASSUME NEW kind \in Records!Kinds, NEW key \in Keys
        PROVE  \/ Records!Holders(kind, key)' \subseteq Records!Holders(kind, key)
               \/ /\ r \in Takers(kind, key)
                  /\ Records!Holders(kind, key)' \subseteq Records!Holders(kind, key) \cup {n}
                  /\ kind \in Records!Indexed => Records!Holders(kind, key) \subseteq {n}
    <3>1. CASE kind = inProgress[r].kind /\ key = inProgress[r].key
      <4>1. r \in Takers(kind, key)
        BY <1>2, <3>1 DEF Takers
      <4>2. Records!Holders(kind, key)' \subseteq Records!Holders(kind, key) \cup {n}
        BY <2>1 DEF Records!Holders, Records!Live
      <4>3. kind \in Records!Indexed => Records!Holders(kind, key) \subseteq {n}
        BY <2>1, <3>1 DEF Records!Violates
      <4> QED
        BY <4>1, <4>2, <4>3
    <3>2. CASE ~(kind = inProgress[r].kind /\ key = inProgress[r].key)
      BY <2>1, <3>2 DEF Records!Holders, Records!Live
    <3> QED
      BY <3>1, <3>2
  <2> QED
    BY <1>1, <1>2, <2>2, CommitPlaces
<1> QED
  BY <1>3, <1>4

LEMMA UpdateCommits ==
  ASSUME IsFiniteSet(Requests), RecordTypes, PlaceInv, IndexInv, NEW r \in Requests,
         Records!CommitUpdate(r)
  PROVE  RecordTypes' /\ Kept /\ PlaceInv' /\ IndexInv'
<1>1. RecordTypes' /\ Kept
  BY UpdateIs
<1>2. Records!Done(r) /\ inProgress[r].op = "update"
  BY DEF Records!CommitUpdate
<1>3. CASE rows' = rows
  <2>1. \A kind, key : Records!Holders(kind, key)' \subseteq Records!Holders(kind, key)
    BY <1>3 DEF Records!Holders, Records!Live
  <2> QED
    BY <1>1, <1>2, <2>1, CommitPlaces
<1>4. CASE rows' # rows
  <2>0. PICK q : q = inProgress[r]
    OBVIOUS
  <2>1. /\ q.key # q.loaded /\ ~Records!Violates(q.kind, q.key, {q.id})
        /\ q.id \in DOMAIN rows /\ DOMAIN rows' = DOMAIN rows
        /\ rows'[q.id].kind = q.kind /\ rows'[q.id].key = q.key
        /\ \A j \in DOMAIN rows : j # q.id => rows'[j] = rows[j]
    BY <1>4, <2>0, UpdateIs
  <2>2. ASSUME NEW kind \in Records!Kinds, NEW key \in Keys
        PROVE  \/ Records!Holders(kind, key)' \subseteq Records!Holders(kind, key)
               \/ /\ r \in Takers(kind, key)
                  /\ Records!Holders(kind, key)' \subseteq Records!Holders(kind, key) \cup {q.id}
                  /\ kind \in Records!Indexed => Records!Holders(kind, key) \subseteq {q.id}
    <3>1. CASE kind = q.kind /\ key = q.key
      <4>1. r \in Takers(kind, key)
        BY <1>2, <2>0, <2>1, <3>1 DEF Takers
      <4>2. Records!Holders(kind, key)' \subseteq Records!Holders(kind, key) \cup {q.id}
        BY <2>1 DEF Records!Holders, Records!Live
      <4>3. kind \in Records!Indexed => Records!Holders(kind, key) \subseteq {q.id}
        BY <2>1, <3>1 DEF Records!Violates
      <4> QED
        BY <4>1, <4>2, <4>3
    <3>2. CASE ~(kind = q.kind /\ key = q.key)
      BY <2>1, <3>2 DEF Records!Holders, Records!Live
    <3> QED
      BY <3>1, <3>2
  <2> QED
    BY <1>1, <1>2, <2>2, CommitPlaces
<1> QED
  BY <1>3, <1>4

LEMMA RestCommits ==
  ASSUME IsFiniteSet(Requests), RecordTypes, PlaceInv, IndexInv, NEW r \in Requests,
         Records!CommitSetStatus(r) \/ Records!CommitDelete(r)
  PROVE  RecordTypes' /\ Kept /\ PlaceInv' /\ IndexInv'
<1>1. /\ RecordTypes' /\ Kept /\ Records!Done(r) /\ DOMAIN rows' = DOMAIN rows
      /\ \A j \in DOMAIN rows : rows'[j].key = rows[j].key
  BY RestIs
<1>2. \A kind, key : Records!Holders(kind, key)' \subseteq Records!Holders(kind, key)
  BY <1>1 DEF Kept, Records!Holders, Records!Live
<1> QED
  BY <1>1, <1>2, CommitPlaces

LEMMA StepKeeps ==
  ASSUME IsFiniteSet(Requests), RecordTypes, PlaceInv, IndexInv, [Records!Next]_(Records!vars)
  PROVE  RecordTypes' /\ Kept /\ PlaceInv' /\ IndexInv'
<1>1. CASE Records!Next
  BY <1>1, CreateBegins, UpdateBegins, RestBegins, CreateCommits, UpdateCommits, RestCommits
     DEF Records!Next
<1>2. CASE UNCHANGED Records!vars
  <2>1. rows' = rows /\ inProgress' = inProgress
    BY <1>2 DEF Records!vars
  <2>2. RecordTypes'
    BY <2>1 DEF RecordTypes, Records!TypeOK, FormInv
  <2>3. \A kind, key : Records!Holders(kind, key)' = Records!Holders(kind, key)
                         /\ Takers(kind, key)' = Takers(kind, key)
    BY <2>1 DEF Records!Holders, Records!Live, Takers
  <2>4. Kept
    BY <2>1 DEF Kept
  <2> QED
    BY <2>2, <2>3, <2>4 DEF PlaceInv, IndexInv
<1> QED
  BY <1>1, <1>2

LEMMA Always ==
  ASSUME IsFiniteSet(Requests)
  PROVE  Records!Spec => [](RecordTypes /\ PlaceInv /\ IndexInv)
<1>1. Records!Init => RecordTypes /\ PlaceInv /\ IndexInv
  <2> SUFFICES ASSUME Records!Init PROVE RecordTypes /\ PlaceInv /\ IndexInv
    OBVIOUS
  <2>1. rows = <<>> /\ DOMAIN rows = {} /\ inProgress = [r \in Requests |-> Records!Idle]
    BY DEF Records!Init
  <2>2. RecordTypes
    BY <2>1, IdleIs DEF RecordTypes, Records!TypeOK, FormInv
  <2>3. \A kind, key : Records!Holders(kind, key) = {} /\ Takers(kind, key) = {}
    BY <2>1, IdleIs DEF Records!Holders, Takers
  <2>4. Cardinality({}) = 0 /\ Cardinality(Requests) \in Nat
    BY FS_EmptySet, FS_CardinalityType
  <2>5. PlaceInv
    BY <2>3, <2>4 DEF PlaceInv
  <2>6. IndexInv
    BY <2>3, <2>4 DEF IndexInv
  <2> QED
    BY <2>2, <2>5, <2>6
<1>2. RecordTypes /\ PlaceInv /\ IndexInv /\ [Records!Next]_(Records!vars)
        => (RecordTypes /\ PlaceInv /\ IndexInv)'
  BY StepKeeps
<1> QED
  BY <1>1, <1>2, PTL DEF Records!Spec

(* Rows and requests keep their types: whatever commits in between, a        *)
(* request stays about a row that exists, of the kind it read.               *)
THEOREM CatalogIsTyped == ASSUME IsFiniteSet(Requests) PROVE Records!Spec => []Records!TypeOK
<1>1. RecordTypes => Records!TypeOK
  BY DEF RecordTypes
<1> QED
  BY <1>1, Always, PTL

\* The instance counts as this module does.
LEMMA SameCardinality == \A S : Records!Cardinality(S) = Cardinality(S)
BY DEF Records!Cardinality, Cardinality

(* The check for a free key and the write are not one step: so many requests *)
(* as are in progress at once may give one document, plate or chassis to as  *)
(* many live rows, and no more ever, however long they go on; an e-mail,     *)
(* which has a unique index, never to two.                                   *)
THEOREM DuplicatesStayBounded ==
  ASSUME IsFiniteSet(Requests) PROVE Records!Spec => []Records!DuplicatesBounded
<1>1. ASSUME RecordTypes, PlaceInv, IndexInv
      PROVE  Records!DuplicatesBounded
  <2> SUFFICES ASSUME NEW kind \in Records!Kinds, NEW key \in Keys
               PROVE  Cardinality(Records!Holders(kind, key)) <=
                        IF kind \in Records!Indexed THEN 1 ELSE Cardinality(Requests)
    BY SameCardinality DEF Records!DuplicatesBounded
  <2>1. Cardinality(Records!Holders(kind, key)) + Cardinality(Takers(kind, key))
          <= Cardinality(Requests)
    BY <1>1 DEF PlaceInv
  <2>2. kind \in Records!Indexed => Cardinality(Records!Holders(kind, key)) <= 1
    BY <1>1 DEF IndexInv
  <2> QED
    BY <1>1, <2>1, <2>2, Finite
<1>2. RecordTypes /\ PlaceInv /\ IndexInv => Records!DuplicatesBounded
  BY <1>1
<1> QED
  BY <1>2, Always, PTL

(* No row that was deleted comes back, or is lost, or changes its kind: not  *)
(* even by an update that loaded it before it was deleted.                   *)
THEOREM DeletedStaysDeleted ==
  ASSUME IsFiniteSet(Requests) PROVE Records!Spec => [][Kept]_(Records!vars)
<1>1. RecordTypes /\ PlaceInv /\ IndexInv /\ [Records!Next]_(Records!vars) => Kept
  BY StepKeeps
<1> QED
  BY <1>1, Always, PTL DEF Records!Spec

-----------------------------------------------------------------------------
(* The rows under the migrations. The schema has no constant: the run        *)
(* computes all its versions.                                                *)
VehicleRow ==
  [active : BOOLEAN, longPlate : BOOLEAN, status : {None} \cup Schema!VehicleStatuses,
   owner : {None, "legacy", "own"}, deleted : BOOLEAN]
TrackerRow ==
  [imei : Imeis, active : BOOLEAN, status : {None} \cup Schema!TrackerStatuses,
   deleted : BOOLEAN]
AssignmentRow ==
  [tracker : Trackers, vehicle : Vehicles, unassigned : BOOLEAN, removed : BOOLEAN,
   status : {None} \cup Schema!InstallationStatuses]

RowTypes ==
  /\ version \in 0..14 /\ customers \subseteq {"legacy", "own"}
  /\ Schema!Ids(vehicles) \subseteq Vehicles
  /\ \A v \in Schema!Ids(vehicles) : vehicles[v] \in VehicleRow
  /\ Schema!Ids(trackerRows) \subseteq Trackers
  /\ \A t \in Schema!Ids(trackerRows) : trackerRows[t] \in TrackerRow
  /\ \A a \in Schema!Ids(assignments) : assignments[a] \in AssignmentRow

\* The conjuncts of RowsFitSchema.
VehiclesFit ==
  \A v \in Schema!Ids(vehicles) :
    IF version >= 7
    THEN vehicles[v].owner \in customers /\ vehicles[v].status # None
    ELSE vehicles[v].owner = None /\ vehicles[v].status = None
TrackersFit == \A t \in Schema!Ids(trackerRows) : trackerRows[t].status # None <=> version >= 8
AssignmentFits(row) ==
  /\ IF version >= 10
     THEN row.status # None /\ (row.status \in Schema!ClosedStatuses => row.removed)
     ELSE row.status = None
  /\ version >= 8 /\ row.unassigned => row.removed
AssignmentsFit == \A a \in Schema!Ids(assignments) : AssignmentFits(assignments[a])

\* No two live trackers have one IMEI; before 011 no two trackers at all.
ImeisDiffer ==
  /\ Schema!Distinct({t \in Schema!Ids(trackerRows) : Schema!Live(t)})
  /\ version <= 10 => Schema!Distinct(Schema!Ids(trackerRows))

RowsInv == RowTypes /\ VehiclesFit /\ TrackersFit /\ AssignmentsFit /\ ImeisDiffer

-----------------------------------------------------------------------------
LEMMA RowsStart ==
  ASSUME Schema!Init
  PROVE  RowsInv
<1>1. Schema!Ids(vehicles) = {} /\ Schema!Ids(trackerRows) = {} /\ Schema!Ids(assignments) = {}
  BY DEF Schema!Init, Schema!Ids
<1>2. RowTypes
  BY <1>1 DEF Schema!Init, RowTypes
<1> QED
  BY <1>1, <1>2 DEF RowsInv, VehiclesFit, TrackersFit, AssignmentsFit, ImeisDiffer,
     Schema!Distinct

\* A step that leaves the rows alone and does not pass 007, 008, 010 or 011.
LEMMA RowsStayFit ==
  ASSUME RowsInv, Schema!RowsStay, version' \in 0..14,
         version' >= 7 <=> version >= 7, version' >= 8 <=> version >= 8,
         version' >= 10 <=> version >= 10,
         version' <= 10 => version <= 10 \/ Schema!Distinct(Schema!Ids(trackerRows))
  PROVE  RowsInv'
<1>1. RowTypes'
  BY DEF RowsInv, RowTypes, Schema!RowsStay, Schema!Ids
<1>2. VehiclesFit'
  BY DEF RowsInv, VehiclesFit, Schema!RowsStay, Schema!Ids
<1>3. TrackersFit'
  BY DEF RowsInv, TrackersFit, Schema!RowsStay, Schema!Ids
<1>4. AssignmentsFit'
  BY DEF RowsInv, AssignmentsFit, AssignmentFits, Schema!RowsStay, Schema!Ids
<1>5. ImeisDiffer'
  BY DEF RowsInv, ImeisDiffer, Schema!RowsStay, Schema!Ids, Schema!Distinct, Schema!Live
<1> QED
  BY <1>1, <1>2, <1>3, <1>4, <1>5 DEF RowsInv

\* The migrations that change rows, one by one.
LEMMA Up7 ==
  ASSUME Schema!NullAssumption, RowsInv, version = 6, version' = 7, Schema!RowsUp007
  PROVE  RowsInv'
<1>1. /\ trackerRows' = trackerRows /\ assignments' = assignments
      /\ customers' = Schema!LegacyCustomer(customers)
  BY DEF Schema!RowsUp007
<1>2. vehicles' = [i \in Schema!Ids(vehicles) |->
           [vehicles[i] EXCEPT
              !.active = FALSE,
              !.status = Schema!WhereNull("ACTIVE",
                                          IF vehicles[i].active THEN "ACTIVE" ELSE "INACTIVE"),
              !.owner = IF "legacy" \in customers' THEN "legacy" ELSE None]]
  BY DEF Schema!RowsUp007, Schema!Every
<1>3. /\ customers' \subseteq {"legacy", "own"}
      /\ (Schema!Ids(vehicles) # {} => "legacy" \in customers')
  BY <1>1 DEF Schema!LegacyCustomer, RowsInv, RowTypes
<1>4. ASSUME NEW v \in Schema!Ids(vehicles)
      PROVE  /\ vehicles'[v] \in VehicleRow /\ vehicles'[v].owner \in customers'
             /\ vehicles'[v].status # None
  <2>1. vehicles[v] \in VehicleRow /\ "legacy" \in customers'
    BY <1>3 DEF RowsInv, RowTypes
  <2>2. PICK s : s = Schema!WhereNull("ACTIVE", IF vehicles[v].active THEN "ACTIVE" ELSE "INACTIVE")
    OBVIOUS
  <2>3. s = "ACTIVE" /\ s # None
    BY <2>2 DEF Schema!WhereNull, Schema!NullAssumption, Schema!VehicleStatuses
  <2>4. PICK old \in VehicleRow : old = vehicles[v]
    BY <2>1
  <2>5. vehicles'[v] = [old EXCEPT !.active = FALSE, !.status = s, !.owner = "legacy"]
    BY <1>2, <2>1, <2>2, <2>4
  <2>6. vehicles'[v] = [active |-> FALSE, longPlate |-> old.longPlate,
                        status |-> s, owner |-> "legacy", deleted |-> old.deleted]
    BY <2>5 DEF VehicleRow
  <2> QED
    BY <2>1, <2>3, <2>6 DEF VehicleRow, Schema!VehicleStatuses
<1>5. DOMAIN vehicles' = DOMAIN vehicles
  BY <1>2 DEF Schema!Ids
<1>6. RowTypes'
  BY <1>1, <1>4, <1>5, <1>3 DEF RowsInv, RowTypes, Schema!Ids
<1>7. VehiclesFit'
  BY <1>4, <1>5 DEF VehiclesFit, Schema!Ids
<1>8. TrackersFit' /\ AssignmentsFit'
  BY <1>1 DEF RowsInv, TrackersFit, AssignmentsFit, AssignmentFits, Schema!Ids
<1>9. ImeisDiffer'
  BY <1>1 DEF RowsInv, ImeisDiffer, Schema!Distinct, Schema!Live, Schema!Ids
<1> QED
  BY <1>6, <1>7, <1>8, <1>9 DEF RowsInv

LEMMA Down7 ==
  ASSUME Schema!NullAssumption, RowsInv, version = 7, version' = 6, Schema!RowsDown007
  PROVE  RowsInv'
<1>1. /\ trackerRows' = trackerRows /\ assignments' = assignments /\ customers' = customers
  BY DEF Schema!RowsDown007
<1>2. vehicles' = [i \in Schema!Ids(vehicles) |->
           [vehicles[i] EXCEPT !.active = vehicles[i].status = "ACTIVE",
                               !.status = None, !.owner = None, !.deleted = FALSE]]
  BY DEF Schema!RowsDown007, Schema!Every
<1>3. ASSUME NEW v \in Schema!Ids(vehicles)
      PROVE  /\ vehicles'[v] \in VehicleRow /\ vehicles'[v].owner = None
             /\ vehicles'[v].status = None
  <2>1. vehicles[v] \in VehicleRow
    BY DEF RowsInv, RowTypes
  <2>2. PICK b \in BOOLEAN : b = (vehicles[v].status = "ACTIVE")
    OBVIOUS
  <2>3. PICK old \in VehicleRow : old = vehicles[v]
    BY <2>1
  <2>4. vehicles'[v] = [old EXCEPT !.active = b, !.status = None, !.owner = None,
                                    !.deleted = FALSE]
    BY <1>2, <2>2, <2>3
  <2>5. vehicles'[v] = [active |-> b, longPlate |-> old.longPlate, status |-> None,
                        owner |-> None, deleted |-> FALSE]
    BY <2>4 DEF VehicleRow
  <2> QED
    BY <2>5 DEF VehicleRow
<1>4. DOMAIN vehicles' = DOMAIN vehicles
  BY <1>2 DEF Schema!Ids
<1>5. RowTypes'
  BY <1>1, <1>3, <1>4 DEF RowsInv, RowTypes, Schema!Ids
<1>6. VehiclesFit'
  BY <1>3, <1>4 DEF VehiclesFit, Schema!Ids
<1>7. TrackersFit' /\ AssignmentsFit'
  BY <1>1 DEF RowsInv, TrackersFit, AssignmentsFit, AssignmentFits, Schema!Ids
<1>8. ImeisDiffer'
  BY <1>1 DEF RowsInv, ImeisDiffer, Schema!Distinct, Schema!Live, Schema!Ids
<1> QED
  BY <1>5, <1>6, <1>7, <1>8 DEF RowsInv

LEMMA Up8 ==
  ASSUME Schema!NullAssumption, RowsInv, version = 7, version' = 8, Schema!RowsUp008
  PROVE  RowsInv'
<1>1. vehicles' = vehicles /\ customers' = customers
  BY DEF Schema!RowsUp008
<1>2. trackerRows' = [i \in Schema!Ids(trackerRows) |->
        [trackerRows[i] EXCEPT
           !.status = Schema!WhereNull("IN_STOCK",
                                       IF trackerRows[i].active THEN "INSTALLED" ELSE "IN_STOCK")]]
  BY DEF Schema!RowsUp008, Schema!Every
<1>3. assignments' = [i \in Schema!Ids(assignments) |->
        [assignments[i] EXCEPT !.removed = assignments[i].unassigned]]
  BY DEF Schema!RowsUp008, Schema!Every
<1>4. DOMAIN trackerRows' = DOMAIN trackerRows /\ DOMAIN assignments' = DOMAIN assignments
  BY <1>2, <1>3 DEF Schema!Ids
<1>5. ASSUME NEW t \in Schema!Ids(trackerRows)
      PROVE  /\ trackerRows'[t] \in TrackerRow /\ trackerRows'[t].imei = trackerRows[t].imei
             /\ trackerRows'[t].status # None
  <2>1. PICK old \in TrackerRow : old = trackerRows[t]
    BY DEF RowsInv, RowTypes
  <2>2. PICK s : s = Schema!WhereNull("IN_STOCK",
                                      IF trackerRows[t].active THEN "INSTALLED" ELSE "IN_STOCK")
    OBVIOUS
  <2>3. s = "IN_STOCK" /\ s # None
    BY <2>2 DEF Schema!WhereNull, Schema!NullAssumption, Schema!TrackerStatuses,
       Schema!Installable
  <2>4. trackerRows'[t] = [old EXCEPT !.status = s]
    BY <1>2, <2>1, <2>2
  <2>5. trackerRows'[t] = [imei |-> old.imei, active |-> old.active, status |-> s,
                           deleted |-> old.deleted]
    BY <2>4 DEF TrackerRow
  <2> QED
    BY <2>1, <2>3, <2>5 DEF TrackerRow, Schema!TrackerStatuses, Schema!Installable
<1>6. ASSUME NEW a \in Schema!Ids(assignments)
      PROVE  /\ assignments'[a] \in AssignmentRow
             /\ assignments'[a].status = assignments[a].status
             /\ assignments'[a].unassigned => assignments'[a].removed
  <2>1. PICK old \in AssignmentRow : old = assignments[a]
    BY DEF RowsInv, RowTypes
  <2>2. assignments'[a] = [old EXCEPT !.removed = old.unassigned]
    BY <1>3, <2>1
  <2>3. assignments'[a] = [tracker |-> old.tracker, vehicle |-> old.vehicle,
                           unassigned |-> old.unassigned, removed |-> old.unassigned,
                           status |-> old.status]
    BY <2>2 DEF AssignmentRow
  <2> QED
    BY <2>1, <2>3 DEF AssignmentRow
<1>7. RowTypes'
  BY <1>1, <1>4, <1>5, <1>6 DEF RowsInv, RowTypes, Schema!Ids
<1>8. VehiclesFit'
  BY <1>1 DEF RowsInv, VehiclesFit, Schema!Ids
<1>9. TrackersFit'
  BY <1>4, <1>5 DEF TrackersFit, Schema!Ids
<1>10. AssignmentsFit'
  BY <1>4, <1>6 DEF RowsInv, AssignmentsFit, AssignmentFits, Schema!Ids
<1>11. ImeisDiffer'
  BY <1>4, <1>5 DEF RowsInv, ImeisDiffer, Schema!Distinct, Schema!Ids
<1> QED
  BY <1>7, <1>8, <1>9, <1>10, <1>11 DEF RowsInv

LEMMA Down8 ==
  ASSUME Schema!NullAssumption, RowsInv, version = 8, version' = 7, Schema!RowsDown008
  PROVE  RowsInv'
<1>1. vehicles' = vehicles /\ customers' = customers
  BY DEF Schema!RowsDown008
<1>2. trackerRows' = [i \in Schema!Ids(trackerRows) |->
        [trackerRows[i] EXCEPT !.status = None, !.deleted = FALSE]]
  BY DEF Schema!RowsDown008, Schema!Every
<1>3. assignments' = [i \in Schema!Ids(assignments) |-> [assignments[i] EXCEPT !.removed = FALSE]]
  BY DEF Schema!RowsDown008, Schema!Every
<1>4. DOMAIN trackerRows' = DOMAIN trackerRows /\ DOMAIN assignments' = DOMAIN assignments
  BY <1>2, <1>3 DEF Schema!Ids
<1>5. ASSUME NEW t \in Schema!Ids(trackerRows)
      PROVE  /\ trackerRows'[t] \in TrackerRow /\ trackerRows'[t].imei = trackerRows[t].imei
             /\ trackerRows'[t].status = None
  <2>1. PICK old \in TrackerRow : old = trackerRows[t]
    BY DEF RowsInv, RowTypes
  <2>2. trackerRows'[t] = [old EXCEPT !.status = None, !.deleted = FALSE]
    BY <1>2, <2>1
  <2>3. trackerRows'[t] = [imei |-> old.imei, active |-> old.active, status |-> None,
                           deleted |-> FALSE]
    BY <2>2 DEF TrackerRow
  <2> QED
    BY <2>1, <2>3 DEF TrackerRow
<1>6. ASSUME NEW a \in Schema!Ids(assignments)
      PROVE  assignments'[a] \in AssignmentRow /\ assignments'[a].status = assignments[a].status
  <2>1. PICK old \in AssignmentRow : old = assignments[a]
    BY DEF RowsInv, RowTypes
  <2>2. assignments'[a] = [old EXCEPT !.removed = FALSE]
    BY <1>3, <2>1
  <2>3. assignments'[a] = [tracker |-> old.tracker, vehicle |-> old.vehicle,
                           unassigned |-> old.unassigned, removed |-> FALSE,
                           status |-> old.status]
    BY <2>2 DEF AssignmentRow
  <2> QED
    BY <2>1, <2>3 DEF AssignmentRow
<1>7. RowTypes'
  BY <1>1, <1>4, <1>5, <1>6 DEF RowsInv, RowTypes, Schema!Ids
<1>8. VehiclesFit'
  BY <1>1 DEF RowsInv, VehiclesFit, Schema!Ids
<1>9. TrackersFit'
  BY <1>4, <1>5 DEF TrackersFit, Schema!Ids
<1>10. AssignmentsFit'
  BY <1>4, <1>6 DEF RowsInv, AssignmentsFit, AssignmentFits, Schema!Ids
<1>11. ImeisDiffer'
  BY <1>4, <1>5 DEF RowsInv, ImeisDiffer, Schema!Distinct, Schema!Ids
<1> QED
  BY <1>7, <1>8, <1>9, <1>10, <1>11 DEF RowsInv

\* Only the status of the installations changes: 010, up or down.
LEMMA StatusesChange ==
  ASSUME Schema!NullAssumption, RowsInv, version \in {9, 10}, version' \in {9, 10},
         vehicles' = vehicles, trackerRows' = trackerRows, customers' = customers,
         DOMAIN assignments' = DOMAIN assignments,
         \A a \in Schema!Ids(assignments) :
           \E s \in {None, "INSTALLED", "REMOVED"} :
             /\ assignments'[a] = [assignments[a] EXCEPT !.status = s]
             /\ IF version' = 10
                THEN s # None /\ (s = "REMOVED" <=> assignments[a].removed)
                ELSE s = None
  PROVE  RowsInv'
<1>1. ASSUME NEW a \in Schema!Ids(assignments)
      PROVE  /\ assignments'[a] \in AssignmentRow
             /\ IF version' = 10
                THEN /\ assignments'[a].status # None
                     /\ assignments'[a].status \in Schema!ClosedStatuses
                          => assignments'[a].removed
                ELSE assignments'[a].status = None
             /\ assignments'[a].unassigned => assignments'[a].removed
  <2>1. PICK old \in AssignmentRow : old = assignments[a]
    BY DEF RowsInv, RowTypes
  <2>2. PICK s \in {None, "INSTALLED", "REMOVED"} :
          /\ assignments'[a] = [old EXCEPT !.status = s]
          /\ IF version' = 10 THEN s # None /\ (s = "REMOVED" <=> old.removed) ELSE s = None
    BY <2>1
  <2>3. assignments'[a] = [tracker |-> old.tracker, vehicle |-> old.vehicle,
                           unassigned |-> old.unassigned, removed |-> old.removed,
                           status |-> s]
    BY <2>2 DEF AssignmentRow
  <2>4. old.unassigned => old.removed
    BY <2>1 DEF RowsInv, AssignmentsFit, AssignmentFits
  <2> QED
    BY <2>2, <2>3, <2>4 DEF AssignmentRow, Schema!InstallationStatuses,
       Schema!ActiveStatuses, Schema!ClosedStatuses
<1>2. RowTypes'
  BY <1>1 DEF RowsInv, RowTypes, Schema!Ids
<1>3. VehiclesFit' /\ TrackersFit'
  BY DEF RowsInv, VehiclesFit, TrackersFit, Schema!Ids
<1>4. AssignmentsFit'
  BY <1>1 DEF AssignmentsFit, AssignmentFits, Schema!Ids
<1>5. ImeisDiffer'
  BY DEF RowsInv, ImeisDiffer, Schema!Distinct, Schema!Live, Schema!Ids
<1> QED
  BY <1>2, <1>3, <1>4, <1>5 DEF RowsInv

LEMMA Up10 ==
  ASSUME Schema!NullAssumption, RowsInv, version = 9, version' = 10, Schema!RowsUp010
  PROVE  RowsInv'
<1>1. vehicles' = vehicles /\ trackerRows' = trackerRows /\ customers' = customers
  BY DEF Schema!RowsUp010
<1>2. assignments' = [i \in Schema!Ids(assignments) |->
        [assignments[i] EXCEPT !.status = Schema!StatusOf(assignments[i])]]
  BY DEF Schema!RowsUp010, Schema!Every
<1>3. ASSUME NEW a \in Schema!Ids(assignments)
      PROVE  \E s \in {None, "INSTALLED", "REMOVED"} :
               /\ assignments'[a] = [assignments[a] EXCEPT !.status = s]
               /\ s # None /\ (s = "REMOVED" <=> assignments[a].removed)
  <2>1. PICK s : s = Schema!StatusOf(assignments[a])
    OBVIOUS
  <2>2. /\ s \in {None, "INSTALLED", "REMOVED"} /\ s # None
        /\ s = "REMOVED" <=> assignments[a].removed
    BY <2>1 DEF Schema!StatusOf, Schema!NullAssumption, Schema!InstallationStatuses,
       Schema!ActiveStatuses, Schema!ClosedStatuses
  <2>3. assignments'[a] = [assignments[a] EXCEPT !.status = s]
    BY <1>2, <2>1
  <2> QED
    BY <2>2, <2>3
<1>4. DOMAIN assignments' = DOMAIN assignments
  BY <1>2 DEF Schema!Ids
<1> QED
  BY <1>1, <1>3, <1>4, StatusesChange

LEMMA Down10 ==
  ASSUME Schema!NullAssumption, RowsInv, version = 10, version' = 9, Schema!RowsDown010
  PROVE  RowsInv'
<1>1. vehicles' = vehicles /\ trackerRows' = trackerRows /\ customers' = customers
  BY DEF Schema!RowsDown010
<1>2. assignments' = [i \in Schema!Ids(assignments) |-> [assignments[i] EXCEPT !.status = None]]
  BY DEF Schema!RowsDown010, Schema!Every
<1>3. ASSUME NEW a \in Schema!Ids(assignments)
      PROVE  \E s \in {None, "INSTALLED", "REMOVED"} :
               /\ assignments'[a] = [assignments[a] EXCEPT !.status = s]
               /\ s = None
  BY <1>2
<1>4. DOMAIN assignments' = DOMAIN assignments
  BY <1>2 DEF Schema!Ids
<1> QED
  BY <1>1, <1>3, <1>4, StatusesChange

LEMMA Down2 ==
  ASSUME RowsInv, version' \in 0..14, Schema!RowsDown002
  PROVE  RowsInv'
<1>1. DOMAIN vehicles' = {} /\ DOMAIN trackerRows' = {} /\ DOMAIN assignments' = {}
  BY DEF Schema!RowsDown002
<1>2. customers' = customers
  BY DEF Schema!RowsDown002
<1>3. RowTypes'
  BY <1>1, <1>2 DEF RowsInv, RowTypes, Schema!Ids
<1> QED
  BY <1>1, <1>3 DEF RowsInv, VehiclesFit, TrackersFit, AssignmentsFit, ImeisDiffer,
     Schema!Distinct, Schema!Ids

LEMMA Down6 ==
  ASSUME RowsInv, version = 6, version' = 5, Schema!RowsDown006
  PROVE  RowsInv'
<1>1. /\ vehicles' = vehicles /\ trackerRows' = trackerRows /\ assignments' = assignments
      /\ customers' = {}
  BY DEF Schema!RowsDown006
<1>2. RowTypes'
  BY <1>1 DEF RowsInv, RowTypes, Schema!Ids
<1>3. VehiclesFit' /\ TrackersFit' /\ AssignmentsFit'
  BY <1>1 DEF RowsInv, VehiclesFit, TrackersFit, AssignmentsFit, AssignmentFits, Schema!Ids
<1>4. ImeisDiffer'
  BY <1>1 DEF RowsInv, ImeisDiffer, Schema!Distinct, Schema!Live, Schema!Ids
<1> QED
  BY <1>2, <1>3, <1>4 DEF RowsInv

LEMMA Upgrades ==
  ASSUME Schema!NullAssumption, RowsInv, Schema!Upgrade
  PROVE  RowsInv'
<1>1. version \in 0..13 /\ version' = version + 1
  BY DEF Schema!Upgrade, Schema!Head, RowsInv, RowTypes
<1>2. CASE version = 6
  BY <1>1, <1>2, Up7 DEF Schema!Upgrade
<1>3. CASE version = 7
  BY <1>1, <1>3, Up8 DEF Schema!Upgrade
<1>4. CASE version = 9
  BY <1>1, <1>4, Up10 DEF Schema!Upgrade
<1>5. CASE version \notin {6, 7, 9}
  <2>1. Schema!RowsStay
    BY <1>1, <1>5 DEF Schema!Upgrade
  <2>2. /\ version' \in 0..14 /\ (version' <= 10 => version <= 10)
        /\ version' >= 7 <=> version >= 7
        /\ version' >= 8 <=> version >= 8
        /\ version' >= 10 <=> version >= 10
    BY <1>1, <1>5
  <2> QED
    BY <2>1, <2>2, RowsStayFit
<1> QED
  BY <1>2, <1>3, <1>4, <1>5

LEMMA Downgrades ==
  ASSUME Schema!NullAssumption, RowsInv, Schema!Downgrade
  PROVE  RowsInv'
<1>1. version \in 1..14 /\ version' = version - 1
  BY DEF Schema!Downgrade, RowsInv, RowTypes
<1>2. CASE version = 2
  <2>1. Schema!RowsDown002 /\ version' \in 0..14
    BY <1>1, <1>2 DEF Schema!Downgrade
  <2> QED
    BY <2>1, Down2
<1>3. CASE version = 6
  BY <1>1, <1>3, Down6 DEF Schema!Downgrade
<1>4. CASE version = 7
  BY <1>1, <1>4, Down7 DEF Schema!Downgrade
<1>5. CASE version = 8
  BY <1>1, <1>5, Down8 DEF Schema!Downgrade
<1>6. CASE version = 10
  BY <1>1, <1>6, Down10 DEF Schema!Downgrade
<1>7. CASE version \notin {2, 6, 7, 8, 10}
  <2>1. Schema!RowsStay
    BY <1>1, <1>7 DEF Schema!Downgrade
  <2>2. /\ version' \in 0..14
        /\ version' >= 7 <=> version >= 7
        /\ version' >= 8 <=> version >= 8
        /\ version' >= 10 <=> version >= 10
    BY <1>1, <1>7
  <2>3. version' <= 10 => version <= 10 \/ Schema!Distinct(Schema!Ids(trackerRows))
    BY <1>1 DEF Schema!Downgrade
  <2> QED
    BY <2>1, <2>2, <2>3, RowsStayFit
<1> QED
  BY <1>2, <1>3, <1>4, <1>5, <1>6, <1>7

\* A row more in a table.
LEMMA VehicleAdded ==
  ASSUME RowsInv, NEW v \in Vehicles, NEW row \in VehicleRow, v \notin Schema!Ids(vehicles),
         vehicles' = Schema!Insert(vehicles, v, row),
         trackerRows' = trackerRows, assignments' = assignments, customers' = customers,
         version' = version,
         IF version >= 7 THEN row.owner \in customers /\ row.status # None
         ELSE row.owner = None /\ row.status = None
  PROVE  RowsInv'
<1>1. /\ DOMAIN vehicles' = DOMAIN vehicles \cup {v} /\ vehicles'[v] = row
      /\ \A w \in DOMAIN vehicles : vehicles'[w] = vehicles[w]
  BY DEF Schema!Insert, Schema!Ids
<1>2. RowTypes'
  BY <1>1 DEF RowsInv, RowTypes, Schema!Ids
<1>3. VehiclesFit'
  BY <1>1 DEF RowsInv, VehiclesFit, Schema!Ids
<1>4. TrackersFit' /\ AssignmentsFit'
  BY DEF RowsInv, TrackersFit, AssignmentsFit, AssignmentFits, Schema!Ids
<1>5. ImeisDiffer'
  BY DEF RowsInv, ImeisDiffer, Schema!Distinct, Schema!Live, Schema!Ids
<1> QED
  BY <1>2, <1>3, <1>4, <1>5 DEF RowsInv

LEMMA TrackerAdded ==
  ASSUME RowsInv, NEW t \in Trackers, NEW row \in TrackerRow, t \notin Schema!Ids(trackerRows),
         trackerRows' = Schema!Insert(trackerRows, t, row),
         vehicles' = vehicles, assignments' = assignments, customers' = customers,
         version' = version, row.status # None <=> version >= 8,
         \A u \in Schema!Ids(trackerRows) :
           Schema!Live(u) \/ version <= 10 => trackerRows[u].imei # row.imei
  PROVE  RowsInv'
<1>1. /\ DOMAIN trackerRows' = DOMAIN trackerRows \cup {t} /\ trackerRows'[t] = row
      /\ \A u \in DOMAIN trackerRows : trackerRows'[u] = trackerRows[u]
  BY DEF Schema!Insert, Schema!Ids
<1>2. RowTypes'
  BY <1>1 DEF RowsInv, RowTypes, Schema!Ids
<1>3. VehiclesFit' /\ AssignmentsFit'
  BY DEF RowsInv, VehiclesFit, AssignmentsFit, AssignmentFits, Schema!Ids
<1>4. TrackersFit'
  BY <1>1 DEF RowsInv, TrackersFit, Schema!Ids
<1>5. ImeisDiffer'
  <2>1. Schema!Distinct({u \in Schema!Ids(trackerRows) : Schema!Live(u)})'
    BY <1>1 DEF RowsInv, ImeisDiffer, Schema!Distinct, Schema!Live, Schema!Ids
  <2>2. version <= 10 => Schema!Distinct(Schema!Ids(trackerRows))'
    BY <1>1 DEF RowsInv, ImeisDiffer, Schema!Distinct, Schema!Ids
  <2> QED
    BY <2>1, <2>2 DEF ImeisDiffer
<1> QED
  BY <1>2, <1>3, <1>4, <1>5 DEF RowsInv

LEMMA AssignmentAdded ==
  ASSUME RowTypes, AssignmentsFit, NEW a, NEW row \in AssignmentRow,
         a \notin Schema!Ids(assignments),
         assignments' = Schema!Insert(assignments, a, row), version' = version,
         AssignmentFits(row)
  PROVE  AssignmentsFit' /\ \A b \in Schema!Ids(assignments)' : assignments'[b] \in AssignmentRow
<1>1. /\ DOMAIN assignments' = DOMAIN assignments \cup {a} /\ assignments'[a] = row
      /\ \A b \in DOMAIN assignments : assignments'[b] = assignments[b]
  BY DEF Schema!Insert, Schema!Ids
<1>2. AssignmentsFit'
  BY <1>1 DEF AssignmentsFit, AssignmentFits, Schema!Ids
<1> QED
  BY <1>1, <1>2 DEF RowTypes, Schema!Ids

LEMMA LegacyRows ==
  ASSUME Schema!NullAssumption, RowsInv, Schema!LegacyRow
  PROVE  RowsInv'
<1>1. version \in 2..6 /\ version' = version /\ customers' = customers
  BY DEF Schema!LegacyRow
<1>2. CASE \E v \in Vehicles \ Schema!Ids(vehicles), active, long \in BOOLEAN :
             /\ vehicles' = Schema!Insert(vehicles, v,
                  [active |-> active, longPlate |-> long, status |-> None, owner |-> None,
                   deleted |-> FALSE])
             /\ UNCHANGED <<trackerRows, assignments>>
  <2>1. PICK v \in Vehicles \ Schema!Ids(vehicles), active, long \in BOOLEAN :
             /\ vehicles' = Schema!Insert(vehicles, v,
                  [active |-> active, longPlate |-> long, status |-> None, owner |-> None,
                   deleted |-> FALSE])
             /\ UNCHANGED <<trackerRows, assignments>>
    BY <1>2
  <2>2. PICK row \in VehicleRow :
          row = [active |-> active, longPlate |-> long, status |-> None, owner |-> None,
                 deleted |-> FALSE]
    BY DEF VehicleRow
  <2>3. row.owner = None /\ row.status = None /\ ~(version >= 7)
    BY <1>1, <2>2
  <2> QED
    BY <1>1, <2>1, <2>2, <2>3, VehicleAdded
<1>3. CASE \E t \in Trackers \ Schema!Ids(trackerRows), i \in Imeis, active \in BOOLEAN :
             /\ \A u \in Schema!Ids(trackerRows) : trackerRows[u].imei # i
             /\ trackerRows' = Schema!Insert(trackerRows, t,
                  [imei |-> i, active |-> active, status |-> None, deleted |-> FALSE])
             /\ UNCHANGED <<vehicles, assignments>>
  <2>1. PICK t \in Trackers \ Schema!Ids(trackerRows), i \in Imeis, active \in BOOLEAN :
             /\ \A u \in Schema!Ids(trackerRows) : trackerRows[u].imei # i
             /\ trackerRows' = Schema!Insert(trackerRows, t,
                  [imei |-> i, active |-> active, status |-> None, deleted |-> FALSE])
             /\ UNCHANGED <<vehicles, assignments>>
    BY <1>3
  <2>2. PICK row \in TrackerRow :
          row = [imei |-> i, active |-> active, status |-> None, deleted |-> FALSE]
    BY DEF TrackerRow
  <2>3. row.status = None /\ row.imei = i /\ ~(version >= 8)
    BY <1>1, <2>2
  <2> QED
    BY <1>1, <2>1, <2>2, <2>3, TrackerAdded
<1>4. CASE \E a \in Assignments \ Schema!Ids(assignments), t \in Schema!Ids(trackerRows),
              v \in Schema!Ids(vehicles),
              unassigned \in BOOLEAN :
             /\ assignments' = Schema!Insert(assignments, a,
                  [tracker |-> t, vehicle |-> v, unassigned |-> unassigned, removed |-> FALSE,
                   status |-> None])
             /\ UNCHANGED <<vehicles, trackerRows>>
  <2>1. PICK a \in Assignments \ Schema!Ids(assignments), t \in Schema!Ids(trackerRows),
             v \in Schema!Ids(vehicles),
             unassigned \in BOOLEAN :
             /\ assignments' = Schema!Insert(assignments, a,
                  [tracker |-> t, vehicle |-> v, unassigned |-> unassigned, removed |-> FALSE,
                   status |-> None])
             /\ UNCHANGED <<vehicles, trackerRows>>
    BY <1>4
  <2>2. t \in Trackers /\ v \in Vehicles
    BY DEF RowsInv, RowTypes
  <2>3. PICK row \in AssignmentRow :
          row = [tracker |-> t, vehicle |-> v, unassigned |-> unassigned, removed |-> FALSE,
                 status |-> None]
    BY <2>2 DEF AssignmentRow
  <2>4. AssignmentFits(row)
    BY <1>1, <2>3 DEF AssignmentFits
  <2>5. AssignmentsFit' /\ \A b \in Schema!Ids(assignments)' : assignments'[b] \in AssignmentRow
    BY <1>1, <2>1, <2>3, <2>4, AssignmentAdded DEF RowsInv
  <2>6. RowTypes'
    BY <1>1, <2>1, <2>5 DEF RowsInv, RowTypes, Schema!Ids
  <2>7. VehiclesFit' /\ TrackersFit'
    BY <1>1, <2>1 DEF RowsInv, VehiclesFit, TrackersFit, Schema!Ids
  <2>8. ImeisDiffer'
    BY <1>1, <2>1 DEF RowsInv, ImeisDiffer, Schema!Distinct, Schema!Live, Schema!Ids
  <2> QED
    BY <2>5, <2>6, <2>7, <2>8 DEF RowsInv
<1> QED
  BY <1>2, <1>3, <1>4 DEF Schema!LegacyRow

-----------------------------------------------------------------------------
(* What the back office does at the head. First what an UPDATE of two        *)
(* columns leaves in a row.                                                  *)
LEMMA VehicleWritten ==
  ASSUME NEW row \in VehicleRow, NEW s \in {None} \cup Schema!VehicleStatuses
  PROVE  [row EXCEPT !.status = s, !.deleted = TRUE]
           = [active |-> row.active, longPlate |-> row.longPlate, status |-> s,
              owner |-> row.owner, deleted |-> TRUE]
<1>1. PICK mid : mid = [row EXCEPT !.status = s]
  OBVIOUS
<1>2. mid = [active |-> row.active, longPlate |-> row.longPlate, status |-> s,
             owner |-> row.owner, deleted |-> row.deleted]
  BY <1>1 DEF VehicleRow
<1>3. mid \in VehicleRow
  BY <1>2 DEF VehicleRow
<1>4. PICK last : last = [mid EXCEPT !.deleted = TRUE]
  OBVIOUS
<1>5. last = [active |-> mid.active, longPlate |-> mid.longPlate, status |-> mid.status,
              owner |-> mid.owner, deleted |-> TRUE]
  BY <1>3, <1>4 DEF VehicleRow
<1> QED
  BY <1>1, <1>2, <1>4, <1>5

LEMMA TrackerWritten ==
  ASSUME NEW row \in TrackerRow, NEW s
  PROVE  [row EXCEPT !.deleted = TRUE, !.status = s]
           = [imei |-> row.imei, active |-> row.active, status |-> s, deleted |-> TRUE]
<1>1. PICK mid : mid = [row EXCEPT !.deleted = TRUE]
  OBVIOUS
<1>2. mid = [imei |-> row.imei, active |-> row.active, status |-> row.status,
             deleted |-> TRUE]
  BY <1>1 DEF TrackerRow
<1>3. mid \in TrackerRow
  BY <1>2 DEF TrackerRow
<1>4. PICK last : last = [mid EXCEPT !.status = s]
  OBVIOUS
<1>5. last = [imei |-> mid.imei, active |-> mid.active, status |-> s, deleted |-> mid.deleted]
  BY <1>3, <1>4 DEF TrackerRow
<1> QED
  BY <1>1, <1>2, <1>4, <1>5

LEMMA AssignmentWritten ==
  ASSUME NEW row \in AssignmentRow, NEW r \in BOOLEAN, NEW s
  PROVE  [row EXCEPT !.removed = r, !.status = s]
           = [tracker |-> row.tracker, vehicle |-> row.vehicle,
              unassigned |-> row.unassigned, removed |-> r, status |-> s]
<1>1. PICK mid : mid = [row EXCEPT !.removed = r]
  OBVIOUS
<1>2. mid = [tracker |-> row.tracker, vehicle |-> row.vehicle,
             unassigned |-> row.unassigned, removed |-> r, status |-> row.status]
  BY <1>1 DEF AssignmentRow
<1>3. mid \in AssignmentRow
  BY <1>2 DEF AssignmentRow
<1>4. PICK last : last = [mid EXCEPT !.status = s]
  OBVIOUS
<1>5. last = [tracker |-> mid.tracker, vehicle |-> mid.vehicle,
              unassigned |-> mid.unassigned, removed |-> mid.removed, status |-> s]
  BY <1>3, <1>4 DEF AssignmentRow
<1> QED
  BY <1>1, <1>2, <1>4, <1>5

\* What each table must be after a request.
VehiclesDone ==
  /\ DOMAIN vehicles' = DOMAIN vehicles
  /\ \A v \in Schema!Ids(vehicles) :
       /\ vehicles'[v] \in VehicleRow
       /\ vehicles'[v].owner \in customers /\ vehicles'[v].status # None
TrackersDone ==
  /\ DOMAIN trackerRows' = DOMAIN trackerRows
  /\ \A u \in Schema!Ids(trackerRows) :
       trackerRows'[u] \in TrackerRow /\ trackerRows'[u].status # None
ImeisKept ==
  \A u \in Schema!Ids(trackerRows) :
    /\ trackerRows'[u].imei = trackerRows[u].imei
    /\ trackerRows[u].deleted => trackerRows'[u].deleted
AssignmentsDone ==
  \A a \in Schema!Ids(assignments)' :
    assignments'[a] \in AssignmentRow /\ AssignmentFits(assignments'[a])

LEMMA TablesKept ==
  ASSUME RowsInv, version = 14
  PROVE  /\ vehicles' = vehicles => VehiclesDone
         /\ trackerRows' = trackerRows => TrackersDone /\ ImeisKept
         /\ assignments' = assignments => AssignmentsDone
<1>1. vehicles' = vehicles => VehiclesDone
  BY DEF RowsInv, RowTypes, VehiclesFit, VehiclesDone
<1>2. trackerRows' = trackerRows => TrackersDone /\ ImeisKept
  BY DEF RowsInv, RowTypes, TrackersFit, TrackersDone, ImeisKept
<1>3. assignments' = assignments => AssignmentsDone
  BY DEF RowsInv, RowTypes, AssignmentsFit, AssignmentsDone, Schema!Ids
<1> QED
  BY <1>1, <1>2, <1>3

LEMMA ImeisStayApart ==
  ASSUME RowsInv, TrackersDone, ImeisKept
  PROVE  Schema!Distinct({t \in Schema!Ids(trackerRows) : Schema!Live(t)})'
BY DEF RowsInv, ImeisDiffer, TrackersDone, ImeisKept, Schema!Distinct, Schema!Live, Schema!Ids

LEMMA RequestFits ==
  ASSUME RowsInv, version = 14, version' = 14, customers' = customers,
         VehiclesDone, TrackersDone, AssignmentsDone,
         Schema!Distinct({t \in Schema!Ids(trackerRows) : Schema!Live(t)})'
  PROVE  RowsInv'
<1>1. RowTypes'
  BY DEF RowsInv, RowTypes, VehiclesDone, TrackersDone, AssignmentsDone, Schema!Ids
<1>2. VehiclesFit'
  BY DEF VehiclesDone, VehiclesFit, Schema!Ids
<1>3. TrackersFit'
  BY DEF TrackersDone, TrackersFit, Schema!Ids
<1>4. AssignmentsFit'
  BY DEF AssignmentsDone, AssignmentsFit, AssignmentFits, Schema!Ids
<1>5. ImeisDiffer'
  BY DEF ImeisDiffer
<1> QED
  BY <1>1, <1>2, <1>3, <1>4, <1>5 DEF RowsInv

\* One row of a table that changes.
LEMMA VehicleChanged ==
  ASSUME RowsInv, version = 14, NEW v \in Schema!Ids(vehicles), NEW row \in VehicleRow,
         row.owner \in customers, row.status # None,
         vehicles' = [vehicles EXCEPT ![v] = row]
  PROVE  VehiclesDone
BY DEF RowsInv, RowTypes, VehiclesFit, VehiclesDone, Schema!Ids

LEMMA TrackerChanged ==
  ASSUME RowsInv, version = 14, NEW t, NEW row,
         trackerRows' = [trackerRows EXCEPT ![t] = row],
         t \in Schema!Ids(trackerRows) => row \in TrackerRow /\ row.status # None
  PROVE  TrackersDone
BY DEF RowsInv, RowTypes, TrackersFit, TrackersDone, Schema!Ids

\* A tracker gets another status, and nothing else.
LEMMA TrackerStatusSet ==
  ASSUME Schema!NullAssumption, RowsInv, version = 14, NEW t,
         NEW s \in Schema!TrackerStatuses,
         trackerRows' = [trackerRows EXCEPT ![t].status = s]
  PROVE  TrackersDone /\ ImeisKept
<1>1. PICK row : row = [trackerRows[t] EXCEPT !.status = s]
  OBVIOUS
<1>2. trackerRows' = [trackerRows EXCEPT ![t] = row]
  BY <1>1
<1>3. ASSUME t \in Schema!Ids(trackerRows)
      PROVE  /\ row \in TrackerRow /\ row.status # None
             /\ row.imei = trackerRows[t].imei /\ row.deleted = trackerRows[t].deleted
  <2>1. PICK old \in TrackerRow : old = trackerRows[t]
    BY <1>3 DEF RowsInv, RowTypes
  <2>2. row = [imei |-> old.imei, active |-> old.active, status |-> s,
               deleted |-> old.deleted]
    BY <1>1, <2>1 DEF TrackerRow
  <2>3. s # None
    BY DEF Schema!NullAssumption
  <2> QED
    BY <2>1, <2>2, <2>3 DEF TrackerRow
<1>4. TrackersDone
  BY <1>2, <1>3, TrackerChanged
<1>5. ImeisKept
  BY <1>2, <1>3 DEF ImeisKept, Schema!Ids
<1> QED
  BY <1>4, <1>5

LEMMA AssignmentChanged ==
  ASSUME RowsInv, NEW a \in Schema!Ids(assignments), NEW row \in AssignmentRow,
         AssignmentFits(row), assignments' = [assignments EXCEPT ![a] = row]
  PROVE  AssignmentsDone
BY DEF RowsInv, RowTypes, AssignmentsFit, AssignmentsDone, Schema!Ids

LEMMA StatusFacts ==
  ASSUME Schema!NullAssumption
  PROVE  /\ {"INSTALLED", "IN_STOCK", "DISPOSED"} \subseteq Schema!TrackerStatuses
         /\ {"INSTALLED", "IN_PROGRESS", "REMOVED"} \subseteq Schema!InstallationStatuses
         /\ Schema!ClosedStatuses \subseteq Schema!InstallationStatuses
         /\ {"INSTALLED", "IN_PROGRESS"} \cap Schema!ClosedStatuses = {}
         /\ None \notin Schema!TrackerStatuses \cup Schema!InstallationStatuses
         /\ None \notin Schema!VehicleStatuses
         /\ {"ACTIVE", "INACTIVE"} = Schema!VehicleStatuses
BY DEF Schema!NullAssumption, Schema!TrackerStatuses, Schema!Installable,
   Schema!InstallationStatuses, Schema!ActiveStatuses, Schema!ClosedStatuses,
   Schema!VehicleStatuses

\* The requests on vehicles.
LEMMA CreatesVehicle ==
  ASSUME Schema!NullAssumption, RowsInv, version = 14, version' = 14,
         NEW v \in Vehicles, NEW owner \in customers, Schema!CreateVehicle(v, owner)
  PROVE  RowsInv'
<1>1. owner \in {"legacy", "own"}
  BY DEF RowsInv, RowTypes
<1>2. PICK row \in VehicleRow :
        row = [active |-> FALSE, longPlate |-> FALSE, status |-> "ACTIVE", owner |-> owner,
               deleted |-> FALSE]
  BY <1>1, StatusFacts DEF VehicleRow
<1>3. row.owner \in customers /\ row.status # None
  BY <1>2, StatusFacts
<1>4. /\ v \notin Schema!Ids(vehicles) /\ vehicles' = Schema!Insert(vehicles, v, row)
      /\ trackerRows' = trackerRows /\ assignments' = assignments /\ customers' = customers
  BY <1>2 DEF Schema!CreateVehicle
<1> QED
  BY <1>3, <1>4, VehicleAdded

LEMMA WritesVehicle ==
  ASSUME RowsInv, version = 14, version' = 14, NEW v \in Schema!Ids(vehicles),
         NEW row \in VehicleRow, row.owner \in customers, row.status # None,
         Schema!WriteVehicle(v, row)
  PROVE  RowsInv'
<1>1. /\ vehicles' = [vehicles EXCEPT ![v] = row]
      /\ trackerRows' = trackerRows /\ assignments' = assignments /\ customers' = customers
  BY DEF Schema!WriteVehicle
<1> QED
  BY <1>1, VehicleChanged, TablesKept, ImeisStayApart, RequestFits

LEMMA ChangesVehicle ==
  ASSUME Schema!NullAssumption, RowsInv, version = 14, version' = 14,
         NEW v \in Schema!Ids(vehicles),
         \/ \E owner \in customers : Schema!UpdateVehicle(v, owner)
         \/ \E new \in Schema!VehicleStatuses : Schema!SetVehicleStatus(v, new)
         \/ Schema!DeleteVehicle(v)
  PROVE  RowsInv'
<1>1. PICK old \in VehicleRow : old = vehicles[v]
  BY DEF RowsInv, RowTypes
<1>2. old.owner \in customers /\ old.status # None
  BY <1>1 DEF RowsInv, VehiclesFit
<1>3. ASSUME NEW owner \in customers, Schema!UpdateVehicle(v, owner)
      PROVE  RowsInv'
  <2>1. owner \in {None, "legacy", "own"}
    BY DEF RowsInv, RowTypes
  <2>2. PICK row : row = [old EXCEPT !.owner = owner]
    OBVIOUS
  <2>3. row = [active |-> old.active, longPlate |-> old.longPlate, status |-> old.status,
               owner |-> owner, deleted |-> old.deleted]
    BY <2>2 DEF VehicleRow
  <2>4. row \in VehicleRow /\ row.owner \in customers /\ row.status # None
    BY <1>2, <2>1, <2>3 DEF VehicleRow
  <2>5. Schema!WriteVehicle(v, row)
    BY <1>1, <1>3, <2>2 DEF Schema!UpdateVehicle
  <2> QED
    BY <2>4, <2>5, WritesVehicle
<1>4. ASSUME NEW new \in Schema!VehicleStatuses, Schema!SetVehicleStatus(v, new)
      PROVE  RowsInv'
  <2>1. PICK row : row = [old EXCEPT !.status = new]
    OBVIOUS
  <2>2. row = [active |-> old.active, longPlate |-> old.longPlate, status |-> new,
               owner |-> old.owner, deleted |-> old.deleted]
    BY <2>1 DEF VehicleRow
  <2>3. row \in VehicleRow /\ row.owner \in customers /\ row.status # None
    BY <1>2, <2>2, StatusFacts DEF VehicleRow
  <2>4. Schema!WriteVehicle(v, row)
    BY <1>1, <1>4, <2>1 DEF Schema!SetVehicleStatus
  <2> QED
    BY <2>3, <2>4, WritesVehicle
<1>5. ASSUME Schema!DeleteVehicle(v)
      PROVE  RowsInv'
  <2>1. PICK row : row = [old EXCEPT !.status = "INACTIVE", !.deleted = TRUE]
    OBVIOUS
  <2>2. row = [active |-> old.active, longPlate |-> old.longPlate, status |-> "INACTIVE",
               owner |-> old.owner, deleted |-> TRUE]
    BY <2>1, VehicleWritten, StatusFacts
  <2>3. row \in VehicleRow /\ row.owner \in customers /\ row.status # None
    BY <1>2, <2>2, StatusFacts DEF VehicleRow
  <2>4. Schema!WriteVehicle(v, row)
    BY <1>1, <1>5, <2>1 DEF Schema!DeleteVehicle
  <2> QED
    BY <2>3, <2>4, WritesVehicle
<1> QED
  BY <1>3, <1>4, <1>5

\* The requests on trackers.
LEMMA CreatesTracker ==
  ASSUME Schema!NullAssumption, RowsInv, version = 14, version' = 14,
         NEW t \in Trackers, NEW i \in Imeis, NEW status \in CreateStatuses,
         Schema!CreateTracker(t, i, status)
  PROVE  RowsInv'
<1>1. status \in Schema!TrackerStatuses /\ status # None
  BY StatusFacts DEF Schema!NullAssumption
<1>2. PICK row \in TrackerRow :
        row = [imei |-> i, active |-> TRUE, status |-> status, deleted |-> FALSE]
  BY <1>1 DEF TrackerRow
<1>3. row.imei = i /\ row.status # None
  BY <1>1, <1>2
<1>4. /\ t \notin Schema!Ids(trackerRows) /\ trackerRows' = Schema!Insert(trackerRows, t, row)
      /\ \A u \in Schema!Ids(trackerRows) : Schema!Live(u) => trackerRows[u].imei # i
      /\ vehicles' = vehicles /\ assignments' = assignments /\ customers' = customers
  BY <1>2 DEF Schema!CreateTracker, Schema!ImeiFree
<1> QED
  BY <1>3, <1>4, TrackerAdded

LEMMA UpdatesTracker ==
  ASSUME RowsInv, version = 14, version' = 14,
         NEW t \in Schema!Ids(trackerRows), NEW i \in Imeis, Schema!UpdateTracker(t, i)
  PROVE  RowsInv'
<1>1. /\ vehicles' = vehicles /\ customers' = customers /\ assignments' = assignments
      /\ trackerRows' = [trackerRows EXCEPT ![t].imei = i]
      /\ \A u \in Schema!Ids(trackerRows) \ {t} : Schema!Live(u) => trackerRows[u].imei # i
  BY DEF Schema!UpdateTracker, Schema!ImeiFree
<1>2. PICK old \in TrackerRow : old = trackerRows[t]
  BY DEF RowsInv, RowTypes
<1>3. PICK row : row = [old EXCEPT !.imei = i]
  OBVIOUS
<1>4. row = [imei |-> i, active |-> old.active, status |-> old.status,
             deleted |-> old.deleted]
  BY <1>3 DEF TrackerRow
<1>5. trackerRows' = [trackerRows EXCEPT ![t] = row]
  BY <1>1, <1>2, <1>3
<1>6. row \in TrackerRow /\ row.status # None /\ row.imei = i
  BY <1>2, <1>4 DEF TrackerRow, RowsInv, TrackersFit
<1>7. TrackersDone
  BY <1>5, <1>6, TrackerChanged
<1>8. Schema!Distinct({u \in Schema!Ids(trackerRows) : Schema!Live(u)})'
  BY <1>1, <1>5, <1>6 DEF RowsInv, ImeisDiffer, Schema!Distinct, Schema!Live, Schema!Ids
<1> QED
  BY <1>1, <1>7, <1>8, TablesKept, RequestFits

LEMMA SetsTrackerStatus ==
  ASSUME Schema!NullAssumption, RowsInv, version = 14, version' = 14,
         NEW t \in Schema!Ids(trackerRows), NEW new \in ManualStatuses,
         Schema!SetTrackerStatus(t, new)
  PROVE  RowsInv'
<1>1. /\ vehicles' = vehicles /\ customers' = customers
      /\ trackerRows' = [trackerRows EXCEPT ![t].status = new]
  BY DEF Schema!SetTrackerStatus
<1>2. new \in Schema!TrackerStatuses
  BY DEF Schema!NullAssumption
<1>3. TrackersDone /\ ImeisKept
  BY <1>1, <1>2, TrackerStatusSet
<1>4. ASSUME new = "IN_STOCK"
      PROVE  AssignmentsDone
  <2>1. assignments' = [a \in Schema!Ids(assignments) |->
          IF a \in Schema!ActiveOf(t)
          THEN [assignments[a] EXCEPT !.removed = TRUE, !.status = "REMOVED"]
          ELSE assignments[a]]
    BY <1>4 DEF Schema!SetTrackerStatus
  <2>2. ASSUME NEW a \in Schema!Ids(assignments)
        PROVE  assignments'[a] \in AssignmentRow /\ AssignmentFits(assignments'[a])
    <3>1. PICK was \in AssignmentRow : was = assignments[a]
      BY DEF RowsInv, RowTypes
    <3>2. CASE a \in Schema!ActiveOf(t)
      <4>1. assignments'[a] = [was EXCEPT !.removed = TRUE, !.status = "REMOVED"]
        BY <2>1, <3>1, <3>2
      <4>2. assignments'[a] = [tracker |-> was.tracker, vehicle |-> was.vehicle,
              unassigned |-> was.unassigned, removed |-> TRUE, status |-> "REMOVED"]
        BY <4>1, AssignmentWritten
      <4> QED
        BY <4>2, StatusFacts DEF AssignmentRow, AssignmentFits
    <3>3. CASE a \notin Schema!ActiveOf(t)
      BY <2>1, <3>1, <3>3 DEF RowsInv, AssignmentsFit
    <3> QED
      BY <3>2, <3>3
  <2> QED
    BY <2>1, <2>2 DEF AssignmentsDone, Schema!Ids
<1>5. ASSUME new # "IN_STOCK"
      PROVE  AssignmentsDone
  <2>1. assignments' = assignments
    BY <1>5 DEF Schema!SetTrackerStatus
  <2> QED
    BY <2>1, TablesKept
<1> QED
  BY <1>1, <1>3, <1>4, <1>5, TablesKept, ImeisStayApart, RequestFits

LEMMA DeletesTracker ==
  ASSUME Schema!NullAssumption, RowsInv, version = 14, version' = 14,
         NEW t \in Schema!Ids(trackerRows), Schema!DeleteTracker(t)
  PROVE  RowsInv'
<1>1. /\ vehicles' = vehicles /\ customers' = customers /\ assignments' = assignments
      /\ trackerRows' = [trackerRows EXCEPT ![t].deleted = TRUE, ![t].status = "DISPOSED"]
  BY DEF Schema!DeleteTracker
<1>2. PICK old \in TrackerRow : old = trackerRows[t]
  BY DEF RowsInv, RowTypes
<1>3. PICK row : row = [old EXCEPT !.deleted = TRUE, !.status = "DISPOSED"]
  OBVIOUS
<1>4. row = [imei |-> old.imei, active |-> old.active, status |-> "DISPOSED",
             deleted |-> TRUE]
  BY <1>3, TrackerWritten
<1>5. trackerRows' = [trackerRows EXCEPT ![t] = row]
  BY <1>1, <1>2, <1>3 DEF Schema!Ids
<1>6. row \in TrackerRow /\ row.status # None /\ row.imei = old.imei /\ row.deleted
  BY <1>4, StatusFacts DEF TrackerRow
<1>7. TrackersDone
  BY <1>5, <1>6, TrackerChanged
<1>8. ImeisKept
  BY <1>2, <1>5, <1>6 DEF ImeisKept, Schema!Ids
<1> QED
  BY <1>1, <1>7, <1>8, TablesKept, ImeisStayApart, RequestFits

\* The requests on installations.
LEMMA Installs ==
  ASSUME Schema!NullAssumption, RowsInv, version = 14, version' = 14,
         NEW a \in Assignments, NEW t \in Schema!Ids(trackerRows), NEW v \in Schema!Ids(vehicles),
         NEW complete \in BOOLEAN, Schema!Install(a, t, v, complete)
  PROVE  RowsInv'
<1>1. PICK s : s = IF complete THEN "INSTALLED" ELSE "IN_PROGRESS"
  OBVIOUS
<1>2. /\ a \notin Schema!Ids(assignments) /\ vehicles' = vehicles /\ customers' = customers
      /\ assignments' = Schema!Insert(assignments, a,
           [tracker |-> t, vehicle |-> v, unassigned |-> FALSE, removed |-> FALSE,
            status |-> s])
      /\ trackerRows' = IF complete THEN [trackerRows EXCEPT ![t].status = "INSTALLED"]
                                    ELSE trackerRows
  BY <1>1 DEF Schema!Install
<1>3. t \in Trackers /\ v \in Vehicles /\ version' = version
  BY DEF RowsInv, RowTypes
<1>4. /\ s \in Schema!InstallationStatuses /\ s # None /\ s \notin Schema!ClosedStatuses
  BY <1>1, StatusFacts
<1>5. PICK row \in AssignmentRow :
        row = [tracker |-> t, vehicle |-> v, unassigned |-> FALSE, removed |-> FALSE,
               status |-> s]
  BY <1>3, <1>4 DEF AssignmentRow
<1>6. AssignmentFits(row)
  BY <1>4, <1>5 DEF AssignmentFits
<1>7. AssignmentsFit' /\ \A b \in Schema!Ids(assignments)' : assignments'[b] \in AssignmentRow
  BY <1>2, <1>3, <1>5, <1>6, AssignmentAdded DEF RowsInv
<1>8. AssignmentsDone
  BY <1>7, <1>3 DEF AssignmentsFit, AssignmentsDone, AssignmentFits
<1>9. TrackersDone /\ ImeisKept
  BY <1>2, TrackerStatusSet, TablesKept, StatusFacts
<1> QED
  BY <1>2, <1>8, <1>9, TablesKept, ImeisStayApart, RequestFits

LEMMA EditsInstallation ==
  ASSUME Schema!NullAssumption, RowsInv, version = 14, version' = 14,
         NEW a \in Schema!Ids(assignments), NEW new \in Schema!InstallationStatuses,
         Schema!EditInstallation(a, new)
  PROVE  RowsInv'
<1>1. PICK was \in AssignmentRow : was = assignments[a]
  BY DEF RowsInv, RowTypes
<1>2. PICK r \in BOOLEAN : r = (was.removed \/ Schema!Ends(new))
  OBVIOUS
<1>3. /\ vehicles' = vehicles /\ customers' = customers
      /\ assignments' = [assignments EXCEPT ![a] = [was EXCEPT !.removed = r, !.status = new]]
      /\ \/ trackerRows' = trackerRows
         \/ trackerRows' = [trackerRows EXCEPT ![was.tracker].status = "IN_STOCK"]
  BY <1>1, <1>2 DEF Schema!EditInstallation
<1>4. PICK row : row = [was EXCEPT !.removed = r, !.status = new]
  OBVIOUS
<1>5. row = [tracker |-> was.tracker, vehicle |-> was.vehicle,
             unassigned |-> was.unassigned, removed |-> r, status |-> new]
  BY <1>4, AssignmentWritten
<1>6. was.unassigned => was.removed
  BY <1>1 DEF RowsInv, AssignmentsFit, AssignmentFits
<1>7. row \in AssignmentRow
  BY <1>5 DEF AssignmentRow
<1>8. AssignmentFits(row)
  <2>1. (new \in Schema!ClosedStatuses => r) /\ (was.unassigned => r)
    BY <1>2, <1>6 DEF Schema!Ends
  <2>2. row.removed = r /\ row.unassigned = was.unassigned /\ row.status = new
    BY <1>5
  <2>3. new # None
    BY StatusFacts
  <2> QED
    BY <2>1, <2>2, <2>3 DEF AssignmentFits
<1>9. AssignmentsDone
  BY <1>3, <1>4, <1>7, <1>8, AssignmentChanged
<1>10. PICK t : t = was.tracker
  OBVIOUS
<1>11. TrackersDone /\ ImeisKept
  BY <1>3, <1>10, TrackerStatusSet, TablesKept, StatusFacts
<1> QED
  BY <1>3, <1>9, <1>11, TablesKept, ImeisStayApart, RequestFits

LEMMA FinishesInstallation ==
  ASSUME Schema!NullAssumption, RowsInv, version = 14, version' = 14,
         NEW a \in Schema!Ids(assignments), Schema!FinishInstallation(a)
  PROVE  RowsInv'
<1>1. PICK was \in AssignmentRow : was = assignments[a]
  BY DEF RowsInv, RowTypes
<1>2. PICK t : t = was.tracker
  OBVIOUS
<1>3. /\ vehicles' = vehicles /\ customers' = customers
      /\ assignments' = [assignments EXCEPT ![a].status = "INSTALLED"]
      /\ trackerRows' = [trackerRows EXCEPT ![t].status = "INSTALLED"]
  BY <1>1, <1>2 DEF Schema!FinishInstallation
<1>4. PICK row : row = [was EXCEPT !.status = "INSTALLED"]
  OBVIOUS
<1>5. row = [tracker |-> was.tracker, vehicle |-> was.vehicle,
             unassigned |-> was.unassigned, removed |-> was.removed, status |-> "INSTALLED"]
  BY <1>4 DEF AssignmentRow
<1>6. was.unassigned => was.removed
  BY <1>1 DEF RowsInv, AssignmentsFit, AssignmentFits
<1>7. row \in AssignmentRow /\ AssignmentFits(row)
  BY <1>5, <1>6, StatusFacts DEF AssignmentRow, AssignmentFits
<1>8. assignments' = [assignments EXCEPT ![a] = row]
  BY <1>1, <1>3, <1>4
<1>9. AssignmentsDone
  BY <1>7, <1>8, AssignmentChanged
<1>10. TrackersDone /\ ImeisKept
  BY <1>3, TrackerStatusSet, StatusFacts
<1> QED
  BY <1>3, <1>9, <1>10, TablesKept, ImeisStayApart, RequestFits

LEMMA Operates ==
  ASSUME Schema!NullAssumption, RowsInv, Schema!Operate
  PROVE  RowsInv'
<1>1. version = 14 /\ version' = 14
  BY DEF Schema!Operate, Schema!Head
<1>2. CASE Schema!CreateCustomer
  <2>1. /\ vehicles' = vehicles /\ trackerRows' = trackerRows /\ assignments' = assignments
        /\ customers' = customers \cup {"own"}
    BY <1>2 DEF Schema!CreateCustomer
  <2>2. RowTypes'
    BY <1>1, <2>1 DEF RowsInv, RowTypes, Schema!Ids
  <2>3. VehiclesFit' /\ TrackersFit' /\ AssignmentsFit'
    BY <1>1, <2>1 DEF RowsInv, VehiclesFit, TrackersFit, AssignmentsFit, AssignmentFits,
       Schema!Ids
  <2>4. ImeisDiffer'
    BY <1>1, <2>1 DEF RowsInv, ImeisDiffer, Schema!Distinct, Schema!Live, Schema!Ids
  <2> QED
    BY <2>2, <2>3, <2>4 DEF RowsInv
<1>3. CASE \/ \E v \in Vehicles, owner \in customers : Schema!CreateVehicle(v, owner)
           \/ \E v \in Schema!Ids(vehicles) :
                \/ \E owner \in customers : Schema!UpdateVehicle(v, owner)
                \/ \E new \in Schema!VehicleStatuses : Schema!SetVehicleStatus(v, new)
                \/ Schema!DeleteVehicle(v)
  BY <1>1, <1>3, CreatesVehicle, ChangesVehicle
<1>4. CASE \/ \E t \in Trackers, i \in Imeis, status \in CreateStatuses :
                Schema!CreateTracker(t, i, status)
           \/ \E t \in Schema!Ids(trackerRows) :
                \/ \E i \in Imeis : Schema!UpdateTracker(t, i)
                \/ \E new \in ManualStatuses : Schema!SetTrackerStatus(t, new)
                \/ Schema!DeleteTracker(t)
  BY <1>1, <1>4, CreatesTracker, UpdatesTracker, SetsTrackerStatus, DeletesTracker
<1>5. CASE \/ \E a \in Assignments, t \in Schema!Ids(trackerRows), v \in Schema!Ids(vehicles),
                 complete \in BOOLEAN : Schema!Install(a, t, v, complete)
           \/ \E a \in Schema!Ids(assignments) :
                \/ \E new \in Schema!InstallationStatuses : Schema!EditInstallation(a, new)
                \/ Schema!FinishInstallation(a)
  BY <1>1, <1>5, Installs, EditsInstallation, FinishesInstallation
<1> QED
  BY <1>2, <1>3, <1>4, <1>5 DEF Schema!Operate

LEMMA RowsStep ==
  ASSUME Schema!NullAssumption, RowsInv, [Schema!Next]_(Schema!vars)
  PROVE  RowsInv'
<1>1. CASE Schema!Next
  BY <1>1, Upgrades, Downgrades, LegacyRows, Operates DEF Schema!Next
<1>2. CASE UNCHANGED Schema!vars
  <2>1. Schema!RowsStay /\ version' = version
    BY <1>2 DEF Schema!vars, Schema!RowsStay
  <2>2. version \in 0..14
    BY DEF RowsInv, RowTypes
  <2> QED
    BY <2>1, <2>2, RowsStayFit
<1> QED
  BY <1>1, <1>2

(* The rows survive the migrations, up and down and in any order with the    *)
(* requests of both applications, in a state the back office understands.    *)
THEOREM RowsAlwaysFit ==
  ASSUME Schema!NullAssumption
  PROVE  Schema!Spec => []Schema!RowsFitSchema
<1>1. Schema!Init => RowsInv
  BY RowsStart
<1>2. RowsInv /\ [Schema!Next]_(Schema!vars) => RowsInv'
  BY RowsStep
<1>3. RowsInv => Schema!RowsFitSchema
  BY DEF RowsInv, VehiclesFit, TrackersFit, AssignmentsFit, AssignmentFits, ImeisDiffer,
     Schema!RowsFitSchema
<1> QED
  BY <1>1, <1>2, <1>3, PTL DEF Schema!Spec

=============================================================================
