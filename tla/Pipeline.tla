------------------------------- MODULE Pipeline -------------------------------
(***************************************************************************)
(* The way of a report from the frame to what the platform shows of its    *)
(* device: the gateway maps a packet to a contract and stamps it, XADD     *)
(* comes after an await, the worker parses the fields of the stream entry, *)
(* drops duplicates and updates the device. One device, which may be on    *)
(* several connections at a time; crashes, retries and dead letters are    *)
(* the subject of GatewaySessions and TelemetryWorker.                     *)
(***************************************************************************)
EXTENDS Integers, SequencesExt, FiniteSetsExt, TLC

CONSTANTS
  Conns,      \* connections the device makes
  Frames,     \* valid frames it may send, again and again
  MaxClock,   \* bounds: the clock of the gateway
  MaxEntries  \* and the entries of the stream

VARIABLES
  clock,
  active,     \* per connection, the last activity of a logged-in session
  stamped,    \* per connection, the contract between map_packet and XADD
  stream,     \* tracker:events, as fields of text
  consumed,   \* how many entries the worker has processed
  registered, \* once a tracker with the IMEI exists: how many entries came before
  processed,  \* processed_events: the dedup keys
  tracker,    \* the row of the device
  positions,  \* its positions, in the order they were committed
  alarms      \* its device_events

vars == <<clock, active, stamped, stream, consumed, registered, processed, tracker,
          positions, alarms>>

NoLogin == 0
Gone == -1    \* the id of a connection is never used again
Optional == {<<>>} \cup {<<n>> : n \in 0..MaxClock}

PipelineAssumption ==
  /\ {MaxClock, MaxEntries} \subseteq Nat /\ MaxClock > 0
  /\ \A f \in Frames : f.serial \in Optional \ {<<>>} /\ f.gpsTime \in Optional
                         /\ Len(f.place) \in {0, 2}

(* Of how a number is written: never as no text, and no two alike.           *)
Numerals ==
  \A n, k \in 0..MaxClock : ToString(n) # "" /\ (ToString(n) = ToString(k) => n = k)

-----------------------------------------------------------------------------
(* map_packet: a login carries the IMEI, every other packet needs one that   *)
(* its connection knows. A frame stands for its own hash.                    *)
Kinds == [login |-> "connection", gps |-> "position", beat |-> "heartbeat",
          alarm |-> "event"]

Contract(c, f) ==
  [type |-> Kinds[f.kind], at |-> clock, conn |-> c, serial |-> f.serial, hash |-> f,
   place |-> f.place, gpsTime |-> f.gpsTime, firmware |-> f.firmware,
   action |-> IF f.kind = "login" THEN "login" ELSE ""]

Mapped(c, f) ==
  IF f.kind \in DOMAIN Kinds /\ (f.kind = "login" \/ active[c] > NoLogin)
  THEN <<Contract(c, f)>> ELSE <<>>

(* server.py: the end of a connection, with the time of its last activity.   *)
NoFrame == [kind |-> "none", serial |-> <<>>, place |-> <<>>, gpsTime |-> <<>>,
            firmware |-> <<>>]
Goodbye(c, at) ==
  [type |-> "connection", at |-> at, conn |-> c, serial |-> <<>>, hash |-> NoFrame,
   place |-> <<>>, gpsTime |-> <<>>, firmware |-> <<>>, action |-> "disconnect"]

(* serialize_contract and parse_stream_fields: None is sent as no text, and  *)
(* no text is None; "0" is text.                                             *)
Text(optional) == IF optional = <<>> THEN "" ELSE ToString(optional[1])
Parse(text) ==
  IF text = "" THEN <<>> ELSE <<CHOOSE n \in 0..MaxClock : ToString(n) = text>>

Serialized(m) == [m EXCEPT !.serial = Text(m.serial), !.gpsTime = Text(m.gpsTime)]
Parsed(e) == [e EXCEPT !.serial = Parse(e.serial), !.gpsTime = Parse(e.gpsTime)]

(* dedup_key. A serial number of zero is as good as none. The first form     *)
(* leaves out the hash.                                                      *)
SerialOf(m) == IF m.serial \in {<<>>, <<0>>} THEN "" ELSE Text(m.serial)
KeyNoHash(m) == <<m.type, SerialOf(m), Text(m.gpsTime)>>
Key(m) ==
  CASE m.type = "heartbeat"  -> <<m.type, SerialOf(m), m.at>>
    [] m.type = "connection" -> <<m.type, m.action, m.conn, m.at>>
    [] OTHER -> <<m.type, SerialOf(m), m.hash, Text(m.gpsTime)>>

-----------------------------------------------------------------------------
NoTracker == [seen |-> 0, health |-> "UNKNOWN", place |-> <<>>, gpsTime |-> <<>>,
              firmware |-> <<>>]

Init ==
  /\ clock = 1 /\ active = [c \in Conns |-> NoLogin] /\ stamped = [c \in Conns |-> <<>>]
  /\ stream = <<>> /\ consumed = 0 /\ registered \in {<<>>, <<0>>} /\ processed = {}
  /\ tracker = NoTracker /\ positions = <<>> /\ alarms = <<>>

Tick ==
  /\ clock < MaxClock /\ clock' = clock + 1
  /\ UNCHANGED <<active, stamped, stream, consumed, registered, processed, tracker,
                 positions, alarms>>

(* A frame comes, and is mapped; one of which nothing is mapped is only      *)
(* acknowledged.                                                             *)
Receive(c, f) ==
  /\ active[c] # Gone /\ stamped[c] = <<>> /\ Len(stream) < MaxEntries
  /\ active' = IF f.kind = "login" THEN [active EXCEPT ![c] = clock] ELSE active
  /\ stamped' = [stamped EXCEPT ![c] = Mapped(c, f)]
  /\ UNCHANGED <<clock, stream, consumed, registered, processed, tracker, positions,
                 alarms>>

(* The connection of a device ends: handle_client publishes one entry more.       *)
HangUp(c) ==
  /\ active[c] > NoLogin /\ stamped[c] = <<>> /\ Len(stream) < MaxEntries
  /\ active' = [active EXCEPT ![c] = Gone]
  /\ stamped' = [stamped EXCEPT ![c] = <<Goodbye(c, active[c])>>]
  /\ UNCHANGED <<clock, stream, consumed, registered, processed, tracker, positions,
                 alarms>>

(* The XADD returns; then the session is touched.                            *)
Publish(c) ==
  /\ stamped[c] # <<>>
  /\ stream' = Append(stream, Serialized(stamped[c][1]))
  /\ stamped' = [stamped EXCEPT ![c] = <<>>]
  /\ active' = [active EXCEPT ![c] = IF @ = Gone THEN Gone ELSE clock]
  /\ UNCHANGED <<clock, consumed, registered, processed, tracker, positions, alarms>>

(* A tracker of that IMEI is registered in the back office.                  *)
Register ==
  /\ registered = <<>> /\ registered' = <<consumed>>
  /\ UNCHANGED <<clock, active, stamped, stream, consumed, processed, tracker, positions,
                 alarms>>

(* _sync_device. A position without a place keeps the last place.            *)
Synced(m) ==
  [seen |-> m.at, health |-> "ONLINE",
   firmware |-> IF m.action = "login" /\ m.firmware # <<>> THEN m.firmware
                ELSE tracker.firmware,
   place   |-> IF m.type = "position" /\ m.place # <<>> THEN m.place ELSE tracker.place,
   gpsTime |-> IF m.type = "position" /\ m.place # <<>>
               THEN IF m.gpsTime = <<>> THEN <<m.at>> ELSE m.gpsTime
               ELSE tracker.gpsTime]

(* process: a duplicate is dropped; the key of any other is stored, its      *)
(* effect only where the device is registered.                               *)
Process ==
  /\ consumed < Len(stream)
  /\ consumed' = consumed + 1
  /\ LET m == Parsed(stream[consumed + 1])
         effective == registered # <<>> /\ Key(m) \notin processed
         syncs == m.type \in {"position", "heartbeat"} \/ m.action = "login"
     IN /\ processed' = processed \cup {Key(m)}
        /\ tracker' = IF effective /\ syncs THEN Synced(m) ELSE tracker
        /\ positions' = IF effective /\ m.type = "position"
                        THEN Append(positions, m) ELSE positions
        /\ alarms' = IF effective /\ m.type = "event" THEN Append(alarms, m) ELSE alarms
  /\ UNCHANGED <<clock, active, stamped, stream, registered>>

(* GET /positions/latest: the newest received_at.                            *)
Latest ==
  LET newest == {i \in DOMAIN positions :
                   \A j \in DOMAIN positions : positions[j].at <= positions[i].at}
  IN {positions[i] : i \in newest}

Next ==
  \/ Tick \/ Register \/ Process
  \/ \E c \in Conns :
       \/ \E f \in Frames : Receive(c, f)
       \/ HangUp(c) \/ Publish(c)

Spec == Init /\ [][Next]_vars
-----------------------------------------------------------------------------
TypeOK ==
  /\ clock \in 1..MaxClock /\ active \in [Conns -> Gone..MaxClock]
  /\ consumed \in 0..Len(stream)
  /\ \A c \in Conns : Len(stamped[c]) <= 1
  /\ tracker.seen \in 0..MaxClock /\ tracker.gpsTime \in Optional

(* However often a frame is resent, over whatever connections, its position  *)
(* or alarm is stored once, and it is what the frame said; every other frame *)
(* is stored as well, a serial number of 0 or none notwithstanding. Only     *)
(* what was processed before the device was registered is not, and not when  *)
(* it is resent later either (process marks it as processed).                *)
EachReportOnce ==
  LET stored == positions \o alarms
      early(hash) == registered = <<>> \/ \E n \in 1..registered[1] : stream[n].hash = hash
  IN /\ \A i, j \in DOMAIN stored : stored[i].hash = stored[j].hash => i = j
     /\ \A i \in DOMAIN stored :
          /\ stored[i].serial = stored[i].hash.serial
          /\ stored[i].gpsTime = stored[i].hash.gpsTime
     /\ \A n \in 1..consumed :
          stream[n].type \in {"position", "event"} =>
            (early(stream[n].hash)
             <=> ~\E i \in DOMAIN stored : stored[i].hash = stream[n].hash)

(* The two places the platform shows of a device agree: the last place of    *)
(* its row and the latest of its positions. They may differ only where a     *)
(* position overtook one that was stamped before it, which the await before  *)
(* the XADD allows to two connections of one device and never to one.        *)
PlacesAgree ==
  LET Overtook(i, j) == i < j /\ positions[j].at < positions[i].at
      placed == {i \in DOMAIN positions : positions[i].place # <<>>}
  IN /\ \A i, j \in DOMAIN positions :
          Overtook(i, j) => positions[i].conn # positions[j].conn
     /\ tracker.place = IF placed = {} THEN <<>> ELSE positions[Max(placed)].place
     /\ \/ \E i, j \in DOMAIN positions : Overtook(i, j)
        \/ positions = <<>> \/ Last(positions).place = <<>>
        \/ tracker.place \in {p.place : p \in Latest}

ReportsArrive == EachReportOnce /\ PlacesAgree
=============================================================================
