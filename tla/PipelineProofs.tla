---------------------------- MODULE PipelineProofs ----------------------------
(***************************************************************************)
(* Proofs about Pipeline, for any connections, frames, clock and number of *)
(* entries, given that two numbers are never written alike (Numerals).     *)
(***************************************************************************)
EXTENDS Pipeline, TLAPS

(* What the gateway says: a contract of a frame it maps, or a disconnect.    *)
Known == {f \in Frames : f.kind \in DOMAIN Kinds}
Reports == {"position", "event"}

Message(f, c, at) ==
  [type |-> Kinds[f.kind], at |-> at, conn |-> c, serial |-> f.serial, hash |-> f,
   place |-> f.place, gpsTime |-> f.gpsTime, firmware |-> f.firmware,
   action |-> IF f.kind = "login" THEN "login" ELSE ""]

Messages ==
  {Message(f, c, at) : f \in Known, c \in Conns, at \in 0..MaxClock}
    \cup {Goodbye(c, at) : c \in Conns, at \in 0..MaxClock}

Entries == {Serialized(m) : m \in Messages}

(* What the worker reads of entry n.                                         *)
Sent(n) == Parsed(stream[n])

WayInv ==
  /\ stamped \in [Conns -> {<<>>} \cup {<<m>> : m \in Messages}]
  /\ \A c \in Conns : stamped[c] # <<>> => stamped[c][1].conn = c
  /\ stream \in Seq(Entries)
  /\ positions \in Seq(Messages) /\ alarms \in Seq(Messages)
  /\ registered = <<>> \/ \E r \in 0..consumed : registered = <<r>>

TypeInv == TypeOK /\ WayInv
-----------------------------------------------------------------------------
(* Messages, and the way through text and back.                              *)
LEMMA RoundTrip ==
  ASSUME Numerals, NEW o \in Optional
  PROVE  Parse(Text(o)) = o
<1>1. CASE o = <<>>
  BY <1>1 DEF Parse, Text
<1>2. ASSUME NEW n \in 0..MaxClock, o = <<n>>
      PROVE  Parse(Text(o)) = o
  <2>1. o # <<>> /\ o[1] = n
    BY <1>2
  <2>2. Text(o) = ToString(n) /\ Text(o) # ""
    BY <2>1 DEF Text, Numerals
  <2>3. (CHOOSE k \in 0..MaxClock : ToString(k) = Text(o)) = n
    BY <2>2 DEF Numerals
  <2> QED
    BY <1>2, <2>2, <2>3 DEF Parse
<1> QED
  BY <1>1, <1>2 DEF Optional

LEMMA KindsAre ==
  /\ DOMAIN Kinds = {"login", "gps", "beat", "alarm"}
  /\ Kinds["login"] = "connection" /\ Kinds["gps"] = "position"
  /\ Kinds["beat"] = "heartbeat" /\ Kinds["alarm"] = "event"
  /\ "none" \notin DOMAIN Kinds
  BY DEF Kinds

LEMMA FrameIs ==
  ASSUME PipelineAssumption, NEW f \in Known
  PROVE  /\ f \in Frames /\ f.kind \in DOMAIN Kinds /\ f # NoFrame
         /\ f.serial \in Optional /\ f.gpsTime \in Optional
  BY KindsAre DEF Known, PipelineAssumption, NoFrame

LEMMA MessageIs ==
  ASSUME PipelineAssumption, NEW m \in Messages
  PROVE  /\ m.type \in {"connection", "position", "heartbeat", "event"}
         /\ m.at \in 0..MaxClock /\ m.conn \in Conns
         /\ m.serial \in Optional /\ m.gpsTime \in Optional
         /\ m.action \in {"", "login", "disconnect"}
         /\ m.type \in Reports =>
              /\ m.hash \in Known /\ m.type = Kinds[m.hash.kind] /\ m.action = ""
              /\ m.serial = m.hash.serial /\ m.gpsTime = m.hash.gpsTime
         /\ m.hash \in Known => m.type = Kinds[m.hash.kind]
         /\ m.type = "connection" => m.action \in {"login", "disconnect"}
<1>1. ASSUME NEW f \in Known, NEW c \in Conns, NEW at \in 0..MaxClock, m = Message(f, c, at)
      PROVE  /\ m.type \in {"connection", "position", "heartbeat", "event"}
             /\ m.at \in 0..MaxClock /\ m.conn \in Conns
             /\ m.serial \in Optional /\ m.gpsTime \in Optional
             /\ m.action \in {"", "login", "disconnect"}
             /\ m.hash \in Known /\ m.type = Kinds[m.hash.kind]
             /\ m.serial = m.hash.serial /\ m.gpsTime = m.hash.gpsTime
             /\ m.type \in Reports => m.action = ""
             /\ m.type = "connection" => m.action \in {"login", "disconnect"}
  <2>1. /\ m.type = Kinds[f.kind] /\ m.at = at /\ m.conn = c /\ m.serial = f.serial
        /\ m.hash = f /\ m.gpsTime = f.gpsTime
        /\ m.action = IF f.kind = "login" THEN "login" ELSE ""
    BY <1>1 DEF Message
  <2>2. f.kind \in {"login", "gps", "beat", "alarm"}
    BY FrameIs, KindsAre
  <2> QED
    BY <2>1, <2>2, FrameIs, KindsAre DEF Reports
<1>2. ASSUME NEW c \in Conns, NEW at \in 0..MaxClock, m = Goodbye(c, at)
      PROVE  /\ m.type = "connection" /\ m.at \in 0..MaxClock /\ m.conn \in Conns
             /\ m.serial \in Optional /\ m.gpsTime \in Optional
             /\ m.action = "disconnect" /\ m.hash \notin Known
  <2>1. /\ m.type = "connection" /\ m.at = at /\ m.conn = c /\ m.serial = <<>>
        /\ m.gpsTime = <<>> /\ m.action = "disconnect" /\ m.hash = NoFrame
    BY <1>2 DEF Goodbye
  <2> QED
    BY <2>1, FrameIs DEF Optional
<1>3. \/ \E f \in Known, c \in Conns, at \in 0..MaxClock : m = Message(f, c, at)
      \/ \E c \in Conns, at \in 0..MaxClock : m = Goodbye(c, at)
  BY DEF Messages
<1>4. "connection" \notin Reports
  BY DEF Reports
<1>5. CASE \E f \in Known, c \in Conns, at \in 0..MaxClock : m = Message(f, c, at)
  BY <1>1, <1>5
<1>6. CASE \E c \in Conns, at \in 0..MaxClock : m = Goodbye(c, at)
  BY <1>2, <1>4, <1>6
<1> QED
  BY <1>3, <1>5, <1>6

LEMMA MessageHasFields ==
  ASSUME NEW m \in Messages
  PROVE  m = [type |-> m.type, at |-> m.at, conn |-> m.conn, serial |-> m.serial,
              hash |-> m.hash, place |-> m.place, gpsTime |-> m.gpsTime,
              firmware |-> m.firmware, action |-> m.action]
<1>1. ASSUME NEW f \in Known, NEW c \in Conns, NEW at \in 0..MaxClock, m = Message(f, c, at)
      PROVE  m = [type |-> m.type, at |-> m.at, conn |-> m.conn, serial |-> m.serial,
                  hash |-> m.hash, place |-> m.place, gpsTime |-> m.gpsTime,
                  firmware |-> m.firmware, action |-> m.action]
  BY <1>1 DEF Message
<1>2. ASSUME NEW c \in Conns, NEW at \in 0..MaxClock, m = Goodbye(c, at)
      PROVE  m = [type |-> m.type, at |-> m.at, conn |-> m.conn, serial |-> m.serial,
                  hash |-> m.hash, place |-> m.place, gpsTime |-> m.gpsTime,
                  firmware |-> m.firmware, action |-> m.action]
  BY <1>2 DEF Goodbye
<1> QED
  BY <1>1, <1>2 DEF Messages

LEMMA Rewritten ==
  ASSUME NEW t, NEW a, NEW c, NEW s, NEW h, NEW p, NEW g, NEW w, NEW x, NEW u, NEW v
  PROVE  [[type |-> t, at |-> a, conn |-> c, serial |-> s, hash |-> h, place |-> p,
           gpsTime |-> g, firmware |-> w, action |-> x] EXCEPT !.serial = u, !.gpsTime = v]
         = [type |-> t, at |-> a, conn |-> c, serial |-> u, hash |-> h, place |-> p,
            gpsTime |-> v, firmware |-> w, action |-> x]
<1> DEFINE R(y, z) == [type |-> t, at |-> a, conn |-> c, serial |-> y, hash |-> h,
                       place |-> p, gpsTime |-> z, firmware |-> w, action |-> x]
<1>1. [R(s, g) EXCEPT !.serial = u] = R(u, g)
  OBVIOUS
<1>2. [R(u, g) EXCEPT !.gpsTime = v] = R(u, v)
  OBVIOUS
<1>3. [R(s, g) EXCEPT !.serial = u, !.gpsTime = v] =
        [[R(s, g) EXCEPT !.serial = u] EXCEPT !.gpsTime = v]
  <2> HIDE DEF R
  <2> QED
    OBVIOUS
<1> QED
  BY <1>1, <1>2, <1>3

\* An entry is read as it was written.
LEMMA ReadAsWritten ==
  ASSUME PipelineAssumption, Numerals, NEW m \in Messages
  PROVE  LET e == Serialized(m) IN
         /\ Parsed(e) = m /\ e.type = m.type /\ e.at = m.at /\ e.conn = m.conn
         /\ e.hash = m.hash /\ e.place = m.place
<1>1. Parse(Text(m.serial)) = m.serial /\ Parse(Text(m.gpsTime)) = m.gpsTime
  BY MessageIs, RoundTrip
<1>2. PICK t, a, c, s, h, p, g, w, x :
        m = [type |-> t, at |-> a, conn |-> c, serial |-> s, hash |-> h, place |-> p,
             gpsTime |-> g, firmware |-> w, action |-> x]
  BY MessageHasFields
<1> DEFINE e == [type |-> t, at |-> a, conn |-> c, serial |-> Text(s), hash |-> h,
                 place |-> p, gpsTime |-> Text(g), firmware |-> w, action |-> x]
<1>3. m.serial = s /\ m.gpsTime = g /\ e.serial = Text(s) /\ e.gpsTime = Text(g)
  BY <1>2
<1>4. Serialized(m) = e
  <2>1. Serialized(m) = [m EXCEPT !.serial = Text(s), !.gpsTime = Text(g)]
    BY <1>3 DEF Serialized
  <2> QED
    BY <1>2, <2>1, Rewritten
<1>5. Parsed(e) = m
  <2>1. Parsed(e) = [e EXCEPT !.serial = s, !.gpsTime = g]
    BY <1>1, <1>3 DEF Parsed
  <2> QED
    BY <1>2, <2>1, Rewritten
<1> QED
  BY <1>2, <1>4, <1>5

LEMMA EntryIs ==
  ASSUME PipelineAssumption, Numerals, NEW e \in Entries
  PROVE  /\ Parsed(e) \in Messages /\ Parsed(e).type = e.type /\ Parsed(e).at = e.at
         /\ Parsed(e).conn = e.conn /\ Parsed(e).hash = e.hash /\ Parsed(e).place = e.place
  BY ReadAsWritten DEF Entries

\* The key of a report is one with its hash.
LEMMA KeyIsHash ==
  ASSUME PipelineAssumption, NEW m \in Messages, NEW k \in Messages, m.type \in Reports
  PROVE  Key(m) = Key(k) <=> m.hash = k.hash
<1>1. Key(m) = <<m.type, SerialOf(m), m.hash, Text(m.gpsTime)>>
  BY DEF Key, Reports
<1>2. k.type \in Reports => Key(k) = <<k.type, SerialOf(k), k.hash, Text(k.gpsTime)>>
  BY DEF Key, Reports
<1>3. k.type \notin Reports => Key(k)[1] = k.type
  BY MessageIs DEF Key, Reports
<1>4. ASSUME Key(m) = Key(k)
      PROVE  m.hash = k.hash
  <2>1. Key(m)[1] = m.type /\ Key(m)[3] = m.hash
    BY <1>1
  <2>2. k.type \in Reports
    BY <1>3, <1>4, <2>1
  <2>3. Key(k)[3] = k.hash
    BY <1>2, <2>2
  <2> QED
    BY <1>4, <2>1, <2>3
<1>5. ASSUME m.hash = k.hash
      PROVE  Key(m) = Key(k)
  <2>1. /\ m.hash \in Known /\ m.type = Kinds[m.hash.kind]
        /\ m.serial = m.hash.serial /\ m.gpsTime = m.hash.gpsTime
    BY MessageIs
  <2>2. k.type = m.type
    BY <1>5, <2>1, MessageIs
  <2>3. k.serial = k.hash.serial /\ k.gpsTime = k.hash.gpsTime
    BY <2>2, MessageIs
  <2>4. SerialOf(m) = SerialOf(k)
    BY <1>5, <2>1, <2>3 DEF SerialOf
  <2> QED
    BY <1>1, <1>2, <1>5, <2>1, <2>2, <2>3, <2>4
<1> QED
  BY <1>4, <1>5-----------------------------------------------------------------------------
(* Types, action by action.                                                  *)

\* The numbers of a state.
LEMMA Numbers ==
  ASSUME PipelineAssumption, TypeInv
  PROVE  /\ clock \in 0..MaxClock /\ clock \in Nat /\ MaxClock \in Nat
         /\ consumed \in Nat /\ Len(stream) \in Nat /\ consumed <= Len(stream)
         /\ DOMAIN stream = 1..Len(stream)
         /\ \A n \in DOMAIN stream : stream[n] \in Entries
<1>1. stream \in Seq(Entries)
  BY DEF TypeInv, WayInv
<1>2. Len(stream) \in Nat /\ DOMAIN stream = 1..Len(stream)
      /\ \A n \in DOMAIN stream : stream[n] \in Entries
  BY <1>1
<1> QED
  BY <1>2 DEF PipelineAssumption, TypeInv, TypeOK

LEMMA SentIs ==
  ASSUME PipelineAssumption, Numerals, TypeInv, NEW n \in DOMAIN stream
  PROVE  /\ Sent(n) \in Messages /\ Sent(n).type = stream[n].type /\ Sent(n).at = stream[n].at
         /\ Sent(n).conn = stream[n].conn /\ Sent(n).hash = stream[n].hash
  BY Numbers, EntryIs DEF Sent

LEMMA OneMore ==
  ASSUME NEW S, NEW s \in Seq(S), NEW m \in S
  PROVE  /\ Append(s, m) \in Seq(S) /\ Len(s) \in Nat /\ Len(Append(s, m)) = Len(s) + 1
         /\ DOMAIN s = 1..Len(s) /\ DOMAIN Append(s, m) = 1..(Len(s) + 1)
         /\ Append(s, m)[Len(s) + 1] = m
         /\ \A i \in 1..Len(s) : Append(s, m)[i] = s[i] /\ s[i] \in S
  OBVIOUS

LEMMA OneStamp ==
  ASSUME NEW m
  PROVE  <<m>> # <<>> /\ <<m>>[1] = m /\ Len(<<m>>) = 1 /\ Len(<<>>) = 0
  OBVIOUS

\* What a connection has in hand changes, to nothing or a message of its own.
LEMMA StampTyped ==
  ASSUME PipelineAssumption, TypeInv, NEW c \in Conns,
         NEW x \in {<<>>} \cup {<<m>> : m \in Messages}, x # <<>> => x[1].conn = c,
         stamped' = [stamped EXCEPT ![c] = x]
  PROVE  /\ stamped' \in [Conns -> {<<>>} \cup {<<m>> : m \in Messages}]
         /\ \A d \in Conns : stamped'[d] # <<>> => stamped'[d][1].conn = d
         /\ \A d \in Conns : Len(stamped'[d]) <= 1
<1>1. \A d \in Conns : stamped'[d] = IF d = c THEN x ELSE stamped[d]
  BY DEF TypeInv, WayInv
<1>2. stamped' \in [Conns -> {<<>>} \cup {<<m>> : m \in Messages}]
  BY DEF TypeInv, WayInv
<1>3. \A y \in {<<>>} \cup {<<m>> : m \in Messages} : Len(y) <= 1
  <2>1. Len(<<>>) <= 1 /\ \A m \in Messages : Len(<<m>>) <= 1
    BY OneStamp
  <2> QED
    BY <2>1
<1> QED
  BY <1>1, <1>2, <1>3 DEF TypeInv, WayInv

LEMMA ReceiveTyped ==
  ASSUME PipelineAssumption, TypeInv, NEW c \in Conns, NEW f \in Frames, Receive(c, f)
  PROVE  TypeInv'
<1>1. Mapped(c, f) \in {<<>>} \cup {<<m>> : m \in Messages}
  <2>1. CASE Mapped(c, f) = <<>>
    BY <2>1
  <2>2. CASE f.kind \in DOMAIN Kinds /\ Mapped(c, f) = <<Contract(c, f)>>
    <3>1. Contract(c, f) = Message(f, c, clock)
      BY DEF Contract, Message
    <3>2. f \in Known /\ clock \in 0..MaxClock
      BY <2>2, Numbers DEF Known
    <3> QED
      BY <2>2, <3>1, <3>2 DEF Messages
  <2> QED
    BY <2>1, <2>2 DEF Mapped
<1>2. Mapped(c, f) # <<>> => Mapped(c, f)[1].conn = c
  BY OneStamp DEF Mapped, Contract
<1>3. /\ stamped' \in [Conns -> {<<>>} \cup {<<m>> : m \in Messages}]
      /\ \A d \in Conns : stamped'[d] # <<>> => stamped'[d][1].conn = d
      /\ \A d \in Conns : Len(stamped'[d]) <= 1
  <2> DEFINE x == Mapped(c, f)
  <2>1. x \in {<<>>} \cup {<<m>> : m \in Messages} /\ (x # <<>> => x[1].conn = c)
    BY <1>1, <1>2
  <2>2. stamped' = [stamped EXCEPT ![c] = x]
    BY DEF Receive
  <2> HIDE DEF x
  <2> QED
    BY <2>1, <2>2, StampTyped
<1>4. active' \in [Conns -> Gone..MaxClock]
  <2>1. clock \in Gone..MaxClock
    BY Numbers DEF Gone
  <2> QED
    BY <2>1 DEF Receive, TypeInv, TypeOK
<1>5. UNCHANGED <<clock, stream, consumed, registered, tracker, positions, alarms>>
  BY DEF Receive
<1> QED
  BY <1>3, <1>4, <1>5 DEF TypeInv, TypeOK, WayInv

LEMMA HangUpTyped ==
  ASSUME PipelineAssumption, TypeInv, NEW c \in Conns, HangUp(c)
  PROVE  TypeInv'
<1> DEFINE m == Goodbye(c, active[c])
<1>1. active[c] \in 0..MaxClock
  BY Numbers DEF HangUp, NoLogin, Gone, TypeInv, TypeOK
<1>2. m \in Messages /\ m.conn = c
  BY <1>1 DEF Messages, Goodbye
<1>3. stamped' = [stamped EXCEPT ![c] = <<m>>] /\ active' = [active EXCEPT ![c] = Gone]
  BY DEF HangUp
<1> HIDE DEF m
<1>4. <<m>> \in {<<>>} \cup {<<k>> : k \in Messages} /\ <<m>>[1].conn = c
  BY <1>2
<1>5. /\ stamped' \in [Conns -> {<<>>} \cup {<<k>> : k \in Messages}]
      /\ \A d \in Conns : stamped'[d] # <<>> => stamped'[d][1].conn = d
      /\ \A d \in Conns : Len(stamped'[d]) <= 1
  <2> DEFINE x == <<m>>
  <2>1. x \in {<<>>} \cup {<<k>> : k \in Messages} /\ (x # <<>> => x[1].conn = c)
    BY <1>4
  <2>2. stamped' = [stamped EXCEPT ![c] = x]
    BY <1>3
  <2> HIDE DEF x
  <2> QED
    BY <2>1, <2>2, StampTyped
<1>6. active' \in [Conns -> Gone..MaxClock]
  <2>1. Gone \in Gone..MaxClock
    BY Numbers DEF Gone
  <2> QED
    BY <1>3, <2>1 DEF TypeInv, TypeOK
<1>7. UNCHANGED <<clock, stream, consumed, registered, tracker, positions, alarms>>
  BY DEF HangUp
<1> QED
  BY <1>5, <1>6, <1>7 DEF TypeInv, TypeOK, WayInv

\* One entry more; those that were there stay.
LEMMA PublishAdds ==
  ASSUME PipelineAssumption, TypeInv, NEW c \in Conns, Publish(c)
  PROVE  /\ stamped[c][1] \in Messages /\ stamped[c] = <<stamped[c][1]>>
         /\ stamped[c][1].conn = c
         /\ stream' \in Seq(Entries) /\ Len(stream') = Len(stream) + 1
         /\ DOMAIN stream' = 1..(Len(stream) + 1)
         /\ stream'[Len(stream) + 1] = Serialized(stamped[c][1])
         /\ \A n \in DOMAIN stream : n \in DOMAIN stream' /\ stream'[n] = stream[n]
<1>1. stamped[c] # <<>> /\ stamped[c] \in {<<>>} \cup {<<m>> : m \in Messages}
  BY DEF Publish, TypeInv, WayInv
<1>2. PICK m \in Messages : stamped[c] = <<m>>
  BY <1>1
<1>3. stamped[c][1] = m /\ m.conn = c
  BY <1>1, <1>2 DEF TypeInv, WayInv
<1> DEFINE e == Serialized(m)
<1>4. stream' = Append(stream, e) /\ e \in Entries /\ stream \in Seq(Entries)
  BY <1>3 DEF Publish, Entries, TypeInv, WayInv
<1> HIDE DEF e
<1>5. /\ stream' \in Seq(Entries) /\ Len(stream') = Len(stream) + 1
      /\ DOMAIN stream' = 1..(Len(stream) + 1) /\ stream'[Len(stream) + 1] = e
      /\ \A n \in 1..Len(stream) : stream'[n] = stream[n]
  BY <1>4
<1>6. DOMAIN stream = 1..Len(stream) /\ \A n \in 1..Len(stream) : n \in 1..(Len(stream) + 1)
  BY Numbers
<1> QED
  BY <1>2, <1>3, <1>5, <1>6 DEF e

LEMMA PublishTyped ==
  ASSUME PipelineAssumption, TypeInv, NEW c \in Conns, Publish(c)
  PROVE  TypeInv'
<1>1. /\ stamped' \in [Conns -> {<<>>} \cup {<<k>> : k \in Messages}]
      /\ \A d \in Conns : stamped'[d] # <<>> => stamped'[d][1].conn = d
      /\ \A d \in Conns : Len(stamped'[d]) <= 1
  <2> DEFINE x == <<>>
  <2>1. x \in {<<>>} \cup {<<k>> : k \in Messages} /\ (x # <<>> => x[1].conn = c)
    OBVIOUS
  <2>2. stamped' = [stamped EXCEPT ![c] = x]
    BY DEF Publish
  <2> HIDE DEF x
  <2> QED
    BY <2>1, <2>2, StampTyped
<1>2. stream' \in Seq(Entries) /\ consumed \in 0..Len(stream')
  BY PublishAdds, Numbers
<1>3. active' \in [Conns -> Gone..MaxClock]
  <2>1. Gone \in Gone..MaxClock /\ clock \in Gone..MaxClock
    BY Numbers DEF Gone
  <2>2. active' = [active EXCEPT ![c] = IF active[c] = Gone THEN Gone ELSE clock]
    BY DEF Publish, TypeInv, TypeOK
  <2> QED
    BY <2>1, <2>2 DEF TypeInv, TypeOK
<1>4. UNCHANGED <<clock, consumed, registered, tracker, positions, alarms>>
  BY DEF Publish
<1> QED
  BY <1>1, <1>2, <1>3, <1>4 DEF TypeInv, TypeOK, WayInv

\* What the worker does with the next entry.
LEMMA ProcessDoes ==
  ASSUME PipelineAssumption, Numerals, TypeInv, Process
  PROVE  /\ consumed + 1 \in DOMAIN stream /\ consumed' = consumed + 1
         /\ UNCHANGED <<clock, active, stamped, stream, registered>>
         /\ Sent(consumed + 1) \in Messages
         /\ processed' = processed \cup {Key(Sent(consumed + 1))}
         /\ LET m == Sent(consumed + 1)
                effective == registered # <<>> /\ Key(m) \notin processed
                syncs == m.type \in {"position", "heartbeat"} \/ m.action = "login"
            IN /\ tracker' = IF effective /\ syncs THEN Synced(m) ELSE tracker
               /\ positions' = IF effective /\ m.type = "position"
                               THEN Append(positions, m) ELSE positions
               /\ alarms' = IF effective /\ m.type = "event" THEN Append(alarms, m) ELSE alarms
<1>1. consumed + 1 \in DOMAIN stream
  BY Numbers DEF Process
<1>2. Sent(consumed + 1) \in Messages
  BY <1>1, SentIs
<1> QED
  BY <1>1, <1>2 DEF Process, Sent

LEMMA ProcessTyped ==
  ASSUME PipelineAssumption, Numerals, TypeInv, Process
  PROVE  TypeInv'
<1>1. PICK m : m = Sent(consumed + 1)
  OBVIOUS
<1>2. /\ m \in Messages /\ consumed' = consumed + 1 /\ consumed' \in 0..Len(stream)
      /\ UNCHANGED <<clock, active, stamped, stream, registered>>
      /\ tracker' = Synced(m) \/ tracker' = tracker
      /\ positions' = Append(positions, m) \/ positions' = positions
      /\ alarms' = Append(alarms, m) \/ alarms' = alarms
  BY <1>1, ProcessDoes, Numbers
<1>3. positions' \in Seq(Messages)
  BY <1>2, OneMore DEF TypeInv, WayInv
<1>4. alarms' \in Seq(Messages)
  <2>1. alarms \in Seq(Messages)
    BY DEF TypeInv, WayInv
  <2>2. CASE alarms' = alarms
    BY <2>1, <2>2
  <2>3. CASE alarms' = Append(alarms, m)
    BY <1>2, <2>1, <2>3, OneMore
  <2> QED
    BY <1>2, <2>2, <2>3
<1>5. m.at \in 0..MaxClock /\ m.gpsTime \in Optional /\ <<m.at>> \in Optional
  BY <1>2, MessageIs DEF Optional
<1>6. Synced(m).seen = m.at /\ Synced(m).gpsTime \in {m.gpsTime, <<m.at>>, tracker.gpsTime}
  BY DEF Synced
<1>7. tracker'.seen \in 0..MaxClock /\ tracker'.gpsTime \in Optional
  BY <1>2, <1>5, <1>6 DEF TypeInv, TypeOK
<1>8. registered' = <<>> \/ \E r \in 0..consumed' : registered' = <<r>>
  <2>1. \A r \in 0..consumed : r \in 0..(consumed + 1)
    BY Numbers
  <2> QED
    BY <1>2, <2>1 DEF TypeInv, WayInv
<1> QED
  BY <1>2, <1>3, <1>4, <1>7, <1>8 DEF TypeInv, TypeOK, WayInv

LEMMA RegisterTyped ==
  ASSUME PipelineAssumption, TypeInv, Register
  PROVE  TypeInv'
<1>1. registered' = <<consumed>> /\ consumed \in 0..consumed
  BY Numbers DEF Register
<1>2. UNCHANGED <<clock, active, stamped, stream, consumed, tracker, positions, alarms>>
  BY DEF Register
<1> QED
  BY <1>1, <1>2 DEF TypeInv, TypeOK, WayInv

LEMMA TickTyped ==
  ASSUME PipelineAssumption, TypeInv, Tick \/ UNCHANGED vars
  PROVE  TypeInv'
<1>1. UNCHANGED <<active, stamped, stream, consumed, registered, tracker, positions, alarms>>
  BY DEF Tick, vars
<1>2. clock' \in 1..MaxClock
  BY Numbers DEF Tick, vars, TypeInv, TypeOK
<1> QED
  BY <1>1, <1>2 DEF TypeInv, TypeOK, WayInv

LEMMA TypeKeeps ==
  ASSUME PipelineAssumption, Numerals, TypeInv, [Next]_vars
  PROVE  TypeInv'
  BY ReceiveTyped, HangUpTyped, PublishTyped, ProcessTyped, RegisterTyped, TickTyped DEF Next

LEMMA TypeStarts ==
  ASSUME PipelineAssumption, Init
  PROVE  TypeInv
<1>1. /\ MaxClock \in Nat /\ MaxClock > 0
  BY DEF PipelineAssumption
<1>2. 1 \in 1..MaxClock /\ 0 \in Gone..MaxClock /\ 0 \in 0..MaxClock
  BY <1>1 DEF Gone
<1>3. Len(<<>>) = 0 /\ 0 \in 0..0
  OBVIOUS
<1>4. tracker.seen = 0 /\ tracker.gpsTime = <<>>
  BY DEF Init, NoTracker
<1>5. TypeOK
  BY <1>2, <1>3, <1>4 DEF Init, TypeOK, NoLogin, Optional
<1>6. WayInv
  BY <1>3 DEF Init, WayInv
<1> QED
  BY <1>5, <1>6 DEF TypeInv
-----------------------------------------------------------------------------
(* Each report once. The frames something is to be stored of: those that     *)
(* were consumed, and not before the device was registered.                  *)
Due ==
  {f \in Known : /\ registered # <<>>
                 /\ \E n \in 1..consumed : stream[n].hash = f
                 /\ ~ \E n \in 1..registered[1] : stream[n].hash = f}

(* The rows of a kind: one for each frame of that kind that is due.          *)
Holds(rows, kind, due) ==
  /\ \A i \in DOMAIN rows : rows[i].type = kind
  /\ \A i, j \in DOMAIN rows : rows[i].hash = rows[j].hash => i = j
  /\ \A f \in Known : Kinds[f.kind] = kind =>
       (f \in due <=> \E i \in DOMAIN rows : rows[i].hash = f)

(* What is marked as processed are the keys of what was consumed.            *)
KeyInv == processed = {Key(Sent(n)) : n \in 1..consumed}

StoredInv == Holds(positions, "position", Due) /\ Holds(alarms, "event", Due)

\* A row more for a frame that is newly due.
LEMMA HoldsOneMore ==
  ASSUME PipelineAssumption, NEW kind \in Reports, NEW rows \in Seq(Messages), NEW due,
         NEW due2, NEW m \in Messages, m.type = kind, Holds(rows, kind, due), m.hash \notin due,
         \A f \in Known : f \in due2 <=> f \in due \/ f = m.hash
  PROVE  Holds(Append(rows, m), kind, due2)
<1> DEFINE more == Append(rows, m)
           n == Len(rows)
<1>1. /\ n \in Nat /\ DOMAIN rows = 1..n /\ DOMAIN more = 1..(n + 1) /\ more[n + 1] = m
      /\ \A i \in 1..n : more[i] = rows[i]
  BY OneMore
<1>2. m.hash \in Known /\ Kinds[m.hash.kind] = kind
  BY MessageIs
<1> HIDE DEF more, n
<1>3. \A i \in 1..(n + 1) : i \in 1..n \/ i = n + 1
  BY <1>1
<1>4. n + 1 \in 1..(n + 1) /\ \A i \in 1..n : i \in 1..(n + 1)
  BY <1>1
<1>5. \A i \in DOMAIN rows : rows[i].hash # m.hash
  BY <1>2 DEF Holds
<1>6. \A i \in DOMAIN more : more[i].type = kind
  BY <1>1, <1>3 DEF Holds
<1>7. ASSUME NEW i \in DOMAIN more, NEW j \in DOMAIN more, more[i].hash = more[j].hash
      PROVE  i = j
  <2>1. CASE i \in 1..n /\ j \in 1..n
    BY <1>1, <1>7, <2>1 DEF Holds
  <2>2. CASE i = n + 1 /\ j \in 1..n
    BY <1>1, <1>5, <1>7, <2>2
  <2>3. CASE i \in 1..n /\ j = n + 1
    BY <1>1, <1>5, <1>7, <2>3
  <2> QED
    BY <1>1, <1>3, <2>1, <2>2, <2>3
<1>8. ASSUME NEW f \in Known, Kinds[f.kind] = kind
      PROVE  f \in due2 <=> \E i \in DOMAIN more : more[i].hash = f
  <2>1. f \in due <=> \E i \in DOMAIN rows : rows[i].hash = f
    BY <1>8 DEF Holds
  <2>2. (\E i \in DOMAIN more : more[i].hash = f) <=>
          (\E i \in DOMAIN rows : rows[i].hash = f) \/ f = m.hash
    BY <1>1, <1>3, <1>4
  <2> QED
    BY <2>1, <2>2
<1>9. Holds(more, kind, due2)
  BY <1>6, <1>7, <1>8 DEF Holds
<1> QED
  BY <1>9 DEF more

LEMMA HoldsStill ==
  ASSUME NEW kind, NEW rows, NEW due, NEW due2, Holds(rows, kind, due),
         \A f \in Known : Kinds[f.kind] = kind => (f \in due2 <=> f \in due)
  PROVE  Holds(rows, kind, due2)
  BY DEF Holds

\* The first entries stay what they were.
LEMMA FirstEntries ==
  ASSUME PipelineAssumption, Numerals, TypeInv, NEW c \in Conns, Publish(c)
  PROVE  /\ \A n \in 1..consumed : stream'[n] = stream[n]
         /\ Due' = Due
<1>1. \A n \in 1..consumed : n \in DOMAIN stream
  BY Numbers
<1>2. \A n \in 1..consumed : stream'[n] = stream[n]
  BY <1>1, PublishAdds
<1>3. registered # <<>> => registered[1] \in 0..consumed
  BY DEF TypeInv, WayInv
<1>4. registered # <<>> => \A n \in 1..registered[1] : n \in 1..consumed
  BY <1>3, Numbers
<1>5. consumed' = consumed /\ registered' = registered
  BY DEF Publish
<1> QED
  BY <1>2, <1>4, <1>5 DEF Due

LEMMA KeysKeep ==
  ASSUME PipelineAssumption, Numerals, TypeInv, KeyInv, [Next]_vars
  PROVE  KeyInv'
<1>1. ASSUME NEW c \in Conns, Publish(c)
      PROVE  KeyInv'
  <2>1. \A n \in 1..consumed : Sent(n)' = Sent(n)
    BY <1>1, FirstEntries DEF Sent
  <2>2. consumed' = consumed /\ processed' = processed
    BY <1>1 DEF Publish
  <2>3. \A n \in 1..consumed : Key(Sent(n)') = Key(Sent(n))
    BY <2>1
  <2>4. \A m : Key(m)' = Key(m)
    BY DEF Key, SerialOf, Text
  <2> QED
    BY <2>2, <2>3, <2>4 DEF KeyInv
<1>2. CASE Process
  <2>1. /\ consumed' = consumed + 1 /\ stream' = stream
        /\ processed' = processed \cup {Key(Sent(consumed + 1))}
    BY <1>2, ProcessDoes
  <2>2. \A n : n \in 1..(consumed + 1) <=> n \in 1..consumed \/ n = consumed + 1
    BY Numbers
  <2>3. {Key(Sent(n)) : n \in 1..(consumed + 1)} =
          {Key(Sent(n)) : n \in 1..consumed} \cup {Key(Sent(consumed + 1))}
    BY <2>2
  <2>4. KeyInv' <=> processed' = {Key(Sent(n)) : n \in 1..(consumed + 1)}
    BY <2>1 DEF KeyInv, Sent
  <2> QED
    BY <2>1, <2>3, <2>4 DEF KeyInv
<1>3. CASE UNCHANGED <<processed, consumed, stream>>
  BY <1>3 DEF KeyInv, Sent
<1>4. CASE Tick \/ Register \/ UNCHANGED vars
  BY <1>3, <1>4 DEF Tick, Register, vars
<1>5. ASSUME NEW c \in Conns, HangUp(c) \/ \E f \in Frames : Receive(c, f)
      PROVE  KeyInv'
  BY <1>3, <1>5 DEF HangUp, Receive
<1> QED
  BY <1>1, <1>2, <1>4, <1>5 DEF Next

\* A report was processed before exactly if an entry of its frame was consumed.
LEMMA SeenBefore ==
  ASSUME PipelineAssumption, Numerals, TypeInv, KeyInv, NEW m \in Messages, m.type \in Reports
  PROVE  Key(m) \in processed <=> \E n \in 1..consumed : stream[n].hash = m.hash
<1>1. \A n \in 1..consumed : n \in DOMAIN stream
  BY Numbers
<1>2. \A n \in 1..consumed : Sent(n) \in Messages /\ Sent(n).hash = stream[n].hash
  BY <1>1, SentIs
<1>3. \A n \in 1..consumed : Key(m) = Key(Sent(n)) <=> stream[n].hash = m.hash
  BY <1>2, KeyIsHash
<1> QED
  BY <1>3 DEF KeyInv

\* What becomes due when the next entry is consumed: its frame, if it is new.
LEMMA DueGrows ==
  ASSUME PipelineAssumption, Numerals, TypeInv, KeyInv, Process,
         NEW f \in Known
  PROVE  LET m == Sent(consumed + 1) IN
         /\ registered = <<>> => f \notin Due /\ f \notin Due'
         /\ f # m.hash => (f \in Due' <=> f \in Due)
         /\ f = m.hash /\ registered # <<>> =>
              IF \E n \in 1..consumed : stream[n].hash = f
              THEN f \in Due' <=> f \in Due
              ELSE f \notin Due /\ f \in Due'
<1>1. /\ consumed' = consumed + 1 /\ UNCHANGED <<stream, registered>>
      /\ consumed + 1 \in DOMAIN stream
  BY ProcessDoes
<1>2. Sent(consumed + 1).hash = stream[consumed + 1].hash
  BY <1>1, SentIs
<1>3. \A n : n \in 1..(consumed + 1) <=> n \in 1..consumed \/ n = consumed + 1
  BY Numbers
<1>4. registered # <<>> => \A n \in 1..registered[1] : n \in 1..consumed
  <2>1. registered # <<>> => registered[1] \in 0..consumed
    BY DEF TypeInv, WayInv
  <2> QED
    BY <2>1, Numbers
<1>5. f \in Due <=> /\ registered # <<>>
                    /\ \E n \in 1..consumed : stream[n].hash = f
                    /\ ~ \E n \in 1..registered[1] : stream[n].hash = f
  BY DEF Due
<1>6. f \in Due' <=> /\ registered # <<>>
                     /\ \E n \in 1..(consumed + 1) : stream[n].hash = f
                     /\ ~ \E n \in 1..registered[1] : stream[n].hash = f
  BY <1>1 DEF Due
<1>7. (\E n \in 1..(consumed + 1) : stream[n].hash = f) <=>
        (\E n \in 1..consumed : stream[n].hash = f) \/ stream[consumed + 1].hash = f
  BY <1>3
<1> QED
  BY <1>2, <1>4, <1>5, <1>6, <1>7

LEMMA ProcessStores ==
  ASSUME PipelineAssumption, Numerals, TypeInv, KeyInv, StoredInv, Process
  PROVE  StoredInv'
<1>1. PICK m : m = Sent(consumed + 1)
  OBVIOUS
<1>2. /\ m \in Messages
      /\ positions' = IF registered # <<>> /\ Key(m) \notin processed /\ m.type = "position"
                      THEN Append(positions, m) ELSE positions
      /\ alarms' = IF registered # <<>> /\ Key(m) \notin processed /\ m.type = "event"
                   THEN Append(alarms, m) ELSE alarms
  BY <1>1, ProcessDoes
<1>3. ASSUME NEW kind \in Reports, NEW rows \in Seq(Messages), NEW more,
             more = IF registered # <<>> /\ Key(m) \notin processed /\ m.type = kind
                    THEN Append(rows, m) ELSE rows,
             Holds(rows, kind, Due)
      PROVE  Holds(more, kind, Due')
  <2>1. CASE registered # <<>> /\ Key(m) \notin processed /\ m.type = kind
    <3>1. m.hash \in Known
      BY <1>2, <2>1, MessageIs
    <3>2. ~ \E n \in 1..consumed : stream[n].hash = m.hash
      BY <1>2, <2>1, SeenBefore
    <3>3. m.hash \notin Due /\ m.hash \in Due'
      BY <1>1, <2>1, <3>1, <3>2, DueGrows
    <3>4. \A f \in Known : f \in Due' <=> f \in Due \/ f = m.hash
      BY <1>1, <3>3, DueGrows
    <3>5. more = Append(rows, m)
      BY <1>3, <2>1
    <3> QED
      BY <1>2, <1>3, <2>1, <3>3, <3>4, <3>5, HoldsOneMore
  <2>2. CASE ~ (registered # <<>> /\ Key(m) \notin processed /\ m.type = kind)
    <3>1. ASSUME NEW f \in Known, Kinds[f.kind] = kind
          PROVE  f \in Due' <=> f \in Due
      <4>1. CASE registered = <<>> \/ f # m.hash
        BY <1>1, <4>1, DueGrows
      <4>2. CASE registered # <<>> /\ f = m.hash
        <5>1. m.type = kind
          BY <1>2, <3>1, <4>2, MessageIs
        <5>2. \E n \in 1..consumed : stream[n].hash = m.hash
          BY <1>2, <1>3, <2>2, <4>2, <5>1, SeenBefore
        <5> QED
          BY <1>1, <4>2, <5>2, DueGrows
      <4> QED
        BY <4>1, <4>2
    <3>2. more = rows
      BY <1>3, <2>2
    <3> QED
      BY <1>3, <3>1, <3>2, HoldsStill
  <2> QED
    BY <2>1, <2>2
<1>4. positions \in Seq(Messages) /\ alarms \in Seq(Messages)
  BY DEF TypeInv, WayInv
<1>5. "position" \in Reports /\ "event" \in Reports
  BY DEF Reports
<1>6. Holds(positions', "position", Due')
  BY <1>2, <1>3, <1>4, <1>5 DEF StoredInv
<1>7. Holds(alarms', "event", Due')
  BY <1>2, <1>3, <1>4, <1>5 DEF StoredInv
<1> QED
  BY <1>6, <1>7 DEF StoredInv, Holds

LEMMA StoredKeeps ==
  ASSUME PipelineAssumption, Numerals, TypeInv, KeyInv, StoredInv, [Next]_vars
  PROVE  StoredInv'
<1>1. ASSUME UNCHANGED <<positions, alarms>>, Due' = Due
      PROVE  StoredInv'
  BY <1>1 DEF StoredInv, Holds
<1>2. ASSUME NEW c \in Conns, Publish(c)
      PROVE  StoredInv'
  <2>1. Due' = Due
    BY <1>2, FirstEntries
  <2>2. UNCHANGED <<positions, alarms>>
    BY <1>2 DEF Publish
  <2> QED
    BY <1>1, <2>1, <2>2
<1>3. CASE Register
  <2>1. /\ registered = <<>> /\ registered' = <<consumed>>
        /\ UNCHANGED <<stream, consumed, positions, alarms>>
    BY <1>3 DEF Register
  <2>2. Due = {}
    BY <2>1 DEF Due
  <2>3. registered'[1] = consumed
    BY <2>1
  <2>4. Due' = {}
    BY <2>1, <2>3 DEF Due
  <2> QED
    BY <1>1, <2>1, <2>2, <2>4
<1>4. CASE UNCHANGED <<stream, consumed, registered, positions, alarms>>
  <2>1. Due' = Due
    BY <1>4 DEF Due
  <2> QED
    BY <1>1, <1>4, <2>1
<1>5. CASE Tick \/ UNCHANGED vars
  BY <1>4, <1>5 DEF Tick, vars
<1>6. ASSUME NEW c \in Conns, HangUp(c) \/ \E f \in Frames : Receive(c, f)
      PROVE  StoredInv'
  BY <1>4, <1>6 DEF HangUp, Receive
<1>7. CASE Process
  BY <1>7, ProcessStores
<1> QED
  BY <1>2, <1>3, <1>5, <1>6, <1>7 DEF Next
-----------------------------------------------------------------------------
(* The places. What one connection says of positions is in the order of its  *)
(* stamps, in the stream and among the positions stored.                     *)
Places(m) == m.type = "position"

StampInv ==
  /\ \A n \in DOMAIN stream : Places(stream[n]) => stream[n].at <= clock
  /\ \A c \in Conns : stamped[c] # <<>> /\ Places(stamped[c][1]) =>
       /\ stamped[c][1].at <= clock
       /\ \A n \in DOMAIN stream :
            Places(stream[n]) /\ stream[n].conn = c => stream[n].at <= stamped[c][1].at

StreamInv ==
  \A n, k \in DOMAIN stream :
    /\ n < k /\ stream[n].conn = stream[k].conn
    /\ Places(stream[n]) /\ Places(stream[k])
    => stream[n].at <= stream[k].at

OrderInv ==
  /\ \A i \in DOMAIN positions :
       Places(positions[i]) /\ \E n \in 1..consumed : positions[i] = Sent(n)
  /\ \A i, j \in DOMAIN positions :
       i < j /\ positions[i].conn = positions[j].conn => positions[i].at <= positions[j].at

(* The row of the device has the last place that was stored.                 *)
Placed == {i \in DOMAIN positions : positions[i].place # <<>>}
PlaceInv ==
  /\ Placed = {} => tracker.place = <<>>
  /\ Placed # {} => \E x \in Placed :
       (\A y \in Placed : y <= x) /\ tracker.place = positions[x].place

\* A frame is mapped now, after all its connection said.
LEMMA ReceiveStamps ==
  ASSUME PipelineAssumption, TypeInv, StampInv, NEW c \in Conns, NEW f \in Frames,
         Receive(c, f)
  PROVE  StampInv'
<1>1. /\ UNCHANGED <<clock, stream>>
      /\ \A d \in Conns : stamped'[d] = IF d = c THEN Mapped(c, f) ELSE stamped[d]
  BY DEF Receive, TypeInv, WayInv
<1>2. Mapped(c, f) # <<>> => Mapped(c, f)[1].at = clock
  BY OneStamp DEF Mapped, Contract
<1>3. clock <= clock
  BY Numbers
<1>4. ASSUME NEW d \in Conns, stamped'[d] # <<>>, Places(stamped'[d][1])
      PROVE  /\ stamped'[d][1].at <= clock
             /\ \A n \in DOMAIN stream :
                  Places(stream[n]) /\ stream[n].conn = d => stream[n].at <= stamped'[d][1].at
  <2>1. CASE d = c
    <3>1. stamped'[d] = Mapped(c, f) /\ stamped'[d][1].at = clock
      BY <1>1, <1>2, <1>4, <2>1
    <3> QED
      BY <1>3, <3>1 DEF StampInv
  <2>2. CASE d # c
    BY <1>1, <1>4, <2>2 DEF StampInv
  <2> QED
    BY <2>1, <2>2
<1> QED
  BY <1>1, <1>4 DEF StampInv, Places

LEMMA PublishStamps ==
  ASSUME PipelineAssumption, Numerals, TypeInv, StampInv, StreamInv, NEW c \in Conns, Publish(c)
  PROVE  StampInv' /\ StreamInv'
<1> DEFINE m == stamped[c][1]
           l == Len(stream)
<1>1. /\ m \in Messages /\ m.conn = c /\ stamped[c] # <<>>
      /\ DOMAIN stream' = 1..(l + 1) /\ stream'[l + 1] = Serialized(m)
      /\ \A n \in DOMAIN stream : n \in DOMAIN stream' /\ stream'[n] = stream[n]
      /\ DOMAIN stream = 1..l /\ l \in Nat
  BY PublishAdds, Numbers DEF Publish
<1>2. /\ stream'[l + 1].type = m.type /\ stream'[l + 1].at = m.at /\ stream'[l + 1].conn = c
  BY <1>1, ReadAsWritten
<1>3. /\ clock' = clock
      /\ \A d \in Conns : stamped'[d] = IF d = c THEN <<>> ELSE stamped[d]
  BY DEF Publish, TypeInv, WayInv
<1>4. /\ Places(m) => m.at <= clock
      /\ Places(m) => \A n \in DOMAIN stream :
           Places(stream[n]) /\ stream[n].conn = c => stream[n].at <= m.at
  BY <1>1 DEF StampInv
<1> HIDE DEF m, l
<1>5. \A n \in 1..(l + 1) : n \in DOMAIN stream \/ n = l + 1
  BY <1>1
<1>6. ASSUME NEW n \in DOMAIN stream', Places(stream'[n])
      PROVE  stream'[n].at <= clock
  <2>1. CASE n \in DOMAIN stream
    BY <1>1, <1>6, <2>1 DEF StampInv
  <2>2. CASE n = l + 1
    BY <1>2, <1>4, <1>6, <2>2 DEF Places
  <2> QED
    BY <1>1, <1>5, <2>1, <2>2
<1>7. ASSUME NEW d \in Conns, stamped'[d] # <<>>, Places(stamped'[d][1])
      PROVE  /\ stamped'[d][1].at <= clock
             /\ \A n \in DOMAIN stream' :
                  Places(stream'[n]) /\ stream'[n].conn = d =>
                    stream'[n].at <= stamped'[d][1].at
  <2>1. d # c /\ stamped'[d] = stamped[d]
    BY <1>3, <1>7
  <2>2. ASSUME NEW n \in DOMAIN stream', Places(stream'[n]), stream'[n].conn = d
        PROVE  n \in DOMAIN stream /\ stream'[n] = stream[n]
    BY <1>1, <1>2, <1>5, <2>1, <2>2
  <2> QED
    BY <1>7, <2>1, <2>2 DEF StampInv
<1>8. ASSUME NEW n \in DOMAIN stream', NEW k \in DOMAIN stream', n < k,
             stream'[n].conn = stream'[k].conn, Places(stream'[n]), Places(stream'[k])
      PROVE  stream'[n].at <= stream'[k].at
  <2>1. n \in DOMAIN stream
    BY <1>1, <1>5, <1>8
  <2>2. CASE k \in DOMAIN stream
    BY <1>1, <1>8, <2>1, <2>2 DEF StreamInv
  <2>3. CASE k = l + 1
    <3>1. Places(m) /\ stream[n].conn = c /\ Places(stream[n]) /\ stream'[n] = stream[n]
      BY <1>1, <1>2, <1>8, <2>1, <2>3 DEF Places
    <3> QED
      BY <1>2, <1>4, <2>1, <2>3, <3>1
  <2> QED
    BY <1>1, <1>5, <2>2, <2>3
<1> QED
  BY <1>3, <1>6, <1>7, <1>8 DEF StampInv, StreamInv, Places

LEMMA StampsKeep ==
  ASSUME PipelineAssumption, Numerals, TypeInv, StampInv, StreamInv, [Next]_vars
  PROVE  StampInv' /\ StreamInv'
<1>1. CASE UNCHANGED <<stream, stamped, clock>>
  BY <1>1 DEF StampInv, StreamInv, Places
<1>2. CASE Register \/ Process \/ UNCHANGED vars
  BY <1>1, <1>2 DEF Register, Process, vars
<1>3. CASE Tick
  <2>1. clock \in Nat /\ clock' = clock + 1 /\ UNCHANGED <<stream, stamped>>
    BY <1>3, Numbers DEF Tick
  <2>2. ASSUME NEW n \in DOMAIN stream, Places(stream[n])
        PROVE  stream[n].at <= clock'
    <3>1. stream[n].at \in Nat
      <4>1. stream[n] \in Entries
        BY Numbers
      <4>2. Parsed(stream[n]) \in Messages /\ Parsed(stream[n]).at = stream[n].at
        BY <4>1, EntryIs
      <4>3. stream[n].at \in 0..MaxClock
        BY <4>2, MessageIs
      <4> QED
        BY <4>3, Numbers
    <3> QED
      BY <2>1, <2>2, <3>1 DEF StampInv
  <2>3. ASSUME NEW c \in Conns, stamped[c] # <<>>, Places(stamped[c][1])
        PROVE  stamped[c][1].at <= clock'
    <3>1. PICK m \in Messages : stamped[c] = <<m>>
      BY <2>3 DEF TypeInv, WayInv
    <3>2. stamped[c][1] = m /\ m.at \in 0..MaxClock
      BY <3>1, OneStamp, MessageIs
    <3> QED
      BY <2>1, <2>3, <3>2, Numbers DEF StampInv
  <2> QED
    BY <2>1, <2>2, <2>3 DEF StampInv, StreamInv, Places
<1>4. ASSUME NEW c \in Conns, NEW f \in Frames, Receive(c, f)
      PROVE  StampInv' /\ StreamInv'
  <2>1. stream' = stream
    BY <1>4 DEF Receive
  <2> QED
    BY <1>4, <2>1, ReceiveStamps DEF StreamInv, Places
<1>5. ASSUME NEW c \in Conns, HangUp(c)
      PROVE  StampInv' /\ StreamInv'
  <2>1. UNCHANGED <<stream, clock>>
    BY <1>5 DEF HangUp
  <2>2. \A d \in Conns : stamped'[d] = IF d = c THEN <<Goodbye(c, active[c])>> ELSE stamped[d]
    BY <1>5 DEF HangUp, TypeInv, WayInv
  <2>3. ~ Places(<<Goodbye(c, active[c])>>[1])
    BY DEF Goodbye, Places
  <2>4. \A d \in Conns : Places(stamped'[d][1]) => stamped'[d] = stamped[d]
    BY <2>2, <2>3
  <2> QED
    BY <2>1, <2>4 DEF StampInv, StreamInv, Places
<1>6. ASSUME NEW c \in Conns, Publish(c)
      PROVE  StampInv' /\ StreamInv'
  BY <1>6, PublishStamps
<1> QED
  BY <1>2, <1>3, <1>4, <1>5, <1>6 DEF Next
\* What is stored of a report is newer than what its connection said before.
LEMMA ProcessOrders ==
  ASSUME PipelineAssumption, Numerals, TypeInv, StreamInv, OrderInv, Process
  PROVE  OrderInv'
<1>1. PICK m : m = Sent(consumed + 1)
  OBVIOUS
<1>2. /\ m \in Messages /\ consumed + 1 \in DOMAIN stream /\ consumed' = consumed + 1
      /\ stream' = stream
      /\ positions' = positions \/ (positions' = Append(positions, m) /\ Places(m))
  <2>1. /\ m \in Messages /\ consumed + 1 \in DOMAIN stream /\ consumed' = consumed + 1
        /\ stream' = stream
    BY <1>1, ProcessDoes
  <2>2. positions' = positions \/ (positions' = Append(positions, m) /\ m.type = "position")
    BY <1>1, ProcessDoes
  <2> QED
    BY <2>1, <2>2 DEF Places
<1>3. \A n : n \in 1..(consumed + 1) <=> n \in 1..consumed \/ n = consumed + 1
  BY Numbers
<1>4. \A n : Sent(n)' = Sent(n)
  BY <1>2 DEF Sent
<1>5. CASE positions' = positions
  BY <1>2, <1>3, <1>4, <1>5 DEF OrderInv, Places
<1>6. CASE positions' = Append(positions, m) /\ Places(m)
  <2> DEFINE l == Len(positions)
  <2>1. /\ l \in Nat /\ DOMAIN positions = 1..l /\ DOMAIN positions' = 1..(l + 1)
        /\ positions'[l + 1] = m /\ \A i \in 1..l : positions'[i] = positions[i]
    <3>1. positions \in Seq(Messages)
      BY DEF TypeInv, WayInv
    <3> QED
      BY <1>2, <1>6, <3>1, OneMore
  <2> HIDE DEF l
  <2>2. \A i \in 1..(l + 1) : i \in 1..l \/ i = l + 1
    BY <2>1
  <2>3. ASSUME NEW i \in DOMAIN positions'
        PROVE  Places(positions'[i]) /\ \E n \in 1..(consumed + 1) : positions'[i] = Sent(n)
    <3>1. CASE i \in 1..l
      BY <1>3, <2>1, <3>1 DEF OrderInv
    <3>2. CASE i = l + 1
      BY <1>1, <1>3, <1>6, <2>1, <3>2
    <3> QED
      BY <2>1, <2>2, <3>1, <3>2
  <2>4. ASSUME NEW i \in DOMAIN positions, positions[i].conn = m.conn
        PROVE  positions[i].at <= m.at
    <3>1. PICK n \in 1..consumed : positions[i] = Sent(n)
      BY DEF OrderInv
    <3>2. Places(positions[i])
      BY DEF OrderInv
    <3>3. n \in DOMAIN stream /\ n < consumed + 1
      BY Numbers
    <3>4. /\ stream[n].conn = stream[consumed + 1].conn
          /\ Places(stream[n]) /\ Places(stream[consumed + 1])
          /\ stream[n].at = positions[i].at /\ stream[consumed + 1].at = m.at
      BY <1>1, <1>2, <1>6, <2>4, <3>1, <3>2, <3>3, SentIs DEF Places
    <3>5. stream[n].at <= stream[consumed + 1].at
      BY <1>2, <3>3, <3>4 DEF StreamInv
    <3> QED
      BY <3>4, <3>5
  <2>5. ASSUME NEW i \in DOMAIN positions', NEW j \in DOMAIN positions', i < j,
               positions'[i].conn = positions'[j].conn
        PROVE  positions'[i].at <= positions'[j].at
    <3>1. i \in 1..l
      BY <2>1, <2>2, <2>5
    <3>2. CASE j \in 1..l
      BY <2>1, <2>5, <3>1, <3>2 DEF OrderInv
    <3>3. CASE j = l + 1
      BY <2>1, <2>4, <2>5, <3>1, <3>3
    <3> QED
      BY <2>1, <2>2, <3>2, <3>3
  <2> QED
    BY <1>2, <1>4, <2>3, <2>5 DEF OrderInv, Places
<1> QED
  BY <1>2, <1>5, <1>6

\* The row takes the place of a report when the report is stored.
LEMMA ProcessPlaces ==
  ASSUME PipelineAssumption, Numerals, TypeInv, PlaceInv, OrderInv, Process
  PROVE  PlaceInv'
<1>1. PICK m : m = Sent(consumed + 1)
  OBVIOUS
<1>2. Synced(m).place = IF m.type = "position" /\ m.place # <<>> THEN m.place ELSE tracker.place
  BY DEF Synced
<1>3. m \in Messages
  BY <1>1, ProcessDoes
<1>4. \/ positions' = positions /\ tracker'.place = tracker.place
      \/ /\ positions' = Append(positions, m)
         /\ tracker'.place = IF m.place # <<>> THEN m.place ELSE tracker.place
  BY <1>1, <1>2, ProcessDoes
<1>5. CASE positions' = positions /\ tracker'.place = tracker.place
  BY <1>5 DEF PlaceInv, Placed
<1>6. CASE /\ positions' = Append(positions, m)
           /\ tracker'.place = IF m.place # <<>> THEN m.place ELSE tracker.place
  <2> DEFINE l == Len(positions)
  <2>1. /\ l \in Nat /\ DOMAIN positions = 1..l /\ DOMAIN positions' = 1..(l + 1)
        /\ positions'[l + 1] = m /\ \A i \in 1..l : positions'[i] = positions[i]
    <3>1. positions \in Seq(Messages)
      BY DEF TypeInv, WayInv
    <3> QED
      BY <1>3, <1>6, <3>1, OneMore
  <2> HIDE DEF l
  <2>2. \A i \in 1..(l + 1) : i \in 1..l \/ i = l + 1
    BY <2>1
  <2>3. l + 1 \in 1..(l + 1) /\ \A i \in 1..l : i \in 1..(l + 1) /\ i <= l + 1
    BY <2>1
  <2>4. \A i \in Placed : i \in 1..l /\ positions'[i] = positions[i]
    BY <2>1 DEF Placed
  <2>5. CASE m.place # <<>>
    <3>1. l + 1 \in Placed'
      BY <2>1, <2>3, <2>5 DEF Placed
    <3>2. \A y \in Placed' : y <= l + 1
      BY <2>1, <2>2, <2>3 DEF Placed
    <3>3. tracker'.place = positions'[l + 1].place
      BY <1>6, <2>1, <2>5
    <3> QED
      BY <3>1, <3>2, <3>3 DEF PlaceInv
  <2>6. CASE m.place = <<>>
    <3>1. Placed' = Placed
      BY <2>1, <2>2, <2>3, <2>6 DEF Placed
    <3> QED
      BY <1>6, <2>4, <2>6, <3>1 DEF PlaceInv
  <2> QED
    BY <2>5, <2>6
<1> QED
  BY <1>4, <1>5, <1>6

LEMMA PlacesKeep ==
  ASSUME PipelineAssumption, Numerals, TypeInv, StreamInv, OrderInv, PlaceInv, [Next]_vars
  PROVE  OrderInv' /\ PlaceInv'
<1>1. ASSUME UNCHANGED <<positions, tracker, consumed>>,
             \A n \in 1..consumed : Sent(n)' = Sent(n)
      PROVE  OrderInv' /\ PlaceInv'
  BY <1>1 DEF OrderInv, PlaceInv, Placed, Places
<1>2. CASE UNCHANGED <<positions, tracker, consumed, stream>>
  BY <1>1, <1>2 DEF Sent
<1>3. CASE Tick \/ Register \/ UNCHANGED vars
  BY <1>2, <1>3 DEF Tick, Register, vars
<1>4. ASSUME NEW c \in Conns, HangUp(c) \/ \E f \in Frames : Receive(c, f)
      PROVE  OrderInv' /\ PlaceInv'
  BY <1>2, <1>4 DEF HangUp, Receive
<1>5. ASSUME NEW c \in Conns, Publish(c)
      PROVE  OrderInv' /\ PlaceInv'
  <2>1. \A n \in 1..consumed : Sent(n)' = Sent(n)
    BY <1>5, FirstEntries DEF Sent
  <2>2. UNCHANGED <<positions, tracker, consumed>>
    BY <1>5 DEF Publish
  <2> QED
    BY <1>1, <2>1, <2>2
<1>6. CASE Process
  BY <1>6, ProcessOrders, ProcessPlaces
<1> QED
  BY <1>3, <1>4, <1>5, <1>6 DEF Next
-----------------------------------------------------------------------------
(* What the invariants say.                                                  *)
LEMMA Joined ==
  ASSUME NEW S, NEW s \in Seq(S), NEW t \in Seq(S)
  PROVE  /\ Len(s) \in Nat /\ Len(t) \in Nat /\ DOMAIN s = 1..Len(s) /\ DOMAIN t = 1..Len(t)
         /\ DOMAIN (s \o t) = 1..(Len(s) + Len(t))
         /\ \A i \in 1..Len(s) : (s \o t)[i] = s[i]
         /\ \A i \in 1..Len(t) : (s \o t)[Len(s) + i] = t[i]
  OBVIOUS

LEMMA OnceSays ==
  ASSUME PipelineAssumption, Numerals, TypeInv, StoredInv
  PROVE  EachReportOnce
<1> DEFINE stored == positions \o alarms
           a == Len(positions)
           b == Len(alarms)
           early(hash) == registered = <<>> \/ \E n \in 1..registered[1] : stream[n].hash = hash
<1>1. /\ a \in Nat /\ b \in Nat /\ DOMAIN positions = 1..a /\ DOMAIN alarms = 1..b
      /\ DOMAIN stored = 1..(a + b)
      /\ \A i \in 1..a : stored[i] = positions[i] /\ positions[i] \in Messages
      /\ \A i \in 1..b : stored[a + i] = alarms[i] /\ alarms[i] \in Messages
  <2>1. positions \in Seq(Messages) /\ alarms \in Seq(Messages)
    BY DEF TypeInv, WayInv
  <2>2. /\ \A i \in DOMAIN positions : positions[i] \in Messages
        /\ \A i \in DOMAIN alarms : alarms[i] \in Messages
    BY <2>1
  <2> QED
    BY <2>1, <2>2, Joined
<1> HIDE DEF stored, a, b
<1>2. ASSUME NEW i \in 1..(a + b)
      PROVE  i \in 1..a \/ \E k \in 1..b : i = a + k
  <2>1. CASE i <= a
    BY <1>1, <2>1
  <2>2. CASE i > a
    <3>1. i - a \in 1..b /\ i = a + (i - a)
      BY <1>1, <2>2
    <3> QED
      BY <3>1
  <2> QED
    BY <1>1, <2>1, <2>2
<1>3. /\ \A i \in 1..a : i \in 1..(a + b)
      /\ \A k \in 1..b : a + k \in 1..(a + b)
  BY <1>1
<1>4. /\ \A i \in 1..a : positions[i].type = "position"
      /\ \A i \in 1..b : alarms[i].type = "event"
  BY <1>1 DEF StoredInv, Holds
<1>5. /\ \A i \in 1..a : positions[i].hash \in Known /\ Kinds[positions[i].hash.kind] = "position"
      /\ \A i \in 1..b : alarms[i].hash \in Known /\ Kinds[alarms[i].hash.kind] = "event"
  <2>1. "position" \in Reports /\ "event" \in Reports
    BY DEF Reports
  <2>2. ASSUME NEW i \in 1..a
        PROVE  positions[i].hash \in Known /\ Kinds[positions[i].hash.kind] = "position"
    <3>1. positions[i] \in Messages /\ positions[i].type = "position"
      BY <1>1, <1>4
    <3> QED
      BY <2>1, <3>1, MessageIs
  <2>3. ASSUME NEW i \in 1..b
        PROVE  alarms[i].hash \in Known /\ Kinds[alarms[i].hash.kind] = "event"
    <3>1. alarms[i] \in Messages /\ alarms[i].type = "event"
      BY <1>1, <1>4
    <3> QED
      BY <2>1, <3>1, MessageIs
  <2> QED
    BY <2>2, <2>3
<1>6. ASSUME NEW i \in DOMAIN stored, NEW j \in DOMAIN stored, stored[i].hash = stored[j].hash
      PROVE  i = j
  <2>1. CASE i \in 1..a /\ j \in 1..a
    BY <1>1, <1>6, <2>1 DEF StoredInv, Holds
  <2>2. ASSUME NEW k \in 1..b, NEW l \in 1..b, i = a + k, j = a + l
        PROVE  i = j
    <3>1. alarms[k].hash = alarms[l].hash
      BY <1>1, <1>6, <2>2
    <3> QED
      BY <1>1, <2>2, <3>1 DEF StoredInv, Holds
  <2>3. ASSUME NEW k \in 1..a, NEW l \in 1..b, stored[k].hash = stored[a + l].hash
        PROVE  FALSE
    <3>1. positions[k].hash = alarms[l].hash
      BY <1>1, <2>3
    <3> QED
      BY <1>5, <3>1
  <2>4. /\ i \in 1..a \/ \E k \in 1..b : i = a + k
        /\ j \in 1..a \/ \E k \in 1..b : j = a + k
    <3>1. i \in 1..(a + b) /\ j \in 1..(a + b)
      BY <1>1
    <3> QED
      BY <1>2, <3>1
  <2>5. ~ (i \in 1..a /\ \E k \in 1..b : j = a + k)
    BY <1>6, <2>3
  <2>6. ~ (j \in 1..a /\ \E k \in 1..b : i = a + k)
    BY <1>6, <2>3
  <2> QED
    BY <2>1, <2>2, <2>4, <2>5, <2>6
<1>7. ASSUME NEW i \in DOMAIN stored
      PROVE  stored[i].serial = stored[i].hash.serial /\ stored[i].gpsTime = stored[i].hash.gpsTime
  <2>1. stored[i] \in Messages /\ stored[i].type \in Reports
    <3>1. i \in 1..(a + b)
      BY <1>1
    <3>2. CASE i \in 1..a
      BY <1>1, <1>4, <3>2 DEF Reports
    <3>3. ASSUME NEW k \in 1..b, i = a + k
          PROVE  stored[i] \in Messages /\ stored[i].type \in Reports
      <4>1. stored[i] = alarms[k] /\ alarms[k] \in Messages /\ alarms[k].type = "event"
        BY <1>1, <1>4, <3>3
      <4> QED
        BY <4>1 DEF Reports
    <3> QED
      BY <1>2, <3>1, <3>2, <3>3
  <2> QED
    BY <2>1, MessageIs
<1>8. ASSUME NEW n \in 1..consumed, stream[n].type \in {"position", "event"}
      PROVE  early(stream[n].hash) <=> ~ \E i \in DOMAIN stored : stored[i].hash = stream[n].hash
  <2> DEFINE f == stream[n].hash
  <2>1. n \in DOMAIN stream
    BY Numbers
  <2>2. /\ f \in Known /\ stream[n].type = Kinds[f.kind]
    BY <1>8, <2>1, SentIs, MessageIs DEF Reports
  <2>3. f \in Due <=> ~early(f)
    BY <2>2 DEF Due
  <2>4. (\E i \in DOMAIN stored : stored[i].hash = f) <=>
          \/ \E i \in 1..a : positions[i].hash = f
          \/ \E i \in 1..b : alarms[i].hash = f
    <3>1. ASSUME NEW i \in 1..a, positions[i].hash = f
          PROVE  i \in DOMAIN stored /\ stored[i].hash = f
      BY <1>1, <1>3, <3>1
    <3>2. ASSUME NEW k \in 1..b, alarms[k].hash = f
          PROVE  a + k \in DOMAIN stored /\ stored[a + k].hash = f
      BY <1>1, <1>3, <3>2
    <3>3. ASSUME NEW i \in DOMAIN stored, stored[i].hash = f
          PROVE  \/ \E k \in 1..a : positions[k].hash = f
                 \/ \E k \in 1..b : alarms[k].hash = f
      <4>1. i \in 1..(a + b)
        BY <1>1
      <4>2. CASE i \in 1..a
        BY <1>1, <3>3, <4>2
      <4>3. ASSUME NEW k \in 1..b, i = a + k
            PROVE  alarms[k].hash = f
        BY <1>1, <3>3, <4>3
      <4> QED
        BY <1>2, <4>1, <4>2, <4>3
    <3> QED
      BY <3>1, <3>2, <3>3
  <2> HIDE DEF f, early
  <2>5. CASE Kinds[f.kind] = "position"
    <3>1. f \in Due <=> \E i \in 1..a : positions[i].hash = f
      BY <1>1, <2>2, <2>5 DEF StoredInv, Holds
    <3>2. ~ \E i \in 1..b : alarms[i].hash = f
      BY <1>5, <2>5
    <3> QED
      BY <2>3, <2>4, <3>1, <3>2 DEF f
  <2>6. CASE Kinds[f.kind] = "event"
    <3>1. f \in Due <=> \E i \in 1..b : alarms[i].hash = f
      BY <1>1, <2>2, <2>6 DEF StoredInv, Holds
    <3>2. ~ \E i \in 1..a : positions[i].hash = f
      BY <1>5, <2>6
    <3> QED
      BY <2>3, <2>4, <3>1, <3>2 DEF f
  <2> QED
    BY <1>8, <2>2, <2>5, <2>6
<1> QED
  BY <1>6, <1>7, <1>8 DEF EachReportOnce, stored

LEMMA MaxIs ==
  ASSUME NEW S, NEW x \in S, S \subseteq Int, \A y \in S : y <= x
  PROVE  Max(S) = x
<1>1. x \in S /\ \A y \in S : x >= y
  OBVIOUS
<1>2. ASSUME NEW z \in S, \A y \in S : z >= y
      PROVE  z = x
  BY <1>2
<1> QED
  BY <1>1, <1>2 DEF Max

LEMMA PlacesSay ==
  ASSUME PipelineAssumption, TypeInv, OrderInv, PlaceInv
  PROVE  PlacesAgree
<1> DEFINE Overtook(i, j) == i < j /\ positions[j].at < positions[i].at
           placed == {i \in DOMAIN positions : positions[i].place # <<>>}
           l == Len(positions)
<1>1. positions \in Seq(Messages)
  BY DEF TypeInv, WayInv
<1>2. l \in Nat /\ DOMAIN positions = 1..l /\ (positions # <<>> => l > 0)
  BY <1>1
<1>3. \A i \in DOMAIN positions : positions[i] \in Messages
  BY <1>1
<1>4. \A i \in DOMAIN positions : positions[i].at \in Nat
  <2>1. \A i \in DOMAIN positions : positions[i].at \in 0..MaxClock
    BY <1>3, MessageIs
  <2> QED
    BY <2>1, Numbers
<1>5. ASSUME NEW i \in DOMAIN positions, NEW j \in DOMAIN positions, Overtook(i, j)
      PROVE  positions[i].conn # positions[j].conn
  BY <1>4, <1>5 DEF OrderInv
<1>6. placed = Placed /\ placed \subseteq Int
  BY <1>2 DEF Placed
<1> HIDE DEF l
<1>7. tracker.place = IF placed = {} THEN <<>> ELSE positions[Max(placed)].place
  <2>1. CASE placed = {}
    BY <1>6, <2>1 DEF PlaceInv
  <2>2. CASE placed # {}
    <3>1. PICK x \in placed : (\A y \in placed : y <= x) /\ tracker.place = positions[x].place
      BY <1>6, <2>2 DEF PlaceInv
    <3>2. Max(placed) = x
      BY <1>6, <3>1, MaxIs
    <3> QED
      BY <2>2, <3>1, <3>2
  <2> QED
    BY <2>1, <2>2
<1>8. ASSUME ~ \E i, j \in DOMAIN positions : Overtook(i, j), positions # <<>>,
             Last(positions).place # <<>>
      PROVE  tracker.place \in {p.place : p \in Latest}
  <2>1. l \in DOMAIN positions /\ Last(positions) = positions[l]
    BY <1>2, <1>8 DEF Last, l
  <2>2. l \in placed /\ \A y \in placed : y <= l
    BY <1>2, <1>8, <2>1
  <2>3. tracker.place = positions[l].place
    <3>1. Max(placed) = l
      BY <1>6, <2>2, MaxIs
    <3> QED
      BY <1>7, <2>2, <3>1
  <2>4. \A j \in DOMAIN positions : positions[j].at <= positions[l].at
    <3> SUFFICES ASSUME NEW j \in DOMAIN positions
                 PROVE  positions[j].at <= positions[l].at
      OBVIOUS
    <3>1. CASE j = l
      BY <1>4, <2>1, <3>1
    <3>2. CASE j # l
      <4>1. j < l
        BY <1>2, <3>2
      <4> QED
        BY <1>4, <1>8, <2>1, <4>1
    <3> QED
      BY <3>1, <3>2
  <2>5. positions[l] \in Latest
    BY <2>1, <2>4 DEF Latest
  <2> QED
    BY <2>3, <2>5
<1> QED
  BY <1>5, <1>7, <1>8 DEF PlacesAgree
-----------------------------------------------------------------------------
\* Before anything is sent the invariants hold.
LEMMA NothingYet ==
  ASSUME PipelineAssumption, Init
  PROVE  KeyInv /\ StoredInv /\ StampInv /\ StreamInv /\ OrderInv /\ PlaceInv
<1>1. /\ stream = <<>> /\ consumed = 0 /\ processed = {} /\ positions = <<>> /\ alarms = <<>>
      /\ tracker.place = <<>>
      /\ \A c \in Conns : stamped[c] = <<>>
  BY DEF Init, NoTracker
<1>2. 1..0 = {} /\ DOMAIN stream = {} /\ DOMAIN positions = {} /\ DOMAIN alarms = {}
  BY <1>1
<1>3. KeyInv
  BY <1>1, <1>2 DEF KeyInv
<1>4. Due = {}
  BY <1>1, <1>2 DEF Due
<1>5. StoredInv
  BY <1>2, <1>4 DEF StoredInv, Holds
<1>6. StampInv /\ StreamInv
  BY <1>1, <1>2 DEF StampInv, StreamInv
<1>7. OrderInv /\ PlaceInv
  BY <1>1, <1>2 DEF OrderInv, PlaceInv, Placed
<1> QED
  BY <1>3, <1>5, <1>6, <1>7

(* The clock, the connections, the cursor of the worker, which never passes  *)
(* the end of the stream, and the row of the device keep their types; for    *)
(* the row, a report has to be read as it was written (WayInv).              *)
THEOREM TypeCorrect ==
  ASSUME PipelineAssumption, Numerals
  PROVE  Spec => []TypeOK
<1>1. Init => TypeInv
  BY TypeStarts
<1>2. TypeInv /\ [Next]_vars => TypeInv'
  BY TypeKeeps
<1>3. TypeInv => TypeOK
  BY DEF TypeInv
<1> QED
  BY <1>1, <1>2, <1>3, PTL DEF Spec

(* A position or an alarm is stored once, as the frame said it, however      *)
(* often the device sends it and over whatever connections; all but those    *)
(* that were processed before the device was registered are.                 *)
THEOREM ReportsAreStoredOnce ==
  ASSUME PipelineAssumption, Numerals
  PROVE  Spec => []EachReportOnce
<1> DEFINE IInv == TypeInv /\ KeyInv /\ StoredInv
<1>1. Init => IInv
  BY TypeStarts, NothingYet
<1>2. IInv /\ [Next]_vars => IInv'
  BY TypeKeeps, KeysKeep, StoredKeeps
<1>3. IInv => EachReportOnce
  BY OnceSays
<1> HIDE DEF IInv
<1> QED
  BY <1>1, <1>2, <1>3, PTL DEF Spec

(* The row of the device and its latest position name one place, unless a    *)
(* report overtook one of another connection between the stamp and the       *)
(* stream; no report overtakes one of its own connection.                    *)
THEOREM PlacesStayAgreed ==
  ASSUME PipelineAssumption, Numerals
  PROVE  Spec => []PlacesAgree
<1> DEFINE IInv == TypeInv /\ StampInv /\ StreamInv /\ OrderInv /\ PlaceInv
<1>1. Init => IInv
  BY TypeStarts, NothingYet
<1>2. IInv /\ [Next]_vars => IInv'
  BY TypeKeeps, StampsKeep, PlacesKeep
<1>3. IInv => PlacesAgree
  BY PlacesSay
<1> HIDE DEF IInv
<1> QED
  BY <1>1, <1>2, <1>3, PTL DEF Spec

(* Both at once: what the platform stores and shows of a device is what the  *)
(* device reported.                                                          *)
THEOREM ReportsDoArrive ==
  ASSUME PipelineAssumption, Numerals
  PROVE  Spec => []ReportsArrive
<1>1. EachReportOnce /\ PlacesAgree => ReportsArrive
  BY DEF ReportsArrive
<1> QED
  BY <1>1, ReportsAreStoredOnce, PlacesStayAgreed, PTL
===============================================================================
