-------------------------------- MODULE Replay --------------------------------
(***************************************************************************)
(* The replay lab (tools/replay): a recorded session is fed to the parsers *)
(* again, one RX event after the other, and what they would acknowledge is *)
(* compared with the TX events recorded. Next to it, what the gateway      *)
(* itself makes of the same bytes: extract_frames and the decoder of the   *)
(* session's own protocol.                                                 *)
(***************************************************************************)
EXTENDS GT06Codec

CONSTANTS
  Sendings,  \* sequences of what a device may report
  Protocols, \* protocol names of sessions
  ReadSizes  \* the bytes of one RX event

VARIABLES
  name,      \* the session's protocol, or the one forced on it
  sent,      \* what the device reported
  damaged,   \* which of its bytes was changed on the way, 0 for none
  wire,      \* the bytes that came
  accepted,  \* the packets the gateway makes of them
  expected,  \* the TX events of the session
  read,      \* how many bytes of RX events have been replayed
  buffer,    \* bytes of theirs kept
  generated, \* the acknowledgements generated
  counts,    \* packets: total, valid, invalid
  result     \* "none" before the end, then MATCH, DIFFERENT or ERROR

session == <<name, sent, damaged, wire, accepted, expected>>
vars == <<session, read, buffer, generated, counts, result>>

ReplayAssumption ==
  /\ \A s \in Sendings : \A i \in DOMAIN s : s[i].kind \in {"login", "gps", "beat"}
  /\ ReadSizes \subseteq Nat \ {0}

-----------------------------------------------------------------------------
(* The packets of what the device reports: encode_login, encode_gps,         *)
(* encode_heartbeat; the serial number is the position.                      *)
NumberOf == [login |-> 1, gps |-> 18, beat |-> 19]

PayloadOf(report) ==
  CASE report.kind = "login" -> ImeiToBcd(report.imei)
    [] report.kind = "gps"   -> EncodeFix(report.fix)
    [] report.kind = "beat"  -> report.status

Packet(i) == [number |-> NumberOf[sent[i].kind], payload |-> PayloadOf(sent[i]),
              serial |-> i]

MarkerFor == IF name \in DOMAIN MarkerOf THEN MarkerOf[name] ELSE Classic
FrameOf(i) == Encode(MarkerFor, Packet(i))

(* The packets of the frames that decode, in their order.                    *)
Decoded(frames) ==
  SelectSeq([i \in DOMAIN frames |-> Decode(MarkerFor, frames[i])], LAMBDA p : p # NoPacket)
AcksOf(packets) == [i \in DOMAIN packets |-> Ack(MarkerFor, packets[i])]

\* The session as recorded, or with a TX event empty, missing or changed.
Recordings(acks) ==
  {acks, Append(acks, <<>>)}
    \cup (IF acks = <<>> THEN {} ELSE {Front(acks), Append(Front(acks), wire)})

Init ==
  /\ name \in Protocols
  /\ sent \in Sendings
  /\ \E bytes \in {FlattenSeq([i \in DOMAIN sent |-> FrameOf(i)])} :
       /\ damaged \in IF name \in DOMAIN MarkerOf THEN 0..Len(bytes) ELSE {0}
       /\ wire = IF damaged = 0 THEN bytes ELSE [bytes EXCEPT ![damaged] = (@ + 1) % 256]
  /\ accepted = Decoded(ExtractFrames(wire, {MarkerFor}).frames)
  /\ expected \in IF damaged = 0 THEN Recordings(AcksOf(accepted)) ELSE {AcksOf(accepted)}
  /\ read = 0 /\ buffer = <<>> /\ generated = <<>>
  /\ counts = [total |-> 0, valid |-> 0, invalid |-> 0]
  /\ result = "none"

-----------------------------------------------------------------------------
(* get_protocol: gt06 and gt06_v2 have parsers, unknown has none, and        *)
(* nothing else is registered.                                               *)
HasParser == name \in DOMAIN MarkerOf
Registered == HasParser \/ name = "unknown"

(* _extract_frames: the legacy extract_packets, of both markers, for gt06;   *)
(* for any other protocol the buffer is one frame.                           *)
Extract(bytes) ==
  IF name = "gt06" THEN ExtractFrames(bytes, {Classic, Long})
  ELSE [frames |-> <<bytes>>, rest |-> <<>>]

Counted(total, valid) ==
  [total |-> counts.total + total, valid |-> counts.valid + valid,
   invalid |-> counts.invalid + (IF HasParser THEN total - valid ELSE 0)]

(* An RX event. The other form forgets what a read leaves over.              *)
LeftNothing(x) == <<>>
LeftOver(x) == x.rest
Rx(n) ==
  /\ Registered /\ result = "none"
  /\ read + n <= Len(wire)
  /\ read' = read + n
  /\ IF HasParser
     THEN \E x \in {Extract(buffer \o SubSeq(wire, read + 1, read + n))} :
          \E packets \in {Decoded(x.frames)} :
            /\ buffer' = LeftOver(x)
            /\ generated' = generated \o AcksOf(packets)
            /\ counts' = Counted(Len(x.frames), Len(packets))
     ELSE counts' = Counted(1, 0) /\ UNCHANGED <<buffer, generated>>
  /\ UNCHANGED <<session, result>>

(* The end of the events: each pair is compared, with nothing for what one   *)
(* side lacks, and then the numbers are.                                     *)
Nth(txs, i) == IF i \in DOMAIN txs THEN txs[i] ELSE <<>>
Verdict ==
  IF (\E i \in DOMAIN expected \cup DOMAIN generated :
        Nth(expected, i) # Nth(generated, i))
     \/ Len(expected) # Len(generated)
  THEN "DIFFERENT" ELSE "MATCH"

Finish ==
  /\ result = "none"
  /\ Registered => read = Len(wire)
  /\ result' = IF Registered THEN Verdict ELSE "ERROR"
  /\ UNCHANGED <<session, read, buffer, generated, counts>>

Next == (\E n \in ReadSizes : Rx(n)) \/ Finish

Spec == Init /\ [][Next]_vars
-----------------------------------------------------------------------------
(* The state is what the variables say it is.                                *)
TypeOK ==
  /\ name \in Protocols /\ sent \in Sendings
  /\ read \in 0..Len(wire)
  /\ IsSuffix(buffer, SubSeq(wire, 1, read))
  /\ counts.total >= counts.valid + counts.invalid
  /\ result \in {"none", "MATCH", "DIFFERENT", "ERROR"}

\* What a report is read as: the IMEI without the zeros it begins with, the
\* speed up to one byte, and no place that is not on the map.
Read(report) ==
  CASE report.kind = "login" ->
         StripZeros(report.imei)
    [] report.kind = "gps" ->
         [place  |-> IF /\ Magnitude(report.fix.lat) <= 90 * Degree
                        /\ Magnitude(report.fix.lon) <= 180 * Degree
                     THEN <<report.fix.lat, report.fix.lon>> ELSE <<>>,
          speed  |-> Min({report.fix.speed, 255}),
          course |-> report.fix.course]
    [] report.kind = "beat" -> report.status

Fields(p) ==
  CASE p.number = 1  -> BcdToImei(p.payload)
    [] p.number = 18 -> DecodeFix(p.payload)
    [] p.number = 19 -> p.payload

\* The report the damaged byte belongs to, and whether it frames the report:
\* marker, length or stop bytes.
EndOf(k) == Len(FlattenSeq([i \in 1..k |-> FrameOf(i)]))
Hit == IF damaged = 0 THEN 0
       ELSE CHOOSE k \in DOMAIN sent : EndOf(k - 1) < damaged /\ damaged <= EndOf(k)
FramingHit ==
  /\ damaged # 0
  /\ \/ damaged - EndOf(Hit - 1) <= 2 + LengthSize(MarkerFor)
     \/ EndOf(Hit) - damaged < 2

(* From the device to the decoder: what the gateway reads is what was sent,  *)
(* in order, but for the report with a damaged byte, which the checksum or   *)
(* the framing always gives away; where the framing itself is damaged, no    *)
(* report is made up or read twice.                                          *)
ReportsSurvive ==
  read = 0 =>
    LET sound == SelectSeq([i \in DOMAIN sent |-> i], LAMBDA i : i # Hit)
        got   == [j \in DOMAIN accepted |-> accepted[j].serial]
    IN /\ IF FramingHit THEN \E keep \in SUBSET (DOMAIN sent \ {Hit}) :
                              got = SelectSeq(sound, LAMBDA i : i \in keep)
          ELSE got = sound
       /\ \A j \in DOMAIN got : Fields(accepted[j]) = Read(sent[got[j]])

\* The replay of a session judges it as the gateway would have answered it.
JudgesLikeGateway ==
  result # "none" => (result = "MATCH" <=> expected = AcksOf(accepted))

(* Replaying a GT06 session finds a match exactly when the recorded TX       *)
(* events are what the gateway answers, however the RX events are cut, if no *)
(* byte pair in it looks like the marker of the other variant. A session     *)
(* without a parser matches when nothing was sent.                           *)
ClassicReplayIsExact ==
  /\ name = "gt06" /\ (\A i \in 1..(Len(wire) - 1) : SubSeq(wire, i, i + 1) # Long)
       => JudgesLikeGateway
  /\ name = "unknown" /\ result # "none" => (result = "MATCH" <=> expected = <<>>)
  /\ result # "none" => (result = "ERROR" <=> ~Registered)

(* runner.py: the runner uses exactly the parsers of the gateway, and the    *)
(* production routine for frames when there is one.                          *)
ReplayIsProduction == HasParser => JudgesLikeGateway
=============================================================================
