------------------------------- MODULE MCParts -------------------------------
(***************************************************************************)
(* The parts of the platform that no run of their own is needed for: they  *)
(* share no state with the others or with one another. Their composition   *)
(* is any interleaving of them, and none can tell how far another has got; *)
(* so a behaviour picks one part and takes that part's steps, and the      *)
(* variables of the parts it did not pick are 0.                           *)
(***************************************************************************)
EXTENDS Integers, Sequences, TLC

CONSTANTS
  Actors, \* tabs of one browser, or requests to the catalogue in progress
  Keys    \* documents, plates or chassis, e-mails

VARIABLES
  part,
  stream, read, protocol, buffer, frames,
  active, tokens, cookie, access, request, attempts, ttl, checked, overlaps, loggedOut,
  stuck,
  rows, inProgress,
  status, deleted, fleet, installations, calls,
  version, schema, vehicles, trackers, assignments, customers,
  pc, got, reason, events, cancelled, file, stored, closed,
  name, sent, damaged, wire, accepted, expected, replayed, kept, generated, counts, result,
  signature, captures, running, report, clusters, chosen, promotions, files,
  profiles, history, versions, inside, saving, saved,
  clock, sessions, stamped, entries, consumed, registered, processed, tracker, positions,
  alarms,
  now, listed, lastSeen, persisted, query, touched

-----------------------------------------------------------------------------
\* Frames whose payload holds a marker or the stop bytes, frames with a wrong
\* length or a wrong end, half a marker, noise, and an incomplete header.
Segments ==
  {<<120, 120, 1, 5, 13, 10>>, <<120, 120, 2, 120, 120, 13, 10>>,
   <<120, 120, 2, 13, 10, 13, 10>>, <<120, 120, 3, 5, 13, 10>>,
   <<120, 120, 1, 5, 13, 0>>, <<120>>, <<0, 13, 10>>,
   <<121, 121, 0, 1, 120, 13, 10>>, <<121, 121, 0, 2, 121, 121, 13, 10>>,
   <<121, 121, 1>>}

Framing == INSTANCE GT06Framing WITH
  Streams <- UNION {[1..n -> Segments] : n \in 1..3}, MaxRead <- 4

Identity == INSTANCE AuthTokens WITH
  Tabs <- Actors, LoginLimit <- 1, Window <- 2, MaxCount <- 3, MaxTokens <- 3, Faults <- {"reply", "redis"}

Records == INSTANCE Catalog WITH Requests <- Actors, MaxRows <- 3, request <- inProgress

\* Two requests in progress, one of which may create installations.
Stock == INSTANCE Installations WITH
  Trackers <- {"t1"}, Vehicles <- {"v1"}, Requests <- {1, 2}, Creators <- {1},
  CreateStatuses <- {"NEW"}, ManualStatuses <- {"IN_STOCK"},
  InstallationTypes <- {"BAIT"}, MaxInstallations <- 2,
  vehicles <- fleet, request <- calls

Schema == INSTANCE Migrations WITH
  Vehicles <- {"v1"}, Trackers <- {"t1", "t2"}, Imeis <- {1, 2}, Assignments <- {1},
  CreateStatuses <- {"IN_STOCK"}, ManualStatuses <- {"IN_STOCK"}, None <- "none"

\* The same tables with two installations of one tracker.
Shared == INSTANCE Migrations WITH
  Vehicles <- {"v1"}, Trackers <- {"t1"}, Imeis <- {1}, Assignments <- {1, 2},
  CreateStatuses <- {"NEW"}, ManualStatuses <- {"IN_STOCK", "MAINTENANCE"}, None <- "none"

Capture == INSTANCE SessionCapture WITH Conns <- {1, 2}, MaxReads <- 2

-----------------------------------------------------------------------------
\* Devices report an IMEI with and without a leading zero, the ends of the
\* map and a place off it, and status bytes that look like markers and stops.
Login(imei) == [kind |-> "login", imei |-> imei]
Beat(bytes) == [kind |-> "beat", status |-> bytes]
Gps(lat, lon, speed, course) ==
  [kind |-> "gps", fix |-> [lat |-> lat, lon |-> lon, speed |-> speed, course |-> course]]
Imei86 == Login(<<8, 6, 7, 6, 8, 6, 0, 3, 1, 2, 3, 4, 5, 6, 7>>)
Imei01 == Login(<<0, 1, 7, 6, 8, 6, 0, 3, 1, 2, 3, 4, 5, 6, 7>>)
Reports ==
  {Imei86, Imei01, Gps(0, 0, 0, 0), Gps(-1, -1, 300, 359), Gps(162000000, -324000000, 5, 180),
   Gps(162000001, 0, 0, 1), Beat(<<13, 10, 4>>), Beat(<<>>), Beat(<<120, 120, 1>>),
   Beat(<<121, 121, 0>>)}
Sendings ==
  {<<>>} \cup {<<r>> : r \in Reports}
    \cup {<<Imei86, Beat(<<120, 120, 1>>)>>, <<Beat(<<13, 10, 4>>), Beat(<<>>), Imei01>>,
          <<Beat(<<>>), Beat(<<121, 121, 0>>)>>}

Replays == INSTANCE Replay WITH
  Protocols <- {"gt06", "gt06_v2", "unknown", "tk103"}, ReadSizes <- {1, 31},
  read <- replayed, buffer <- kept

\* Captures: two of one device, one of another protocol, one with bad
\* checksums, one that was detected, one empty.
Codec == INSTANCE GT06Codec
Packet(number, payload, serial) ==
  [number |-> number, payload |-> payload, serial |-> serial]
Frame(marker, number, payload, serial) ==
  Codec!Encode(marker, Packet(number, payload, serial))
Broken(frame) == [frame EXCEPT ![Len(frame) - 2] = (@ + 1) % 256]
Bcd == <<1, 2, 3, 4, 5, 6, 7, 8>>
Session(detected, why, rx, elapsed) ==
  [detected |-> detected, reason |-> why, rx |-> rx, elapsed |-> elapsed]
Captured == <<
  Session("unknown", "timeout",
    <<Frame(Codec!Classic, 1, Bcd, 1), Frame(Codec!Classic, 19, <<1>>, 2)>>, <<0, 400>>),
  Session("unknown", "timeout",
    <<Frame(Codec!Classic, 1, Bcd, 7), Frame(Codec!Classic, 18, <<2>>, 2)>>, <<0, 300>>),
  Session("unknown", "client_closed",
    <<Frame(Codec!Long, 1, Tail(Bcd), 1), Frame(Codec!Long, 19, <<>>, 2)>>, <<0, 400>>),
  Session("unknown", "exception",
    <<Broken(Frame(Codec!Classic, 1, Bcd, 1)), Broken(Frame(Codec!Classic, 19, <<1>>, 2))>>,
    <<0, 400>>),
  Session("gt06", "parser_error",
    <<Frame(Codec!Classic, 1, Bcd, 1), Frame(Codec!Classic, 19, <<1>>, 2)>>, <<0, 400>>),
  Session("unknown", "socket_error", <<>>, <<>>)>>

Fits(raw, dataEnd) == Codec!ChecksumFits(raw, dataEnd)

Analysis == INSTANCE Intelligence WITH
  ChecksumFits <- Fits,
  Sessions <- Captured, MaxStored <- 3, MaxPromotions <- 1, Seconds <- {1},
  stored <- captures

Profile(id, tacs, protocols) == [id |-> id, tacs |-> tacs, protocols |-> protocols]

Advice == INSTANCE Knowledge WITH
  TacOf <- [d1 |-> "concox"], TacRecords <- [concox |-> 2, j16 |-> 1],
  Seed <- <<Profile("gt06n", {"concox"}, <<"gt06", "gt06_v2">>)>>,
  NewProfiles <- {Profile("gt06n", {"concox"}, <<"gt06_v2">>),
                  Profile("new", {"concox", "other"}, <<"gt06_classic">>)},
  Observable <- {"gt06_v2", "unknown"}, MaxVersions <- 3

\* Two frames that differ in the place only, one without a place, with the
\* serial numbers 0 and 1; a firmware; a kind of frame nothing is mapped to.
Sent(kind, serial, place, gpsTime, firmware) ==
  [kind |-> kind, serial |-> serial, place |-> place, gpsTime |-> gpsTime,
   firmware |-> firmware]

Reporting == INSTANCE Pipeline WITH
  Conns <- {1, 2}, MaxClock <- 2, MaxEntries <- 3,
  Frames <- {Sent("login", <<1>>, <<>>, <<>>, <<1>>), Sent("gps", <<0>>, <<1, 2>>, <<1>>, <<>>),
             Sent("gps", <<0>>, <<2, 2>>, <<1>>, <<>>), Sent("gps", <<1>>, <<>>, <<0>>, <<>>),
             Sent("alarm", <<0>>, <<>>, <<>>, <<>>), Sent("beat", <<1>>, <<>>, <<>>, <<>>),
             Sent("other", <<1>>, <<>>, <<>>, <<>>)},
  active <- sessions, stream <- entries

Health == INSTANCE DeviceHealth WITH
  Devices <- {1}, OnlineWindow <- 1, UnstableWindow <- 2, MaxClock <- 6,
  Filters <- {"ONLINE", "UNSTABLE", "OFFLINE", "UNKNOWN", "HEALTHY", "any"},
  clock <- now, trackers <- listed, request <- query

ASSUME PartsAssumption ==
  /\ Framing!ByteStreams /\ Identity!PositiveLimits /\ Records!BoundedRows
  /\ Schema!NullAssumption /\ Shared!NullAssumption
  /\ Capture!CaptureAssumption /\ Replays!ReplayAssumption
  /\ Analysis!IntelligenceAssumption /\ Advice!KnowledgeAssumption
  /\ Reporting!PipelineAssumption /\ Reporting!Numerals /\ Health!HealthAssumption

-----------------------------------------------------------------------------
framingVars   == <<stream, read, protocol, buffer, frames>>
identityVars  == <<active, tokens, cookie, access, request, attempts, ttl, checked,
                   overlaps, loggedOut, stuck>>
recordVars    == <<rows, inProgress>>
stockVars     == <<status, deleted, fleet, installations, calls>>
schemaVars    == <<version, schema, vehicles, trackers, assignments, customers>>
captureVars   == <<pc, got, reason, events, cancelled, file, stored, closed>>
replayVars    == <<name, sent, damaged, wire, accepted, expected, replayed, kept, generated,
                   counts, result>>
analysisVars  == <<signature, captures, running, report, clusters, chosen, promotions, files>>
adviceVars    == <<profiles, history, versions, inside, saving, saved>>
reportingVars == <<clock, sessions, stamped, entries, consumed, registered, processed,
                   tracker, positions, alarms>>
healthVars    == <<now, listed, lastSeen, persisted, query, touched>>
vars == <<part, framingVars, identityVars, recordVars, stockVars, schemaVars, captureVars,
          replayVars, analysisVars, adviceVars, reportingVars, healthVars>>

Parts == {"framing", "identity", "records", "stock", "schema", "shared", "capture",
          "replay", "analysis", "advice", "reporting", "health"}

Init ==
  /\ part \in Parts
  /\ IF part = "framing" THEN Framing!Init
     ELSE stream = 0 /\ read = 0 /\ protocol = 0 /\ buffer = 0 /\ frames = 0
  /\ IF part = "identity" THEN Identity!Init
     ELSE /\ active = 0 /\ tokens = 0 /\ cookie = 0 /\ access = 0 /\ request = 0
          /\ attempts = 0 /\ ttl = 0 /\ checked = 0 /\ overlaps = 0 /\ loggedOut = 0
          /\ stuck = 0
  /\ IF part = "records" THEN Records!Init ELSE rows = 0 /\ inProgress = 0
  /\ IF part = "stock" THEN Stock!Init
     ELSE /\ status = 0 /\ deleted = 0 /\ fleet = 0 /\ installations = 0 /\ calls = 0
  /\ IF part \in {"schema", "shared"} THEN Schema!Init
     ELSE /\ version = 0 /\ schema = 0 /\ vehicles = 0 /\ trackers = 0
          /\ assignments = 0 /\ customers = 0
  /\ IF part = "capture" THEN Capture!Init
     ELSE /\ pc = 0 /\ got = 0 /\ reason = 0 /\ events = 0 /\ cancelled = 0
          /\ file = 0 /\ stored = 0 /\ closed = 0
  /\ IF part = "replay" THEN Replays!Init
     ELSE /\ name = 0 /\ sent = 0 /\ damaged = 0 /\ wire = 0 /\ accepted = 0 /\ expected = 0
          /\ replayed = 0 /\ kept = 0 /\ generated = 0 /\ counts = 0 /\ result = 0
  /\ IF part = "analysis" THEN Analysis!Init
     ELSE /\ signature = 0 /\ captures = 0 /\ running = 0 /\ report = 0 /\ clusters = 0
          /\ chosen = 0 /\ promotions = 0 /\ files = 0
  /\ IF part = "advice" THEN Advice!Init
     ELSE /\ profiles = 0 /\ history = 0 /\ versions = 0 /\ inside = 0 /\ saving = 0
          /\ saved = 0
  /\ IF part = "reporting" THEN Reporting!Init
     ELSE /\ clock = 0 /\ sessions = 0 /\ stamped = 0 /\ entries = 0 /\ consumed = 0
          /\ registered = 0 /\ processed = 0 /\ tracker = 0 /\ positions = 0 /\ alarms = 0
  /\ IF part = "health" THEN Health!Init
     ELSE /\ now = 0 /\ listed = 0 /\ lastSeen = 0 /\ persisted = 0 /\ query = 0
          /\ touched = 0

\* Nothing but the part p changes.
Only(p) ==
  /\ part = p /\ UNCHANGED part
  /\ IF p = "framing" THEN TRUE ELSE UNCHANGED framingVars
  /\ IF p = "identity" THEN TRUE ELSE UNCHANGED identityVars
  /\ IF p = "records" THEN TRUE ELSE UNCHANGED recordVars
  /\ IF p = "stock" THEN TRUE ELSE UNCHANGED stockVars
  /\ IF p \in {"schema", "shared"} THEN TRUE ELSE UNCHANGED schemaVars
  /\ IF p = "capture" THEN TRUE ELSE UNCHANGED captureVars
  /\ IF p = "replay" THEN TRUE ELSE UNCHANGED replayVars
  /\ IF p = "analysis" THEN TRUE ELSE UNCHANGED analysisVars
  /\ IF p = "advice" THEN TRUE ELSE UNCHANGED adviceVars
  /\ IF p = "reporting" THEN TRUE ELSE UNCHANGED reportingVars
  /\ IF p = "health" THEN TRUE ELSE UNCHANGED healthVars

Next ==
  \/ Only("framing") /\ Framing!Next
  \/ Only("identity") /\ Identity!Next
  \/ Only("records") /\ Records!Next
  \/ Only("stock") /\ Stock!Next
  \/ Only("schema") /\ Schema!Next
  \/ Only("shared") /\ Shared!Next
  \/ Only("capture") /\ Capture!Next
  \/ Only("replay") /\ Replays!Next
  \/ Only("analysis") /\ Analysis!Next
  \/ Only("advice") /\ Advice!Next
  \/ Only("reporting") /\ Reporting!Next
  \/ Only("health") /\ Health!Next

Spec == Init /\ [][Next]_vars

Symmetry == Permutations(Actors) \cup Permutations(Keys)
-----------------------------------------------------------------------------
(* The type invariants of the parts.                                         *)
TypeOK ==
  /\ part = "identity"  => Identity!TypeOK
  /\ part = "records"   => Records!TypeOK
  /\ part = "stock"     => Stock!TypeOK
  /\ part = "framing"   => Framing!TypeOK
  /\ part = "capture"   => Capture!TypeOK
  /\ part = "replay"    => Replays!TypeOK
  /\ part = "analysis"  => Analysis!TypeOK
  /\ part = "advice"    => Advice!TypeOK
  /\ part = "reporting" => Reporting!TypeOK
  /\ part = "health"    => Health!TypeOK

(* See GT06Framing: every well-formed frame comes out once and in order, and *)
(* extract_frames does not depend on the cuts of TCP.                        *)
FramesArrive == part = "framing" => Framing!CutsDoNotMatter /\ Framing!FramesArrive

(* See AuthTokens: a window checks as many passwords as its limit, a login   *)
(* has one live refresh token, overlaps apart, and a logout that nothing     *)
(* overlapped is final.                                                      *)
SessionsAreBounded == part = "identity" => Identity!SessionsAreBounded

(* See AuthTokens: a lockout runs out, unless Redis fails in its first INCR. *)
LockoutRunsOut == [][part = "identity" => Identity!LockoutRunsDown]_vars

(* See Catalog: keys of live rows are unique, concurrent takers apart.       *)
DuplicatesBounded == part = "records" => Records!DuplicatesBounded

(* See Installations: two requests in progress give a tracker two active     *)
(* installations in one way only; a closed installation stays closed.        *)
OneActivePerTracker == part = "stock" => Stock!OneActivePerTracker
ClosedStaysClosed == [][part = "stock" => Stock!HistoryKept]_vars

(* See Migrations: what a downgrade undoes, what the models of backend and   *)
(* worker expect at the head, and what becomes of the rows.                  *)
MigrationsFit == part \in {"schema", "shared"} => Schema!MigrationsFit

(* See SessionCapture: a capture that loads is the whole story of its        *)
(* connection, and says what the log says; what was stored is found again.   *)
CaptureIsFaithful == part = "capture" => Capture!CaptureIsFaithful
StoredIsFound == part = "capture" => Capture!StoredIsFound

(* See Replay: from the device to the decoder nothing is lost, made up or    *)
(* taken for another report; a GT06 Classic replay judges like the gateway.  *)
ReportsSurvive == part = "replay" => Replays!ReportsSurvive
ClassicReplayIsExact == part = "replay" => Replays!ClassicReplayIsExact

(* runner.py says that the replay uses exactly the gateway's parsers and its *)
(* routine for frames: so every session of theirs is judged as by the gateway.*)
ReplayIsProduction == part = "replay" => Replays!ReplayIsProduction

(* See Intelligence: a report accounts for every session it analysed; a      *)
(* proposal stands for all sessions of its cluster.                          *)
ReportAddsUp == part = "analysis" => Analysis!ReportAddsUp
ProposalSpeaksForAll == part = "analysis" => Analysis!ProposalSpeaksForAll

(* See Knowledge: a snapshot has what its versions say, and the protocol of  *)
(* the majority of observations is recommended.                              *)
KnowledgeIsSound == part = "advice" => Advice!KnowledgeIsSound

(* See Pipeline: a report is stored once and as it was sent, and the places  *)
(* the platform shows of a device agree unless a report was overtaken.       *)
ReportsArrive == part = "reporting" => Reporting!ReportsArrive

(* See DeviceHealth: the dashboard leaves no device out, and the list shows  *)
(* what was asked for, or that the device grew older meanwhile.              *)
HealthIsConsistent == part = "health" => Health!HealthIsConsistent
=============================================================================
