----------------------------- MODULE Intelligence -----------------------------
(***************************************************************************)
(* The offline analysis of the sessions Learning Mode captured             *)
(* (gateway/app/intelligence): every session gets a profile, sessions of   *)
(* unknown protocol with the same fingerprint make a cluster, a cluster is *)
(* compared with the protocols already known, and a developer promotes a   *)
(* cluster to a proposal on disk. Analyses run in a thread pool, one at a  *)
(* time; promotions take no lock and read what the last one left.          *)
(* Ratios and averages are compared as fractions (the code rounds them to  *)
(* three places first).                                                    *)
(***************************************************************************)
EXTENDS GT06Frames

CONSTANTS
  Sessions,       \* sessions that may be captured, by id: detected, reason, rx, elapsed
  MaxStored,      \* how many of them are
  MaxPromotions,  \* how often a developer promotes
  Seconds,        \* what the clock may show then
  ChecksumFits(_, _) \* whether the checksum of a frame is right: that of GT06Codec

VARIABLES
  signature, \* the profile of each session, worked out once: it never changes
  stored,    \* ids of the sessions in data/sessions, in the order of their lines
  running,   \* the analysis in the thread pool: its stage, data, clusters
  report,    \* _last_report
  clusters,  \* _last_clusters
  chosen,    \* the cluster promote_cluster has found, and under what slug
  promotions,\* how many there were: a bound
  files      \* data/promotions: the cluster of the proposal of each name

vars == <<signature, stored, running, report, clusters, chosen, promotions, files>>

IntelligenceAssumption ==
  /\ \A s \in DOMAIN Sessions :
       /\ Sessions[s].rx \in Seq(Seq(0..255))
       /\ Len(Sessions[s].rx) = Len(Sessions[s].elapsed)
  /\ {MaxStored, MaxPromotions} \subseteq Nat

-----------------------------------------------------------------------------
(* SignatureAnalyzer. The frames of a payload for one marker: from each      *)
(* occurrence, if the frame is all there and ends in the stop bytes.         *)
FramesOf(payload, marker) ==
  LET From[o \in 1..(Len(payload) + 1)] ==
        LET starts == {i \in o..(Len(payload) - 1) : SubSeq(payload, i, i + 1) = marker}
            s      == Min(starts)
            frame  == SubSeq(payload, s, s + TotalSize(payload, s, marker) - 1)
        IN IF starts = {} \/ s + 1 + LengthSize(marker) > Len(payload) THEN <<>>
           ELSE IF s + TotalSize(payload, s, marker) - 1 <= Len(payload) /\ IsSuffix(Stop, frame)
             THEN <<frame>> \o From[s + Len(frame)]
           ELSE From[s + 2]
  IN From[1]

CandidateFrames(payload) ==
  LET found == FramesOf(payload, Classic) \o FramesOf(payload, Long)
  IN IF found = <<>> /\ payload # <<>> THEN <<payload>> ELSE found

(* _inspect_frame: the protocol number and whether the checksum fits, of a   *)
(* frame long enough for both.                                               *)
Inspected(frame) ==
  LET marker  == SubSeq(frame, 1, 2)
      start   == 2 + LengthSize(marker)
      dataEnd == start + LengthField(frame, 1, marker) - 2
  IN IF Len(frame) >= 10 /\ marker \in {Classic, Long} /\ dataEnd + 4 <= Len(frame)
     THEN <<[number |-> frame[start + 1], fits |-> ChecksumFits(frame, dataEnd)]>>
     ELSE <<>>

Total(numbers) == FoldLeft(LAMBDA a, b : a + b, 0, numbers)
Count(seq, Test(_)) == Len(SelectSeq(seq, Test))

Header(s) == IF s.rx = <<>> \/ Len(s.rx[1]) < 2 THEN <<>> ELSE SubSeq(s.rx[1], 1, 2)
EndsInStop(s) == \E i \in DOMAIN s.rx : IsSuffix(Stop, s.rx[i])

Profile(s) ==
  LET frames == FlattenSeq([i \in DOMAIN s.rx |-> CandidateFrames(s.rx[i])])
      seen   == FlattenSeq([i \in DOMAIN frames |-> Inspected(frames[i])])
      sizes  == [i \in DOMAIN s.rx |-> Len(s.rx[i])]
      gaps   == [i \in 1..(Len(s.elapsed) - 1) |-> s.elapsed[i + 1] - s.elapsed[i]]
      forth  == SelectSeq(gaps, LAMBDA g : g >= 0)
  IN [detected |-> s.detected, reason |-> s.reason,
      header  |-> Header(s),
      first   |-> IF s.rx = <<>> THEN <<>> ELSE SubSeq(s.rx[1], 1, Min({2, Len(s.rx[1])})),
      stops   |-> EndsInStop(s),
      packets |-> Len(sizes), bytes |-> Total(sizes),
      sizes   |-> SubSeq(sizes, 1, Min({4, Len(sizes)})),
      gaps    |-> Len(forth), gapTime |-> Total(forth),
      logins  |-> Count(seen, LAMBDA f : f.number = 1),
      beats   |-> Count(seen, LAMBDA f : f.number = 19),
      fixes   |-> Count(seen, LAMBDA f : f.number \in {18, 34}),
      fit     |-> Count(seen, LAMBDA f : f.fits), frames |-> Len(seen)]

(* SessionClusterer._key. crc_ok_ratio is 0 where no frame was inspected.    *)
Band(p) ==
  CASE p.frames > 0 /\ 10 * p.fit >= 7 * p.frames -> "hi"
    [] p.frames > 0 /\ 10 * p.fit >= 3 * p.frames /\ 10 * p.fit < 7 * p.frames -> "mid"
    [] OTHER -> "lo"

KeyNoHeader(p) == <<Band(p), p.sizes>>
Key(p) ==
  <<p.first,
    IF p.packets = 0 THEN 0 ELSE p.bytes \div (16 * p.packets),
    IF p.gaps = 0 THEN -1 ELSE p.gapTime \div (500 * p.gaps),
    Band(p), p.sizes>>

-----------------------------------------------------------------------------
(* SimilarityEngine: the score of a session against one of KNOWN_PROFILES,   *)
(* and the first of the best. (first_bytes is worth 30 only where the header *)
(* is not that of the profile, which cannot be: they are the same bytes.)    *)
Known == <<[name |-> "GT06 Classic", header |-> Classic, least |-> 10, most |-> 64],
           [name |-> "GT06 V2", header |-> Long, least |-> 12, most |-> 256]>>

Score(p, profile) ==
  (IF p.header = profile.header THEN 40 ELSE 0)
    + (IF p.stops THEN 10 ELSE 0)
    + (CASE Band(p) = "hi" -> 20 [] Band(p) = "mid" -> 8 [] OTHER -> 0)
    + (IF p.logins > 0 THEN 7 ELSE 0) + (IF p.beats > 0 THEN 7 ELSE 0)
    + (IF p.fixes > 0 THEN 6 ELSE 0)
    + (CASE p.packets > 0 /\ profile.least * p.packets <= p.bytes
            /\ p.bytes <= profile.most * p.packets -> 10
         [] p.bytes = 0 -> 0
         [] OTHER -> 3)

NoCandidate == [candidate |-> "none", confidence |-> 0]

Suggestion(p) ==
  LET best == IF Score(p, Known[2]) > Score(p, Known[1]) THEN Known[2] ELSE Known[1]
  IN IF Score(p, best) < 40 THEN NoCandidate
     ELSE [candidate |-> best.name, confidence |-> Score(p, best)]

(* suggest_for_cluster: that of its first session, and up to five for size.  *)
ClusterSuggestion(members) ==
  LET first == Suggestion(signature[members[1]])
  IN IF first = NoCandidate THEN first
     ELSE [first EXCEPT !.confidence = Min({99, @ + Min({5, Len(members) \div 10})})]

(* SessionClusterer.cluster: the larger a cluster the lower its number; among*)
(* clusters of one size the code goes by the text of their keys, any order   *)
(* here.                                                                     *)
Strange(s) == signature[s].detected = "unknown"

Unknown(data) == SelectSeq(data, Strange)

Members(data, key) ==
  FlattenSeq([i \in DOMAIN data |->
    IF Strange(data[i]) /\ Key(signature[data[i]]) = key THEN <<data[i]>> ELSE <<>>])

Cluster(members) ==
  [members |-> members, candidate |-> ClusterSuggestion(members).candidate,
   confidence |-> ClusterSuggestion(members).confidence]

Clusterings(data) ==
  LET keys == {Key(signature[s]) : s \in {t \in ToSet(data) : Strange(t)}}
      orders == {o \in SetToSeqs(keys) :
                   \A i, j \in DOMAIN o :
                     i < j => Len(Members(data, o[i])) >= Len(Members(data, o[j]))}
  IN {[i \in DOMAIN o |-> Cluster(Members(data, o[i]))] : o \in orders}

(* StatisticsEngine.build and ReportBuilder.build. A profile is looked up by *)
(* the session's id; profiles are made of all sessions, or of unknown ones.  *)
ProfiledUnknown(data) == ToSet(Unknown(data))
Profiled(data) == ToSet(data)

Stats(data, protocol) ==
  LET mine == SelectSeq(data, LAMBDA s : signature[s].detected = protocol)
  IN [sessions |-> Len(mine),
      failures |-> Count(mine, LAMBDA s : signature[s].reason \in {"exception", "socket_error"}),
      errors   |-> Count(mine, LAMBDA s : signature[s].reason = "parser_error"),
      timeouts |-> Count(mine, LAMBDA s : signature[s].reason = "timeout"),
      bytes    |-> Total([i \in DOMAIN mine |->
                            IF mine[i] \in Profiled(data) THEN signature[mine[i]].bytes ELSE 0])]

Report(data, found) ==
  [sessions   |-> Len(data),
   byProtocol |-> [p \in {signature[data[i]].detected : i \in DOMAIN data} |-> Stats(data, p)],
   clusters   |-> found,
   largest    |-> IF found = <<>> THEN 0
                  ELSE Min({i \in DOMAIN found : \A j \in DOMAIN found :
                         Len(found[i].members) >= Len(found[j].members)}),
   candidates |-> {found[i].candidate : i \in {j \in DOMAIN found : found[j].confidence >= 60}}]

-----------------------------------------------------------------------------
NotRunning == [stage |-> "none", data |-> <<>>, clusters |-> <<>>]
NoReport == [sessions |-> 0, byProtocol |-> <<>>, clusters |-> <<>>, largest |-> 0,
             candidates |-> {}]
NothingChosen == [slug |-> "none", cluster |-> <<>>]

Init ==
  /\ signature = [s \in DOMAIN Sessions |-> Profile(Sessions[s])]
  /\ stored = <<>> /\ running = NotRunning /\ report = NoReport /\ clusters = <<>>
  /\ chosen = NothingChosen /\ promotions = 0 /\ files = <<>>

(* Learning Mode appends a session; ids are never used twice.                *)
Capture(s) ==
  /\ s \notin ToSet(stored) /\ Len(stored) < MaxStored
  /\ stored' = Append(stored, s)
  /\ UNCHANGED <<signature, running, report, clusters, chosen, promotions, files>>

(* analyze_async: under the lock, load_sessions, the analysis, and then the  *)
(* report and the clusters, one assignment after the other.                  *)
Analyse ==
  /\ running.stage = "none"
  /\ \E found \in Clusterings(stored) :
       running' = [stage |-> "report", data |-> stored, clusters |-> found]
  /\ UNCHANGED <<signature, stored, report, clusters, chosen, promotions, files>>

PublishReport ==
  /\ running.stage = "report"
  /\ report' = Report(running.data, running.clusters)
  /\ running' = [running EXCEPT !.stage = "clusters"]
  /\ UNCHANGED <<signature, stored, clusters, chosen, promotions, files>>

PublishClusters ==
  /\ running.stage = "clusters"
  /\ clusters' = running.clusters
  /\ running' = NotRunning
  /\ UNCHANGED <<signature, stored, report, chosen, promotions, files>>

(* promote_cluster: the cluster with that number now, whichever it was in    *)
(* the report the number was read in; no such number is a ValueError. The    *)
(* slug is the developer's, or the candidate, or the number.                 *)
Promote(rank) ==
  /\ chosen = NothingChosen /\ promotions < MaxPromotions
  /\ rank \in DOMAIN clusters
  /\ \E slug \in {"own", IF clusters[rank].candidate # "none" THEN clusters[rank].candidate
                         ELSE ToString(rank)} :
       chosen' = [slug |-> slug, cluster |-> clusters[rank]]
  /\ promotions' = promotions + 1
  /\ UNCHANGED <<signature, stored, running, report, clusters, files>>

(* The name of the proposal shows the second and the slug.                   *)
WriteProposal(second) ==
  /\ chosen # NothingChosen
  /\ LET new == <<second, chosen.slug>> IN
     files' = [name \in DOMAIN files \cup {new} |->
                 IF name = new THEN chosen.cluster ELSE files[name]]
  /\ chosen' = NothingChosen
  /\ UNCHANGED <<signature, stored, running, report, clusters, promotions>>

Next ==
  \/ \E s \in DOMAIN signature : Capture(s)
  \/ Analyse \/ PublishReport \/ PublishClusters
  \/ \E rank \in 1..MaxStored : Promote(rank)
  \/ \E second \in Seconds : WriteProposal(second)

Spec == Init /\ [][Next]_vars
-----------------------------------------------------------------------------
TypeOK ==
  /\ ToSet(stored) \subseteq DOMAIN signature
  /\ running.stage \in {"none", "report", "clusters"}
  /\ report.largest \in 0..Len(report.clusters)
  /\ promotions \in 0..MaxPromotions

(* A report accounts for every session it analysed: each is counted under    *)
(* one protocol with its bytes, each of unknown protocol is in one cluster   *)
(* and no other, and no cluster is larger than the one named the largest.    *)
(* The report counts sessions, profiles and clusters in three passes that    *)
(* meet only in the ids of the sessions.                                     *)
ReportAddsUp ==
  LET data == SubSeq(stored, 1, report.sessions)
      protocols == SetToSeq(DOMAIN report.byProtocol)
      Of(i) == report.byProtocol[protocols[i]]
  IN /\ Total([i \in DOMAIN protocols |-> Of(i).sessions]) = Len(data)
     /\ Total([i \in DOMAIN protocols |-> Of(i).bytes]) =
          Total([i \in DOMAIN data |-> signature[data[i]].bytes])
     /\ \A i \in DOMAIN protocols :
          Of(i).failures + Of(i).errors + Of(i).timeouts <= Of(i).sessions
     /\ \A i \in DOMAIN data :
          Cardinality({k \in DOMAIN report.clusters :
                         data[i] \in ToSet(report.clusters[k].members)}) =
            IF signature[data[i]].detected = "unknown" THEN 1 ELSE 0
     /\ Total([k \in DOMAIN report.clusters |-> Len(report.clusters[k].members)])
          = Len(Unknown(data))
     /\ report.clusters # <<>> =>
          \A k \in DOMAIN report.clusters :
            Len(report.clusters[k].members) <= Len(report.clusters[report.largest].members)

(* A proposal stands for all its sessions, although its candidate was found  *)
(* from the first of them alone: they begin with the same two bytes, and     *)
(* where those are the header of a known protocol, that protocol is what     *)
(* each of them suggests. It has every session of its kind up to some point  *)
(* of the capture, however captures, analyses and promotions fell together.  *)
ProposalSpeaksForAll ==
  \A name \in DOMAIN files :
    LET members == files[name].members
        p == signature[members[1]]
    IN /\ \E n \in 0..Len(stored) : members = Members(SubSeq(stored, 1, n), Key(p))
       /\ \A i \in DOMAIN members : signature[members[i]].header = p.header
       /\ \A k \in DOMAIN Known :
            p.header = Known[k].header =>
              /\ files[name].candidate = Known[k].name
              /\ \A i \in DOMAIN members :
                   Suggestion(signature[members[i]]).candidate = Known[k].name
=============================================================================
