------------------------------- MODULE Knowledge -------------------------------
(***************************************************************************)
(* The device knowledge base of the gateway (gateway/app/knowledge): the   *)
(* profiles of device models, the protocols observed with each device, the *)
(* list of versions, and what resolve recommends for an IMEI. Changes take *)
(* a lock; resolving and saving a snapshot do not. Nothing is loaded from  *)
(* a snapshot: a restart begins with the seed.                             *)
(***************************************************************************)
EXTENDS Integers, SequencesExt, FiniteSetsExt

CONSTANTS
  TacOf,       \* the TAC of each device: the first eight digits of its IMEI
  TacRecords,  \* what DEFAULT_TAC_RECORDS says of a TAC: how many of each
  Seed,        \* DEFAULT_DEVICE_PROFILES, in order: id, tacs, protocols
  NewProfiles, \* profiles a developer upserts
  Observable,  \* protocols observed
  MaxVersions  \* a bound on the versions of one process

VARIABLES
  profiles,  \* _profiles in the order of the dict; rev is the content of one
  history,   \* what was observed of each device, oldest first
  versions,  \* _versions: the note of each
  inside,    \* who holds _lock: the note of the change half made
  saving,    \* save_snapshot: how far it is, the name, the versions it read
  saved      \* the snapshot written last, and the version in its name

vars == <<profiles, history, versions, inside, saving, saved>>

Devices == DOMAIN TacOf

Profile == [id : STRING, tacs : SUBSET STRING, protocols : Seq(STRING)]

KnowledgeAssumption ==
  /\ Seed \in Seq(Profile) /\ NewProfiles \subseteq Profile
  /\ Observable \subseteq STRING /\ MaxVersions \in Nat \ {0}

-----------------------------------------------------------------------------
(* ProtocolHistory.stats_for and dominant_protocol. Shares and rates in      *)
(* parts of a whole: the code rounds them to hundredths of a percent.        *)
Of(d, p) == {i \in DOMAIN history[d] : history[d][i].protocol = p}
Seen(d, p) == Cardinality(Of(d, p))
Succeeded(d, p) == Cardinality({i \in Of(d, p) : history[d][i].success})
FirstSeen(d, p) == Min(Of(d, p))

\* a is sorted before b: the larger share, the better rate, the earlier seen.
Before(d, a, b) ==
  \/ Seen(d, a) > Seen(d, b)
  \/ Seen(d, a) = Seen(d, b) /\ Succeeded(d, a) > Succeeded(d, b)
  \/ /\ Seen(d, a) = Seen(d, b) /\ Succeeded(d, a) = Succeeded(d, b)
     /\ FirstSeen(d, a) < FirstSeen(d, b)

Dominant(d) ==
  LET seen == {o.protocol : o \in ToSet(history[d])}
      top  == CHOOSE p \in seen : \A q \in seen \ {p} : ~Before(d, q, p)
  IN IF seen = {} THEN [protocol |-> "none", percent |-> 0]
     ELSE [protocol |-> top, percent |-> (100 * Seen(d, top)) \div Len(history[d])]

(* resolve: the profiles of the TAC, their protocols and, for a header hint  *)
(* whose parent protocol is not among them, the variant in front of them.    *)
Variants == [classic |-> "gt06_classic", long |-> "gt06_v2"]
ParserOf(protocol) == IF protocol = "gt06_classic" THEN "gt06" ELSE protocol

Distinct(seq) ==
  SelectSeq([i \in DOMAIN seq |-> [at |-> i, of |-> seq[i]]],
            LAMBDA e : \A j \in 1..(e.at - 1) : seq[j] # e.of)

Resolve(d, hint) ==
  LET tac      == TacOf[d]
      listed   == tac \in DOMAIN TacRecords
      mine     == SelectSeq(profiles, LAMBDA p : tac \in p.tacs)
      distinct == Distinct(FlattenSeq([i \in DOMAIN mine |-> mine[i].protocols]))
      family   == [i \in DOMAIN distinct |-> distinct[i].of]
      advised  == (IF hint # "none" /\ "gt06" \notin ToSet(family)
                   THEN <<Variants[hint]>> ELSE <<>>) \o family
      manyOfTac == listed /\ TacRecords[tac] > 1
      dominant == Dominant(d)
      byHistory == dominant.percent >= 50
      least    == IF mine # <<>> \/ listed THEN 40 ELSE 0
  IN [parser |-> CASE hint = "classic" -> "gt06"
                   [] hint = "long"    -> "gt06_v2"
                   [] hint = "none" /\ byHistory -> dominant.protocol
                   [] hint = "none" /\ ~byHistory /\ advised # <<>> -> ParserOf(advised[1])
                   [] OTHER -> "none",
      confidence |->
        Min({99, Max({least, IF byHistory THEN dominant.percent
                             ELSE IF advised = <<>> THEN 0 ELSE IF manyOfTac THEN 55 ELSE 70,
                      IF hint = "none" THEN 0 ELSE 85})}),
      ambiguous |-> manyOfTac \/ Len(mine) > 1]

-----------------------------------------------------------------------------
Idle == [stage |-> "none", name |-> 0, versions |-> <<>>]
Free == [what |-> "none", id |-> "none"]
Started == [what |-> "init", id |-> "none"]
Nothing == [name |-> 0, versions |-> <<>>, profiles |-> <<>>]
Content(p, rev) ==
  [id |-> p.id, tacs |-> p.tacs, protocols |-> p.protocols, rev |-> rev]
Fresh == [i \in DOMAIN Seed |-> Content(Seed[i], 0)]

Init ==
  /\ profiles = Fresh /\ history = [d \in Devices |-> <<>>]
  /\ versions = <<Started>> /\ inside = Free /\ saving = Idle /\ saved = Nothing

(* upsert_profile: the profile, in its place or at the end, then the version;*)
(* rev is the number of that version. The first form keeps a profile that is *)
(* there.                                                                    *)
PlacedIfNew(p) ==
  IF \E i \in DOMAIN profiles : profiles[i].id = p.id THEN profiles ELSE Append(profiles, p)
Placed(p) ==
  IF \E i \in DOMAIN profiles : profiles[i].id = p.id
  THEN [i \in DOMAIN profiles |-> IF profiles[i].id = p.id THEN p ELSE profiles[i]]
  ELSE Append(profiles, p)

Upsert(p) ==
  /\ inside = Free /\ Len(versions) < MaxVersions
  /\ profiles' = Placed(Content(p, Len(versions) + 1))
  /\ inside' = [what |-> "upsert", id |-> p.id]
  /\ UNCHANGED <<history, versions, saving, saved>>

(* learn_protocol_observation, and the version.                              *)
Learn(d, protocol, success) ==
  /\ inside = Free /\ Len(versions) < MaxVersions
  /\ history' = [history EXCEPT ![d] = Append(@, [protocol |-> protocol, success |-> success])]
  /\ inside' = [what |-> "observe", id |-> protocol]
  /\ UNCHANGED <<profiles, versions, saving, saved>>

Bump ==
  /\ inside # Free
  /\ versions' = Append(versions, inside)
  /\ inside' = Free
  /\ UNCHANGED <<profiles, history, saving, saved>>

(* save_snapshot: the name from the current version; export_snapshot reads   *)
(* the versions, then the profiles; the file is written.                     *)
SaveName ==
  /\ saving.stage = "none"
  /\ saving' = [stage |-> "named", name |-> Len(versions), versions |-> <<>>]
  /\ UNCHANGED <<profiles, history, versions, inside, saved>>

SaveVersions ==
  /\ saving.stage = "named"
  /\ saving' = [saving EXCEPT !.stage = "versions", !.versions = versions]
  /\ UNCHANGED <<profiles, history, versions, inside, saved>>

Snapshot == [name |-> saving.name, versions |-> saving.versions, profiles |-> profiles]

SaveProfiles ==
  /\ saving.stage = "versions"
  /\ saved' = Snapshot
  /\ saving' = Idle
  /\ UNCHANGED <<profiles, history, versions, inside>>

(* The process starts again, in the middle of anything.                      *)
Restart ==
  /\ profiles' = Fresh /\ history' = [d \in Devices |-> <<>>]
  /\ versions' = <<Started>> /\ inside' = Free /\ saving' = Idle
  /\ UNCHANGED saved

Next ==
  \/ \E p \in NewProfiles : Upsert(p)
  \/ \E d \in Devices, protocol \in Observable, success \in BOOLEAN :
       Learn(d, protocol, success)
  \/ Bump \/ SaveName \/ SaveVersions \/ SaveProfiles \/ Restart

Spec == Init /\ [][Next]_vars
-----------------------------------------------------------------------------
TypeOK ==
  /\ \A i \in DOMAIN profiles : profiles[i].rev \in 0..MaxVersions
  /\ history \in [Devices -> Seq([protocol : Observable, success : BOOLEAN])]
  /\ Len(versions) \in 1..MaxVersions /\ saving.name \in 0..MaxVersions
  /\ saved.name \in 0..MaxVersions

(* A snapshot is no older than the version it is named for, and has every    *)
(* profile its own list of versions says was upserted, or a later one of     *)
(* that id, although it is read without the lock while profiles change.      *)
SnapshotHasItsVersions ==
  /\ Len(saved.versions) >= saved.name
  /\ \A k \in DOMAIN saved.versions :
       saved.versions[k].what = "upsert" =>
         \E i \in DOMAIN saved.profiles :
           saved.profiles[i].id = saved.versions[k].id /\ saved.profiles[i].rev >= k

(* Without a header to go by, a protocol that at least half of a device's    *)
(* observations are of is recommended over that of its family: of two with   *)
(* a half each the one that failed less often. A protocol that failed every  *)
(* time is recommended all the same. A header of GT06 overrules the history  *)
(* and the family alike.                                                     *)
MajorityIsRecommended ==
  \A d \in Devices :
    LET majority == {p \in Observable : 2 * Seen(d, p) >= Len(history[d])
                                          /\ history[d] # <<>>}
        r == Resolve(d, "none")
    IN /\ majority # {} =>
         /\ r.parser \in majority
         /\ \A p \in majority : Succeeded(d, p) <= Succeeded(d, r.parser)
         /\ r.confidence >= 50
       /\ \A hint \in DOMAIN Variants :
            Resolve(d, hint).parser = ParserOf(Variants[hint])
              /\ Resolve(d, hint).confidence >= r.confidence

KnowledgeIsSound == SnapshotHasItsVersions /\ MajorityIsRecommended
=============================================================================
