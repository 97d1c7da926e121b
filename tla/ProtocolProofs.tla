---------------------------- MODULE ProtocolProofs ----------------------------
(***************************************************************************)
(* Proofs about how the gateway comes to the frames of a device: about the *)
(* knowledge which protocol a device speaks (Knowledge), for any devices,  *)
(* profiles and observations; about the captures of connections whose      *)
(* protocol it does not know (SessionCapture), for any number of them;     *)
(* about the frames in the bytes of those it knows (GT06Framing), for any  *)
(* bytes, cut in any places; and about what the analysis of the captures   *)
(* proposes (Intelligence), for any sessions.                              *)
(***************************************************************************)
EXTENDS Knowledge, FiniteSetTheorems, SequenceTheorems, WellFoundedInduction, TLAPS

CONSTANTS Conns, MaxReads
VARIABLES pc, got, reason, events, cancelled, file, stored, closed

Captures == INSTANCE SessionCapture

Kept == [id : STRING, tacs : SUBSET STRING, protocols : Seq(STRING), rev : 0..MaxVersions]
Notes == [what : {"none", "init", "upsert", "observe"}, id : STRING \cup {"none"}]
Observations == [protocol : Observable, success : BOOLEAN]

TypeInv ==
  /\ profiles \in Seq(Kept)
  /\ history \in [Devices -> Seq(Observations)]
  /\ versions \in Seq(Notes) /\ Len(versions) \in 1..MaxVersions
  /\ inside \in Notes /\ (inside # Free => Len(versions) < MaxVersions)
  /\ saving \in [stage : {"none", "named", "versions"}, name : 0..MaxVersions,
                 versions : Seq(Notes)]
  /\ saved \in [name : 0..MaxVersions, versions : Seq(Notes), profiles : Seq(Kept)]

(* The profiles have what versions up to the k-th, and a note half made, say.*)
Has(ps, id, k) == \E i \in DOMAIN ps : ps[i].id = id /\ ps[i].rev >= k

VersionInv ==
  /\ \A k \in DOMAIN versions :
       versions[k].what = "upsert" => Has(profiles, versions[k].id, k)
  /\ inside.what = "upsert" => Has(profiles, inside.id, Len(versions) + 1)
  /\ \A i \in DOMAIN profiles : profiles[i].rev <= Len(versions) + 1

(* What save_snapshot read is still the beginning of the list.               *)
SavingInv ==
  /\ saving.stage = "named" => saving.name <= Len(versions)
  /\ saving.stage = "versions" =>
       /\ saving.name <= Len(saving.versions) /\ Len(saving.versions) <= Len(versions)
       /\ \A k \in DOMAIN saving.versions : saving.versions[k] = versions[k]

SnapshotInv == TypeInv /\ VersionInv /\ SavingInv /\ SnapshotHasItsVersions
-----------------------------------------------------------------------------
LEMMA LeastNat ==
  ASSUME NEW T, T \subseteq Nat, T # {}
  PROVE  \E x \in T : \A y \in T : x <= y
<1> DEFINE R == OpToRel(<, Nat)
<1>1. \E x \in T : \A y \in T : ~ (<<y, x>> \in R)
  BY NatLessThanWellFounded, WFMin
<1>2. ASSUME NEW x \in T, NEW y \in T, ~ (<<y, x>> \in R)
      PROVE  x <= y
  BY <1>2 DEF OpToRel
<1> QED
  BY <1>1, <1>2

LEMMA Half ==
  ASSUME NEW s \in Nat, NEW n \in Nat, n > 0
  PROVE  /\ (100 * s) \div n \in Int
         /\ 2 * s >= n => (100 * s) \div n >= 50
  OBVIOUS

LEMMA HalfBack ==
  ASSUME NEW s \in Nat, NEW n \in Nat, n > 0,  (100 * s) \div n >= 50
  PROVE  2 * s >= n
  OBVIOUS
-----------------------------------------------------------------------------
LEMMA FreshIs ==
  ASSUME KnowledgeAssumption
  PROVE  /\ Fresh \in Seq(Kept) /\ \A i \in DOMAIN Fresh : Fresh[i].rev <= Len(<<Started>>) + 1
         /\ [d \in Devices |-> <<>>] \in [Devices -> Seq(Observations)]
         /\ <<Started>> \in Seq(Notes) /\ Len(<<Started>>) \in 1..MaxVersions
         /\ \A k \in DOMAIN <<Started>> : <<Started>>[k].what # "upsert"
         /\ Free \in Notes /\ Free.what # "upsert"
         /\ Idle \in [stage : {"none", "named", "versions"}, name : 0..MaxVersions,
                      versions : Seq(Notes)]
         /\ Idle.stage = "none"
         /\ Nothing \in [name : 0..MaxVersions, versions : Seq(Notes), profiles : Seq(Kept)]
         /\ Nothing.name = 0 /\ Nothing.versions = <<>>
<1>1. /\ MaxVersions \in Nat /\ MaxVersions > 0 /\ Seed \in Seq(Profile)
  BY DEF KnowledgeAssumption
<1>2. 0 \in 0..MaxVersions /\ 1 \in 1..MaxVersions
  BY <1>1
<1>3. Fresh \in Seq(Kept) /\ \A i \in DOMAIN Fresh : Fresh[i].rev = 0
  <2>1. ASSUME NEW i \in DOMAIN Seed
        PROVE  Content(Seed[i], 0) \in Kept /\ Content(Seed[i], 0).rev = 0
    <3>1. Seed[i] \in Profile
      BY <1>1
    <3> QED
      BY <1>2, <3>1 DEF Content, Kept, Profile
  <2>2. DOMAIN Seed = 1..Len(Seed) /\ Len(Seed) \in Nat
    BY <1>1
  <2> QED
    BY <2>1, <2>2 DEF Fresh
<1>4. Started \in Notes /\ Free \in Notes /\ Started.what # "upsert" /\ Free.what # "upsert"
  <2>1. "init" \in {"none", "init", "upsert", "observe"}
    OBVIOUS
  <2> QED
    BY <2>1 DEF Started, Free, Notes
<1>5. /\ <<Started>> \in Seq(Notes) /\ Len(<<Started>>) = 1 /\ <<Started>>[1] = Started
      /\ DOMAIN <<Started>> = {1}
  BY <1>4
<1>6. /\ <<>> \in Seq(Notes) /\ <<>> \in Seq(Kept) /\ <<>> \in Seq(Observations)
  OBVIOUS
<1>7. [d \in Devices |-> <<>>] \in [Devices -> Seq(Observations)]
  BY <1>6
<1>8. /\ Idle \in [stage : {"none", "named", "versions"}, name : 0..MaxVersions,
                   versions : Seq(Notes)]
      /\ Idle.stage = "none"
      /\ Nothing \in [name : 0..MaxVersions, versions : Seq(Notes), profiles : Seq(Kept)]
      /\ Nothing.name = 0 /\ Nothing.versions = <<>>
  BY <1>2, <1>6 DEF Idle, Nothing
<1>9. \A i \in DOMAIN Fresh : Fresh[i].rev <= Len(<<Started>>) + 1
  BY <1>3, <1>5
<1>10. Len(<<Started>>) \in 1..MaxVersions
  BY <1>2, <1>5
<1>11. \A k \in DOMAIN <<Started>> : <<Started>>[k].what # "upsert"
  BY <1>4, <1>5
<1> QED
  BY <1>3, <1>4, <1>5, <1>7, <1>8, <1>9, <1>10, <1>11

LEMMA SnapshotStarts ==
  ASSUME KnowledgeAssumption, Init
  PROVE  SnapshotInv
<1> DEFINE first == <<Started>>
           none == [d \in Devices |-> <<>>]
<1>1. /\ profiles = Fresh /\ history = none /\ versions = first /\ inside = Free
      /\ saving = Idle /\ saved = Nothing
  BY DEF Init
<1>2. TypeInv
  BY <1>1, FreshIs DEF TypeInv
<1>3. VersionInv
  BY <1>1, FreshIs DEF VersionInv
<1>4. SavingInv
  BY <1>1, FreshIs DEF SavingInv
<1>5. SnapshotHasItsVersions
  BY <1>1, FreshIs DEF SnapshotHasItsVersions
<1> QED
  BY <1>2, <1>3, <1>4, <1>5 DEF SnapshotInv

\* A profile takes its place or the end, and none loses a later content.
LEMMA PlacedHas ==
  ASSUME NEW ps \in Seq(Kept), profiles = ps, NEW q \in Kept,
         \A i \in DOMAIN ps : ps[i].rev <= q.rev
  PROVE  /\ Placed(q) \in Seq(Kept)
         /\ Has(Placed(q), q.id, q.rev)
         /\ \A id : \A k \in Int : Has(ps, id, k) => Has(Placed(q), id, k)
<1>1. q.rev \in Nat \/ q.rev \in Int
  BY DEF Kept
<1>2. Len(ps) \in Nat /\ DOMAIN ps = 1..Len(ps) /\ \A i \in DOMAIN ps : ps[i] \in Kept
  OBVIOUS
<1>3. CASE \E i \in DOMAIN ps : ps[i].id = q.id
  <2>1. PICK n : n = Len(ps)
    OBVIOUS
  <2>2. PICK more : more = Placed(q)
    OBVIOUS
  <2>3. more = [i \in 1..n |-> IF ps[i].id = q.id THEN q ELSE ps[i]]
    BY <1>2, <1>3, <2>1, <2>2 DEF Placed
  <2>4. more \in Seq(Kept) /\ DOMAIN more = 1..n
    BY <1>2, <2>1, <2>3
  <2>5. Has(more, q.id, q.rev)
    BY <1>1, <1>2, <1>3, <2>1, <2>3, <2>4 DEF Has
  <2>6. ASSUME NEW id, NEW k \in Int, Has(ps, id, k)
        PROVE  Has(more, id, k)
    <3>1. PICK i \in DOMAIN ps : ps[i].id = id /\ ps[i].rev >= k
      BY <2>6 DEF Has
    <3>2. i \in 1..n /\ ps[i].rev \in Int /\ ps[i] \in Kept
      BY <1>2, <2>1 DEF Kept
    <3>3. more[i] = IF ps[i].id = q.id THEN q ELSE ps[i]
      BY <2>3, <3>2
    <3>4. more[i].id = id /\ more[i].rev >= k
      BY <1>1, <1>2, <3>1, <3>2, <3>3
    <3> QED
      BY <2>4, <3>2, <3>4 DEF Has
  <2> QED
    BY <2>2, <2>4, <2>5, <2>6
<1>4. CASE ~ \E i \in DOMAIN ps : ps[i].id = q.id
  <2>1. PICK n : n = Len(ps)
    OBVIOUS
  <2>2. PICK more : more = Append(ps, q)
    OBVIOUS
  <2>3. /\ more \in Seq(Kept) /\ DOMAIN more = 1..(n + 1) /\ more[n + 1] = q /\ n \in Nat
        /\ DOMAIN ps = 1..n /\ \A i \in 1..n : more[i] = ps[i]
    BY <2>1, <2>2
  <2>4. n + 1 \in 1..(n + 1) /\ \A i \in 1..n : i \in 1..(n + 1)
    BY <2>3
  <2>5. Has(more, q.id, q.rev)
    BY <1>1, <2>3, <2>4 DEF Has
  <2>6. \A id, k : Has(ps, id, k) => Has(more, id, k)
    BY <2>3, <2>4 DEF Has
  <2>7. Placed(q) = more
    BY <1>4, <2>2 DEF Placed
  <2> QED
    BY <2>3, <2>5, <2>6, <2>7
<1> QED
  BY <1>3, <1>4

LEMMA Sizes ==
  ASSUME KnowledgeAssumption, TypeInv
  PROVE  /\ MaxVersions \in Nat /\ Len(versions) \in Nat /\ Len(saving.versions) \in Nat
         /\ DOMAIN versions = 1..Len(versions)
         /\ DOMAIN saving.versions = 1..Len(saving.versions)
         /\ saving.versions \in Seq(Notes)
         /\ \A i \in DOMAIN profiles : profiles[i] \in Kept
  BY DEF KnowledgeAssumption, TypeInv

LEMMA UpsertKeeps ==
  ASSUME KnowledgeAssumption, SnapshotInv, NEW p \in NewProfiles, Upsert(p)
  PROVE  SnapshotInv'
<1> DEFINE n == Len(versions)
           q == Content(p, n + 1)
<1>1. TypeInv /\ VersionInv /\ SavingInv /\ SnapshotHasItsVersions
  BY DEF SnapshotInv
<1>2. n \in Nat /\ n + 1 \in 0..MaxVersions /\ n + 1 \in Int
  BY <1>1, Sizes DEF Upsert, KnowledgeAssumption
<1>3. p \in Profile
  BY DEF KnowledgeAssumption
<1>4. q \in Kept /\ q.rev = n + 1 /\ q.id = p.id
  BY <1>2, <1>3 DEF Content, Kept, Profile
<1>5. /\ profiles' = Placed(q) /\ inside' = [what |-> "upsert", id |-> p.id]
      /\ UNCHANGED <<history, versions, saving, saved>> /\ n < MaxVersions
  BY DEF Upsert
<1>6. \A i \in DOMAIN profiles : profiles[i].rev <= q.rev
  BY <1>1, <1>4 DEF VersionInv
<1>7. /\ profiles' \in Seq(Kept) /\ Has(profiles', p.id, n + 1)
      /\ \A id : \A k \in Int : Has(profiles, id, k) => Has(profiles', id, k)
  <2>1. profiles \in Seq(Kept)
    BY <1>1 DEF TypeInv
  <2> QED
    BY <1>4, <1>5, <1>6, <2>1, PlacedHas
<1> HIDE DEF q
<1>8. TypeInv'
  <2>1. inside' \in Notes
    BY <1>3, <1>5 DEF Notes, Profile
  <2> QED
    BY <1>1, <1>5, <1>7, <2>1 DEF TypeInv
<1>9. VersionInv'
  <2>1. ASSUME NEW k \in DOMAIN versions, versions[k].what = "upsert"
        PROVE  Has(profiles', versions[k].id, k)
    <3>1. k \in Int
      BY <1>1, Sizes
    <3> QED
      BY <1>1, <1>7, <2>1, <3>1 DEF VersionInv
  <2>2. \A i \in DOMAIN profiles' : profiles'[i].rev <= n + 1
    <3>1. \A i \in DOMAIN profiles' :
            profiles'[i] = q \/ \E j \in DOMAIN profiles : profiles'[i] = profiles[j]
      BY <1>1, <1>5 DEF Placed, TypeInv
    <3> QED
      BY <1>1, <1>2, <1>4, <3>1 DEF VersionInv
  <2> QED
    BY <1>5, <1>7, <2>1, <2>2 DEF VersionInv, Has
<1>10. SavingInv' /\ SnapshotHasItsVersions'
  BY <1>1, <1>5 DEF SavingInv, SnapshotHasItsVersions
<1> QED
  BY <1>8, <1>9, <1>10 DEF SnapshotInv

LEMMA LearnKeeps ==
  ASSUME KnowledgeAssumption, SnapshotInv, NEW d \in Devices, NEW protocol \in Observable,
         NEW success \in BOOLEAN, Learn(d, protocol, success)
  PROVE  SnapshotInv'
<1>1. TypeInv /\ VersionInv /\ SavingInv /\ SnapshotHasItsVersions
  BY DEF SnapshotInv
<1>2. /\ inside' = [what |-> "observe", id |-> protocol] /\ Len(versions) < MaxVersions
      /\ UNCHANGED <<profiles, versions, saving, saved>>
      /\ history' = [history EXCEPT ![d] = Append(history[d],
                       [protocol |-> protocol, success |-> success])]
  BY DEF Learn
<1>3. history' \in [Devices -> Seq(Observations)]
  <2>1. [protocol |-> protocol, success |-> success] \in Observations
    BY DEF Observations
  <2>2. history[d] \in Seq(Observations)
    BY <1>1 DEF TypeInv
  <2>3. Append(history[d], [protocol |-> protocol, success |-> success]) \in Seq(Observations)
    BY <2>1, <2>2
  <2> QED
    BY <1>1, <1>2, <2>3 DEF TypeInv
<1>4. inside' \in Notes /\ inside'.what # "upsert"
  BY <1>2 DEF Notes, KnowledgeAssumption
<1>5. TypeInv'
  BY <1>1, <1>2, <1>3, <1>4 DEF TypeInv
<1>6. VersionInv' /\ SavingInv' /\ SnapshotHasItsVersions'
  BY <1>1, <1>2, <1>4 DEF VersionInv, SavingInv, SnapshotHasItsVersions, Has
<1> QED
  BY <1>5, <1>6 DEF SnapshotInv

LEMMA BumpKeeps ==
  ASSUME KnowledgeAssumption, SnapshotInv, Bump
  PROVE  SnapshotInv'
<1> DEFINE n == Len(versions)
<1>1. TypeInv /\ VersionInv /\ SavingInv /\ SnapshotHasItsVersions
  BY DEF SnapshotInv
<1>2. /\ versions' = Append(versions, inside) /\ inside' = Free /\ inside # Free
      /\ UNCHANGED <<profiles, history, saving, saved>>
  BY DEF Bump
<1>3. /\ versions \in Seq(Notes) /\ inside \in Notes /\ n \in Nat /\ n < MaxVersions
      /\ MaxVersions \in Nat
  BY <1>1, <1>2, Sizes DEF TypeInv
<1>4. /\ versions' \in Seq(Notes) /\ Len(versions') = n + 1 /\ DOMAIN versions = 1..n
      /\ DOMAIN versions' = 1..(n + 1) /\ versions'[n + 1] = inside
      /\ \A k \in 1..n : versions'[k] = versions[k]
  BY <1>2, <1>3
<1> HIDE DEF n
<1>5. Free \in Notes /\ Free.what # "upsert"
  BY DEF Free, Notes
<1>6. TypeInv'
  BY <1>1, <1>2, <1>3, <1>4, <1>5 DEF TypeInv
<1>7. VersionInv'
  <2>1. ASSUME NEW k \in 1..(n + 1), versions'[k].what = "upsert"
        PROVE  Has(profiles, versions'[k].id, k)
    <3>1. CASE k \in 1..n
      BY <1>1, <1>4, <2>1, <3>1 DEF VersionInv
    <3>2. CASE k = n + 1
      BY <1>1, <1>4, <2>1, <3>2 DEF VersionInv, n
    <3> QED
      BY <1>3, <3>1, <3>2
  <2>2. ASSUME NEW i \in DOMAIN profiles
        PROVE  profiles[i].rev <= n + 1 + 1
    <3>1. profiles[i].rev \in Int
      BY <1>1, Sizes DEF Kept
    <3>2. profiles[i].rev <= n + 1
      BY <1>1 DEF VersionInv, n
    <3> QED
      BY <1>3, <3>1, <3>2
  <2> QED
    BY <1>2, <1>4, <1>5, <2>1, <2>2 DEF VersionInv, Has
<1>8. SavingInv'
  <2>1. saving.name \in Nat /\ Len(saving.versions) \in Nat
        /\ DOMAIN saving.versions = 1..Len(saving.versions)
    BY <1>1, Sizes DEF TypeInv
  <2>2. CASE saving.stage = "named"
    BY <1>1, <1>2, <1>3, <1>4, <2>1, <2>2 DEF SavingInv, n
  <2>3. CASE saving.stage = "versions"
    <3>1. \A k \in DOMAIN saving.versions : k \in 1..n
      BY <1>1, <1>3, <2>1, <2>3 DEF SavingInv, n
    <3>2. Len(saving.versions) <= n + 1
      BY <1>1, <1>3, <2>1, <2>3 DEF SavingInv, n
    <3> QED
      BY <1>1, <1>2, <1>4, <2>3, <3>1, <3>2 DEF SavingInv
  <2> QED
    BY <1>2, <2>2, <2>3 DEF SavingInv
<1>9. SnapshotHasItsVersions'
  BY <1>1, <1>2 DEF SnapshotHasItsVersions
<1> QED
  BY <1>6, <1>7, <1>8, <1>9 DEF SnapshotInv

LEMMA SaveKeeps ==
  ASSUME KnowledgeAssumption, SnapshotInv, SaveName \/ SaveVersions \/ SaveProfiles
  PROVE  SnapshotInv'
<1>1. TypeInv /\ VersionInv /\ SavingInv /\ SnapshotHasItsVersions
  BY DEF SnapshotInv
<1>2. UNCHANGED <<profiles, history, versions, inside>>
  BY DEF SaveName, SaveVersions, SaveProfiles
<1>3. VersionInv'
  BY <1>1, <1>2 DEF VersionInv, Has
<1>4. /\ Len(versions) \in 0..MaxVersions /\ versions \in Seq(Notes) /\ <<>> \in Seq(Notes)
      /\ Len(versions) \in Nat /\ 0 \in 0..MaxVersions
  BY <1>1, Sizes DEF TypeInv
<1>5. /\ saving \in [stage : {"none", "named", "versions"}, name : 0..MaxVersions,
                     versions : Seq(Notes)]
      /\ saving.name \in Nat
  BY <1>1, Sizes DEF TypeInv
<1>6. CASE SaveName
  <2>1. /\ saving' = [stage |-> "named", name |-> Len(versions), versions |-> <<>>]
        /\ saved' = saved
    BY <1>6 DEF SaveName
  <2>2. TypeInv'
    BY <1>1, <1>2, <1>4, <2>1 DEF TypeInv
  <2>3. SavingInv' /\ SnapshotHasItsVersions'
    BY <1>1, <1>2, <1>4, <2>1 DEF SavingInv, SnapshotHasItsVersions
  <2> QED
    BY <1>3, <2>2, <2>3 DEF SnapshotInv
<1>7. CASE SaveVersions
  <2>1. /\ saving.stage = "named" /\ saved' = saved
        /\ saving' = [stage |-> "versions", name |-> saving.name, versions |-> versions]
    BY <1>5, <1>7 DEF SaveVersions
  <2>2. TypeInv'
    BY <1>1, <1>2, <1>4, <1>5, <2>1 DEF TypeInv
  <2>3. SavingInv' /\ SnapshotHasItsVersions'
    BY <1>1, <1>2, <1>4, <2>1 DEF SavingInv, SnapshotHasItsVersions
  <2> QED
    BY <1>3, <2>2, <2>3 DEF SnapshotInv
<1>8. CASE SaveProfiles
  <2>1. /\ saving.stage = "versions" /\ saved' = Snapshot /\ saving' = Idle
    BY <1>8 DEF SaveProfiles
  <2>2. /\ saved'.name = saving.name /\ saved'.versions = saving.versions
        /\ saved'.profiles = profiles
    BY <2>1 DEF Snapshot
  <2>3. TypeInv'
    <3>1. /\ Snapshot \in [name : 0..MaxVersions, versions : Seq(Notes), profiles : Seq(Kept)]
          /\ Idle \in [stage : {"none", "named", "versions"}, name : 0..MaxVersions,
                       versions : Seq(Notes)]
      BY <1>1, <1>4, <1>5 DEF Snapshot, Idle, TypeInv
    <3> QED
      BY <1>1, <1>2, <2>1, <3>1 DEF TypeInv
  <2>4. SavingInv'
    BY <2>1 DEF SavingInv, Idle
  <2>5. SnapshotHasItsVersions'
    <3>1. Len(saving.versions) >= saving.name
      BY <1>1, <1>5, <2>1, Sizes DEF SavingInv
    <3>2. ASSUME NEW k \in DOMAIN saving.versions, saving.versions[k].what = "upsert"
          PROVE  Has(profiles, saving.versions[k].id, k)
      <4>1. k \in DOMAIN versions /\ saving.versions[k] = versions[k]
        BY <1>1, <2>1, Sizes DEF SavingInv
      <4> QED
        BY <1>1, <3>2, <4>1 DEF VersionInv
    <3> QED
      BY <2>2, <3>1, <3>2 DEF SnapshotHasItsVersions, Has
  <2> QED
    BY <1>3, <2>3, <2>4, <2>5 DEF SnapshotInv
<1> QED
  BY <1>6, <1>7, <1>8

LEMMA RestartKeeps ==
  ASSUME KnowledgeAssumption, SnapshotInv, Restart
  PROVE  SnapshotInv'
<1> DEFINE first == <<Started>>
           none == [d \in Devices |-> <<>>]
<1>1. /\ profiles' = Fresh /\ history' = none /\ versions' = first /\ inside' = Free
      /\ saving' = Idle /\ saved' = saved
  BY DEF Restart
<1>2. TypeInv /\ SnapshotHasItsVersions
  BY DEF SnapshotInv
<1>3. TypeInv'
  BY <1>1, <1>2, FreshIs DEF TypeInv
<1>4. VersionInv'
  BY <1>1, FreshIs DEF VersionInv
<1>5. SavingInv'
  BY <1>1, FreshIs DEF SavingInv
<1>6. SnapshotHasItsVersions'
  BY <1>1, <1>2 DEF SnapshotHasItsVersions
<1> QED
  BY <1>3, <1>4, <1>5, <1>6 DEF SnapshotInv

LEMMA SnapshotKeeps ==
  ASSUME KnowledgeAssumption, SnapshotInv, [Next]_vars
  PROVE  SnapshotInv'
<1>1. CASE UNCHANGED vars
  BY <1>1 DEF vars, SnapshotInv, TypeInv, VersionInv, SavingInv, SnapshotHasItsVersions, Has
<1> QED
  BY <1>1, UpsertKeeps, LearnKeeps, BumpKeeps, SaveKeeps, RestartKeeps DEF Next
-----------------------------------------------------------------------------
(* What is recommended. Counts of a device's observations.                   *)
LEMMA UpTo ==
  ASSUME NEW n \in Nat
  PROVE  IsFiniteSet(1..n) /\ Cardinality(1..n) = n
  BY FS_Interval

LEMMA CountsAre ==
  ASSUME TypeInv, NEW d \in Devices
  PROVE  /\ Len(history[d]) \in Nat /\ DOMAIN history[d] = 1..Len(history[d])
         /\ \A p : /\ Seen(d, p) \in Nat /\ Seen(d, p) <= Len(history[d])
                   /\ Succeeded(d, p) \in Nat /\ Succeeded(d, p) <= Seen(d, p)
                   /\ Of(d, p) \subseteq Nat
<1> DEFINE n == Len(history[d])
<1>1. n \in Nat /\ DOMAIN history[d] = 1..n
  BY DEF TypeInv
<1>2. IsFiniteSet(1..n) /\ Cardinality(1..n) = n
  BY <1>1, UpTo
<1>3. ASSUME NEW p
      PROVE  /\ Seen(d, p) \in Nat /\ Seen(d, p) <= n
             /\ Succeeded(d, p) \in Nat /\ Succeeded(d, p) <= Seen(d, p)
             /\ Of(d, p) \subseteq Nat
  <2> DEFINE good == {i \in Of(d, p) : history[d][i].success}
  <2>1. Of(d, p) \in SUBSET (1..n) /\ good \in SUBSET Of(d, p)
    BY <1>1 DEF Of
  <2>2. IsFiniteSet(Of(d, p)) /\ Cardinality(Of(d, p)) <= n
    BY <1>2, <2>1, FS_Subset
  <2>3. IsFiniteSet(good) /\ Cardinality(good) <= Cardinality(Of(d, p))
    BY <2>1, <2>2, FS_Subset
  <2>4. Cardinality(good) \in Nat /\ Cardinality(Of(d, p)) \in Nat
    BY <2>2, <2>3, FS_CardinalityType
  <2> QED
    BY <2>1, <2>2, <2>3, <2>4 DEF Seen, Succeeded
<1> QED
  BY <1>1, <1>3

\* Two protocols share the observations of a device.
LEMMA CountsAddUp ==
  ASSUME TypeInv, NEW d \in Devices, NEW p, NEW q, p # q
  PROVE  Seen(d, p) + Seen(d, q) <= Len(history[d])
<1> DEFINE n == Len(history[d])
<1>1. n \in Nat /\ DOMAIN history[d] = 1..n
  BY CountsAre
<1>2. IsFiniteSet(1..n) /\ Cardinality(1..n) = n
  BY <1>1, UpTo
<1>3. /\ Of(d, p) \in SUBSET (1..n) /\ Of(d, q) \in SUBSET (1..n)
      /\ Of(d, p) \cup Of(d, q) \in SUBSET (1..n) /\ Of(d, p) \cap Of(d, q) = {}
  BY <1>1 DEF Of
<1>4. IsFiniteSet(Of(d, p)) /\ IsFiniteSet(Of(d, q))
  BY <1>2, <1>3, FS_Subset
<1>5. Cardinality(Of(d, p) \cup Of(d, q)) <= n
  BY <1>2, <1>3, FS_Subset
<1>6. Cardinality(Of(d, p) \cup Of(d, q)) =
        Cardinality(Of(d, p)) + Cardinality(Of(d, q)) - Cardinality(Of(d, p) \cap Of(d, q))
  BY <1>4, FS_Union
<1>7. Cardinality(Of(d, p) \cap Of(d, q)) = 0
  BY <1>3, FS_EmptySet
<1>8. Seen(d, p) \in Nat /\ Seen(d, q) \in Nat
  BY CountsAre
<1> QED
  BY <1>5, <1>6, <1>7, <1>8 DEF Seen

LEMMA Greatest ==
  ASSUME NEW S, S # {}, NEW n \in Nat, NEW f \in [S -> 0..n]
  PROVE  \E p \in S : \A q \in S : f[q] <= f[p]
<1> DEFINE T == {n - f[p] : p \in S}
<1>1. T \subseteq Nat /\ T # {}
  OBVIOUS
<1>2. PICK x \in T : \A y \in T : x <= y
  BY <1>1, LeastNat
<1>3. PICK p \in S : x = n - f[p]
  BY <1>2
<1>4. ASSUME NEW q \in S
      PROVE  f[q] <= f[p]
  <2>1. n - f[q] \in T
    OBVIOUS
  <2>2. n - f[p] <= n - f[q]
    BY <1>2, <1>3, <2>1
  <2>3. f[p] \in 0..n /\ f[q] \in 0..n
    OBVIOUS
  <2> QED
    BY <2>2, <2>3
<1> QED
  BY <1>4

\* Some protocol seen with a device is sorted before no other.
LEMMA FirstOfAll ==
  ASSUME TypeInv, NEW d \in Devices, NEW S, S # {}, \A p \in S : Of(d, p) # {}
  PROVE  \E p \in S : \A q \in S \ {p} : ~Before(d, q, p)
<1> DEFINE n == Len(history[d])
<1>1. n \in Nat
  BY CountsAre
<1>2. \A p : Seen(d, p) \in 0..n /\ Succeeded(d, p) \in 0..n
  BY <1>1, CountsAre
<1> HIDE DEF n
<1>3. PICK p1 \in S : \A q \in S : Seen(d, q) <= Seen(d, p1)
  <2> DEFINE f == [q \in S |-> Seen(d, q)]
  <2>1. f \in [S -> 0..n]
    BY <1>2
  <2>2. \E p \in S : \A q \in S : f[q] <= f[p]
    <3> HIDE DEF f
    <3> QED
      BY <1>1, <2>1, Greatest
  <2> QED
    BY <2>2
<1> DEFINE S1 == {q \in S : Seen(d, q) = Seen(d, p1)}
<1>4. PICK p2 \in S1 : \A q \in S1 : Succeeded(d, q) <= Succeeded(d, p2)
  <2> DEFINE f == [q \in S1 |-> Succeeded(d, q)]
  <2>1. f \in [S1 -> 0..n] /\ p1 \in S1
    BY <1>2
  <2>2. \E p \in S1 : \A q \in S1 : f[q] <= f[p]
    <3> HIDE DEF f, S1
    <3> QED
      BY <1>1, <2>1, Greatest
  <2> QED
    BY <2>2
<1> DEFINE S2 == {q \in S1 : Succeeded(d, q) = Succeeded(d, p2)}
           T  == {FirstSeen(d, q) : q \in S2}
<1>5. \A q \in S : FirstSeen(d, q) \in Nat
  <2>1. ASSUME NEW q \in S
        PROVE  FirstSeen(d, q) \in Nat
    <3>1. Of(d, q) \subseteq Nat /\ Of(d, q) # {}
      BY CountsAre
    <3>2. \E x \in Of(d, q) : \A y \in Of(d, q) : x <= y
      BY <3>1, LeastNat
    <3>3. FirstSeen(d, q) \in Of(d, q)
      BY <3>2 DEF FirstSeen, Min
    <3> QED
      BY <3>1, <3>3
  <2> QED
    BY <2>1
<1>6. PICK p3 \in S2 : \A q \in S2 : FirstSeen(d, p3) <= FirstSeen(d, q)
  <2>1. T \subseteq Nat /\ T # {}
    BY <1>5
  <2>2. PICK x \in T : \A y \in T : x <= y
    BY <2>1, LeastNat
  <2> QED
    BY <2>2
<1>7. ASSUME NEW q \in S, Before(d, q, p3)
      PROVE  FALSE
  <2>1. /\ Seen(d, q) \in Nat /\ Seen(d, p3) \in Nat /\ Seen(d, p3) = Seen(d, p1)
        /\ Succeeded(d, q) \in Nat /\ Succeeded(d, p3) \in Nat
        /\ Succeeded(d, p3) = Succeeded(d, p2)
        /\ FirstSeen(d, q) \in Nat /\ FirstSeen(d, p3) \in Nat
    BY <1>1, <1>2, <1>5
  <2>2. Seen(d, q) <= Seen(d, p3)
    BY <1>3, <2>1
  <2>3. Seen(d, q) = Seen(d, p3)
    BY <1>7, <2>1, <2>2 DEF Before
  <2>4. Succeeded(d, q) <= Succeeded(d, p3)
    BY <1>4, <2>1, <2>3
  <2>5. Succeeded(d, q) = Succeeded(d, p3)
    BY <1>7, <2>1, <2>3, <2>4 DEF Before
  <2>6. FirstSeen(d, p3) <= FirstSeen(d, q)
    BY <1>6, <2>1, <2>3, <2>5
  <2> QED
    BY <1>7, <2>1, <2>3, <2>5, <2>6 DEF Before
<1> QED
  BY <1>7

LEMMA DominantIs ==
  ASSUME TypeInv, NEW d \in Devices
  PROVE  /\ Dominant(d).percent \in Int
         /\ history[d] # <<>> =>
              LET top == Dominant(d).protocol
              IN /\ top \in Observable
                 /\ Dominant(d).percent = (100 * Seen(d, top)) \div Len(history[d])
                 /\ \A q \in Observable :
                      /\ Seen(d, q) <= Seen(d, top)
                      /\ Seen(d, q) = Seen(d, top) => Succeeded(d, q) <= Succeeded(d, top)
<1> DEFINE n == Len(history[d])
           seen == {o.protocol : o \in ToSet(history[d])}
<1>1. /\ n \in Nat /\ DOMAIN history[d] = 1..n /\ (n = 0 <=> history[d] = <<>>)
      /\ history[d] \in Seq(Observations)
  BY CountsAre DEF TypeInv
<1>2. seen = {history[d][i].protocol : i \in 1..n}
  BY <1>1 DEF ToSet
<1> HIDE DEF n, seen
<1>3. seen = {} <=> history[d] = <<>>
  <2>1. n = 0 <=> 1..n = {}
    BY <1>1
  <2>2. seen = {} <=> 1..n = {}
    BY <1>2
  <2> QED
    BY <1>1, <2>1, <2>2
<1>4. \A p : p \in seen <=> Of(d, p) # {}
  BY <1>1, <1>2 DEF Of
<1>5. seen \subseteq Observable
  <2>1. \A i \in 1..n : history[d][i] \in Observations
    BY <1>1
  <2> QED
    BY <1>2, <2>1 DEF Observations
<1>6. CASE history[d] = <<>>
  <2>1. Dominant(d) = [protocol |-> "none", percent |-> 0]
    BY <1>3, <1>6 DEF Dominant, seen
  <2> QED
    BY <1>6, <2>1
<1>7. CASE history[d] # <<>>
  <2> DEFINE top == CHOOSE p \in seen : \A q \in seen \ {p} : ~Before(d, q, p)
  <2>1. Dominant(d) = [protocol |-> top, percent |-> (100 * Seen(d, top)) \div n]
    BY <1>3, <1>7 DEF Dominant, n, seen
  <2>2. top \in seen /\ \A q \in seen \ {top} : ~Before(d, q, top)
    BY <1>3, <1>4, <1>7, FirstOfAll
  <2> HIDE DEF top
  <2>3. n > 0 /\ Seen(d, top) \in Nat
    BY <1>1, <1>7, CountsAre
  <2>4. (100 * Seen(d, top)) \div n \in Int
    BY <1>1, <2>3, Half
  <2>5. ASSUME NEW q \in Observable
        PROVE  /\ Seen(d, q) <= Seen(d, top)
               /\ Seen(d, q) = Seen(d, top) => Succeeded(d, q) <= Succeeded(d, top)
    <3>1. /\ Seen(d, q) \in Nat /\ Succeeded(d, q) \in Nat /\ Succeeded(d, q) <= Seen(d, q)
          /\ Succeeded(d, top) \in Nat
      BY CountsAre
    <3>2. CASE q = top
      BY <2>3, <3>1, <3>2
    <3>3. CASE q # top /\ q \in seen
      BY <2>2, <2>3, <3>1, <3>3 DEF Before
    <3>4. CASE q \notin seen
      <4>1. Of(d, q) = {}
        BY <1>4, <3>4
      <4>2. Seen(d, q) = 0
        BY <4>1, FS_EmptySet DEF Seen
      <4> QED
        BY <2>3, <3>1, <4>2
    <3> QED
      BY <3>2, <3>3, <3>4
  <2> QED
    BY <1>5, <1>7, <2>1, <2>2, <2>4, <2>5 DEF n
<1> QED
  BY <1>6, <1>7

LEMMA Bounds ==
  ASSUME NEW a \in Int, NEW b \in Int, NEW c \in Int
  PROVE  /\ Max({a, b, c}) \in {a, b, c}
         /\ Max({a, b, c}) >= a /\ Max({a, b, c}) >= b /\ Max({a, b, c}) >= c
         /\ Min({a, b}) \in {a, b} /\ Min({a, b}) <= a /\ Min({a, b}) <= b
<1>1. \E x \in {a, b, c} : \A y \in {a, b, c} : x >= y
  OBVIOUS
<1>2. \E x \in {a, b} : \A y \in {a, b} : x <= y
  OBVIOUS
<1> QED
  BY <1>1, <1>2 DEF Max, Min

\* The confidence: the surest of three numbers, and no more than 99.
LEMMA Surest ==
  ASSUME NEW least \in Int, NEW g \in Int, NEW k \in Int
  PROVE  /\ Max({least, g, k}) \in Int
         /\ Max({least, g, k}) >= least /\ Max({least, g, k}) >= g /\ Max({least, g, k}) >= k
         /\ Max({least, g, k}) = least \/ Max({least, g, k}) = g \/ Max({least, g, k}) = k
<1>1. Max({least, g, k}) \in {least, g, k}
  BY Bounds
<1>2. /\ Max({least, g, k}) >= least /\ Max({least, g, k}) >= g /\ Max({least, g, k}) >= k
  BY Bounds
<1> QED
  BY <1>1, <1>2

LEMMA Capped ==
  ASSUME NEW m \in Int
  PROVE  /\ Min({99, m}) <= 99 /\ Min({99, m}) <= m
         /\ Min({99, m}) = 99 \/ Min({99, m}) = m
<1>1. 99 \in Int
  OBVIOUS
<1>2. Min({99, m}) \in {99, m} /\ Min({99, m}) <= 99 /\ Min({99, m}) <= m
  BY <1>1, Bounds
<1> QED
  BY <1>2

LEMMA Guessed ==
  ASSUME NEW percent \in Int, NEW none \in BOOLEAN, NEW many \in BOOLEAN, NEW g,
         g = IF percent >= 50 THEN percent ELSE IF none THEN 0 ELSE IF many THEN 55 ELSE 70
  PROVE  /\ g \in Int
         /\ percent >= 50 => g = percent
         /\ percent < 50 => g = 0 \/ g = 55 \/ g = 70
OBVIOUS

\* What resolve says, with the header and without.
LEMMA ResolveIs ==
  ASSUME TypeInv, NEW d \in Devices
  PROVE  LET percent == Dominant(d).percent
             r == Resolve(d, "none")
         IN /\ percent >= 50 => r.parser = Dominant(d).protocol
            /\ percent >= 50 => r.confidence >= 50
            /\ \A hint \in {"classic", "long"} :
                 /\ Resolve(d, hint).parser = ParserOf(Variants[hint])
                 /\ Resolve(d, hint).confidence >= r.confidence
<1>1. PICK percent \in Int : percent = Dominant(d).percent
  BY DominantIs
<1> DEFINE tac      == TacOf[d]
           listed   == tac \in DOMAIN TacRecords
           mine     == SelectSeq(profiles, LAMBDA p : tac \in p.tacs)
           distinct == Distinct(FlattenSeq([i \in DOMAIN mine |-> mine[i].protocols]))
           family   == [i \in DOMAIN distinct |-> distinct[i].of]
           least    == IF mine # <<>> \/ listed THEN 40 ELSE 0
           many     == listed /\ TacRecords[tac] > 1
           advised(hint) == (IF hint # "none" /\ "gt06" \notin ToSet(family)
                             THEN <<Variants[hint]>> ELSE <<>>) \o family
           guess(hint) == IF percent >= 50 THEN percent
                          ELSE IF advised(hint) = <<>> THEN 0 ELSE IF many THEN 55 ELSE 70
           sure(hint) == Max({least, guess(hint), IF hint = "none" THEN 0 ELSE 85})
<1>2. \A hint : Resolve(d, hint).confidence = Min({99, sure(hint)})
  BY <1>1 DEF Resolve
<1>3. /\ Resolve(d, "classic").parser = "gt06" /\ Resolve(d, "long").parser = "gt06_v2"
      /\ percent >= 50 => Resolve(d, "none").parser = Dominant(d).protocol
  BY <1>1 DEF Resolve
<1> HIDE DEF advised, many, least
<1>4. least = 0 \/ least = 40
  BY DEF least
<1>5. ASSUME NEW hint
      PROVE  /\ guess(hint) \in Int
             /\ percent >= 50 => guess(hint) = percent
             /\ percent < 50 => guess(hint) = 0 \/ guess(hint) = 55 \/ guess(hint) = 70
  <2>1. PICK none \in BOOLEAN : none <=> advised(hint) = <<>>
    OBVIOUS
  <2>2. PICK often \in BOOLEAN : often <=> many
    OBVIOUS
  <2>3. guess(hint) = IF percent >= 50 THEN percent
                      ELSE IF none THEN 0 ELSE IF often THEN 55 ELSE 70
    BY <2>1, <2>2
  <2> HIDE DEF guess
  <2> QED
    BY <2>3, Guessed
<1> HIDE DEF guess
<1>6. ASSUME NEW hint, NEW k \in Int, k = IF hint = "none" THEN 0 ELSE 85
      PROVE  LET r == Resolve(d, hint).confidence
                 m == sure(hint)
             IN /\ m \in Int /\ m >= least /\ m >= guess(hint) /\ m >= k
                /\ m = least \/ m = guess(hint) \/ m = k
                /\ r <= 99 /\ r <= m
                /\ r = 99 \/ r = m
  <2>1. PICK g \in Int : g = guess(hint)
    BY <1>5
  <2>2. PICK l \in Int : l = least
    BY <1>4
  <2>3. PICK m : m = sure(hint)
    OBVIOUS
  <2>4. m = Max({l, g, k})
    BY <1>6, <2>1, <2>2, <2>3
  <2>5. PICK r : r = Resolve(d, hint).confidence
    OBVIOUS
  <2> HIDE DEF sure
  <2>6. r = Min({99, m})
    BY <1>2, <2>3, <2>5
  <2>7. /\ m \in Int /\ m >= l /\ m >= g /\ m >= k
        /\ m = l \/ m = g \/ m = k
    BY <2>4, Surest
  <2>8. /\ r <= 99 /\ r <= m
        /\ r = 99 \/ r = m
    BY <2>6, <2>7, Capped
  <2> QED
    BY <2>1, <2>2, <2>3, <2>5, <2>7, <2>8
<1> HIDE DEF sure
<1>7. LET r == Resolve(d, "none").confidence
          m == sure("none")
      IN /\ m \in Int /\ m >= least /\ m >= guess("none") /\ m >= 0
         /\ m = least \/ m = guess("none") \/ m = 0
         /\ r <= 99 /\ r <= m
         /\ r = 99 \/ r = m
  BY <1>6
<1>9. percent >= 50 => Resolve(d, "none").confidence >= 50
  BY <1>5, <1>7
<1>10. ASSUME NEW hint \in {"classic", "long"}
       PROVE  Resolve(d, hint).confidence >= Resolve(d, "none").confidence
  <2>1. LET r == Resolve(d, hint).confidence
            m == sure(hint)
        IN /\ m \in Int /\ m >= least /\ m >= guess(hint) /\ m >= 85
           /\ r = 99 \/ r = m
    BY <1>6
  <2>2. sure(hint) >= sure("none")
    <3>1. CASE percent >= 50
      <4>1. guess(hint) = guess("none")
        BY <1>5, <3>1
      <4> QED
        BY <1>4, <1>5, <1>7, <2>1, <4>1
    <3>2. CASE percent < 50
      <4>1. guess("none") = 0 \/ guess("none") = 55 \/ guess("none") = 70
        BY <1>5, <3>2
      <4> QED
        BY <1>4, <1>7, <2>1, <4>1
    <3> QED
      BY <3>1, <3>2
  <2> QED
    BY <1>7, <2>1, <2>2
<1>11. \A hint \in {"classic", "long"} : Resolve(d, hint).parser = ParserOf(Variants[hint])
  BY <1>3 DEF ParserOf, Variants
<1> QED
  BY <1>1, <1>3, <1>9, <1>10, <1>11

LEMMA MajorityHolds ==
  ASSUME TypeInv
  PROVE  MajorityIsRecommended
<1> SUFFICES ASSUME NEW d \in Devices
             PROVE
    LET majority == {p \in Observable : 2 * Seen(d, p) >= Len(history[d])
                                          /\ history[d] # <<>>}
        r == Resolve(d, "none")
    IN /\ majority # {} =>
         /\ r.parser \in majority
         /\ \A p \in majority : Succeeded(d, p) <= Succeeded(d, r.parser)
         /\ r.confidence >= 50
       /\ \A hint \in DOMAIN Variants :
            Resolve(d, hint).parser = ParserOf(Variants[hint])
              /\ Resolve(d, hint).confidence >= r.confidence
  BY DEF MajorityIsRecommended
<1> DEFINE n == Len(history[d])
           top == Dominant(d).protocol
           majority == {p \in Observable : 2 * Seen(d, p) >= n /\ history[d] # <<>>}
<1>1. n \in Nat /\ (history[d] # <<>> => n > 0)
  BY CountsAre DEF TypeInv
<1> HIDE DEF n, top
<1>2. ASSUME NEW m \in majority
      PROVE  /\ Resolve(d, "none").parser \in majority /\ Resolve(d, "none").confidence >= 50
             /\ Succeeded(d, m) <= Succeeded(d, Resolve(d, "none").parser)
  <2>1. /\ top \in Observable /\ Seen(d, m) <= Seen(d, top)
        /\ Seen(d, m) = Seen(d, top) => Succeeded(d, m) <= Succeeded(d, top)
        /\ Dominant(d).percent = (100 * Seen(d, top)) \div n
    BY DominantIs DEF top, n
  <2>2. Seen(d, m) \in Nat /\ Seen(d, top) \in Nat /\ n > 0
    BY <1>1, CountsAre
  <2>3. 2 * Seen(d, top) >= n
    BY <1>1, <2>1, <2>2
  <2>4. Dominant(d).percent >= 50
    BY <1>1, <2>1, <2>2, <2>3, Half
  <2>5. Resolve(d, "none").parser = top /\ Resolve(d, "none").confidence >= 50
    BY <2>4, ResolveIs DEF top
  <2>6. Seen(d, m) = Seen(d, top)
    <3>1. CASE m = top
      BY <3>1
    <3>2. CASE m # top
      <4>1. Seen(d, m) + Seen(d, top) <= n
        BY <3>2, CountsAddUp DEF n
      <4> QED
        BY <1>1, <2>1, <2>2, <4>1
    <3> QED
      BY <3>1, <3>2
  <2> QED
    BY <2>1, <2>3, <2>5, <2>6
<1>3. DOMAIN Variants = {"classic", "long"}
  BY DEF Variants
<1>4. \A hint \in DOMAIN Variants :
        Resolve(d, hint).parser = ParserOf(Variants[hint])
          /\ Resolve(d, hint).confidence >= Resolve(d, "none").confidence
  BY <1>3, ResolveIs
<1> QED
  BY <1>2, <1>4 DEF n
-----------------------------------------------------------------------------
(* A snapshot is no older than the version it is named for, and has each     *)
(* profile its versions tell of, or a later one: although it takes no lock.  *)
THEOREM SnapshotsHold ==
  ASSUME KnowledgeAssumption
  PROVE  Spec => []SnapshotHasItsVersions
<1>1. Init => SnapshotInv
  BY SnapshotStarts
<1>2. SnapshotInv /\ [Next]_vars => SnapshotInv'
  BY SnapshotKeeps
<1>3. SnapshotInv => SnapshotHasItsVersions
  BY DEF SnapshotInv
<1> QED
  BY <1>1, <1>2, <1>3, PTL DEF Spec

(* The protocol of at least half of a device's observations is recommended   *)
(* over that of its family, the one that failed less often of two halves; a  *)
(* header of GT06 overrules both, and no header makes resolve less sure.     *)
THEOREM MajoritiesAreRecommended ==
  ASSUME KnowledgeAssumption
  PROVE  Spec => []MajorityIsRecommended
<1>1. Init => SnapshotInv
  BY SnapshotStarts
<1>2. SnapshotInv /\ [Next]_vars => SnapshotInv'
  BY SnapshotKeeps
<1>3. SnapshotInv => MajorityIsRecommended
  BY MajorityHolds DEF SnapshotInv
<1> QED
  BY <1>1, <1>2, <1>3, PTL DEF Spec

(* Both at once: the conjunction the run of the parts checks.                *)
THEOREM KnowledgeStaysSound ==
  ASSUME KnowledgeAssumption
  PROVE  Spec => []KnowledgeIsSound
<1>1. SnapshotHasItsVersions /\ MajorityIsRecommended => KnowledgeIsSound
  BY DEF KnowledgeIsSound
<1> QED
  BY <1>1, SnapshotsHold, MajoritiesAreRecommended, PTL

-----------------------------------------------------------------------------
(* The captures.                                                             *)
Places == {"free", "detect", "learn", "append", "gone"}
Names == {"CONNECT", "RX", "TIMEOUT", "EXCEPTION", "CLOSE"}
Reasons == {"none"} \cup (Captures!Ends \ {"cancelled"})
Told == [event : Names, data : Seq(Captures!Pieces), reason : Reasons]
Line == [of : Conns, events : Seq(Told), whole : BOOLEAN, ended : BOOLEAN]

CaptureTypes ==
  /\ pc \in [Conns -> Places] /\ got \in [Conns -> Seq(Captures!Pieces)]
  /\ reason \in [Conns -> Reasons] /\ events \in [Conns -> Seq(Told)]
  /\ cancelled \in SUBSET Conns /\ stored \in SUBSET Conns
  /\ file \in Seq(Line) /\ closed \in Seq(Conns \X (Reasons \cup {"server_closed"}))

\* What the recorder holds while the connection learns, of the bytes g.
Learning(e, g) ==
  /\ Len(e) >= 2 /\ Len(e) = Len(g) - Len(e[2].data) + 2
  /\ e[1].event = "CONNECT" /\ e[1].data = <<>>
  /\ \A k \in 2..Len(e) : e[k].event = "RX"
  /\ \A k \in 1..Len(e[2].data) : e[2].data[k] = g[k]
  /\ \A k \in 3..Len(e) : e[k].data = <<g[Len(e[2].data) + k - 2]>>

\* What CaptureIsComplete says of the events e of a connection that read g.
Whole(e, g) ==
  LET first == Len(e[2].data)
      last  == Len(g) - first + 2
      why   == e[Len(e)].reason
  IN /\ e[1].event = "CONNECT" /\ e[1].data = <<>>
     /\ Captures!Events(e, "RX") = 2..last
     /\ \A k \in 1..first : e[2].data[k] = g[k]
     /\ \A k \in 3..last : e[k].data = <<g[first + k - 2]>>
     /\ Captures!Events(e, "CLOSE") = {Len(e)}
     /\ Captures!Events(e, "TIMEOUT") = IF why = "timeout" THEN {Len(e) - 1} ELSE {}
     /\ Captures!Events(e, "EXCEPTION") =
          IF why \in {"socket_error", "exception"} THEN {Len(e) - 1} ELSE {}

\* How far each connection is, and what was recorded of it.
ConnInv ==
  \A c \in Conns :
    /\ pc[c] \in {"free", "detect"} => events[c] = <<>>
    /\ pc[c] \in {"free", "detect", "learn"} => reason[c] = "none" /\ c \notin cancelled
    /\ pc[c] = "learn" => Learning(events[c], got[c])
    /\ pc[c] = "append" =>
         /\ events[c] # <<>> /\ Whole(events[c], got[c])
         /\ events[c][Len(events[c])].reason = Captures!Recorded(reason[c])
         /\ c \in cancelled <=> reason[c] = "none"

\* A line of the file is of a connection that is gone, each of another one.
FileInv ==
  /\ \A i \in DOMAIN file :
       /\ pc[file[i].of] = "gone" /\ Whole(file[i].events, got[file[i].of])
       /\ file[i].of \in stored => file[i].whole /\ file[i].ended
       /\ \A j \in DOMAIN file : file[j].of = file[i].of => j = i
  /\ \A c \in stored : \E i \in DOMAIN file : file[i].of = c

\* What ReasonsAgree says of a connection closed for why.
Agree(c, why) ==
  events[c] # <<>> =>
    IF c \in cancelled
    THEN events[c][Len(events[c])].reason = "client_closed" /\ why = "server_closed"
    ELSE events[c][Len(events[c])].reason = why

ClosedInv ==
  \A i \in DOMAIN closed :
    /\ pc[closed[i][1]] = "gone" /\ Agree(closed[i][1], closed[i][2])
    /\ \A j \in DOMAIN closed : closed[j][1] = closed[i][1] => j = i

CaptureInv == CaptureTypes /\ ConnInv /\ FileInv /\ ClosedInv

-----------------------------------------------------------------------------
(* Sequences.                                                                *)
LEMMA Appended ==
  ASSUME NEW S, NEW s \in Seq(S), NEW x \in S
  PROVE  /\ Append(s, x) \in Seq(S) /\ Len(Append(s, x)) = Len(s) + 1
         /\ DOMAIN Append(s, x) = 1..(Len(s) + 1) /\ DOMAIN s = 1..Len(s) /\ Len(s) \in Nat
         /\ \A i \in 1..Len(s) : Append(s, x)[i] = s[i]
         /\ Append(s, x)[Len(s) + 1] = x
OBVIOUS

LEMMA Joined ==
  ASSUME NEW S, NEW s \in Seq(S), NEW t \in Seq(S)
  PROVE  /\ s \o t \in Seq(S) /\ Len(s \o t) = Len(s) + Len(t)
         /\ Len(s) \in Nat /\ Len(t) \in Nat
         /\ \A i \in 1..Len(s) : (s \o t)[i] = s[i]
         /\ \A i \in 1..Len(t) : (s \o t)[Len(s) + i] = t[i]
OBVIOUS

LEMMA Vocabulary ==
  /\ "CONNECT" \in Names /\ "RX" \in Names /\ "TIMEOUT" \in Names
  /\ "EXCEPTION" \in Names /\ "CLOSE" \in Names
  /\ "none" \in Reasons /\ <<>> \in Seq(Captures!Pieces)
BY DEF Names, Reasons

LEMMA OneByte ==
  ASSUME NEW p \in Captures!Pieces
  PROVE  <<p>> \in Seq(Captures!Pieces) /\ Len(<<p>>) = 1 /\ <<p>>[1] = p
OBVIOUS

\* What is told of the pieces read so far.
LEMMA StartsLearning ==
  ASSUME NEW g \in Seq(Captures!Pieces)
  PROVE  Captures!Started(g) \in Seq(Told) /\ Learning(Captures!Started(g), g)
<1>1. PICK a : a = Captures!Event("CONNECT", <<>>, "none")
  OBVIOUS
<1>2. PICK b : b = Captures!Rx(g)
  OBVIOUS
<1>3. a \in Told /\ a.event = "CONNECT" /\ a.data = <<>>
  <2>1. "CONNECT" \in Names /\ "none" \in Reasons /\ <<>> \in Seq(Captures!Pieces)
    BY Vocabulary
  <2> QED
    BY <1>1, <2>1 DEF Captures!Event, Told
<1>4. b \in Told /\ b.event = "RX" /\ b.data = g
  BY <1>2, Vocabulary DEF Captures!Rx, Captures!Event, Told
<1>5. Captures!Started(g) = <<a, b>>
  BY <1>1, <1>2 DEF Captures!Started
<1>6. PICK e : e = <<a, b>>
  OBVIOUS
<1>7. e \in Seq(Told)
  BY <1>3, <1>4, <1>6
<1>8. Len(e) = 2 /\ e[1] = a /\ e[2] = b /\ Len(g) \in Nat
  BY <1>6
<1>9. \A k \in 2..2 : e[k].event = "RX"
  BY <1>4, <1>8
<1>10. Learning(e, g)
  BY <1>3, <1>4, <1>8, <1>9 DEF Learning
<1> QED
  BY <1>5, <1>6, <1>7, <1>10

LEMMA KeepsLearning ==
  ASSUME NEW e \in Seq(Told), NEW g \in Seq(Captures!Pieces), NEW p \in Captures!Pieces,
         Learning(e, g)
  PROVE  /\ Append(e, Captures!Rx(<<p>>)) \in Seq(Told)
         /\ Learning(Append(e, Captures!Rx(<<p>>)), Append(g, p))
<1>1. PICK x : x = Captures!Rx(<<p>>)
  OBVIOUS
<1>2. x \in Told /\ x.event = "RX" /\ x.data = <<p>>
  <2>1. PICK data \in Seq(Captures!Pieces) : data = <<p>>
    BY OneByte
  <2>2. "RX" \in Names /\ "none" \in Reasons
    BY Vocabulary
  <2>3. x = Captures!Event("RX", data, "none")
    BY <1>1, <2>1 DEF Captures!Rx
  <2> QED
    BY <2>1, <2>2, <2>3 DEF Captures!Event, Told
<1>3. PICK f : f = Append(e, x)
  OBVIOUS
<1>4. PICK h : h = Append(g, p)
  OBVIOUS
<1>5. /\ f \in Seq(Told) /\ Len(f) = Len(e) + 1 /\ Len(e) \in Nat
      /\ \A i \in 1..Len(e) : f[i] = e[i]
      /\ f[Len(e) + 1] = x
  BY <1>2, <1>3, Appended
<1>6. /\ Len(h) = Len(g) + 1 /\ Len(g) \in Nat
      /\ \A i \in 1..Len(g) : h[i] = g[i]
      /\ h[Len(g) + 1] = p
  BY <1>4, Appended
<1>7. /\ Len(e) >= 2 /\ Len(e) = Len(g) - Len(e[2].data) + 2
      /\ e[1].event = "CONNECT" /\ e[1].data = <<>>
      /\ \A k \in 2..Len(e) : e[k].event = "RX"
      /\ \A k \in 1..Len(e[2].data) : e[2].data[k] = g[k]
      /\ \A k \in 3..Len(e) : e[k].data = <<g[Len(e[2].data) + k - 2]>>
  BY DEF Learning
<1>8. PICK first \in Nat : first = Len(e[2].data)
  <2>1. e[2] \in Told
    BY <1>7
  <2> QED
    BY <2>1 DEF Told
<1>9. f[1] = e[1] /\ f[2] = e[2]
  BY <1>5, <1>7
<1>10. ASSUME NEW k \in 2..Len(f)
       PROVE  f[k].event = "RX"
  <2>1. CASE k <= Len(e)
    <3>1. k \in 1..Len(e) /\ k \in 2..Len(e)
      BY <1>5, <2>1
    <3> QED
      BY <1>5, <1>7, <3>1
  <2>2. CASE k > Len(e)
    <3>1. k = Len(e) + 1
      BY <1>5, <2>2
    <3> QED
      BY <1>2, <1>5, <3>1
  <2> QED
    BY <1>5, <2>1, <2>2
<1>11. \A k \in 1..first : e[2].data[k] = h[k]
  BY <1>5, <1>6, <1>7, <1>8
<1>12. ASSUME NEW k \in 3..Len(f)
       PROVE  f[k].data = <<h[first + k - 2]>>
  <2>1. CASE k \in 3..Len(e)
    <3>1. f[k].data = <<g[first + k - 2]>>
      <4>1. k \in 1..Len(e)
        BY <1>5, <2>1
      <4>2. f[k] = e[k]
        BY <1>5, <4>1
      <4>3. e[k].data = <<g[Len(e[2].data) + k - 2]>>
        BY <1>7, <2>1
      <4> QED
        BY <1>8, <4>2, <4>3
    <3>2. first + k - 2 \in 1..Len(g)
      BY <1>5, <1>6, <1>7, <1>8, <2>1
    <3> QED
      BY <1>6, <3>1, <3>2
  <2>2. CASE k = Len(e) + 1
    <3>1. first + k - 2 = Len(g) + 1
      BY <1>5, <1>6, <1>7, <1>8, <2>2
    <3> QED
      BY <1>2, <1>5, <1>6, <2>2, <3>1
  <2> QED
    BY <1>5, <2>1, <2>2
<1>13. Len(f) = Len(h) - first + 2
  BY <1>5, <1>6, <1>7, <1>8
<1>14. Learning(f, h)
  BY <1>5, <1>7, <1>8, <1>9, <1>10, <1>11, <1>12, <1>13 DEF Learning
<1> QED
  BY <1>1, <1>3, <1>4, <1>5, <1>14

\* What finish makes of it, for each way to end.
LEMMA EndsWhole ==
  ASSUME NEW e \in Seq(Told), NEW g \in Seq(Captures!Pieces), Learning(e, g),
         NEW why \in Captures!Ends, NEW r \in Reasons,
         why # "cancelled" => r = why, why = "cancelled" => r = "client_closed"
  PROVE  LET f == Captures!Finished(e \o Captures!Exceptional(why), r)
         IN /\ f \in Seq(Told) /\ f # <<>> /\ Whole(f, g) /\ f[Len(f)].reason = r
<1>1. PICK x : x = Captures!Exceptional(why)
  OBVIOUS
<1>2. PICK z : z = Captures!Event("CLOSE", <<>>, r)
  OBVIOUS
<1>3. PICK m : m = e \o x
  OBVIOUS
<1>4. PICK f : f = Append(m, z)
  OBVIOUS
<1>5. Captures!Finished(e \o Captures!Exceptional(why), r) = f
  BY <1>1, <1>2, <1>3, <1>4 DEF Captures!Finished
<1>6. z \in Told /\ z.event = "CLOSE" /\ z.reason = r
  <2>1. "CLOSE" \in Names /\ <<>> \in Seq(Captures!Pieces)
    BY Vocabulary
  <2> QED
    BY <1>2, <2>1 DEF Captures!Event, Told
<1>7. /\ x \in Seq(Told)
      /\ why = "timeout" => Len(x) = 1 /\ x[1].event = "TIMEOUT"
      /\ why \in {"socket_error", "exception"} => Len(x) = 1 /\ x[1].event = "EXCEPTION"
      /\ why \notin {"timeout", "socket_error", "exception"} => Len(x) = 0
  <2>1. PICK a : a = Captures!Event("TIMEOUT", <<>>, "none")
    OBVIOUS
  <2>2. PICK b : b = Captures!Event("EXCEPTION", <<>>, "none")
    OBVIOUS
  <2>3. a \in Told /\ b \in Told /\ a.event = "TIMEOUT" /\ b.event = "EXCEPTION"
    <3>1. /\ "TIMEOUT" \in Names /\ "EXCEPTION" \in Names /\ <<>> \in Seq(Captures!Pieces)
          /\ "none" \in Reasons
      BY Vocabulary
    <3> QED
      BY <2>1, <2>2, <3>1 DEF Captures!Event, Told
  <2>4. CASE why = "timeout"
    <3>1. x = <<a>>
      BY <1>1, <2>1, <2>4 DEF Captures!Exceptional
    <3> QED
      BY <2>3, <2>4, <3>1
  <2>5. CASE why \in {"socket_error", "exception"}
    <3>1. x = <<b>>
      BY <1>1, <2>2, <2>5 DEF Captures!Exceptional
    <3> QED
      BY <2>3, <2>5, <3>1
  <2>6. CASE why \notin {"timeout", "socket_error", "exception"}
    <3>1. x = <<>>
      BY <1>1, <2>6 DEF Captures!Exceptional
    <3> QED
      BY <2>6, <3>1
  <2> QED
    BY <2>4, <2>5, <2>6
<1>8. /\ m \in Seq(Told) /\ Len(m) = Len(e) + Len(x) /\ Len(e) \in Nat /\ Len(x) \in Nat
      /\ \A i \in 1..Len(e) : m[i] = e[i]
      /\ \A i \in 1..Len(x) : m[Len(e) + i] = x[i]
  BY <1>3, <1>7, Joined
<1>9. /\ f \in Seq(Told) /\ Len(f) = Len(m) + 1 /\ DOMAIN f = 1..Len(f)
      /\ \A i \in 1..Len(m) : f[i] = m[i]
      /\ f[Len(m) + 1] = z
  <2>1. DOMAIN f = 1..(Len(m) + 1)
    BY <1>4, <1>6, <1>8, Appended
  <2> QED
    BY <1>4, <1>6, <1>8, <2>1, Appended
<1> HIDE DEF Captures!Exceptional
<1>10. \A i \in 1..Len(e) : f[i] = e[i]
  BY <1>8, <1>9
<1>11. Len(x) = 1 => f[Len(e) + 1] = x[1] /\ Len(f) = Len(e) + 2
  BY <1>8, <1>9
<1>12. Len(x) = 0 => Len(f) = Len(e) + 1
  BY <1>8, <1>9
<1>13. f[Len(f)] = z
  BY <1>9
<1>14. /\ Len(e) >= 2 /\ Len(e) = Len(g) - Len(e[2].data) + 2
       /\ e[1].event = "CONNECT" /\ e[1].data = <<>>
       /\ \A k \in 2..Len(e) : e[k].event = "RX"
       /\ \A k \in 1..Len(e[2].data) : e[2].data[k] = g[k]
       /\ \A k \in 3..Len(e) : e[k].data = <<g[Len(e[2].data) + k - 2]>>
  BY DEF Learning
<1>15. f[1] = e[1] /\ f[2] = e[2]
  BY <1>8, <1>10, <1>14
<1>16. /\ Len(x) = 0 \/ Len(x) = 1
       /\ \A i \in DOMAIN f : i \in 1..Len(e) \/ i = Len(f) \/ (Len(x) = 1 /\ i = Len(e) + 1)
  <2>1. Len(x) = 0 \/ Len(x) = 1
    BY <1>7
  <2> QED
    BY <1>8, <1>9, <1>11, <1>12, <2>1
<1>17. \A i \in 1..Len(e) : f[i].event = IF i = 1 THEN "CONNECT" ELSE "RX"
  <2>1. ASSUME NEW i \in 1..Len(e)
        PROVE  f[i].event = IF i = 1 THEN "CONNECT" ELSE "RX"
    <3>1. f[i] = e[i]
      BY <1>10
    <3>2. CASE i = 1
      BY <1>14, <3>1, <3>2
    <3>3. CASE i # 1
      <4>1. i \in 2..Len(e)
        BY <1>8, <3>3
      <4> QED
        BY <1>14, <3>1, <3>3, <4>1
    <3> QED
      BY <3>2, <3>3
  <2> QED
    BY <2>1
<1>18. Captures!Events(f, "RX") = 2..Len(e)
  <2>1. \A i \in DOMAIN f : f[i].event = "RX" <=> i \in 2..Len(e)
    BY <1>6, <1>7, <1>8, <1>11, <1>12, <1>13, <1>16, <1>17
  <2>2. 2..Len(e) \subseteq DOMAIN f
    BY <1>8, <1>9
  <2> QED
    BY <2>1, <2>2 DEF Captures!Events
<1>19. Captures!Events(f, "CLOSE") = {Len(f)}
  <2>1. \A i \in DOMAIN f : f[i].event = "CLOSE" <=> i = Len(f)
    BY <1>6, <1>7, <1>8, <1>11, <1>12, <1>13, <1>16, <1>17
  <2>2. Len(f) \in DOMAIN f
    BY <1>8, <1>9
  <2> QED
    BY <2>1, <2>2 DEF Captures!Events
<1>20. Captures!Events(f, "TIMEOUT") = IF r = "timeout" THEN {Len(f) - 1} ELSE {}
  <2>1. CASE why = "timeout"
    <3>1. \A i \in DOMAIN f : f[i].event = "TIMEOUT" <=> i = Len(f) - 1
      BY <1>6, <1>7, <1>8, <1>11, <1>13, <1>16, <1>17, <2>1
    <3>2. Len(f) - 1 \in DOMAIN f
      BY <1>7, <1>8, <1>9, <1>11, <2>1
    <3>3. Captures!Events(f, "TIMEOUT") = {Len(f) - 1}
      BY <3>1, <3>2 DEF Captures!Events
    <3> QED
      BY <2>1, <3>3
  <2>2. CASE why # "timeout"
    <3>1. \A i \in DOMAIN f : f[i].event # "TIMEOUT"
      BY <1>6, <1>7, <1>8, <1>11, <1>12, <1>13, <1>16, <1>17, <2>2
    <3>2. Captures!Events(f, "TIMEOUT") = {}
      BY <3>1 DEF Captures!Events
    <3> QED
      BY <2>2, <3>2
  <2> QED
    BY <2>1, <2>2
<1>21. Captures!Events(f, "EXCEPTION") =
         IF r \in {"socket_error", "exception"} THEN {Len(f) - 1} ELSE {}
  <2>1. CASE why \in {"socket_error", "exception"}
    <3>1. \A i \in DOMAIN f : f[i].event = "EXCEPTION" <=> i = Len(f) - 1
      BY <1>6, <1>7, <1>8, <1>11, <1>13, <1>16, <1>17, <2>1
    <3>2. Len(f) - 1 \in DOMAIN f
      BY <1>7, <1>8, <1>9, <1>11, <2>1
    <3>3. Captures!Events(f, "EXCEPTION") = {Len(f) - 1}
      BY <3>1, <3>2 DEF Captures!Events
    <3> QED
      BY <2>1, <3>3
  <2>2. CASE why \notin {"socket_error", "exception"}
    <3>1. \A i \in DOMAIN f : f[i].event # "EXCEPTION"
      BY <1>6, <1>7, <1>8, <1>11, <1>12, <1>13, <1>16, <1>17, <2>2
    <3>2. Captures!Events(f, "EXCEPTION") = {}
      BY <3>1 DEF Captures!Events
    <3> QED
      BY <2>2, <3>2
  <2> QED
    BY <2>1, <2>2
<1>22. \A k \in 3..Len(e) : f[k].data = <<g[Len(f[2].data) + k - 2]>>
  <2>1. \A k \in 3..Len(e) : k \in 1..Len(e)
    BY <1>8
  <2> QED
    BY <1>10, <1>14, <1>15, <2>1
<1>23. Len(g) - Len(f[2].data) + 2 = Len(e) /\ f[Len(f)].reason = r /\ f # <<>>
  <2>1. f # <<>>
    BY <1>8, <1>9
  <2> QED
    BY <1>6, <1>13, <1>14, <1>15, <2>1
<1>24. Whole(f, g)
  BY <1>14, <1>15, <1>18, <1>19, <1>20, <1>21, <1>22, <1>23 DEF Whole
<1> QED
  BY <1>5, <1>9, <1>23, <1>24

-----------------------------------------------------------------------------
(* The invariant holds initially, and every action keeps it.                 *)
LEMMA CaptureStarts ==
  ASSUME Captures!Init
  PROVE  CaptureInv
<1>1. CaptureTypes
  <2>1. /\ \A S : <<>> \in Seq(S)
        /\ "free" \in Places /\ "none" \in Reasons
    BY DEF Places, Reasons
  <2> QED
    BY <2>1 DEF Captures!Init, CaptureTypes
<1>2. ConnInv
  BY DEF Captures!Init, ConnInv
<1>3. FileInv
  BY DEF Captures!Init, FileInv
<1>4. ClosedInv
  BY DEF Captures!Init, ClosedInv
<1> QED
  BY <1>1, <1>2, <1>3, <1>4 DEF CaptureInv

\* The step is of the connection c alone.
Others(c) ==
  /\ \A d \in Conns \ {c} : /\ pc'[d] = pc[d] /\ got'[d] = got[d]
                            /\ reason'[d] = reason[d] /\ events'[d] = events[d]
                            /\ d \in cancelled' <=> d \in cancelled

LEMMA ConnKeeps ==
  ASSUME ConnInv, NEW c \in Conns, Others(c),
         pc'[c] \in {"free", "detect"} => events'[c] = <<>>,
         pc'[c] \in {"free", "detect", "learn"} => reason'[c] = "none" /\ c \notin cancelled',
         pc'[c] = "learn" => Learning(events'[c], got'[c]),
         pc'[c] = "append" =>
           /\ events'[c] # <<>> /\ Whole(events'[c], got'[c])
           /\ events'[c][Len(events'[c])].reason = Captures!Recorded(reason'[c])
           /\ c \in cancelled' <=> reason'[c] = "none"
  PROVE  ConnInv'
<1>1. ASSUME NEW d \in Conns
      PROVE
    /\ pc'[d] \in {"free", "detect"} => events'[d] = <<>>
    /\ pc'[d] \in {"free", "detect", "learn"} => reason'[d] = "none" /\ d \notin cancelled'
    /\ pc'[d] = "learn" => Learning(events'[d], got'[d])
    /\ pc'[d] = "append" =>
         /\ events'[d] # <<>> /\ Whole(events'[d], got'[d])
         /\ events'[d][Len(events'[d])].reason = Captures!Recorded(reason'[d])
         /\ d \in cancelled' <=> reason'[d] = "none"
  <2>1. CASE d = c
    BY <2>1
  <2>2. CASE d # c
    BY <2>2 DEF ConnInv, Others
  <2> QED
    BY <2>1, <2>2
<1> QED
  BY <1>1 DEF ConnInv

LEMMA Typed ==
  ASSUME CaptureTypes
  PROVE  /\ \A i \in DOMAIN file : file[i].of \in Conns
         /\ \A i \in DOMAIN closed : closed[i][1] \in Conns
<1>1. file \in Seq(Line)
  BY DEF CaptureTypes
<1>2. \A i \in DOMAIN file : file[i] \in Line
  BY <1>1
<1>3. \A line \in Line : line.of \in Conns
  BY DEF Line
<1>4. PICK S : S = Conns \X (Reasons \cup {"server_closed"})
  OBVIOUS
<1>5. closed \in Seq(S)
  BY <1>4 DEF CaptureTypes
<1>6. \A i \in DOMAIN closed : closed[i] \in S
  BY <1>5
<1>7. \A pair \in S : pair[1] \in Conns
  BY <1>4
<1> QED
  BY <1>2, <1>3, <1>6, <1>7

LEMMA FileKeeps ==
  ASSUME CaptureTypes, FileInv, NEW c \in Conns, pc[c] # "gone", Others(c),
         file' = file, stored' = stored
  PROVE  FileInv'
<1>1. \A i \in DOMAIN file : file[i].of \in Conns
  BY Typed
<1>2. ASSUME NEW i \in DOMAIN file
      PROVE  /\ pc'[file[i].of] = "gone" /\ Whole(file[i].events, got'[file[i].of])
  <2>1. file[i].of # c
    BY DEF FileInv
  <2> QED
    BY <1>1, <2>1 DEF FileInv, Others
<1> QED
  BY <1>2 DEF FileInv

LEMMA FileAdds ==
  ASSUME CaptureTypes, FileInv, NEW c \in Conns, pc[c] = "append", Whole(events[c], got[c]),
         \A d \in Conns : d = c \/ pc[d] = "gone" => pc'[d] = "gone",
         got' = got, NEW line \in Line, line.of = c, line.events = events[c],
         file' = Append(file, line),
         stored' = stored \/ (stored' = stored \cup {c} /\ line.whole /\ line.ended)
  PROVE  FileInv'
<1>1. /\ DOMAIN file' = 1..(Len(file) + 1) /\ DOMAIN file = 1..Len(file) /\ Len(file) \in Nat
      /\ \A i \in 1..Len(file) : file'[i] = file[i]
      /\ file'[Len(file) + 1] = line
  <2>1. file \in Seq(Line)
    BY DEF CaptureTypes
  <2> QED
    BY <2>1, Appended
<1>2. \A i \in 1..Len(file) : file[i].of \in Conns /\ file[i].of # c
  BY <1>1, Typed DEF FileInv
<1>3. c \notin stored
  BY <1>1, <1>2 DEF FileInv
<1>4. \A d : d # c => (d \in stored' <=> d \in stored)
  OBVIOUS
<1>5. ASSUME NEW i \in DOMAIN file'
      PROVE  /\ pc'[file'[i].of] = "gone" /\ Whole(file'[i].events, got'[file'[i].of])
             /\ file'[i].of \in stored' => file'[i].whole /\ file'[i].ended
             /\ \A j \in DOMAIN file' : file'[j].of = file'[i].of => j = i
  <2>1. \A j \in DOMAIN file' : j \in 1..Len(file) \/ j = Len(file) + 1
    BY <1>1
  <2>2. CASE i = Len(file) + 1
    <3>1. \A j \in DOMAIN file' : file'[j].of = file'[i].of => j = i
      BY <1>1, <1>2, <2>1, <2>2
    <3>2. c \in stored' => line.whole /\ line.ended
      BY <1>3
    <3> QED
      BY <1>1, <2>2, <3>1, <3>2
  <2>3. CASE i \in 1..Len(file)
    <3>1. file'[i] = file[i] /\ file[i].of # c /\ file[i].of \in Conns /\ i \in DOMAIN file
      BY <1>1, <1>2, <2>3
    <3>2. \A j \in DOMAIN file' : file'[j].of = file'[i].of => j = i
      BY <1>1, <2>1, <3>1 DEF FileInv
    <3>3. file[i].of \in stored' => file[i].of \in stored
      BY <1>4, <3>1
    <3> QED
      BY <3>1, <3>2, <3>3 DEF FileInv
  <2> QED
    BY <2>1, <2>2, <2>3
<1>6. ASSUME NEW d \in stored'
      PROVE  \E i \in DOMAIN file' : file'[i].of = d
  <2>1. CASE d = c
    BY <1>1, <2>1
  <2>2. CASE d # c
    <3>1. PICK i \in DOMAIN file : file[i].of = d
      BY <1>4, <2>2 DEF FileInv
    <3>2. i \in DOMAIN file' /\ file'[i] = file[i]
      BY <1>1
    <3> QED
      BY <3>1, <3>2
  <2> QED
    BY <2>1, <2>2
<1> QED
  BY <1>5, <1>6 DEF FileInv

LEMMA ClosedKeeps ==
  ASSUME CaptureTypes, ClosedInv, NEW c \in Conns, pc[c] # "gone", Others(c), closed' = closed
  PROVE  ClosedInv'
<1>1. \A i \in DOMAIN closed : closed[i][1] \in Conns
  BY Typed
<1>2. ASSUME NEW i \in DOMAIN closed
      PROVE  pc'[closed[i][1]] = "gone" /\ Agree(closed[i][1], closed[i][2])'
  <2>1. PICK d \in Conns : d = closed[i][1]
    BY <1>1
  <2>2. PICK why : why = closed[i][2]
    OBVIOUS
  <2>3. d # c /\ pc[d] = "gone" /\ Agree(d, why)
    BY <2>1, <2>2 DEF ClosedInv
  <2>4. pc'[d] = "gone" /\ events'[d] = events[d] /\ (d \in cancelled' <=> d \in cancelled)
    BY <2>3 DEF Others
  <2>5. Agree(d, why)'
    BY <2>3, <2>4 DEF Agree
  <2> QED
    BY <2>1, <2>2, <2>4, <2>5
<1> QED
  BY <1>2 DEF ClosedInv

LEMMA ClosedAdds ==
  ASSUME CaptureTypes, ClosedInv, NEW c \in Conns, pc[c] # "gone", Others(c),
         NEW why \in Reasons \cup {"server_closed"}, pc'[c] = "gone", Agree(c, why)',
         closed' = Append(closed, <<c, why>>)
  PROVE  ClosedInv'
<1>1. /\ DOMAIN closed' = 1..(Len(closed) + 1) /\ DOMAIN closed = 1..Len(closed)
      /\ Len(closed) \in Nat
      /\ \A i \in 1..Len(closed) : closed'[i] = closed[i]
      /\ closed'[Len(closed) + 1] = <<c, why>>
  <2>1. PICK S : S = Conns \X (Reasons \cup {"server_closed"})
    OBVIOUS
  <2>2. closed \in Seq(S) /\ <<c, why>> \in S
    BY <2>1 DEF CaptureTypes
  <2> QED
    BY <2>2, Appended
<1>2. \A i \in 1..Len(closed) : closed[i][1] \in Conns /\ closed[i][1] # c
  BY <1>1, Typed DEF ClosedInv
<1>3. \A j \in DOMAIN closed' : j \in 1..Len(closed) \/ j = Len(closed) + 1
  BY <1>1
<1>4. ASSUME NEW i \in DOMAIN closed'
      PROVE  /\ pc'[closed'[i][1]] = "gone" /\ Agree(closed[i][1], closed[i][2])'
             /\ \A j \in DOMAIN closed' : closed'[j][1] = closed'[i][1] => j = i
  <2>1. CASE i = Len(closed) + 1
    <3>1. closed'[i][1] = c /\ closed'[i][2] = why
      BY <1>1, <2>1
    <3>2. \A j \in DOMAIN closed' : closed'[j][1] = closed'[i][1] => j = i
      BY <1>1, <1>2, <1>3, <2>1, <3>1
    <3> QED
      BY <3>1, <3>2
  <2>2. CASE i \in 1..Len(closed)
    <3>1. PICK d \in Conns : d = closed[i][1]
      BY <1>2, <2>2
    <3>2. PICK r : r = closed[i][2]
      OBVIOUS
    <3>3. closed'[i][1] = d /\ closed'[i][2] = r /\ d # c /\ pc[d] = "gone" /\ Agree(d, r)
      BY <1>1, <1>2, <2>2, <3>1, <3>2 DEF ClosedInv
    <3>4. pc'[d] = "gone" /\ events'[d] = events[d] /\ (d \in cancelled' <=> d \in cancelled)
      BY <3>3 DEF Others
    <3>5. Agree(d, r)'
      BY <3>3, <3>4 DEF Agree
    <3>6. \A j \in DOMAIN closed' : closed'[j][1] = closed'[i][1] => j = i
      BY <1>1, <1>3, <2>2, <3>1, <3>3 DEF ClosedInv
    <3> QED
      BY <3>3, <3>4, <3>5, <3>6
  <2> QED
    BY <1>3, <2>1, <2>2
<1> QED
  BY <1>4 DEF ClosedInv

LEMMA Accepts ==
  ASSUME CaptureInv, NEW c \in Conns, Captures!Accept(c)
  PROVE  CaptureInv'
<1>0. CaptureTypes /\ ConnInv /\ FileInv /\ ClosedInv
  BY DEF CaptureInv
<1>1. /\ pc[c] = "free" /\ pc' = [pc EXCEPT ![c] = "detect"]
      /\ got' = got /\ reason' = reason /\ events' = events /\ cancelled' = cancelled
      /\ file' = file /\ stored' = stored /\ closed' = closed
  BY DEF Captures!Accept
<1>2. CaptureTypes'
  BY <1>0, <1>1 DEF CaptureTypes, Places
<1>3. Others(c) /\ pc'[c] = "detect"
  BY <1>0, <1>1 DEF CaptureTypes, Others
<1>4. events[c] = <<>> /\ reason[c] = "none" /\ c \notin cancelled
  BY <1>0, <1>1 DEF ConnInv
<1>5. ConnInv'
  BY <1>0, <1>1, <1>3, <1>4, ConnKeeps
<1>6. FileInv'
  BY <1>0, <1>1, <1>3, FileKeeps
<1>7. ClosedInv'
  BY <1>0, <1>1, <1>3, ClosedKeeps
<1> QED
  BY <1>2, <1>5, <1>6, <1>7 DEF CaptureInv

LEMMA Detects ==
  ASSUME CaptureInv, NEW c \in Conns, NEW piece \in Captures!Pieces, Captures!DetectRead(c, piece)
  PROVE  CaptureInv'
<1>0. CaptureTypes /\ ConnInv /\ FileInv /\ ClosedInv
  BY DEF CaptureInv
<1>1. PICK bytes : bytes = Append(got[c], piece)
  OBVIOUS
<1>2. PICK place : place = CASE Captures!Detected(bytes) = "none" -> "detect"
                             [] Captures!Detected(bytes) = "gt06" -> "gone"
                             [] OTHER                    -> "learn"
  OBVIOUS
<1>3. PICK recorded : recorded = IF Captures!Detected(bytes) = "unknown"
                                 THEN Captures!Started(bytes)
                                 ELSE events[c]
  OBVIOUS
<1>4. /\ pc[c] = "detect" /\ pc' = [pc EXCEPT ![c] = place]
      /\ got' = [got EXCEPT ![c] = bytes] /\ events' = [events EXCEPT ![c] = recorded]
      /\ reason' = reason /\ cancelled' = cancelled
      /\ file' = file /\ stored' = stored /\ closed' = closed
  BY <1>1, <1>2, <1>3 DEF Captures!DetectRead
<1>5. bytes \in Seq(Captures!Pieces)
  <2>1. got[c] \in Seq(Captures!Pieces)
    BY <1>0 DEF CaptureTypes
  <2> QED
    BY <1>1, <2>1, Appended
<1>6. Captures!Detected(bytes) \in {"none", "gt06", "unknown"}
  <2>1. CASE bytes = <<"byte">>
    BY <2>1 DEF Captures!Detected
  <2>2. CASE bytes # <<"byte">> /\ Head(bytes) = "marker"
    BY <2>2 DEF Captures!Detected
  <2>3. CASE bytes # <<"byte">> /\ Head(bytes) # "marker"
    BY <2>3 DEF Captures!Detected
  <2> QED
    BY <2>1, <2>2, <2>3
<1> HIDE DEF Captures!Detected
<1>7. /\ events[c] = <<>> /\ reason[c] = "none" /\ c \notin cancelled
      /\ events[c] \in Seq(Told)
  BY <1>0, <1>4 DEF ConnInv, CaptureTypes
<1>8. /\ recorded \in Seq(Told) /\ place \in {"detect", "gone", "learn"}
      /\ place = "detect" => recorded = <<>>
      /\ place = "learn" => Learning(recorded, bytes)
  <2>1. CASE Captures!Detected(bytes) = "none"
    BY <1>2, <1>3, <1>7, <2>1
  <2>2. CASE Captures!Detected(bytes) = "gt06"
    BY <1>2, <1>3, <1>7, <2>2
  <2>3. CASE Captures!Detected(bytes) = "unknown"
    <3>1. place = "learn" /\ recorded = Captures!Started(bytes)
      BY <1>2, <1>3, <2>3
    <3> QED
      BY <1>5, <3>1, StartsLearning
  <2> QED
    BY <1>6, <2>1, <2>2, <2>3
<1>9. CaptureTypes'
  BY <1>0, <1>4, <1>5, <1>8 DEF CaptureTypes, Places
<1>10. /\ Others(c) /\ pc'[c] = place /\ got'[c] = bytes /\ events'[c] = recorded
  BY <1>0, <1>4 DEF CaptureTypes, Others
<1>11. ConnInv'
  BY <1>0, <1>4, <1>7, <1>8, <1>10, ConnKeeps
<1>12. FileInv'
  BY <1>0, <1>4, <1>10, FileKeeps
<1>13. ClosedInv'
  BY <1>0, <1>4, <1>10, ClosedKeeps
<1> QED
  BY <1>9, <1>11, <1>12, <1>13 DEF CaptureInv

\* The first reason of a connection that has none.
LEMMA FirstIs ==
  ASSUME NEW c \in Conns, reason[c] = "none", NEW why
  PROVE  Captures!FirstReason(c, why) = why
BY DEF Captures!FirstReason

LEMMA DetectionEnds ==
  ASSUME CaptureInv, NEW c \in Conns, NEW why \in Captures!Ends, Captures!DetectEnd(c, why)
  PROVE  CaptureInv'
<1>0. CaptureTypes /\ ConnInv /\ FileInv /\ ClosedInv
  BY DEF CaptureInv
<1>1. PICK r : r = IF why \in {"timeout", "client_closed"} THEN Captures!FirstReason(c, why)
                   ELSE reason[c]
  OBVIOUS
<1>2. /\ pc[c] = "detect" /\ pc' = [pc EXCEPT ![c] = "gone"]
      /\ reason' = [reason EXCEPT ![c] = r]
      /\ cancelled' = IF why = "cancelled" THEN cancelled \cup {c} ELSE cancelled
      /\ closed' = Append(closed, <<c, Captures!Logged(reason'[c])>>)
      /\ got' = got /\ events' = events /\ file' = file /\ stored' = stored
  BY <1>1 DEF Captures!DetectEnd
<1>3. events[c] = <<>> /\ reason[c] = "none" /\ r \in Reasons
  <2>1. events[c] = <<>> /\ reason[c] = "none"
    BY <1>0, <1>2 DEF ConnInv
  <2>2. r = "timeout" \/ r = "client_closed" \/ r = "none"
    BY <1>1, <2>1, FirstIs
  <2> QED
    BY <2>1, <2>2 DEF Reasons, Captures!Ends
<1>4. PICK w : w = Captures!Logged(r)
  OBVIOUS
<1>5. w \in Reasons \cup {"server_closed"}
  BY <1>3, <1>4 DEF Captures!Logged
<1>6. /\ Others(c) /\ pc'[c] = "gone" /\ reason'[c] = r /\ events'[c] = <<>>
      /\ closed' = Append(closed, <<c, w>>)
  BY <1>0, <1>2, <1>3, <1>4 DEF CaptureTypes, Others
<1>7. CaptureTypes'
  <2>1. closed' \in Seq(Conns \X (Reasons \cup {"server_closed"}))
    <3>1. PICK S : S = Conns \X (Reasons \cup {"server_closed"})
      OBVIOUS
    <3>2. closed \in Seq(S) /\ <<c, w>> \in S
      BY <1>0, <1>5, <3>1 DEF CaptureTypes
    <3> QED
      BY <1>6, <3>1, <3>2, Appended
  <2>2. cancelled' \in SUBSET Conns
    BY <1>0, <1>2 DEF CaptureTypes
  <2> QED
    BY <1>0, <1>2, <1>3, <2>1, <2>2 DEF CaptureTypes, Places
<1>8. ConnInv'
  BY <1>0, <1>6, ConnKeeps
<1>9. FileInv'
  BY <1>0, <1>2, <1>6, FileKeeps
<1>10. Agree(c, w)'
  BY <1>6 DEF Agree
<1>11. ClosedInv'
  BY <1>0, <1>2, <1>5, <1>6, <1>10, ClosedAdds
<1> QED
  BY <1>7, <1>8, <1>9, <1>11 DEF CaptureInv

LEMMA Learns ==
  ASSUME CaptureInv, NEW c \in Conns, NEW piece \in Captures!Pieces, Captures!LearnRead(c, piece)
  PROVE  CaptureInv'
<1>0. CaptureTypes /\ ConnInv /\ FileInv /\ ClosedInv
  BY DEF CaptureInv
<1>1. PICK bytes : bytes = Append(got[c], piece)
  OBVIOUS
<1>2. PICK recorded : recorded = Append(events[c], Captures!Rx(<<piece>>))
  OBVIOUS
<1>3. /\ pc[c] = "learn" /\ pc' = pc
      /\ got' = [got EXCEPT ![c] = bytes] /\ events' = [events EXCEPT ![c] = recorded]
      /\ reason' = reason /\ cancelled' = cancelled
      /\ file' = file /\ stored' = stored /\ closed' = closed
  BY <1>1, <1>2 DEF Captures!LearnRead
<1>4. /\ events[c] \in Seq(Told) /\ got[c] \in Seq(Captures!Pieces) /\ Learning(events[c], got[c])
      /\ reason[c] = "none" /\ c \notin cancelled
  BY <1>0, <1>3 DEF ConnInv, CaptureTypes
<1>5. recorded \in Seq(Told) /\ Learning(recorded, bytes)
  BY <1>1, <1>2, <1>4, KeepsLearning
<1>6. bytes \in Seq(Captures!Pieces)
  BY <1>1, <1>4, Appended
<1>7. CaptureTypes'
  BY <1>0, <1>3, <1>5, <1>6 DEF CaptureTypes
<1>8. Others(c) /\ pc'[c] = "learn" /\ got'[c] = bytes /\ events'[c] = recorded
  BY <1>0, <1>3 DEF CaptureTypes, Others
<1>9. ConnInv'
  BY <1>0, <1>3, <1>4, <1>5, <1>8, ConnKeeps
<1>10. FileInv'
  BY <1>0, <1>3, <1>8, FileKeeps
<1>11. ClosedInv'
  BY <1>0, <1>3, <1>8, ClosedKeeps
<1> QED
  BY <1>7, <1>9, <1>10, <1>11 DEF CaptureInv

LEMMA LearningEnds ==
  ASSUME CaptureInv, NEW c \in Conns, NEW why \in Captures!Ends, Captures!LearnEnd(c, why)
  PROVE  CaptureInv'
<1>0. CaptureTypes /\ ConnInv /\ FileInv /\ ClosedInv
  BY DEF CaptureInv
<1>1. PICK r : r = IF why = "cancelled" THEN reason[c] ELSE Captures!FirstReason(c, why)
  OBVIOUS
<1>2. PICK told : told = Captures!Recorded(r)
  OBVIOUS
<1>3. PICK recorded : recorded = Captures!Finished(events[c] \o Captures!Exceptional(why), told)
  OBVIOUS
<1>4. /\ events[c] \in Seq(Told) /\ got[c] \in Seq(Captures!Pieces)
  BY <1>0 DEF CaptureTypes
<1>5. /\ pc[c] = "learn" /\ pc' = [pc EXCEPT ![c] = "append"]
      /\ reason' = [reason EXCEPT ![c] = r]
      /\ cancelled' = IF why = "cancelled" THEN cancelled \cup {c} ELSE cancelled
      /\ got' = got /\ file' = file /\ stored' = stored /\ closed' = closed
  BY <1>1 DEF Captures!LearnEnd
<1>6. reason'[c] = r
  BY <1>0, <1>5 DEF CaptureTypes
<1>7. events' = [events EXCEPT ![c] = recorded]
  BY <1>2, <1>3, <1>6 DEF Captures!LearnEnd
<1>8. reason[c] = "none" /\ c \notin cancelled /\ Learning(events[c], got[c])
  BY <1>0, <1>5 DEF ConnInv
<1>9. /\ why = "cancelled" => r = "none" /\ told = "client_closed"
      /\ why # "cancelled" => r = why /\ told = why
      /\ r \in Reasons /\ told \in Reasons
  <2>1. CASE why = "cancelled"
    <3>1. r = "none"
      BY <1>1, <1>8, <2>1
    <3>2. told = "client_closed"
      BY <1>2, <3>1 DEF Captures!Recorded
    <3> QED
      BY <2>1, <3>1, <3>2 DEF Reasons, Captures!Ends
  <2>2. CASE why # "cancelled"
    <3>1. r = why /\ why # "none"
      BY <1>1, <1>8, <2>2, FirstIs DEF Captures!Ends
    <3>2. told = why
      BY <1>2, <3>1 DEF Captures!Recorded
    <3> QED
      BY <2>2, <3>1, <3>2 DEF Reasons
  <2> QED
    BY <2>1, <2>2
<1>10. /\ recorded \in Seq(Told) /\ recorded # <<>> /\ Whole(recorded, got[c])
       /\ recorded[Len(recorded)].reason = told
  BY <1>3, <1>4, <1>8, <1>9, EndsWhole
<1>11. CaptureTypes'
  <2>1. cancelled' \in SUBSET Conns
    BY <1>0, <1>5 DEF CaptureTypes
  <2> QED
    BY <1>0, <1>5, <1>7, <1>9, <1>10, <2>1 DEF CaptureTypes, Places
<1>12. Others(c) /\ pc'[c] = "append" /\ got'[c] = got[c] /\ events'[c] = recorded
  BY <1>0, <1>5, <1>7 DEF CaptureTypes, Others
<1>13. c \in cancelled' <=> r = "none"
  <2>1. "none" \notin Captures!Ends
    BY DEF Captures!Ends
  <2> QED
    BY <1>5, <1>8, <1>9, <2>1
<1>14. ConnInv'
  BY <1>0, <1>2, <1>6, <1>10, <1>12, <1>13, ConnKeeps
<1>15. FileInv'
  BY <1>0, <1>5, <1>12, FileKeeps
<1>16. ClosedInv'
  BY <1>0, <1>5, <1>12, ClosedKeeps
<1> QED
  BY <1>11, <1>14, <1>15, <1>16 DEF CaptureInv

\* What an append or a crash in one leaves of the line.
LEMMA Writes ==
  ASSUME CaptureTypes, NEW c \in Conns, NEW left \in Captures!Left
  PROVE  \/ left = "nothing" /\ Captures!Written(c, left) = file
         \/ \E line \in Line : /\ line.of = c /\ line.events = events[c]
                               /\ Captures!Written(c, left) = Append(file, line)
                               /\ left = "all" => line.whole /\ line.ended
<1>1. CASE left = "nothing"
  BY <1>1 DEF Captures!Written
<1>2. CASE left # "nothing"
  <2>1. PICK w \in BOOLEAN : w <=> left # "part"
    OBVIOUS
  <2>2. PICK e \in BOOLEAN : e <=> left = "all"
    OBVIOUS
  <2>3. PICK line : line = [of |-> c, events |-> events[c], whole |-> w, ended |-> e]
    OBVIOUS
  <2>4. (left # "part") = w /\ Captures!EndsLine(left) = e
    BY <2>1, <2>2 DEF Captures!EndsLine
  <2>5. Captures!Written(c, left) = Append(file, line)
    BY <1>2, <2>3, <2>4 DEF Captures!Written
  <2>6. line \in Line /\ line.of = c /\ line.events = events[c]
    BY <2>3 DEF CaptureTypes, Line
  <2>7. left = "all" => line.whole /\ line.ended
    BY <2>1, <2>2, <2>3
  <2> QED
    BY <2>5, <2>6, <2>7
<1> QED
  BY <1>1, <1>2

LEMMA AppendEnds ==
  ASSUME CaptureInv, NEW c \in Conns, NEW left \in Captures!Left, Captures!EndAppend(c, left)
  PROVE  CaptureInv'
<1>0. CaptureTypes /\ ConnInv /\ FileInv /\ ClosedInv
  BY DEF CaptureInv
<1>1. PICK w : w = Captures!Logged(reason[c])
  OBVIOUS
<1>2. /\ pc[c] = "append" /\ pc' = [pc EXCEPT ![c] = "gone"]
      /\ file' = Captures!Written(c, left)
      /\ stored' = IF left = "all" THEN stored \cup {c} ELSE stored
      /\ closed' = Append(closed, <<c, w>>)
      /\ got' = got /\ reason' = reason /\ events' = events /\ cancelled' = cancelled
  BY <1>1 DEF Captures!EndAppend
<1>3. /\ events[c] # <<>> /\ Whole(events[c], got[c])
      /\ events[c][Len(events[c])].reason = Captures!Recorded(reason[c])
      /\ c \in cancelled <=> reason[c] = "none"
      /\ reason[c] \in Reasons
  BY <1>0, <1>2 DEF ConnInv, CaptureTypes
<1>4. w \in Reasons \cup {"server_closed"}
  BY <1>1, <1>3 DEF Captures!Logged
<1>5. Others(c) /\ pc'[c] = "gone" /\ \A d \in Conns : d = c \/ pc[d] = "gone" => pc'[d] = "gone"
  BY <1>0, <1>2 DEF CaptureTypes, Others
<1>6. Agree(c, w)'
  <2>1. CASE c \in cancelled
    <3>1. w = "server_closed" /\ Captures!Recorded(reason[c]) = "client_closed"
      BY <1>1, <1>3, <2>1 DEF Captures!Logged, Captures!Recorded
    <3> QED
      BY <1>2, <1>3, <2>1, <3>1 DEF Agree
  <2>2. CASE c \notin cancelled
    <3>1. w = reason[c] /\ Captures!Recorded(reason[c]) = reason[c]
      BY <1>1, <1>3, <2>2 DEF Captures!Logged, Captures!Recorded
    <3> QED
      BY <1>2, <1>3, <2>2, <3>1 DEF Agree
  <2> QED
    BY <2>1, <2>2
<1>7. FileInv' /\ file' \in Seq(Line)
  <2>1. CASE left = "nothing" /\ Captures!Written(c, left) = file
    <3>1. file' = file /\ stored' = stored
      BY <1>2, <2>1
    <3>2. FileInv'
      BY <1>0, <1>2, <1>5, <3>1, FileKeeps
    <3> QED
      BY <1>0, <3>1, <3>2 DEF CaptureTypes
  <2>2. CASE \E line \in Line : /\ line.of = c /\ line.events = events[c]
                                /\ Captures!Written(c, left) = Append(file, line)
                                /\ left = "all" => line.whole /\ line.ended
    <3>1. PICK line \in Line : /\ line.of = c /\ line.events = events[c]
                               /\ Captures!Written(c, left) = Append(file, line)
                               /\ left = "all" => line.whole /\ line.ended
      BY <2>2
    <3>2. stored' = stored \/ (stored' = stored \cup {c} /\ line.whole /\ line.ended)
      BY <1>2, <3>1
    <3>3. FileInv'
      BY <1>0, <1>2, <1>3, <1>5, <3>1, <3>2, FileAdds
    <3>4. file \in Seq(Line)
      BY <1>0 DEF CaptureTypes
    <3> QED
      BY <1>2, <3>1, <3>3, <3>4, Appended
  <2> QED
    BY <1>0, <2>1, <2>2, Writes
<1>8. CaptureTypes'
  <2>1. closed' \in Seq(Conns \X (Reasons \cup {"server_closed"}))
    <3>1. PICK S : S = Conns \X (Reasons \cup {"server_closed"})
      OBVIOUS
    <3>2. closed \in Seq(S) /\ <<c, w>> \in S
      BY <1>0, <1>4, <3>1 DEF CaptureTypes
    <3> QED
      BY <1>2, <3>1, <3>2, Appended
  <2>2. stored' \in SUBSET Conns
    BY <1>0, <1>2 DEF CaptureTypes
  <2> QED
    BY <1>0, <1>2, <1>7, <2>1, <2>2 DEF CaptureTypes, Places
<1>9. ConnInv'
  BY <1>0, <1>5, ConnKeeps
<1>10. ClosedInv'
  BY <1>0, <1>2, <1>4, <1>5, <1>6, ClosedAdds
<1> QED
  BY <1>7, <1>8, <1>9, <1>10 DEF CaptureInv

LEMMA Crashes ==
  ASSUME CaptureInv, NEW left \in Captures!Left, Captures!Crash(left)
  PROVE  CaptureInv'
<1>0. CaptureTypes /\ ConnInv /\ FileInv /\ ClosedInv
  BY DEF CaptureInv
<1>1. /\ pc' = [d \in Conns |-> IF pc[d] = "free" THEN "free" ELSE "gone"]
      /\ got' = got /\ reason' = reason /\ events' = events /\ cancelled' = cancelled
      /\ stored' = stored /\ closed' = closed
  BY DEF Captures!Crash
<1>2. /\ pc' \in [Conns -> Places]
      /\ \A d \in Conns : pc[d] # "free" => pc'[d] = "gone"
      /\ \A d \in Conns : (pc'[d] = "free" /\ pc[d] = "free") \/ pc'[d] = "gone"
  BY <1>1 DEF Places
<1>3. ConnInv'
  BY <1>0, <1>1, <1>2 DEF ConnInv
<1>4. ClosedInv'
  <2>1. \A d \in Conns : pc[d] = "gone" => pc'[d] = "gone"
    BY <1>2
  <2>2. ASSUME NEW i \in DOMAIN closed
        PROVE  pc'[closed[i][1]] = "gone"
    BY <1>0, <2>1, Typed DEF ClosedInv
  <2>3. \A c, why : Agree(c, why)' <=> Agree(c, why)
    BY <1>1 DEF Agree
  <2> QED
    BY <1>0, <1>1, <2>2, <2>3 DEF ClosedInv
<1>5. CASE file' = file
  <2>1. FileInv'
    <3>1. \A i \in DOMAIN file : pc'[file[i].of] = "gone"
      BY <1>0, <1>2, Typed DEF FileInv
    <3> QED
      BY <1>0, <1>1, <1>5, <3>1 DEF FileInv
  <2>2. CaptureTypes'
    BY <1>0, <1>1, <1>2, <1>5 DEF CaptureTypes
  <2> QED
    BY <1>3, <1>4, <2>1, <2>2 DEF CaptureInv
<1>6. CASE \E c \in Conns : pc[c] = "append" /\ file' = Captures!Written(c, left)
  <2>1. PICK c \in Conns : pc[c] = "append" /\ file' = Captures!Written(c, left)
    BY <1>6
  <2>2. CASE Captures!Written(c, left) = file
    BY <1>5, <2>1, <2>2
  <2>3. CASE \E line \in Line : /\ line.of = c /\ line.events = events[c]
                                /\ Captures!Written(c, left) = Append(file, line)
    <3>1. PICK line \in Line : /\ line.of = c /\ line.events = events[c]
                               /\ Captures!Written(c, left) = Append(file, line)
      BY <2>3
    <3>2. Whole(events[c], got[c]) /\ pc'[c] = "gone"
      BY <1>0, <1>2, <2>1 DEF ConnInv
    <3>3. \A d \in Conns : d = c \/ pc[d] = "gone" => pc'[d] = "gone"
      BY <1>2, <3>2
    <3>4. FileInv'
      BY <1>0, <1>1, <2>1, <3>1, <3>2, <3>3, FileAdds
    <3>5. file' \in Seq(Line)
      <4>1. file \in Seq(Line)
        BY <1>0 DEF CaptureTypes
      <4> QED
        BY <2>1, <3>1, <4>1, Appended
    <3>6. CaptureTypes'
      BY <1>0, <1>1, <1>2, <3>5 DEF CaptureTypes
    <3> QED
      BY <1>3, <1>4, <3>4, <3>6 DEF CaptureInv
  <2> QED
    BY <1>0, <2>2, <2>3, Writes
<1> QED
  BY <1>5, <1>6 DEF Captures!Crash

LEMMA CaptureStep ==
  ASSUME CaptureInv, [Captures!Next]_(Captures!vars)
  PROVE  CaptureInv'
<1>1. CASE Captures!Next
  BY <1>1, Accepts, Detects, DetectionEnds, Learns, LearningEnds, AppendEnds,
     Crashes DEF Captures!Next
<1>2. CASE UNCHANGED Captures!vars
  <2>1. CaptureTypes'
    BY <1>2 DEF CaptureInv, CaptureTypes, Captures!vars
  <2>2. ConnInv'
    BY <1>2 DEF CaptureInv, ConnInv, Captures!vars
  <2>3. FileInv'
    BY <1>2 DEF CaptureInv, FileInv, Captures!vars
  <2>4. ClosedInv'
    BY <1>2 DEF CaptureInv, ClosedInv, Agree, Captures!vars
  <2> QED
    BY <2>1, <2>2, <2>3, <2>4 DEF CaptureInv
<1> QED
  BY <1>1, <1>2

LEMMA CaptureAlways == Captures!Spec => []CaptureInv
<1>1. Captures!Init => CaptureInv
  BY CaptureStarts
<1>2. CaptureInv /\ [Captures!Next]_(Captures!vars) => CaptureInv'
  BY CaptureStep
<1> QED
  BY <1>1, <1>2, PTL DEF Captures!Spec

-----------------------------------------------------------------------------
(* The state is what the variables say it is.                                *)
THEOREM CapturesAreTyped == Captures!Spec => []Captures!TypeOK
<1>1. CaptureInv => Captures!TypeOK
  <2> SUFFICES ASSUME CaptureInv
               PROVE  Captures!TypeOK
    OBVIOUS
  <2>1. CaptureTypes /\ ConnInv /\ FileInv
    BY DEF CaptureInv
  <2>2. stored \subseteq {file[i].of : i \in DOMAIN file}
    BY <2>1 DEF FileInv
  <2>3. \A c \in Conns : /\ got[c] \in Seq(Captures!Pieces) /\ reason[c] \in Reasons
                         /\ pc[c] \in {"free", "detect"} => events[c] = <<>>
    BY <2>1 DEF CaptureTypes, ConnInv
  <2>4. pc \in [Conns -> Places]
    BY <2>1 DEF CaptureTypes
  <2> QED
    BY <2>2, <2>3, <2>4 DEF Captures!TypeOK, Places, Reasons
<1> QED
  BY <1>1, CaptureAlways, PTL

(* A capture that loads is the whole story of its connection. Every line of  *)
(* the file is, also those nobody can load.                                  *)
THEOREM CapturesAreComplete == Captures!Spec => []Captures!CaptureIsComplete
<1>1. CaptureInv => Captures!CaptureIsComplete
  BY DEF CaptureInv, FileInv, Whole, Captures!CaptureIsComplete
<1> QED
  BY <1>1, CaptureAlways, PTL

(* No connection is counted closed twice, and capture and log agree on why   *)
(* it ended, a shutdown apart.                                               *)
THEOREM ReasonsAlwaysAgree == Captures!Spec => []Captures!ReasonsAgree
<1>1. CaptureInv => Captures!ReasonsAgree
  BY DEF CaptureInv, ClosedInv, Agree, Captures!ReasonsAgree
<1> QED
  BY <1>1, CaptureAlways, PTL

(* Both together.                                                            *)
THEOREM CapturesAreFaithful == Captures!Spec => []Captures!CaptureIsFaithful
<1>1. Captures!CaptureIsComplete /\ Captures!ReasonsAgree => Captures!CaptureIsFaithful
  BY DEF Captures!CaptureIsFaithful
<1> QED
  BY <1>1, CapturesAreComplete, ReasonsAlwaysAgree, PTL

\* Every line that has its end and follows one is found.
LEMMA EndedIsFound ==
  ASSUME CaptureInv, NEW i \in DOMAIN file, file[i].of \in stored
  PROVE  Captures!FollowsLineEnd(i) => file[i].of \in Captures!LoadSessions
<1>1. file[i].whole /\ file[i].ended
  BY DEF CaptureInv, FileInv
<1> QED
  BY <1>1 DEF Captures!LoadSessions, Captures!Readable

\* The cardinality of an instance's module is that of the library.
LEMMA SameCardinality == \A S : Captures!Cardinality(S) = Cardinality(S)
BY DEF Captures!Cardinality, Cardinality

\* A stored capture that is not found stands behind a piece without an end:
\* another one for each.
LEMMA EachMissedHasItsPiece ==
  ASSUME CaptureInv
  PROVE  Cardinality(stored \ Captures!LoadSessions)
           <= Cardinality({i \in DOMAIN file : ~file[i].ended})
<1> DEFINE missed == stored \ Captures!LoadSessions
           pieces == {i \in DOMAIN file : ~file[i].ended}
           place(c) == CHOOSE i \in DOMAIN file : file[i].of = c
           f == [c \in missed |-> place(c) - 1]
<1>1. DOMAIN file = 1..Len(file) /\ Len(file) \in Nat
  BY DEF CaptureInv, CaptureTypes
<1>2. ASSUME NEW c \in missed
      PROVE  /\ place(c) \in DOMAIN file /\ file[place(c)].of = c
             /\ place(c) - 1 \in pieces
  <2>1. \E i \in DOMAIN file : file[i].of = c
    BY DEF CaptureInv, FileInv
  <2>2. place(c) \in DOMAIN file /\ file[place(c)].of = c
    BY <2>1
  <2>3. PICK i : i = place(c)
    OBVIOUS
  <2> HIDE DEF place
  <2>4. ~Captures!FollowsLineEnd(i)
    BY <2>2, <2>3, EndedIsFound
  <2>5. i # 1 /\ ~file[i - 1].ended
    BY <2>4 DEF Captures!FollowsLineEnd
  <2>6. i - 1 \in DOMAIN file
    BY <1>1, <2>2, <2>3, <2>5
  <2> QED
    BY <2>2, <2>3, <2>5, <2>6
<1>3. IsFiniteSet(pieces)
  <2>1. IsFiniteSet(1..Len(file))
    BY <1>1, FS_Interval
  <2> QED
    BY <1>1, <2>1, FS_Subset
<1> HIDE DEF place, pieces, missed
<1>4. f \in [missed -> pieces]
  BY <1>2
<1>5. ASSUME NEW a \in missed, NEW b \in missed, f[a] = f[b]
      PROVE  a = b
  <2>1. place(a) \in Nat /\ place(b) \in Nat
    BY <1>1, <1>2
  <2>2. place(a) - 1 = place(b) - 1
    BY <1>5
  <2>3. place(a) = place(b)
    BY <2>1, <2>2
  <2> QED
    BY <1>2, <2>3
<1> HIDE DEF f
<1>6. f \in Injection(missed, pieces)
  BY <1>4, <1>5 DEF Injection, IsInjective
<1>7. Cardinality(missed) <= Cardinality(pieces)
  BY <1>3, <1>6, FS_Injection
<1> QED
  BY <1>7 DEF missed, pieces

(* What an append was reported to have stored is found, unless the piece     *)
(* right before it has no end; each failed append costs at most one of them; *)
(* the replay tool reads all of them or none.                                *)
THEOREM StoredIsAlwaysFound == Captures!Spec => []Captures!StoredIsFound
<1>1. CaptureInv => Captures!StoredIsFound
  <2> SUFFICES ASSUME CaptureInv
               PROVE  Captures!StoredIsFound
    OBVIOUS
  <2>1. \A i \in DOMAIN file :
          file[i].of \in stored /\ Captures!FollowsLineEnd(i) =>
            file[i].of \in Captures!LoadSessions
    BY EndedIsFound
  <2>2. ASSUME Captures!LoadJsonl # {}, NEW c \in stored
        PROVE  c \in Captures!LoadJsonl
    <3>1. \A i \in DOMAIN file : Captures!Readable(i)
      BY <2>2 DEF Captures!LoadJsonl
    <3>2. PICK i \in DOMAIN file : file[i].of = c
      BY DEF CaptureInv, FileInv
    <3>3. c \in Captures!LoadSessions
      BY <3>1, <3>2 DEF Captures!LoadSessions
    <3> QED
      BY <3>1, <3>3 DEF Captures!LoadJsonl
  <2>3. Captures!LoadJsonl # {} => stored \subseteq Captures!LoadJsonl
    BY <2>2
  <2> QED
    BY <2>1, <2>3, EachMissedHasItsPiece, SameCardinality DEF Captures!StoredIsFound
<1> QED
  BY <1>1, CaptureAlways, PTL

-----------------------------------------------------------------------------
(* Bytes and frames.                                                         *)
CONSTANTS Streams, MaxRead
VARIABLES stream, read, protocol, buffer, frames

Framing == INSTANCE GT06Framing

Byte == 0..255
Parsed == [frames : Seq(Seq(Byte)), rest : Seq(Byte)]
Markers == {Framing!Classic, Framing!Long}

(* One step of extract_frames: the marker it finds from offset o on, whether *)
(* it stops there, and otherwise what it yields and where it goes on.        *)
Starts(buf, ms, o) == {i \in o..(Len(buf) - 1) : SubSeq(buf, i, i + 1) \in ms}
First(buf, ms, o) == Framing!Min(Starts(buf, ms, o))
At(buf, s) == SubSeq(buf, s, s + 1)
Size(buf, s) == Framing!TotalSize(buf, s, At(buf, s))
Candidate(buf, s) == SubSeq(buf, s, s + Size(buf, s) - 1)
Ends(buf, s) == Framing!IsSuffix(Framing!Stop, Candidate(buf, s))

Cut(buf, s) ==
  s + 1 + Framing!LengthSize(At(buf, s)) > Len(buf) \/ s + Size(buf, s) - 1 > Len(buf)
Stops(buf, ms, o) == Starts(buf, ms, o) = {} \/ Cut(buf, First(buf, ms, o))
Found(buf, ms, o) ==
  IF Ends(buf, First(buf, ms, o)) THEN <<Candidate(buf, First(buf, ms, o))>> ELSE <<>>
Jump(buf, ms, o) ==
  IF Ends(buf, First(buf, ms, o)) THEN First(buf, ms, o) + Size(buf, First(buf, ms, o))
  ELSE First(buf, ms, o) + 2

Parse(buf, ms, f, o) ==
  IF Stops(buf, ms, o) THEN [frames |-> <<>>, rest |-> SubSeq(buf, o, Len(buf))]
  ELSE [frames |-> Found(buf, ms, o) \o f[Jump(buf, ms, o)].frames,
        rest   |-> f[Jump(buf, ms, o)].rest]

\* What the code says of an offset, given what it says of the later ones.
Body(buf, ms, f, o) ==
  LET starts == {i \in o..(Len(buf) - 1) : SubSeq(buf, i, i + 1) \in ms}
      s      == Framing!Min(starts)
      marker == SubSeq(buf, s, s + 1)
      total  == Framing!TotalSize(buf, s, marker)
      frame  == SubSeq(buf, s, s + total - 1)
  IN IF starts = {} THEN [frames |-> <<>>, rest |-> Framing!Kept(buf, o)]
     ELSE IF s + 1 + Framing!LengthSize(marker) > Len(buf) \/ s + total - 1 > Len(buf)
       THEN [frames |-> <<>>, rest |-> SubSeq(buf, o, Len(buf))]
     ELSE IF ~Framing!IsSuffix(Framing!Stop, frame) THEN f[s + 2]
     ELSE LET next == f[s + total] IN [next EXCEPT !.frames = <<frame>> \o @]

\* Induction over the natural numbers, for a set.
LEMMA EveryNat ==
  ASSUME NEW T, 0 \in T, \A n \in Nat : n \in T => n + 1 \in T
  PROVE  Nat \subseteq T
<1> DEFINE missing == {n \in Nat : n \notin T}
<1>1. SUFFICES ASSUME missing # {} PROVE FALSE
  OBVIOUS
<1>2. PICK x \in missing : \A y \in missing : x <= y
  BY <1>1, LeastNat
<1>3. x # 0 /\ x - 1 \in Nat
  BY <1>2
<1>4. x - 1 \in T
  BY <1>2, <1>3
<1> QED
  BY <1>2, <1>3, <1>4

LEMMA MinIs ==
  ASSUME NEW S, S \subseteq Nat, S # {}
  PROVE  Framing!Min(S) \in S /\ \A y \in S : Framing!Min(S) <= y
BY LeastNat DEF Framing!Min

LEMMA MinIsOnly ==
  ASSUME NEW S, S \subseteq Nat, NEW x \in S, \A y \in S : x <= y
  PROVE  Framing!Min(S) = x
<1>1. Framing!Min(S) \in S /\ \A y \in S : Framing!Min(S) <= y
  BY MinIs
<1>2. PICK m \in Nat : m = Framing!Min(S)
  BY <1>1
<1>3. m <= x /\ x <= m /\ x \in Nat
  BY <1>1, <1>2
<1> QED
  BY <1>2, <1>3

LEMMA MarkersDiffer ==
  /\ Framing!Classic \in Seq(Byte) /\ Framing!Long \in Seq(Byte)
  /\ Len(Framing!Classic) = 2 /\ Len(Framing!Long) = 2
  /\ Framing!Classic # Framing!Long
  /\ Framing!Stop \in Seq(Byte) /\ Len(Framing!Stop) = 2
BY DEF Framing!Classic, Framing!Long, Framing!Stop, Byte

LEMMA LengthSizes ==
  ASSUME NEW marker
  PROVE  /\ Framing!LengthSize(marker) \in {1, 2}
         /\ Framing!LengthSize(marker) = 1 <=> marker = Framing!Classic
BY DEF Framing!LengthSize

LEMMA SizeIs ==
  ASSUME NEW buf \in Seq(Byte), NEW s \in Nat \ {0},
         s + 1 + Framing!LengthSize(At(buf, s)) <= Len(buf)
  PROVE  Size(buf, s) \in Nat /\ Size(buf, s) >= 5
<1>1. CASE At(buf, s) = Framing!Classic
  <2>1. Framing!LengthSize(At(buf, s)) = 1
    BY <1>1 DEF Framing!LengthSize
  <2>2. PICK b \in Byte : b = buf[s + 2]
    BY <2>1
  <2>3. Size(buf, s) = 2 + 1 + b + 2
    BY <2>1, <2>2 DEF Size, Framing!TotalSize, Framing!LengthField
  <2> QED
    BY <2>3 DEF Byte
<1>2. CASE At(buf, s) # Framing!Classic
  <2>1. Framing!LengthSize(At(buf, s)) = 2
    BY <1>2 DEF Framing!LengthSize
  <2>2. PICK b \in Byte : b = buf[s + 2]
    BY <2>1
  <2>3. PICK c \in Byte : c = buf[s + 3]
    BY <2>1
  <2>4. Size(buf, s) = 2 + 2 + (256 * b + c) + 2
    BY <2>1, <2>2, <2>3 DEF Size, Framing!TotalSize, Framing!LengthField
  <2> QED
    BY <2>4 DEF Byte
<1> QED
  BY <1>1, <1>2

LEMMA StartsAreNat ==
  ASSUME NEW buf \in Seq(Byte), NEW ms, NEW o \in Nat
  PROVE  Starts(buf, ms, o) \subseteq o..(Len(buf) - 1) /\ Starts(buf, ms, o) \subseteq Nat
BY DEF Starts

\* A step goes forward, and not behind the end.
LEMMA StepIs ==
  ASSUME NEW buf \in Seq(Byte), NEW ms, NEW o \in Nat \ {0}, ~Stops(buf, ms, o)
  PROVE  /\ First(buf, ms, o) \in o..(Len(buf) - 1)
         /\ At(buf, First(buf, ms, o)) \in ms
         /\ Size(buf, First(buf, ms, o)) \in Nat /\ Size(buf, First(buf, ms, o)) >= 5
         /\ First(buf, ms, o) + Size(buf, First(buf, ms, o)) - 1 <= Len(buf)
         /\ Candidate(buf, First(buf, ms, o)) \in Seq(Byte)
         /\ Found(buf, ms, o) \in Seq(Seq(Byte))
         /\ Jump(buf, ms, o) \in (o + 1)..(Len(buf) + 1)
<1> DEFINE s == First(buf, ms, o)
<1>1. s \in Starts(buf, ms, o)
  BY MinIs, StartsAreNat DEF Stops, First
<1>2. s \in o..(Len(buf) - 1) /\ At(buf, s) \in ms
  BY <1>1 DEF Starts, At
<1>a. ~Cut(buf, s)
  BY DEF Stops
<1> HIDE DEF s
<1>b. PICK l \in {1, 2} : l = Framing!LengthSize(At(buf, s))
  BY LengthSizes
<1>c. s + 1 + l <= Len(buf)
  BY <1>a, <1>b, <1>2 DEF Cut
<1>4. Size(buf, s) \in Nat /\ Size(buf, s) >= 5
  BY <1>2, <1>b, <1>c, SizeIs
<1>d. PICK z \in Nat : z = Size(buf, s)
  BY <1>4
<1>3. s + z - 1 <= Len(buf)
  BY <1>a, <1>d, <1>2 DEF Cut
<1>5. Candidate(buf, s) \in Seq(Byte)
  BY <1>2, <1>3, <1>4, <1>d DEF Candidate
<1>6. Found(buf, ms, o) \in Seq(Seq(Byte))
  BY <1>5 DEF Found, s
<1>7. Jump(buf, ms, o) \in (o + 1)..(Len(buf) + 1)
  <2>1. Len(buf) \in Nat
    OBVIOUS
  <2>2. Jump(buf, ms, o) = s + Size(buf, s) \/ Jump(buf, ms, o) = s + 2
    BY DEF Jump, s
  <2> QED
    BY <1>2, <1>3, <1>4, <1>d, <2>1, <2>2
<1> QED
  BY <1>2, <1>3, <1>4, <1>5, <1>6, <1>7, <1>d DEF s

LEMMA ParseIs ==
  ASSUME NEW buf \in Seq(Byte), NEW ms, NEW o \in 1..(Len(buf) + 1),
         NEW f \in [1..(Len(buf) + 1) -> Parsed]
  PROVE  Parse(buf, ms, f, o) \in Parsed
<1>1. CASE Stops(buf, ms, o)
  <2>1. SubSeq(buf, o, Len(buf)) \in Seq(Byte)
    OBVIOUS
  <2> QED
    BY <1>1, <2>1 DEF Parse, Parsed
<1>2. CASE ~Stops(buf, ms, o)
  <2>1. Found(buf, ms, o) \in Seq(Seq(Byte)) /\ Jump(buf, ms, o) \in 1..(Len(buf) + 1)
    BY <1>2, StepIs
  <2>2. f[Jump(buf, ms, o)] \in Parsed
    BY <2>1
  <2>3. f[Jump(buf, ms, o)].frames \in Seq(Seq(Byte)) /\ f[Jump(buf, ms, o)].rest \in Seq(Byte)
    BY <2>2 DEF Parsed
  <2> QED
    BY <1>2, <2>1, <2>3 DEF Parse, Parsed
<1> QED
  BY <1>1, <1>2

LEMMA BodyCases ==
  ASSUME NEW buf, NEW ms, NEW f, NEW o
  PROVE  Body(buf, ms, f, o) =
           IF Starts(buf, ms, o) = {} THEN [frames |-> <<>>, rest |-> SubSeq(buf, o, Len(buf))]
           ELSE IF Cut(buf, First(buf, ms, o))
             THEN [frames |-> <<>>, rest |-> SubSeq(buf, o, Len(buf))]
           ELSE IF ~Ends(buf, First(buf, ms, o)) THEN f[First(buf, ms, o) + 2]
           ELSE [f[First(buf, ms, o) + Size(buf, First(buf, ms, o))] EXCEPT
                   !.frames = <<Candidate(buf, First(buf, ms, o))>> \o @]
BY DEF Body, Starts, First, At, Size, Cut, Ends, Candidate, Framing!Kept

\* The code's step is this step.
LEMMA BodyIs ==
  ASSUME NEW buf \in Seq(Byte), NEW ms, NEW o \in 1..(Len(buf) + 1),
         NEW f \in [1..(Len(buf) + 1) -> Parsed]
  PROVE  Body(buf, ms, f, o) = Parse(buf, ms, f, o)
<1>1. CASE Stops(buf, ms, o)
  BY <1>1, BodyCases DEF Stops, Parse
<1>2. CASE ~Stops(buf, ms, o)
  <2>1. Jump(buf, ms, o) \in 1..(Len(buf) + 1)
    BY <1>2, StepIs
  <2>2. PICK r \in Parsed : r = f[Jump(buf, ms, o)]
    BY <2>1
  <2>3. r = [frames |-> r.frames, rest |-> r.rest] /\ r.frames \in Seq(Seq(Byte))
    BY DEF Parsed
  <2>4. CASE Ends(buf, First(buf, ms, o))
    <3>1. Body(buf, ms, f, o) =
            [r EXCEPT !.frames = <<Candidate(buf, First(buf, ms, o))>> \o r.frames]
      BY <1>2, <2>2, <2>4, BodyCases DEF Stops, Jump
    <3>2. [r EXCEPT !.frames = <<Candidate(buf, First(buf, ms, o))>> \o r.frames]
            = [frames |-> <<Candidate(buf, First(buf, ms, o))>> \o r.frames, rest |-> r.rest]
      <4>1. PICK x : x = <<Candidate(buf, First(buf, ms, o))>> \o r.frames
        OBVIOUS
      <4>2. [r EXCEPT !.frames = x] = [frames |-> x, rest |-> r.rest]
        BY <2>3
      <4> QED
        BY <4>1, <4>2
    <3>3. Parse(buf, ms, f, o)
            = [frames |-> <<Candidate(buf, First(buf, ms, o))>> \o r.frames, rest |-> r.rest]
      BY <1>2, <2>2, <2>4 DEF Parse, Found
    <3> QED
      BY <3>1, <3>2, <3>3
  <2>5. CASE ~Ends(buf, First(buf, ms, o))
    <3>1. Body(buf, ms, f, o) = r
      BY <1>2, <2>2, <2>5, BodyCases DEF Stops, Jump
    <3>2. Parse(buf, ms, f, o) = [frames |-> <<>> \o r.frames, rest |-> r.rest]
      BY <1>2, <2>2, <2>5 DEF Parse, Found
    <3>3. <<>> \o r.frames = r.frames
      BY <2>3
    <3> QED
      BY <2>3, <3>1, <3>2, <3>3
  <2> QED
    BY <2>4, <2>5
<1> QED
  BY <1>1, <1>2

-----------------------------------------------------------------------------
(* extract_frames is that recursion.                                         *)
Parser(buf, ms) ==
  CHOOSE f \in [1..(Len(buf) + 1) -> Parsed] :
    \A o \in 1..(Len(buf) + 1) : f[o] = Parse(buf, ms, f, o)

\* A step looks at later offsets only.
LEMMA ParseLooksAhead ==
  ASSUME NEW buf \in Seq(Byte), NEW ms, NEW o \in 1..(Len(buf) + 1), NEW f, NEW g,
         \A k \in (o + 1)..(Len(buf) + 1) : f[k] = g[k]
  PROVE  /\ Parse(buf, ms, f, o) = Parse(buf, ms, g, o)
         /\ Body(buf, ms, f, o) = Body(buf, ms, g, o)
<1>1. CASE Stops(buf, ms, o)
  BY <1>1, BodyCases DEF Stops, Parse
<1>2. CASE ~Stops(buf, ms, o)
  <2>1. Jump(buf, ms, o) \in (o + 1)..(Len(buf) + 1)
    BY <1>2, StepIs
  <2>2. f[Jump(buf, ms, o)] = g[Jump(buf, ms, o)]
    BY <2>1
  <2>3. Parse(buf, ms, f, o) = Parse(buf, ms, g, o)
    BY <1>2, <2>2 DEF Parse
  <2>4. CASE Ends(buf, First(buf, ms, o))
    <3>1. f[First(buf, ms, o) + Size(buf, First(buf, ms, o))]
            = g[First(buf, ms, o) + Size(buf, First(buf, ms, o))]
      BY <2>2, <2>4 DEF Jump
    <3>2. /\ Starts(buf, ms, o) # {} /\ ~Cut(buf, First(buf, ms, o))
      BY <1>2 DEF Stops
    <3>3. Body(buf, ms, f, o) =
            [f[First(buf, ms, o) + Size(buf, First(buf, ms, o))] EXCEPT
                   !.frames = <<Candidate(buf, First(buf, ms, o))>> \o @]
      BY <2>4, <3>2, BodyCases, Zenon
    <3>4. Body(buf, ms, g, o) =
            [g[First(buf, ms, o) + Size(buf, First(buf, ms, o))] EXCEPT
                   !.frames = <<Candidate(buf, First(buf, ms, o))>> \o @]
      BY <2>4, <3>2, BodyCases, Zenon
    <3> QED
      BY <2>3, <3>1, <3>3, <3>4, Zenon
  <2>5. CASE ~Ends(buf, First(buf, ms, o))
    <3>1. f[First(buf, ms, o) + 2] = g[First(buf, ms, o) + 2]
      BY <2>2, <2>5 DEF Jump
    <3> QED
      BY <1>2, <2>3, <2>5, <3>1, BodyCases DEF Stops
  <2> QED
    BY <2>4, <2>5
<1> QED
  BY <1>1, <1>2

LEMMA ParserExists ==
  ASSUME NEW buf \in Seq(Byte), NEW ms
  PROVE  /\ Parser(buf, ms) \in [1..(Len(buf) + 1) -> Parsed]
         /\ \A o \in 1..(Len(buf) + 1) : Parser(buf, ms)[o] = Parse(buf, ms, Parser(buf, ms), o)
<1> DEFINE N == Len(buf) + 1
           T == {k \in Nat : \E f \in [1..N -> Parsed] :
                   \A o \in 1..N : o + k > N => f[o] = Parse(buf, ms, f, o)}
<1>1. N \in Nat
  OBVIOUS
<1>2. 0 \in T
  <2>1. [frames |-> <<>>, rest |-> <<>>] \in Parsed
    BY DEF Parsed
  <2>2. [o \in 1..N |-> [frames |-> <<>>, rest |-> <<>>]] \in [1..N -> Parsed]
    BY <2>1
  <2>3. \A o \in 1..N : ~(o + 0 > N)
    BY <1>1
  <2> QED
    BY <2>2, <2>3
<1>3. ASSUME NEW k \in Nat, k \in T
      PROVE  k + 1 \in T
  <2>1. PICK f \in [1..N -> Parsed] : \A o \in 1..N : o + k > N => f[o] = Parse(buf, ms, f, o)
    BY <1>3
  <2>2. PICK p : p = N - k
    OBVIOUS
  <2>3. CASE p \notin 1..N
    <3>1. \A o \in 1..N : o + (k + 1) > N => o + k > N
      BY <1>1, <2>2, <2>3
    <3> QED
      BY <2>1, <3>1
  <2>4. CASE p \in 1..N
    <3>1. PICK v \in Parsed : v = Parse(buf, ms, f, p)
      BY <2>4, ParseIs
    <3>2. PICK g : g = [f EXCEPT ![p] = v]
      OBVIOUS
    <3>3. g \in [1..N -> Parsed]
      BY <3>1, <3>2
    <3>4. g[p] = v /\ \A o \in 1..N : o # p => g[o] = f[o]
      BY <2>4, <3>2
    <3>5. ASSUME NEW o \in 1..N, o + (k + 1) > N
          PROVE  g[o] = Parse(buf, ms, g, o)
      <4>1. o >= p
        BY <1>1, <2>2, <3>5
      <4>2. \A i \in (o + 1)..N : f[i] = g[i]
        BY <1>1, <2>4, <3>4, <4>1
      <4>3. Parse(buf, ms, f, o) = Parse(buf, ms, g, o)
        BY <4>2, ParseLooksAhead
      <4>4. CASE o = p
        BY <3>1, <3>4, <4>3, <4>4
      <4>5. CASE o # p
        <5>1. o + k > N
          BY <1>1, <2>2, <4>1, <4>5
        <5> QED
          BY <2>1, <3>4, <4>3, <4>5, <5>1
      <4> QED
        BY <4>4, <4>5
    <3> QED
      BY <3>3, <3>5
  <2> QED
    BY <2>3, <2>4
<1>4. N \in T
  <2> HIDE DEF T
  <2> QED
    BY <1>1, <1>2, <1>3, EveryNat
<1>5. PICK f \in [1..N -> Parsed] : \A o \in 1..N : o + N > N => f[o] = Parse(buf, ms, f, o)
  BY <1>4
<1>6. \A o \in 1..N : f[o] = Parse(buf, ms, f, o)
  BY <1>1, <1>5
<1> QED
  BY <1>6 DEF Parser

\* What the code computes.
LEMMA ExtractIs ==
  ASSUME NEW buf \in Seq(Byte), NEW ms
  PROVE  Framing!ExtractFrames(buf, ms) = Parser(buf, ms)[1]
<1> DEFINE N == Len(buf) + 1
           F == CHOOSE g : g = [o \in 1..(Len(buf) + 1) |-> Body(buf, ms, g, o)]
<1>1. PICK f : f = Parser(buf, ms)
  OBVIOUS
<1>2. f \in [1..N -> Parsed] /\ \A o \in 1..N : f[o] = Parse(buf, ms, f, o)
  BY <1>1, ParserExists
<1>3. \A o \in 1..N : f[o] = Body(buf, ms, f, o)
  BY <1>2, BodyIs
<1>4. f = [o \in 1..N |-> Body(buf, ms, f, o)]
  BY <1>2, <1>3
<1>5. F = [o \in 1..N |-> Body(buf, ms, F, o)]
  BY <1>4
<1>6. Framing!ExtractFrames(buf, ms) = F[1]
  BY DEF Framing!ExtractFrames, Body
<1> HIDE DEF F
<1>7. PICK g : g = F
  OBVIOUS
<1>8. \A o \in 1..N : g[o] = Body(buf, ms, g, o)
  BY <1>5, <1>7
<1>9. N \in Nat /\ N >= 1
  OBVIOUS
<1> DEFINE T == {k \in Nat : \A o \in 1..N : o + k > N => g[o] = f[o]}
<1>10. 0 \in T
  BY <1>9
<1>11. ASSUME NEW k \in Nat, k \in T
       PROVE  k + 1 \in T
  <2>1. ASSUME NEW o \in 1..N, o + (k + 1) > N
        PROVE  g[o] = f[o]
    <3>1. \A i \in (o + 1)..N : i \in 1..N /\ i + k > N
      BY <1>9, <2>1
    <3>2. \A i \in (o + 1)..N : f[i] = g[i]
      BY <1>11, <3>1
    <3>3. Body(buf, ms, f, o) = Body(buf, ms, g, o)
      BY <3>2, ParseLooksAhead
    <3> QED
      BY <1>3, <1>8, <3>3
  <2> QED
    BY <2>1
<1>12. N \in T
  <2> HIDE DEF T
  <2> QED
    BY <1>9, <1>10, <1>11, EveryNat
<1>13. g[1] = f[1]
  BY <1>9, <1>12
<1> QED
  BY <1>1, <1>6, <1>7, <1>13

-----------------------------------------------------------------------------
(* Two buffers that say the same from an offset on.                          *)
SameBehind(A, B, d, o) ==
  \A i \in Nat : i >= o /\ i <= Len(B) => i + d \in 1..Len(A) /\ A[i + d] = B[i]

LEMMA SameWindow ==
  ASSUME NEW A \in Seq(Byte), NEW B \in Seq(Byte), NEW d \in Int, NEW o \in Nat \ {0},
         SameBehind(A, B, d, o), NEW a \in Nat, NEW b \in Int, a >= o, b <= Len(B)
  PROVE  SubSeq(A, a + d, b + d) = SubSeq(B, a, b)
<1>1. CASE b < a
  <2>1. SubSeq(B, a, b) = <<>> /\ SubSeq(A, a + d, b + d) = <<>>
    BY <1>1
  <2> QED
    BY <2>1
<1>2. CASE b >= a
  <2>1. \A i \in a..b : i + d \in 1..Len(A) /\ A[i + d] = B[i]
    BY DEF SameBehind
  <2>2. a + d >= 1 /\ b + d <= Len(A) /\ a >= 1 /\ b \in Nat
    BY <1>2, <2>1
  <2> DEFINE X == SubSeq(A, a + d, b + d)
             Y == SubSeq(B, a, b)
  <2>3. X \in Seq(Byte) /\ Len(X) = b - a + 1 /\ \A k \in 1..(b - a + 1) : X[k] = A[a + d + k - 1]
    BY <1>2, <2>2
  <2>4. Y \in Seq(Byte) /\ Len(Y) = b - a + 1 /\ \A k \in 1..(b - a + 1) : Y[k] = B[a + k - 1]
    BY <1>2, <2>2
  <2>5. ASSUME NEW k \in 1..(b - a + 1)
        PROVE  A[a + d + k - 1] = B[a + k - 1]
    <3>1. a + k - 1 \in a..b /\ (a + k - 1) + d = a + d + k - 1
      OBVIOUS
    <3> QED
      BY <2>1, <3>1
  <2> HIDE DEF X, Y
  <2>6. X = Y
    <3>1. PICK n \in Nat : n = b - a + 1
      BY <1>2
    <3>2. X \in [1..n -> Byte] /\ Y \in [1..n -> Byte]
      BY <2>3, <2>4, <3>1
    <3>3. \A k \in 1..n : X[k] = Y[k]
      BY <2>3, <2>4, <2>5, <3>1
    <3> QED
      BY <3>2, <3>3
  <2> QED
    BY <2>6 DEF X, Y
<1> QED
  BY <1>1, <1>2

\* They hold the same markers, sizes and frames.
LEMMA SameAt ==
  ASSUME NEW A \in Seq(Byte), NEW B \in Seq(Byte), NEW d \in Int, NEW o \in Nat \ {0},
         SameBehind(A, B, d, o), NEW s \in Nat, s >= o, s + 1 <= Len(B)
  PROVE  /\ At(A, s + d) = At(B, s)
         /\ ~Cut(B, s) => /\ ~Cut(A, s + d) /\ Size(A, s + d) = Size(B, s)
                          /\ Candidate(A, s + d) = Candidate(B, s)
<1>1. At(A, s + d) = At(B, s)
  <2>1. SubSeq(A, s + d, (s + 1) + d) = SubSeq(B, s, s + 1)
    BY SameWindow
  <2>2. (s + 1) + d = s + d + 1
    OBVIOUS
  <2> QED
    BY <2>1, <2>2 DEF At
<1>2. ASSUME ~Cut(B, s)
      PROVE  /\ ~Cut(A, s + d) /\ Size(A, s + d) = Size(B, s)
             /\ Candidate(A, s + d) = Candidate(B, s)
  <2>1. PICK l \in {1, 2} : l = Framing!LengthSize(At(B, s))
    BY LengthSizes
  <2>2. s + 1 + l <= Len(B) /\ s # 0
    BY <1>2, <2>1 DEF Cut
  <2>3. PICK z \in Nat : z = Size(B, s) /\ z >= 5
    BY <2>1, <2>2, SizeIs
  <2>4. s + z - 1 <= Len(B)
    BY <1>2, <2>3 DEF Cut
  <2>5. PICK t \in Int : t = s + d
    OBVIOUS
  <2>6. A[t + 2] = B[s + 2] /\ (l = 2 => A[t + 3] = B[s + 3])
    <3>1. \A i \in Nat : i >= o /\ i <= Len(B) => A[i + d] = B[i]
      BY DEF SameBehind
    <3>2. (s + 2) + d = t + 2 /\ (s + 3) + d = t + 3
      BY <2>5
    <3>3. A[(s + 2) + d] = B[s + 2]
      <4>1. s + 2 \in Nat /\ s + 2 >= o /\ s + 2 <= Len(B)
        BY <2>2
      <4> QED
        BY <3>1, <4>1
    <3>4. l = 2 => A[(s + 3) + d] = B[s + 3]
      <4>1. l = 2 => s + 3 \in Nat /\ s + 3 >= o /\ s + 3 <= Len(B)
        BY <2>2
      <4> QED
        BY <3>1, <4>1
    <3> QED
      BY <3>2, <3>3, <3>4
  <2>7. Size(A, t) = Size(B, s)
    <3>1. At(A, t) = At(B, s)
      BY <1>1, <2>5
    <3>2. CASE l = 1
      BY <2>1, <2>6, <3>1, <3>2 DEF Size, Framing!TotalSize, Framing!LengthField
    <3>3. CASE l = 2
      <4>1. Framing!LengthField(A, t, At(B, s)) = Framing!LengthField(B, s, At(B, s))
        BY <2>1, <2>6, <3>3 DEF Framing!LengthField
      <4> QED
        BY <3>1, <4>1 DEF Size, Framing!TotalSize
    <3> QED
      BY <3>2, <3>3
  <2>8. (s + z - 1) + d \in 1..Len(A)
    BY <2>2, <2>3, <2>4 DEF SameBehind
  <2>9. ~Cut(A, t)
    <3>1. Framing!LengthSize(At(A, t)) = l
      BY <1>1, <2>1, <2>5
    <3>2. t + 1 + l <= Len(A)
      <4>1. (s + 1 + l) + d \in 1..Len(A)
        BY <2>2 DEF SameBehind
      <4> QED
        BY <2>5, <4>1
    <3>3. t + z - 1 <= Len(A)
      BY <2>5, <2>8
    <3> QED
      BY <2>3, <2>7, <3>1, <3>2, <3>3 DEF Cut
  <2>10. Candidate(A, t) = Candidate(B, s)
    <3>1. SubSeq(A, s + d, (s + z - 1) + d) = SubSeq(B, s, s + z - 1)
      BY <2>4, SameWindow
    <3>2. (s + z - 1) + d = t + z - 1
      BY <2>5
    <3> QED
      BY <2>3, <2>5, <2>7, <3>1, <3>2 DEF Candidate
  <2> QED
    BY <2>5, <2>7, <2>9, <2>10
<1> QED
  BY <1>1, <1>2

LEMMA SameStep ==
  ASSUME NEW A \in Seq(Byte), NEW B \in Seq(Byte), NEW d \in Int, NEW o \in Nat \ {0},
         SameBehind(A, B, d, o), NEW ms, ~Stops(B, ms, o), o + d >= 1
  PROVE  /\ ~Stops(A, ms, o + d)
         /\ Found(A, ms, o + d) = Found(B, ms, o)
         /\ Jump(A, ms, o + d) = Jump(B, ms, o) + d
<1> DEFINE s == First(B, ms, o)
<1>1. s \in o..(Len(B) - 1) /\ At(B, s) \in ms /\ Size(B, s) \in Nat
  BY StepIs
<1>2. ~Cut(B, s)
  BY DEF Stops
<1>3. \A j \in Starts(B, ms, o) : s <= j
  BY MinIs, StartsAreNat DEF Stops, First
<1> HIDE DEF s
<1>4. s \in Nat /\ s >= o /\ s + 1 <= Len(B)
  BY <1>1
<1>5. /\ At(A, s + d) = At(B, s) /\ ~Cut(A, s + d) /\ Size(A, s + d) = Size(B, s)
      /\ Candidate(A, s + d) = Candidate(B, s)
  BY <1>2, <1>4, SameAt
<1>6. s + d \in Starts(A, ms, o + d)
  <2>1. (s + 1) + d \in 1..Len(A)
    BY <1>4 DEF SameBehind
  <2>2. s + d \in (o + d)..(Len(A) - 1)
    BY <1>4, <2>1
  <2> QED
    BY <1>1, <1>5, <2>2 DEF Starts, At
<1>7. ASSUME NEW i \in Starts(A, ms, o + d)
      PROVE  s + d <= i
  <2>1. i \in (o + d)..(Len(A) - 1) /\ At(A, i) \in ms
    BY DEF Starts, At
  <2>2. SUFFICES ASSUME i < s + d PROVE FALSE
    BY <1>4, <2>1
  <2>3. PICK j \in Nat : j = i - d
    BY <2>1
  <2>4. j >= o /\ j < s /\ j + 1 <= Len(B) /\ j + d = i
    BY <1>4, <2>1, <2>2, <2>3
  <2>5. At(B, j) \in ms
    <3>1. At(A, j + d) = At(B, j)
      BY <2>4, SameAt
    <3> QED
      BY <2>1, <2>4, <3>1
  <2>6. j \in Starts(B, ms, o)
    BY <2>4, <2>5 DEF Starts, At
  <2> QED
    BY <1>3, <1>4, <2>4, <2>6
<1>8. First(A, ms, o + d) = s + d
  <2>1. Starts(A, ms, o + d) \subseteq Nat
    BY StartsAreNat
  <2> QED
    BY <1>6, <1>7, <2>1, MinIsOnly DEF First
<1>9. ~Stops(A, ms, o + d)
  BY <1>5, <1>6, <1>8 DEF Stops
<1>10. Ends(A, s + d) = Ends(B, s)
  BY <1>5 DEF Ends
<1>11. Found(A, ms, o + d) = Found(B, ms, o)
  BY <1>5, <1>8, <1>10 DEF Found, s
<1>12. Jump(A, ms, o + d) = Jump(B, ms, o) + d
  <2>1. Jump(A, ms, o + d) = IF Ends(B, s) THEN s + d + Size(B, s) ELSE s + d + 2
    BY <1>5, <1>8, <1>10 DEF Jump
  <2>2. Jump(B, ms, o) = IF Ends(B, s) THEN s + Size(B, s) ELSE s + 2
    BY DEF Jump, s
  <2>3. Size(B, s) \in Nat
    BY <1>1 DEF s
  <2> QED
    BY <1>4, <2>1, <2>2, <2>3
<1> QED
  BY <1>9, <1>11, <1>12

-----------------------------------------------------------------------------
(* Extracting goes on where it stopped: it does not matter where the bytes   *)
(* are cut.                                                                  *)
ParsedAt(buf, ms, o) == Parser(buf, ms)[o]

LEMMA ParsedIs ==
  ASSUME NEW buf \in Seq(Byte), NEW ms, NEW o \in 1..(Len(buf) + 1)
  PROVE  /\ ParsedAt(buf, ms, o) \in Parsed
         /\ ParsedAt(buf, ms, o).frames \in Seq(Seq(Byte))
         /\ ParsedAt(buf, ms, o).rest \in Seq(Byte)
<1>1. ParsedAt(buf, ms, o) \in Parsed
  BY ParserExists DEF ParsedAt
<1> QED
  BY <1>1 DEF Parsed

LEMMA ParsedStops ==
  ASSUME NEW buf \in Seq(Byte), NEW ms, NEW o \in 1..(Len(buf) + 1), Stops(buf, ms, o)
  PROVE  /\ ParsedAt(buf, ms, o).frames = <<>>
         /\ ParsedAt(buf, ms, o).rest = SubSeq(buf, o, Len(buf))
<1>1. Parser(buf, ms)[o] = Parse(buf, ms, Parser(buf, ms), o)
  BY ParserExists
<1> QED
  BY <1>1 DEF ParsedAt, Parse

LEMMA ParsedGoes ==
  ASSUME NEW buf \in Seq(Byte), NEW ms, NEW o \in 1..(Len(buf) + 1), ~Stops(buf, ms, o)
  PROVE  /\ ParsedAt(buf, ms, o).frames
              = Found(buf, ms, o) \o ParsedAt(buf, ms, Jump(buf, ms, o)).frames
         /\ ParsedAt(buf, ms, o).rest = ParsedAt(buf, ms, Jump(buf, ms, o)).rest
<1>1. Parser(buf, ms)[o] = Parse(buf, ms, Parser(buf, ms), o)
  BY ParserExists
<1> QED
  BY <1>1 DEF ParsedAt, Parse

LEMMA ParsedSame ==
  ASSUME NEW r \in Parsed, NEW q \in Parsed, r.frames = q.frames, r.rest = q.rest
  PROVE  r = q
BY DEF Parsed

\* B is what A holds behind d bytes.
Behind(A, B, d) == Len(A) = Len(B) + d /\ \A i \in 1..Len(B) : A[i + d] = B[i]

\* What is parsed of a buffer depends on what is behind the offset only.
LEMMA SuffixParsed ==
  ASSUME NEW A \in Seq(Byte), NEW B \in Seq(Byte), NEW ms, NEW d \in Nat, Behind(A, B, d)
  PROVE  \A o \in 1..(Len(B) + 1) : ParsedAt(A, ms, o + d) = ParsedAt(B, ms, o)
<1> DEFINE N == Len(B) + 1
           T == {k \in Nat : \A o \in 1..N : o + k > N =>
                   ParsedAt(A, ms, o + d) = ParsedAt(B, ms, o)}
<1> USE DEF Behind
<1>1. N \in Nat
  OBVIOUS
<1>2. 0 \in T
  BY <1>1
<1>3. ASSUME NEW k \in Nat, k \in T
      PROVE  k + 1 \in T
  <2>1. ASSUME NEW o \in 1..N, o + (k + 1) > N
        PROVE  ParsedAt(A, ms, o + d) = ParsedAt(B, ms, o)
    <3>1. o + d \in 1..(Len(A) + 1) /\ o + d >= 1 /\ o \in Nat \ {0} /\ o + d \in Nat \ {0}
      OBVIOUS
    <3>2. SameBehind(A, B, d, o)
      BY <3>1 DEF SameBehind
    <3>3. SameBehind(B, A, -d, o + d)
      <4>1. ASSUME NEW i \in Nat, i >= o + d, i <= Len(A)
            PROVE  i + (-d) \in 1..Len(B) /\ B[i + (-d)] = A[i]
        <5>1. PICK j \in 1..Len(B) : j = i - d
          BY <3>1, <4>1
        <5>2. i + (-d) = j /\ j + d = i
          BY <5>1
        <5> QED
          BY <5>1, <5>2
      <4> QED
        BY <4>1 DEF SameBehind
    <3>6. ParsedAt(A, ms, o + d) \in Parsed /\ ParsedAt(B, ms, o) \in Parsed
      BY <3>1, ParsedIs
    <3>4. CASE Stops(B, ms, o)
      <4>1. Stops(A, ms, o + d)
        <5>1. SUFFICES ASSUME ~Stops(A, ms, o + d) PROVE FALSE
          OBVIOUS
        <5>2. -d \in Int /\ (o + d) + (-d) = o
          OBVIOUS
        <5>3. ~Stops(B, ms, (o + d) + (-d))
          BY <3>1, <3>3, <5>1, <5>2, SameStep
        <5> QED
          BY <3>4, <5>2, <5>3
      <4>2. SubSeq(A, o + d, Len(A)) = SubSeq(B, o, Len(B))
        <5>1. SubSeq(A, o + d, Len(B) + d) = SubSeq(B, o, Len(B))
          BY <3>1, <3>2, SameWindow
        <5> QED
          BY <5>1
      <4>3. /\ ParsedAt(A, ms, o + d).frames = <<>>
            /\ ParsedAt(A, ms, o + d).rest = SubSeq(A, o + d, Len(A))
        BY <3>1, <4>1, ParsedStops
      <4>4. ParsedAt(B, ms, o).frames = <<>> /\ ParsedAt(B, ms, o).rest = SubSeq(B, o, Len(B))
        BY <3>4, ParsedStops
      <4> QED
        BY <3>6, <4>2, <4>3, <4>4, ParsedSame
    <3>5. CASE ~Stops(B, ms, o)
      <4>1. /\ ~Stops(A, ms, o + d) /\ Found(A, ms, o + d) = Found(B, ms, o)
            /\ Jump(A, ms, o + d) = Jump(B, ms, o) + d
        BY <3>1, <3>2, <3>5, SameStep
      <4>2. Jump(B, ms, o) \in 1..N /\ Jump(B, ms, o) + k > N
        <5>1. Jump(B, ms, o) \in (o + 1)..(Len(B) + 1)
          BY <3>1, <3>5, StepIs
        <5> QED
          BY <2>1, <5>1
      <4>3. ParsedAt(A, ms, Jump(B, ms, o) + d) = ParsedAt(B, ms, Jump(B, ms, o))
        BY <1>3, <4>2
      <4>4. PICK j : j = Jump(B, ms, o)
        OBVIOUS
      <4>5. /\ ParsedAt(A, ms, o + d).frames = Found(B, ms, o) \o ParsedAt(A, ms, j + d).frames
            /\ ParsedAt(A, ms, o + d).rest = ParsedAt(A, ms, j + d).rest
        <5>1. /\ ParsedAt(A, ms, o + d).frames
                   = Found(A, ms, o + d) \o ParsedAt(A, ms, Jump(A, ms, o + d)).frames
              /\ ParsedAt(A, ms, o + d).rest = ParsedAt(A, ms, Jump(A, ms, o + d)).rest
          BY <3>1, <4>1, ParsedGoes
        <5> QED
          BY <4>1, <4>4, <5>1
      <4>6. /\ ParsedAt(B, ms, o).frames = Found(B, ms, o) \o ParsedAt(B, ms, j).frames
            /\ ParsedAt(B, ms, o).rest = ParsedAt(B, ms, j).rest
        BY <3>5, <4>4, ParsedGoes
      <4> QED
        BY <3>6, <4>3, <4>4, <4>5, <4>6, ParsedSame
    <3> QED
      BY <3>4, <3>5
  <2> QED
    BY <2>1
<1>4. N \in T
  <2> HIDE DEF T
  <2> QED
    BY <1>1, <1>2, <1>3, EveryNat
<1> QED
  BY <1>1, <1>4

\* More bytes leave what was parsed, and go on from what was kept.
GoesOn(B, more, ms, o) ==
  \E k \in 1..(Len(B) + 1) :
    /\ ParsedAt(B, ms, o).rest = SubSeq(B, k, Len(B))
    /\ ParsedAt(B \o more, ms, o).frames
         = ParsedAt(B, ms, o).frames \o ParsedAt(B \o more, ms, k).frames
    /\ ParsedAt(B \o more, ms, o).rest = ParsedAt(B \o more, ms, k).rest

LEMMA Glue ==
  ASSUME NEW x \in Seq(Seq(Byte)), NEW y \in Seq(Seq(Byte)), NEW z \in Seq(Seq(Byte))
  PROVE  x \o (y \o z) = (x \o y) \o z
<1>1. PICK S : S = Seq(Byte)
  OBVIOUS
<1>2. x \in Seq(S) /\ y \in Seq(S) /\ z \in Seq(S)
  BY <1>1
<1> QED
  BY <1>2, ConcatAssociative

LEMMA ParsedGoesOn ==
  ASSUME NEW B \in Seq(Byte), NEW more \in Seq(Byte), NEW ms
  PROVE  \A o \in 1..(Len(B) + 1) : GoesOn(B, more, ms, o)
<1> DEFINE N == Len(B) + 1
           A == B \o more
           Goes(o) == GoesOn(B, more, ms, o)
           T == {k \in Nat : \A o \in 1..N : o + k > N => Goes(o)}
<1>1. /\ N \in Nat /\ A \in Seq(Byte) /\ Len(A) = Len(B) + Len(more)
      /\ \A i \in 1..Len(B) : A[i] = B[i]
  OBVIOUS
<1> HIDE DEF A
<1>2. 0 \in T
  <2> HIDE DEF Goes
  <2> QED
    BY <1>1
<1>3. ASSUME NEW k \in Nat, k \in T
      PROVE  k + 1 \in T
  <2>1. ASSUME NEW o \in 1..N, o + (k + 1) > N
        PROVE  Goes(o)
    <3>1. o \in 1..(Len(A) + 1) /\ o \in Nat \ {0}
      BY <1>1
    <3>2. SameBehind(A, B, 0, o)
      <4>1. ASSUME NEW i \in Nat, i >= o, i <= Len(B)
            PROVE  i + 0 \in 1..Len(A) /\ A[i + 0] = B[i]
        <5>1. i \in 1..Len(B) /\ i + 0 = i
          BY <3>1, <4>1
        <5> QED
          BY <1>1, <5>1
      <4> QED
        BY <4>1 DEF SameBehind
    <3>3. CASE Stops(B, ms, o)
      <4>1. ParsedAt(B, ms, o).rest = SubSeq(B, o, Len(B)) /\ ParsedAt(B, ms, o).frames = <<>>
        BY <3>3, ParsedStops
      <4>2. ParsedAt(A, ms, o).frames \in Seq(Seq(Byte))
        BY <1>1, <3>1, ParsedIs
      <4>3. <<>> \o ParsedAt(A, ms, o).frames = ParsedAt(A, ms, o).frames
        BY <4>2
      <4> QED
        BY <4>1, <4>3 DEF GoesOn, A
    <3>4. CASE ~Stops(B, ms, o)
      <4>1. /\ ~Stops(A, ms, o) /\ Found(A, ms, o) = Found(B, ms, o)
            /\ Jump(A, ms, o) = Jump(B, ms, o)
        <5>1. o + 0 = o /\ o + 0 >= 1 /\ 0 \in Int
          OBVIOUS
        <5>2. /\ ~Stops(A, ms, o + 0) /\ Found(A, ms, o + 0) = Found(B, ms, o)
              /\ Jump(A, ms, o + 0) = Jump(B, ms, o) + 0
          BY <1>1, <3>1, <3>2, <3>4, <5>1, SameStep
        <5>3. Jump(B, ms, o) \in (o + 1)..(Len(B) + 1)
          BY <3>1, <3>4, StepIs
        <5> QED
          BY <5>1, <5>2, <5>3
      <4>2. PICK j \in 1..N : j = Jump(B, ms, o) /\ j + k > N
        <5>1. Jump(B, ms, o) \in (o + 1)..(Len(B) + 1)
          BY <3>1, <3>4, StepIs
        <5> QED
          BY <2>1, <5>1
      <4>3. PICK l \in 1..N :
              /\ ParsedAt(B, ms, j).rest = SubSeq(B, l, Len(B))
              /\ ParsedAt(A, ms, j).frames = ParsedAt(B, ms, j).frames \o ParsedAt(A, ms, l).frames
              /\ ParsedAt(A, ms, j).rest = ParsedAt(A, ms, l).rest
        <5>1. Goes(j)
          BY <1>3, <4>2
        <5> QED
          BY <5>1 DEF GoesOn, A
      <4>4. /\ ParsedAt(B, ms, o).frames = Found(B, ms, o) \o ParsedAt(B, ms, j).frames
            /\ ParsedAt(B, ms, o).rest = ParsedAt(B, ms, j).rest
        BY <3>4, <4>2, ParsedGoes
      <4>5. /\ ParsedAt(A, ms, o).frames = Found(B, ms, o) \o ParsedAt(A, ms, j).frames
            /\ ParsedAt(A, ms, o).rest = ParsedAt(A, ms, j).rest
        <5>1. /\ ParsedAt(A, ms, o).frames
                   = Found(A, ms, o) \o ParsedAt(A, ms, Jump(A, ms, o)).frames
              /\ ParsedAt(A, ms, o).rest = ParsedAt(A, ms, Jump(A, ms, o)).rest
          BY <1>1, <3>1, <4>1, ParsedGoes
        <5> QED
          BY <4>1, <4>2, <5>1
      <4>6. PICK x \in Seq(Seq(Byte)) : x = Found(B, ms, o)
        BY <3>1, <3>4, StepIs
      <4>7. PICK y \in Seq(Seq(Byte)) : y = ParsedAt(B, ms, j).frames
        BY ParsedIs
      <4>8. PICK z \in Seq(Seq(Byte)) : z = ParsedAt(A, ms, l).frames
        <5>1. l \in 1..(Len(A) + 1)
          BY <1>1
        <5> QED
          BY <1>1, <5>1, ParsedIs
      <4>9. x \o (y \o z) = (x \o y) \o z
        BY Glue
      <4>10. ParsedAt(A, ms, o).frames = ParsedAt(B, ms, o).frames \o ParsedAt(A, ms, l).frames
        BY <4>3, <4>4, <4>5, <4>6, <4>7, <4>8, <4>9
      <4> QED
        BY <4>3, <4>4, <4>5, <4>10 DEF GoesOn, A
    <3> QED
      BY <3>3, <3>4
  <2> HIDE DEF Goes
  <2> QED
    BY <2>1
<1>4. N \in T
  <2> HIDE DEF T
  <2> QED
    BY <1>1, <1>2, <1>3, EveryNat
<1>5. \A o \in 1..N : Goes(o)
  <2> HIDE DEF Goes
  <2> QED
    BY <1>1, <1>4
<1> QED
  BY <1>5

\* Extracting from two pieces in turn is extracting from both at once.
LEMMA ExtractInTurn ==
  ASSUME NEW B \in Seq(Byte), NEW more \in Seq(Byte), NEW ms
  PROVE  LET x == Framing!ExtractFrames(B, ms)
             y == Framing!ExtractFrames(x.rest \o more, ms)
         IN /\ x \in Parsed /\ y \in Parsed /\ x.rest \o more \in Seq(Byte)
            /\ Framing!ExtractFrames(B \o more, ms)
                 = [frames |-> x.frames \o y.frames, rest |-> y.rest]
<1>1. \A C \in Seq(Byte) : /\ 1 \in 1..(Len(C) + 1)
                           /\ Framing!ExtractFrames(C, ms) = ParsedAt(C, ms, 1)
                           /\ ParsedAt(C, ms, 1) \in Parsed
  <2>1. \A C \in Seq(Byte) : 1 \in 1..(Len(C) + 1)
    OBVIOUS
  <2>2. ASSUME NEW C \in Seq(Byte)
        PROVE  Framing!ExtractFrames(C, ms) = ParsedAt(C, ms, 1)
    BY ExtractIs DEF ParsedAt
  <2>3. ASSUME NEW C \in Seq(Byte)
        PROVE  ParsedAt(C, ms, 1) \in Parsed
    BY <2>1, ParsedIs
  <2> QED
    BY <2>1, <2>2, <2>3
<1>2. PICK x : x = Framing!ExtractFrames(B, ms)
  OBVIOUS
<1>3. x \in Parsed /\ x = ParsedAt(B, ms, 1) /\ x.rest \in Seq(Byte) /\ x.frames \in Seq(Seq(Byte))
  BY <1>1, <1>2 DEF Parsed
<1>4. PICK A : A = B \o more
  OBVIOUS
<1>5. /\ A \in Seq(Byte) /\ Len(A) = Len(B) + Len(more)
      /\ \A i \in 1..Len(A) : A[i] = IF i <= Len(B) THEN B[i] ELSE more[i - Len(B)]
  BY <1>4
<1>6. PICK k \in 1..(Len(B) + 1) :
        /\ x.rest = SubSeq(B, k, Len(B))
        /\ ParsedAt(A, ms, 1).frames = x.frames \o ParsedAt(A, ms, k).frames
        /\ ParsedAt(A, ms, 1).rest = ParsedAt(A, ms, k).rest
  <2>1. 1 \in 1..(Len(B) + 1)
    OBVIOUS
  <2>2. GoesOn(B, more, ms, 1)
    BY <2>1, ParsedGoesOn
  <2> QED
    BY <1>3, <1>4, <2>2 DEF GoesOn
<1>7. PICK C : C = x.rest \o more
  OBVIOUS
<1>8. /\ Len(x.rest) = Len(B) - k + 1 /\ \A i \in 1..(Len(B) - k + 1) : x.rest[i] = B[i + k - 1]
  <2>1. CASE k = Len(B) + 1
    BY <1>6, <2>1
  <2>2. CASE k <= Len(B)
    BY <1>6, <2>2
  <2> QED
    BY <2>1, <2>2
<1>9. /\ C \in Seq(Byte) /\ Len(C) = Len(x.rest) + Len(more)
      /\ \A i \in 1..Len(C) : C[i] = IF i <= Len(x.rest) THEN x.rest[i] ELSE more[i - Len(x.rest)]
  BY <1>3, <1>7
<1>10. PICK d \in Nat : d = k - 1
  OBVIOUS
<1>11. Len(A) = Len(C) + d
  BY <1>5, <1>8, <1>9, <1>10
<1>12. ASSUME NEW i \in 1..Len(C)
       PROVE  A[i + d] = C[i]
  <2>1. i + d \in 1..Len(A)
    BY <1>10, <1>11
  <2>2. CASE i <= Len(B) - k + 1
    <3>1. i + d <= Len(B) /\ i + d = i + k - 1 /\ i \in 1..(Len(B) - k + 1)
      BY <1>10, <2>2
    <3>2. A[i + d] = B[i + d]
      BY <1>5, <2>1, <3>1
    <3>3. C[i] = x.rest[i]
      BY <1>8, <1>9, <2>2
    <3>4. x.rest[i] = B[i + k - 1]
      BY <1>8, <3>1
    <3> QED
      BY <3>1, <3>2, <3>3, <3>4
  <2>3. CASE i > Len(B) - k + 1
    <3>1. ~(i + d <= Len(B)) /\ i + d - Len(B) = i - (Len(B) - k + 1)
      BY <1>10, <2>3
    <3> QED
      BY <1>5, <1>8, <1>9, <2>1, <2>3, <3>1
  <2> QED
    BY <2>2, <2>3
<1>13. ParsedAt(A, ms, k) = ParsedAt(C, ms, 1)
  <2>1. \A o \in 1..(Len(C) + 1) : ParsedAt(A, ms, o + d) = ParsedAt(C, ms, o)
    <3>1. Behind(A, C, d)
      BY <1>11, <1>12 DEF Behind
    <3> QED
      BY <1>5, <1>9, <3>1, SuffixParsed
  <2>2. 1 \in 1..(Len(C) + 1) /\ 1 + d = k
    BY <1>1, <1>9, <1>10
  <2> QED
    BY <2>1, <2>2
<1>14. PICK y : y = Framing!ExtractFrames(C, ms)
  OBVIOUS
<1>15. y \in Parsed /\ y = ParsedAt(C, ms, 1)
  BY <1>1, <1>9, <1>14
<1>16. Framing!ExtractFrames(A, ms) = [frames |-> x.frames \o y.frames, rest |-> y.rest]
  <2>1. PICK r : r = Framing!ExtractFrames(A, ms)
    OBVIOUS
  <2>2. r \in Parsed /\ r = ParsedAt(A, ms, 1)
    BY <1>1, <1>5, <2>1
  <2>3. r.frames = x.frames \o y.frames /\ r.rest = y.rest
    BY <1>6, <1>13, <1>15, <2>2
  <2>4. r = [frames |-> r.frames, rest |-> r.rest]
    BY <2>2 DEF Parsed
  <2> QED
    BY <2>1, <2>3, <2>4
<1> QED
  BY <1>2, <1>3, <1>4, <1>7, <1>9, <1>14, <1>15, <1>16

-----------------------------------------------------------------------------
(* Sequences one after the other: the first i of them.                       *)
IsFlat(S, q, f) ==
  /\ f \in [0..Len(q) -> Seq(S)] /\ f[0] = <<>>
  /\ \A i \in 1..Len(q) : f[i] = f[i - 1] \o q[i]

Flat(S, q) == CHOOSE f : IsFlat(S, q, f)

LEMMA FlatExists ==
  ASSUME NEW S, NEW q \in Seq(Seq(S))
  PROVE  IsFlat(S, q, Flat(S, q))
<1> DEFINE n == Len(q)
           T == {k \in Nat : \E f \in [0..n -> Seq(S)] :
                   f[0] = <<>> /\ \A i \in 1..n : i <= k => f[i] = f[i - 1] \o q[i]}
<1>1. n \in Nat /\ q \in [1..n -> Seq(S)]
  OBVIOUS
<1>2. 0 \in T
  <2>1. [i \in 0..n |-> <<>>] \in [0..n -> Seq(S)] /\ [i \in 0..n |-> <<>>][0] = <<>>
    BY <1>1
  <2>2. \A i \in 1..n : ~(i <= 0)
    BY <1>1
  <2> QED
    BY <2>1, <2>2
<1>3. ASSUME NEW k \in Nat, k \in T
      PROVE  k + 1 \in T
  <2>1. PICK f \in [0..n -> Seq(S)] :
          f[0] = <<>> /\ \A i \in 1..n : i <= k => f[i] = f[i - 1] \o q[i]
    BY <1>3
  <2>2. CASE k + 1 \notin 1..n
    <3>1. \A i \in 1..n : i <= k + 1 => i <= k
      BY <1>1, <2>2
    <3> QED
      BY <2>1, <3>1
  <2>3. CASE k + 1 \in 1..n
    <3>1. PICK v : v = f[k] \o q[k + 1]
      OBVIOUS
    <3>2. v \in Seq(S)
      <4>1. k \in 0..n
        BY <1>1, <2>3
      <4>2. f[k] \in Seq(S)
        BY <4>1
      <4>3. q[k + 1] \in Seq(S)
        BY <1>1, <2>3
      <4> QED
        BY <3>1, <4>2, <4>3
    <3>3. PICK g : g = [f EXCEPT ![k + 1] = v]
      OBVIOUS
    <3>4. g \in [0..n -> Seq(S)]
      BY <3>2, <3>3
    <3>5. g[k + 1] = v /\ \A i \in 0..n : i # k + 1 => g[i] = f[i]
      BY <2>3, <3>3
    <3>6. g[0] = <<>>
      BY <1>1, <2>1, <3>5
    <3>7. ASSUME NEW i \in 1..n, i <= k + 1
          PROVE  g[i] = g[i - 1] \o q[i]
      <4>1. g[i - 1] = f[i - 1]
        BY <1>1, <2>3, <3>5, <3>7
      <4>2. CASE i = k + 1
        <5>1. i - 1 = k
          BY <4>2
        <5> QED
          BY <3>1, <3>5, <4>1, <4>2, <5>1
      <4>3. CASE i # k + 1
        <5>1. i <= k /\ i \in 0..n
          BY <1>1, <3>7, <4>3
        <5> QED
          BY <2>1, <3>5, <4>1, <4>3, <5>1
      <4> QED
        BY <4>2, <4>3
    <3>8. \A i \in 1..n : i <= k + 1 => g[i] = g[i - 1] \o q[i]
      BY <3>7
    <3>9. k + 1 \in Nat
      OBVIOUS
    <3> QED
      BY <3>4, <3>6, <3>8, <3>9
  <2> QED
    BY <2>2, <2>3
<1>4. n \in T
  <2> HIDE DEF T
  <2> QED
    BY <1>1, <1>2, <1>3, EveryNat
<1>5. PICK f \in [0..n -> Seq(S)] :
        f[0] = <<>> /\ \A i \in 1..n : i <= n => f[i] = f[i - 1] \o q[i]
  BY <1>4
<1>6. IsFlat(S, q, f)
  BY <1>1, <1>5 DEF IsFlat
<1> QED
  BY <1>6 DEF Flat

\* FlattenSeq of the first k segments.
LEMMA FlattenIs ==
  ASSUME NEW S, NEW q \in Seq(Seq(S)), NEW k \in 0..Len(q)
  PROVE  Framing!FlattenSeq(SubSeq(q, 1, k)) = Flat(S, q)[k] /\ Flat(S, q)[k] \in Seq(S)
<1>1. PICK f : f = Flat(S, q)
  OBVIOUS
<1>2. /\ f \in [0..Len(q) -> Seq(S)] /\ f[0] = <<>>
      /\ \A i \in 1..Len(q) : f[i] = f[i - 1] \o q[i]
  BY <1>1, FlatExists DEF IsFlat
<1>3. PICK p : p = SubSeq(q, 1, k)
  OBVIOUS
<1>4. p \in Seq(Seq(S)) /\ Len(p) = k /\ \A i \in 1..k : p[i] = q[i]
  BY <1>3
<1>5. CASE k = 0
  <2>1. p = <<>> /\ Len(p) = 0
    BY <1>4, <1>5
  <2>2. Framing!FlattenSeq(p) = p
    BY <2>1 DEF Framing!FlattenSeq
  <2> QED
    BY <1>1, <1>2, <1>3, <1>5, <2>1, <2>2
<1>6. CASE k # 0
  <2> DEFINE F == CHOOSE g : g = [i \in 1..Len(p) |-> IF i = 1 THEN p[i] ELSE g[i - 1] \o p[i]]
  <2>1. k \in Nat /\ k >= 1 /\ k <= Len(q)
    BY <1>6
  <2>2. PICK h : h = [i \in 1..k |-> f[i]]
    OBVIOUS
  <2>3. f[1] = q[1]
    <3>1. 1 \in 1..Len(q)
      BY <2>1
    <3>2. f[1] = f[1 - 1] \o q[1]
      BY <1>2, <3>1
    <3>3. q[1] \in Seq(S)
      BY <3>1
    <3>4. <<>> \o q[1] = q[1]
      BY <3>3
    <3>5. f[1 - 1] = <<>>
      BY <1>2
    <3>6. f[1] = <<>> \o q[1]
      BY <3>2, <3>5
    <3> QED
      BY <3>4, <3>6
  <2>4. ASSUME NEW i \in 1..k
        PROVE  h[i] = IF i = 1 THEN p[i] ELSE h[i - 1] \o p[i]
    <3>1. CASE i = 1
      BY <1>4, <2>2, <2>3, <3>1
    <3>2. CASE i # 1
      <4>1. i \in 1..Len(q) /\ i - 1 \in 1..k
        BY <2>1, <3>2
      <4>2. h[i] = f[i] /\ h[i - 1] = f[i - 1] /\ p[i] = q[i]
        BY <1>4, <2>2, <4>1
      <4> QED
        BY <1>2, <3>2, <4>1, <4>2
    <3> QED
      BY <3>1, <3>2
  <2>5. h = [i \in 1..Len(p) |-> IF i = 1 THEN p[i] ELSE h[i - 1] \o p[i]]
    BY <1>4, <2>2, <2>4
  <2>6. F = [i \in 1..Len(p) |-> IF i = 1 THEN p[i] ELSE F[i - 1] \o p[i]]
    BY <2>5
  <2>7. Framing!FlattenSeq(p) = F[Len(p)]
    <3>1. Len(p) # 0
      BY <1>4, <1>6
    <3> QED
      BY <3>1 DEF Framing!FlattenSeq
  <2> HIDE DEF F
  <2>8. PICK g : g = F
    OBVIOUS
  <2>9. \A i \in 1..k : g[i] = IF i = 1 THEN p[i] ELSE g[i - 1] \o p[i]
    BY <1>4, <2>6, <2>8
  <2> DEFINE T == {j \in Nat : \A i \in 1..k : i <= j => g[i] = h[i]}
  <2>10. 0 \in T
    OBVIOUS
  <2>11. ASSUME NEW j \in Nat, j \in T
         PROVE  j + 1 \in T
    <3>1. ASSUME NEW i \in 1..k, i <= j + 1
          PROVE  g[i] = h[i]
      <4>1. CASE i = 1
        BY <2>4, <2>9, <4>1
      <4>2. CASE i # 1
        <5>1. i - 1 \in 1..k /\ i - 1 <= j
          BY <3>1, <4>2
        <5>2. g[i - 1] = h[i - 1]
          BY <2>11, <5>1
        <5> QED
          BY <2>4, <2>9, <4>2, <5>2
      <4> QED
        BY <4>1, <4>2
    <3>2. j + 1 \in Nat /\ \A i \in 1..k : i <= j + 1 => g[i] = h[i]
      BY <3>1
    <3> QED
      BY <3>2
  <2>12. k \in T
    <3> HIDE DEF T
    <3> QED
      BY <2>1, <2>10, <2>11, EveryNat
  <2>13. g[k] = f[k]
    <3>1. \A i \in 1..k : i <= k => g[i] = h[i]
      BY <2>12
    <3>2. k \in 1..k /\ k <= k
      BY <2>1
    <3>3. g[k] = h[k]
      BY <3>1, <3>2
    <3> QED
      BY <2>2, <3>2, <3>3
  <2> QED
    BY <1>1, <1>2, <1>3, <1>4, <2>1, <2>7, <2>8, <2>13
<1> QED
  BY <1>5, <1>6

LEMMA FirstGoOn ==
  ASSUME NEW w \in Seq(Byte), NEW m \in Nat, NEW n \in Nat, m + n <= Len(w)
  PROVE  /\ SubSeq(w, 1, m) \in Seq(Byte) /\ SubSeq(w, m + 1, m + n) \in Seq(Byte)
         /\ SubSeq(w, 1, m + n) = SubSeq(w, 1, m) \o SubSeq(w, m + 1, m + n)
<1>1. PICK a : a = SubSeq(w, 1, m)
  OBVIOUS
<1>2. PICK b : b = SubSeq(w, m + 1, m + n)
  OBVIOUS
<1>3. PICK z : z = SubSeq(w, 1, m + n)
  OBVIOUS
<1>4. PICK y : y = a \o b
  OBVIOUS
<1>5. a \in Seq(Byte) /\ Len(a) = m /\ \A i \in 1..m : a[i] = w[i]
  BY <1>1
<1>6. b \in Seq(Byte) /\ Len(b) = n /\ \A i \in 1..n : b[i] = w[m + i]
  <2>1. PICK k : k = m + 1
    OBVIOUS
  <2>2. PICK l : l = m + n
    OBVIOUS
  <2>3. k \in 1..(Len(w) + 1) /\ l \in (k - 1)..Len(w) /\ l - k + 1 = n
    BY <2>1, <2>2
  <2>4. b = SubSeq(w, k, l)
    BY <1>2, <2>1, <2>2
  <2>5. /\ b \in Seq(Byte) /\ Len(b) = l - k + 1
        /\ \A i \in 1..(l - k + 1) : b[i] = w[k + i - 1]
    BY <2>3, <2>4, SubSeqProperties
  <2>6. \A i \in 1..n : k + i - 1 = m + i
    BY <2>1
  <2> QED
    BY <2>3, <2>5, <2>6
<1>7. z \in Seq(Byte) /\ Len(z) = m + n /\ \A i \in 1..(m + n) : z[i] = w[i]
  BY <1>3
<1>8. /\ y \in Seq(Byte) /\ Len(y) = m + n
      /\ \A i \in 1..(m + n) : y[i] = IF i <= m THEN a[i] ELSE b[i - m]
  BY <1>4, <1>5, <1>6, ConcatProperties
<1>9. ASSUME NEW i \in 1..(m + n)
      PROVE  y[i] = w[i]
  <2>1. CASE i <= m
    BY <1>5, <1>8, <2>1
  <2>2. CASE i > m
    <3>1. PICK j : j = i - m
      OBVIOUS
    <3>2. j \in 1..n /\ m + j = i /\ ~(i <= m)
      BY <2>2, <3>1
    <3> QED
      BY <1>6, <1>8, <3>1, <3>2
  <2> QED
    BY <2>1, <2>2
<1>10. z = y
  <2>1. z \in [1..(m + n) -> Byte] /\ y \in [1..(m + n) -> Byte]
    BY <1>7, <1>8
  <2> QED
    BY <1>7, <1>9, <2>1
<1> QED
  BY <1>1, <1>2, <1>3, <1>4, <1>5, <1>6, <1>10

LEMMA WireIs ==
  ASSUME stream \in Seq(Seq(Byte))
  PROVE  Framing!Wire = Flat(Byte, stream)[Len(stream)] /\ Framing!Wire \in Seq(Byte)
<1>1. SubSeq(stream, 1, Len(stream)) = stream /\ Len(stream) \in 0..Len(stream)
  OBVIOUS
<1>2. Framing!FlattenSeq(SubSeq(stream, 1, Len(stream))) = Flat(Byte, stream)[Len(stream)]
  BY <1>1, FlattenIs
<1>3. Flat(Byte, stream)[Len(stream)] \in Seq(Byte)
  BY <1>1, FlattenIs
<1> QED
  BY <1>1, <1>2, <1>3 DEF Framing!Wire
-----------------------------------------------------------------------------
(* The connection.                                                           *)
Arrived == SubSeq(Framing!Wire, 1, read)

FramingInv ==
  /\ stream \in Seq(Seq(Byte)) /\ read \in 0..Len(Framing!Wire)
  /\ protocol \in {"gt06", "gt06_v2", "none", "unknown"}
  /\ protocol = "none" => buffer = Arrived /\ frames = <<>>
  /\ Framing!CutsDoNotMatter

LEMMA MarkersOf ==
  /\ DOMAIN Framing!MarkerOf = {"gt06", "gt06_v2"}
  /\ Framing!MarkerOf["gt06"] = Framing!Classic /\ Framing!MarkerOf["gt06_v2"] = Framing!Long
BY DEF Framing!MarkerOf

LEMMA FramingStarts ==
  ASSUME Framing!ByteStreams, Framing!Init
  PROVE  FramingInv
<1>1. stream \in Seq(Seq(Byte)) /\ read = 0 /\ protocol = "none" /\ buffer = <<>> /\ frames = <<>>
  BY DEF Framing!ByteStreams, Framing!Init, Byte
<1>2. Framing!Wire \in Seq(Byte)
  BY <1>1, WireIs
<1>3. Arrived = <<>> /\ read \in 0..Len(Framing!Wire)
  BY <1>1, <1>2 DEF Arrived
<1> QED
  BY <1>1, <1>3, MarkersOf DEF FramingInv, Framing!CutsDoNotMatter

LEMMA FramingReads ==
  ASSUME FramingInv, NEW n \in Nat, Framing!Read(n)
  PROVE  FramingInv'
<1>1. stream' = stream /\ Framing!Wire' = Framing!Wire /\ Framing!Wire \in Seq(Byte)
  <2>1. stream' = stream
    BY DEF Framing!Read
  <2> QED
    BY <2>1, WireIs DEF FramingInv, Framing!Wire
<1>2. /\ protocol # "unknown" /\ read + n <= Len(Framing!Wire) /\ read' = read + n
  BY DEF Framing!Read
<1>3. PICK more : more = SubSeq(Framing!Wire, read + 1, read + n)
  OBVIOUS
<1>4. PICK bytes : bytes = buffer \o more
  OBVIOUS
<1>5. PICK proto : proto = IF protocol # "none" THEN protocol
                           ELSE IF Len(bytes) < 2 THEN "none" ELSE Framing!Detected(bytes)
  OBVIOUS
<1>6. /\ protocol' = proto
      /\ proto \in DOMAIN Framing!MarkerOf =>
           /\ buffer' = Framing!ExtractFrames(bytes, {Framing!MarkerOf[proto]}).rest
           /\ frames' = frames \o Framing!ExtractFrames(bytes, {Framing!MarkerOf[proto]}).frames
      /\ proto \notin DOMAIN Framing!MarkerOf => buffer' = bytes /\ frames' = frames
  BY <1>3, <1>4, <1>5 DEF Framing!Read
<1>7. read \in Nat /\ read' \in 0..Len(Framing!Wire)
  BY <1>1, <1>2 DEF FramingInv
<1>8. Arrived \in Seq(Byte) /\ more \in Seq(Byte) /\ Arrived' = Arrived \o more
  <2>1. PICK w : w = Framing!Wire
    OBVIOUS
  <2>2. w \in Seq(Byte) /\ read \in Nat /\ read + n <= Len(w)
    BY <1>1, <1>2, <1>7, <2>1
  <2>3. Arrived = SubSeq(w, 1, read) /\ Arrived' = SubSeq(w, 1, read + n)
    BY <1>1, <1>2, <2>1 DEF Arrived
  <2> QED
    BY <1>3, <2>1, <2>2, <2>3, FirstGoOn
<1>9. protocol = "none" => buffer = Arrived /\ frames = <<>> /\ bytes = Arrived'
  BY <1>4, <1>8 DEF FramingInv
<1>10. proto \in {"gt06", "gt06_v2", "none", "unknown"}
  <2>1. Framing!Detected(bytes) \in {"gt06", "gt06_v2", "unknown"}
    BY MarkersOf DEF Framing!Detected
  <2> QED
    BY <1>5, <2>1 DEF FramingInv
<1>11. protocol' = "none" => buffer' = Arrived' /\ frames' = <<>>
  <2>1. proto = "none" => protocol = "none" /\ proto \notin DOMAIN Framing!MarkerOf
    BY <1>5, MarkersOf
  <2> QED
    BY <1>6, <1>9, <2>1
<1>12. Framing!CutsDoNotMatter'
  <2> SUFFICES ASSUME proto \in DOMAIN Framing!MarkerOf
               PROVE  [frames |-> frames', rest |-> buffer']
                        = Framing!ExtractFrames(Arrived', {Framing!MarkerOf[proto]})
    <3>1. (SubSeq(Framing!Wire, 1, read))' = Arrived'
      BY DEF Arrived
    <3> QED
      BY <1>6, <3>1 DEF Framing!CutsDoNotMatter
  <2>1. PICK ms : ms = {Framing!MarkerOf[proto]}
    OBVIOUS
  <2>2. PICK y : y = Framing!ExtractFrames(bytes, ms)
    OBVIOUS
  <2>3. buffer' = y.rest /\ frames' = frames \o y.frames
    BY <1>6, <2>1, <2>2
  <2>4. CASE protocol = "none"
    <3>1. bytes \in Seq(Byte) /\ frames = <<>> /\ bytes = Arrived'
      <4>1. Arrived \o more \in Seq(Byte)
        BY <1>8
      <4> QED
        BY <1>8, <1>9, <2>4, <4>1
    <3>2. y = ParsedAt(bytes, ms, 1) /\ 1 \in 1..(Len(bytes) + 1)
      BY <2>2, <3>1, ExtractIs DEF ParsedAt
    <3>3. y \in Parsed
      BY <3>1, <3>2, ParsedIs
    <3>4. y = [frames |-> y.frames, rest |-> y.rest] /\ <<>> \o y.frames = y.frames
      BY <3>3 DEF Parsed
    <3> QED
      BY <2>1, <2>2, <2>3, <3>1, <3>4
  <2>5. CASE protocol # "none"
    <3>1. proto = protocol
      BY <1>5, <2>5
    <3>2. [frames |-> frames, rest |-> buffer] = Framing!ExtractFrames(Arrived, ms)
      BY <2>1, <3>1 DEF FramingInv, Framing!CutsDoNotMatter, Arrived
    <3>3. PICK x : x = Framing!ExtractFrames(Arrived, ms)
      OBVIOUS
    <3>4. x.frames = frames /\ x.rest = buffer
      BY <3>2, <3>3
    <3>5. Framing!ExtractFrames(Arrived \o more, ms)
            = [frames |-> x.frames \o Framing!ExtractFrames(x.rest \o more, ms).frames,
               rest |-> Framing!ExtractFrames(x.rest \o more, ms).rest]
      BY <1>8, <3>3, ExtractInTurn
    <3> QED
      BY <1>4, <1>8, <2>1, <2>2, <2>3, <3>4, <3>5
  <2> QED
    BY <2>4, <2>5
<1>13. stream' \in Seq(Seq(Byte)) /\ read' \in 0..Len(Framing!Wire')
  BY <1>1, <1>7 DEF FramingInv
<1> QED
  BY <1>6, <1>10, <1>11, <1>12, <1>13 DEF FramingInv

LEMMA FramingKeeps ==
  ASSUME Framing!ByteStreams, FramingInv, [Framing!Next]_(Framing!vars)
  PROVE  FramingInv'
<1>1. CASE Framing!Next
  <2>1. PICK n \in 1..MaxRead : Framing!Read(n)
    BY <1>1 DEF Framing!Next
  <2>2. n \in Nat
    BY <2>1 DEF Framing!ByteStreams
  <2> QED
    BY <2>1, <2>2, FramingReads
<1>2. CASE UNCHANGED Framing!vars
  BY <1>2 DEF Framing!vars, FramingInv, Framing!CutsDoNotMatter, Framing!Wire, Arrived
<1> QED
  BY <1>1, <1>2

(* Whatever bytes arrive and wherever TCP cuts them, the frames that         *)
(* extract_frames finds read by read, and the bytes it keeps for the next,   *)
(* are those one read of everything would give.                              *)
THEOREM CutsNeverMatter ==
  ASSUME Framing!ByteStreams
  PROVE  Framing!Spec => []Framing!CutsDoNotMatter
<1>1. Framing!Init => FramingInv
  BY FramingStarts
<1>2. FramingInv /\ [Framing!Next]_(Framing!vars) => FramingInv'
  BY FramingKeeps
<1>3. FramingInv => Framing!CutsDoNotMatter
  BY DEF FramingInv
<1> QED
  BY <1>1, <1>2, <1>3, PTL DEF Framing!Spec

-----------------------------------------------------------------------------
(* What comes out of segments that are frames, or nothing like one.          *)
Quiet(g, m) == \A i \in 1..Len(g) : g[i] # m[1]

LEMMA MarkersAre ==
  ASSUME NEW m \in Markers
  PROVE  m \in Seq(Byte) /\ Len(m) = 2 /\ Framing!LengthSize(m) \in {1, 2}
BY MarkersDiffer, LengthSizes DEF Markers

LEMMA NothingStarts ==
  ASSUME NEW m \in Markers, NEW b \in Seq(Byte), \A i \in 1..(Len(b) - 1) : b[i] # m[1]
  PROVE  ParsedAt(b, {m}, 1).frames = <<>> /\ ParsedAt(b, {m}, 1).rest = b
<1>1. ASSUME NEW i \in 1..(Len(b) - 1), SubSeq(b, i, i + 1) = m
      PROVE  FALSE
  <2>1. PICK w : w = SubSeq(b, i, i + 1)
    OBVIOUS
  <2>2. w[1] = b[i]
    BY <2>1
  <2> QED
    BY <1>1, <2>1, <2>2
<1>2. Starts(b, {m}, 1) = {}
  BY <1>1 DEF Starts
<1>3. Stops(b, {m}, 1) /\ 1 \in 1..(Len(b) + 1)
  BY <1>2 DEF Stops
<1>4. SubSeq(b, 1, Len(b)) = b
  OBVIOUS
<1> QED
  BY <1>3, <1>4, ParsedStops

\* Behind bytes that say nothing, the marker is found where it is.
LEMMA MarkerFound ==
  ASSUME NEW m \in Markers, NEW g \in Seq(Byte), Quiet(g, m), NEW p \in Seq(Byte),
         Len(p) >= 2, p[1] = m[1], p[2] = m[2]
  PROVE  /\ Starts(g \o p, {m}, 1) # {} /\ First(g \o p, {m}, 1) = Len(g) + 1
         /\ At(g \o p, Len(g) + 1) = m
<1>1. PICK b : b = g \o p
  OBVIOUS
<1>2. PICK s : s = Len(g) + 1
  OBVIOUS
<1>3. /\ b \in Seq(Byte) /\ Len(b) = Len(g) + Len(p)
      /\ \A i \in 1..(Len(g) + Len(p)) : b[i] = IF i <= Len(g) THEN g[i] ELSE p[i - Len(g)]
  BY <1>1, ConcatProperties
<1>4. s \in 1..(Len(b) - 1) /\ s \in Nat /\ s > Len(g)
  BY <1>2, <1>3
<1>5. b[s] = m[1] /\ b[s + 1] = m[2]
  <2>1. s \in 1..(Len(g) + Len(p)) /\ ~(s <= Len(g)) /\ s - Len(g) = 1
    BY <1>2, <1>3, <1>4
  <2>2. b[s] = p[1]
    BY <1>3, <2>1
  <2>3. s + 1 \in 1..(Len(g) + Len(p)) /\ ~(s + 1 <= Len(g)) /\ (s + 1) - Len(g) = 2
    BY <1>2, <1>3, <1>4
  <2>4. b[s + 1] = p[2]
    BY <1>3, <2>3
  <2> QED
    BY <2>2, <2>4
<1>6. At(b, s) = m
  <2>1. PICK w : w = SubSeq(b, s, s + 1)
    OBVIOUS
  <2>2. w \in Seq(Byte) /\ Len(w) = 2 /\ w[1] = b[s] /\ w[2] = b[s + 1]
    BY <1>3, <1>4, <2>1
  <2>3. w = m
    BY <1>5, <2>2, MarkersAre, SeqEqual
  <2> QED
    BY <2>1, <2>3 DEF At
<1>7. s \in Starts(b, {m}, 1)
  BY <1>4, <1>6 DEF Starts, At
<1>8. ASSUME NEW i \in Starts(b, {m}, 1)
      PROVE  s <= i
  <2>1. i \in 1..(Len(b) - 1) /\ SubSeq(b, i, i + 1) = m
    BY <1>8 DEF Starts
  <2>2. PICK w : w = SubSeq(b, i, i + 1)
    OBVIOUS
  <2>3. w[1] = b[i]
    BY <1>3, <2>1, <2>2
  <2>4. b[i] = m[1]
    BY <2>1, <2>2, <2>3
  <2>5. CASE i <= Len(g)
    <3>1. b[i] = g[i]
      BY <1>3, <2>1, <2>5
    <3> QED
      BY <2>1, <2>4, <2>5, <3>1 DEF Quiet
  <2>6. CASE ~(i <= Len(g))
    BY <1>2, <2>1, <2>6
  <2> QED
    BY <2>5, <2>6
<1>9. Starts(b, {m}, 1) \subseteq Nat
  BY <1>3, StartsAreNat
<1>10. First(b, {m}, 1) = s
  BY <1>7, <1>8, <1>9, MinIsOnly DEF First
<1> QED
  BY <1>1, <1>2, <1>6, <1>7, <1>10

\* The length field is read behind the marker.
LEMMA SizeBehind ==
  ASSUME NEW m \in Markers, NEW g \in Seq(Byte), NEW p \in Seq(Byte),
         At(g \o p, Len(g) + 1) = m, Len(p) >= 2 + Framing!LengthSize(m)
  PROVE  Size(g \o p, Len(g) + 1)
           = 4 + Framing!LengthSize(m) + Framing!LengthField(p, 1, m)
<1>1. PICK b : b = g \o p
  OBVIOUS
<1>2. PICK s : s = Len(g) + 1
  OBVIOUS
<1>3. /\ b \in Seq(Byte) /\ Len(b) = Len(g) + Len(p) /\ Len(g) \in Nat
      /\ \A i \in 1..(Len(g) + Len(p)) : b[i] = IF i <= Len(g) THEN g[i] ELSE p[i - Len(g)]
  BY <1>1, ConcatProperties
<1>4. PICK l \in {1, 2} : l = Framing!LengthSize(m)
  BY MarkersAre
<1>5. b[s + 2] = p[3]
  <2>1. s + 2 \in 1..(Len(g) + Len(p)) /\ ~(s + 2 <= Len(g)) /\ (s + 2) - Len(g) = 3
    BY <1>2, <1>3, <1>4
  <2> QED
    BY <1>3, <2>1
<1>6. l = 2 => b[s + 3] = p[4]
  <2> SUFFICES ASSUME l = 2 PROVE b[s + 3] = p[4]
    OBVIOUS
  <2>1. s + 3 \in 1..(Len(g) + Len(p)) /\ ~(s + 3 <= Len(g)) /\ (s + 3) - Len(g) = 4
    BY <1>2, <1>3, <1>4
  <2> QED
    BY <1>3, <2>1
<1>7. p[3] \in Byte /\ (l = 2 => p[4] \in Byte)
  BY <1>4
<1>8. Framing!TotalSize(b, s, m) = 2 + l + Framing!LengthField(b, s, m) + 2
  BY <1>4 DEF Framing!TotalSize
<1>9. Framing!LengthField(b, s, m) = Framing!LengthField(p, 1, m)
      /\ Framing!LengthField(p, 1, m) \in Nat
  <2>1. CASE l = 1
    <3>1. PICK u \in Byte : u = p[3]
      BY <1>7
    <3>2. Framing!LengthField(b, s, m) = b[s + 2] /\ Framing!LengthField(p, 1, m) = p[1 + 2]
      BY <1>4, <2>1 DEF Framing!LengthField
    <3>3. p[1 + 2] = p[3]
      OBVIOUS
    <3>4. Framing!LengthField(b, s, m) = u /\ Framing!LengthField(p, 1, m) = u
      BY <1>5, <3>1, <3>2, <3>3
    <3> QED
      BY <3>4 DEF Byte
  <2>2. CASE l = 2
    <3>1. PICK u \in Byte : u = p[3]
      BY <1>7
    <3>2. PICK v \in Byte : v = p[4]
      BY <1>7, <2>2
    <3>3. Framing!LengthField(b, s, m) = 256 * b[s + 2] + b[s + 3]
      BY <1>4, <2>2 DEF Framing!LengthField
    <3>4. Framing!LengthField(p, 1, m) = 256 * p[1 + 2] + p[1 + 3]
      BY <1>4, <2>2 DEF Framing!LengthField
    <3>5. p[1 + 2] = u /\ p[1 + 3] = v /\ b[s + 2] = u /\ b[s + 3] = v
      BY <1>5, <1>6, <2>2, <3>1, <3>2
    <3>6. /\ Framing!LengthField(b, s, m) = 256 * u + v
          /\ Framing!LengthField(p, 1, m) = 256 * u + v
      BY <3>3, <3>4, <3>5
    <3> QED
      BY <3>6 DEF Byte
  <2> QED
    BY <2>1, <2>2
<1>10. PICK z \in Nat : z = Framing!LengthField(p, 1, m)
  BY <1>9
<1>11. Size(b, s) = 4 + l + z
  BY <1>1, <1>2, <1>8, <1>9, <1>10 DEF Size
<1> QED
  BY <1>1, <1>2, <1>4, <1>10, <1>11

LEMMA Fits ==
  ASSUME NEW m \in Markers, NEW p \in Seq(Byte), Framing!WellFormed(p, m)
  PROVE  /\ Len(p) >= 2 + Framing!LengthSize(m) /\ p[1] = m[1] /\ p[2] = m[2]
         /\ Len(p) = 4 + Framing!LengthSize(m) + Framing!LengthField(p, 1, m)
         /\ Framing!IsSuffix(Framing!Stop, p)
<1>1. PICK l \in {1, 2} : l = Framing!LengthSize(m)
  BY MarkersAre
<1>2. Len(p) >= 2 + l
  BY <1>1 DEF Framing!WellFormed
<1>3. p[1] = m[1] /\ p[2] = m[2]
  <2>1. Framing!IsPrefix(m, p)
    BY DEF Framing!WellFormed
  <2>2. Len(m) = 2 /\ m \in Seq(Byte)
    BY MarkersAre
  <2>3. SubSeq(m, 1, 2) = SubSeq(p, 1, 2)
    BY <2>1, <2>2 DEF Framing!IsPrefix
  <2>4. PICK w : w = SubSeq(m, 1, 2)
    OBVIOUS
  <2>5. w[1] = m[1] /\ w[2] = m[2]
    BY <2>2, <2>4
  <2>6. w[1] = p[1] /\ w[2] = p[2]
    BY <1>1, <1>2, <2>3, <2>4
  <2> QED
    BY <2>5, <2>6
<1>4. Framing!LengthField(p, 1, m) \in Nat
  <2>1. CASE l = 1
    <3>1. PICK u \in Byte : u = p[3]
      BY <1>2
    <3>2. p[1 + 2] = p[3]
      OBVIOUS
    <3>3. Framing!LengthField(p, 1, m) = p[1 + 2]
      BY <1>1, <2>1 DEF Framing!LengthField
    <3>4. Framing!LengthField(p, 1, m) = u
      BY <3>1, <3>2, <3>3
    <3> QED
      BY <3>4 DEF Byte
  <2>2. CASE l = 2
    <3>1. PICK u \in Byte : u = p[3]
      BY <1>2
    <3>2. PICK v \in Byte : v = p[4]
      BY <1>2, <2>2
    <3>3. Framing!LengthField(p, 1, m) = 256 * u + v
      BY <1>1, <2>2, <3>1, <3>2 DEF Framing!LengthField
    <3> QED
      BY <3>3 DEF Byte
  <2> QED
    BY <2>1, <2>2
<1>5. PICK z \in Nat : z = Framing!LengthField(p, 1, m)
  BY <1>4
<1>6. Len(p) - z = 4 + l /\ Framing!IsSuffix(Framing!Stop, p)
  BY <1>1, <1>5 DEF Framing!WellFormed
<1>7. Len(p) = 4 + l + z
  BY <1>5, <1>6
<1> QED
  BY <1>1, <1>2, <1>3, <1>5, <1>6, <1>7

\* A frame is taken, whatever silence goes before it.
LEMMA TakesFrame ==
  ASSUME NEW m \in Markers, NEW g \in Seq(Byte), Quiet(g, m), NEW p \in Seq(Byte),
         Framing!WellFormed(p, m)
  PROVE  ParsedAt(g \o p, {m}, 1).frames = <<p>> /\ ParsedAt(g \o p, {m}, 1).rest = <<>>
<1>1. PICK b : b = g \o p
  OBVIOUS
<1>2. PICK s : s = Len(g) + 1
  OBVIOUS
<1>3. /\ b \in Seq(Byte) /\ Len(b) = Len(g) + Len(p) /\ Len(g) \in Nat
      /\ \A i \in 1..(Len(g) + Len(p)) : b[i] = IF i <= Len(g) THEN g[i] ELSE p[i - Len(g)]
  BY <1>1, ConcatProperties
<1>4. PICK l \in {1, 2} : l = Framing!LengthSize(m)
  BY MarkersAre
<1>5. Len(p) >= 2 + l /\ p[1] = m[1] /\ p[2] = m[2] /\ Framing!IsSuffix(Framing!Stop, p)
  BY <1>4, Fits
<1>6. Len(p) >= 2
  BY <1>4, <1>5
<1>7. Starts(b, {m}, 1) # {} /\ First(b, {m}, 1) = s /\ At(b, s) = m
  BY <1>1, <1>2, <1>5, <1>6, MarkerFound
<1>8. Size(b, s) = Len(p)
  <2>1. Len(p) >= 2 + Framing!LengthSize(m) /\ At(g \o p, Len(g) + 1) = m
    BY <1>1, <1>2, <1>4, <1>5, <1>7
  <2>2. Size(g \o p, Len(g) + 1) = 4 + Framing!LengthSize(m) + Framing!LengthField(p, 1, m)
    BY <2>1, SizeBehind
  <2> QED
    BY <1>1, <1>2, <2>2, Fits
<1>9. ~Cut(b, s)
  <2>1. ~(s + 1 + l > Len(b)) /\ ~(s + Len(p) - 1 > Len(b))
    BY <1>2, <1>3, <1>4, <1>5
  <2> QED
    BY <1>4, <1>7, <1>8, <2>1 DEF Cut
<1>10. Candidate(b, s) = p
  <2>1. PICK e : e = s + Len(p) - 1
    OBVIOUS
  <2>2. e = Len(b) /\ s \in 1..Len(b) /\ e - s + 1 = Len(p)
    BY <1>2, <1>3, <1>6, <2>1
  <2>3. PICK w : w = SubSeq(b, s, e)
    OBVIOUS
  <2>4. w \in Seq(Byte) /\ Len(w) = Len(p) /\ \A i \in 1..Len(p) : w[i] = b[s + i - 1]
    BY <1>3, <2>2, <2>3
  <2>5. ASSUME NEW i \in 1..Len(p)
        PROVE  w[i] = p[i]
    <3>1. PICK j : j = s + i - 1
      OBVIOUS
    <3>2. j \in 1..(Len(g) + Len(p)) /\ ~(j <= Len(g)) /\ j - Len(g) = i
      BY <1>2, <1>3, <3>1
    <3> QED
      BY <1>3, <2>4, <3>1, <3>2
  <2>6. w = p
    BY <2>4, <2>5, SeqEqual
  <2> QED
    BY <1>8, <2>1, <2>3, <2>6 DEF Candidate
<1>11. ~Stops(b, {m}, 1) /\ Found(b, {m}, 1) = <<p>> /\ Jump(b, {m}, 1) = s + Len(p)
  BY <1>5, <1>7, <1>8, <1>9, <1>10 DEF Stops, Found, Jump, Ends
<1>12. PICK e : e = s + Len(p)
  OBVIOUS
<1>13. e = Len(b) + 1 /\ e \in 1..(Len(b) + 1) /\ 1 \in 1..(Len(b) + 1)
  BY <1>2, <1>3, <1>12
<1>14. ParsedAt(b, {m}, e).frames = <<>> /\ ParsedAt(b, {m}, e).rest = <<>>
  <2>1. Starts(b, {m}, e) = {}
    BY <1>3, <1>13 DEF Starts
  <2>2. Stops(b, {m}, e)
    BY <2>1 DEF Stops
  <2>3. SubSeq(b, e, Len(b)) = <<>>
    BY <1>3, <1>13
  <2> QED
    BY <1>3, <1>13, <2>2, <2>3, ParsedStops
<1>15. ParsedAt(b, {m}, 1).frames = <<p>> \o <<>> /\ ParsedAt(b, {m}, 1).rest = <<>>
  <2>1. /\ ParsedAt(b, {m}, 1).frames
              = Found(b, {m}, 1) \o ParsedAt(b, {m}, Jump(b, {m}, 1)).frames
        /\ ParsedAt(b, {m}, 1).rest = ParsedAt(b, {m}, Jump(b, {m}, 1)).rest
    BY <1>3, <1>11, <1>13, ParsedGoes
  <2>2. Jump(b, {m}, 1) = e
    BY <1>11, <1>12
  <2> QED
    BY <1>11, <1>14, <2>1, <2>2
<1>16. <<p>> \o <<>> = <<p>>
  <2>1. <<p>> \in Seq(Seq(Byte))
    OBVIOUS
  <2> QED
    BY <2>1, ConcatEmptySeq
<1> QED
  BY <1>1, <1>15, <1>16

\* A frame of which the end is still to come is not.
LEMMA WaitsForFrame ==
  ASSUME NEW m \in Markers, NEW g \in Seq(Byte), Quiet(g, m), NEW f \in Seq(Byte),
         Framing!WellFormed(f, m), NEW n \in Nat, n < Len(f)
  PROVE  ParsedAt(g \o SubSeq(f, 1, n), {m}, 1).frames = <<>>
<1>1. PICK p : p = SubSeq(f, 1, n)
  OBVIOUS
<1>2. p \in Seq(Byte) /\ Len(p) = n /\ \A i \in 1..n : p[i] = f[i]
  BY <1>1
<1>3. PICK b : b = g \o p
  OBVIOUS
<1>4. PICK s : s = Len(g) + 1
  OBVIOUS
<1>5. /\ b \in Seq(Byte) /\ Len(b) = Len(g) + n /\ Len(g) \in Nat
      /\ \A i \in 1..(Len(g) + n) : b[i] = IF i <= Len(g) THEN g[i] ELSE p[i - Len(g)]
  <2>1. /\ b \in Seq(Byte) /\ Len(b) = Len(g) + Len(p)
        /\ \A i \in 1..(Len(g) + Len(p)) : b[i] = IF i <= Len(g) THEN g[i] ELSE p[i - Len(g)]
    BY <1>2, <1>3, ConcatProperties
  <2>2. Len(g) \in Nat
    OBVIOUS
  <2> QED
    BY <1>2, <2>1, <2>2
<1>6. PICK l \in {1, 2} : l = Framing!LengthSize(m)
  BY MarkersAre
<1>7. /\ Len(f) >= 2 + l /\ f[1] = m[1] /\ f[2] = m[2]
      /\ Len(f) = 4 + l + Framing!LengthField(f, 1, m)
  BY <1>6, Fits
<1>8. CASE n < 2
  <2>1. ASSUME NEW i \in 1..(Len(b) - 1)
        PROVE  b[i] # m[1]
    <3>1. i \in 1..Len(g) /\ i <= Len(g) /\ i \in 1..(Len(g) + n)
      BY <1>5, <1>8
    <3>2. b[i] = g[i]
      BY <1>5, <3>1
    <3> QED
      BY <3>1, <3>2 DEF Quiet
  <2> QED
    BY <1>1, <1>3, <1>5, <2>1, NothingStarts
<1>9. CASE n >= 2
  <2>1. p[1] = m[1] /\ p[2] = m[2] /\ Len(p) >= 2
    BY <1>2, <1>7, <1>9
  <2>2. Starts(b, {m}, 1) # {} /\ First(b, {m}, 1) = s /\ At(b, s) = m
    BY <1>2, <1>3, <1>4, <2>1, MarkerFound
  <2>3. Cut(b, s)
    <3>1. CASE n < 2 + l
      <4>1. s + 1 + l > Len(b)
        BY <1>4, <1>5, <1>6, <3>1
      <4> QED
        BY <1>6, <2>2, <4>1 DEF Cut
    <3>2. CASE n >= 2 + l
      <4>1. Framing!LengthField(p, 1, m) = Framing!LengthField(f, 1, m)
        <5>1. p[1 + 2] = f[1 + 2] /\ (l = 2 => p[1 + 3] = f[1 + 3])
          BY <1>2, <1>6, <3>2
        <5> QED
          BY <1>6, <5>1 DEF Framing!LengthField
      <4>2. Len(p) >= 2 + Framing!LengthSize(m) /\ At(g \o p, Len(g) + 1) = m
        BY <1>2, <1>3, <1>4, <1>6, <2>2, <3>2
      <4>3. Size(g \o p, Len(g) + 1)
              = 4 + Framing!LengthSize(m) + Framing!LengthField(p, 1, m)
        BY <1>2, <4>2, SizeBehind
      <4>4. Size(b, s) = Len(f)
        BY <1>3, <1>4, <1>6, <1>7, <4>1, <4>3
      <4>5. s + Len(f) - 1 > Len(b)
        BY <1>4, <1>5
      <4> QED
        BY <4>4, <4>5 DEF Cut
    <3> QED
      BY <1>6, <3>1, <3>2
  <2>4. Stops(b, {m}, 1) /\ 1 \in 1..(Len(b) + 1)
    BY <1>5, <2>2, <2>3 DEF Stops
  <2> QED
    BY <1>1, <1>3, <1>5, <2>4, ParsedStops
<1> QED
  BY <1>8, <1>9

-----------------------------------------------------------------------------
\* The frames among the segments, and their bytes so far.
Chosen(q, m) == [i \in 1..Len(q) |-> IF Framing!WellFormed(q[i], m) THEN <<q[i]>> ELSE <<>>]

FramesOrQuiet(q, m) ==
  \A i \in 1..Len(q) : Framing!WellFormed(q[i], m) \/ Quiet(q[i], m)

LEMMA ChosenIs ==
  ASSUME NEW q \in Seq(Seq(Byte)), NEW m
  PROVE  Chosen(q, m) \in Seq(Seq(Seq(Byte))) /\ Len(Chosen(q, m)) = Len(q)
<1>1. \A i \in 1..Len(q) : q[i] \in Seq(Byte)
  OBVIOUS
<1>2. ASSUME NEW i \in 1..Len(q)
      PROVE  (IF Framing!WellFormed(q[i], m) THEN <<q[i]>> ELSE <<>>) \in Seq(Seq(Byte))
  <2>1. q[i] \in Seq(Byte)
    BY <1>1
  <2>2. <<q[i]>> \in Seq(Seq(Byte)) /\ <<>> \in Seq(Seq(Byte))
    BY <2>1
  <2> QED
    BY <2>2
<1>3. Chosen(q, m) \in [1..Len(q) -> Seq(Seq(Byte))]
  BY <1>2 DEF Chosen
<1>4. PICK n \in Nat : n = Len(q)
  OBVIOUS
<1>5. PICK S : S = Seq(Seq(Byte))
  OBVIOUS
<1>6. PICK f : f = Chosen(q, m)
  OBVIOUS
<1>7. f \in [1..n -> S]
  BY <1>3, <1>4, <1>5, <1>6
<1>8. f \in Seq(S) /\ Len(f) = n
  BY <1>7
<1> QED
  BY <1>4, <1>5, <1>6, <1>8

LEMMA QuietJoins ==
  ASSUME NEW m, NEW g \in Seq(Byte), NEW p \in Seq(Byte), Quiet(g, m), Quiet(p, m)
  PROVE  Quiet(g \o p, m)
<1>1. PICK b : b = g \o p
  OBVIOUS
<1>2. /\ b \in Seq(Byte) /\ Len(b) = Len(g) + Len(p)
      /\ \A i \in 1..(Len(g) + Len(p)) : b[i] = IF i <= Len(g) THEN g[i] ELSE p[i - Len(g)]
  BY <1>1, ConcatProperties
<1>3. ASSUME NEW i \in 1..Len(b)
      PROVE  b[i] # m[1]
  <2>1. CASE i <= Len(g)
    BY <1>2, <1>3, <2>1 DEF Quiet
  <2>2. CASE ~(i <= Len(g))
    <3>1. PICK j : j = i - Len(g)
      OBVIOUS
    <3>2. j \in 1..Len(p)
      BY <1>2, <2>2, <3>1
    <3> QED
      BY <1>2, <2>2, <3>1, <3>2 DEF Quiet
  <2> QED
    BY <2>1, <2>2
<1> QED
  BY <1>1, <1>3 DEF Quiet

LEMMA ExtractAt ==
  ASSUME NEW b \in Seq(Byte), NEW ms
  PROVE  /\ Framing!ExtractFrames(b, ms) = ParsedAt(b, ms, 1)
         /\ ParsedAt(b, ms, 1).frames \in Seq(Seq(Byte))
         /\ ParsedAt(b, ms, 1).rest \in Seq(Byte)
<1>1. 1 \in 1..(Len(b) + 1)
  OBVIOUS
<1> QED
  BY <1>1, ExtractIs, ParsedIs DEF ParsedAt

\* What comes out of the first segments.
Taken(q, m, k) ==
  /\ ParsedAt(Flat(Byte, q)[k], {m}, 1).frames = Flat(Seq(Byte), Chosen(q, m))[k]
  /\ Quiet(ParsedAt(Flat(Byte, q)[k], {m}, 1).rest, m)

\* A further segment, or the beginning of one.
LEMMA InTurn ==
  ASSUME NEW b \in Seq(Byte), NEW p \in Seq(Byte), NEW ms
  PROVE  LET g == ParsedAt(b, ms, 1).rest
         IN /\ ParsedAt(b \o p, ms, 1).frames
                 = ParsedAt(b, ms, 1).frames \o ParsedAt(g \o p, ms, 1).frames
            /\ ParsedAt(b \o p, ms, 1).rest = ParsedAt(g \o p, ms, 1).rest
<1>1. PICK x : x = Framing!ExtractFrames(b, ms)
  OBVIOUS
<1>2. x = ParsedAt(b, ms, 1) /\ x.rest \in Seq(Byte)
  BY <1>1, ExtractAt
<1>3. PICK c : c = x.rest \o p
  OBVIOUS
<1>4. c \in Seq(Byte)
  BY <1>2, <1>3
<1>5. PICK d : d = b \o p
  OBVIOUS
<1>6. d \in Seq(Byte)
  BY <1>5
<1>7. Framing!ExtractFrames(d, ms)
        = [frames |-> x.frames \o Framing!ExtractFrames(c, ms).frames,
           rest |-> Framing!ExtractFrames(c, ms).rest]
  BY <1>1, <1>3, <1>5, ExtractInTurn
<1>8. Framing!ExtractFrames(d, ms) = ParsedAt(d, ms, 1)
  BY <1>6, ExtractAt
<1>9. Framing!ExtractFrames(c, ms) = ParsedAt(c, ms, 1)
  BY <1>4, ExtractAt
<1>10. /\ ParsedAt(d, ms, 1).frames = x.frames \o ParsedAt(c, ms, 1).frames
       /\ ParsedAt(d, ms, 1).rest = ParsedAt(c, ms, 1).rest
  <2>1. PICK u : u = x.frames \o ParsedAt(c, ms, 1).frames
    OBVIOUS
  <2>2. PICK v : v = ParsedAt(c, ms, 1).rest
    OBVIOUS
  <2>3. ParsedAt(d, ms, 1) = [frames |-> u, rest |-> v]
    BY <1>7, <1>8, <1>9, <2>1, <2>2
  <2>4. ParsedAt(d, ms, 1).frames = u /\ ParsedAt(d, ms, 1).rest = v
    BY <2>3
  <2> QED
    BY <2>1, <2>2, <2>4
<1> QED
  BY <1>2, <1>3, <1>5, <1>10

LEMMA TakenInTurn ==
  ASSUME NEW q \in Seq(Seq(Byte)), NEW m \in Markers, FramesOrQuiet(q, m)
  PROVE  \A k \in 0..Len(q) : Taken(q, m, k)
<1> DEFINE n == Len(q)
           T == {k \in Nat : k <= n => Taken(q, m, k)}
<1>1. PICK f : f = Flat(Byte, q)
  OBVIOUS
<1>2. /\ f \in [0..n -> Seq(Byte)] /\ f[0] = <<>>
      /\ \A i \in 1..n : f[i] = f[i - 1] \o q[i]
  BY <1>1, FlatExists DEF IsFlat
<1>3. PICK w : w = Chosen(q, m)
  OBVIOUS
<1>4. PICK h : h = Flat(Seq(Byte), w)
  OBVIOUS
<1>5. w \in Seq(Seq(Seq(Byte))) /\ Len(w) = n
  BY <1>3, ChosenIs
<1>6. /\ h \in [0..n -> Seq(Seq(Byte))] /\ h[0] = <<>>
      /\ \A i \in 1..n : h[i] = h[i - 1] \o w[i]
  <2>1. PICK S : S = Seq(Byte)
    OBVIOUS
  <2>2. IsFlat(S, w, Flat(S, w))
    BY <1>5, <2>1, FlatExists
  <2> QED
    BY <1>4, <1>5, <2>1, <2>2 DEF IsFlat
<1>7. n \in Nat
  OBVIOUS
<1>8. 0 \in T
  <2>1. PICK e : e = f[0]
    OBVIOUS
  <2>2. e \in Seq(Byte) /\ Len(e) = 0 /\ \A i \in 1..(Len(e) - 1) : e[i] # m[1]
    BY <1>2, <2>1
  <2>3. ParsedAt(e, {m}, 1).frames = <<>> /\ ParsedAt(e, {m}, 1).rest = e
    BY <2>2, NothingStarts
  <2>4. Quiet(e, m)
    BY <2>2 DEF Quiet
  <2>5. Taken(q, m, 0)
    BY <1>1, <1>3, <1>4, <1>6, <2>1, <2>3, <2>4 DEF Taken
  <2> QED
    BY <2>5
<1>9. ASSUME NEW k \in Nat, k \in T, k + 1 <= n
      PROVE  Taken(q, m, k + 1)
  <2>1. k \in 0..n /\ k + 1 \in 1..n /\ (k + 1) - 1 = k
    BY <1>7, <1>9
  <2>2. PICK j : j = k + 1
    OBVIOUS
  <2>3. j \in 1..n /\ f[j] = f[k] \o q[j] /\ h[j] = h[k] \o w[j]
    <3>1. j \in 1..n /\ j - 1 = k
      BY <2>1, <2>2
    <3> QED
      BY <1>2, <1>6, <3>1
  <2>4. PICK b \in Seq(Byte) : b = f[k]
    BY <1>2, <2>1
  <2>5. PICK p \in Seq(Byte) : p = q[j]
    BY <2>3
  <2>6. PICK g : g = ParsedAt(b, {m}, 1).rest
    OBVIOUS
  <2>7. Taken(q, m, k)
    BY <1>9, <2>1
  <2>8. ParsedAt(b, {m}, 1).frames = h[k] /\ Quiet(g, m) /\ g \in Seq(Byte)
    BY <1>1, <1>3, <1>4, <2>4, <2>6, <2>7, ExtractAt DEF Taken
  <2>9. /\ ParsedAt(b \o p, {m}, 1).frames = h[k] \o ParsedAt(g \o p, {m}, 1).frames
        /\ ParsedAt(b \o p, {m}, 1).rest = ParsedAt(g \o p, {m}, 1).rest
    <3>1. /\ ParsedAt(b \o p, {m}, 1).frames
               = ParsedAt(b, {m}, 1).frames
                   \o ParsedAt(ParsedAt(b, {m}, 1).rest \o p, {m}, 1).frames
          /\ ParsedAt(b \o p, {m}, 1).rest
               = ParsedAt(ParsedAt(b, {m}, 1).rest \o p, {m}, 1).rest
      BY InTurn
    <3> QED
      BY <2>6, <2>8, <3>1
  <2>10. w[j] = IF Framing!WellFormed(p, m) THEN <<p>> ELSE <<>>
    BY <1>3, <2>3, <2>5 DEF Chosen
  <2>11. ParsedAt(g \o p, {m}, 1).frames = w[j] /\ Quiet(ParsedAt(g \o p, {m}, 1).rest, m)
    <3>1. CASE Framing!WellFormed(p, m)
      <4>1. ParsedAt(g \o p, {m}, 1).frames = <<p>> /\ ParsedAt(g \o p, {m}, 1).rest = <<>>
        BY <2>8, <3>1, TakesFrame
      <4>2. Quiet(<<>>, m)
        BY DEF Quiet
      <4> QED
        BY <2>10, <3>1, <4>1, <4>2
    <3>2. CASE ~Framing!WellFormed(p, m)
      <4>1. Quiet(p, m)
        BY <2>3, <2>5, <3>2 DEF FramesOrQuiet
      <4>2. PICK c : c = g \o p
        OBVIOUS
      <4>3. c \in Seq(Byte) /\ Quiet(c, m)
        BY <2>8, <4>1, <4>2, QuietJoins
      <4>4. \A i \in 1..(Len(c) - 1) : c[i] # m[1]
        BY <4>3 DEF Quiet
      <4>5. ParsedAt(c, {m}, 1).frames = <<>> /\ ParsedAt(c, {m}, 1).rest = c
        BY <4>3, <4>4, NothingStarts
      <4> QED
        BY <2>10, <3>2, <4>2, <4>3, <4>5
    <3> QED
      BY <3>1, <3>2
  <2>12. ParsedAt(f[j], {m}, 1).frames = h[j] /\ Quiet(ParsedAt(f[j], {m}, 1).rest, m)
    BY <2>3, <2>4, <2>5, <2>9, <2>11
  <2>13. Taken(q, m, j)
    BY <1>1, <1>3, <1>4, <2>12 DEF Taken
  <2> QED
    BY <2>2, <2>13
<1>10. \A k \in Nat : k \in T => k + 1 \in T
  BY <1>9
<1>11. Nat \subseteq T
  <2> HIDE DEF T
  <2> QED
    BY <1>8, <1>10, EveryNat
<1> QED
  BY <1>7, <1>11

\* A beginning of a segment adds no frame.
LEMMA PartAddsNothing ==
  ASSUME NEW q \in Seq(Seq(Byte)), NEW m \in Markers, FramesOrQuiet(q, m),
         NEW k \in 0..(Len(q) - 1), NEW n \in Nat, n < Len(q[k + 1])
  PROVE  ParsedAt(Flat(Byte, q)[k] \o SubSeq(q[k + 1], 1, n), {m}, 1).frames
           = Flat(Seq(Byte), Chosen(q, m))[k]
<1>1. PICK j : j = k + 1
  OBVIOUS
<1>2. j \in 1..Len(q) /\ k \in 0..Len(q)
  BY <1>1
<1>3. PICK s \in Seq(Byte) : s = q[j]
  BY <1>2
<1>4. n < Len(s)
  BY <1>1, <1>3
<1>5. PICK p : p = SubSeq(s, 1, n)
  OBVIOUS
<1>6. p \in Seq(Byte) /\ Len(p) = n /\ \A i \in 1..n : p[i] = s[i]
  BY <1>4, <1>5
<1>7. PICK b : b = Flat(Byte, q)[k]
  OBVIOUS
<1>8. b \in Seq(Byte)
  BY <1>2, <1>7, FlattenIs
<1>9. PICK g : g = ParsedAt(b, {m}, 1).rest
  OBVIOUS
<1>10. Taken(q, m, k)
  BY <1>2, TakenInTurn
<1>11. PICK h : h = Flat(Seq(Byte), Chosen(q, m))[k]
  OBVIOUS
<1>12. /\ ParsedAt(b, {m}, 1).frames = h /\ Quiet(g, m) /\ g \in Seq(Byte)
       /\ h \in Seq(Seq(Byte))
  <2>1. ParsedAt(b, {m}, 1).frames = h /\ Quiet(g, m)
    BY <1>7, <1>9, <1>10, <1>11 DEF Taken
  <2>2. g \in Seq(Byte) /\ ParsedAt(b, {m}, 1).frames \in Seq(Seq(Byte))
    BY <1>8, <1>9, ExtractAt
  <2> QED
    BY <2>1, <2>2
<1>13. ParsedAt(b \o p, {m}, 1).frames = h \o ParsedAt(g \o p, {m}, 1).frames
  <2>1. ParsedAt(b \o p, {m}, 1).frames
          = ParsedAt(b, {m}, 1).frames
              \o ParsedAt(ParsedAt(b, {m}, 1).rest \o p, {m}, 1).frames
    BY <1>6, <1>8, InTurn
  <2> QED
    BY <1>9, <1>12, <2>1
<1>14. ParsedAt(g \o p, {m}, 1).frames = <<>>
  <2>1. CASE Framing!WellFormed(s, m)
    BY <1>4, <1>5, <1>12, <2>1, WaitsForFrame
  <2>2. CASE ~Framing!WellFormed(s, m)
    <3>1. Quiet(s, m)
      BY <1>2, <1>3, <2>2 DEF FramesOrQuiet
    <3>2. Quiet(p, m)
      <4>1. \A i \in 1..n : i \in 1..Len(s)
        BY <1>4
      <4> QED
        BY <1>6, <3>1, <4>1 DEF Quiet
    <3>3. PICK c : c = g \o p
      OBVIOUS
    <3>4. c \in Seq(Byte) /\ Quiet(c, m)
      BY <1>6, <1>12, <3>2, <3>3, QuietJoins
    <3>5. \A i \in 1..(Len(c) - 1) : c[i] # m[1]
      BY <3>4 DEF Quiet
    <3> QED
      BY <3>3, <3>4, <3>5, NothingStarts
  <2> QED
    BY <2>1, <2>2
<1>15. h \o <<>> = h
  <2>1. PICK S : S = Seq(Byte)
    OBVIOUS
  <2> QED
    BY <1>12, <2>1, ConcatEmptySeq
<1> QED
  BY <1>1, <1>3, <1>5, <1>7, <1>11, <1>13, <1>14, <1>15

-----------------------------------------------------------------------------
\* The wire starts with the segments sent first.
Opens(a, b) == Len(a) <= Len(b) /\ \A i \in 1..Len(a) : b[i] = a[i]

LEMMA FlatOpens ==
  ASSUME NEW q \in Seq(Seq(Byte)), NEW k \in 0..Len(q)
  PROVE  Opens(Flat(Byte, q)[k], Flat(Byte, q)[Len(q)])
<1> DEFINE n == Len(q)
<1>1. PICK f : f = Flat(Byte, q)
  OBVIOUS
<1>2. /\ f \in [0..n -> Seq(Byte)]
      /\ \A i \in 1..n : f[i] = f[i - 1] \o q[i]
  BY <1>1, FlatExists DEF IsFlat
<1>3. n \in Nat /\ k \in Nat /\ k <= n
  OBVIOUS
<1> DEFINE T == {d \in Nat : k + d <= n => Opens(f[k], f[k + d])}
<1>4. 0 \in T
  <2>1. k + 0 = k
    BY <1>3
  <2>2. PICK a \in Seq(Byte) : a = f[k]
    BY <1>2
  <2>3. Opens(a, a)
    BY DEF Opens
  <2> QED
    BY <2>1, <2>2, <2>3
<1>5. ASSUME NEW d \in Nat, d \in T, k + (d + 1) <= n
      PROVE  Opens(f[k], f[k + (d + 1)])
  <2>1. PICK j : j = k + (d + 1)
    OBVIOUS
  <2>2. PICK i : i = k + d
    OBVIOUS
  <2>3. j \in 1..n /\ j - 1 = i /\ i \in 0..n
    BY <1>3, <1>5, <2>1, <2>2
  <2>4. Opens(f[k], f[i])
    BY <1>5, <2>2, <2>3
  <2>5. PICK a \in Seq(Byte) : a = f[k]
    BY <1>2
  <2>6. PICK b \in Seq(Byte) : b = f[i]
    BY <1>2, <2>3
  <2>7. PICK p \in Seq(Byte) : p = q[j]
    BY <2>3
  <2>8. PICK c : c = b \o p
    OBVIOUS
  <2>9. f[j] = c
    <3>1. f[j] = f[j - 1] \o q[j]
      BY <1>2, <2>3
    <3> QED
      BY <2>3, <2>6, <2>7, <2>8, <3>1
  <2>10. /\ Len(c) = Len(b) + Len(p)
         /\ \A x \in 1..(Len(b) + Len(p)) : c[x] = IF x <= Len(b) THEN b[x] ELSE p[x - Len(b)]
    BY <2>8, ConcatProperties
  <2>11. Len(a) <= Len(b) /\ \A x \in 1..Len(a) : b[x] = a[x]
    BY <2>4, <2>5, <2>6 DEF Opens
  <2>12. Len(a) <= Len(c)
    BY <2>10, <2>11
  <2>13. ASSUME NEW x \in 1..Len(a)
         PROVE  c[x] = a[x]
    <3>1. x <= Len(b) /\ x \in 1..(Len(b) + Len(p))
      BY <2>11
    <3> QED
      BY <2>10, <2>11, <3>1
  <2>14. Opens(a, c)
    BY <2>12, <2>13 DEF Opens
  <2> QED
    BY <2>1, <2>5, <2>9, <2>14
<1>6. \A d \in Nat : d \in T => d + 1 \in T
  BY <1>5
<1>7. Nat \subseteq T
  <2> HIDE DEF T
  <2> QED
    BY <1>4, <1>6, EveryNat
<1>8. PICK d \in Nat : d = n - k
  BY <1>3
<1>9. k + d = n /\ d \in T
  <2>1. k + d = n
    BY <1>3, <1>8
  <2> HIDE DEF T
  <2> QED
    BY <1>7, <2>1
<1>10. Opens(f[k], f[k + d])
  BY <1>3, <1>9
<1> QED
  BY <1>1, <1>9, <1>10

LEMMA SeenIs ==
  ASSUME NEW q \in Seq(Seq(Byte)), NEW k \in 0..(Len(q) - 1), NEW r \in Nat,
         Len(Flat(Byte, q)[k]) <= r, r < Len(Flat(Byte, q)[k + 1])
  PROVE  /\ r - Len(Flat(Byte, q)[k]) \in Nat
         /\ r - Len(Flat(Byte, q)[k]) < Len(q[k + 1])
         /\ SubSeq(Flat(Byte, q)[Len(q)], 1, r)
              = Flat(Byte, q)[k] \o SubSeq(q[k + 1], 1, r - Len(Flat(Byte, q)[k]))
<1>1. PICK f : f = Flat(Byte, q)
  OBVIOUS
<1>2. /\ f \in [0..Len(q) -> Seq(Byte)]
      /\ \A i \in 1..Len(q) : f[i] = f[i - 1] \o q[i]
  BY <1>1, FlatExists DEF IsFlat
<1>3. PICK j : j = k + 1
  OBVIOUS
<1>4. j \in 1..Len(q) /\ j - 1 = k /\ k \in 0..Len(q) /\ j \in 0..Len(q)
  BY <1>3
<1>5. PICK a \in Seq(Byte) : a = f[k]
  BY <1>2, <1>4
<1>6. PICK p \in Seq(Byte) : p = q[j]
  BY <1>4
<1>7. PICK c \in Seq(Byte) : c = f[j]
  BY <1>2, <1>4
<1>8. PICK w \in Seq(Byte) : w = f[Len(q)]
  <2>1. Len(q) \in 0..Len(q)
    OBVIOUS
  <2> QED
    BY <1>2, <2>1
<1>9. c = a \o p
  <2>1. f[j] = f[j - 1] \o q[j]
    BY <1>2, <1>4
  <2> QED
    BY <1>4, <1>5, <1>6, <1>7, <2>1
<1>10. /\ Len(c) = Len(a) + Len(p)
       /\ \A x \in 1..(Len(a) + Len(p)) : c[x] = IF x <= Len(a) THEN a[x] ELSE p[x - Len(a)]
  BY <1>9, ConcatProperties
<1>11. Len(c) <= Len(w) /\ \A x \in 1..Len(c) : w[x] = c[x]
  <2>1. Opens(f[j], f[Len(q)])
    BY <1>1, <1>4, FlatOpens
  <2> QED
    BY <1>7, <1>8, <2>1 DEF Opens
<1>12. Len(a) <= r /\ r < Len(c)
  BY <1>1, <1>3, <1>5, <1>7
<1>13. PICK n : n = r - Len(a)
  OBVIOUS
<1>14. n \in Nat /\ n < Len(p) /\ Len(a) + n = r /\ r <= Len(w)
  BY <1>10, <1>11, <1>12, <1>13
<1>15. PICK l : l = SubSeq(p, 1, n)
  OBVIOUS
<1>16. l \in Seq(Byte) /\ Len(l) = n /\ \A i \in 1..n : l[i] = p[i]
  BY <1>14, <1>15
<1>17. PICK y : y = a \o l
  OBVIOUS
<1>18. /\ y \in Seq(Byte) /\ Len(y) = Len(a) + Len(l)
       /\ \A x \in 1..(Len(a) + Len(l)) : y[x] = IF x <= Len(a) THEN a[x] ELSE l[x - Len(a)]
  BY <1>16, <1>17, ConcatProperties
<1>19. PICK z : z = SubSeq(w, 1, r)
  OBVIOUS
<1>20. z \in Seq(Byte) /\ Len(z) = r /\ \A i \in 1..r : z[i] = w[i]
  <2>1. r \in 0..Len(w)
    BY <1>14
  <2> QED
    BY <1>19, <2>1
<1>21. ASSUME NEW i \in 1..r
       PROVE  z[i] = y[i]
  <2>1. i \in 1..Len(c) /\ i \in 1..(Len(a) + Len(p)) /\ i \in 1..(Len(a) + Len(l))
    BY <1>10, <1>12, <1>14, <1>16
  <2>2. z[i] = c[i]
    BY <1>11, <1>20, <2>1
  <2>3. CASE i <= Len(a)
    BY <1>10, <1>18, <2>1, <2>2, <2>3
  <2>4. CASE ~(i <= Len(a))
    <3>1. PICK x : x = i - Len(a)
      OBVIOUS
    <3>2. x \in 1..n
      BY <1>14, <2>4, <3>1
    <3>3. c[i] = p[x] /\ y[i] = l[x]
      BY <1>10, <1>18, <2>1, <2>4, <3>1
    <3> QED
      BY <1>16, <2>2, <3>2, <3>3
  <2> QED
    BY <2>3, <2>4
<1>22. Len(z) = Len(y)
  BY <1>14, <1>16, <1>18, <1>20
<1>23. z = y
  BY <1>18, <1>20, <1>21, <1>22, SeqEqual
<1> QED
  BY <1>1, <1>3, <1>5, <1>6, <1>8, <1>13, <1>14, <1>15, <1>17, <1>19, <1>23

LEMMA MaxIs ==
  ASSUME NEW n \in Nat, NEW T, T \subseteq 0..n, T # {}
  PROVE  Framing!Max(T) \in T /\ \A y \in T : y <= Framing!Max(T)
<1> DEFINE U == {n - x : x \in T}
<1>1. U \subseteq Nat /\ U # {}
  OBVIOUS
<1>2. PICK u \in U : \A v \in U : u <= v
  BY <1>1, LeastNat
<1>3. PICK x \in T : u = n - x
  BY <1>2
<1>4. \A y \in T : x >= y
  <2>1. ASSUME NEW y \in T
        PROVE  x >= y
    <3>1. n - x <= n - y
      BY <1>2, <1>3
    <3>2. x \in Int /\ y \in Int
      OBVIOUS
    <3> QED
      BY <3>1, <3>2
  <2> QED
    BY <2>1
<1>5. Framing!Max(T) \in T /\ \A y \in T : Framing!Max(T) >= y
  BY <1>4 DEF Framing!Max
<1>6. PICK t \in T : t = Framing!Max(T)
  BY <1>5
<1>7. \A y \in T : y <= t
  BY <1>5, <1>6
<1> QED
  BY <1>6, <1>7

\* What has arrived of the segments, and what has come out of it.
LEMMA ArrivedSoFar ==
  ASSUME FramingInv, NEW m \in Markers, FramesOrQuiet(stream, m),
         NEW k \in 0..Len(stream), Len(Flat(Byte, stream)[k]) <= read,
         k < Len(stream) => read < Len(Flat(Byte, stream)[k + 1])
  PROVE  ParsedAt(Arrived, {m}, 1).frames = Flat(Seq(Byte), Chosen(stream, m))[k]
<1>1. stream \in Seq(Seq(Byte)) /\ read \in 0..Len(Framing!Wire)
  BY DEF FramingInv
<1>2. Framing!Wire = Flat(Byte, stream)[Len(stream)] /\ Framing!Wire \in Seq(Byte)
  BY <1>1, WireIs
<1>3. read \in Nat /\ read <= Len(Framing!Wire)
  BY <1>1, <1>2
<1>4. CASE k = Len(stream)
  <2>1. read = Len(Framing!Wire)
    BY <1>2, <1>3, <1>4
  <2>2. Arrived = Framing!Wire
    BY <1>2, <2>1 DEF Arrived
  <2>3. Taken(stream, m, k)
    BY <1>1, TakenInTurn
  <2> QED
    BY <1>2, <1>4, <2>2, <2>3 DEF Taken
<1>5. CASE k # Len(stream)
  <2>1. k \in 0..(Len(stream) - 1)
    BY <1>1, <1>5
  <2>2. read < Len(Flat(Byte, stream)[k + 1])
    BY <1>1, <2>1
  <2>3. PICK n : n = read - Len(Flat(Byte, stream)[k])
    OBVIOUS
  <2>4. n \in Nat /\ n < Len(stream[k + 1])
        /\ Arrived = Flat(Byte, stream)[k] \o SubSeq(stream[k + 1], 1, n)
    BY <1>1, <1>2, <1>3, <2>1, <2>2, <2>3, SeenIs DEF Arrived
  <2> QED
    BY <1>1, <2>1, <2>4, PartAddsNothing
<1> QED
  BY <1>4, <1>5

LEMMA FramesHaveArrived == FramingInv => Framing!FramesArrive
<1> SUFFICES ASSUME FramingInv, protocol \in DOMAIN Framing!MarkerOf
             PROVE  Framing!FramesArrive
  BY DEF Framing!FramesArrive
<1>1. PICK m : m = Framing!MarkerOf[protocol]
  OBVIOUS
<1>2. m \in Markers
  BY <1>1, MarkersOf DEF Markers
<1>3. stream \in Seq(Seq(Byte)) /\ read \in 0..Len(Framing!Wire)
  BY DEF FramingInv
<1>4. PICK n \in Nat : n = Len(stream)
  BY <1>3
<1>5. Framing!Wire = Flat(Byte, stream)[n] /\ Framing!Wire \in Seq(Byte) /\ read \in Nat
  BY <1>3, <1>4, WireIs
<1> DEFINE complete == {k \in 0..Len(stream) :
                          Len(Framing!FlattenSeq(SubSeq(stream, 1, k))) <= read}
<1>6. SUFFICES ASSUME \A i \in DOMAIN stream :
                        Framing!WellFormed(stream[i], m) \/ Framing!Harmless(stream[i], m)
               PROVE  frames = Framing!FlattenSeq([i \in 1..Framing!Max(complete) |->
                        IF Framing!WellFormed(stream[i], m) THEN <<stream[i]>> ELSE <<>>])
  BY <1>1 DEF Framing!FramesArrive
<1>7. FramesOrQuiet(stream, m)
  <2>1. ASSUME NEW i \in 1..Len(stream)
        PROVE  Framing!WellFormed(stream[i], m) \/ Quiet(stream[i], m)
    <3>1. i \in DOMAIN stream /\ DOMAIN stream[i] = 1..Len(stream[i])
      BY <1>3
    <3>2. Framing!Harmless(stream[i], m) => Quiet(stream[i], m)
      BY <3>1 DEF Framing!Harmless, Quiet
    <3> QED
      BY <1>6, <3>1, <3>2
  <2> QED
    BY <2>1 DEF FramesOrQuiet
<1>8. \A k \in 0..n : Framing!FlattenSeq(SubSeq(stream, 1, k)) = Flat(Byte, stream)[k]
                      /\ Flat(Byte, stream)[k] \in Seq(Byte)
  BY <1>3, <1>4, FlattenIs
<1>9. PICK f : f = Flat(Byte, stream)
  OBVIOUS
<1>10. complete = {k \in 0..n : Len(f[k]) <= read}
  BY <1>4, <1>8, <1>9
<1>11. 0 \in complete
  <2>1. f[0] = <<>>
    BY <1>3, <1>9, FlatExists DEF IsFlat
  <2>2. Len(f[0]) = 0 /\ 0 \in 0..n
    BY <2>1
  <2> QED
    BY <1>5, <1>10, <2>2
<1>12. complete \subseteq 0..n
  BY <1>4
<1> HIDE DEF complete
<1>13. PICK k : k = Framing!Max(complete)
  OBVIOUS
<1>14. k \in complete /\ \A y \in complete : y <= k
  BY <1>11, <1>12, <1>13, MaxIs
<1>15. k \in 0..n /\ Len(f[k]) <= read
  BY <1>10, <1>14
<1>16. k < n => read < Len(f[k + 1])
  <2> SUFFICES ASSUME k < n PROVE read < Len(f[k + 1])
    OBVIOUS
  <2>1. k + 1 \in 0..n /\ ~(k + 1 <= k)
    BY <1>15
  <2>2. k + 1 \notin complete
    BY <1>14, <2>1
  <2>3. ~(Len(f[k + 1]) <= read)
    BY <1>10, <2>1, <2>2
  <2>4. f[k + 1] \in Seq(Byte)
    BY <1>8, <1>9, <2>1
  <2>5. Len(f[k + 1]) \in Nat
    BY <2>4
  <2> QED
    BY <1>5, <2>3, <2>5
<1>17. PICK w : w = Chosen(stream, m)
  OBVIOUS
<1>18. ParsedAt(Arrived, {m}, 1).frames = Flat(Seq(Byte), w)[k]
  BY <1>2, <1>4, <1>7, <1>9, <1>15, <1>16, <1>17, ArrivedSoFar
<1>19. frames = ParsedAt(Arrived, {m}, 1).frames
  <2>1. [frames |-> frames, rest |-> buffer] = Framing!ExtractFrames(Arrived, {m})
    BY <1>1 DEF FramingInv, Framing!CutsDoNotMatter, Arrived
  <2>2. Arrived \in Seq(Byte)
    BY <1>3, <1>5 DEF Arrived
  <2>3. Framing!ExtractFrames(Arrived, {m}) = ParsedAt(Arrived, {m}, 1)
    BY <2>2, ExtractAt
  <2>4. PICK x : x = ParsedAt(Arrived, {m}, 1)
    OBVIOUS
  <2>5. x.frames = frames
    BY <2>1, <2>3, <2>4
  <2> QED
    BY <2>4, <2>5
<1>20. Framing!FlattenSeq(SubSeq(w, 1, k)) = Flat(Seq(Byte), w)[k]
  <2>1. PICK S : S = Seq(Byte)
    OBVIOUS
  <2>2. w \in Seq(Seq(S)) /\ Len(w) = n
    BY <1>3, <1>4, <1>17, <2>1, ChosenIs
  <2>3. k \in 0..Len(w)
    BY <1>15, <2>2
  <2>4. Framing!FlattenSeq(SubSeq(w, 1, k)) = Flat(S, w)[k]
    BY <2>2, <2>3, FlattenIs
  <2> QED
    BY <2>1, <2>4
<1>21. SubSeq(w, 1, k) = [i \in 1..k |->
         IF Framing!WellFormed(stream[i], m) THEN <<stream[i]>> ELSE <<>>]
  <2>1. w \in Seq(Seq(Seq(Byte))) /\ Len(w) = n
    BY <1>3, <1>4, <1>17, ChosenIs
  <2>2. PICK S : S = Seq(Seq(Byte))
    OBVIOUS
  <2>3. PICK v : v = SubSeq(w, 1, k)
    OBVIOUS
  <2>4. v = [i \in 1..k |-> w[i]]
    <3>1. w \in Seq(S) /\ k \in 0..Len(w)
      BY <1>15, <2>1, <2>2
    <3> QED
      BY <2>3, <3>1
  <2>5. \A i \in 1..k :
          w[i] = IF Framing!WellFormed(stream[i], m) THEN <<stream[i]>> ELSE <<>>
    <3>1. \A i \in 1..k : i \in 1..Len(stream)
      BY <1>4, <1>15
    <3> QED
      BY <1>17, <3>1 DEF Chosen
  <2> QED
    BY <2>3, <2>4, <2>5
<1> QED
  BY <1>13, <1>18, <1>17, <1>19, <1>20, <1>21

(* Between bytes that cannot be taken for a marker, every well-formed frame  *)
(* comes out of extract_frames once, in order, with the read that brings its *)
(* last byte, whatever its payload looks like.                               *)
THEOREM FramesAlwaysArrive ==
  ASSUME Framing!ByteStreams
  PROVE  Framing!Spec => []Framing!FramesArrive
<1>1. Framing!Init => FramingInv
  BY FramingStarts
<1>2. FramingInv /\ [Framing!Next]_(Framing!vars) => FramingInv'
  BY FramingKeeps
<1>3. FramingInv => Framing!FramesArrive
  BY FramesHaveArrived
<1> QED
  BY <1>1, <1>2, <1>3, PTL DEF Framing!Spec

-----------------------------------------------------------------------------
(* The analysis of captures.                                                 *)
CONSTANTS Sessions, MaxStored, MaxPromotions, Seconds, ChecksumFits(_, _)
VARIABLES signature, captures, running, report, clusters, chosen, promotions, files

Analysis == INSTANCE Intelligence WITH stored <- captures

LEMMA OneFlattening == \A q : Analysis!FlattenSeq(q) = Framing!FlattenSeq(q)
BY DEF Analysis!FlattenSeq, Framing!FlattenSeq

\* What is picked out of a sequence: nothing else, and something if there is.
PicksOut(w, d, I) == w = [i \in 1..Len(d) |-> IF i \in I THEN <<d[i]>> ELSE <<>>]

LEMMA PickedOut ==
  ASSUME NEW S, NEW d \in Seq(S), NEW I, NEW w, PicksOut(w, d, I)
  PROVE  /\ Framing!FlattenSeq(w) \in Seq(S)
         /\ \A j \in 1..Len(Framing!FlattenSeq(w)) :
              \E i \in 1..Len(d) : i \in I /\ Framing!FlattenSeq(w)[j] = d[i]
         /\ \A i \in 1..Len(d) : i \in I => Framing!FlattenSeq(w) # <<>>
<1>1. PICK n \in Nat : n = Len(d)
  OBVIOUS
<1> USE DEF PicksOut
<1>2. w \in Seq(Seq(S)) /\ Len(w) = n
  <2>1. PICK R : R = Seq(S)
    OBVIOUS
  <2>2. ASSUME NEW i \in 1..n
        PROVE  (IF i \in I THEN <<d[i]>> ELSE <<>>) \in R
    <3>1. d[i] \in S
      BY <1>1
    <3>2. <<d[i]>> \in Seq(S) /\ <<>> \in Seq(S)
      BY <3>1
    <3> QED
      BY <2>1, <3>2
  <2>3. w \in [1..n -> R]
    BY <1>1, <2>2
  <2>4. w \in Seq(R) /\ Len(w) = n
    BY <2>3
  <2> QED
    BY <2>1, <2>4
<1>3. PICK f : f = Flat(S, w)
  OBVIOUS
<1>4. /\ f \in [0..n -> Seq(S)] /\ f[0] = <<>>
      /\ \A i \in 1..n : f[i] = f[i - 1] \o w[i]
  <2>1. w \in Seq(Seq(S))
    BY <1>2
  <2>2. IsFlat(S, w, Flat(S, w))
    BY <2>1, FlatExists
  <2> QED
    BY <1>2, <1>3, <2>2 DEF IsFlat
<1> DEFINE Good(k) == /\ \A j \in 1..Len(f[k]) : \E i \in 1..n : i \in I /\ f[k][j] = d[i]
                      /\ \A i \in 1..k : i \in I => f[k] # <<>>
           T == {k \in Nat : k <= n => Good(k)}
<1>5. 0 \in T
  <2>1. Len(f[0]) = 0
    BY <1>4
  <2> QED
    BY <2>1
<1>6. ASSUME NEW k \in Nat, k \in T, k + 1 <= n
      PROVE  Good(k + 1)
  <2>1. Good(k)
    BY <1>1, <1>6
  <2>2. PICK l : l = k + 1
    OBVIOUS
  <2>3. l \in 1..n /\ l - 1 = k /\ k \in 0..n
    BY <1>1, <1>6, <2>2
  <2>4. PICK a \in Seq(S) : a = f[k]
    BY <1>4, <2>3
  <2>5. f[l] = a \o w[l]
    BY <1>4, <2>3, <2>4
  <2>6. /\ \A j \in 1..Len(a) : \E i \in 1..n : i \in I /\ a[j] = d[i]
        /\ \A i \in 1..k : i \in I => a # <<>>
    BY <2>1, <2>4
  <2>7. CASE l \in I
    <3>1. PICK e \in S : e = d[l]
      BY <1>1, <2>3
    <3>2. PICK b : b = a \o <<e>>
      OBVIOUS
    <3>3. f[l] = b
      BY <1>1, <2>3, <2>5, <2>7, <3>1, <3>2
    <3>4. /\ Len(b) = Len(a) + 1 /\ b[Len(a) + 1] = e
          /\ \A j \in 1..Len(a) : b[j] = a[j]
      BY <3>2
    <3>5. ASSUME NEW j \in 1..Len(b)
          PROVE  \E i \in 1..n : i \in I /\ b[j] = d[i]
      <4>1. CASE j = Len(a) + 1
        BY <2>3, <2>7, <3>1, <3>4, <4>1
      <4>2. CASE j # Len(a) + 1
        <5>1. j \in 1..Len(a)
          BY <3>4, <4>2
        <5> QED
          BY <2>6, <3>4, <5>1
      <4> QED
        BY <4>1, <4>2
    <3>6. b # <<>>
      BY <3>4
    <3> QED
      BY <2>2, <3>3, <3>5, <3>6
  <2>8. CASE l \notin I
    <3>1. w[l] = <<>>
      BY <1>1, <2>3, <2>8
    <3>2. a \o <<>> = a
      BY ConcatEmptySeq
    <3>3. f[l] = a
      BY <2>5, <3>1, <3>2
    <3>4. \A i \in 1..l : i \in I => i \in 1..k
      BY <2>3, <2>8
    <3> QED
      BY <2>2, <2>6, <3>3, <3>4
  <2> QED
    BY <2>7, <2>8
<1>7. \A k \in Nat : k \in T => k + 1 \in T
  BY <1>6
<1>8. Nat \subseteq T
  <2> HIDE DEF T
  <2> QED
    BY <1>5, <1>7, EveryNat
<1>9. Good(n)
  BY <1>8
<1>10. Framing!FlattenSeq(w) = f[n] /\ f[n] \in Seq(S)
  <2>1. n \in 0..Len(w) /\ SubSeq(w, 1, n) = w
    BY <1>2
  <2>2. w \in Seq(Seq(S))
    BY <1>2
  <2>3. Framing!FlattenSeq(SubSeq(w, 1, n)) = Flat(S, w)[n] /\ Flat(S, w)[n] \in Seq(S)
    BY <2>1, <2>2, FlattenIs
  <2> QED
    BY <1>3, <2>1, <2>3
<1> QED
  BY <1>1, <1>9, <1>10

-----------------------------------------------------------------------------
\* A cluster is what some clustering of the first n sessions says of a key.
IsCluster(c, n, key) ==
  /\ c.members = Analysis!Members(SubSeq(captures, 1, n), key)
  /\ c.members \in Seq(DOMAIN Sessions) /\ c.members # <<>>
  /\ \A i \in 1..Len(c.members) : Analysis!Key(signature[c.members[i]]) = key
  /\ c.candidate = Analysis!Suggestion(signature[c.members[1]]).candidate

Made(c) == \E n \in 0..Len(captures) : \E key : IsCluster(c, n, key)

AnalysisInv ==
  /\ signature = [s \in DOMAIN Sessions |-> Analysis!Profile(Sessions[s])]
  /\ captures \in Seq(DOMAIN Sessions)
  /\ running = [stage |-> running.stage, data |-> running.data, clusters |-> running.clusters]
  /\ \A i \in DOMAIN running.clusters : Made(running.clusters[i])
  /\ \A i \in DOMAIN clusters : Made(clusters[i])
  /\ chosen # Analysis!NothingChosen => Made(chosen.cluster)
  /\ \A name \in DOMAIN files : Made(files[name])

LEMMA AnalysisStarts ==
  ASSUME Analysis!Init
  PROVE  AnalysisInv
BY DEF Analysis!Init, AnalysisInv, Analysis!NotRunning, Analysis!NothingChosen

\* What was made of the first sessions stays so when more are captured.
LEMMA StaysMade ==
  ASSUME AnalysisInv, NEW s \in DOMAIN Sessions, captures' = Append(captures, s),
         signature' = signature, NEW c, Made(c)
  PROVE  Made(c)'
<1>0. PICK n \in 0..Len(captures) : \E key : IsCluster(c, n, key)
  BY DEF Made
<1>1. PICK key : IsCluster(c, n, key)
  BY <1>0
<1>2. captures \in Seq(DOMAIN Sessions)
  BY DEF AnalysisInv
<1>3. n \in 0..Len(captures') /\ SubSeq(captures', 1, n) = SubSeq(captures, 1, n)
  <2>1. PICK d : d = Append(captures, s)
    OBVIOUS
  <2>2. d \in Seq(DOMAIN Sessions) /\ Len(d) = Len(captures) + 1
        /\ \A i \in 1..Len(captures) : d[i] = captures[i]
    BY <1>2, <2>1
  <2>3. n \in 0..Len(d)
    BY <1>2, <2>2
  <2>4. PICK a : a = SubSeq(d, 1, n)
    OBVIOUS
  <2>5. PICK b : b = SubSeq(captures, 1, n)
    OBVIOUS
  <2>6. a \in Seq(DOMAIN Sessions) /\ Len(a) = n /\ \A i \in 1..n : a[i] = d[i]
    BY <2>2, <2>3, <2>4
  <2>7. b \in Seq(DOMAIN Sessions) /\ Len(b) = n /\ \A i \in 1..n : b[i] = captures[i]
    BY <1>2, <2>5
  <2>8. \A i \in 1..n : i \in 1..Len(captures)
    BY <1>2
  <2>9. a = b
    BY <2>2, <2>6, <2>7, <2>8, SeqEqual
  <2> QED
    BY <2>1, <2>3, <2>4, <2>5, <2>9
<1>4. Analysis!Members(SubSeq(captures, 1, n), key)' = Analysis!Members(SubSeq(captures, 1, n), key)
  BY <1>3 DEF Analysis!Members, Analysis!Strange
<1>5. IsCluster(c, n, key)'
  BY <1>1, <1>4 DEF IsCluster
<1> QED
  BY <1>3, <1>5 DEF Made

\* A clustering makes such clusters.
LEMMA ClusteringsAre ==
  ASSUME AnalysisInv, NEW found \in Analysis!Clusterings(captures), NEW i \in DOMAIN found
  PROVE  Made(found[i])
<1> DEFINE D == captures
           keys == {Analysis!Key(signature[s]) : s \in {t \in Analysis!ToSet(D) : Analysis!Strange(t)}}
<1>1. PICK o \in Analysis!SetToSeqs(keys) :
        found = [k \in DOMAIN o |-> Analysis!Cluster(Analysis!Members(D, o[k]))]
  BY DEF Analysis!Clusterings
<1>2. i \in DOMAIN o /\ o[i] \in keys
  <2>1. i \in DOMAIN o
    BY <1>1
  <2>2. \E E : o \in [E -> keys]
    BY <1>1 DEF Analysis!SetToSeqs
  <2> QED
    BY <2>1, <2>2
<1>3. PICK key : key = o[i]
  OBVIOUS
<1>4. PICK t \in Analysis!ToSet(D) : Analysis!Strange(t) /\ key = Analysis!Key(signature[t])
  BY <1>2, <1>3
<1>5. D \in Seq(DOMAIN Sessions) /\ DOMAIN D = 1..Len(D)
  BY DEF AnalysisInv
<1>6. PICK x \in 1..Len(D) : t = D[x]
  BY <1>4, <1>5 DEF Analysis!ToSet
<1>7. PICK m : m = Analysis!Members(D, key)
  OBVIOUS
<1> DEFINE I == {k \in 1..Len(D) : Analysis!Strange(D[k]) /\ Analysis!Key(signature[D[k]]) = key}
<1>8. PICK w : w = [k \in 1..Len(D) |-> IF k \in I THEN <<D[k]>> ELSE <<>>]
  OBVIOUS
<1>9. m = Framing!FlattenSeq(w)
  <2>1. w = [k \in DOMAIN D |->
               IF Analysis!Strange(D[k]) /\ Analysis!Key(signature[D[k]]) = key
               THEN <<D[k]>> ELSE <<>>]
    BY <1>5, <1>8
  <2> QED
    BY <1>7, <2>1, OneFlattening DEF Analysis!Members
<1>10. /\ m \in Seq(DOMAIN Sessions)
       /\ \A j \in 1..Len(m) : \E k \in 1..Len(D) : k \in I /\ m[j] = D[k]
       /\ \A k \in 1..Len(D) : k \in I => m # <<>>
  <2>1. PICK S : S = DOMAIN Sessions
    OBVIOUS
  <2>2. D \in Seq(S)
    BY <1>5, <2>1
  <2>3. w = [k \in 1..Len(D) |-> IF k \in I THEN <<D[k]>> ELSE <<>>]
    BY <1>8
  <2>4. PICK d, J : d = D /\ J = I
    OBVIOUS
  <2>5. d \in Seq(S) /\ PicksOut(w, d, J)
    BY <2>2, <2>3, <2>4 DEF PicksOut
  <2>6. /\ Framing!FlattenSeq(w) \in Seq(S)
        /\ \A j \in 1..Len(Framing!FlattenSeq(w)) :
             \E k \in 1..Len(d) : k \in J /\ Framing!FlattenSeq(w)[j] = d[k]
        /\ \A k \in 1..Len(d) : k \in J => Framing!FlattenSeq(w) # <<>>
    BY <2>5, PickedOut
  <2> HIDE DEF I, D
  <2> QED
    BY <1>9, <2>1, <2>4, <2>6
<1>11. m # <<>>
  <2>1. Analysis!Strange(D[x]) /\ Analysis!Key(signature[D[x]]) = key
    BY <1>4, <1>6
  <2>2. x \in I
    BY <1>6, <2>1
  <2> HIDE DEF I
  <2> QED
    BY <1>6, <1>10, <2>2
<1>12. \A j \in 1..Len(m) : Analysis!Key(signature[m[j]]) = key
  BY <1>10
<1>13. PICK c : c = found[i]
  OBVIOUS
<1>14. c.members = m /\ c.candidate = Analysis!ClusterSuggestion(m).candidate
  BY <1>1, <1>2, <1>3, <1>7, <1>13 DEF Analysis!Cluster
<1>15. Analysis!ClusterSuggestion(m).candidate
         = Analysis!Suggestion(signature[m[1]]).candidate
  <2>1. PICK z : z = Analysis!Suggestion(signature[m[1]])
    OBVIOUS
  <2>2. \E name, n : z = [candidate |-> name, confidence |-> n]
    BY <2>1 DEF Analysis!Suggestion, Analysis!NoCandidate
  <2>3. PICK e : e = Analysis!Min({99, z.confidence + Analysis!Min({5, Len(m) \div 10})})
    OBVIOUS
  <2>4. Analysis!ClusterSuggestion(m)
          = IF z = Analysis!NoCandidate THEN z ELSE [z EXCEPT !.confidence = e]
    BY <2>1, <2>3 DEF Analysis!ClusterSuggestion
  <2>5. [z EXCEPT !.confidence = e].candidate = z.candidate
    BY <2>2
  <2> QED
    BY <2>1, <2>4, <2>5
<1>16. SubSeq(D, 1, Len(D)) = D /\ Len(D) \in 0..Len(D)
  BY <1>5
<1>17. IsCluster(c, Len(D), key)
  BY <1>7, <1>11, <1>10, <1>12, <1>14, <1>15, <1>16 DEF IsCluster
<1> QED
  BY <1>13, <1>16, <1>17 DEF Made

\* The bytes of a profile that its key and its suggestion go by.
LEMMA ProfileIs ==
  ASSUME NEW s
  PROVE  /\ Analysis!Profile(s).header = Analysis!Header(s)
         /\ Analysis!Profile(s).first =
              IF s.rx = <<>> THEN <<>>
              ELSE SubSeq(s.rx[1], 1, Analysis!Min({2, Len(s.rx[1])}))
BY DEF Analysis!Profile

LEMMA SameKeySameHeader ==
  ASSUME Analysis!IntelligenceAssumption, AnalysisInv,
         NEW s \in DOMAIN Sessions, NEW t \in DOMAIN Sessions,
         Analysis!Key(signature[s]) = Analysis!Key(signature[t])
  PROVE  signature[s].header = signature[t].header
<1> DEFINE FirstTwo(r) == IF r.rx = <<>> THEN <<>>
                          ELSE SubSeq(r.rx[1], 1, Analysis!Min({2, Len(r.rx[1])}))
<1>1. signature[s].first = signature[t].first
  BY DEF Analysis!Key
<1>2. \A r \in DOMAIN Sessions :
        signature[r].header = Analysis!Header(Sessions[r]) /\ signature[r].first = FirstTwo(Sessions[r])
  BY ProfileIs DEF AnalysisInv
<1>3. ASSUME NEW r \in DOMAIN Sessions
      PROVE  Analysis!Header(Sessions[r])
               = IF Len(FirstTwo(Sessions[r])) = 2 THEN FirstTwo(Sessions[r]) ELSE <<>>
  <2>1. PICK q \in Seq(Seq(0..255)) : q = Sessions[r].rx
    BY DEF Analysis!IntelligenceAssumption
  <2>2. CASE q = <<>>
    BY <2>1, <2>2 DEF Analysis!Header
  <2>3. CASE q # <<>>
    <3>1. q[1] \in Seq(0..255)
      BY <2>3
    <3>2. PICK b \in Seq(0..255) : b = q[1]
      BY <3>1
    <3>3. PICK n \in Nat : n = Len(b)
      OBVIOUS
    <3>4. PICK l : l = Analysis!Min({2, n})
      OBVIOUS
    <3>5. l = IF n < 2 THEN n ELSE 2
      BY <3>4 DEF Analysis!Min
    <3>6. FirstTwo(Sessions[r]) = SubSeq(b, 1, l)
      BY <2>1, <2>3, <3>2, <3>3, <3>4
    <3>7. Analysis!Header(Sessions[r]) = IF n < 2 THEN <<>> ELSE SubSeq(b, 1, 2)
      BY <2>1, <2>3, <3>2, <3>3 DEF Analysis!Header
    <3>8. PICK f : f = FirstTwo(Sessions[r])
      OBVIOUS
    <3>9. f = SubSeq(b, 1, l) /\ Len(f) = l
      <4>1. f = SubSeq(b, 1, l)
        BY <3>6, <3>8
      <4>2. l \in 0..Len(b)
        BY <3>3, <3>5
      <4>3. Len(SubSeq(b, 1, l)) = l
        BY <4>2
      <4> QED
        BY <4>1, <4>3
    <3>10. CASE n < 2
      <4>1. Len(f) # 2
        BY <3>3, <3>5, <3>9, <3>10
      <4> HIDE DEF FirstTwo
      <4> QED
        BY <3>7, <3>8, <3>10, <4>1
    <3>11. CASE ~ n < 2
      <4>1. l = 2
        BY <3>5, <3>11
      <4>2. Len(f) = 2 /\ f = SubSeq(b, 1, 2)
        BY <3>9, <4>1
      <4> HIDE DEF FirstTwo
      <4> QED
        BY <3>7, <3>8, <3>11, <4>2
    <3> QED
      BY <3>10, <3>11
  <2> QED
    BY <2>2, <2>3
<1> QED
  BY <1>1, <1>2, <1>3

\* A known header decides: the points for it are more than all that can
\* tell the two protocols apart otherwise.
LEMMA HeaderDecides ==
  ASSUME NEW p, NEW k \in DOMAIN Analysis!Known, p.header = Analysis!Known[k].header
  PROVE  Analysis!Suggestion(p).candidate = Analysis!Known[k].name
<1> DEFINE Fit(profile) == CASE p.packets > 0 /\ profile.least * p.packets <= p.bytes
                                /\ p.bytes <= profile.most * p.packets -> 10
                             [] p.bytes = 0 -> 0
                             [] OTHER -> 3
           Rest == (IF p.stops THEN 10 ELSE 0)
             + (CASE Analysis!Band(p) = "hi" -> 20 [] Analysis!Band(p) = "mid" -> 8 [] OTHER -> 0)
             + (IF p.logins > 0 THEN 7 ELSE 0) + (IF p.beats > 0 THEN 7 ELSE 0)
             + (IF p.fixes > 0 THEN 6 ELSE 0)
<1>1. Rest \in Nat
  OBVIOUS
<1>2. \A profile : Fit(profile) \in {0, 3, 10}
  OBVIOUS
<1>3. \A profile : Analysis!Score(p, profile)
        = (IF p.header = profile.header THEN 40 ELSE 0) + Rest + Fit(profile)
  BY <1>1, <1>2 DEF Analysis!Score
<1>4. PICK a, b : a = Analysis!Known[1] /\ b = Analysis!Known[2]
  OBVIOUS
<1>5. a.header # b.header /\ k \in {1, 2} /\ DOMAIN Analysis!Known = {1, 2}
  <2>1. a.header = <<120, 120>> /\ b.header = <<121, 121>>
    BY <1>4 DEF Analysis!Known, Analysis!Classic, Analysis!Long
  <2>2. DOMAIN Analysis!Known = 1..2
    <3>1. PICK y, z : Analysis!Known = <<y, z>>
      BY DEF Analysis!Known
    <3>2. DOMAIN <<y, z>> = 1..2
      OBVIOUS
    <3> QED
      BY <3>1, <3>2
  <2>3. <<120, 120>>[1] # <<121, 121>>[1]
    OBVIOUS
  <2> QED
    BY <2>1, <2>2, <2>3
<1> HIDE DEF Rest, Fit
<1>6. CASE k = 1
  <2>1. p.header = a.header /\ p.header # b.header
    BY <1>4, <1>5, <1>6
  <2>2. Analysis!Score(p, a) > Analysis!Score(p, b) /\ Analysis!Score(p, a) >= 40
    BY <1>1, <1>2, <1>3, <2>1
  <2> QED
    BY <1>1, <1>2, <1>3, <1>4, <1>6, <2>2 DEF Analysis!Suggestion
<1>7. CASE k = 2
  <2>1. p.header = b.header /\ p.header # a.header
    BY <1>4, <1>5, <1>7
  <2>2. Analysis!Score(p, b) > Analysis!Score(p, a) /\ Analysis!Score(p, b) >= 40
    BY <1>1, <1>2, <1>3, <2>1
  <2> QED
    BY <1>1, <1>2, <1>3, <1>4, <1>7, <2>2 DEF Analysis!Suggestion
<1> QED
  BY <1>5, <1>6, <1>7

\* What a cluster says of its first session it says of all of them.
LEMMA MadeSpeaks ==
  ASSUME Analysis!IntelligenceAssumption, AnalysisInv, NEW c, Made(c)
  PROVE  /\ \E n \in 0..Len(captures) :
              c.members = Analysis!Members(SubSeq(captures, 1, n),
                                           Analysis!Key(signature[c.members[1]]))
         /\ \A i \in DOMAIN c.members :
              signature[c.members[i]].header = signature[c.members[1]].header
         /\ \A k \in DOMAIN Analysis!Known :
              signature[c.members[1]].header = Analysis!Known[k].header =>
                /\ c.candidate = Analysis!Known[k].name
                /\ \A i \in DOMAIN c.members :
                     Analysis!Suggestion(signature[c.members[i]]).candidate
                       = Analysis!Known[k].name
<1>0. PICK n \in 0..Len(captures) : \E key : IsCluster(c, n, key)
  BY DEF Made
<1>1. PICK key : IsCluster(c, n, key)
  BY <1>0
<1>2. PICK m \in Seq(DOMAIN Sessions) : m = c.members
  BY <1>1 DEF IsCluster
<1>3. m # <<>> /\ \A i \in 1..Len(m) : Analysis!Key(signature[m[i]]) = key
  BY <1>1, <1>2 DEF IsCluster
<1>4. DOMAIN m = 1..Len(m) /\ 1 \in 1..Len(m) /\ \A i \in 1..Len(m) : m[i] \in DOMAIN Sessions
  BY <1>2, <1>3
<1>5. ASSUME NEW i \in DOMAIN m
      PROVE  signature[m[i]].header = signature[m[1]].header
  <2>1. Analysis!Key(signature[m[i]]) = Analysis!Key(signature[m[1]])
    BY <1>3, <1>4
  <2> QED
    BY <1>4, <2>1, SameKeySameHeader
<1>6. \E l \in 0..Len(captures) :
        m = Analysis!Members(SubSeq(captures, 1, l), Analysis!Key(signature[m[1]]))
  <2>1. m = Analysis!Members(SubSeq(captures, 1, n), key)
    BY <1>1, <1>2 DEF IsCluster
  <2>2. Analysis!Key(signature[m[1]]) = key
    BY <1>3, <1>4
  <2> QED
    BY <2>1, <2>2
<1>7. ASSUME NEW k \in DOMAIN Analysis!Known,
             signature[m[1]].header = Analysis!Known[k].header
      PROVE  /\ c.candidate = Analysis!Known[k].name
             /\ \A i \in DOMAIN m :
                  Analysis!Suggestion(signature[m[i]]).candidate = Analysis!Known[k].name
  <2>1. \A i \in DOMAIN m :
          Analysis!Suggestion(signature[m[i]]).candidate = Analysis!Known[k].name
    BY <1>5, <1>7, HeaderDecides
  <2>2. c.candidate = Analysis!Suggestion(signature[m[1]]).candidate
    BY <1>1, <1>2 DEF IsCluster
  <2> QED
    BY <1>4, <2>1, <2>2
<1> QED
  BY <1>2, <1>5, <1>6, <1>7

LEMMA MadeSame ==
  ASSUME UNCHANGED <<signature, captures>>, NEW c, Made(c)
  PROVE  Made(c)'
BY DEF Made, IsCluster, Analysis!Members, Analysis!Strange

LEMMA CapturingKeeps ==
  ASSUME AnalysisInv, NEW s \in DOMAIN signature, Analysis!Capture(s)
  PROVE  AnalysisInv'
<1>1. s \in DOMAIN Sessions /\ captures' = Append(captures, s)
      /\ UNCHANGED <<signature, running, report, clusters, chosen, files>>
  BY DEF Analysis!Capture, AnalysisInv
<1>2. \A c : Made(c) => Made(c)'
  BY <1>1, StaysMade
<1>3. captures' \in Seq(DOMAIN Sessions)
  BY <1>1 DEF AnalysisInv
<1> QED
  BY <1>1, <1>2, <1>3 DEF AnalysisInv

LEMMA AnalysingKeeps ==
  ASSUME AnalysisInv,
         Analysis!Analyse \/ Analysis!PublishReport \/ Analysis!PublishClusters
  PROVE  AnalysisInv'
<1>1. UNCHANGED <<signature, captures, chosen, files>>
  BY DEF Analysis!Analyse, Analysis!PublishReport, Analysis!PublishClusters
<1>2. \A c : Made(c) => Made(c)'
  BY <1>1, MadeSame
<1>3. CASE Analysis!Analyse
  <2>1. PICK found \in Analysis!Clusterings(captures) :
          running' = [stage |-> "report", data |-> captures, clusters |-> found]
    BY <1>3 DEF Analysis!Analyse
  <2>2. \A i \in DOMAIN found : Made(found[i])
    BY ClusteringsAre
  <2>3. clusters' = clusters
    BY <1>3 DEF Analysis!Analyse
  <2> QED
    BY <1>1, <1>2, <2>1, <2>2, <2>3 DEF AnalysisInv
<1>4. CASE Analysis!PublishReport
  <2>1. running' = [running EXCEPT !.stage = "clusters"] /\ clusters' = clusters
    BY <1>4 DEF Analysis!PublishReport
  <2>2. PICK st, da, cl : running = [stage |-> st, data |-> da, clusters |-> cl]
    BY DEF AnalysisInv
  <2>3. running' = [stage |-> "clusters", data |-> da, clusters |-> cl]
    BY <2>1, <2>2
  <2> QED
    BY <1>1, <1>2, <2>1, <2>2, <2>3 DEF AnalysisInv
<1>5. CASE Analysis!PublishClusters
  <2>1. clusters' = running.clusters /\ running' = Analysis!NotRunning
    BY <1>5 DEF Analysis!PublishClusters
  <2> QED
    BY <1>1, <1>2, <2>1 DEF AnalysisInv, Analysis!NotRunning
<1> QED
  BY <1>3, <1>4, <1>5

LEMMA PromotingKeeps ==
  ASSUME AnalysisInv,
         (\E rank \in 1..MaxStored : Analysis!Promote(rank))
           \/ \E second \in Seconds : Analysis!WriteProposal(second)
  PROVE  AnalysisInv'
<1>1. UNCHANGED <<signature, captures, running, clusters>>
  BY DEF Analysis!Promote, Analysis!WriteProposal
<1>2. \A c : Made(c) => Made(c)'
  BY <1>1, MadeSame
<1>3. ASSUME NEW rank, Analysis!Promote(rank)
      PROVE  AnalysisInv'
  <2>1. PICK slug : chosen' = [slug |-> slug, cluster |-> clusters[rank]]
    BY <1>3 DEF Analysis!Promote
  <2>2. Made(chosen'.cluster) /\ files' = files
    BY <1>3, <2>1 DEF Analysis!Promote, AnalysisInv
  <2> QED
    BY <1>1, <1>2, <2>2 DEF AnalysisInv
<1>4. ASSUME NEW second, Analysis!WriteProposal(second)
      PROVE  AnalysisInv'
  <2>1. PICK new : files' = [name \in DOMAIN files \cup {new} |->
                               IF name = new THEN chosen.cluster ELSE files[name]]
    BY <1>4 DEF Analysis!WriteProposal
  <2>2. Made(chosen.cluster) /\ chosen' = Analysis!NothingChosen
    BY <1>4 DEF Analysis!WriteProposal, AnalysisInv
  <2>3. \A name \in DOMAIN files' : Made(files'[name])
    BY <2>1, <2>2 DEF AnalysisInv
  <2> QED
    BY <1>1, <1>2, <2>2, <2>3 DEF AnalysisInv
<1> QED
  BY <1>3, <1>4

(* A proposal speaks for every session it stands for, whatever was captured, *)
(* however captures, analyses and promotions fell together, and however the  *)
(* checksums came out: its members are every session of one key up to some   *)
(* point of the capture, the key fixes the two bytes they begin with, and    *)
(* those, where they are the header of a known protocol, outweigh all else   *)
(* in the score (SignatureAnalyzer, SessionClusterer, SimilarityEngine,      *)
(* promote_cluster).                                                         *)
THEOREM ProposalsSpeakForAll ==
  ASSUME Analysis!IntelligenceAssumption
  PROVE  Analysis!Spec => []Analysis!ProposalSpeaksForAll
<1>1. Analysis!Init => AnalysisInv
  BY AnalysisStarts
<1>2. AnalysisInv /\ [Analysis!Next]_Analysis!vars => AnalysisInv'
  <2> SUFFICES ASSUME AnalysisInv, [Analysis!Next]_Analysis!vars
               PROVE  AnalysisInv'
    OBVIOUS
  <2>1. CASE UNCHANGED Analysis!vars
    <3>1. UNCHANGED <<signature, captures, running, clusters, chosen, files>>
      BY <2>1 DEF Analysis!vars
    <3>2. \A c : Made(c) => Made(c)'
      BY <3>1, MadeSame
    <3> QED
      BY <3>1, <3>2 DEF AnalysisInv
  <2>2. CASE \E s \in DOMAIN signature : Analysis!Capture(s)
    BY <2>2, CapturingKeeps
  <2>3. CASE Analysis!Analyse \/ Analysis!PublishReport \/ Analysis!PublishClusters
    BY <2>3, AnalysingKeeps
  <2>4. CASE \/ \E rank \in 1..MaxStored : Analysis!Promote(rank)
             \/ \E second \in Seconds : Analysis!WriteProposal(second)
    BY <2>4, PromotingKeeps
  <2> QED
    BY <2>1, <2>2, <2>3, <2>4 DEF Analysis!Next
<1>3. AnalysisInv => Analysis!ProposalSpeaksForAll
  <2> SUFFICES ASSUME AnalysisInv, NEW name \in DOMAIN files
               PROVE  LET members == files[name].members
                          p == signature[members[1]]
                      IN /\ \E n \in 0..Len(captures) :
                              members = Analysis!Members(SubSeq(captures, 1, n), Analysis!Key(p))
                         /\ \A i \in DOMAIN members : signature[members[i]].header = p.header
                         /\ \A k \in DOMAIN Analysis!Known :
                              p.header = Analysis!Known[k].header =>
                                /\ files[name].candidate = Analysis!Known[k].name
                                /\ \A i \in DOMAIN members :
                                     Analysis!Suggestion(signature[members[i]]).candidate
                                       = Analysis!Known[k].name
    BY DEF Analysis!ProposalSpeaksForAll
  <2>1. Made(files[name])
    BY DEF AnalysisInv
  <2> QED
    BY <2>1, MadeSpeaks
<1> QED
  BY <1>1, <1>2, <1>3, PTL DEF Analysis!Spec
=============================================================================
