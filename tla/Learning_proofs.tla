---------------------------- MODULE Learning_proofs ----------------------------
(***************************************************************************)
(* What holds of the pages that load many attempts (GradingPages), for any *)
(* number of replicas, requests, passages and versions, and for any size   *)
(* of the cache: each attempt is shown with the version it is pinned to.   *)
(* And of the cycles of mistakes (LearningCycles), for any number of       *)
(* drills, families, cycles, days and reviews: what is said to be          *)
(* demonstrated was, by one task at a time.  And of grades (Grades), for   *)
(* any number of questions, requests, options and mistakes: they are those *)
(* of the stored answers.                                                  *)
(***************************************************************************)
EXTENDS GradingPages, LearningCycles, Grades, FiniteSetTheorems, WellFoundedInduction, TLAPS

-------------------------------------------------------------------------------
(* Pages of many attempts.                                                  *)

\* Versions are only added, and a version of the test names versions that exist.
VersionsStored ==
  /\ stored \in [0..Passages -> 1..MaxStored]
  /\ links \in Seq([1..Passages -> 1..MaxStored]) /\ Len(links) = stored[TheTest]
  /\ \A i \in 1..Len(links), p \in 1..Passages : links[i][p] <= stored[p]

\* What was kept of versions is what each of them reads by itself.
Exact(f) == DOMAIN f \subseteq Existing /\ \A v \in DOMAIN f : f[v] = Structure(v)

\* A cache of a replica stays within its bound.
Bounded(f) == IsFiniteSet(DOMAIN f) /\ Cardinality(DOMAIN f) <= CacheSize

CachesExact ==
  /\ DOMAIN local = Replicas
  /\ \A r \in Replicas : Exact(local[r]) /\ Bounded(local[r])
  /\ Exact(shared)

VisitFields == {"at", "replica", "wanted", "got", "keep", "pending", "loaded", "depth", "fetched"}

\* What a request holds besides what it has loaded so far.
VisitHolds(g) ==
  /\ DOMAIN visit[g] = VisitFields
  /\ visit[g].at \in {"idle", "asking", "keeping", "loading", "storing", "answered"}
  /\ visit[g].at # "idle" => visit[g].replica \in Replicas
  /\ visit[g].wanted \subseteq Existing
  /\ Exact(visit[g].got) /\ DOMAIN visit[g].got \subseteq visit[g].wanted
  /\ visit[g].keep \subseteq DOMAIN visit[g].got /\ visit[g].fetched \subseteq DOMAIN visit[g].got
  /\ visit[g].at \in {"storing", "answered"} => visit[g].wanted \subseteq DOMAIN visit[g].got

\* The levels a request has loaded: the versions it was missing, then their passages, which
\* have none of their own.
LevelsLoaded(g) ==
  /\ visit[g].loaded \cup visit[g].pending \subseteq Existing
  /\ visit[g].depth \in 0..MaxPassageDepth
  /\ visit[g].at \in {"asking", "keeping"} => visit[g].loaded = {} /\ visit[g].depth = 0
  /\ visit[g].at \in {"keeping", "loading"} =>
       /\ visit[g].depth = 0 => visit[g].loaded = {} /\ visit[g].pending = Unloaded(g)
       /\ visit[g].depth = 1 => visit[g].loaded = Unloaded(g) /\ visit[g].pending = NextLevel(Unloaded(g))
       /\ visit[g].depth > 1 => Unloaded(g) \cup NextLevel(Unloaded(g)) \subseteq visit[g].loaded

PagesInv ==
  /\ VersionsStored /\ CachesExact /\ DOMAIN visit = Visits
  /\ \A g \in Visits : VisitHolds(g) /\ LevelsLoaded(g)

\* While nobody edits, what exists and what it is made of stays.
LEMMA Standing ==
  ASSUME UNCHANGED <<stored, links>>
  PROVE  /\ VersionsStored' <=> VersionsStored
         /\ Existing' = Existing
         /\ \A v : Pinned(v)' = Pinned(v) /\ Structure(v)' = Structure(v)
         /\ \A S : NextLevel(S)' = NextLevel(S)
<1>1. VersionsStored' <=> VersionsStored
  BY DEF VersionsStored
<1>2. Existing' = Existing
  BY DEF Existing
<1>3. \A v : Pinned(v)' = Pinned(v)
  BY DEF Pinned
<1>4. \A v : Structure(v)' = Structure(v)
  BY <1>3 DEF Structure
<1>5. \A S : NextLevel(S)' = NextLevel(S)
  BY <1>3 DEF NextLevel, Range
<1> QED BY <1>1, <1>2, <1>3, <1>4, <1>5

\* A version of the test names versions that exist.
LEMMA PinnedExist ==
  ASSUME VersionsStored, NEW v \in Existing
  PROVE  /\ Range(Pinned(v)) \subseteq Existing
         /\ DOMAIN Pinned(v) = IF v.material = TheTest THEN 1..Passages ELSE {}
<1>0. v.material \in 0..Passages /\ v.n \in 1..MaxStored /\ v.n <= stored[v.material]
  BY DEF Existing, Version
<1>1. CASE v.material = TheTest
  <2>1. DOMAIN Pinned(v) = 1..Passages
    BY <1>1 DEF Pinned
  <2>2. v.n \in 1..Len(links)
    BY <1>0, <1>1 DEF VersionsStored, TheTest
  <2>3. ASSUME NEW p \in 1..Passages PROVE Pinned(v)[p] \in Existing
    <3>1. Pinned(v)[p] = [material |-> p, n |-> links[v.n][p]]
      BY <1>1 DEF Pinned
    <3>2. links[v.n] \in [1..Passages -> 1..MaxStored]
      BY <2>2 DEF VersionsStored
    <3>3. links[v.n][p] \in 1..MaxStored /\ links[v.n][p] <= stored[p]
      BY <2>2, <3>2 DEF VersionsStored
    <3>4. p \in 0..Passages
      BY PagesAssumption
    <3> QED BY <3>1, <3>3, <3>4 DEF Existing, Version
  <2> QED BY <1>1, <2>1, <2>3 DEF Range
<1>2. CASE v.material # TheTest
  <2>1. Pinned(v) = <<>>
    BY <1>2 DEF Pinned
  <2>2. DOMAIN Pinned(v) = {}
    BY <2>1
  <2> QED BY <1>2, <2>2 DEF Range
<1> QED BY <1>1, <1>2

\* A level of passages exists.
LEMMA LevelsExist ==
  ASSUME VersionsStored, NEW S, S \subseteq Existing
  PROVE  NextLevel(S) \subseteq Existing
BY PinnedExist DEF NextLevel

\* A version whose passages were all loaded is put together as if it were read by itself.
LEMMA Whole ==
  ASSUME VersionsStored, NEW v \in Existing, NEW L, Range(Pinned(v)) \subseteq L
  PROVE  Expanded(v, L) = Structure(v)
<1>1. {p \in DOMAIN Pinned(v) : Pinned(v)[p] \in L} = DOMAIN Pinned(v)
  BY DEF Range
<1>2. Pinned(v) = [p \in DOMAIN Pinned(v) |-> Pinned(v)[p]]
  <2>1. CASE v.material = TheTest
    BY <2>1 DEF Pinned
  <2>2. CASE v.material # TheTest
    <3>1. Pinned(v) = <<>>
      BY <2>2 DEF Pinned
    <3> QED BY <3>1
  <2> QED BY <2>1, <2>2
<1> QED BY <1>1, <1>2 DEF Expanded, Structure, Restrict

\* What is found and what there was are both exact.
LEMMA JoinedExact ==
  ASSUME NEW f, NEW h, Exact(f), Exact(h)
  PROVE  Exact(Joined(f, h)) /\ DOMAIN Joined(f, h) = DOMAIN f \cup DOMAIN h
BY DEF Exact, Joined

\* A cache that is full loses an entry for the one it keeps.
LEMMA PutsExact ==
  ASSUME NEW f, Exact(f), Bounded(f), NEW k \in Existing, NEW c \in Puts(f, k, Structure(k))
  PROVE  Exact(c) /\ Bounded(c)
<1> DEFINE full == k \notin DOMAIN f /\ Cardinality(DOMAIN f) >= CacheSize
<1>1. PICK kept \in IF full THEN Spared(f) ELSE {DOMAIN f} :
        c = [q \in {k} \cup kept |-> IF q = k THEN Structure(k) ELSE f[q]]
  BY DEF Puts
<1>2. kept \subseteq DOMAIN f
  BY <1>1 DEF Spared
<1>3. Exact(c)
  BY <1>1, <1>2 DEF Exact
<1>4. DOMAIN c = kept \cup {k}
  BY <1>1
<1>5. IsFiniteSet(kept) /\ Cardinality(kept) \in Nat /\ Cardinality(DOMAIN f) \in Nat
  BY <1>2, FS_Subset, FS_CardinalityType DEF Bounded
<1>6. IsFiniteSet(DOMAIN c) /\ Cardinality(DOMAIN c) = IF k \in kept THEN Cardinality(kept) ELSE Cardinality(kept) + 1
  BY <1>4, <1>5, FS_AddElement
<1>7. Cardinality(kept) <= Cardinality(DOMAIN f)
  BY <1>2, FS_Subset DEF Bounded
<1>8. CASE full
  <2>1. PICK q \in DOMAIN f : kept = DOMAIN f \ {q}
    BY <1>1, <1>8 DEF Spared
  <2>2. Cardinality(kept) = Cardinality(DOMAIN f) - 1
    BY <2>1, FS_RemoveElement DEF Bounded
  <2> QED BY <1>3, <1>5, <1>6, <2>2, PagesAssumption DEF Bounded
<1>9. CASE ~full
  <2>1. kept = DOMAIN f
    BY <1>1, <1>9
  <2>2. CASE k \in DOMAIN f
    BY <1>3, <1>6, <2>1, <2>2 DEF Bounded
  <2>3. CASE Cardinality(DOMAIN f) < CacheSize
    BY <1>3, <1>5, <1>6, <2>1, <2>3, PagesAssumption DEF Bounded
  <2> QED BY <1>5, <1>9, <2>2, <2>3, PagesAssumption
<1> QED BY <1>8, <1>9

\* An entry that gets old leaves an exact cache.
LEMMA RestrictExact ==
  ASSUME NEW f, Exact(f), NEW S, S \subseteq DOMAIN f
  PROVE  Exact(Restrict(f, S)) /\ (Bounded(f) => Bounded(Restrict(f, S)))
<1>1. Exact(Restrict(f, S)) /\ DOMAIN Restrict(f, S) = S
  BY DEF Exact, Restrict
<1>2. ASSUME Bounded(f) PROVE Bounded(Restrict(f, S))
  <2>1. /\ IsFiniteSet(S) /\ Cardinality(S) <= Cardinality(DOMAIN f)
        /\ Cardinality(S) \in Nat /\ Cardinality(DOMAIN f) \in Nat
    BY <1>2, FS_Subset, FS_CardinalityType DEF Bounded
  <2> QED BY <1>1, <1>2, <2>1, PagesAssumption DEF Bounded
<1> QED BY <1>1, <1>2

\* A step of one request, with the versions as they are.
LEMMA VisitSteps ==
  ASSUME PagesInv, NEW g \in Visits, UNCHANGED <<stored, links>>, CachesExact',
         DOMAIN visit' = Visits, \A h \in Visits : h # g => visit'[h] = visit[h],
         VisitHolds(g)', LevelsLoaded(g)'
  PROVE  PagesInv'
<1>1. VersionsStored'
  BY Standing DEF PagesInv
<1>2. ASSUME NEW h \in Visits, h # g PROVE VisitHolds(h)' /\ LevelsLoaded(h)'
  <2>1. VisitHolds(h)'
    BY <1>2, Standing DEF PagesInv, VisitHolds, Exact
  <2>2. NextLevel(Unloaded(h))' = NextLevel(Unloaded(h))
    BY <1>2, Standing DEF NextLevel, Unloaded, Range
  <2>3. LevelsLoaded(h)'
    BY <1>2, <2>2, Standing DEF PagesInv, LevelsLoaded, Unloaded
  <2> QED BY <2>1, <2>3
<1> QED BY <1>1, <1>2 DEF PagesInv

\* The caches stand while a request loads.
LEMMA CachesStand ==
  ASSUME PagesInv, UNCHANGED <<stored, links, local, shared>>
  PROVE  CachesExact'
BY Standing DEF PagesInv, CachesExact, Exact, Bounded

\* At first there is one version of each, and nothing is kept.
LEMMA PagesStart == PagesInit => PagesInv
<1> SUFFICES ASSUME PagesInit PROVE PagesInv
  OBVIOUS
<1>1. VersionsStored
  <2>1. stored \in [0..Passages -> 1..MaxStored] /\ stored[TheTest] = 1
    BY PagesAssumption DEF PagesInit, TheTest
  <2>2. links \in Seq([1..Passages -> 1..MaxStored]) /\ Len(links) = 1
    BY PagesAssumption DEF PagesInit
  <2>3. \A i \in 1..Len(links), p \in 1..Passages : links[i][p] <= stored[p]
    BY <2>2, PagesAssumption DEF PagesInit
  <2> QED BY <2>1, <2>2, <2>3 DEF VersionsStored
<1>2. DOMAIN Nowhere = {}
  BY DEF Nowhere
<1>3. IsFiniteSet({}) /\ Cardinality({}) = 0
  BY FS_EmptySet
<1>4. Exact(Nowhere) /\ Bounded(Nowhere)
  BY <1>2, <1>3, PagesAssumption DEF Exact, Bounded
<1>5. CachesExact
  BY <1>4 DEF CachesExact, PagesInit
<1>6. ASSUME NEW g \in Visits PROVE VisitHolds(g) /\ LevelsLoaded(g)
  <2>1. visit[g] = NoVisit
    BY DEF PagesInit
  <2>2. VisitHolds(g)
    BY <1>2, <1>4, <2>1 DEF VisitHolds, NoVisit, VisitFields
  <2>3. LevelsLoaded(g)
    BY <2>1, PagesAssumption DEF LevelsLoaded, NoVisit
  <2> QED BY <2>2, <2>3
<1> QED BY <1>1, <1>5, <1>6 DEF PagesInv, PagesInit

\* A page is opened, and what the caches of its replica have is taken from them.
LEMMA OpenKeeps ==
  ASSUME PagesInv, NEW g \in Visits, NEW r \in Replicas, NEW wanted, wanted \subseteq Existing,
         OpenPage(g, r, wanted)
  PROVE  PagesInv'
<1> DEFINE hits == Hits(local[r], wanted)
<1>1. UNCHANGED <<stored, links, local, shared>> /\ visit[g].at = "idle"
  BY DEF OpenPage
<1>2. PICK kept : kept = [v \in hits |-> local[r][Key(v)]]
  OBVIOUS
<1>3. PICK x : x = [NoVisit EXCEPT
         !.at = IF hits = wanted THEN "answered" ELSE "asking", !.replica = r, !.wanted = wanted,
         !.got = kept]
  OBVIOUS
<1>4. visit' = [visit EXCEPT ![g] = x]
  BY <1>2, <1>3 DEF OpenPage
<1>5. /\ DOMAIN x = VisitFields /\ x.at = (IF hits = wanted THEN "answered" ELSE "asking")
      /\ x.replica = r /\ x.wanted = wanted /\ x.got = kept /\ x.keep = {} /\ x.pending = {}
      /\ x.loaded = {} /\ x.depth = 0 /\ x.fetched = {}
  BY <1>3 DEF NoVisit, VisitFields
<1>6. DOMAIN visit' = Visits /\ visit'[g] = x /\ \A h \in Visits : h # g => visit'[h] = visit[h]
  BY <1>4 DEF PagesInv
<1>7. hits \subseteq wanted /\ hits \subseteq DOMAIN local[r] /\ DOMAIN kept = hits
  BY <1>2 DEF Hits, Key
<1>8. Exact(kept)
  BY <1>2, <1>7 DEF Exact, PagesInv, CachesExact, Key
<1>9. Exact(visit[g].got)'
  BY <1>1, <1>5, <1>6, <1>8, Standing DEF Exact
<1>10. VisitHolds(g)'
  BY <1>1, <1>5, <1>6, <1>7, <1>9, Standing DEF VisitHolds
<1>11. LevelsLoaded(g)'
  BY <1>1, <1>5, <1>6, PagesAssumption DEF LevelsLoaded
<1> QED BY <1>1, <1>6, <1>10, <1>11, CachesStand, VisitSteps

\* What is kept of a version that a request has got.
LEMMA FoundKeeps ==
  ASSUME PagesInv, NEW g \in Visits, NEW found, found \in {{}, Hits(shared, Unloaded(g))}, GetMany(g, found)
  PROVE  PagesInv'
<1>1. UNCHANGED <<stored, links, local, shared>> /\ visit[g].at = "asking"
  BY DEF GetMany
<1>2. found \subseteq Unloaded(g) /\ found \subseteq DOMAIN shared
  BY DEF Hits, Key
<1>x. PICK entries : entries = [v \in found |-> shared[Key(v)]]
  OBVIOUS
<1>3. PICK kept : kept = Joined(entries, visit[g].got)
  OBVIOUS
<1>4. Exact(entries) /\ DOMAIN entries = found
  BY <1>x, <1>2 DEF Exact, PagesInv, CachesExact, Key
<1>5. Exact(kept) /\ DOMAIN kept = found \cup DOMAIN visit[g].got
  BY <1>3, <1>4, JoinedExact DEF PagesInv, VisitHolds
<1>6. PICK pending : pending = Unloaded(g) \ found
  OBVIOUS
<1>7. PICK at : at = After(g, found)
  OBVIOUS
<1>8. visit' = [visit EXCEPT ![g] = [visit[g] EXCEPT !.at = at, !.keep = found, !.pending = pending, !.got = kept]]
  BY <1>x, <1>3, <1>6, <1>7 DEF GetMany
<1>9. DOMAIN visit' = Visits /\ \A h \in Visits : h # g => visit'[h] = visit[h]
  BY <1>8 DEF PagesInv
<1>10. /\ DOMAIN visit'[g] = VisitFields /\ visit'[g].at = at
       /\ visit'[g].replica = visit[g].replica /\ visit'[g].wanted = visit[g].wanted /\ visit'[g].got = kept
       /\ visit'[g].keep = found /\ visit'[g].pending = pending
       /\ visit'[g].loaded = visit[g].loaded /\ visit'[g].depth = visit[g].depth
       /\ visit'[g].fetched = visit[g].fetched
  BY <1>8 DEF PagesInv, VisitHolds, VisitFields
<1>11. at = "keeping" \/ (at = "loading" /\ found = {}) \/ (at = "answered" /\ Unloaded(g) = {} /\ found = {})
  BY <1>7 DEF After
<1>12. Exact(visit[g].got)'
  BY <1>1, <1>5, <1>10, Standing DEF Exact
<1>13. VisitHolds(g)'
  BY <1>1, <1>2, <1>5, <1>10, <1>11, <1>12, Standing DEF VisitHolds, PagesInv, Unloaded
<1>14. Unloaded(g)' = pending
  BY <1>5, <1>6, <1>10 DEF Unloaded
<1>15. pending \subseteq Existing /\ visit[g].loaded = {} /\ visit[g].depth = 0
  BY <1>1, <1>6 DEF PagesInv, VisitHolds, LevelsLoaded, Unloaded
<1>16. LevelsLoaded(g)'
  BY <1>1, <1>10, <1>14, <1>15, PagesAssumption, Standing DEF LevelsLoaded
<1> QED BY <1>1, <1>9, <1>13, <1>16, CachesStand, VisitSteps

\* What was loaded is kept by the replica.
LEMMA KeepKeeps ==
  ASSUME PagesInv, NEW g \in Visits, NEW v \in visit[g].keep, Keep(g, v)
  PROVE  PagesInv'
<1>1. UNCHANGED <<stored, links, shared>> /\ visit[g].at \in {"keeping", "storing"}
  BY DEF Keep
<1>2. PICK r \in Replicas : r = visit[g].replica
  BY <1>1 DEF PagesInv, VisitHolds
<1>3. v \in Existing /\ visit[g].got[v] = Structure(v)
  BY DEF PagesInv, VisitHolds, Exact
<1>4. PICK cache \in Puts(local[r], v, Structure(v)) : local' = [local EXCEPT ![r] = cache]
  BY <1>2, <1>3 DEF Keep, Key
<1>5. Exact(cache) /\ Bounded(cache)
  BY <1>3, <1>4, PutsExact DEF PagesInv, CachesExact
<1>6. CachesExact'
  <2>1. ASSUME NEW q \in Replicas PROVE Exact(local[q])' /\ Bounded(local[q])'
    BY <1>1, <1>4, <1>5, Standing DEF Exact, Bounded, PagesInv, CachesExact
  <2>2. Exact(shared)'
    BY <1>1, Standing DEF Exact, PagesInv, CachesExact
  <2> QED BY <1>4, <2>1, <2>2 DEF CachesExact, PagesInv
<1>7. PICK keep : keep = visit[g].keep \ {v}
  OBVIOUS
<1>8. PICK at : at = IF visit[g].at = "keeping" THEN After(g, keep) ELSE visit[g].at
  OBVIOUS
<1>9. visit' = [visit EXCEPT ![g] = [visit[g] EXCEPT !.keep = keep, !.at = at]]
  BY <1>7, <1>8 DEF Keep
<1>10. DOMAIN visit' = Visits /\ \A h \in Visits : h # g => visit'[h] = visit[h]
  BY <1>9 DEF PagesInv
<1>11. /\ DOMAIN visit'[g] = VisitFields /\ visit'[g].at = at
       /\ visit'[g].replica = visit[g].replica /\ visit'[g].wanted = visit[g].wanted
       /\ visit'[g].got = visit[g].got
       /\ visit'[g].keep = keep /\ visit'[g].pending = visit[g].pending
       /\ visit'[g].loaded = visit[g].loaded /\ visit'[g].depth = visit[g].depth
       /\ visit'[g].fetched = visit[g].fetched
  BY <1>9 DEF PagesInv, VisitHolds, VisitFields
<1>12. \/ at = "storing" /\ visit[g].at = "storing"
       \/ visit[g].at = "keeping" /\ (at = "keeping" \/ at = "loading" \/ (at = "answered" /\ Unloaded(g) = {}))
  BY <1>1, <1>8 DEF After
<1>13. Exact(visit[g].got)'
  BY <1>1, <1>11, Standing DEF Exact, PagesInv, VisitHolds
<1>14. VisitHolds(g)'
  BY <1>1, <1>7, <1>11, <1>12, <1>13, Standing DEF VisitHolds, PagesInv, Unloaded
<1>15. Unloaded(g)' = Unloaded(g)
  BY <1>11 DEF Unloaded
<1>16. LevelsLoaded(g)'
  BY <1>1, <1>11, <1>12, <1>15, Standing DEF LevelsLoaded, PagesInv
<1> QED BY <1>1, <1>6, <1>10, <1>14, <1>16, VisitSteps

\* What was loaded is put into the cache they share.
LEMMA PutKeeps ==
  ASSUME PagesInv, NEW g \in Visits, NEW kept, kept \in {{}, visit[g].fetched}, PutMany(g, kept)
  PROVE  PagesInv'
<1>1. UNCHANGED <<stored, links, local>> /\ visit[g].at = "storing" /\ visit[g].keep = {}
  BY DEF PutMany
<1>2. kept \subseteq DOMAIN visit[g].got
  BY DEF PagesInv, VisitHolds
<1>3. PICK entries : entries = [k \in {Key(v) : v \in kept} |-> visit[g].got[CHOOSE v \in kept : Key(v) = k]]
  OBVIOUS
<1>4. Exact(entries)
  <2>1. {Key(v) : v \in kept} = kept
    BY DEF Key
  <2>2. ASSUME NEW k \in kept PROVE (CHOOSE v \in kept : Key(v) = k) = k
    BY DEF Key
  <2>3. DOMAIN entries = kept /\ \A k \in kept : entries[k] = visit[g].got[k]
    BY <1>3, <2>1, <2>2
  <2> QED BY <1>2, <2>3 DEF Exact, PagesInv, VisitHolds
<1>5. shared' = Joined(entries, shared)
  BY <1>3 DEF PutMany
<1>6. Exact(Joined(entries, shared))
  BY <1>4, JoinedExact DEF PagesInv, CachesExact
<1>7. CachesExact'
  <2>1. ASSUME NEW q \in Replicas PROVE Exact(local[q])' /\ Bounded(local[q])'
    BY <1>1, Standing DEF Exact, Bounded, PagesInv, CachesExact
  <2>2. Exact(shared)'
    BY <1>1, <1>5, <1>6, Standing DEF Exact
  <2> QED BY <1>1, <2>1, <2>2 DEF CachesExact, PagesInv
<1>8. visit' = [visit EXCEPT ![g] = [visit[g] EXCEPT !.at = "answered", !.fetched = {}]]
  BY DEF PutMany
<1>9. DOMAIN visit' = Visits /\ \A h \in Visits : h # g => visit'[h] = visit[h]
  BY <1>8 DEF PagesInv
<1>10. /\ DOMAIN visit'[g] = VisitFields /\ visit'[g].at = "answered"
       /\ visit'[g].replica = visit[g].replica /\ visit'[g].wanted = visit[g].wanted
       /\ visit'[g].got = visit[g].got
       /\ visit'[g].keep = visit[g].keep /\ visit'[g].pending = visit[g].pending
       /\ visit'[g].loaded = visit[g].loaded /\ visit'[g].depth = visit[g].depth
       /\ visit'[g].fetched = {}
  BY <1>8 DEF PagesInv, VisitHolds, VisitFields
<1>11. Exact(visit[g].got)'
  BY <1>1, <1>10, Standing DEF Exact, PagesInv, VisitHolds
<1>12. VisitHolds(g)'
  BY <1>1, <1>10, <1>11, Standing DEF VisitHolds, PagesInv
<1>13. LevelsLoaded(g)'
  BY <1>1, <1>10, Standing DEF LevelsLoaded, PagesInv
<1> QED BY <1>1, <1>7, <1>9, <1>12, <1>13, VisitSteps

\* A level is loaded: first the versions that are missing, then their passages.
LEMMA LevelKeeps ==
  ASSUME PagesInv, NEW g \in Visits, LoadLevel(g)
  PROVE  PagesInv'
<1>0. PICK new : new = visit[g].pending \ visit[g].loaded
  OBVIOUS
<1>1. /\ UNCHANGED <<stored, links, local, shared>>
      /\ visit[g].at = "loading" /\ new # {} /\ visit[g].depth < MaxPassageDepth
  BY <1>0 DEF LoadLevel
<1>2. PICK loaded : loaded = visit[g].loaded \cup new
  OBVIOUS
<1>3. PICK depth : depth = visit[g].depth + 1
  OBVIOUS
<1>4. PICK next : next = NextLevel(new)
  OBVIOUS
<1>5. visit' = [visit EXCEPT ![g] = [visit[g] EXCEPT !.loaded = loaded, !.depth = depth, !.pending = next]]
  BY <1>0, <1>2, <1>3, <1>4 DEF LoadLevel
<1>6. DOMAIN visit' = Visits /\ \A h \in Visits : h # g => visit'[h] = visit[h]
  BY <1>5 DEF PagesInv
<1>7. /\ DOMAIN visit'[g] = VisitFields /\ visit'[g].at = visit[g].at
      /\ visit'[g].replica = visit[g].replica /\ visit'[g].wanted = visit[g].wanted
      /\ visit'[g].got = visit[g].got
      /\ visit'[g].keep = visit[g].keep /\ visit'[g].pending = next
      /\ visit'[g].loaded = loaded /\ visit'[g].depth = depth
      /\ visit'[g].fetched = visit[g].fetched
  BY <1>5 DEF PagesInv, VisitHolds, VisitFields
<1>8. Exact(visit[g].got)'
  BY <1>1, <1>7, Standing DEF Exact, PagesInv, VisitHolds
<1>9. VisitHolds(g)'
  BY <1>1, <1>7, <1>8, Standing DEF VisitHolds, PagesInv
<1>10. PICK missing : missing = Unloaded(g)
  OBVIOUS
<1>11. Unloaded(g)' = missing /\ NextLevel(missing)' = NextLevel(missing)
  BY <1>1, <1>7, <1>10, Standing DEF Unloaded
<1>12. new \subseteq Existing /\ loaded \subseteq Existing /\ next \subseteq Existing
  BY <1>0, <1>2, <1>4, LevelsExist DEF PagesInv, LevelsLoaded
<1>13. visit[g].depth \in 0..MaxPassageDepth /\ depth \in 1..MaxPassageDepth /\ MaxPassageDepth \in Nat
  BY <1>1, <1>3, PagesAssumption DEF PagesInv, LevelsLoaded
<1>14. depth = 1 => loaded = missing /\ next = NextLevel(missing)
  <2> SUFFICES ASSUME depth = 1 PROVE loaded = missing /\ next = NextLevel(missing)
    OBVIOUS
  <2>1. visit[g].depth = 0
    BY <1>3, <1>13
  <2>2. visit[g].loaded = {} /\ visit[g].pending = missing
    BY <1>1, <1>10, <2>1 DEF PagesInv, LevelsLoaded
  <2>3. new = missing /\ loaded = missing
    BY <1>0, <1>2, <2>2
  <2> QED BY <1>4, <2>3
<1>15. depth > 1 => missing \cup NextLevel(missing) \subseteq loaded
  <2>1. CASE visit[g].depth = 0
    BY <1>3, <2>1
  <2>2. CASE visit[g].depth = 1
    BY <1>0, <1>1, <1>2, <1>10, <2>2 DEF PagesInv, LevelsLoaded
  <2>3. CASE visit[g].depth > 1
    BY <1>1, <1>2, <1>10, <2>3 DEF PagesInv, LevelsLoaded
  <2> QED BY <1>13, <2>1, <2>2, <2>3
<1>16. LevelsLoaded(g)'
  BY <1>1, <1>7, <1>11, <1>12, <1>13, <1>14, <1>15, Standing DEF LevelsLoaded
<1> QED BY <1>1, <1>6, <1>9, <1>16, CachesStand, VisitSteps

\* All the levels are loaded, so that what is put together is whole.
LEMMA AssembleKeeps ==
  ASSUME PagesInv, NEW g \in Visits, Assemble(g)
  PROVE  PagesInv'
<1>1. /\ UNCHANGED <<stored, links, local, shared>>
      /\ visit[g].at = "loading"
      /\ visit[g].pending \subseteq visit[g].loaded \/ visit[g].depth = MaxPassageDepth
  BY DEF Assemble
<1>2. PICK missing : missing = Unloaded(g)
  OBVIOUS
<1>3. missing \subseteq Existing /\ missing \subseteq visit[g].wanted
  BY <1>2 DEF Unloaded, PagesInv, VisitHolds
<1>4. NextLevel(missing) \subseteq visit[g].loaded
  <2>1. visit[g].depth \in 0..MaxPassageDepth /\ MaxPassageDepth > 1 /\ MaxPassageDepth \in Nat
    BY PagesAssumption DEF PagesInv, LevelsLoaded
  <2>2. CASE visit[g].depth = 0
    <3>1. missing = {}
      BY <1>1, <1>2, <2>1, <2>2 DEF PagesInv, LevelsLoaded
    <3> QED BY <3>1 DEF NextLevel
  <2>3. CASE visit[g].depth = 1
    BY <1>1, <1>2, <2>1, <2>3 DEF PagesInv, LevelsLoaded
  <2>4. CASE visit[g].depth > 1
    BY <1>1, <1>2, <2>4 DEF PagesInv, LevelsLoaded
  <2> QED BY <2>1, <2>2, <2>3, <2>4
<1>5. PICK entries : entries = [v \in missing |-> Expanded(v, visit[g].loaded)]
  OBVIOUS
<1>6. Exact(entries) /\ DOMAIN entries = missing
  <2>1. ASSUME NEW v \in missing PROVE Expanded(v, visit[g].loaded) = Structure(v)
    <3>1. Range(Pinned(v)) \subseteq visit[g].loaded
      BY <1>4 DEF NextLevel
    <3> QED BY <1>3, <3>1, Whole DEF PagesInv
  <2> QED BY <1>3, <1>5, <2>1 DEF Exact
<1>7. PICK kept : kept = Joined(entries, visit[g].got)
  OBVIOUS
<1>8. Exact(kept) /\ DOMAIN kept = missing \cup DOMAIN visit[g].got
  BY <1>6, <1>7, JoinedExact DEF PagesInv, VisitHolds
<1>9. visit' = [visit EXCEPT ![g] = [visit[g] EXCEPT !.at = "storing", !.keep = missing, !.fetched = missing,
           !.loaded = {}, !.pending = {}, !.depth = 0, !.got = kept]]
  BY <1>2, <1>5, <1>7 DEF Assemble
<1>10. DOMAIN visit' = Visits /\ \A h \in Visits : h # g => visit'[h] = visit[h]
  BY <1>9 DEF PagesInv
<1>11. /\ DOMAIN visit'[g] = VisitFields /\ visit'[g].at = "storing"
       /\ visit'[g].replica = visit[g].replica /\ visit'[g].wanted = visit[g].wanted
       /\ visit'[g].got = kept
       /\ visit'[g].keep = missing /\ visit'[g].pending = {}
       /\ visit'[g].loaded = {} /\ visit'[g].depth = 0
       /\ visit'[g].fetched = missing
  BY <1>9 DEF PagesInv, VisitHolds, VisitFields
<1>12. Exact(visit[g].got)'
  BY <1>1, <1>8, <1>11, Standing DEF Exact
<1>13. VisitHolds(g)'
  BY <1>1, <1>2, <1>3, <1>8, <1>11, <1>12, Standing DEF VisitHolds, PagesInv, Unloaded
<1>14. LevelsLoaded(g)'
  BY <1>11, PagesAssumption DEF LevelsLoaded
<1> QED BY <1>1, <1>10, <1>13, <1>14, CachesStand, VisitSteps

\* The page is shown.
LEMMA CloseKeeps ==
  ASSUME PagesInv, NEW g \in Visits, Close(g)
  PROVE  PagesInv'
<1>1. UNCHANGED <<stored, links, local, shared>>
  BY DEF Close
<1>2. visit' = [visit EXCEPT ![g] = NoVisit]
  BY DEF Close
<1>3. DOMAIN visit' = Visits /\ visit'[g] = NoVisit /\ \A h \in Visits : h # g => visit'[h] = visit[h]
  BY <1>2 DEF PagesInv
<1>4. DOMAIN Nowhere = {}
  BY DEF Nowhere
<1>5. VisitHolds(g)'
  BY <1>3, <1>4 DEF VisitHolds, NoVisit, VisitFields, Exact
<1>6. LevelsLoaded(g)'
  BY <1>3, PagesAssumption DEF LevelsLoaded, NoVisit
<1> QED BY <1>1, <1>3, <1>5, <1>6, CachesStand, VisitSteps

\* A cache forgets.
LEMMA ExpiryKeeps ==
  ASSUME PagesInv,
         \/ \E r \in Replicas : \E k \in DOMAIN local[r] : ExpireLocal(r, k)
         \/ \E k \in DOMAIN shared : ExpireShared(k)
  PROVE  PagesInv'
<1>1. UNCHANGED <<stored, links, visit>>
  BY DEF ExpireLocal, ExpireShared
<1>2. CachesExact'
  <2>1. ASSUME NEW r \in Replicas, NEW k \in DOMAIN local[r], ExpireLocal(r, k) PROVE CachesExact'
    <3>1. PICK rest : rest = Restrict(local[r], DOMAIN local[r] \ {k})
      OBVIOUS
    <3>2. Exact(rest) /\ Bounded(rest)
      BY <3>1, RestrictExact DEF PagesInv, CachesExact
    <3>3. local' = [local EXCEPT ![r] = rest] /\ shared' = shared
      BY <2>1, <3>1 DEF ExpireLocal
    <3>4. ASSUME NEW q \in Replicas PROVE Exact(local[q])' /\ Bounded(local[q])'
      BY <1>1, <3>2, <3>3, Standing DEF Exact, Bounded, PagesInv, CachesExact
    <3>5. Exact(shared)'
      BY <1>1, <3>3, Standing DEF Exact, PagesInv, CachesExact
    <3> QED BY <3>3, <3>4, <3>5 DEF CachesExact, PagesInv
  <2>2. ASSUME NEW k \in DOMAIN shared, ExpireShared(k) PROVE CachesExact'
    <3>1. PICK rest : rest = Restrict(shared, DOMAIN shared \ {k})
      OBVIOUS
    <3>2. Exact(rest)
      BY <3>1, RestrictExact DEF PagesInv, CachesExact
    <3>3. shared' = rest /\ local' = local
      BY <2>2, <3>1 DEF ExpireShared
    <3>4. ASSUME NEW q \in Replicas PROVE Exact(local[q])' /\ Bounded(local[q])'
      BY <1>1, <3>3, Standing DEF Exact, Bounded, PagesInv, CachesExact
    <3>5. Exact(shared)'
      BY <1>1, <3>2, <3>3, Standing DEF Exact
    <3> QED BY <3>3, <3>4, <3>5 DEF CachesExact, PagesInv
  <2> QED BY <2>1, <2>2
<1>3. VersionsStored'
  BY <1>1, Standing DEF PagesInv
<1>4. ASSUME NEW h \in Visits PROVE VisitHolds(h)' /\ LevelsLoaded(h)'
  <2>1. VisitHolds(h)'
    BY <1>1, Standing DEF PagesInv, VisitHolds, Exact
  <2>2. NextLevel(Unloaded(h))' = NextLevel(Unloaded(h))
    BY <1>1, Standing DEF NextLevel, Unloaded, Range
  <2>3. LevelsLoaded(h)'
    BY <1>1, <2>2, Standing DEF PagesInv, LevelsLoaded, Unloaded
  <2> QED BY <2>1, <2>3
<1> QED BY <1>1, <1>2, <1>3, <1>4 DEF PagesInv

\* An editor adds a version; what was there stays as it was.
LEMMA Added ==
  ASSUME PagesInv, (\E p \in 1..Passages : UpdatePassage(p)) \/ (\E refresh \in BOOLEAN : ReviseTest(refresh))
  PROVE  /\ VersionsStored' /\ Existing \subseteq Existing'
         /\ \A v \in Existing : Pinned(v)' = Pinned(v)
         /\ UNCHANGED <<local, shared, visit>>
<1>0. VersionsStored /\ TheTest \in 0..Passages /\ Passages \in Nat /\ MaxStored \in Nat
  BY PagesAssumption DEF PagesInv, TheTest
<1>1. ASSUME NEW p \in 1..Passages, UpdatePassage(p)
      PROVE  /\ VersionsStored' /\ Existing \subseteq Existing' /\ \A v \in Existing : Pinned(v)' = Pinned(v)
  <2>1. p \in 0..Passages /\ p # TheTest /\ stored[p] \in 1..MaxStored /\ stored[p] < MaxStored
    BY <1>0, <1>1 DEF UpdatePassage, VersionsStored, TheTest
  <2>2. stored' = [stored EXCEPT ![p] = @ + 1] /\ links' = links
    BY <1>1 DEF UpdatePassage
  <2>x. stored \in [0..Passages -> 1..MaxStored] /\ \A m \in 0..Passages : stored[m] \in Nat
    BY <1>0 DEF VersionsStored
  <2>y. stored[p] + 1 \in 1..MaxStored
    BY <1>0, <2>1, <2>x
  <2>z. stored' \in [0..Passages -> 1..MaxStored] /\ stored'[TheTest] = stored[TheTest]
    BY <1>0, <2>1, <2>2, <2>x, <2>y
  <2>3. /\ stored' \in [0..Passages -> 1..MaxStored] /\ stored'[TheTest] = stored[TheTest]
        /\ \A m \in 0..Passages : stored[m] <= stored'[m] /\ stored'[m] \in Nat
    <3>1. ASSUME NEW m \in 0..Passages PROVE stored[m] <= stored'[m] /\ stored'[m] \in Nat
      BY <2>1, <2>2, <2>x
    <3> QED BY <2>z, <3>1
  <2>4. ASSUME NEW i \in 1..Len(links), NEW q \in 1..Passages PROVE links[i][q] <= stored'[q]
    <3>1. links[i] \in [1..Passages -> 1..MaxStored] /\ links[i][q] <= stored[q] /\ q \in 0..Passages
      BY <1>0 DEF VersionsStored
    <3>2. links[i][q] \in Nat /\ stored[q] \in Nat /\ stored'[q] \in Nat
      BY <1>0, <2>3, <3>1 DEF VersionsStored
    <3> QED BY <2>3, <3>1, <3>2
  <2>5. VersionsStored'
    BY <1>0, <2>2, <2>3, <2>4 DEF VersionsStored
  <2>6. Existing \subseteq Existing'
    <3> SUFFICES ASSUME NEW v \in Version, v.n <= stored[v.material] PROVE v.n <= stored'[v.material]
      BY DEF Existing
    <3>1. v.n \in Nat /\ v.material \in 0..Passages
      BY DEF Version
    <3>2. stored[v.material] \in Nat /\ stored'[v.material] \in Nat
      BY <2>x, <2>3, <3>1
    <3> QED BY <2>3, <3>1, <3>2
  <2> QED BY <2>2, <2>5, <2>6 DEF Pinned
<1>2. ASSUME NEW refresh \in BOOLEAN, ReviseTest(refresh)
      PROVE  /\ VersionsStored' /\ Existing \subseteq Existing' /\ \A v \in Existing : Pinned(v)' = Pinned(v)
  <2>1. PICK n \in 1..MaxStored : n = stored[TheTest] /\ n < MaxStored /\ n = Len(links)
    BY <1>0, <1>2 DEF ReviseTest, VersionsStored
  <2>n. n \in Nat /\ n + 1 \in 1..MaxStored
    BY <1>0, <2>1
  <2>2. PICK new : new = IF refresh THEN [p \in 1..Passages |-> stored[p]] ELSE links[Len(links)]
    OBVIOUS
  <2>3. stored' = [stored EXCEPT ![TheTest] = n + 1] /\ links' = Append(links, new)
    BY <1>2, <2>1, <2>2 DEF ReviseTest
  <2>4. new \in [1..Passages -> 1..MaxStored]
    <3>1. \A p \in 1..Passages : stored[p] \in 1..MaxStored
      BY <1>0 DEF VersionsStored
    <3>2. links[Len(links)] \in [1..Passages -> 1..MaxStored]
      BY <1>0, <2>1 DEF VersionsStored
    <3> QED BY <2>2, <3>1, <3>2
  <2>5. \A p \in 1..Passages : new[p] <= stored[p]
    <3>1. \A p \in 1..Passages : stored[p] \in Nat
      BY <1>0 DEF VersionsStored
    <3>2. CASE refresh
      BY <2>2, <3>1, <3>2
    <3>3. CASE ~refresh
      BY <1>0, <2>1, <2>2, <3>3 DEF VersionsStored
    <3> QED BY <3>2, <3>3
  <2>s. links \in Seq([1..Passages -> 1..MaxStored]) /\ Len(links) = n
    BY <1>0, <2>1 DEF VersionsStored
  <2>6. /\ links' \in Seq([1..Passages -> 1..MaxStored]) /\ Len(links') = n + 1
        /\ links'[n + 1] = new /\ \A i \in 1..n : links'[i] = links[i]
    <3> DEFINE T == [1..Passages -> 1..MaxStored]
    <3>1. links \in Seq(T) /\ new \in T
      BY <2>s, <2>4
    <3> HIDE DEF T
    <3>2. links' \in Seq(T) /\ Len(links') = n + 1 /\ links'[n + 1] = new /\ \A i \in 1..n : links'[i] = links[i]
      BY <2>3, <2>n, <2>s, <3>1
    <3> QED BY <3>2 DEF T
  <2>7. /\ stored' \in [0..Passages -> 1..MaxStored] /\ stored'[TheTest] = n + 1
        /\ \A m \in 0..Passages : m # TheTest => stored'[m] = stored[m]
    BY <1>0, <2>1, <2>3 DEF VersionsStored
  <2>8. ASSUME NEW i \in 1..Len(links'), NEW p \in 1..Passages PROVE links'[i][p] <= stored'[p]
    <3>1. p \in 0..Passages /\ p # TheTest
      BY <1>0 DEF TheTest
    <3>2. CASE i = n + 1
      BY <2>5, <2>6, <2>7, <3>1, <3>2
    <3>3. CASE i \in 1..n
      BY <1>0, <2>1, <2>6, <2>7, <3>1, <3>3 DEF VersionsStored
    <3> QED BY <2>1, <2>6, <3>2, <3>3
  <2>9. VersionsStored'
    BY <2>6, <2>7, <2>8 DEF VersionsStored
  <2>10. Existing \subseteq Existing'
    <3> SUFFICES ASSUME NEW v \in Version, v.n <= stored[v.material] PROVE v.n <= stored'[v.material]
      BY DEF Existing
    <3>1. v.n \in Nat /\ v.material \in 0..Passages
      BY DEF Version
    <3>2. CASE v.material = TheTest
      <4>1. v.n <= n /\ stored'[v.material] = n + 1
        BY <2>1, <2>7, <3>2
      <4> QED BY <2>n, <3>1, <4>1
    <3>3. CASE v.material # TheTest
      BY <2>7, <3>1, <3>3
    <3> QED BY <3>2, <3>3
  <2>11. ASSUME NEW v \in Existing PROVE Pinned(v)' = Pinned(v)
    <3>1. CASE v.material = TheTest
      <4>1. v.n \in 1..n
        <5>1. v.n \in 1..MaxStored /\ v.n <= n
          BY <2>1, <3>1 DEF Existing, Version
        <5> QED BY <1>0, <2>n, <5>1
      <4> QED BY <2>6, <4>1 DEF Pinned
    <3>2. CASE v.material # TheTest
      BY <3>2 DEF Pinned
    <3> QED BY <3>1, <3>2
  <2> QED BY <2>9, <2>10, <2>11
<1>3. UNCHANGED <<local, shared, visit>>
  BY DEF UpdatePassage, ReviseTest
<1> QED BY <1>1, <1>2, <1>3

\* Editors add versions.
LEMMA EditingKeeps ==
  ASSUME PagesInv, (\E p \in 1..Passages : UpdatePassage(p)) \/ (\E refresh \in BOOLEAN : ReviseTest(refresh))
  PROVE  PagesInv'
<1>1. /\ VersionsStored' /\ Existing \subseteq Existing' /\ UNCHANGED <<local, shared, visit>>
      /\ \A v \in Existing : Pinned(v)' = Pinned(v)
  BY Added
<1>2. \A v \in Existing : Structure(v)' = Structure(v)
  BY <1>1 DEF Structure
<1>3. CachesExact'
  <2>1. ASSUME NEW q \in Replicas PROVE Exact(local[q])' /\ Bounded(local[q])'
    BY <1>1, <1>2 DEF Exact, Bounded, PagesInv, CachesExact
  <2>2. Exact(shared)'
    BY <1>1, <1>2 DEF Exact, PagesInv, CachesExact
  <2> QED BY <1>1, <2>1, <2>2 DEF CachesExact, PagesInv
<1>4. ASSUME NEW h \in Visits PROVE VisitHolds(h)' /\ LevelsLoaded(h)'
  <2>1. Exact(visit[h].got)'
    BY <1>1, <1>2 DEF Exact, PagesInv, VisitHolds
  <2>2. VisitHolds(h)'
    BY <1>1, <2>1 DEF PagesInv, VisitHolds
  <2>3. Unloaded(h) \subseteq Existing /\ Unloaded(h)' = Unloaded(h)
    BY <1>1 DEF PagesInv, VisitHolds, Unloaded
  <2>4. NextLevel(Unloaded(h))' = NextLevel(Unloaded(h))
    BY <1>1, <2>3 DEF NextLevel, Range
  <2>5. LevelsLoaded(h)'
    BY <1>1, <2>3, <2>4 DEF PagesInv, LevelsLoaded
  <2> QED BY <2>2, <2>5
<1> QED BY <1>1, <1>3, <1>4 DEF PagesInv

\* A page shows of each attempt what the version it is pinned to reads by itself, whatever
\* was edited, cached, evicted or loaded together with it.
THEOREM PagesKept == PagesSpec => []PagesHold
<1>1. PagesInv /\ [PagesNext]_pagesVars => PagesInv'
  <2> SUFFICES ASSUME PagesInv, [PagesNext]_pagesVars PROVE PagesInv'
    OBVIOUS
  <2>1. ASSUME NEW g \in Visits, NEW r \in Replicas, NEW wanted \in SUBSET Existing, OpenPage(g, r, wanted)
        PROVE  PagesInv'
    BY <2>1, OpenKeeps
  <2>2. ASSUME NEW g \in Visits, NEW found \in {{}, Hits(shared, Unloaded(g))}, GetMany(g, found)
        PROVE  PagesInv'
    BY <2>2, FoundKeeps
  <2>3. ASSUME NEW g \in Visits, NEW v \in visit[g].keep, Keep(g, v) PROVE PagesInv'
    BY <2>3, KeepKeeps
  <2>4. ASSUME NEW g \in Visits, NEW kept \in {{}, visit[g].fetched}, PutMany(g, kept) PROVE PagesInv'
    BY <2>4, PutKeeps
  <2>5. ASSUME NEW g \in Visits, LoadLevel(g) \/ Assemble(g) \/ Close(g) PROVE PagesInv'
    BY <2>5, LevelKeeps, AssembleKeeps, CloseKeeps
  <2>6. CASE \/ \E r \in Replicas : \E k \in DOMAIN local[r] : ExpireLocal(r, k)
             \/ \E k \in DOMAIN shared : ExpireShared(k)
    BY <2>6, ExpiryKeeps
  <2>7. CASE (\E p \in 1..Passages : UpdatePassage(p)) \/ (\E refresh \in BOOLEAN : ReviseTest(refresh))
    BY <2>7, EditingKeeps
  <2>8. CASE UNCHANGED pagesVars
    <3>1. UNCHANGED <<stored, links, local, shared, visit>>
      BY <2>8 DEF pagesVars
    <3>2. ASSUME NEW h \in Visits PROVE VisitHolds(h)' /\ LevelsLoaded(h)'
      <4>1. NextLevel(Unloaded(h))' = NextLevel(Unloaded(h))
        BY <3>1, Standing DEF NextLevel, Unloaded, Range
      <4> QED BY <3>1, <4>1, Standing DEF PagesInv, VisitHolds, LevelsLoaded, Unloaded, Exact
    <3> QED BY <3>1, <3>2, Standing, CachesStand DEF PagesInv
  <2> QED BY <2>1, <2>2, <2>3, <2>4, <2>5, <2>6, <2>7, <2>8 DEF PagesNext
<1>2. PagesInv => PagesHold
  <2> SUFFICES ASSUME PagesInv PROVE PagesHold
    OBVIOUS
  <2>1. Existing \subseteq Version
    BY DEF Existing
  <2>2. PagesTypeOK
    BY <2>1 DEF PagesInv, VersionsStored, VisitHolds, LevelsLoaded, PagesTypeOK
  <2>3. PagesAreExact
    BY DEF PagesInv, CachesExact, Bounded, VisitHolds, Exact, PagesAreExact
  <2> QED BY <2>2, <2>3 DEF PagesHold
<1> QED BY <1>1, <1>2, PagesStart, PTL DEF PagesSpec

-------------------------------------------------------------------------------
(* Learning cycles: the inductive invariant.                                *)

\* What a review or the student may have given a drill.
Labels == Families \cup {Draft, Removed}

DrillRow ==
  [d : Drills, fam : Labels, cyc : Nat, gen : Nat, seen : BOOLEAN,
   st : {"in-progress", "submitted"}, help : BOOLEAN, indep : BOOLEAN, on : Nat]

CheckRow == [s : Nat, passed : BOOLEAN, delayed : BOOLEAN]

CycleRow ==
  [src : Nat, fix : [verdict : Verdicts \cup {"none"}, assisted : BOOLEAN, on : Nat], gen : Nat,
   skipped : BOOLEAN, checks : Seq(CheckRow),
   status : {"needs-practice", "correction-saved", "awaiting-transfer", "demonstrated"}]

TaskRow ==
  [c : Nat, d : Drills, gen : Nat, fam : Labels, on : Nat, s : Nat,
   st : {"PLANNED", "IN_PROGRESS", "COMPLETED", "SKIPPED", "MISSED"}]

\* An independent drill was solved without help and not met before, by family or by itself.
Unmet(ss, k) ==
  /\ ss[k].indep => ~ss[k].help /\ ss[k].fam \in Families /\ ~ss[k].seen
  /\ ~ss[k].seen => \A j \in 1..(k - 1) : ss[j].fam # ss[k].fam /\ ss[j].d # ss[k].d

\* A drill for a cycle was begun after the correction it counts for.
AfterFix(cs, s) ==
  /\ s.cyc \in 0..Len(cs)
  /\ s.cyc # 0 => /\ s.gen <= cs[s.cyc].gen
                  /\ s.gen = cs[s.cyc].gen => s.on >= cs[s.cyc].fix.on

\* The checks of a cycle are drills begun for it, those that count under its correction.
OwnChecks(cs, ss, c) ==
  /\ cs[c].src \in 0..Len(ss) /\ cs[c].fix.on <= date
  /\ \A i \in DOMAIN cs[c].checks :
       /\ cs[c].checks[i].s \in DOMAIN ss /\ ss[cs[c].checks[i].s].cyc = c
       /\ ss[cs[c].checks[i].s].indep => ss[cs[c].checks[i].s].gen = cs[c].gen

\* What demonstrates a correction, as refreshCycleIndexed counts it now.
Demonstrates(c, ss) ==
  c.status = "demonstrated" =>
    /\ c.fix.verdict = "correct" /\ ~c.fix.assisted
    /\ \E i, j \in DOMAIN c.checks :
         /\ c.checks[i].passed /\ Counts(c, c.checks[i], ss) /\ c.checks[i].delayed
         /\ c.checks[j].passed /\ Counts(c, c.checks[j], ss)
         /\ ss[c.checks[i].s].fam # ss[c.checks[j].s].fam

Live(ss, plans, k) == ss[k].st = "in-progress" /\ ~\E a \in plans : a.s = k /\ a.st = "SKIPPED"

Due(a) == a.st = "PLANNED" /\ a.on >= date

OneSession(ss, plans) ==
  \A k, l \in DOMAIN ss :
    Live(ss, plans, k) /\ Live(ss, plans, l) /\ ss[k].cyc = ss[l].cyc /\ ss[k].cyc # 0 => k = l

OnePlan(plans) == \A a, b \in plans : Due(a) /\ Due(b) /\ a.c = b.c => a = b

PlannedApart(ss, plans) == \A a \in plans : Due(a) => ~Open(ss, plans, a.c)

PlansFit(cs, ss, plans) == plans \subseteq TaskRow /\ \A a \in plans : a.c \in DOMAIN cs /\ a.s \in 0..Len(ss)

RowsFit(cs, ss) ==
  /\ ss \in Seq(DrillRow) /\ cs \in Seq(CycleRow)
  /\ \A k \in DOMAIN ss : Unmet(ss, k) /\ AfterFix(cs, ss[k])
  /\ \A c \in DOMAIN cs : OwnChecks(cs, ss, c)

RightlyShown(cs, ss) == \A c \in DOMAIN cs : Demonstrates(cs[c], ss)

LearnInv ==
  /\ date \in 1..MaxDay /\ reviews \in 0..MaxReviews /\ synced \in BOOLEAN
  /\ label \in [{0} \cup Drills -> Labels]
  /\ RowsFit(cycles, sessions) /\ PlansFit(cycles, sessions, agenda)
  /\ synced => RightlyShown(cycles, sessions)
  /\ OneSession(sessions, agenda) /\ OnePlan(agenda) /\ PlannedApart(sessions, agenda)

-------------------------------------------------------------------------------
(* Learning cycles: lemmas.                                                 *)

\* A set of numbers has a least one.
LEMMA LeastOf ==
  ASSUME NEW S \in SUBSET Nat, S # {}
  PROVE  Min(S) \in S /\ \A y \in S : ~(y < Min(S))
<1>1. IsWellFoundedOn(OpToRel(<, Nat), Nat)
  BY NatLessThanWellFounded
<1>2. \A x, y \in Nat : x < y => <<x, y>> \in OpToRel(<, Nat)
  BY DEF OpToRel
<1>3. PICK x \in S : \A y \in S : <<y, x>> \notin OpToRel(<, Nat)
  BY <1>1, WFMin
<1>4. \A y \in S : ~(y < x)
  BY <1>2, <1>3
<1>5. \A y \in S : x <= y
  BY <1>4
<1>6. Min(S) \in S /\ \A y \in S : Min(S) <= y
  BY <1>5 DEF Min
<1>7. \A m, n \in Nat : m <= n => ~(n < m)
  OBVIOUS
<1> QED BY <1>6, <1>7

\* A drill, a cycle, a check of the plan: what is written of each is a row.
LEMMA LearnShapes ==
  ASSUME LearnInv
  PROVE  /\ sessions \in Seq(DrillRow) /\ cycles \in Seq(CycleRow) /\ agenda \subseteq TaskRow
         /\ date \in Nat /\ label \in [{0} \cup Drills -> Labels]
         /\ Len(sessions) \in Nat /\ DOMAIN sessions = 1..Len(sessions)
         /\ Len(cycles) \in Nat /\ DOMAIN cycles = 1..Len(cycles)
         /\ \A k \in DOMAIN sessions : sessions[k] \in DrillRow
         /\ \A c \in DOMAIN cycles : cycles[c] \in CycleRow
BY LearningAssumption DEF LearnInv, RowsFit, PlansFit

-------------------------------------------------------------------------------
(* Learning cycles: what every request does to the plan.                    *)

\* What holds of the plan while its checks are put right: nothing skipped comes back, each
\* cycle has one check, and none beside a drill that is under way.
Righted(cs, ss, plans, as) ==
  /\ PlansFit(cs, ss, as) /\ OnePlan(as) /\ PlannedApart(ss, as)
  /\ {a \in as : a.st = "SKIPPED"} = {a \in plans : a.st = "SKIPPED"}

\* Under the same skipped checks the same drills are under way.
LEMMA SameOpen ==
  ASSUME NEW ss, NEW plans, NEW as, {a \in as : a.st = "SKIPPED"} = {a \in plans : a.st = "SKIPPED"}
  PROVE  /\ \A c : Open(ss, as, c) <=> Open(ss, plans, c)
         /\ \A k : Live(ss, as, k) <=> Live(ss, plans, k)
<1>1. \A k : (\E a \in as : a.s = k /\ a.st = "SKIPPED") <=> (\E a \in plans : a.s = k /\ a.st = "SKIPPED")
  OBVIOUS
<1> QED BY <1>1 DEF Open, Live

\* The checks that stay are right.
LEMMA KeptAreRight ==
  ASSUME NEW cs, NEW ss, NEW plans, PlansFit(cs, ss, plans), OnePlan(plans), date \in Nat,
         NEW as, as = {a \in plans : a.st # "PLANNED" \/ a.on < date \/ Stays(cs, ss, plans, a)}
  PROVE  Righted(cs, ss, plans, as)
<1>1. as \subseteq plans /\ {a \in as : a.st = "SKIPPED"} = {a \in plans : a.st = "SKIPPED"}
  OBVIOUS
<1>2. PlansFit(cs, ss, as) /\ OnePlan(as)
  BY <1>1 DEF PlansFit, OnePlan
<1>3. ASSUME NEW a \in as, Due(a) PROVE ~Open(ss, as, a.c)
  <2>1. a.on \in Nat
    BY <1>1 DEF PlansFit, TaskRow
  <2>2. Stays(cs, ss, plans, a)
    BY <1>3, <2>1 DEF Due
  <2>3. ~Open(ss, plans, a.c)
    BY <2>2 DEF Stays
  <2> QED BY <1>1, <2>3, SameOpen
<1> QED BY <1>1, <1>2, <1>3 DEF Righted, PlannedApart

\* A check that is added is right.
LEMMA AddedIsRight ==
  ASSUME NEW cs \in Seq(CycleRow), NEW ss \in Seq(DrillRow), NEW plans, NEW as, Righted(cs, ss, plans, as),
         NEW c \in 1..Len(cs), date \in Nat, label \in [{0} \cup Drills -> Labels]
  PROVE  Righted(cs, ss, plans, WithCheck(cs, ss, as, c))
<1> DEFINE fits == {d \in Drills :
             /\ Transfers(cs[c], d)
             /\ \A a \in as : a.st = "PLANNED" => a.d # d /\ a.fam # label[d]}
           days == {x \in (date + 1)..MaxDay :
             x >= NextCheckDate(cs[c]) /\ ~\E a \in as : a.on = x /\ a.st # "SKIPPED"}
           new == [c |-> c, d |-> Min(fits), gen |-> cs[c].gen, fam |-> label[Min(fits)],
                    on |-> Min(days), st |-> "PLANNED", s |-> 0]
           none == ~(\E a \in as : a.c = c /\ a.st = "PLANNED" /\ a.on >= date) /\ ~Open(ss, as, c)
                   /\ fits # {} /\ days # {}
<1>1. CASE WithCheck(cs, ss, as, c) = as
  BY <1>1
<1>2. CASE none /\ WithCheck(cs, ss, as, c) = as \cup {new}
  <2>1. Min(fits) \in Drills
    <3>1. fits \subseteq Nat /\ fits \subseteq Drills /\ fits # {}
      BY <1>2, LearningAssumption
    <3> HIDE DEF fits
    <3> QED BY <3>1, LeastOf
  <2>2. Min(days) \in Nat
    <3>1. MaxDay \in Nat /\ \A x \in (date + 1)..MaxDay : x \in Nat
      BY LearningAssumption
    <3>2. days \in SUBSET Nat /\ days # {}
      BY <1>2, <3>1
    <3> HIDE DEF days
    <3> QED BY <3>2, LeastOf
  <2>3. PICK b : b = new
    OBVIOUS
  <2>4. c \in DOMAIN cs /\ cs[c].gen \in Nat
    <3>1. c \in DOMAIN cs /\ cs[c] \in CycleRow
      OBVIOUS
    <3> QED BY <3>1 DEF CycleRow
  <2>5. b \in TaskRow /\ b.c = c /\ b.s = 0 /\ b.st = "PLANNED"
    <3> HIDE DEF fits, days
    <3> QED BY <2>1, <2>2, <2>3, <2>4 DEF TaskRow
  <2>6. WithCheck(cs, ss, as, c) = as \cup {b}
    BY <1>2, <2>3
  <2> HIDE DEF fits, days, new
  <2>7. /\ {a \in as \cup {b} : a.st = "SKIPPED"} = {a \in as : a.st = "SKIPPED"}
        /\ {a \in as \cup {b} : a.st = "SKIPPED"} = {a \in plans : a.st = "SKIPPED"}
    BY <2>5 DEF Righted
  <2>8. \A x : Open(ss, as \cup {b}, x) <=> Open(ss, as, x)
    BY <2>7, SameOpen
  <2>9. PlansFit(cs, ss, as \cup {b})
    <3>1. 0 \in 0..Len(ss)
      OBVIOUS
    <3> QED BY <2>4, <2>5, <3>1 DEF Righted, PlansFit
  <2>10. \A a \in as : Due(a) => a.c # c
    BY <1>2 DEF Due
  <2>11. OnePlan(as \cup {b}) /\ PlannedApart(ss, as \cup {b})
    BY <1>2, <2>5, <2>8, <2>10 DEF Righted, OnePlan, PlannedApart
  <2> QED BY <2>6, <2>7, <2>9, <2>11 DEF Righted
<1> QED BY <1>1, <1>2 DEF WithCheck

\* What reconcileLearningAssignments leaves is right, however many cycles it passes.
LEMMA ReconciledIsRight ==
  ASSUME NEW cs \in Seq(CycleRow), NEW ss \in Seq(DrillRow), NEW plans,
         PlansFit(cs, ss, plans), OnePlan(plans),
         date \in Nat, label \in [{0} \cup Drills -> Labels]
  PROVE  Righted(cs, ss, plans, Reconciled(cs, ss, plans))
<1>1. PICK kept : kept = {a \in plans : a.st # "PLANNED" \/ a.on < date \/ Stays(cs, ss, plans, a)}
  OBVIOUS
<1>2. Righted(cs, ss, plans, kept)
  BY <1>1, KeptAreRight
<1> DEFINE Steps(g, n) == g = [c \in 0..n |-> IF c = 0 THEN kept ELSE WithCheck(cs, ss, g[c - 1], c)]
           upTo == CHOOSE g : Steps(g, Len(cs))
<1>3. Reconciled(cs, ss, plans) = upTo[Len(cs)]
  BY <1>1 DEF Reconciled
<1>4. Len(cs) \in Nat
  OBVIOUS
<1>5. \A n \in Nat : (\E g : Steps(g, n)) => \E g : Steps(g, n + 1)
  <2> SUFFICES ASSUME NEW n \in Nat, NEW g, Steps(g, n) PROVE \E h : Steps(h, n + 1)
    OBVIOUS
  <2> DEFINE h == [c \in 0..(n + 1) |-> IF c = n + 1 THEN WithCheck(cs, ss, g[n], n + 1) ELSE g[c]]
  <2>1. \A c \in 0..(n + 1) : h[c] = IF c = 0 THEN kept ELSE WithCheck(cs, ss, h[c - 1], c)
    <3> SUFFICES ASSUME NEW c \in 0..(n + 1) PROVE h[c] = IF c = 0 THEN kept ELSE WithCheck(cs, ss, h[c - 1], c)
      OBVIOUS
    <3>1. CASE c = 0
      BY <3>1
    <3>2. CASE c = n + 1
      <4>1. h[c - 1] = g[n] /\ c # 0
        BY <3>2
      <4> QED BY <3>2, <4>1
    <3>3. CASE c \in 1..n
      <4>1. h[c - 1] = g[c - 1] /\ h[c] = g[c] /\ c # 0
        BY <3>3
      <4>2. g[c] = WithCheck(cs, ss, g[c - 1], c)
        BY <3>3
      <4> QED BY <4>1, <4>2
    <3> QED BY <3>1, <3>2, <3>3
  <2>2. h = [c \in 0..(n + 1) |-> IF c = 0 THEN kept ELSE WithCheck(cs, ss, h[c - 1], c)]
    <3>1. h = [c \in 0..(n + 1) |-> h[c]]
      OBVIOUS
    <3> HIDE DEF h
    <3> QED BY <2>1, <3>1
  <2>3. PICK f : f = h
    OBVIOUS
  <2> QED BY <2>2, <2>3
<1>6. \E g : Steps(g, 0)
  <2>1. Steps([c \in 0..0 |-> kept], 0)
    OBVIOUS
  <2> QED BY <2>1
<1>7. \E g : Steps(g, Len(cs))
  <2> DEFINE Fails == {n \in Nat : ~\E g : Steps(g, n)}
  <2> SUFFICES ASSUME Fails # {} PROVE FALSE
    BY <1>4
  <2> HIDE DEF Steps
  <2>1. Min(Fails) \in Fails /\ \A n \in Fails : ~(n < Min(Fails))
    BY LeastOf
  <2>2. PICK n \in Nat : n = Min(Fails) /\ ~\E g : Steps(g, n)
    BY <2>1
  <2>3. n - 1 \in Nat /\ n - 1 < n /\ (n - 1) + 1 = n
    <3>1. n # 0
      BY <1>6, <2>2
    <3> QED BY <3>1
  <2>4. \E g : Steps(g, n - 1)
    BY <2>1, <2>2, <2>3
  <2> QED BY <1>5, <2>2, <2>3, <2>4
<1>8. Steps(upTo, Len(cs))
  BY <1>7
<1> HIDE DEF upTo
<1>9. /\ upTo[0] = kept
      /\ \A c \in 1..Len(cs) : upTo[c] = WithCheck(cs, ss, upTo[c - 1], c)
  <2>1. 0 \in 0..Len(cs) /\ \A c \in 1..Len(cs) : c \in 0..Len(cs) /\ c # 0
    BY <1>4
  <2>2. \A c \in 0..Len(cs) : upTo[c] = IF c = 0 THEN kept ELSE WithCheck(cs, ss, upTo[c - 1], c)
    BY <1>8
  <2> QED BY <2>1, <2>2
<1>10. \A n \in 0..Len(cs) : Righted(cs, ss, plans, upTo[n])
  <2> DEFINE Fails == {n \in 0..Len(cs) : ~Righted(cs, ss, plans, upTo[n])}
  <2> SUFFICES ASSUME Fails # {} PROVE FALSE
    OBVIOUS
  <2>1. Min(Fails) \in Fails /\ \A n \in Fails : ~(n < Min(Fails))
    <3>1. Fails \in SUBSET Nat /\ Fails # {}
      BY <1>4
    <3> HIDE DEF Fails
    <3> QED BY <3>1, LeastOf
  <2>2. PICK n \in 0..Len(cs) : n = Min(Fails) /\ ~Righted(cs, ss, plans, upTo[n])
    BY <2>1
  <2>3. n # 0
    BY <1>2, <1>9, <2>2
  <2>4. n - 1 \in 0..Len(cs) /\ n - 1 < n /\ n \in 1..Len(cs)
    BY <1>4, <2>3
  <2>5. Righted(cs, ss, plans, upTo[n - 1])
    BY <2>1, <2>2, <2>4
  <2>6. Righted(cs, ss, plans, WithCheck(cs, ss, upTo[n - 1], n))
    BY <2>4, <2>5, AddedIsRight
  <2> QED BY <1>9, <2>2, <2>4, <2>6
<1> QED BY <1>3, <1>4, <1>10

\* Checks whose day has passed are missed: nothing else changes.
LEMMA OverdueFits ==
  ASSUME NEW cs, NEW ss, NEW plans, PlansFit(cs, ss, plans), OnePlan(plans), date \in Nat
  PROVE  /\ PlansFit(cs, ss, Overdue(plans)) /\ OnePlan(Overdue(plans))
         /\ {a \in Overdue(plans) : a.st = "SKIPPED"} = {a \in plans : a.st = "SKIPPED"}
<1>1. \A a \in plans : a \in TaskRow
  BY DEF PlansFit
<1>2. ASSUME NEW a \in TaskRow, NEW b, b = [a EXCEPT !.st = "MISSED"]
      PROVE  b \in TaskRow /\ b.st = "MISSED" /\ b.c = a.c /\ b.s = a.s
  BY <1>2 DEF TaskRow
<1>3. ASSUME NEW b \in Overdue(plans)
      PROVE  /\ b \in TaskRow /\ \E a \in plans : b.c = a.c /\ b.s = a.s
             /\ b.st # "MISSED" => b \in plans
  <2>1. PICK a \in plans : b = IF a.st = "PLANNED" /\ a.on < date THEN [a EXCEPT !.st = "MISSED"] ELSE a
    BY DEF Overdue
  <2>2. CASE b = a
    BY <1>1, <2>2
  <2>3. CASE b = [a EXCEPT !.st = "MISSED"]
    BY <1>1, <1>2, <2>3
  <2> QED BY <2>1, <2>2, <2>3
<1>4. ASSUME NEW a \in plans, a.st = "SKIPPED" PROVE a \in Overdue(plans)
  BY <1>4 DEF Overdue
<1>5. PlansFit(cs, ss, Overdue(plans))
  BY <1>3 DEF PlansFit
<1>6. OnePlan(Overdue(plans))
  BY <1>3 DEF OnePlan, Due
<1> QED BY <1>3, <1>4, <1>5, <1>6

-------------------------------------------------------------------------------
(* Learning cycles: what every request does to cycles and drills.           *)

\* A refreshed cycle differs in its status only, and says demonstrated of what is.
LEMMA RefreshedShows ==
  ASSUME NEW c \in CycleRow, NEW ss \in Seq(DrillRow), NEW r, r = Refreshed(c, ss)
  PROVE  /\ r \in CycleRow /\ Demonstrates(r, ss)
         /\ r.src = c.src /\ r.fix = c.fix /\ r.gen = c.gen /\ r.skipped = c.skipped /\ r.checks = c.checks
<1> DEFINE good == {i \in DOMAIN c.checks : c.checks[i].passed /\ Counts(c, c.checks[i], ss)}
           families == {ss[c.checks[i].s].fam : i \in good}
           enough == Cardinality(families) >= 2 /\ \E i \in good : c.checks[i].delayed
           correct == c.fix.verdict = "correct" /\ ~c.fix.assisted
<1>1. PICK st : /\ r = [c EXCEPT !.status = st]
                /\ st = CASE c.fix.verdict \in {"none", "incorrect"} -> "needs-practice"
                           [] correct /\ enough -> "demonstrated"
                           [] correct /\ ~enough -> "awaiting-transfer"
                           [] OTHER -> "correction-saved"
  BY DEF Refreshed
<1>2. /\ st \in {"needs-practice", "correction-saved", "awaiting-transfer", "demonstrated"}
      /\ st = "demonstrated" => correct /\ enough
  <2> HIDE DEF enough
  <2>1. CASE c.fix.verdict \in {"none", "incorrect"}
    BY <1>1, <2>1
  <2>2. CASE correct /\ enough
    BY <1>1, <2>2
  <2>3. CASE correct /\ ~enough
    BY <1>1, <2>3
  <2>4. CASE ~(c.fix.verdict \in {"none", "incorrect"}) /\ ~correct
    <3> HIDE DEF correct
    <3> QED BY <1>1, <2>4
  <2> QED BY <2>1, <2>2, <2>3, <2>4
<1>4. /\ r \in CycleRow /\ r.status = st
      /\ r.src = c.src /\ r.fix = c.fix /\ r.gen = c.gen /\ r.skipped = c.skipped /\ r.checks = c.checks
  <2> HIDE DEF enough
  <2> QED BY <1>1, <1>2 DEF CycleRow
<1>5. \A k : Counts(r, k, ss) <=> Counts(c, k, ss)
  BY <1>4 DEF Counts, SourceFamily, OfSource
<1>6. ASSUME enough
      PROVE  \E i, j \in good : c.checks[i].delayed /\ ss[c.checks[i].s].fam # ss[c.checks[j].s].fam
  <2>1. PICK i \in good : c.checks[i].delayed
    BY <1>6
  <2>2. PICK f : f = ss[c.checks[i].s].fam
    OBVIOUS
  <2>3. families # {f}
    <3>1. Cardinality({f}) = 1
      BY FS_Singleton
    <3>2. Cardinality(families) >= 2
      BY <1>6
    <3> SUFFICES ASSUME families = {f} PROVE FALSE
      OBVIOUS
    <3>3. Cardinality(families) = 1
      BY <3>1
    <3> HIDE DEF families
    <3> QED BY <3>2, <3>3
  <2> QED BY <2>1, <2>2, <2>3
<1>7. Demonstrates(r, ss)
  <2> SUFFICES ASSUME r.status = "demonstrated" PROVE Demonstrates(r, ss)
    BY DEF Demonstrates
  <2>1. enough /\ c.fix.verdict = "correct" /\ ~c.fix.assisted
    BY <1>2, <1>4
  <2>2. PICK i, j \in good : c.checks[i].delayed /\ ss[c.checks[i].s].fam # ss[c.checks[j].s].fam
    BY <1>6, <2>1
  <2> QED BY <1>4, <1>5, <2>1, <2>2 DEF Demonstrates
<1> QED BY <1>4, <1>7

\* Cycles that differ in their status only fit the same drills.
LEMMA RowsLike ==
  ASSUME NEW cs, NEW ss, RowsFit(cs, ss), NEW rs \in Seq(CycleRow), Len(rs) = Len(cs),
         \A c \in DOMAIN cs : /\ rs[c].src = cs[c].src /\ rs[c].fix = cs[c].fix /\ rs[c].gen = cs[c].gen
                              /\ rs[c].checks = cs[c].checks
  PROVE  RowsFit(rs, ss)
<1>1. ss \in Seq(DrillRow) /\ cs \in Seq(CycleRow) /\ DOMAIN rs = DOMAIN cs /\ DOMAIN cs = 1..Len(cs)
  BY DEF RowsFit
<1>2. \A k \in DOMAIN ss : Unmet(ss, k) /\ AfterFix(rs, ss[k])
  <2> SUFFICES ASSUME NEW k \in DOMAIN ss PROVE Unmet(ss, k) /\ AfterFix(rs, ss[k])
    OBVIOUS
  <2>1. Unmet(ss, k) /\ AfterFix(cs, ss[k])
    BY DEF RowsFit
  <2>2. ss[k].cyc # 0 => ss[k].cyc \in DOMAIN cs
    BY <1>1, <2>1 DEF AfterFix
  <2> QED BY <2>1, <2>2 DEF AfterFix
<1>3. \A c \in DOMAIN rs : OwnChecks(rs, ss, c)
  BY <1>1 DEF RowsFit, OwnChecks
<1> QED BY <1>1, <1>2, <1>3 DEF RowsFit

\* Whether a cycle is rightly said to be demonstrated hangs on these fields.
LEMMA DemonstratesLike ==
  ASSUME NEW c, NEW r, NEW ss, r.src = c.src, r.fix = c.fix, r.checks = c.checks, r.status = c.status,
         Demonstrates(c, ss)
  PROVE  Demonstrates(r, ss)
<1>1. \A k : Counts(r, k, ss) <=> Counts(c, k, ss)
  BY DEF Counts, SourceFamily, OfSource
<1> QED BY <1>1 DEF Demonstrates

\* All cycles are refreshed at once.
LEMMA RefreshedAllFits ==
  ASSUME NEW cs, NEW ss, RowsFit(cs, ss), NEW rs, rs = RefreshedAll(cs, ss)
  PROVE  /\ RowsFit(rs, ss) /\ RightlyShown(rs, ss) /\ Len(rs) = Len(cs) /\ DOMAIN rs = DOMAIN cs
         /\ \A c \in DOMAIN cs : /\ rs[c].src = cs[c].src /\ rs[c].fix = cs[c].fix /\ rs[c].gen = cs[c].gen
                                 /\ rs[c].skipped = cs[c].skipped /\ rs[c].checks = cs[c].checks
<1>1. ss \in Seq(DrillRow) /\ cs \in Seq(CycleRow) /\ DOMAIN cs = 1..Len(cs) /\ Len(cs) \in Nat
  BY DEF RowsFit
<1>2. \A c \in DOMAIN cs : cs[c] \in CycleRow
  BY <1>1
<1>3. DOMAIN rs = DOMAIN cs /\ \A c \in DOMAIN cs : rs[c] = Refreshed(cs[c], ss)
  BY DEF RefreshedAll
<1>4. \A c \in DOMAIN cs :
        /\ rs[c] \in CycleRow /\ Demonstrates(rs[c], ss)
        /\ rs[c].src = cs[c].src /\ rs[c].fix = cs[c].fix /\ rs[c].gen = cs[c].gen
        /\ rs[c].skipped = cs[c].skipped /\ rs[c].checks = cs[c].checks
  BY <1>1, <1>2, <1>3, RefreshedShows
<1>5. rs \in Seq(CycleRow) /\ Len(rs) = Len(cs)
  <2>1. rs = [c \in 1..Len(cs) |-> rs[c]]
    BY <1>1, <1>3 DEF RefreshedAll
  <2>2. \A c \in 1..Len(cs) : rs[c] \in CycleRow
    BY <1>1, <1>4
  <2> QED BY <1>1, <2>1, <2>2
<1>6. RowsFit(rs, ss)
  BY <1>4, <1>5, RowsLike
<1> QED BY <1>3, <1>4, <1>5, <1>6 DEF RightlyShown

\* What every request starts from: the labels of now applied to drills and cycles.
LEMMA SyncedFits ==
  ASSUME LearnInv
  PROVE  /\ RowsFit(SyncedCycles, SyncedSessions) /\ RightlyShown(SyncedCycles, SyncedSessions)
         /\ SyncedSessions \in Seq(DrillRow) /\ SyncedCycles \in Seq(CycleRow)
         /\ Len(SyncedSessions) = Len(sessions) /\ DOMAIN SyncedSessions = DOMAIN sessions
         /\ Len(SyncedCycles) = Len(cycles) /\ DOMAIN SyncedCycles = DOMAIN cycles
         /\ \A k \in DOMAIN sessions :
              /\ SyncedSessions[k].d = sessions[k].d /\ SyncedSessions[k].fam = sessions[k].fam
              /\ SyncedSessions[k].cyc = sessions[k].cyc /\ SyncedSessions[k].gen = sessions[k].gen
              /\ SyncedSessions[k].seen = sessions[k].seen /\ SyncedSessions[k].st = sessions[k].st
              /\ SyncedSessions[k].help = sessions[k].help /\ SyncedSessions[k].on = sessions[k].on
              /\ SyncedSessions[k].indep => sessions[k].indep
         /\ \A c \in DOMAIN cycles :
              /\ SyncedCycles[c].src = cycles[c].src /\ SyncedCycles[c].fix = cycles[c].fix
              /\ SyncedCycles[c].gen = cycles[c].gen /\ SyncedCycles[c].skipped = cycles[c].skipped
              /\ SyncedCycles[c].checks = cycles[c].checks
<1>1. PICK ss : ss = SyncedSessions
  OBVIOUS
<1>2. DOMAIN ss = DOMAIN sessions /\ \A k \in DOMAIN sessions : ss[k] = Upheld(sessions[k])
  BY <1>1 DEF SyncedSessions
<1>3. \A k \in DOMAIN sessions :
        /\ ss[k] \in DrillRow
        /\ ss[k].d = sessions[k].d /\ ss[k].fam = sessions[k].fam /\ ss[k].cyc = sessions[k].cyc
        /\ ss[k].gen = sessions[k].gen /\ ss[k].seen = sessions[k].seen /\ ss[k].st = sessions[k].st
        /\ ss[k].help = sessions[k].help /\ ss[k].on = sessions[k].on
        /\ ss[k].indep => sessions[k].indep
  <2> SUFFICES ASSUME NEW k \in DOMAIN sessions
               PROVE  /\ ss[k] \in DrillRow
                      /\ ss[k].d = sessions[k].d /\ ss[k].fam = sessions[k].fam /\ ss[k].cyc = sessions[k].cyc
                      /\ ss[k].gen = sessions[k].gen /\ ss[k].seen = sessions[k].seen /\ ss[k].st = sessions[k].st
                      /\ ss[k].help = sessions[k].help /\ ss[k].on = sessions[k].on
                      /\ ss[k].indep => sessions[k].indep
    OBVIOUS
  <2>1. sessions[k] \in DrillRow
    BY LearnShapes
  <2>2. PICK s \in DrillRow : s = sessions[k]
    BY <2>1
  <2>3. ss[k] = [s EXCEPT !.indep = s.indep /\ label[s.d] = s.fam]
    BY <1>2, <2>2 DEF Upheld
  <2>4. (s.indep /\ label[s.d] = s.fam) \in BOOLEAN
    OBVIOUS
  <2> QED BY <2>2, <2>3, <2>4 DEF DrillRow
<1>4. ss \in Seq(DrillRow) /\ Len(ss) = Len(sessions)
  <2>1. ss = [k \in 1..Len(sessions) |-> ss[k]]
    BY <1>1, <1>2, LearnShapes DEF SyncedSessions
  <2> QED BY <1>3, <2>1, LearnShapes
<1>5. RowsFit(cycles, ss)
  <2>1. \A k \in DOMAIN ss : Unmet(ss, k)
    <3> SUFFICES ASSUME NEW k \in DOMAIN ss PROVE Unmet(ss, k)
      OBVIOUS
    <3>1. Unmet(sessions, k)
      BY <1>2 DEF LearnInv, RowsFit
    <3>2. \A j \in 1..(k - 1) : j \in DOMAIN sessions
      BY <1>2, LearnShapes
    <3> QED BY <1>2, <1>3, <3>1, <3>2 DEF Unmet
  <2>2. \A k \in DOMAIN ss : AfterFix(cycles, ss[k])
    BY <1>2, <1>3 DEF LearnInv, RowsFit, AfterFix
  <2>3. \A c \in DOMAIN cycles : OwnChecks(cycles, ss, c)
    <3> SUFFICES ASSUME NEW c \in DOMAIN cycles PROVE OwnChecks(cycles, ss, c)
      OBVIOUS
    <3>1. OwnChecks(cycles, sessions, c)
      BY DEF LearnInv, RowsFit
    <3> QED BY <1>2, <1>3, <1>4, <3>1 DEF OwnChecks
  <2> QED BY <1>4, <2>1, <2>2, <2>3, LearnShapes DEF RowsFit
<1>6. PICK rs : rs = SyncedCycles
  OBVIOUS
<1>7. rs = RefreshedAll(cycles, ss)
  BY <1>1, <1>6 DEF SyncedCycles
<1>8. RowsFit(rs, ss) /\ rs \in Seq(CycleRow)
  BY <1>5, <1>7, RefreshedAllFits DEF RowsFit
<1> QED BY <1>1, <1>2, <1>3, <1>4, <1>5, <1>6, <1>7, <1>8, RefreshedAllFits

-------------------------------------------------------------------------------
(* Learning cycles: the steps of one request.                               *)

\* The families of mistakes are the same after a request.
LEMMA SourcesStand ==
  ASSUME NEW c, NEW ss, c.src \in 0..Len(sessions), Len(sessions) \in Nat, DOMAIN sessions = 1..Len(sessions),
         \A k \in DOMAIN sessions : k \in DOMAIN ss /\ ss[k].d = sessions[k].d,
         sessions' = ss, label' = label
  PROVE  Demonstrates(c, ss) => Demonstrates(c, ss)'
<1>1. SourceFamily(c)' = SourceFamily(c)
  BY DEF SourceFamily
<1>2. \A d : OfSource(c, d)' <=> OfSource(c, d)
  BY DEF OfSource
<1>3. \A k : Counts(c, k, ss)' <=> Counts(c, k, ss)
  BY <1>1, <1>2 DEF Counts
<1> QED BY <1>3 DEF Demonstrates

\* While labels, cycles and drills stand, what was rightly shown still is.
LEMMA ShownStands ==
  ASSUME RightlyShown(cycles, sessions), UNCHANGED <<label, cycles, sessions>>
  PROVE  RightlyShown(cycles, sessions)'
<1> SUFFICES ASSUME NEW c \in DOMAIN cycles PROVE Demonstrates(cycles[c], sessions)'
  BY DEF RightlyShown
<1>1. PICK z : z = cycles[c]
  OBVIOUS
<1>2. PICK ss : ss = sessions
  OBVIOUS
<1>3. SourceFamily(z)' = SourceFamily(z) /\ \A d : OfSource(z, d)' <=> OfSource(z, d)
  BY DEF SourceFamily, OfSource
<1>4. \A k : Counts(z, k, ss)' <=> Counts(z, k, ss)
  BY <1>3 DEF Counts
<1>5. Demonstrates(z, ss)
  BY <1>1, <1>2 DEF RightlyShown
<1>6. Demonstrates(z, ss)'
  BY <1>4, <1>5 DEF Demonstrates
<1>7. cycles'[c] = z /\ sessions' = ss
  BY <1>1, <1>2
<1>8. \A k : Counts(z, k, ss)' <=> Counts(cycles[c], k, sessions)'
  BY <1>7 DEF Counts, SourceFamily, OfSource
<1> QED BY <1>6, <1>7, <1>8 DEF Demonstrates

\* What every request stores keeps the invariant, if what it did itself fits.
LEMMA StoredKeeps ==
  ASSUME LearnInv, NEW cs, NEW ss, NEW plans, Stored(cs, ss, plans),
         RowsFit(cs, ss), RightlyShown(cs, ss), PlansFit(cs, ss, plans), OneSession(ss, plans), OnePlan(plans),
         \A k \in DOMAIN sessions : k \in DOMAIN ss /\ ss[k].d = sessions[k].d,
         \A c \in DOMAIN cs : cs[c].src \in 0..Len(sessions)
  PROVE  LearnInv'
<1>1. /\ sessions' = ss /\ cycles' = cs /\ synced' = TRUE /\ UNCHANGED <<date, label, reviews>>
      /\ agenda' = Reconciled(cs, ss, Overdue(plans))
  BY DEF Stored
<1>2. date \in Nat /\ label \in [{0} \cup Drills -> Labels] /\ ss \in Seq(DrillRow) /\ cs \in Seq(CycleRow)
  BY LearnShapes DEF RowsFit
<1>3. PICK as : as = agenda'
  OBVIOUS
<1>4. /\ Righted(cs, ss, Overdue(plans), as)
      /\ {a \in Overdue(plans) : a.st = "SKIPPED"} = {a \in plans : a.st = "SKIPPED"}
  BY <1>1, <1>2, <1>3, OverdueFits, ReconciledIsRight
<1>5. OneSession(ss, as)
  <2>1. \A k : Live(ss, as, k) <=> Live(ss, plans, k)
    BY <1>4, SameOpen DEF Righted
  <2> QED BY <2>1 DEF OneSession
<1>6. PlansFit(cs, ss, as) /\ OnePlan(as) /\ PlannedApart(ss, as)
  BY <1>4 DEF Righted
<1>7. PlansFit(cycles, sessions, agenda)'
  BY <1>1, <1>3, <1>6 DEF PlansFit
<1>8. OneSession(sessions, agenda)'
  BY <1>1, <1>3, <1>5 DEF OneSession, Live
<1>9. OnePlan(agenda)' /\ PlannedApart(sessions, agenda)'
  BY <1>1, <1>3, <1>6 DEF OnePlan, PlannedApart, Due, Open
<1>10. RowsFit(cycles, sessions)'
  BY <1>1 DEF RowsFit, Unmet, AfterFix, OwnChecks
<1>11. RightlyShown(cycles, sessions)'
  <2> SUFFICES ASSUME NEW c \in DOMAIN cs PROVE Demonstrates(cycles[c], sessions)'
    BY <1>1 DEF RightlyShown
  <2>1. PICK z : z = cs[c]
    OBVIOUS
  <2>2. Demonstrates(z, ss)'
    BY <1>1, <2>1, LearnShapes, SourcesStand DEF RightlyShown
  <2>3. cycles'[c] = z
    BY <1>1, <2>1
  <2>4. \A k : Counts(z, k, ss)' <=> Counts(cycles[c], k, sessions)'
    BY <1>1, <2>3 DEF Counts, SourceFamily, OfSource
  <2> QED BY <1>1, <2>2, <2>3, <2>4 DEF Demonstrates
<1> QED BY <1>1, <1>7, <1>8, <1>9, <1>10, <1>11 DEF LearnInv

\* Requests that begin no drill leave the drills under way and the plan as it was, or less.
LEMMA SyncedTasks ==
  ASSUME LearnInv
  PROVE  /\ OneSession(SyncedSessions, agenda)
         /\ \A c : Open(SyncedSessions, agenda, c) <=> Open(sessions, agenda, c)
<1>1. \A k \in DOMAIN sessions : Live(SyncedSessions, agenda, k) <=> Live(sessions, agenda, k)
  BY SyncedFits DEF Live
<1>2. OneSession(SyncedSessions, agenda)
  BY <1>1, SyncedFits DEF LearnInv, OneSession
<1>3. \A c : Open(SyncedSessions, agenda, c) <=> Open(sessions, agenda, c)
  BY SyncedFits DEF Open
<1> QED BY <1>2, <1>3

\* A request that only reads brings cycles and plan up to date.
LEMMA LookKeeps ==
  ASSUME LearnInv, LookAtCycles
  PROVE  LearnInv'
<1>1. Stored(SyncedCycles, SyncedSessions, agenda)
  BY DEF LookAtCycles
<1>2. PlansFit(SyncedCycles, SyncedSessions, agenda)
  BY SyncedFits DEF LearnInv, PlansFit
<1>3. \A c \in DOMAIN SyncedCycles : SyncedCycles[c].src \in 0..Len(sessions)
  BY SyncedFits DEF LearnInv, RowsFit, OwnChecks
<1>4. OnePlan(agenda)
  BY DEF LearnInv
<1> QED BY <1>1, <1>2, <1>3, <1>4, SyncedFits, SyncedTasks, StoredKeeps

\* A request that changes one cycle.
LEMMA ChangedKeeps ==
  ASSUME LearnInv, NEW i \in DOMAIN cycles, NEW r \in CycleRow,
         NEW cs, cs = [SyncedCycles EXCEPT ![i] = r],
         Stored(cs, SyncedSessions, agenda), Demonstrates(r, SyncedSessions),
         r.src = cycles[i].src,
         \/ r.fix = cycles[i].fix /\ r.gen = cycles[i].gen /\ r.checks = cycles[i].checks
         \/ r.fix.on = date /\ r.gen > cycles[i].gen /\ r.checks = <<>>
  PROVE  LearnInv'
<1>1. PICK ss : ss = SyncedSessions
  OBVIOUS
<1>2. PICK rs : rs = SyncedCycles
  OBVIOUS
<1>3. /\ RowsFit(rs, ss) /\ RightlyShown(rs, ss) /\ ss \in Seq(DrillRow) /\ rs \in Seq(CycleRow)
      /\ Len(ss) = Len(sessions) /\ DOMAIN ss = DOMAIN sessions
      /\ Len(rs) = Len(cycles) /\ DOMAIN rs = DOMAIN cycles
  BY <1>1, <1>2, SyncedFits
<1>4. /\ cs \in Seq(CycleRow) /\ Len(cs) = Len(rs) /\ DOMAIN cs = DOMAIN rs /\ cs[i] = r
      /\ \A c \in DOMAIN rs : c # i => cs[c] = rs[c]
  BY <1>2, <1>3
<1>5. rs[i].src = cycles[i].src /\ rs[i].fix = cycles[i].fix /\ rs[i].gen = cycles[i].gen
      /\ rs[i].checks = cycles[i].checks
  BY <1>2, SyncedFits
<1>6. cycles[i].gen \in Nat /\ r.gen \in Nat /\ date \in Nat
  <2>1. cycles[i] \in CycleRow
    BY LearnShapes
  <2> QED BY <2>1, LearnShapes DEF CycleRow
<1>7. ASSUME NEW k \in DOMAIN ss PROVE AfterFix(cs, ss[k])
  <2>1. AfterFix(rs, ss[k])
    BY <1>3 DEF RowsFit
  <2>2. CASE ss[k].cyc # i
    <3>1. ss[k].cyc # 0 => ss[k].cyc \in DOMAIN rs
      BY <1>3, <2>1 DEF AfterFix
    <3> QED BY <1>4, <2>1, <2>2, <3>1 DEF AfterFix
  <2>3. CASE ss[k].cyc = i
    <3>1. ss[k] \in DrillRow
      BY <1>3
    <3>2. ss[k].gen \in Nat
      BY <3>1 DEF DrillRow
    <3>3. i # 0 /\ i \in 0..Len(cs)
      BY <1>3, <1>4, <2>1, <2>3, LearnShapes DEF AfterFix
    <3>4. ss[k].gen <= cycles[i].gen /\ (ss[k].gen = cycles[i].gen => ss[k].on >= cycles[i].fix.on)
      BY <1>5, <2>1, <2>3, <3>3 DEF AfterFix
    <3>5. CASE r.fix = cycles[i].fix /\ r.gen = cycles[i].gen
      BY <1>4, <2>3, <3>3, <3>4, <3>5 DEF AfterFix
    <3>6. CASE r.gen > cycles[i].gen
      <4>1. ss[k].gen <= r.gen /\ ss[k].gen # r.gen
        BY <1>6, <3>2, <3>4, <3>6
      <4> QED BY <1>4, <2>3, <3>3, <4>1 DEF AfterFix
    <3> QED BY <3>5, <3>6
  <2> QED BY <2>2, <2>3
<1>8. ASSUME NEW c \in DOMAIN cs PROVE OwnChecks(cs, ss, c)
  <2>1. OwnChecks(rs, ss, c)
    BY <1>3, <1>4 DEF RowsFit
  <2>2. CASE c # i
    BY <1>4, <2>1, <2>2 DEF OwnChecks
  <2>3. CASE c = i /\ r.fix = cycles[i].fix /\ r.gen = cycles[i].gen /\ r.checks = cycles[i].checks
    BY <1>4, <1>5, <2>1, <2>3 DEF OwnChecks
  <2>4. CASE c = i /\ r.fix.on = date /\ r.checks = <<>>
    <3>1. DOMAIN r.checks = {}
      BY <2>4
    <3>2. date <= date
      BY <1>6
    <3> QED BY <1>4, <1>5, <2>1, <2>4, <3>1, <3>2 DEF OwnChecks
  <2> QED BY <2>2, <2>3, <2>4
<1>9. RowsFit(cs, ss)
  BY <1>3, <1>4, <1>7, <1>8 DEF RowsFit
<1>10. RightlyShown(cs, ss)
  BY <1>1, <1>3, <1>4 DEF RightlyShown
<1>11. PlansFit(cs, ss, agenda) /\ OnePlan(agenda)
  BY <1>3, <1>4 DEF LearnInv, PlansFit
<1>12. \A c \in DOMAIN cs : cs[c].src \in 0..Len(sessions)
  BY <1>3, <1>8 DEF OwnChecks
<1>13. OneSession(ss, agenda) /\ \A k \in DOMAIN sessions : k \in DOMAIN ss /\ ss[k].d = sessions[k].d
  BY <1>1, SyncedFits, SyncedTasks
<1> QED BY <1>1, <1>9, <1>10, <1>11, <1>12, <1>13, StoredKeeps

\* A mistake is set aside.
LEMMA SkipCycleKeeps ==
  ASSUME LearnInv, NEW i \in DOMAIN cycles, SkipCycle(i)
  PROVE  LearnInv'
<1>1. PICK s : s = SyncedCycles[i]
  OBVIOUS
<1>2. s \in CycleRow /\ Demonstrates(s, SyncedSessions)
  BY <1>1, SyncedFits DEF RightlyShown
<1>3. PICK r : r = [s EXCEPT !.skipped = TRUE]
  OBVIOUS
<1>4. /\ r \in CycleRow /\ r.src = s.src /\ r.fix = s.fix /\ r.gen = s.gen
      /\ r.checks = s.checks /\ r.status = s.status
  BY <1>2, <1>3 DEF CycleRow
<1>5. [SyncedCycles EXCEPT ![i].skipped = TRUE] = [SyncedCycles EXCEPT ![i] = r]
  BY <1>1, <1>3
<1>6. Stored([SyncedCycles EXCEPT ![i] = r], SyncedSessions, agenda)
  BY <1>5 DEF SkipCycle
<1>7. Demonstrates(r, SyncedSessions)
  BY <1>2, <1>4, DemonstratesLike
<1>8. r.src = cycles[i].src /\ r.fix = cycles[i].fix /\ r.gen = cycles[i].gen /\ r.checks = cycles[i].checks
  BY <1>1, <1>4, SyncedFits
<1> QED BY <1>4, <1>6, <1>7, <1>8, ChangedKeeps

\* A mistake is corrected.
LEMMA CorrectKeeps ==
  ASSUME LearnInv, NEW i \in DOMAIN cycles, NEW v \in Verdicts, NEW h \in Assisted, Correct(i, v, h)
  PROVE  LearnInv'
<1>1. PICK c : c = SyncedCycles[i]
  OBVIOUS
<1>2. c \in CycleRow /\ c.src = cycles[i].src /\ c.gen = cycles[i].gen
  BY <1>1, SyncedFits
<1>3. PICK fixed : fixed = [c EXCEPT !.fix = [verdict |-> v, assisted |-> h, on |-> date],
                                     !.gen = @ + 1, !.checks = ChecksAfter(c)]
  OBVIOUS
<1>4. PICK fix : fix = [verdict |-> v, assisted |-> h, on |-> date]
  OBVIOUS
<1>5. fix \in [verdict : Verdicts \cup {"none"}, assisted : BOOLEAN, on : Nat] /\ fix.on = date
  BY <1>4, LearnShapes DEF Assisted
<1>6. fixed = [c EXCEPT !.fix = fix, !.gen = c.gen + 1, !.checks = <<>>]
  BY <1>2, <1>3, <1>4 DEF ChecksAfter, CycleRow
<1>7. c.gen \in Nat
  BY <1>2 DEF CycleRow
<1>8. /\ fixed \in CycleRow /\ fixed.src = c.src /\ fixed.fix = fix /\ fixed.gen = c.gen + 1
      /\ fixed.checks = <<>>
  <2>1. <<>> \in Seq(CheckRow) /\ c.gen + 1 \in Nat
    BY <1>7
  <2> QED BY <1>2, <1>5, <1>6, <2>1 DEF CycleRow
<1>9. PICK r : r = Refreshed(fixed, SyncedSessions)
  OBVIOUS
<1>10. /\ r \in CycleRow /\ Demonstrates(r, SyncedSessions)
       /\ r.src = cycles[i].src /\ r.fix.on = date /\ r.gen > cycles[i].gen /\ r.checks = <<>>
  <2>1. SyncedSessions \in Seq(DrillRow)
    BY SyncedFits
  <2>2. /\ r \in CycleRow /\ Demonstrates(r, SyncedSessions)
        /\ r.src = fixed.src /\ r.fix = fixed.fix /\ r.gen = fixed.gen /\ r.checks = fixed.checks
    BY <1>8, <1>9, <2>1, RefreshedShows
  <2> QED BY <1>2, <1>5, <1>7, <1>8, <2>2
<1>11. Stored([SyncedCycles EXCEPT ![i] = r], SyncedSessions, agenda)
  BY <1>1, <1>3, <1>9 DEF Correct
<1> QED BY <1>10, <1>11, ChangedKeeps

\* Drills that are under way may be handed in and checks skipped: nothing is opened by that.
LEMMA FewerTasks ==
  ASSUME LearnInv, NEW ss, NEW plans,
         \A l \in DOMAIN ss : /\ l \in DOMAIN sessions /\ ss[l].cyc = sessions[l].cyc
                              /\ ss[l].st = "in-progress" => sessions[l].st = "in-progress",
         \A a \in agenda : a.st = "SKIPPED" => a \in plans,
         \A a \in plans : a.st = "PLANNED" => a \in agenda
  PROVE  OneSession(ss, plans) /\ OnePlan(plans)
<1>1. \A l \in DOMAIN ss : Live(ss, plans, l) => Live(sessions, agenda, l)
  BY DEF Live
<1>2. OneSession(ss, plans)
  BY <1>1 DEF LearnInv, OneSession
<1>3. OnePlan(plans)
  BY DEF LearnInv, OnePlan, Due
<1> QED BY <1>2, <1>3

\* The drills with one more, which is for cycle i.
Begun(ss, i) ==
  /\ RowsFit(SyncedCycles, ss) /\ ss \in Seq(DrillRow)
  /\ Len(ss) = Len(sessions) + 1 /\ DOMAIN ss = 1..(Len(sessions) + 1)
  /\ \A k \in DOMAIN sessions : k \in DOMAIN ss /\ ss[k] = SyncedSessions[k]
  /\ ss[Len(ss)].cyc = i

\* A drill that is begun was met before or not as the row says, after the correction it is for.
LEMMA BegunFits ==
  ASSUME LearnInv, NEW d \in Drills, NEW i \in 0..Len(cycles),
         NEW ss, ss = Append(SyncedSessions, Session(d, i))
  PROVE  Begun(ss, i)
<1>1. PICK rs : rs = SyncedCycles
  OBVIOUS
<1>2. PICK old : old = SyncedSessions
  OBVIOUS
<1>3. PICK s : s = Session(d, i)
  OBVIOUS
<1>4. /\ RowsFit(rs, old) /\ old \in Seq(DrillRow) /\ rs \in Seq(CycleRow)
      /\ Len(old) = Len(sessions) /\ DOMAIN old = DOMAIN sessions
      /\ Len(rs) = Len(cycles) /\ DOMAIN rs = DOMAIN cycles
      /\ \A k \in DOMAIN sessions : old[k].d = sessions[k].d /\ old[k].fam = sessions[k].fam
      /\ \A c \in DOMAIN cycles : rs[c].fix = cycles[c].fix /\ rs[c].gen = cycles[c].gen
  BY <1>1, <1>2, SyncedFits
<1>5. i # 0 => i \in DOMAIN cycles /\ cycles[i] \in CycleRow
  BY LearnShapes
<1>6. i # 0 => cycles[i].gen \in Nat /\ cycles[i].fix.on \in Nat /\ cycles[i].fix.on <= date
  <2>1. i # 0 => cycles[i].fix.on <= date
    BY <1>5 DEF LearnInv, RowsFit, OwnChecks
  <2> QED BY <1>5, <2>1 DEF CycleRow
<1>7. /\ s.d = d /\ s.fam = label[d] /\ s.cyc = i /\ s.gen = (IF i = 0 THEN 0 ELSE cycles[i].gen)
      /\ s.seen = Seen(d) /\ ~s.help /\ ~s.indep /\ s.on = date
  BY <1>3 DEF Session
<1>8. s \in DrillRow
  <2>1. label[d] \in Labels /\ date \in Nat /\ i \in Nat
    BY LearnShapes
  <2>2. (IF i = 0 THEN 0 ELSE cycles[i].gen) \in Nat
    BY <1>6
  <2>3. Seen(d) \in BOOLEAN
    BY DEF Seen
  <2> QED BY <1>3, <2>1, <2>2, <2>3 DEF Session, DrillRow
<1>9. Len(sessions) \in Nat /\ DOMAIN sessions = 1..Len(sessions)
  BY LearnShapes
<1>10. /\ ss \in Seq(DrillRow) /\ Len(ss) = Len(sessions) + 1 /\ DOMAIN ss = 1..(Len(sessions) + 1)
       /\ \A k \in DOMAIN sessions : k \in DOMAIN ss /\ ss[k] = old[k]
       /\ ss[Len(sessions) + 1] = s
  BY <1>2, <1>3, <1>4, <1>8, <1>9
<1>11. ASSUME NEW k \in DOMAIN ss PROVE Unmet(ss, k)
  <2>1. CASE k \in DOMAIN sessions
    <3>1. Unmet(old, k)
      BY <1>4, <2>1 DEF RowsFit
    <3>2. \A j \in 1..(k - 1) : j \in DOMAIN sessions
      BY <1>9, <2>1
    <3> QED BY <1>10, <2>1, <3>1, <3>2 DEF Unmet
  <2>2. CASE k = Len(sessions) + 1
    <3>1. \A j \in 1..(k - 1) : j \in DOMAIN sessions
      BY <1>9, <2>2
    <3>2. ~Seen(d) => \A j \in DOMAIN sessions : sessions[j].fam # label[d] /\ sessions[j].d # d
      BY DEF Seen
    <3>3. ss[k] = s /\ \A j \in 1..(k - 1) : ss[j] = old[j]
      BY <1>10, <2>2, <3>1
    <3>4. ~s.seen => ~Seen(d)
      BY <1>7
    <3>5. ~s.seen => \A j \in 1..(k - 1) : ss[j].fam # s.fam /\ ss[j].d # s.d
      BY <1>4, <1>7, <3>1, <3>2, <3>3, <3>4
    <3> QED BY <1>7, <3>3, <3>5 DEF Unmet
  <2> QED BY <1>9, <1>10, <2>1, <2>2
<1>12. ASSUME NEW k \in DOMAIN ss PROVE AfterFix(rs, ss[k])
  <2>1. CASE k \in DOMAIN sessions
    BY <1>4, <1>10, <2>1 DEF RowsFit
  <2>2. CASE k = Len(sessions) + 1
    <3>1. s.cyc \in 0..Len(rs)
      BY <1>4, <1>7
    <3>2. i # 0 => s.gen <= rs[i].gen /\ s.on >= rs[i].fix.on
      <4> SUFFICES ASSUME i # 0 PROVE s.gen <= rs[i].gen /\ s.on >= rs[i].fix.on
        OBVIOUS
      <4>1. s.gen = rs[i].gen /\ s.gen \in Nat
        BY <1>4, <1>5, <1>6, <1>7
      <4>2. s.on = date /\ rs[i].fix.on <= date /\ rs[i].fix.on \in Nat /\ date \in Nat
        BY <1>4, <1>5, <1>6, <1>7, LearnShapes
      <4> QED BY <4>1, <4>2
    <3> QED BY <1>7, <1>10, <2>2, <3>1, <3>2 DEF AfterFix
  <2> QED BY <1>9, <1>10, <2>1, <2>2
<1>13. ASSUME NEW c \in DOMAIN rs PROVE OwnChecks(rs, ss, c)
  <2>1. OwnChecks(rs, old, c)
    BY <1>4 DEF RowsFit
  <2> QED BY <1>4, <1>9, <1>10, <2>1 DEF OwnChecks
<1> QED BY <1>1, <1>2, <1>4, <1>7, <1>10, <1>11, <1>12, <1>13 DEF RowsFit, Begun

\* A drill is begun, at will or because the plan says so.
LEMMA BeginKeeps ==
  ASSUME LearnInv, NEW d \in Drills, NEW i \in 0..Len(cycles), i # 0 => ~Open(sessions, agenda, i),
         NEW ss, ss = Append(SyncedSessions, Session(d, i)),
         NEW plans, Stored(RefreshedAll(SyncedCycles, ss), ss, plans),
         PlansFit(cycles, ss, plans), OnePlan(plans),
         {a \in plans : a.st = "SKIPPED"} = {a \in agenda : a.st = "SKIPPED"}
  PROVE  LearnInv'
<1>1. /\ RowsFit(SyncedCycles, ss) /\ ss \in Seq(DrillRow)
      /\ Len(ss) = Len(sessions) + 1 /\ DOMAIN ss = 1..(Len(sessions) + 1)
      /\ \A k \in DOMAIN sessions : k \in DOMAIN ss /\ ss[k] = SyncedSessions[k]
      /\ ss[Len(ss)].cyc = i
  <2>1. Begun(ss, i)
    BY BegunFits
  <2> QED BY <2>1 DEF Begun
<1>2. PICK cs : cs = RefreshedAll(SyncedCycles, ss)
  OBVIOUS
<1>3. /\ RowsFit(cs, ss) /\ RightlyShown(cs, ss) /\ DOMAIN cs = DOMAIN cycles
      /\ \A c \in DOMAIN cs : cs[c].src = cycles[c].src
  BY <1>1, <1>2, RefreshedAllFits, SyncedFits
<1>4. \A c \in DOMAIN cs : cs[c].src \in 0..Len(sessions)
  BY <1>3 DEF LearnInv, RowsFit, OwnChecks
<1>5. \A k \in DOMAIN sessions : ss[k].d = sessions[k].d /\ ss[k].cyc = sessions[k].cyc /\ ss[k].st = sessions[k].st
  BY <1>1, SyncedFits
<1>6. \A k : Live(ss, plans, k) <=> Live(ss, agenda, k)
  BY SameOpen
<1>7. \A k \in DOMAIN sessions : Live(ss, agenda, k) <=> Live(sessions, agenda, k)
  BY <1>5 DEF Live
<1>8. OneSession(ss, plans)
  <2> SUFFICES ASSUME NEW k \in DOMAIN ss, NEW l \in DOMAIN ss,
                      Live(ss, plans, k), Live(ss, plans, l), ss[k].cyc = ss[l].cyc, ss[k].cyc # 0, k # l
               PROVE  FALSE
    BY DEF OneSession
  <2>1. k \in DOMAIN sessions \/ k = Len(ss)
    BY <1>1, LearnShapes
  <2>2. l \in DOMAIN sessions \/ l = Len(ss)
    BY <1>1, LearnShapes
  <2>3. \A m \in DOMAIN sessions : Live(sessions, agenda, m) /\ i # 0 => sessions[m].cyc # i
    BY DEF Open, Live
  <2>4. CASE k \in DOMAIN sessions /\ l \in DOMAIN sessions
    BY <1>5, <1>6, <1>7, <2>4 DEF LearnInv, OneSession
  <2>5. CASE k \in DOMAIN sessions /\ l = Len(ss)
    BY <1>1, <1>5, <1>6, <1>7, <2>3, <2>5
  <2>6. CASE l \in DOMAIN sessions /\ k = Len(ss)
    BY <1>1, <1>5, <1>6, <1>7, <2>3, <2>6
  <2> QED BY <2>1, <2>2, <2>4, <2>5, <2>6
<1>9. PlansFit(cs, ss, plans)
  BY <1>3 DEF PlansFit
<1> QED BY <1>1, <1>2, <1>3, <1>4, <1>5, <1>8, <1>9, StoredKeeps

\* The student begins a drill.
LEMMA StartDrillKeeps ==
  ASSUME LearnInv, NEW d \in Drills, NEW i \in 0..Len(cycles), StartDrill(d, i)
  PROVE  LearnInv'
<1>1. PICK ss : ss = Append(SyncedSessions, Session(d, i))
  OBVIOUS
<1>2. Stored(RefreshedAll(SyncedCycles, ss), ss, agenda) /\ (i # 0 => ~Open(sessions, agenda, i))
  BY <1>1 DEF StartDrill
<1>3. PlansFit(cycles, ss, agenda) /\ OnePlan(agenda)
  <2>1. Begun(ss, i)
    BY <1>1, BegunFits
  <2>2. \A s \in 0..Len(sessions) : s \in 0..Len(ss)
    BY <2>1, LearnShapes DEF Begun
  <2> QED BY <2>2 DEF LearnInv, PlansFit
<1> QED BY <1>1, <1>2, <1>3, BeginKeeps

\* The student begins the check the plan has for today.
LEMMA StartPlannedKeeps ==
  ASSUME LearnInv, NEW a \in agenda, StartPlanned(a)
  PROVE  LearnInv'
<1>1. PICK ss : ss = Append(SyncedSessions, Session(a.d, a.c))
  OBVIOUS
<1>2. PICK b : b = [a EXCEPT !.st = "IN_PROGRESS", !.s = Len(ss)]
  OBVIOUS
<1>3. PICK plans : plans = (agenda \ {a}) \cup {b}
  OBVIOUS
<1>4. /\ Stored(RefreshedAll(SyncedCycles, ss), ss, plans) /\ a.st = "PLANNED"
      /\ Stays(SyncedCycles, SyncedSessions, agenda, a)
  BY <1>1, <1>2, <1>3 DEF StartPlanned
<1>5. a \in TaskRow /\ a.c \in DOMAIN cycles
  BY DEF LearnInv, PlansFit
<1>6. a.d \in Drills /\ a.c \in 0..Len(cycles)
  BY <1>5, LearnShapes DEF TaskRow
<1>7. ~Open(sessions, agenda, a.c)
  BY <1>4, SyncedTasks DEF Stays
<1>8. Len(ss) = Len(sessions) + 1 /\ Len(ss) \in Nat
  <2>1. Begun(ss, a.c)
    BY <1>1, <1>6, BegunFits
  <2> QED BY <2>1, LearnShapes DEF Begun
<1>9. b \in TaskRow /\ b.c = a.c /\ b.s = Len(ss) /\ b.st = "IN_PROGRESS"
  BY <1>2, <1>5, <1>8 DEF TaskRow
<1>10. {x \in plans : x.st = "SKIPPED"} = {x \in agenda : x.st = "SKIPPED"}
  BY <1>3, <1>4, <1>9
<1>11. PlansFit(cycles, ss, plans)
  <2>1. \A s \in 0..Len(sessions) : s \in 0..Len(ss)
    BY <1>8, LearnShapes
  <2>2. Len(ss) \in 0..Len(ss)
    BY <1>8
  <2> QED BY <1>3, <1>5, <1>9, <2>1, <2>2 DEF LearnInv, PlansFit
<1>12. OnePlan(plans)
  BY <1>3, <1>9 DEF LearnInv, OnePlan, Due
<1> QED BY <1>1, <1>4, <1>6, <1>7, <1>10, <1>11, <1>12, BeginKeeps

\* The student skips a check.
LEMMA SkipPlannedKeeps ==
  ASSUME LearnInv, NEW a \in agenda, SkipPlanned(a)
  PROVE  LearnInv'
<1>1. PICK b : b = [a EXCEPT !.st = "SKIPPED"]
  OBVIOUS
<1>2. PICK plans : plans = (agenda \ {a}) \cup {b}
  OBVIOUS
<1>3. Stored(SyncedCycles, SyncedSessions, plans) /\ a.st \in {"PLANNED", "IN_PROGRESS"}
  BY <1>1, <1>2 DEF SkipPlanned
<1>4. a \in TaskRow /\ a.c \in DOMAIN cycles /\ a.s \in 0..Len(sessions)
  BY DEF LearnInv, PlansFit
<1>5. b \in TaskRow /\ b.c = a.c /\ b.s = a.s /\ b.st = "SKIPPED"
  BY <1>1, <1>4 DEF TaskRow
<1>6. PlansFit(SyncedCycles, SyncedSessions, plans)
  BY <1>2, <1>4, <1>5, SyncedFits DEF LearnInv, PlansFit
<1>7. OneSession(SyncedSessions, plans) /\ OnePlan(plans)
  <2>1. \A l \in DOMAIN SyncedSessions :
          /\ l \in DOMAIN sessions /\ SyncedSessions[l].cyc = sessions[l].cyc
          /\ SyncedSessions[l].st = "in-progress" => sessions[l].st = "in-progress"
    BY SyncedFits
  <2>2. \A x \in agenda : x.st = "SKIPPED" => x \in plans
    BY <1>2, <1>3
  <2>3. \A x \in plans : x.st = "PLANNED" => x \in agenda
    BY <1>2, <1>5
  <2> QED BY <2>1, <2>2, <2>3, FewerTasks
<1>8. \A c \in DOMAIN SyncedCycles : SyncedCycles[c].src \in 0..Len(sessions)
  BY SyncedFits DEF LearnInv, RowsFit, OwnChecks
<1>9. \A k \in DOMAIN sessions : k \in DOMAIN SyncedSessions /\ SyncedSessions[k].d = sessions[k].d
  BY SyncedFits
<1>10. RowsFit(SyncedCycles, SyncedSessions) /\ RightlyShown(SyncedCycles, SyncedSessions)
  BY SyncedFits
<1> QED BY <1>3, <1>6, <1>7, <1>8, <1>9, <1>10, StoredKeeps

\* One element of a sequence is replaced.
LEMMA Replaced ==
  ASSUME NEW S, NEW q \in Seq(S), NEW i \in DOMAIN q, NEW x \in S, NEW p, p = [q EXCEPT ![i] = x]
  PROVE  p \in Seq(S) /\ Len(p) = Len(q) /\ DOMAIN p = DOMAIN q
OBVIOUS

\* A drill k is handed in, passed (p) or not and with help (h) or without: it is a check of
\* its cycle, before a mistake in it is written down.
HandsIn(k, h, p, ss, cs) ==
  LET s == sessions[k]
      c == SyncedCycles[s.cyc]
      done == [s EXCEPT !.st = "submitted", !.help = h, !.indep = s.cyc # 0 /\ Independent(c, s, h)]
      check == [s |-> k, passed |-> p, delayed |-> SameCorrection(c, s) /\ date - c.fix.on >= Delay]
  IN /\ ss = [SyncedSessions EXCEPT ![k] = done]
     /\ cs = IF s.cyc # 0 THEN [SyncedCycles EXCEPT ![s.cyc].checks = Append(@, check)] ELSE SyncedCycles

\* Then the drills are the same, but for one that is no longer under way.
HandedIn(ss, cs) ==
  /\ RowsFit(cs, ss) /\ Len(cs) = Len(cycles)
  /\ Len(ss) = Len(sessions) /\ DOMAIN ss = DOMAIN sessions
  /\ \A l \in DOMAIN sessions : /\ ss[l].d = sessions[l].d /\ ss[l].cyc = sessions[l].cyc
                                /\ ss[l].st = "in-progress" => sessions[l].st = "in-progress"

\* Its check counts for its cycle only, and if it was solved under the correction that stands.
LEMMA HandedInFits ==
  ASSUME LearnInv, NEW k \in DOMAIN sessions, NEW h \in BOOLEAN, NEW p \in BOOLEAN,
         NEW ss, NEW cs, HandsIn(k, h, p, ss, cs)
  PROVE  HandedIn(ss, cs)
<1>a. PICK s : s = sessions[k]
  OBVIOUS
<1>b. PICK c : c = SyncedCycles[s.cyc]
  OBVIOUS
<1>c. PICK done : done = [s EXCEPT !.st = "submitted", !.help = h,
                                   !.indep = s.cyc # 0 /\ Independent(c, s, h)]
  OBVIOUS
<1>d. PICK check : check = [s |-> k, passed |-> p,
                            delayed |-> SameCorrection(c, s) /\ date - c.fix.on >= Delay]
  OBVIOUS
<1>e. /\ ss = [SyncedSessions EXCEPT ![k] = done]
      /\ cs = IF s.cyc # 0 THEN [SyncedCycles EXCEPT ![s.cyc].checks = Append(@, check)] ELSE SyncedCycles
  BY <1>a, <1>b, <1>c, <1>d DEF HandsIn
<1>1. PICK old : old = SyncedSessions
  OBVIOUS
<1>2. PICK rs : rs = SyncedCycles
  OBVIOUS
<1>3. /\ RowsFit(rs, old) /\ old \in Seq(DrillRow) /\ rs \in Seq(CycleRow)
      /\ Len(old) = Len(sessions) /\ DOMAIN old = DOMAIN sessions
      /\ Len(rs) = Len(cycles) /\ DOMAIN rs = DOMAIN cycles
      /\ \A l \in DOMAIN sessions : /\ old[l].d = sessions[l].d /\ old[l].fam = sessions[l].fam
                                    /\ old[l].cyc = sessions[l].cyc /\ old[l].gen = sessions[l].gen
                                    /\ old[l].seen = sessions[l].seen /\ old[l].on = sessions[l].on
                                    /\ old[l].st = sessions[l].st
  BY <1>1, <1>2, SyncedFits
<1>4. /\ DOMAIN sessions = 1..Len(sessions) /\ Len(sessions) \in Nat /\ k \in Nat
      /\ DOMAIN cycles = 1..Len(cycles) /\ Len(cycles) \in Nat
  BY LearnShapes
<1>5. s \in DrillRow /\ (s.cyc # 0 => s.cyc \in DOMAIN rs)
  <2>1. AfterFix(cycles, s)
    BY <1>a DEF LearnInv, RowsFit
  <2> QED BY <1>3, <1>4, <1>a, <2>1, LearnShapes DEF AfterFix
<1>6. PICK indep \in BOOLEAN : indep = (s.cyc # 0 /\ Independent(c, s, h))
  OBVIOUS
<1>7. /\ done \in DrillRow
      /\ done.d = s.d /\ done.fam = s.fam /\ done.cyc = s.cyc /\ done.gen = s.gen
      /\ done.seen = s.seen /\ done.on = s.on /\ done.st = "submitted" /\ done.help = h
      /\ done.indep = indep
  <2>1. done = [s EXCEPT !.st = "submitted", !.help = h, !.indep = indep]
    BY <1>6, <1>c
  <2> QED BY <1>5, <2>1 DEF DrillRow
<1>8. /\ ss \in Seq(DrillRow) /\ Len(ss) = Len(sessions) /\ DOMAIN ss = DOMAIN sessions
      /\ ss[k] = done /\ \A l \in DOMAIN sessions : l # k => ss[l] = old[l]
  BY <1>1, <1>3, <1>7, <1>e
<1>9. \A l \in DOMAIN sessions : /\ ss[l].d = sessions[l].d /\ ss[l].fam = sessions[l].fam
                                 /\ ss[l].cyc = sessions[l].cyc /\ ss[l].gen = sessions[l].gen
                                 /\ ss[l].seen = sessions[l].seen /\ ss[l].on = sessions[l].on
                                 /\ ss[l].st = "in-progress" => sessions[l].st = "in-progress"
  BY <1>3, <1>7, <1>8, <1>a
<1>10. indep => /\ c.gen = s.gen /\ s.fam \in Families /\ ~s.seen /\ ~h /\ s.cyc # 0
  BY <1>6 DEF Independent, SameCorrection
<1>11. ASSUME NEW l \in DOMAIN ss PROVE Unmet(ss, l)
  <2>1. Unmet(old, l) /\ \A j \in 1..(l - 1) : j \in DOMAIN sessions
    BY <1>3, <1>4, <1>8 DEF RowsFit
  <2>2. ~ss[l].seen => \A j \in 1..(l - 1) : ss[j].fam # ss[l].fam /\ ss[j].d # ss[l].d
    BY <1>3, <1>8, <1>9, <2>1 DEF Unmet
  <2>3. ss[l].indep => ~ss[l].help /\ ss[l].fam \in Families /\ ~ss[l].seen
    <3>1. CASE l = k
      BY <1>7, <1>8, <1>10, <3>1
    <3>2. CASE l # k
      BY <1>8, <2>1, <3>2 DEF Unmet
    <3> QED BY <3>1, <3>2
  <2> QED BY <2>2, <2>3 DEF Unmet
<1>12. PICK delayed \in BOOLEAN : delayed = (SameCorrection(c, s) /\ date - c.fix.on >= Delay)
  BY DEF SameCorrection
<1>13. check \in CheckRow /\ check.s = k
  BY <1>4, <1>12, <1>d DEF CheckRow
<1>14. /\ cs \in Seq(CycleRow) /\ Len(cs) = Len(rs) /\ DOMAIN cs = DOMAIN rs
       /\ \A x \in DOMAIN rs : /\ cs[x].src = rs[x].src /\ cs[x].fix = rs[x].fix /\ cs[x].gen = rs[x].gen
                               /\ x # s.cyc => cs[x].checks = rs[x].checks
       /\ s.cyc # 0 => cs[s.cyc].checks = Append(rs[s.cyc].checks, check)
  <2>1. CASE s.cyc = 0
    BY <1>2, <1>3, <1>e, <2>1
  <2>2. CASE s.cyc # 0
    <3>1. PICK i \in DOMAIN rs : i = s.cyc
      BY <1>5, <2>2
    <3>2. rs[i] \in CycleRow
      BY <1>3
    <3>3. rs[i].checks \in Seq(CheckRow)
      BY <3>2 DEF CycleRow
    <3>4. PICK q : q = Append(rs[i].checks, check)
      OBVIOUS
    <3>5. q \in Seq(CheckRow)
      BY <1>13, <3>3, <3>4
    <3>6. PICK r : r = [rs[i] EXCEPT !.checks = q]
      OBVIOUS
    <3>7. r \in CycleRow /\ r.src = rs[i].src /\ r.fix = rs[i].fix /\ r.gen = rs[i].gen /\ r.checks = q
      BY <3>2, <3>5, <3>6 DEF CycleRow
    <3>8. cs = [rs EXCEPT ![i] = r]
      BY <1>2, <1>e, <2>2, <3>1, <3>4, <3>6
    <3>9. cs \in Seq(CycleRow) /\ Len(cs) = Len(rs) /\ DOMAIN cs = DOMAIN rs
      <4>1. rs \in Seq(CycleRow) /\ r \in CycleRow
        BY <1>3, <3>7
      <4> QED BY <3>8, <4>1, Replaced
    <3>10. \A x \in DOMAIN rs : cs[x] = IF x = i THEN r ELSE rs[x]
      BY <1>3, <3>8
    <3> QED BY <3>1, <3>4, <3>7, <3>9, <3>10
  <2> QED BY <2>1, <2>2
<1>15. ASSUME NEW l \in DOMAIN ss PROVE AfterFix(cs, ss[l])
  <2>1. AfterFix(cycles, sessions[l])
    BY <1>8 DEF LearnInv, RowsFit
  <2>2. \A x \in DOMAIN cycles : cs[x].fix = cycles[x].fix /\ cs[x].gen = cycles[x].gen
    BY <1>2, <1>3, <1>14, SyncedFits
  <2>3. sessions[l].cyc # 0 => sessions[l].cyc \in DOMAIN cycles
    BY <1>4, <2>1 DEF AfterFix
  <2>4. ss[l].cyc = sessions[l].cyc /\ ss[l].gen = sessions[l].gen /\ ss[l].on = sessions[l].on
    BY <1>8, <1>9
  <2> QED BY <1>3, <1>14, <2>1, <2>2, <2>3, <2>4 DEF AfterFix
<1>16. ASSUME NEW x \in DOMAIN cs PROVE OwnChecks(cs, ss, x)
  <2>1. OwnChecks(rs, old, x)
    BY <1>3, <1>14 DEF RowsFit
  <2>2. ASSUME NEW t \in CheckRow, t.s \in DOMAIN ss, ss[t.s].cyc = x,
               t.s # k => (old[t.s].indep => old[t.s].gen = rs[x].gen)
        PROVE  ss[t.s].indep => ss[t.s].gen = cs[x].gen
    <3>1. CASE t.s # k
      BY <1>8, <1>14, <2>2, <3>1
    <3>2. CASE t.s = k
      <4>1. x = s.cyc /\ ss[t.s].gen = s.gen /\ (ss[t.s].indep => indep)
        BY <1>7, <1>8, <2>2, <3>2
      <4>2. c = rs[x]
        BY <1>2, <1>b, <4>1
      <4> QED BY <1>10, <1>14, <4>1, <4>2
    <3> QED BY <3>1, <3>2
  <2>3. ASSUME NEW i \in DOMAIN rs[x].checks
        PROVE  /\ rs[x].checks[i].s \in DOMAIN ss /\ ss[rs[x].checks[i].s].cyc = x
               /\ ss[rs[x].checks[i].s].indep => ss[rs[x].checks[i].s].gen = cs[x].gen
    <3>1. PICK t : t = rs[x].checks[i]
      OBVIOUS
    <3>2. t \in CheckRow
      <4>1. rs[x] \in CycleRow
        BY <1>3, <1>14
      <4>2. rs[x].checks \in Seq(CheckRow)
        BY <4>1 DEF CycleRow
      <4> QED BY <3>1, <4>2
    <3>3. t.s \in DOMAIN old /\ old[t.s].cyc = x /\ (old[t.s].indep => old[t.s].gen = rs[x].gen)
      BY <2>1, <3>1 DEF OwnChecks
    <3>4. t.s \in DOMAIN ss /\ ss[t.s].cyc = x
      BY <1>3, <1>8, <1>9, <3>3
    <3> QED BY <2>2, <3>1, <3>2, <3>3, <3>4
  <2>4. \A i \in DOMAIN cs[x].checks :
          /\ cs[x].checks[i].s \in DOMAIN ss /\ ss[cs[x].checks[i].s].cyc = x
          /\ ss[cs[x].checks[i].s].indep => ss[cs[x].checks[i].s].gen = cs[x].gen
    <3>1. CASE x # s.cyc
      BY <1>14, <2>3, <3>1
    <3>2. CASE x = s.cyc
      <4>1. rs[x] \in CycleRow
        BY <1>3, <1>14
      <4>2. rs[x].checks \in Seq(CheckRow)
        BY <4>1 DEF CycleRow
      <4>3. x # 0 /\ cs[x].checks = Append(rs[x].checks, check)
        BY <1>3, <1>4, <1>14, <3>2
      <4>4. ASSUME NEW i \in DOMAIN cs[x].checks
            PROVE  \/ i \in DOMAIN rs[x].checks /\ cs[x].checks[i] = rs[x].checks[i]
                   \/ cs[x].checks[i] = check
        BY <1>13, <4>2, <4>3
      <4>5. check.s \in DOMAIN ss /\ ss[check.s].cyc = x
        BY <1>7, <1>8, <1>13, <3>2
      <4>6. ss[check.s].indep => ss[check.s].gen = cs[x].gen
        BY <1>13, <2>2, <4>5
      <4> SUFFICES ASSUME NEW i \in DOMAIN cs[x].checks
                   PROVE  /\ cs[x].checks[i].s \in DOMAIN ss /\ ss[cs[x].checks[i].s].cyc = x
                          /\ ss[cs[x].checks[i].s].indep => ss[cs[x].checks[i].s].gen = cs[x].gen
        OBVIOUS
      <4>7. CASE i \in DOMAIN rs[x].checks /\ cs[x].checks[i] = rs[x].checks[i]
        BY <2>3, <4>7
      <4>8. CASE cs[x].checks[i] = check
        BY <4>5, <4>6, <4>8
      <4> QED BY <4>4, <4>7, <4>8
    <3> QED BY <3>1, <3>2
  <2>5. cs[x].src \in 0..Len(ss) /\ cs[x].fix.on <= date
    BY <1>3, <1>8, <1>14, <2>1 DEF OwnChecks
  <2> QED BY <2>4, <2>5 DEF OwnChecks
<1>17. RowsFit(cs, ss)
  BY <1>8, <1>11, <1>14, <1>15, <1>16 DEF RowsFit
<1> QED BY <1>3, <1>8, <1>9, <1>14, <1>17 DEF HandedIn

\* A mistake in a drill opens a cycle of its own.
LEMMA OpenedFits ==
  ASSUME NEW cs, NEW ss, RowsFit(cs, ss), NEW k \in DOMAIN ss, date \in Nat,
         NEW new, new = Append(cs, NewCycle(k))
  PROVE  /\ RowsFit(new, ss) /\ Len(new) = Len(cs) + 1 /\ DOMAIN new = 1..(Len(cs) + 1)
         /\ \A c \in DOMAIN cs : new[c] = cs[c]
         /\ new[Len(cs) + 1].src = k
<1>1. ss \in Seq(DrillRow) /\ cs \in Seq(CycleRow) /\ Len(cs) \in Nat /\ DOMAIN cs = 1..Len(cs)
      /\ DOMAIN ss = 1..Len(ss) /\ Len(ss) \in Nat
  BY DEF RowsFit
<1>2. PICK z : z = NewCycle(k)
  OBVIOUS
<1>3. z.src = k /\ z.fix.on = 0 /\ z.checks = <<>>
  BY <1>2 DEF NewCycle, NoCorrection
<1>4. z \in CycleRow
  <2>1. NoCorrection \in [verdict : Verdicts \cup {"none"}, assisted : BOOLEAN, on : Nat]
    BY DEF NoCorrection
  <2>2. <<>> \in Seq(CheckRow) /\ k \in Nat
    BY <1>1
  <2> QED BY <1>2, <2>1, <2>2 DEF NewCycle, CycleRow
<1>5. /\ new \in Seq(CycleRow) /\ Len(new) = Len(cs) + 1 /\ DOMAIN new = 1..(Len(cs) + 1)
      /\ new[Len(cs) + 1] = z
  BY <1>1, <1>2, <1>4
<1>6. \A c \in DOMAIN cs : new[c] = cs[c]
  BY <1>1, <1>2
<1>7. ASSUME NEW l \in DOMAIN ss PROVE Unmet(ss, l) /\ AfterFix(new, ss[l])
  <2>1. Unmet(ss, l) /\ AfterFix(cs, ss[l])
    BY DEF RowsFit
  <2>2. ss[l].cyc \in 0..Len(new) /\ (ss[l].cyc # 0 => ss[l].cyc \in DOMAIN cs)
    BY <1>1, <1>5, <2>1 DEF AfterFix
  <2> QED BY <1>6, <2>1, <2>2 DEF AfterFix
<1>8. ASSUME NEW c \in DOMAIN new PROVE OwnChecks(new, ss, c)
  <2>1. CASE c \in DOMAIN cs
    BY <1>6, <2>1 DEF RowsFit, OwnChecks
  <2>2. CASE c = Len(cs) + 1
    <3>1. new[c] = z /\ k \in 0..Len(ss) /\ 0 <= date /\ DOMAIN z.checks = {}
      BY <1>1, <1>3, <1>5, <2>2
    <3> QED BY <1>3, <3>1 DEF OwnChecks
  <2> QED BY <1>1, <1>5, <2>1, <2>2
<1> QED BY <1>1, <1>3, <1>5, <1>6, <1>7, <1>8 DEF RowsFit

\* A drill is handed in.
LEMMA SubmitKeeps ==
  ASSUME LearnInv, NEW k \in DOMAIN sessions, NEW v \in Verdicts, NEW h \in Assisted, SubmitDrill(k, v, h)
  PROVE  LearnInv'
<1>1. PICK s : s = sessions[k]
  OBVIOUS
<1>2. PICK c : c = SyncedCycles[s.cyc]
  OBVIOUS
<1>3. PICK done : done = [s EXCEPT !.st = "submitted", !.help = h,
                                   !.indep = s.cyc # 0 /\ Independent(c, s, h)]
  OBVIOUS
<1>4. PICK ss : ss = [SyncedSessions EXCEPT ![k] = done]
  OBVIOUS
<1>5. PICK p \in BOOLEAN : p = (v = "correct")
  OBVIOUS
<1>6. PICK check : check = [s |-> k, passed |-> p, delayed |-> SameCorrection(c, s) /\ date - c.fix.on >= Delay]
  OBVIOUS
<1>7. PICK checked : checked = IF s.cyc # 0 THEN [SyncedCycles EXCEPT ![s.cyc].checks = Append(@, check)]
                               ELSE SyncedCycles
  OBVIOUS
<1>8. PICK opened : opened = IF v = "incorrect" THEN Append(checked, NewCycle(k)) ELSE checked
  OBVIOUS
<1>9. PICK plans : plans = {IF a.s = k THEN [a EXCEPT !.st = "COMPLETED"] ELSE a : a \in agenda}
  OBVIOUS
<1>10. /\ Stored(RefreshedAll(opened, ss), ss, plans)
       /\ ~\E a \in agenda : a.s = k /\ a.st = "SKIPPED"
  BY <1>1, <1>2, <1>3, <1>4, <1>5, <1>6, <1>7, <1>8, <1>9 DEF SubmitDrill
<1>11. /\ RowsFit(checked, ss) /\ Len(checked) = Len(cycles)
       /\ Len(ss) = Len(sessions) /\ DOMAIN ss = DOMAIN sessions
       /\ \A l \in DOMAIN sessions : /\ ss[l].d = sessions[l].d /\ ss[l].cyc = sessions[l].cyc
                                     /\ ss[l].st = "in-progress" => sessions[l].st = "in-progress"
  <2>1. HandsIn(k, h, p, ss, checked)
    BY <1>1, <1>2, <1>3, <1>4, <1>6, <1>7 DEF HandsIn
  <2>2. HandedIn(ss, checked)
    BY <2>1, HandedInFits DEF Assisted
  <2> QED BY <2>2 DEF HandedIn
<1>12. RowsFit(opened, ss) /\ DOMAIN cycles \subseteq DOMAIN opened
  <2>1. DOMAIN checked = DOMAIN cycles /\ DOMAIN cycles = 1..Len(cycles) /\ Len(cycles) \in Nat /\ date \in Nat
    BY <1>11, LearnShapes DEF RowsFit
  <2>2. CASE v = "incorrect"
    <3>1. opened = Append(checked, NewCycle(k)) /\ RowsFit(checked, ss) /\ k \in DOMAIN ss
      BY <1>8, <1>11, <2>2
    <3>2. RowsFit(opened, ss) /\ DOMAIN opened = 1..(Len(checked) + 1)
      BY <2>1, <3>1, OpenedFits
    <3> QED BY <1>11, <2>1, <3>2
  <2>3. CASE v # "incorrect"
    BY <1>8, <1>11, <2>1, <2>3
  <2> QED BY <2>2, <2>3
<1>13. PICK cs : cs = RefreshedAll(opened, ss)
  OBVIOUS
<1>14. /\ RowsFit(cs, ss) /\ RightlyShown(cs, ss) /\ DOMAIN cs = DOMAIN opened
  BY <1>12, <1>13, RefreshedAllFits
<1>15. \A x \in DOMAIN cs : cs[x].src \in 0..Len(sessions)
  BY <1>11, <1>14 DEF RowsFit, OwnChecks
<1>16. ASSUME NEW b \in plans
       PROVE  /\ b \in TaskRow /\ (b.st = "PLANNED" => b \in agenda)
              /\ \E a \in agenda : b.c = a.c /\ b.s = a.s
  <2>1. PICK a \in agenda : b = IF a.s = k THEN [a EXCEPT !.st = "COMPLETED"] ELSE a
    BY <1>9
  <2>2. a \in TaskRow
    BY LearnShapes
  <2>3. CASE b = a
    BY <2>2, <2>3
  <2>4. CASE b = [a EXCEPT !.st = "COMPLETED"]
    <3>1. b \in TaskRow /\ b.st = "COMPLETED" /\ b.c = a.c /\ b.s = a.s
      BY <2>2, <2>4 DEF TaskRow
    <3> QED BY <3>1
  <2> QED BY <2>1, <2>3, <2>4
<1>17. PlansFit(cs, ss, plans)
  <2>1. \A b \in plans : b.c \in DOMAIN cs /\ b.s \in 0..Len(ss)
    BY <1>11, <1>12, <1>14, <1>16 DEF LearnInv, PlansFit
  <2> QED BY <1>16, <2>1 DEF PlansFit
<1>18. OneSession(ss, plans) /\ OnePlan(plans)
  <2>1. \A a \in agenda : a.st = "SKIPPED" => a \in plans
    BY <1>9, <1>10
  <2> QED BY <1>11, <1>16, <2>1, FewerTasks
<1> QED BY <1>10, <1>11, <1>13, <1>14, <1>15, <1>17, <1>18, StoredKeeps

\* An editor decides on a drill or on the source of the mistake.
LEMMA ReviewKeeps ==
  ASSUME LearnInv, NEW x \in {0} \cup Drills, NEW l \in Families \cup {Draft, Removed}, Review(x, l)
  PROVE  LearnInv'
<1>1. /\ label' = [label EXCEPT ![x] = l] /\ reviews' = reviews + 1 /\ reviews < MaxReviews /\ synced' = FALSE
      /\ UNCHANGED <<date, cycles, sessions, agenda>>
  BY DEF Review
<1>2. label' \in [{0} \cup Drills -> Labels]
  BY <1>1 DEF LearnInv, Labels
<1>3. reviews' \in 0..MaxReviews
  <2>1. MaxReviews \in Nat
    BY LearningAssumption
  <2> QED BY <1>1, <2>1 DEF LearnInv
<1>4. RowsFit(cycles, sessions)' /\ PlansFit(cycles, sessions, agenda)'
  <2>1. \A k \in DOMAIN sessions : Unmet(sessions, k)' /\ AfterFix(cycles, sessions[k])'
    BY <1>1 DEF LearnInv, RowsFit, Unmet, AfterFix
  <2>2. \A c \in DOMAIN cycles : OwnChecks(cycles, sessions, c)'
    BY <1>1 DEF LearnInv, RowsFit, OwnChecks
  <2> QED BY <1>1, <2>1, <2>2 DEF LearnInv, RowsFit, PlansFit
<1>5. OneSession(sessions, agenda)' /\ OnePlan(agenda)' /\ PlannedApart(sessions, agenda)'
  BY <1>1 DEF LearnInv, OneSession, OnePlan, PlannedApart, Live, Due, Open
<1> QED BY <1>1, <1>2, <1>3, <1>4, <1>5 DEF LearnInv

\* A day passes: planned checks may become overdue.
LEMMA NextDayKeeps ==
  ASSUME LearnInv, NextDay
  PROVE  LearnInv'
<1>1. date' = date + 1 /\ date < MaxDay /\ UNCHANGED <<label, reviews, cycles, sessions, agenda, synced>>
  BY DEF NextDay
<1>2. date \in Nat /\ date' \in 1..MaxDay
  <2>1. MaxDay \in Nat
    BY LearningAssumption
  <2> QED BY <1>1, <2>1, LearnShapes DEF LearnInv
<1>3. PlansFit(cycles, sessions, agenda)' /\ OneSession(sessions, agenda)'
  BY <1>1 DEF LearnInv, PlansFit, OneSession, Live
<1>4. \A a \in agenda : Due(a)' => Due(a)
  <2>1. \A a \in agenda : a.on \in Nat
    BY LearnShapes DEF TaskRow
  <2> QED BY <1>1, <1>2, <2>1 DEF Due
<1>5. OnePlan(agenda)' /\ PlannedApart(sessions, agenda)'
  BY <1>1, <1>4 DEF LearnInv, OnePlan, PlannedApart, Open
<1>6. RowsFit(cycles, sessions)'
  <2>1. \A k \in DOMAIN sessions : Unmet(sessions, k)' /\ AfterFix(cycles, sessions[k])'
    BY <1>1 DEF LearnInv, RowsFit, Unmet, AfterFix
  <2>2. ASSUME NEW c \in DOMAIN cycles PROVE OwnChecks(cycles, sessions, c)'
    <3>1. OwnChecks(cycles, sessions, c)
      BY DEF LearnInv, RowsFit
    <3>2. cycles[c].fix.on \in Nat
      <4>1. cycles[c] \in CycleRow
        BY LearnShapes
      <4> QED BY <4>1 DEF CycleRow
    <3>3. cycles[c].fix.on <= date'
      BY <1>1, <1>2, <3>1, <3>2 DEF OwnChecks
    <3> QED BY <1>1, <3>1, <3>3 DEF OwnChecks
  <2> QED BY <1>1, <2>1, <2>2 DEF LearnInv, RowsFit
<1>7. synced => RightlyShown(cycles, sessions)'
  BY <1>1, ShownStands DEF LearnInv
<1> QED BY <1>1, <1>2, <1>3, <1>5, <1>6, <1>7 DEF LearnInv

\* The initial state is in the invariant.
LEMMA LearnStart == LearningInit => LearnInv
<1> SUFFICES ASSUME LearningInit PROVE LearnInv
  OBVIOUS
<1>1. /\ date = 1 /\ reviews = 0 /\ label = FirstLabels /\ synced = TRUE
      /\ cycles = <<NewCycle(0)>> /\ sessions = <<>> /\ agenda = {}
  BY DEF LearningInit
<1>2. /\ date \in 1..MaxDay /\ reviews \in 0..MaxReviews /\ synced \in BOOLEAN
      /\ label \in [{0} \cup Drills -> Labels]
  BY <1>1, LearningAssumption DEF Labels
<1>3. PICK z : z = NewCycle(0)
  OBVIOUS
<1>4. z.src = 0 /\ z.fix.on = 0 /\ z.checks = <<>> /\ z.status = "needs-practice"
  BY <1>3 DEF NewCycle, NoCorrection
<1>5. z \in CycleRow
  <2>1. NoCorrection \in [verdict : Verdicts \cup {"none"}, assisted : BOOLEAN, on : Nat]
    BY DEF NoCorrection
  <2>2. <<>> \in Seq(CheckRow)
    OBVIOUS
  <2> QED BY <1>3, <2>1, <2>2 DEF NewCycle, CycleRow
<1>6. cycles \in Seq(CycleRow) /\ DOMAIN cycles = {1} /\ cycles[1] = z
  BY <1>1, <1>3, <1>5
<1>7. sessions \in Seq(DrillRow) /\ DOMAIN sessions = {} /\ Len(sessions) = 0
  BY <1>1
<1>8. RowsFit(cycles, sessions) /\ RightlyShown(cycles, sessions)
  <2>1. DOMAIN z.checks = {} /\ 0 <= date /\ 0 \in 0..Len(sessions)
    BY <1>1, <1>4, <1>7
  <2>2. OwnChecks(cycles, sessions, 1)
    BY <1>4, <1>6, <2>1 DEF OwnChecks
  <2> QED BY <1>4, <1>6, <1>7, <2>2 DEF RowsFit, RightlyShown, Demonstrates
<1>9. PlansFit(cycles, sessions, agenda) /\ OnePlan(agenda) /\ PlannedApart(sessions, agenda)
  BY <1>1 DEF PlansFit, OnePlan, PlannedApart
<1>10. OneSession(sessions, agenda)
  BY <1>7 DEF OneSession
<1> QED BY <1>2, <1>8, <1>9, <1>10 DEF LearnInv

\* Drill k was solved for cycle c under its correction, of a family not met before.
Earned(c, k) ==
  /\ sessions[k].cyc = c /\ sessions[k].gen = cycles[c].gen
  /\ ~sessions[k].help /\ sessions[k].on >= cycles[c].fix.on
  /\ label[sessions[k].d] = sessions[k].fam /\ sessions[k].fam \in Families
  /\ sessions[k].fam # SourceFamily(cycles[c])
  /\ \A j \in 1..(k - 1) : sessions[j].fam # sessions[k].fam /\ sessions[j].d # sessions[k].d

\* What is said to be demonstrated was earned.
LEMMA EarnedIsRight ==
  ASSUME LearnInv
  PROVE  DemonstratedIsEarned
<1> DEFINE passed(c) == {i \in DOMAIN cycles[c].checks :
                           cycles[c].checks[i].passed /\ Earned(c, cycles[c].checks[i].s)}
<1>1. ASSUME NEW c \in DOMAIN cycles, cycles[c].status = "demonstrated", synced
      PROVE  /\ cycles[c].fix.verdict = "correct" /\ ~cycles[c].fix.assisted
             /\ \E i, j \in passed(c) :
                  /\ sessions[cycles[c].checks[i].s].fam # sessions[cycles[c].checks[j].s].fam
                  /\ cycles[c].checks[i].delayed
  <2>1. Demonstrates(cycles[c], sessions)
    BY <1>1 DEF LearnInv, RightlyShown
  <2>2. PICK i, j \in DOMAIN cycles[c].checks :
          /\ cycles[c].checks[i].passed /\ Counts(cycles[c], cycles[c].checks[i], sessions) /\ cycles[c].checks[i].delayed
          /\ cycles[c].checks[j].passed /\ Counts(cycles[c], cycles[c].checks[j], sessions)
          /\ sessions[cycles[c].checks[i].s].fam # sessions[cycles[c].checks[j].s].fam
    BY <1>1, <2>1 DEF Demonstrates
  <2>3. ASSUME NEW t \in DOMAIN cycles[c].checks, Counts(cycles[c], cycles[c].checks[t], sessions)
        PROVE  Earned(c, cycles[c].checks[t].s)
    <3>1. PICK k : k = cycles[c].checks[t].s
      OBVIOUS
    <3>2. /\ sessions[k].indep /\ label[sessions[k].d] = sessions[k].fam /\ sessions[k].fam \in Families
          /\ sessions[k].fam # SourceFamily(cycles[c])
      BY <2>3, <3>1 DEF Counts
    <3>3. k \in DOMAIN sessions /\ sessions[k].cyc = c /\ sessions[k].gen = cycles[c].gen
      BY <3>1, <3>2 DEF LearnInv, RowsFit, OwnChecks
    <3>4. Unmet(sessions, k) /\ AfterFix(cycles, sessions[k])
      BY <3>3 DEF LearnInv, RowsFit
    <3>5. c # 0
      BY LearnShapes
    <3>6. sessions[k].on >= cycles[c].fix.on
      BY <3>3, <3>4, <3>5 DEF AfterFix
    <3>7. /\ ~sessions[k].help
          /\ \A m \in 1..(k - 1) : sessions[m].fam # sessions[k].fam /\ sessions[m].d # sessions[k].d
      BY <3>2, <3>4 DEF Unmet
    <3>8. Earned(c, k)
      BY <3>2, <3>3, <3>6, <3>7 DEF Earned
    <3> QED BY <3>1, <3>8
  <2>4. i \in passed(c) /\ j \in passed(c)
    BY <2>2, <2>3
  <2>5. cycles[c].fix.verdict = "correct" /\ ~cycles[c].fix.assisted
    BY <1>1, <2>1 DEF Demonstrates
  <2> HIDE DEF passed
  <2> QED BY <2>2, <2>4, <2>5
<1> QED BY <1>1 DEF DemonstratedIsEarned, Earned

\* One task at a time for a cycle.
LEMMA OneTaskIsKept ==
  ASSUME LearnInv
  PROVE  OneTaskPerCycle
<1> SUFFICES ASSUME NEW c \in DOMAIN cycles
             PROVE  Cardinality({k \in DOMAIN sessions :
                                   /\ sessions[k].cyc = c /\ sessions[k].st = "in-progress"
                                   /\ ~\E a \in agenda : a.s = k /\ a.st = "SKIPPED"})
                    + Cardinality({a \in agenda : a.c = c /\ a.st = "PLANNED" /\ a.on >= date}) <= 1
  BY DEF OneTaskPerCycle
<1>1. PICK A : A = {k \in DOMAIN sessions :
                      /\ sessions[k].cyc = c /\ sessions[k].st = "in-progress"
                      /\ ~\E a \in agenda : a.s = k /\ a.st = "SKIPPED"}
  OBVIOUS
<1>2. PICK B : B = {a \in agenda : a.c = c /\ a.st = "PLANNED" /\ a.on >= date}
  OBVIOUS
<1>3. c # 0
  BY LearnShapes
<1>4. \A k, l \in A : k = l
  BY <1>1, <1>3 DEF LearnInv, OneSession, Live
<1>5. \A a, b \in B : a = b
  BY <1>2 DEF LearnInv, OnePlan, Due
<1>6. A = {} \/ B = {}
  <2>1. ASSUME NEW k \in A, NEW a \in B PROVE FALSE
    <3>1. Open(sessions, agenda, c)
      BY <1>1 DEF Open
    <3>2. ~Open(sessions, agenda, a.c) /\ a.c = c
      BY <1>2 DEF LearnInv, PlannedApart, Due
    <3> QED BY <3>1, <3>2
  <2> QED BY <2>1
<1>7. \A S : (\A a, b \in S : a = b) => Cardinality(S) \in {0, 1} /\ (S = {} => Cardinality(S) = 0)
  <2> SUFFICES ASSUME NEW S, \A a, b \in S : a = b
               PROVE  Cardinality(S) \in {0, 1} /\ (S = {} => Cardinality(S) = 0)
    OBVIOUS
  <2>1. CASE S = {}
    BY <2>1, FS_EmptySet
  <2>2. CASE S # {}
    <3>1. PICK a : S = {a}
      BY <2>2
    <3> QED BY <3>1, FS_Singleton
  <2> QED BY <2>1, <2>2
<1>8. Cardinality(A) + Cardinality(B) <= 1
  <2>1. Cardinality(A) \in {0, 1} /\ (A = {} => Cardinality(A) = 0)
    BY <1>4, <1>7
  <2>2. Cardinality(B) \in {0, 1} /\ (B = {} => Cardinality(B) = 0)
    BY <1>5, <1>7
  <2> QED BY <1>6, <2>1, <2>2
<1> QED BY <1>1, <1>2, <1>8

\* Whatever the student begins, leaves open and corrects again and the editors review in
\* between: a mistake is said to be demonstrated only if two drills of families not met
\* before were solved without help after the correction, one of them days later, and a cycle has
\* one task at a time.
THEOREM CyclesKept == LearningSpec => []CyclesHold
<1>1. LearnInv /\ [LearningNext]_learningVars => LearnInv'
  <2> SUFFICES ASSUME LearnInv, [LearningNext]_learningVars PROVE LearnInv'
    OBVIOUS
  <2>1. CASE LookAtCycles
    BY <2>1, LookKeeps
  <2>2. CASE NextDay
    BY <2>2, NextDayKeeps
  <2>3. ASSUME NEW i \in DOMAIN cycles, SkipCycle(i) PROVE LearnInv'
    BY <2>3, SkipCycleKeeps
  <2>4. ASSUME NEW i \in DOMAIN cycles, NEW v \in Verdicts, NEW h \in Assisted, Correct(i, v, h)
        PROVE  LearnInv'
    BY <2>4, CorrectKeeps
  <2>5. ASSUME NEW d \in Drills, NEW i \in 0..Len(cycles), StartDrill(d, i) PROVE LearnInv'
    BY <2>5, StartDrillKeeps
  <2>6. ASSUME NEW a \in agenda, StartPlanned(a) PROVE LearnInv'
    BY <2>6, StartPlannedKeeps
  <2>7. ASSUME NEW a \in agenda, SkipPlanned(a) PROVE LearnInv'
    BY <2>7, SkipPlannedKeeps
  <2>8. ASSUME NEW k \in DOMAIN sessions, NEW v \in Verdicts, NEW h \in Assisted, SubmitDrill(k, v, h)
        PROVE  LearnInv'
    BY <2>8, SubmitKeeps
  <2>9. ASSUME NEW x \in {0} \cup Drills, NEW l \in Families \cup {Draft, Removed}, Review(x, l)
        PROVE  LearnInv'
    BY <2>9, ReviewKeeps
  <2>10. CASE UNCHANGED learningVars
    <3>1. UNCHANGED <<date, label, reviews, cycles, sessions, agenda, synced>>
      BY <2>10 DEF learningVars
    <3>2. synced' => RightlyShown(cycles, sessions)'
      BY <3>1, ShownStands DEF LearnInv
    <3>3. RowsFit(cycles, sessions)' /\ PlansFit(cycles, sessions, agenda)'
      <4>1. \A k \in DOMAIN sessions : Unmet(sessions, k)' /\ AfterFix(cycles, sessions[k])'
        BY <3>1 DEF LearnInv, RowsFit, Unmet, AfterFix
      <4>2. \A c \in DOMAIN cycles : OwnChecks(cycles, sessions, c)'
        BY <3>1 DEF LearnInv, RowsFit, OwnChecks
      <4> QED BY <3>1, <4>1, <4>2 DEF LearnInv, RowsFit, PlansFit
    <3>4. OneSession(sessions, agenda)' /\ OnePlan(agenda)' /\ PlannedApart(sessions, agenda)'
      BY <3>1 DEF LearnInv, OneSession, OnePlan, PlannedApart, Live, Due, Open
    <3> QED BY <3>1, <3>2, <3>3, <3>4 DEF LearnInv
  <2> QED BY <2>1, <2>2, <2>3, <2>4, <2>5, <2>6, <2>7, <2>8, <2>9, <2>10 DEF LearningNext
<1>2. LearnInv => CyclesHold
  <2> SUFFICES ASSUME LearnInv PROVE CyclesHold
    OBVIOUS
  <2>1. ASSUME NEW k \in DOMAIN sessions
        PROVE  /\ sessions[k].d \in Drills /\ sessions[k].cyc \in 0..Len(cycles)
               /\ sessions[k].st \in {"in-progress", "submitted"}
    <3>1. sessions[k] \in DrillRow /\ AfterFix(cycles, sessions[k])
      BY LearnShapes DEF LearnInv, RowsFit
    <3> QED BY <3>1 DEF DrillRow, AfterFix
  <2>2. ASSUME NEW c \in DOMAIN cycles
        PROVE  /\ cycles[c].status \in {"needs-practice", "correction-saved", "awaiting-transfer", "demonstrated"}
               /\ cycles[c].src \in 0..Len(sessions)
    <3>1. cycles[c] \in CycleRow /\ OwnChecks(cycles, sessions, c)
      BY LearnShapes DEF LearnInv, RowsFit
    <3> QED BY <3>1 DEF CycleRow, OwnChecks
  <2>3. LearningTypeOK
    BY <2>1, <2>2 DEF LearnInv, Labels, PlansFit, LearningTypeOK
  <2> QED BY <2>3, EarnedIsRight, OneTaskIsKept DEF CyclesHold
<1> QED BY <1>1, <1>2, LearnStart, PTL DEF LearningSpec

-------------------------------------------------------------------------------
(* Objective attempts: the grade is that of the stored answers.             *)

LEMMA LeastNumber ==
  ASSUME NEW S \in SUBSET Nat, S # {}
  PROVE  \E x \in S : \A y \in S : x <= y
<1>1. Min(S) \in S /\ \A y \in S : ~(y < Min(S))
  BY LeastOf
<1> HIDE DEF Min
<1> QED
  <2>1. Min(S) \in Nat /\ S \subseteq Nat
    BY <1>1
  <2>2. \A y \in S : Min(S) <= y
    BY <1>1, <2>1
  <2> QED BY <1>1, <2>2

LEMMA QuestionNumbers ==
  /\ LastQuestion \in Nat /\ Points \in Nat \ {0}
  /\ Questions = 1..LastQuestion /\ \A q \in Questions : q \in Nat
  /\ \A a \in Answers : a # Blank /\ a # NoRow /\ Worth[a] \in 0..Points
BY ObjectiveAssumption DEF Questions

\* A score is within what the questions are worth, and all of it only for all the points
\* of each.
LEMMA TotalIs ==
  ASSUME NEW m \in [Questions -> 0..Points]
  PROVE  /\ Total(m) \in 0..(Points * LastQuestion)
         /\ (\A q \in Questions : m[q] = Points) => Total(m) = Points * LastQuestion
<1>1. PICK n \in Nat : n = LastQuestion
  BY QuestionNumbers
<1>2. PICK p \in Nat : p = Points
  BY QuestionNumbers
<1>3. \A q \in 1..n : m[q] \in 0..p
  BY <1>1, <1>2, QuestionNumbers
<1> DEFINE Steps(g, k) == g = [q \in 0..k |-> IF q = 0 THEN 0 ELSE g[q - 1] + m[q]]
           upTo == CHOOSE g : Steps(g, n)
<1>4. Total(m) = upTo[n]
  BY <1>1 DEF Total
<1>5. \A k \in Nat : (\E g : Steps(g, k)) => \E g : Steps(g, k + 1)
  <2> SUFFICES ASSUME NEW k \in Nat, NEW g, Steps(g, k) PROVE \E h : Steps(h, k + 1)
    OBVIOUS
  <2> DEFINE h == [q \in 0..(k + 1) |-> IF q = k + 1 THEN g[k] + m[k + 1] ELSE g[q]]
  <2>1. \A q \in 0..(k + 1) : h[q] = IF q = 0 THEN 0 ELSE h[q - 1] + m[q]
    <3> SUFFICES ASSUME NEW q \in 0..(k + 1) PROVE h[q] = IF q = 0 THEN 0 ELSE h[q - 1] + m[q]
      OBVIOUS
    <3>1. CASE q = 0
      BY <3>1
    <3>2. CASE q = k + 1
      <4>1. h[q - 1] = g[k] /\ q # 0
        BY <3>2
      <4> QED BY <3>2, <4>1
    <3>3. CASE q \in 1..k
      <4>1. h[q - 1] = g[q - 1] /\ h[q] = g[q] /\ q # 0
        BY <3>3
      <4>2. g[q] = g[q - 1] + m[q]
        BY <3>3
      <4> QED BY <4>1, <4>2
    <3> QED BY <3>1, <3>2, <3>3
  <2>2. h = [q \in 0..(k + 1) |-> IF q = 0 THEN 0 ELSE h[q - 1] + m[q]]
    <3>1. h = [q \in 0..(k + 1) |-> h[q]]
      OBVIOUS
    <3> HIDE DEF h
    <3> QED BY <2>1, <3>1
  <2>3. PICK f : f = h
    OBVIOUS
  <2> QED BY <2>2, <2>3
<1>6. \E g : Steps(g, 0)
  <2>1. Steps([q \in 0..0 |-> 0], 0)
    OBVIOUS
  <2> QED BY <2>1
<1>7. \E g : Steps(g, n)
  <2> DEFINE Fails == {k \in Nat : ~\E g : Steps(g, k)}
  <2> SUFFICES ASSUME Fails # {} PROVE FALSE
    OBVIOUS
  <2> HIDE DEF Steps
  <2>0. Fails \in SUBSET Nat
    OBVIOUS
  <2>1. PICK k \in Fails : \A l \in Fails : k <= l
    <3> HIDE DEF Fails
    <3> QED BY <2>0, LeastNumber
  <2>2. k \in Nat /\ ~\E g : Steps(g, k)
    BY <2>1
  <2>3. k - 1 \in Nat /\ k - 1 < k /\ (k - 1) + 1 = k
    <3>1. k # 0
      BY <1>6, <2>2
    <3> QED BY <2>2, <3>1
  <2>4. \E g : Steps(g, k - 1)
    BY <2>1, <2>2, <2>3
  <2> QED BY <1>5, <2>2, <2>3, <2>4
<1>8. Steps(upTo, n)
  BY <1>7
<1> HIDE DEF upTo
<1>9. upTo[0] = 0 /\ \A q \in 1..n : upTo[q] = upTo[q - 1] + m[q]
  <2>1. 0 \in 0..n /\ \A q \in 1..n : q \in 0..n /\ q # 0
    OBVIOUS
  <2>2. \A q \in 0..n : upTo[q] = IF q = 0 THEN 0 ELSE upTo[q - 1] + m[q]
    BY <1>8
  <2> QED BY <2>1, <2>2
<1> HIDE DEF Steps
<1> DEFINE Holds(k) == upTo[k] \in 0..(p * k) /\ ((\A q \in 1..n : m[q] = p) => upTo[k] = p * k)
<1>10. \A k \in 0..n : Holds(k)
  <2> DEFINE Fails == {k \in 0..n : ~Holds(k)}
  <2> SUFFICES ASSUME Fails # {} PROVE FALSE
    OBVIOUS
  <2> HIDE DEF Holds
  <2>0. Fails \in SUBSET Nat
    OBVIOUS
  <2>1. PICK k \in Fails : \A l \in Fails : k <= l
    <3> HIDE DEF Fails
    <3> QED BY <2>0, LeastNumber
  <2>2. k \in 0..n /\ ~Holds(k)
    BY <2>1
  <2>3. p * 0 = 0
    OBVIOUS
  <2>4. k # 0
    BY <1>9, <2>2, <2>3 DEF Holds
  <2>5. k - 1 \in 0..n /\ k - 1 < k /\ k \in 1..n
    BY <2>2, <2>4
  <2>6. Holds(k - 1)
    BY <2>1, <2>5
  <2>7. upTo[k] = upTo[k - 1] + m[k] /\ m[k] \in 0..p
    BY <1>3, <1>9, <2>5
  <2>8. p * k = p * (k - 1) + p /\ p * (k - 1) \in Nat
    BY <2>5
  <2>9. PICK a \in Nat : a = p * (k - 1)
    BY <2>8
  <2>10. upTo[k] \in 0..(a + p)
    BY <2>6, <2>7, <2>9 DEF Holds
  <2>11. (\A q \in 1..n : m[q] = p) => upTo[k] = a + p
    BY <2>5, <2>6, <2>7, <2>9 DEF Holds
  <2> QED BY <2>2, <2>8, <2>9, <2>10, <2>11 DEF Holds
<1>11. Holds(n)
  <2> HIDE DEF Holds
  <2> QED BY <1>10
<1> QED BY <1>1, <1>2, <1>4, <1>11, QuestionNumbers

StoredAnswers == Answers \cup {Blank, NoRow}

\* A request carries answers, and a hand-in has read those that were saved.
RequestFits(r) ==
  /\ r.at \in {"idle", "saving", "reading", "storing", "looking", "loading", "shown"}
  /\ r.at \in {"saving", "reading", "storing"} =>
       \A q \in Questions : q \in DOMAIN r.input => r.input[q] \in Answers
  /\ r.at = "storing" => r.seen \in [Questions -> StoredAnswers]

Graded ==
  /\ \A q \in Questions : saved[q] # NoRow /\ marks[q] = PointsOf(saved[q])
  /\ score = Total(marks)

ObjectiveInv ==
  /\ status \in {"IN_PROGRESS", "SUBMITTED", "ABANDONED"}
  /\ score \in {Ungraded} \cup 0..(Points * LastQuestion)
  /\ saved \in [Questions -> StoredAnswers] /\ marks \in [Questions -> {Ungraded} \cup 0..Points]
  /\ exam \in {"NONE", "IN_PROGRESS", "SUBMITTED", "ABANDONED"} /\ timeUp \in BOOLEAN
  /\ ask = [c \in Clients |-> ask[c]] /\ \A c \in Clients : RequestFits(ask[c])
  /\ status = "SUBMITTED" => Graded
  /\ tasks = IF status = "SUBMITTED" THEN 1 ELSE 0

\* One request goes on, or ends.
LEMMA RequestGoesOn ==
  ASSUME ObjectiveInv, NEW c \in Clients, NEW r, RequestFits(r), To(c, r)
  PROVE  ask' = [d \in Clients |-> ask'[d]] /\ \A d \in Clients : RequestFits(ask'[d])
BY DEF ObjectiveInv, To

LEMMA SilentFits == RequestFits(Silent)
BY DEF RequestFits, Silent

\* A request only reads.
LEMMA ReadingHolds ==
  ASSUME ObjectiveInv, NEW c \in Clients, NEW r, RequestFits(r), To(c, r), UNCHANGED <<attemptRow, exam, timeUp>>
  PROVE  ObjectiveInv'
<1>1. ask' = [d \in Clients |-> ask'[d]] /\ \A d \in Clients : RequestFits(ask'[d])
  BY RequestGoesOn
<1>2. UNCHANGED <<status, score, saved, marks, tasks, exam, timeUp>>
  BY DEF attemptRow
<1> QED BY <1>1, <1>2 DEF ObjectiveInv, Graded, RequestFits, PointsOf

LEMMA AskHolds == ASSUME ObjectiveInv, NEW c \in Clients, NEW op, NEW i \in Inputs, Ask(c, op, i) PROVE ObjectiveInv'
<1>1. \A q \in DOMAIN i : i[q] \in Answers
  <2>1. CASE i = [q \in {} |-> Blank]
    BY <2>1
  <2>2. CASE \E q \in Questions : i \in [{q} -> Answers]
    BY <2>2
  <2> QED BY <2>1, <2>2 DEF Inputs
<1>2. PICK r : r = [op |-> op, at |-> IF op = "save" THEN "saving" ELSE "reading", input |-> i]
  OBVIOUS
<1>3. RequestFits(r)
  BY <1>1, <1>2 DEF RequestFits
<1> QED BY <1>2, <1>3, ReadingHolds DEF Ask

LEMMA SaveHolds == ASSUME ObjectiveInv, NEW c \in Clients, SaveAnswers(c) PROVE ObjectiveInv'
<1>1. ask' = [d \in Clients |-> ask'[d]] /\ \A d \in Clients : RequestFits(ask'[d])
  BY SilentFits, RequestGoesOn DEF SaveAnswers, Done
<1>2. RequestFits(ask[c]) /\ ask[c].at = "saving" /\ UNCHANGED <<status, score, marks, tasks, exam, timeUp>>
  BY DEF ObjectiveInv, SaveAnswers
<1>3. CASE status = "IN_PROGRESS"
  <2>1. saved' = [q \in Questions |-> IF q \in DOMAIN ask[c].input THEN ask[c].input[q] ELSE saved[q]]
    BY <1>3 DEF SaveAnswers, MaySave
  <2>2. saved' \in [Questions -> StoredAnswers]
    BY <1>2, <2>1 DEF RequestFits, StoredAnswers, ObjectiveInv
  <2> QED BY <1>1, <1>2, <1>3, <2>2 DEF ObjectiveInv
<1>4. CASE status # "IN_PROGRESS"
  <2>1. saved' = saved
    BY <1>4 DEF SaveAnswers, MaySave
  <2> QED BY <1>1, <1>2, <2>1 DEF ObjectiveInv, Graded, PointsOf
<1> QED BY <1>3, <1>4

LEMMA ListHolds == ASSUME ObjectiveInv, NEW c \in Clients, ListAnswers(c) PROVE ObjectiveInv'
<1>1. PICK r : r = [op |-> ask[c].op, at |-> "storing", input |-> ask[c].input, seen |-> saved]
  OBVIOUS
<1>2. RequestFits(r)
  BY <1>1 DEF RequestFits, ObjectiveInv, ListAnswers
<1> QED BY <1>1, <1>2, ReadingHolds DEF ListAnswers

\* The hand-in stores the answers it grades.
LEMMA SubmitHolds == ASSUME ObjectiveInv, NEW c \in Clients, Submit(c) PROVE ObjectiveInv'
<1>1. ask' = [d \in Clients |-> ask'[d]] /\ \A d \in Clients : RequestFits(ask'[d])
  BY SilentFits, RequestGoesOn DEF Submit, Done
<1>2. RequestFits(ask[c]) /\ ask[c].at = "storing" /\ UNCHANGED <<exam, timeUp>>
  BY DEF ObjectiveInv, Submit
<1>3. CASE status # "IN_PROGRESS"
  <2>1. UNCHANGED <<status, score, saved, marks, tasks>>
    BY <1>3 DEF Submit, MayGrade, attemptRow
  <2> QED BY <1>1, <1>2, <2>1 DEF ObjectiveInv, Graded, PointsOf
<1>4. CASE status = "IN_PROGRESS"
  <2>1. PICK given1 : given1 = Given(ask[c])
    OBVIOUS
  <2>2. given1 \in [Questions -> Answers \cup {Blank}]
    <3>1. \A q \in Questions : ask[c].seen[q] \in StoredAnswers
      BY <1>2 DEF RequestFits
    <3>2. \A q \in Questions : q \in DOMAIN ask[c].input => ask[c].input[q] \in Answers
      BY <1>2 DEF RequestFits
    <3> QED BY <2>1, <3>1, <3>2 DEF Given, StoredAnswers
  <2>3. /\ status' = "SUBMITTED" /\ saved' = given1 /\ marks' = [q \in Questions |-> PointsOf(given1[q])]
        /\ score' = Total(marks') /\ tasks' = 1
    BY <1>4, <2>1 DEF Submit, MayGrade, ObjectiveInv
  <2>4. marks' \in [Questions -> 0..Points]
    <3>1. \A a \in Answers \cup {Blank} : PointsOf(a) \in 0..Points
      BY QuestionNumbers DEF PointsOf
    <3> QED BY <2>2, <2>3, <3>1
  <2>5. score' \in 0..(Points * LastQuestion)
    <3>1. PICK m \in [Questions -> 0..Points] : m = marks'
      BY <2>4
    <3>2. score' = Total(m)
      BY <2>3, <3>1
    <3> QED BY <3>2, TotalIs
  <2>6. saved' \in [Questions -> StoredAnswers] /\ \A q \in Questions : saved'[q] # NoRow
    <3>1. Blank # NoRow
      BY DEF Blank, NoRow
    <3> QED BY <2>2, <2>3, <3>1, QuestionNumbers DEF StoredAnswers
  <2> QED BY <1>1, <1>2, <2>3, <2>4, <2>5, <2>6 DEF ObjectiveInv, Graded, PointsOf
<1> QED BY <1>3, <1>4

LEMMA LooksHold ==
  ASSUME ObjectiveInv, NEW c \in Clients,
         LookAtAttempt(c) \/ Locked(c) \/ Load(c) \/ ListMistakes(c) \/ Read(c)
  PROVE  ObjectiveInv'
<1>1. ASSUME NEW r, RequestFits(r), To(c, r), UNCHANGED <<attemptRow, exam, timeUp>> PROVE ObjectiveInv'
  BY <1>1, ReadingHolds
<1>2. PICK l, s1, s2, o, m :
        /\ l = [op |-> "get", at |-> "looking", was |-> status]
        /\ s1 = [op |-> "get", at |-> "shown", was |-> ask[c].was, marks |-> NothingSaved]
        /\ s2 = [op |-> "get", at |-> "shown", was |-> ask[c].was, marks |-> marks]
        /\ o = [op |-> "get", at |-> "loading", was |-> ask[c].was]
        /\ m = [op |-> "mistakes", at |-> "loading", was |-> status]
  OBVIOUS
<1>3. RequestFits(l) /\ RequestFits(s1) /\ RequestFits(s2) /\ RequestFits(o) /\ RequestFits(m)
  BY <1>2 DEF RequestFits
<1>4. CASE LookAtAttempt(c)
  BY <1>1, <1>2, <1>3, <1>4 DEF LookAtAttempt
<1>5. CASE Locked(c)
  BY <1>1, <1>2, <1>3, <1>5 DEF Locked
<1>6. CASE Load(c)
  BY <1>1, <1>2, <1>3, <1>6 DEF Load
<1>7. CASE ListMistakes(c)
  BY <1>1, <1>2, <1>3, <1>7 DEF ListMistakes
<1>8. CASE Read(c)
  BY <1>1, <1>8, SilentFits DEF Read, Done
<1> QED BY <1>4, <1>5, <1>6, <1>7, <1>8

LEMMA ObjectiveStarts == ObjectiveInit => ObjectiveInv
<1> SUFFICES ASSUME ObjectiveInit PROVE ObjectiveInv
  OBVIOUS
<1>1. ask = [c \in Clients |-> ask[c]] /\ \A c \in Clients : ask[c] = Silent
  BY DEF ObjectiveInit
<1> QED BY <1>1, SilentFits DEF ObjectiveInit, ObjectiveInv, StoredAnswers

LEMMA ObjectiveSteps == ObjectiveInv /\ [ObjectiveNext]_objectiveVars => ObjectiveInv'
<1> SUFFICES ASSUME ObjectiveInv, [ObjectiveNext]_objectiveVars PROVE ObjectiveInv'
  OBVIOUS
<1>1. CASE UNCHANGED objectiveVars
  BY <1>1 DEF objectiveVars, ObjectiveInv, Graded, RequestFits, PointsOf
<1>2. CASE \E c \in Clients : \E i \in Inputs, op \in {"save", "submit", "expired"} : Ask(c, op, i)
  BY <1>2, AskHolds
<1>3. CASE \E c \in Clients : SaveAnswers(c) \/ ListAnswers(c) \/ Submit(c)
  BY <1>3, SaveHolds, ListHolds, SubmitHolds
<1>4. CASE \E c \in Clients : LookAtAttempt(c) \/ Locked(c) \/ Load(c) \/ ListMistakes(c) \/ Read(c)
  BY <1>4, LooksHold
<1>5. CASE TimePasses
  BY <1>5 DEF TimePasses, attemptRow, ObjectiveInv, Graded, RequestFits, PointsOf
<1>6. CASE FinishExam
  BY <1>6 DEF FinishExam, attemptRow, ObjectiveInv, Graded, RequestFits, PointsOf
<1>7. CASE AbandonExam
  BY <1>7 DEF AbandonExam, ObjectiveInv, Graded, RequestFits, PointsOf
<1> QED BY <1>1, <1>2, <1>3, <1>4, <1>5, <1>6, <1>7 DEF ObjectiveNext

LEMMA ObjectiveFacts == ObjectiveInv => ObjectiveTypeOK /\ GradeMatchesAnswers
<1> SUFFICES ASSUME ObjectiveInv PROVE ObjectiveTypeOK /\ GradeMatchesAnswers
  OBVIOUS
<1>1. ObjectiveTypeOK
  BY DEF ObjectiveTypeOK, ObjectiveInv, RequestFits, StoredAnswers
<1>2. InBank => Mistakes(marks) # {}
  <2> SUFFICES ASSUME InBank, \A q \in Questions : marks[q] = Points PROVE FALSE
    BY DEF Mistakes
  <2>1. marks \in [Questions -> 0..Points]
    BY QuestionNumbers DEF ObjectiveInv
  <2>2. score = Points * LastQuestion
    BY <2>1, TotalIs DEF InBank, ObjectiveInv, Graded
  <2>3. Points * LastQuestion \in Nat
    BY QuestionNumbers
  <2> QED BY <2>2, <2>3 DEF InBank
<1> QED BY <1>1, <1>2 DEF GradeMatchesAnswers, ObjectiveInv, Graded

-------------------------------------------------------------------------------
(* Grading: all the points are for the exact answer.                        *)

LEMMA SequencesAre ==
  ASSUME NEW S, NEW s \in Seq(S)
  PROVE  /\ Len(s) \in Nat /\ DOMAIN s = 1..Len(s) /\ Range(s) = {s[i] : i \in 1..Len(s)}
         /\ Range(s) \subseteq S /\ (Len(s) = 0 <=> s = <<>>)
BY DEF Range

\* A sequence has no more members than it is long.
LEMMA MembersFewer ==
  ASSUME NEW S, NEW s \in Seq(S)
  PROVE  IsFiniteSet(Range(s)) /\ Cardinality(Range(s)) \in Nat /\ Cardinality(Range(s)) <= Len(s)
<1>1. Len(s) \in Nat /\ DOMAIN s = 1..Len(s) /\ Range(s) = {s[i] : i \in 1..Len(s)}
  BY SequencesAre
<1>2. PICK n \in Nat : n = Len(s)
  BY <1>1
<1> DEFINE f == [i \in 1..n |-> s[i]]
<1>3. f \in Surjection(1..n, Range(s))
  BY <1>1, <1>2 DEF Surjection
<1>4. IsFiniteSet(1..n) /\ Cardinality(1..n) = n
  BY FS_Interval
<1> HIDE DEF f
<1>5. IsFiniteSet(Range(s)) /\ Cardinality(Range(s)) <= Cardinality(1..n)
  BY <1>3, <1>4, FS_Surjection
<1> QED BY <1>2, <1>4, <1>5, FS_CardinalityType

LEMMA OptionsAre == Options \in Seq(STRING) /\ IsFiniteSet(Range(Options)) /\ NotGiven \in Words
BY GradingAssumption, MembersFewer

\* A question has the points of its key, or one.
Fair(q) == q \in GradedQuestions /\ q.points \in {1, Cardinality(q.key)}

Wellformed == [picked : Seq(Range(Options)), typed : SUBSET Spellings]

\* A question with several right options: as many points, or one.
LEMMA KeysAre ==
  ASSUME NEW k \in Keys
  PROVE  IsFiniteSet(k) /\ Cardinality(k) \in Nat /\ Cardinality(k) > 0
<1>1. k \subseteq Range(Options) /\ k # {}
  BY GradingAssumption
<1>2. IsFiniteSet(k)
  BY <1>1, OptionsAre, FS_Subset
<1> QED BY <1>1, <1>2, FS_CardinalityType, FS_EmptySet

\* The smaller of two numbers.
LEMMA SmallerOf ==
  ASSUME NEW a \in Nat, NEW b \in Nat, b <= a
  PROVE  Min({a, b}) = b
BY DEF Min

\* With a point for each right option, all of them are for the options of the key.
LEMMA EachPointExact ==
  ASSUME NEW k, IsFiniteSet(k), NEW s \in Seq(Range(Options)), Len(s) <= Cardinality(k)
  PROVE  Min({Cardinality(k), RightPicks(k, s)}) = Cardinality(k)
           <=> Range(s) = k /\ Len(s) = Cardinality(k)
<1>1. Cardinality(k) \in Nat /\ Len(s) \in Nat
  BY FS_CardinalityType, SequencesAre
<1>2. IsFiniteSet(Range(s)) /\ Cardinality(Range(s)) \in Nat /\ Cardinality(Range(s)) <= Len(s)
  BY MembersFewer
<1>3. /\ IsFiniteSet(k \cap Range(s)) /\ Cardinality(k \cap Range(s)) <= Cardinality(k)
      /\ Cardinality(k \cap Range(s)) \in Nat
  <2>1. k \cap Range(s) \in SUBSET k
    OBVIOUS
  <2> QED BY <2>1, FS_Subset, FS_CardinalityType
<1>4. Min({Cardinality(k), RightPicks(k, s)}) = Cardinality(k \cap Range(s))
  BY <1>1, <1>3, SmallerOf DEF RightPicks
<1>5. ASSUME Cardinality(k \cap Range(s)) = Cardinality(k)
      PROVE  Range(s) = k /\ Len(s) = Cardinality(k)
  <2>1. k \cap Range(s) \in SUBSET k
    OBVIOUS
  <2>2. k \cap Range(s) = k
    BY <1>5, <2>1, FS_Subset
  <2>3. k \in SUBSET Range(s)
    BY <2>2
  <2>4. Cardinality(k) <= Cardinality(Range(s))
    BY <1>2, <2>3, FS_Subset
  <2>5. Cardinality(k) = Cardinality(Range(s)) /\ Len(s) = Cardinality(k)
    BY <1>1, <1>2, <2>4
  <2>6. k = Range(s)
    BY <1>2, <2>3, <2>5, FS_Subset
  <2> QED BY <2>5, <2>6
<1>6. Range(s) = k => Cardinality(k \cap Range(s)) = Cardinality(k)
  <2>1. Range(s) = k => k \cap Range(s) = k
    OBVIOUS
  <2> QED BY <2>1
<1> QED BY <1>4, <1>5, <1>6

\* What two texts have in common when they are normalised alike.
Alike(t, k) ==
  /\ t.word = k.word /\ t.wide = k.wide
  /\ t.joined = k.joined \/ (t.word = NotGiven /\ ~t.wide /\ ~k.wide)

TextFields == {"word", "caps", "padded", "wide", "joined"}

\* A text is its fields.
LEMMA FieldsAre ==
  ASSUME NEW n, n = [x \in TextFields |-> n[x]], NEW w, NEW c, NEW p, NEW v, NEW j,
         n.word = w, n.caps = c, n.padded = p, n.wide = v, n.joined = j
  PROVE  n = [word |-> w, caps |-> c, padded |-> p, wide |-> v, joined |-> j]
BY DEF TextFields

LEMMA FieldsNormalized ==
  ASSUME NEW t \in Spellings, NEW f, NEW j
  PROVE  [t EXCEPT !.padded = f, !.caps = f, !.joined = j] =
           [word |-> t.word, caps |-> f, padded |-> f, wide |-> t.wide, joined |-> j]
<1> DEFINE n == [t EXCEPT !.padded = f, !.caps = f, !.joined = j]
<1>1. DOMAIN n = TextFields /\ n.word = t.word /\ n.caps = f /\ n.padded = f /\ n.wide = t.wide /\ n.joined = j
  BY DEF Spellings, TextFields
<1>2. n = [x \in DOMAIN n |-> n[x]]
  OBVIOUS
<1> HIDE DEF n
<1>3. n = [x \in TextFields |-> n[x]]
  BY <1>1, <1>2
<1>4. n = [word |-> t.word, caps |-> f, padded |-> f, wide |-> t.wide, joined |-> j]
  BY <1>1, <1>3, FieldsAre
<1> QED BY <1>4 DEF n

LEMMA FieldsCollapsed ==
  ASSUME NEW t \in Spellings, NEW f, NEW v, NEW j
  PROVE  [t EXCEPT !.padded = f, !.caps = f, !.wide = v, !.joined = j] =
           [word |-> t.word, caps |-> f, padded |-> f, wide |-> v, joined |-> j]
<1> DEFINE n == [t EXCEPT !.padded = f, !.caps = f, !.wide = v, !.joined = j]
<1>1. DOMAIN n = TextFields /\ n.word = t.word /\ n.caps = f /\ n.padded = f /\ n.wide = v /\ n.joined = j
  BY DEF Spellings, TextFields
<1>2. n = [x \in DOMAIN n |-> n[x]]
  OBVIOUS
<1> HIDE DEF n
<1>3. n = [x \in TextFields |-> n[x]]
  BY <1>1, <1>2
<1>4. n = [word |-> t.word, caps |-> f, padded |-> f, wide |-> v, joined |-> j]
  BY <1>1, <1>3, FieldsAre
<1> QED BY <1>4 DEF n

LEMMA NormalizedIs ==
  ASSUME NEW t \in Spellings
  PROVE  Normalized(t) = [word |-> t.word, caps |-> FALSE, padded |-> FALSE, wide |-> t.wide,
                          joined |-> t.joined /\ (t.word # NotGiven \/ t.wide)]
<1> DEFINE j == t.joined /\ (t.word # NotGiven \/ t.wide)
<1>1. Normalized(t) = [t EXCEPT !.padded = FALSE, !.caps = FALSE, !.joined = j]
  BY DEF Normalized, Spellings
<1> HIDE DEF j
<1>2. [t EXCEPT !.padded = FALSE, !.caps = FALSE, !.joined = j] =
        [word |-> t.word, caps |-> FALSE, padded |-> FALSE, wide |-> t.wide, joined |-> j]
  BY FieldsNormalized
<1> QED BY <1>1, <1>2 DEF j

LEMMA CollapsedIs ==
  ASSUME NEW t \in Spellings
  PROVE  Collapsed(t) = [word |-> t.word, caps |-> FALSE, padded |-> FALSE, wide |-> t.wide /\ t.joined,
                         joined |-> t.joined /\ (t.word # NotGiven \/ t.wide)]
<1> DEFINE j == t.joined /\ (t.word # NotGiven \/ t.wide)
           w == t.wide /\ t.joined
<1>1. Collapsed(t) = [t EXCEPT !.padded = FALSE, !.caps = FALSE, !.wide = w, !.joined = j]
  BY DEF Collapsed, Spellings
<1> HIDE DEF j, w
<1>2. [t EXCEPT !.padded = FALSE, !.caps = FALSE, !.wide = w, !.joined = j] =
        [word |-> t.word, caps |-> FALSE, padded |-> FALSE, wide |-> w, joined |-> j]
  BY FieldsCollapsed
<1> QED BY <1>1, <1>2 DEF j, w

LEMMA NormalizedAlike ==
  ASSUME NEW t \in Spellings, NEW k \in Spellings
  PROVE  /\ Normalized(t) = Normalized(k) <=> Alike(t, k)
         /\ Alike(t, k) => Collapsed(t) = Collapsed(k)
<1>1. /\ t.wide \in BOOLEAN /\ k.wide \in BOOLEAN /\ t.joined \in BOOLEAN /\ k.joined \in BOOLEAN
  BY DEF Spellings
<1>2. Normalized(t) = Normalized(k) =>
        /\ t.word = k.word /\ t.wide = k.wide
        /\ (t.joined /\ (t.word # NotGiven \/ t.wide)) = (k.joined /\ (k.word # NotGiven \/ k.wide))
  BY NormalizedIs
<1>3. Normalized(t) = Normalized(k) => Alike(t, k)
  BY <1>1, <1>2 DEF Alike
<1>4. ASSUME Alike(t, k)
      PROVE  /\ t.word = k.word /\ t.wide = k.wide
             /\ (t.joined /\ (t.word # NotGiven \/ t.wide)) = (k.joined /\ (k.word # NotGiven \/ k.wide))
             /\ (t.wide /\ t.joined) = (k.wide /\ k.joined)
  BY <1>1, <1>4 DEF Alike
<1> QED BY <1>3, <1>4, NormalizedIs, CollapsedIs

LEMMA TextsAre ==
  ASSUME NEW q \in GradedQuestions, q.kind \notin {"option", "options"}
  PROVE  q.key \subseteq Spellings /\ q.points = 1
<1>1. \A w \in Words : Plain(w) \in Spellings /\ [Plain(w) EXCEPT !.caps = TRUE] \in Spellings
  BY DEF Plain, Spellings
<1>2. Printed \in Spellings
  BY <1>1, OptionsAre DEF Printed, Plain, Spellings
<1>3. CASE q = [kind |-> "value", key |-> {Printed}, points |-> 1]
  BY <1>2, <1>3
<1>4. CASE \E w \in Words : q = [kind |-> "accepted", key |-> {Plain(w), [Plain(w) EXCEPT !.caps = TRUE]}, points |-> 1]
  BY <1>1, <1>4
<1> QED BY <1>3, <1>4 DEF GradedQuestions

\* GradeAnswer and the grader of corrections, of a text.
LEMMA TextGraded ==
  ASSUME NEW q \in GradedQuestions, NEW g \in Wellformed, q.kind \notin {"option", "options"}
  PROVE  /\ GradeAnswer(q, g) <=> \E t \in g.typed, k \in q.key : Alike(t, k)
         /\ GradeAnswer(q, g) => ObjectiveCorrect(q, g)
<1>1. q.key \subseteq Spellings /\ g.typed \subseteq Spellings
  BY TextsAre DEF Wellformed
<1>2. GradeAnswer(q, g) <=> \E t \in g.typed, k \in q.key : Normalized(t) = Normalized(k)
  BY DEF GradeAnswer, TextAccepted
<1>3. ObjectiveCorrect(q, g) <=> \E t \in g.typed, k \in q.key : Collapsed(t) = Collapsed(k)
  BY DEF ObjectiveCorrect, TextAccepted
<1> QED BY <1>1, <1>2, <1>3, NormalizedAlike

LEMMA OptionIs ==
  ASSUME NEW q \in GradedQuestions, q.kind = "option"
  PROVE  q.points = 1 /\ Cardinality(q.key) = 1
<1>1. PICK o : q.key = {o} /\ q.points = 1
  BY DEF GradedQuestions
<1> QED BY <1>1, FS_Singleton

LEMMA OptionsKeyIs ==
  ASSUME NEW q, Fair(q), q.kind = "options"
  PROVE  /\ IsFiniteSet(q.key) /\ Cardinality(q.key) \in Nat /\ Cardinality(q.key) > 0
         /\ q.points \in {1, Cardinality(q.key)}
<1>1. q.key \in Keys
  BY DEF Fair, GradedQuestions
<1> QED BY <1>1, KeysAre DEF Fair

\* Full marks are exact, of any question and any answer.
LEMMA ExactHolds ==
  ASSUME NEW q, Fair(q), NEW g \in Wellformed
  PROVE  /\ GradePoints(q, g) = q.points <=>
              CASE q.kind \in {"option", "options"} ->
                     Range(g.picked) = q.key /\ Len(g.picked) = Cardinality(q.key)
                [] OTHER -> \E t \in g.typed, k \in q.key :
                     /\ t.word = k.word /\ t.wide = k.wide
                     /\ t.joined = k.joined \/ (t.word = NotGiven /\ ~t.wide /\ ~k.wide)
         /\ GradePoints(q, g) = q.points => ObjectiveCorrect(q, g)
         /\ ObjectiveCorrect(q, g) /\ q.kind \in {"option", "options"} => GradePoints(q, g) = q.points
<1>1. q \in GradedQuestions /\ g.picked \in Seq(Range(Options)) /\ Len(g.picked) \in Nat
  BY SequencesAre DEF Fair, Wellformed
<1>2. CASE q.kind = "option"
  <2>1. GradePoints(q, g) = IF GradeAnswer(q, g) THEN 1 ELSE 0
    BY <1>1, <1>2, OptionIs DEF GradePoints
  <2>2. q.points = 1 /\ Cardinality(q.key) = 1
    BY <1>1, <1>2, OptionIs
  <2>3. /\ GradeAnswer(q, g) <=> Len(g.picked) = 1 /\ Range(g.picked) = q.key
        /\ ObjectiveCorrect(q, g) <=> Len(g.picked) = 1 /\ Range(g.picked) = q.key
    BY <1>2 DEF GradeAnswer, ObjectiveCorrect
  <2>4. GradePoints(q, g) = q.points <=> Range(g.picked) = q.key /\ Len(g.picked) = Cardinality(q.key)
    BY <2>1, <2>2, <2>3
  <2> QED BY <1>2, <2>2, <2>3, <2>4
<1>3. CASE q.kind = "options"
  <2>1. IsFiniteSet(q.key) /\ Cardinality(q.key) \in Nat /\ Cardinality(q.key) > 0 /\ q.points \in {1, Cardinality(q.key)}
    BY <1>3, OptionsKeyIs
  <2>2. GradePoints(q, g) = q.points <=> Range(g.picked) = q.key /\ Len(g.picked) = Cardinality(q.key)
    <3>1. CASE q.points <= 1
      <4>1. GradePoints(q, g) = IF GradeAnswer(q, g) THEN q.points ELSE 0
        BY <3>1 DEF GradePoints
      <4>2. q.points = 1
        BY <2>1, <3>1
      <4> QED BY <1>3, <4>1, <4>2 DEF GradeAnswer, SameOptions
    <3>2. CASE ~(q.points <= 1)
      <4>1. q.points = Cardinality(q.key)
        BY <2>1, <3>2
      <4>2. CASE Len(g.picked) > Cardinality(q.key)
        <5>1. GradePoints(q, g) = 0
          BY <1>3, <3>2, <4>2 DEF GradePoints
        <5> QED BY <1>1, <2>1, <4>1, <4>2, <5>1
      <4>3. CASE Len(g.picked) <= Cardinality(q.key)
        <5>1. GradePoints(q, g) = Min({Cardinality(q.key), RightPicks(q.key, g.picked)})
          BY <1>1, <1>3, <2>1, <3>2, <4>1, <4>3 DEF GradePoints
        <5> QED BY <1>1, <2>1, <4>1, <4>3, <5>1, EachPointExact
      <4> QED BY <1>1, <2>1, <4>2, <4>3
    <3> QED BY <3>1, <3>2
  <2>3. Range(g.picked) = q.key /\ Len(g.picked) = Cardinality(q.key) => ObjectiveCorrect(q, g)
    <3>1. Len(g.picked) > 0 => g.picked # <<>>
      BY <1>1, SequencesAre
    <3> QED BY <1>1, <1>3, <2>1, <3>1 DEF ObjectiveCorrect, SameOptions
  <2>4. ObjectiveCorrect(q, g) => Range(g.picked) = q.key /\ Len(g.picked) = Cardinality(q.key)
    BY <1>3 DEF ObjectiveCorrect, SameOptions
  <2> QED BY <1>3, <2>2, <2>3, <2>4
<1>4. CASE q.kind \notin {"option", "options"}
  <2>1. GradePoints(q, g) = IF GradeAnswer(q, g) THEN 1 ELSE 0
    BY <1>1, <1>4, TextsAre DEF GradePoints
  <2>2. GradePoints(q, g) = q.points <=> GradeAnswer(q, g)
    BY <1>1, <1>4, <2>1, TextsAre
  <2> QED BY <1>1, <1>4, <2>2, TextGraded DEF Alike
<1> QED BY <1>2, <1>3, <1>4

\* A letter is resolved to the option it stands for.
LEMMA LetterResolved ==
  ASSUME NEW j \in DOMAIN Aliases
  PROVE  Resolved(Aliases[j]) = Options[j]
<1>1. Aliases[j] = Letters[j] /\ j \in DOMAIN Letters /\ DOMAIN Aliases \subseteq DOMAIN Letters
  BY DEF Aliases
<1>2. Aliases[j] \in Range(Letters) /\ Aliases[j] \in Range(Aliases)
  BY <1>1 DEF Range
<1>3. (IF Aliases[j] \in Range(Options) THEN Capitals[Aliases[j]] ELSE Aliases[j]) = Aliases[j]
  BY <1>2, GradingAssumption
<1>4. \A i \in DOMAIN Aliases : Aliases[i] = Aliases[j] => i = j
  <2> TAKE i \in DOMAIN Aliases
  <2>1. Aliases[i] = Letters[i] /\ i \in DOMAIN Letters
    BY DEF Aliases
  <2> QED BY <1>1, <2>1, GradingAssumption DEF IsInjective
<1>5. (CHOOSE i \in DOMAIN Aliases : Aliases[i] = Aliases[j]) = j
  BY <1>4
<1> QED BY <1>2, <1>3, <1>5 DEF Resolved

\* An identifier that is the letter of no other option is left as it is.
LEMMA IdentifierResolved ==
  ASSUME NEW o \in Range(Options), \A j \in DOMAIN Aliases : Aliases[j] = Capitals[o] => Options[j] = o
  PROVE  Resolved(o) = o
<1>1. CASE Capitals[o] \in Range(Aliases)
  <2>1. PICK j \in DOMAIN Aliases : Aliases[j] = Capitals[o]
    BY <1>1 DEF Range
  <2>2. Options[CHOOSE i \in DOMAIN Aliases : Aliases[i] = Capitals[o]] = o
    BY <2>1
  <2> QED BY <1>1, <2>2 DEF Resolved
<1>2. CASE Capitals[o] \notin Range(Aliases)
  BY <1>2 DEF Resolved
<1> QED BY <1>1, <1>2

\* Texts that are resolved to the options of an answer are graded as it.
LEMMA SameCorrected ==
  ASSUME NEW g \in Wellformed, NEW texts, DOMAIN texts = DOMAIN g.picked,
         \A i \in DOMAIN texts : Resolved(texts[i]) = g.picked[i]
  PROVE  ObjectiveGiven([g EXCEPT !.picked = texts]) = g
<1>1. g = [picked |-> g.picked, typed |-> g.typed] /\ g.picked \in Seq(Range(Options))
  BY DEF Wellformed
<1>2. PICK r : r = [i \in DOMAIN texts |-> Resolved(texts[i])]
  OBVIOUS
<1>3. g.picked = r
  BY <1>1, <1>2
<1>4. [g EXCEPT !.picked = texts] = [picked |-> texts, typed |-> g.typed]
  BY <1>1
<1>5. ObjectiveGiven([g EXCEPT !.picked = texts]) = [picked |-> r, typed |-> g.typed]
  <2>1. ObjectiveGiven([picked |-> texts, typed |-> g.typed])
        = [picked |-> [i \in DOMAIN texts |-> Resolved(texts[i])], typed |-> g.typed]
    BY DEF ObjectiveGiven
  <2> QED BY <1>2, <1>4, <2>1, Zenon
<1> QED BY <1>1, <1>3, <1>5

LEMMA LettersCorrected ==
  ASSUME NEW g \in Wellformed, NEW texts \in Lettered(g.picked)
  PROVE  ObjectiveGiven([g EXCEPT !.picked = texts]) = g
<1>1. DOMAIN texts = DOMAIN g.picked
  BY DEF Lettered
<1>2. \A i \in DOMAIN texts : Resolved(texts[i]) = g.picked[i]
  <2> TAKE i \in DOMAIN texts
  <2>1. PICK j \in DOMAIN Aliases : Aliases[j] = texts[i] /\ Options[j] = g.picked[i]
    BY <1>1 DEF Lettered
  <2> QED BY <2>1, LetterResolved
<1> QED BY <1>1, <1>2, SameCorrected

LEMMA IdentifiersCorrected ==
  ASSUME NEW g \in Wellformed,
         \A o \in Range(g.picked), j \in DOMAIN Aliases : Aliases[j] = Capitals[o] => Options[j] = o
  PROVE  ObjectiveGiven([g EXCEPT !.picked = g.picked]) = g
<1>1. g.picked \in Seq(Range(Options))
  BY DEF Wellformed
<1>2. \A i \in DOMAIN g.picked : Resolved(g.picked[i]) = g.picked[i]
  <2> TAKE i \in DOMAIN g.picked
  <2>1. g.picked[i] \in Range(g.picked) /\ g.picked[i] \in Range(Options)
    BY <1>1, SequencesAre DEF Range
  <2> QED BY <2>1, IdentifierResolved
<1> QED BY <1>2, SameCorrected

-------------------------------------------------------------------------------
(* The preview of a guest: the same mistakes are open in whatever order     *)
(* they come.                                                               *)

Entries == [id : Nat, n : Nat, right : BOOLEAN]

\* The items of a review, each with an identifier of its own.
Listed(items, n) ==
  /\ n \in 0..MaxMistakes /\ items \in [1..n -> Entries]
  /\ \A i, j \in 1..n : items[i].id = items[j].id => i = j

UpTo(x, y) == Before(x, y) \/ x.id = y.id

\* Of two items with identifiers of their own one is before the other.
LEMMA BeforeOrders ==
  ASSUME NEW x \in Entries, NEW y \in Entries, NEW z \in Entries
  PROVE  /\ x.id # y.id => Before(x, y) \/ Before(y, x)
         /\ ~(Before(x, y) /\ Before(y, x)) /\ ~Before(x, x)
         /\ Before(x, y) /\ Before(y, z) => Before(x, z)
BY DEF Before, Entries

\* How many are up to each item: its place.
LEMMA PlacesAre ==
  ASSUME NEW n, NEW items, Listed(items, n)
  PROVE  \E place \in Bijection(1..n, 1..n) :
           \A i, j \in 1..n : place[i] < place[j] => Before(items[i], items[j])
<1>1. n \in Nat /\ \A i \in 1..n : items[i] \in Entries
  BY GradingAssumption DEF Listed
<1> DEFINE Under(i) == {k \in 1..n : UpTo(items[k], items[i])}
           place == [i \in 1..n |-> Cardinality(Under(i))]
<1>2. IsFiniteSet(1..n) /\ Cardinality(1..n) = n
  BY <1>1, FS_Interval
<1>3. \A i \in 1..n : Under(i) \in SUBSET (1..n) /\ i \in Under(i)
  BY DEF UpTo
<1>4. \A i \in 1..n : IsFiniteSet(Under(i))
  BY <1>2, <1>3, FS_Subset
<1>5. \A i \in 1..n : place[i] \in 1..n
  <2> SUFFICES ASSUME NEW i \in 1..n PROVE Cardinality(Under(i)) \in 1..n
    OBVIOUS
  <2>1. Cardinality(Under(i)) \in Nat /\ Cardinality(Under(i)) <= n
    BY <1>2, <1>3, FS_Subset, FS_CardinalityType
  <2>2. Cardinality(Under(i)) # 0
    BY <1>3, <1>4, FS_EmptySet
  <2> HIDE DEF Under
  <2> QED BY <1>1, <2>1, <2>2
<1>6. \A i, j \in 1..n : Before(items[i], items[j]) => place[i] < place[j]
  <2> SUFFICES ASSUME NEW i \in 1..n, NEW j \in 1..n, Before(items[i], items[j])
               PROVE  Cardinality(Under(i)) < Cardinality(Under(j))
    OBVIOUS
  <2>1. ASSUME NEW k \in Under(i) PROVE k \in Under(j)
    <3>1. k \in 1..n /\ (Before(items[k], items[i]) \/ items[k].id = items[i].id)
      BY DEF UpTo
    <3>2. items[k].id = items[i].id => k = i
      BY <3>1 DEF Listed
    <3> QED BY <1>1, <3>1, <3>2, BeforeOrders DEF UpTo
  <2>2. j \in Under(j) /\ j \notin Under(i)
    <3>1. ~Before(items[j], items[i]) /\ items[j].id # items[i].id
      <4>1. ~Before(items[j], items[i]) /\ i # j
        BY <1>1, BeforeOrders
      <4> QED BY <4>1 DEF Listed
    <3> QED BY <3>1 DEF UpTo
  <2>3. IsFiniteSet(Under(j)) /\ Under(i) \in SUBSET Under(j) /\ Under(i) # Under(j)
    BY <1>4, <2>1, <2>2
  <2> HIDE DEF Under
  <2>4. Cardinality(Under(i)) < Cardinality(Under(j))
    <3>1. IsFiniteSet(Under(i)) /\ Cardinality(Under(i)) <= Cardinality(Under(j))
      BY <2>3, FS_Subset
    <3>2. Cardinality(Under(i)) # Cardinality(Under(j))
      BY <2>3, FS_Subset
    <3>3. Cardinality(Under(i)) \in Nat /\ Cardinality(Under(j)) \in Nat
      BY <2>3, <3>1, FS_CardinalityType
    <3> QED BY <3>1, <3>2, <3>3
  <2> QED BY <2>4
<1> HIDE DEF place
<1>7. \A i, j \in 1..n : i # j => place[i] # place[j]
  <2> SUFFICES ASSUME NEW i \in 1..n, NEW j \in 1..n, i # j PROVE place[i] # place[j]
    OBVIOUS
  <2>1. items[i].id # items[j].id
    BY DEF Listed
  <2>2. Before(items[i], items[j]) \/ Before(items[j], items[i])
    BY <1>1, <2>1, BeforeOrders
  <2>3. place[i] \in Nat /\ place[j] \in Nat
    BY <1>5
  <2> QED BY <1>6, <2>2, <2>3
<1>8. place \in Injection(1..n, 1..n)
  BY <1>5, <1>7 DEF Injection, IsInjective, place
<1>9. place \in Surjection(1..n, 1..n)
  BY <1>2, <1>8, FS_Injection
<1>10. \A i, j \in 1..n : place[i] < place[j] => Before(items[i], items[j])
  <2> SUFFICES ASSUME NEW i \in 1..n, NEW j \in 1..n, place[i] < place[j] PROVE Before(items[i], items[j])
    OBVIOUS
  <2>1. place[i] \in Nat /\ place[j] \in Nat
    BY <1>5
  <2>2. i # j /\ ~Before(items[j], items[i])
    BY <1>6, <2>1
  <2>3. items[i].id # items[j].id
    BY <2>2 DEF Listed
  <2> QED BY <1>1, <2>2, <2>3, BeforeOrders
<1>11. place \in Bijection(1..n, 1..n)
  BY <1>8, <1>9 DEF Bijection
<1> QED BY <1>10, <1>11

LEMMA EntriesAre ==
  ASSUME NEW n, NEW items, Listed(items, n)
  PROVE  /\ n \in Nat /\ items \in Seq(Entries) /\ Len(items) = n /\ DOMAIN items = 1..n
         /\ \A i \in 1..n : items[i] \in Entries
         /\ \A i, j \in 1..n : i # j => Before(items[i], items[j]) \/ Before(items[j], items[i])
         /\ \A i, j \in 1..n : ~(Before(items[i], items[j]) /\ Before(items[j], items[i]))
<1>1. n \in Nat /\ items \in [1..n -> Entries]
  BY GradingAssumption DEF Listed
<1>2. items \in Seq(Entries) /\ Len(items) = n /\ DOMAIN items = 1..n
  BY <1>1
<1>3. \A i \in 1..n : items[i] \in Entries
  BY <1>1
<1>4. \A i, j \in 1..n : i # j => items[i].id # items[j].id
  BY DEF Listed
<1> QED BY <1>1, <1>2, <1>3, <1>4, BeforeOrders

\* The items have an order to be sorted in.
LEMMA OrderExists ==
  ASSUME NEW n, NEW items, Listed(items, n)
  PROVE  \E p \in Orders(Len(items)) : InOrder(items, p)
<1>1. n \in Nat /\ Len(items) = n /\ DOMAIN items = 1..n
  BY EntriesAre
<1>2. PICK place \in Bijection(1..n, 1..n) :
        \A i, j \in 1..n : place[i] < place[j] => Before(items[i], items[j])
  BY PlacesAre
<1>3. /\ \A i \in 1..n : place[i] \in 1..n
      /\ \A i, j \in 1..n : place[i] = place[j] => i = j
      /\ \A k \in 1..n : \E i \in 1..n : place[i] = k
  BY DEF Bijection, Injection, IsInjective, Surjection
<1> DEFINE p == [k \in 1..n |-> CHOOSE i \in 1..n : place[i] = k]
<1>4. \A k \in 1..n : p[k] \in 1..n /\ place[p[k]] = k
  BY <1>3
<1>5. \A i \in 1..n : p[place[i]] = i
  BY <1>3, <1>4
<1>6. p \in Bijection(1..n, 1..n)
  <2>1. p \in [1..n -> 1..n]
    BY <1>4
  <2> HIDE DEF p
  <2>2. \A k, l \in 1..n : p[k] = p[l] => k = l
    BY <1>4
  <2>3. \A i \in 1..n : \E k \in 1..n : p[k] = i
    BY <1>3, <1>5
  <2> QED BY <2>1, <2>2, <2>3 DEF Bijection, Injection, IsInjective, Surjection
<1>7. DOMAIN p = 1..n
  OBVIOUS
<1> HIDE DEF p
<1>8. p \in Orders(n)
  <2>1. n \in 0..MaxMistakes
    BY DEF Listed
  <2> QED BY <1>6, <1>7, <2>1 DEF Orders, AllOrders
<1>9. \A i, j \in 1..n : i < j => Before(items[p[i]], items[p[j]])
  BY <1>2, <1>4
<1>10. InOrder(items, p)
  BY <1>1, <1>9 DEF InOrder
<1> QED BY <1>1, <1>8, <1>10

\* Sorted, they come one before the other.
LEMMA SortedIs ==
  ASSUME NEW n, NEW items, Listed(items, n)
  PROVE  \E p \in Bijection(1..n, 1..n) :
           /\ Sorted(items) = [i \in 1..n |-> items[p[i]]]
           /\ \A i, j \in 1..n : i < j => Before(items[p[i]], items[p[j]])
<1>1. n \in Nat /\ Len(items) = n /\ DOMAIN items = 1..n
  BY EntriesAre
<1> DEFINE p == CHOOSE p \in Orders(Len(items)) : InOrder(items, p)
<1>2. p \in Orders(Len(items)) /\ InOrder(items, p)
  BY OrderExists
<1>3. Sorted(items) = [i \in 1..n |-> items[p[i]]]
  BY <1>1 DEF Sorted
<1> HIDE DEF p
<1>4. p \in Bijection(1..n, 1..n)
  <2>1. PICK k \in 0..MaxMistakes : p \in Bijection(1..k, 1..k)
    BY <1>2 DEF Orders, AllOrders
  <2>2. DOMAIN p = 1..n /\ DOMAIN p = 1..k /\ k \in Nat
    BY <1>1, <1>2, <2>1, GradingAssumption DEF Orders, Bijection, Injection
  <2>3. k = n
    BY <1>1, <2>2
  <2> QED BY <2>1, <2>3
<1>5. \A i, j \in 1..n : p[i] \in 1..n /\ (i < j => p[i] # p[j])
  BY <1>4 DEF Bijection, Injection, IsInjective
<1>6. \A i, j \in 1..n : i < j => Before(items[p[i]], items[p[j]])
  BY <1>1, <1>2, <1>5, EntriesAre DEF InOrder
<1> QED BY <1>3, <1>4, <1>6

\* The mistakes of a review, and those of them that are open when so many may be.
Mistaken(items) == {x \in Range(items) : ~x.right}

OpenOf(W, a) == {x.id : x \in {y \in W : Cardinality({z \in W : UpTo(z, y)}) <= a}}

LEMMA MistakenAre ==
  ASSUME NEW n, NEW items, Listed(items, n)
  PROVE  /\ IsFiniteSet(Mistaken(items)) /\ Cardinality(Mistaken(items)) = Cardinality(Wrong(items))
         /\ Cardinality(Mistaken(items)) \in Nat /\ Mistaken(items) \subseteq Entries
<1>1. n \in Nat /\ DOMAIN items = 1..n /\ \A i \in 1..n : items[i] \in Entries
  BY EntriesAre
<1>2. Wrong(items) \in SUBSET (1..n) /\ IsFiniteSet(1..n)
  BY <1>1, FS_Interval DEF Wrong
<1>3. IsFiniteSet(Wrong(items))
  BY <1>2, FS_Subset
<1> DEFINE f == [i \in Wrong(items) |-> items[i]]
<1>4. f \in Surjection(Wrong(items), Mistaken(items))
  BY <1>1 DEF Surjection, Wrong, Mistaken, Range
<1>5. f \in Injection(Wrong(items), Mistaken(items))
  <2>1. \A i, j \in Wrong(items) : f[i] = f[j] => i = j
    BY <1>2 DEF Listed
  <2>2. f \in [Wrong(items) -> Mistaken(items)]
    BY <1>4 DEF Surjection
  <2> HIDE DEF f
  <2> QED BY <2>1, <2>2 DEF Injection, IsInjective
<1> HIDE DEF f
<1>6. IsFiniteSet(Mistaken(items)) /\ Cardinality(Mistaken(items)) = Cardinality(Wrong(items))
  BY <1>3, <1>4, <1>5, FS_Surjection
<1>7. Mistaken(items) \subseteq Entries
  BY <1>1 DEF Mistaken, Range
<1> QED BY <1>6, <1>7, FS_CardinalityType

LEMMA UpToFinite ==
  ASSUME NEW W, IsFiniteSet(W), NEW y \in W
  PROVE  /\ IsFiniteSet({z \in W : UpTo(z, y)}) /\ Cardinality({z \in W : UpTo(z, y)}) \in Nat
         /\ Cardinality({z \in W : UpTo(z, y)}) > 0
<1> DEFINE U == {z \in W : UpTo(z, y)}
<1>1. U \in SUBSET W /\ y \in U
  BY DEF UpTo
<1>2. IsFiniteSet(U) /\ U # {}
  BY <1>1, FS_Subset
<1> HIDE DEF U
<1>3. Cardinality(U) \in Nat /\ Cardinality(U) # 0
  BY <1>2, FS_EmptySet, FS_CardinalityType
<1>4. Cardinality(U) > 0
  BY <1>3
<1> QED BY <1>2, <1>3, <1>4 DEF U

\* Which are open depends on the mistakes alone, not on where they stand.
LEMMA OpenIs ==
  ASSUME NEW r, NEW n, Listed(r.items, n)
  PROVE  OpenItems(r) = OpenOf(Mistaken(r.items), Available(r))
<1> DEFINE items == r.items
           s == Sorted(items)
           W == Mistaken(items)
<1>1. n \in Nat /\ DOMAIN items = 1..n /\ \A i \in 1..n : items[i] \in Entries
  BY EntriesAre
<1>2. PICK p \in Bijection(1..n, 1..n) :
        /\ s = [i \in 1..n |-> items[p[i]]]
        /\ \A i, j \in 1..n : i < j => Before(items[p[i]], items[p[j]])
  BY SortedIs
<1>3. \A i \in 1..n : p[i] \in 1..n
  BY DEF Bijection, Injection
<1>4. \A k \in 1..n : \E i \in 1..n : p[i] = k
  BY DEF Bijection, Surjection
<1>5. OpenItems(r) = {s[i].id : i \in {j \in Wrong(s) : Cardinality({k \in Wrong(s) : k <= j}) <= Available(r)}}
  BY DEF OpenItems
<1>6. DOMAIN s = 1..n /\ \A i \in 1..n : s[i] = items[p[i]] /\ s[i] \in Entries
  BY <1>1, <1>2, <1>3
<1>7. W = {x \in {items[i] : i \in 1..n} : ~x.right}
  BY <1>1 DEF Mistaken, Range
<1> HIDE DEF s, W
<1>8. Wrong(s) = {i \in 1..n : ~s[i].right}
  BY <1>6 DEF Wrong
<1>9. \A i \in Wrong(s) : s[i] \in W
  BY <1>3, <1>6, <1>7, <1>8
<1>10. \A x \in W : \E i \in Wrong(s) : s[i] = x
  <2> SUFFICES ASSUME NEW x \in W PROVE \E i \in Wrong(s) : s[i] = x
    OBVIOUS
  <2>1. PICK k \in 1..n : x = items[k] /\ ~x.right
    BY <1>7
  <2>2. PICK i \in 1..n : p[i] = k
    BY <1>4
  <2>3. s[i] = x
    BY <1>6, <2>1, <2>2
  <2> QED BY <1>8, <2>1, <2>3
<1>11. \A i, j \in 1..n : i < j => Before(s[i], s[j])
  BY <1>2, <1>6
<1>12. \A i, j \in 1..n : UpTo(s[i], s[j]) <=> i <= j
  <2> SUFFICES ASSUME NEW i \in 1..n, NEW j \in 1..n PROVE UpTo(s[i], s[j]) <=> i <= j
    OBVIOUS
  <2>1. s[i] \in Entries /\ s[j] \in Entries
    BY <1>6
  <2>2. CASE i < j
    BY <1>11, <2>2 DEF UpTo
  <2>3. CASE i = j
    BY <2>3 DEF UpTo
  <2>4. CASE j < i
    <3>1. Before(s[j], s[i])
      BY <1>11, <2>4
    <3>2. ~Before(s[i], s[j]) /\ s[i].id # s[j].id
      <4>1. ~Before(s[i], s[j])
        BY <2>1, <3>1, BeforeOrders
      <4>2. p[i] # p[j]
        BY <2>4 DEF Bijection, Injection, IsInjective
      <4>3. items[p[i]].id # items[p[j]].id
        BY <1>3, <4>2 DEF Listed
      <4> QED BY <1>6, <4>1, <4>3
    <3> QED BY <2>4, <3>2 DEF UpTo
  <2> QED BY <2>2, <2>3, <2>4
<1>13. \A j \in Wrong(s) : Cardinality({k \in Wrong(s) : k <= j}) = Cardinality({z \in W : UpTo(z, s[j])})
  <2> SUFFICES ASSUME NEW j \in Wrong(s)
               PROVE  Cardinality({k \in Wrong(s) : k <= j}) = Cardinality({z \in W : UpTo(z, s[j])})
    OBVIOUS
  <2> DEFINE K == {k \in Wrong(s) : k <= j}
             U == {z \in W : UpTo(z, s[j])}
             f == [k \in K |-> s[k]]
  <2>1. \A k \in K : s[k] \in U
    BY <1>8, <1>9, <1>12
  <2>2. \A z \in U : \E k \in K : s[k] = z
    BY <1>8, <1>10, <1>12
  <2>3. \A k, l \in K : s[k] = s[l] => k = l
    <3>1. \A k, l \in 1..n : s[k] = s[l] => k <= l /\ l <= k
      BY <1>12 DEF UpTo
    <3> QED BY <1>8, <3>1
  <2>4. IsFiniteSet(K)
    <3>1. K \in SUBSET (1..n)
      BY <1>8
    <3> QED BY <1>1, <3>1, FS_Subset, FS_Interval
  <2> HIDE DEF K, U
  <2>5. f \in Surjection(K, U)
    BY <2>1, <2>2 DEF Surjection
  <2>6. f \in Injection(K, U)
    BY <2>1, <2>3 DEF Injection, IsInjective
  <2> HIDE DEF f
  <2>7. Cardinality(U) = Cardinality(K)
    BY <2>4, <2>5, <2>6, FS_Surjection
  <2> QED BY <2>7 DEF K, U
<1>14. OpenItems(r) = {s[i].id : i \in {j \in Wrong(s) : Cardinality({z \in W : UpTo(z, s[j])}) <= Available(r)}}
  BY <1>5, <1>13
<1>15. OpenOf(W, Available(r)) = {x.id : x \in {y \in W : Cardinality({z \in W : UpTo(z, y)}) <= Available(r)}}
  BY DEF OpenOf
<1>16. {s[i].id : i \in {j \in Wrong(s) : Cardinality({z \in W : UpTo(z, s[j])}) <= Available(r)}}
         = {x.id : x \in {y \in W : Cardinality({z \in W : UpTo(z, y)}) <= Available(r)}}
  BY <1>9, <1>10
<1> QED BY <1>14, <1>15, <1>16 DEF W

\* No more are open than may be.
LEMMA OpenFew ==
  ASSUME NEW W, IsFiniteSet(W), W \subseteq Entries,
         \A x, y \in W : x.id = y.id => x = y,
         NEW a \in Nat
  PROVE  IsFiniteSet(OpenOf(W, a)) /\ Cardinality(OpenOf(W, a)) \in 0..a
<1> DEFINE U(y) == {z \in W : UpTo(z, y)}
           O == {y \in W : Cardinality(U(y)) <= a}
           place == [y \in O |-> Cardinality(U(y))]
<1>1. \A y \in W : IsFiniteSet(U(y)) /\ Cardinality(U(y)) \in Nat /\ Cardinality(U(y)) > 0
  BY UpToFinite
<1>2. \A y \in O : place[y] \in 1..a
  <2> SUFFICES ASSUME NEW y \in O PROVE Cardinality(U(y)) \in 1..a
    OBVIOUS
  <2>1. Cardinality(U(y)) \in Nat /\ Cardinality(U(y)) > 0 /\ Cardinality(U(y)) <= a
    BY <1>1
  <2> HIDE DEF U, O
  <2> QED BY <2>1
<1>3. \A x, y \in W : Before(x, y) => Cardinality(U(x)) < Cardinality(U(y))
  <2> SUFFICES ASSUME NEW x \in W, NEW y \in W, Before(x, y) PROVE Cardinality(U(x)) < Cardinality(U(y))
    OBVIOUS
  <2>1. U(x) \in SUBSET U(y)
    BY BeforeOrders DEF UpTo
  <2>2. y \in U(y) /\ y \notin U(x)
    <3>1. ~Before(y, x) /\ y # x
      BY BeforeOrders
    <3> QED BY <3>1 DEF UpTo
  <2>3. Cardinality(U(x)) <= Cardinality(U(y)) /\ Cardinality(U(x)) # Cardinality(U(y))
    <3>1. IsFiniteSet(U(y)) /\ U(x) # U(y)
      BY <1>1, <2>2
    <3> HIDE DEF U
    <3> QED BY <2>1, <3>1, FS_Subset
  <2>4. Cardinality(U(x)) \in Nat /\ Cardinality(U(y)) \in Nat
    BY <1>1
  <2> HIDE DEF U
  <2> QED BY <2>3, <2>4
<1>4. \A x, y \in O : x # y => place[x] # place[y]
  <2> SUFFICES ASSUME NEW x \in O, NEW y \in O, x # y PROVE Cardinality(U(x)) # Cardinality(U(y))
    OBVIOUS
  <2>1. x \in W /\ y \in W /\ x.id # y.id
    OBVIOUS
  <2>2. Before(x, y) \/ Before(y, x)
    BY <2>1, BeforeOrders
  <2>3. Cardinality(U(x)) \in Nat /\ Cardinality(U(y)) \in Nat
    BY <1>1, <2>1
  <2> HIDE DEF U, O
  <2> QED BY <1>3, <2>1, <2>2, <2>3
<1>5. place \in Injection(O, 1..a)
  <2>1. place \in [O -> 1..a]
    BY <1>2
  <2> HIDE DEF place, O
  <2> QED BY <1>4, <2>1 DEF Injection, IsInjective
<1>6. IsFiniteSet(1..a) /\ Cardinality(1..a) = a
  BY FS_Interval
<1> HIDE DEF place
<1>7. IsFiniteSet(O) /\ Cardinality(O) <= a
  <2> HIDE DEF O
  <2> QED BY <1>5, <1>6, FS_Injection
<1> DEFINE ids == [x \in O |-> x.id]
<1>8. OpenOf(W, a) = {x.id : x \in O}
  BY DEF OpenOf
<1> HIDE DEF O
<1>9. ids \in Surjection(O, OpenOf(W, a))
  BY <1>8 DEF Surjection
<1> HIDE DEF ids
<1>10. IsFiniteSet(OpenOf(W, a)) /\ Cardinality(OpenOf(W, a)) <= Cardinality(O)
  BY <1>7, <1>9, FS_Surjection
<1>11. Cardinality(OpenOf(W, a)) \in Nat /\ Cardinality(O) \in Nat
  BY <1>7, <1>10, FS_CardinalityType
<1> QED BY <1>7, <1>10, <1>11

\* Three tenths are open at most.
LEMMA AvailableIs ==
  ASSUME NEW r, NEW n, Listed(r.items, n), r.hints \in Nat
  PROVE  /\ Available(r) = ((Cardinality(Mistaken(r.items)) + r.hints) * 3) \div 10
         /\ Available(r) \in Nat
         /\ 10 * Available(r) <= 3 * (Cardinality(Wrong(r.items)) + r.hints)
<1>1. Cardinality(Mistaken(r.items)) \in Nat /\ Cardinality(Mistaken(r.items)) = Cardinality(Wrong(r.items))
  BY MistakenAre
<1>2. PICK c \in Nat : c = Cardinality(Wrong(r.items))
  BY <1>1
<1>3. PICK h \in Nat : h = r.hints
  OBVIOUS
<1>4. Available(r) = ((c + h) * 3) \div 10
  BY <1>2, <1>3 DEF Available
<1>5. ((c + h) * 3) \div 10 \in Nat /\ 10 * (((c + h) * 3) \div 10) <= 3 * (c + h)
  OBVIOUS
<1> QED BY <1>1, <1>2, <1>3, <1>4, <1>5

\* The same items in another order.
LEMMA Shuffled ==
  ASSUME NEW n, NEW items, Listed(items, n), NEW p \in Orders(n)
  PROVE  /\ Listed([i \in 1..n |-> items[p[i]]], n)
         /\ Mistaken([i \in 1..n |-> items[p[i]]]) = Mistaken(items)
<1>1. n \in Nat /\ items \in [1..n -> Entries] /\ DOMAIN items = 1..n
  BY EntriesAre DEF Listed
<1>2. PICK k \in 0..MaxMistakes : p \in Bijection(1..k, 1..k)
  BY DEF Orders, AllOrders
<1>3. k = n
  <2>1. k \in Nat
    BY <1>2, GradingAssumption
  <2>2. 1..k = 1..n
    BY <1>2 DEF Orders, Bijection, Injection
  <2> QED BY <1>1, <2>1, <2>2
<1>4. /\ \A i \in 1..n : p[i] \in 1..n
      /\ \A i, j \in 1..n : p[i] = p[j] => i = j
      /\ \A l \in 1..n : \E i \in 1..n : p[i] = l
  BY <1>2, <1>3 DEF Bijection, Injection, IsInjective, Surjection
<1> DEFINE s == [i \in 1..n |-> items[p[i]]]
<1>5. s \in [1..n -> Entries]
  BY <1>1, <1>4
<1>6. \A i \in 1..n : s[i] = items[p[i]]
  OBVIOUS
<1>7. Range(s) = {s[i] : i \in 1..n}
  BY DEF Range
<1> HIDE DEF s
<1>8. \A i, j \in 1..n : s[i].id = s[j].id => i = j
  <2> SUFFICES ASSUME NEW i \in 1..n, NEW j \in 1..n, s[i].id = s[j].id PROVE i = j
    OBVIOUS
  <2>1. items[p[i]].id = items[p[j]].id
    BY <1>6
  <2>2. p[i] = p[j]
    <3>1. PICK k1 \in 1..n, l \in 1..n : k1 = p[i] /\ l = p[j]
      BY <1>4
    <3>2. items[k1].id = items[l].id
      BY <2>1, <3>1
    <3> QED BY <3>1, <3>2 DEF Listed
  <2> QED BY <1>4, <2>2
<1>9. Listed(s, n)
  BY <1>5, <1>8 DEF Listed
<1>10. Range(s) = Range(items)
  <2>1. Range(items) = {items[l] : l \in 1..n}
    BY <1>1 DEF Range
  <2>2. {s[i] : i \in 1..n} = {items[l] : l \in 1..n}
    <3>1. \A i \in 1..n : s[i] \in {items[l] : l \in 1..n}
      BY <1>4, <1>6
    <3>2. \A l \in 1..n : items[l] \in {s[i] : i \in 1..n}
      BY <1>4, <1>6
    <3> QED BY <3>1, <3>2
  <2> QED BY <1>7, <2>1, <2>2
<1>11. Mistaken(s) = Mistaken(items)
  BY <1>10 DEF Mistaken
<1> QED BY <1>9, <1>11 DEF s

\* A review as its steps make it.
ReviewMade(r) ==
  /\ r = [items |-> r.items, hints |-> r.hints]
  /\ r.items \in Seq(Entries) /\ r.hints \in 0..MaxHints
  /\ Len(r.items) <= MaxMistakes /\ \A i \in 1..Len(r.items) : r.items[i].id = i

LEMMA ReviewListed ==
  ASSUME NEW r, ReviewMade(r)
  PROVE  Listed(r.items, Len(r.items)) /\ r.hints \in Nat
<1>1. Len(r.items) \in Nat /\ Len(r.items) <= MaxMistakes /\ DOMAIN r.items = 1..Len(r.items)
  BY SequencesAre DEF ReviewMade
<1>2. r.items \in [1..Len(r.items) -> Entries]
  BY DEF ReviewMade
<1>3. \A i, j \in 1..Len(r.items) : r.items[i].id = r.items[j].id => i = j
  BY DEF ReviewMade
<1>4. Len(r.items) \in 0..MaxMistakes /\ r.hints \in Nat
  BY <1>1, GradingAssumption DEF ReviewMade
<1> QED BY <1>2, <1>3, <1>4 DEF Listed

\* In whatever order the items come, the same are open, and few enough.
LEMMA PreviewHolds ==
  ASSUME NEW r, ReviewMade(r)
  PROVE  LET n == Len(r.items) IN
         /\ \A p \in Orders(n) :
              OpenItems([r EXCEPT !.items = [i \in 1..n |-> r.items[p[i]]]]) = OpenItems(r)
         /\ 10 * (Cardinality(OpenItems(r)) + Cardinality(OpenHints(r)))
              <= 3 * (Cardinality(Wrong(r.items)) + r.hints)
<1> DEFINE n == Len(r.items)
<1>1. Listed(r.items, n) /\ r.hints \in Nat
  BY ReviewListed
<1>2. ASSUME NEW p \in Orders(n)
      PROVE  OpenItems([r EXCEPT !.items = [i \in 1..n |-> r.items[p[i]]]]) = OpenItems(r)
  <2> DEFINE s == [i \in 1..n |-> r.items[p[i]]]
             t == [r EXCEPT !.items = s]
  <2>1. Listed(s, n) /\ Mistaken(s) = Mistaken(r.items)
    BY <1>1, Shuffled
  <2> HIDE DEF s
  <2>2. t.items = s /\ t.hints = r.hints
    BY DEF ReviewMade
  <2> HIDE DEF t
  <2>3. OpenItems(t) = OpenOf(Mistaken(r.items), Available(t))
    BY <2>1, <2>2, OpenIs
  <2>4. OpenItems(r) = OpenOf(Mistaken(r.items), Available(r))
    BY <1>1, OpenIs
  <2>5. Available(t) = Available(r)
    BY <1>1, <2>1, <2>2, AvailableIs
  <2> QED BY <2>3, <2>4, <2>5 DEF t, s
<1>3. 10 * (Cardinality(OpenItems(r)) + Cardinality(OpenHints(r)))
        <= 3 * (Cardinality(Wrong(r.items)) + r.hints)
  <2>1. Available(r) \in Nat /\ 10 * Available(r) <= 3 * (Cardinality(Wrong(r.items)) + r.hints)
    BY <1>1, AvailableIs
  <2>2. /\ IsFiniteSet(Mistaken(r.items)) /\ Mistaken(r.items) \subseteq Entries
        /\ Cardinality(Wrong(r.items)) \in Nat
    BY <1>1, MistakenAre
  <2>3. \A x, y \in Mistaken(r.items) : x.id = y.id => x = y
    BY <1>1, EntriesAre DEF Mistaken, Listed, Range
  <2>4. Cardinality(OpenItems(r)) \in 0..Available(r)
    <3>1. OpenItems(r) = OpenOf(Mistaken(r.items), Available(r))
      BY <1>1, OpenIs
    <3> QED BY <2>1, <2>2, <2>3, <3>1, OpenFew
  <2>5. PICK a \in Nat, o \in Nat : a = Available(r) /\ o = Cardinality(OpenItems(r)) /\ o <= a
    BY <2>1, <2>4
  <2>6. Cardinality(OpenHints(r)) \in 0..(a - o)
    <3>1. OpenHints(r) \in SUBSET (1..(a - o))
      BY <1>1, <2>5 DEF OpenHints
    <3>2. IsFiniteSet(1..(a - o)) /\ Cardinality(1..(a - o)) = a - o
      <4>1. a - o \in Nat
        BY <2>5
      <4> HIDE DEF n
      <4>2. PICK d \in Nat : d = a - o
        BY <4>1
      <4>3. IsFiniteSet(1..d) /\ Cardinality(1..d) = d
        BY FS_Interval
      <4> QED BY <4>2, <4>3
    <3>3. Cardinality(OpenHints(r)) \in Nat /\ Cardinality(OpenHints(r)) <= a - o
      BY <3>1, <3>2, FS_Subset, FS_CardinalityType
    <3> QED BY <3>3
  <2> QED BY <1>1, <2>1, <2>2, <2>5, <2>6
<1> QED BY <1>2, <1>3

GradingInv ==
  /\ Fair(question)
  /\ given = [picked |-> given.picked, typed |-> given.typed] /\ given \in Wellformed
  /\ ReviewMade(review)

LEMMA PickHolds ==
  ASSUME GradingInv, NEW o \in Range(Options), Pick(o) PROVE GradingInv'
<1>1. question' = question /\ review' = review
  BY DEF Pick
<1>2. given.picked \in Seq(Range(Options)) /\ given.typed \subseteq Spellings
  BY DEF GradingInv, Wellformed
<1>3. given' = [picked |-> Append(given.picked, o), typed |-> given.typed]
  <2>1. given' = [given EXCEPT !.picked = Append(given.picked, o)]
    BY DEF Pick
  <2> QED BY <2>1 DEF GradingInv
<1>4. Append(given.picked, o) \in Seq(Range(Options))
  BY <1>2
<1> QED BY <1>1, <1>2, <1>3, <1>4 DEF GradingInv, Fair, Wellformed, ReviewMade

LEMMA TypeHolds ==
  ASSUME GradingInv, NEW t \in Spellings, Type(t) PROVE GradingInv'
<1>1. question' = question /\ review' = review
  BY DEF Type
<1>2. given.picked \in Seq(Range(Options))
  BY DEF GradingInv, Wellformed
<1>3. given' = [picked |-> given.picked, typed |-> {t}]
  <2>1. given' = [given EXCEPT !.typed = {t}]
    BY DEF Type
  <2> QED BY <2>1 DEF GradingInv
<1> QED BY <1>1, <1>2, <1>3 DEF GradingInv, Fair, Wellformed, ReviewMade

LEMMA ItemHolds ==
  ASSUME GradingInv, NEW m \in 1..2, NEW right \in BOOLEAN, Item(m, right) PROVE GradingInv'
<1>1. question' = question /\ given' = given /\ Len(review.items) < MaxMistakes
  BY DEF Item
<1>2. PICK s \in Seq(Entries) : s = review.items
  BY DEF GradingInv, ReviewMade
<1>3. PICK e : e = [id |-> Len(s) + 1, n |-> m, right |-> right]
  OBVIOUS
<1>4. Len(s) \in Nat /\ DOMAIN s = 1..Len(s)
  OBVIOUS
<1>5. e \in Entries
  BY <1>3, <1>4 DEF Entries
<1>6. /\ Append(s, e) \in Seq(Entries) /\ Len(Append(s, e)) = Len(s) + 1
      /\ \A i \in 1..(Len(s) + 1) : Append(s, e)[i] = IF i <= Len(s) THEN s[i] ELSE e
  BY <1>5
<1>7. review' = [items |-> Append(s, e), hints |-> review.hints]
  <2>1. review' = [review EXCEPT !.items = Append(s, e)]
    BY <1>2, <1>3 DEF Item
  <2> QED BY <2>1 DEF GradingInv, ReviewMade
<1>8. \A i \in 1..Len(Append(s, e)) : Append(s, e)[i].id = i
  <2> SUFFICES ASSUME NEW i \in 1..(Len(s) + 1) PROVE Append(s, e)[i].id = i
    BY <1>6
  <2>1. CASE i <= Len(s)
    BY <1>2, <1>4, <1>6, <2>1 DEF GradingInv, ReviewMade
  <2>2. CASE i > Len(s)
    <3>1. i = Len(s) + 1 /\ Append(s, e)[i] = e
      BY <1>4, <1>6, <2>2
    <3> QED BY <1>3, <3>1
  <2> QED BY <1>4, <2>1, <2>2
<1>9. Len(Append(s, e)) <= MaxMistakes
  BY <1>1, <1>2, <1>4, <1>6, GradingAssumption
<1>10. ReviewMade(review')
  <2>1. review'.items = Append(s, e) /\ review'.hints = review.hints
    BY <1>7
  <2>2. review.hints \in 0..MaxHints
    BY DEF GradingInv, ReviewMade
  <2> QED BY <1>6, <1>7, <1>8, <1>9, <2>1, <2>2 DEF ReviewMade
<1> QED BY <1>1, <1>10 DEF GradingInv, Fair, Wellformed

LEMMA HintHolds ==
  ASSUME GradingInv, Hint PROVE GradingInv'
<1>1. question' = question /\ given' = given /\ review.hints < MaxHints
  BY DEF Hint
<1>2. review' = [items |-> review.items, hints |-> review.hints + 1]
  <2>1. review' = [review EXCEPT !.hints = review.hints + 1]
    BY DEF Hint
  <2> QED BY <2>1 DEF GradingInv, ReviewMade
<1>3. review.hints + 1 \in 0..MaxHints
  BY <1>1, GradingAssumption DEF GradingInv, ReviewMade
<1>4. ReviewMade(review')
  <2>1. review'.items = review.items /\ review'.hints = review.hints + 1
    BY <1>2
  <2> QED BY <1>2, <1>3, <2>1 DEF GradingInv, ReviewMade
<1> QED BY <1>1, <1>4 DEF GradingInv, Fair, Wellformed

LEMMA GradingStarts == GradingInit => GradingInv
<1> SUFFICES ASSUME GradingInit PROVE GradingInv
  OBVIOUS
<1>1. Fair(question) /\ given = [picked |-> <<>>, typed |-> {}] /\ review = [items |-> <<>>, hints |-> 0]
  BY DEF GradingInit, Fair, NoAnswer, NoReview
<1>2. given.picked = <<>> /\ given.typed = {} /\ given \in Wellformed
  <2>1. given.picked = <<>> /\ given.typed = {} /\ <<>> \in Seq(Range(Options))
    BY <1>1
  <2> QED BY <1>1, <2>1 DEF Wellformed
<1>3. review.items = <<>> /\ review.hints = 0
  BY <1>1
<1>4. Len(review.items) = 0 /\ review.items \in Seq(Entries) /\ 0 \in 0..MaxHints /\ 0 <= MaxMistakes
  BY <1>3, GradingAssumption
<1>5. ReviewMade(review)
  <2>1. \A i \in 1..0 : review.items[i].id = i
    OBVIOUS
  <2> QED BY <1>1, <1>3, <1>4, <2>1 DEF ReviewMade
<1> QED BY <1>1, <1>2, <1>5 DEF GradingInv

LEMMA GradingSteps == GradingInv /\ [GradingNext]_gradingVars => GradingInv'
<1> SUFFICES ASSUME GradingInv, [GradingNext]_gradingVars PROVE GradingInv'
  OBVIOUS
<1>1. CASE UNCHANGED gradingVars
  BY <1>1 DEF gradingVars, GradingInv, Fair, Wellformed, ReviewMade
<1> QED BY <1>1, PickHolds, TypeHolds, ItemHolds, HintHolds DEF GradingNext

LEMMA GradingFacts == GradingInv => GradingTypeOK /\ FullMarksAreExact /\ SamePreview
<1> SUFFICES ASSUME GradingInv PROVE GradingTypeOK /\ FullMarksAreExact /\ SamePreview
  OBVIOUS
<1>1. GradingTypeOK
  BY DEF GradingTypeOK, GradingInv, Fair, Wellformed, ReviewMade
<1>2. FullMarksAreExact
  <2>1. Fair(question) /\ given \in Wellformed
    BY DEF GradingInv
  <2>2. \A texts \in Lettered(given.picked) : ObjectiveGiven([given EXCEPT !.picked = texts]) = given
    BY <2>1, LettersCorrected
  <2>3. (\A o \in Range(given.picked), j \in DOMAIN Aliases : Aliases[j] = Capitals[o] => Options[j] = o)
        => ObjectiveGiven([given EXCEPT !.picked = given.picked]) = given
    BY <2>1, IdentifiersCorrected
  <2> QED BY <2>1, <2>2, <2>3, ExactHolds DEF FullMarksAreExact
<1>3. SamePreview
  BY PreviewHolds DEF SamePreview, GradingInv
<1> QED BY <1>1, <1>2, <1>3

\* The grade of an attempt is that of the answers stored with it, counted once, however
\* saves and hand-ins interleave (attempts/service.go); full marks are for the exact
\* answer, which the grader of corrections (objectiveCorrect) takes as an answer object, by
\* letters, and by identifiers that are no other option's letter; and a guest's preview
\* opens the same mistakes in whatever order they come, three tenths at most
\* (guest_preview.go).
THEOREM GradesKept == ObjectiveSpec /\ GradingSpec => []GradesHold
<1>1. ObjectiveSpec => []ObjectiveInv
  BY ObjectiveStarts, ObjectiveSteps, PTL DEF ObjectiveSpec
<1>2. GradingSpec => []GradingInv
  BY GradingStarts, GradingSteps, PTL DEF GradingSpec
<1>3. ObjectiveInv /\ GradingInv => GradesHold
  BY ObjectiveFacts, GradingFacts DEF GradesHold
<1> QED BY <1>1, <1>2, <1>3, PTL

===============================================================================
