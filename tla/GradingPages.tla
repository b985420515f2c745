------------------------------ MODULE GradingPages ------------------------------
(***************************************************************************)
(* Pages that need the questions of many attempts at once, each attempt    *)
(* pinned to a version of its material.                                    *)
(*                                                                         *)
(*   internal/attempts/mistakes.go       gradingMaterialsOfType            *)
(*   internal/attempts/grading_cache.go  the cache of a replica            *)
(*   internal/cache/json.go              the cache in Redis they share     *)
(*   internal/reading, listening         grading.go, loading in bulk       *)
(*                                                                         *)
(* A Reading test is made of passages, each a material of its own with its *)
(* own versions; a version of the test names versions of its passages.     *)
(* What a page shows of a version is here the versions whose questions it  *)
(* shows: its own and, by their place, those of its passages.              *)
(***************************************************************************)
EXTENDS Naturals, Sequences, FiniteSets, Functions

CONSTANTS
  Replicas,         \* API processes
  Visits,           \* requests for a page
  Passages,         \* how many passages the test has
  CacheSize,        \* gradingCacheSize
  MaxPassageDepth,  \* maxPassageDepth
  MaxStored,      \* bound on the versions of a material
  MaxWanted         \* bound on the versions each page needs

ASSUME PagesAssumption ==
  /\ {Passages, CacheSize, MaxPassageDepth, MaxStored} \subseteq Nat
  /\ MaxWanted \in [Visits -> Nat]
  /\ CacheSize > 0 /\ MaxPassageDepth > 1 /\ MaxStored > 0

VARIABLES
  stored,  \* material: how many versions it has; 0 is the test
  links,     \* reading_test_passages: by version of the test, the versions of its passages
  local,     \* gradingCache of each replica
  shared,    \* the entries in Redis
  visit      \* what each request is doing

pagesVars == <<stored, links, local, shared, visit>>

TheTest == 0

\* VersionRef
Version == [material : 0..Passages, n : 1..MaxStored]

Existing == {v \in Version : v.n <= stored[v.material]}

\* The passages a version is made of: testPassages, by their place in the test.
Pinned(v) ==
  IF v.material = TheTest THEN [p \in 1..Passages |-> [material |-> p, n |-> links[v.n][p]]] ELSE <<>>

\* gradingMaterialFromReading: its own questions, then those of its passages.
Shown(v, passages) == [own |-> v, passages |-> passages]

\* GetVersion: one version, read by itself.
Structure(v) == Shown(v, Pinned(v))

Nowhere == <<>>
NoVisit ==
  [at |-> "idle", replica |-> CHOOSE r \in Replicas : TRUE, wanted |-> {}, got |-> Nowhere, keep |-> {},
   pending |-> {}, loaded |-> {}, depth |-> 0, fetched |-> {}]

PagesInit ==
  /\ stored = [m \in 0..Passages |-> 1]
  /\ links = <<[p \in 1..Passages |-> 1]>>
  /\ local = [r \in Replicas |-> Nowhere] /\ shared = Nowhere
  /\ visit = [g \in Visits |-> NoVisit]

PagesTypeOK ==
  /\ stored \in [0..Passages -> 1..MaxStored] /\ Len(links) = stored[TheTest]
  /\ \A g \in Visits :
       /\ visit[g].at \in {"idle", "asking", "keeping", "loading", "storing", "answered"}
       /\ visit[g].wanted \cup visit[g].keep \cup visit[g].pending \cup visit[g].loaded
            \cup visit[g].fetched \subseteq Version
       /\ DOMAIN visit[g].got \subseteq visit[g].wanted
       /\ visit[g].depth \in 0..MaxPassageDepth

-------------------------------------------------------------------------------
(* Faulty variants.                                                         *)

ByMaterial(v) == [v EXCEPT !.n = 1]

OnlyWanted(new) == {}

NoneEvicted(cache) == {DOMAIN cache}

-------------------------------------------------------------------------------
(* The caches.                                                              *)

\* gradingCacheKey, sharedGradingKey
Key(v) == v

Hits(cache, wanted) == {v \in wanted : Key(v) \in DOMAIN cache}

\* evict: one entry goes, any.
Spared(cache) == {DOMAIN cache \ {k} : k \in DOMAIN cache}

\* put
Puts(cache, k, s) ==
  LET full == k \notin DOMAIN cache /\ Cardinality(DOMAIN cache) >= CacheSize
  IN  {[q \in {k} \cup kept |-> IF q = k THEN s ELSE cache[q]] :
         kept \in IF full THEN Spared(cache) ELSE {DOMAIN cache}}

Unloaded(g) == visit[g].wanted \ DOMAIN visit[g].got

\* What was found joins what there was.
Joined(found, there) ==
  [v \in DOMAIN found \cup DOMAIN there |-> IF v \in DOMAIN found THEN found[v] ELSE there[v]]

\* get, for each version the page needs.
OpenPage(g, r, wanted) ==
  /\ visit[g].at = "idle"
  /\ LET hits == Hits(local[r], wanted) IN
       visit' = [visit EXCEPT ![g] = [NoVisit EXCEPT
         !.at = IF hits = wanted THEN "answered" ELSE "asking", !.replica = r, !.wanted = wanted,
         !.got = [v \in hits |-> local[r][Key(v)]]]]
  /\ UNCHANGED <<stored, links, local, shared>>

\* What is found is kept; what is not is loaded.
After(g, found) == IF found # {} THEN "keeping" ELSE IF Unloaded(g) # {} THEN "loading" ELSE "answered"

\* GetMany.  Without Redis nothing is found.
GetMany(g, found) ==
  /\ visit[g].at = "asking"
  /\ visit' = [visit EXCEPT ![g].at = After(g, found), ![g].keep = found, ![g].pending = Unloaded(g) \ found,
       ![g].got = Joined([v \in found |-> shared[Key(v)]], @)]
  /\ UNCHANGED <<stored, links, local, shared>>

\* gradingCache.put, one version at a time.
Keep(g, v) ==
  /\ visit[g].at \in {"keeping", "storing"}
  /\ v \in visit[g].keep
  /\ \E cache \in Puts(local[visit[g].replica], Key(v), visit[g].got[v]) :
       local' = [local EXCEPT ![visit[g].replica] = cache]
  /\ visit' = [visit EXCEPT ![g].keep = @ \ {v},
       ![g].at = IF @ = "keeping" THEN After(g, visit[g].keep \ {v}) ELSE @]
  /\ UNCHANGED <<stored, links, shared>>

\* PutMany.
PutMany(g, kept) ==
  /\ visit[g].at = "storing" /\ visit[g].keep = {}
  /\ shared' = Joined([k \in {Key(v) : v \in kept} |-> visit[g].got[CHOOSE v \in kept : Key(v) = k]], shared)
  /\ visit' = [visit EXCEPT ![g].at = "answered", ![g].fetched = {}]
  /\ UNCHANGED <<stored, links, local>>

\* An entry gets old.
ExpireLocal(r, k) ==
  /\ local' = [local EXCEPT ![r] = Restrict(@, DOMAIN @ \ {k})]
  /\ UNCHANGED <<stored, links, shared, visit>>

ExpireShared(k) ==
  /\ shared' = Restrict(shared, DOMAIN shared \ {k})
  /\ UNCHANGED <<stored, links, local, visit>>

-------------------------------------------------------------------------------
(* Loading in bulk.                                                         *)

\* loadLevel: the links of the versions that are new at this level.
NextLevel(new) == UNION {Range(Pinned(v)) : v \in new}

\* loadGradingVersions, level by level; nothing is loaded twice.
LoadLevel(g) ==
  LET w == visit[g]
      new == w.pending \ w.loaded
  IN  /\ w.at = "loading" /\ new # {} /\ w.depth < MaxPassageDepth
      /\ visit' = [visit EXCEPT ![g].loaded = @ \cup new, ![g].depth = @ + 1,
           ![g].pending = NextLevel(new)]
      /\ UNCHANGED <<stored, links, local, shared>>

\* passageMaterials: what was not loaded is left out.
Expanded(v, loaded) == Shown(v, Restrict(Pinned(v), {p \in DOMAIN Pinned(v) : Pinned(v)[p] \in loaded}))

\* GradingStructures
Assemble(g) ==
  LET w == visit[g]
      missing == Unloaded(g)
  IN  /\ w.at = "loading" /\ (w.pending \subseteq w.loaded \/ w.depth = MaxPassageDepth)
      /\ visit' = [visit EXCEPT ![g].at = "storing", ![g].keep = missing, ![g].fetched = missing,
           ![g].loaded = {}, ![g].pending = {}, ![g].depth = 0,
           ![g].got = Joined([v \in missing |-> Expanded(v, w.loaded)], @)]
      /\ UNCHANGED <<stored, links, local, shared>>

\* The page is shown, or a query failed and the whole page with it.
Close(g) ==
  /\ visit[g].at \in {"loading", "answered"}
  /\ visit' = [visit EXCEPT ![g] = NoVisit]
  /\ UNCHANGED <<stored, links, local, shared>>

-------------------------------------------------------------------------------
(* Editors: an update is a new version.                                     *)

UpdatePassage(p) ==
  /\ stored[p] < MaxStored
  /\ stored' = [stored EXCEPT ![p] = @ + 1]
  /\ UNCHANGED <<links, local, shared, visit>>

\* The links are copied, or refreshed to the passages as they are now.
ReviseTest(refresh) ==
  /\ stored[TheTest] < MaxStored
  /\ stored' = [stored EXCEPT ![TheTest] = @ + 1]
  /\ links' = Append(links, IF refresh THEN [p \in 1..Passages |-> stored[p]] ELSE links[Len(links)])
  /\ UNCHANGED <<local, shared, visit>>

PagesNext ==
  \/ \E g \in Visits :
       \/ \E r \in Replicas, wanted \in SUBSET Existing :
            wanted # {} /\ Cardinality(wanted) <= MaxWanted[g] /\ OpenPage(g, r, wanted)
       \/ \E found \in {{}, Hits(shared, Unloaded(g))} : GetMany(g, found)
       \/ \E v \in visit[g].keep : Keep(g, v)
       \/ \E kept \in {{}, visit[g].fetched} : PutMany(g, kept)
       \/ LoadLevel(g) \/ Assemble(g) \/ Close(g)
  \/ \E r \in Replicas : \E k \in DOMAIN local[r] : ExpireLocal(r, k)
  \/ \E k \in DOMAIN shared : ExpireShared(k)
  \/ \E p \in 1..Passages : UpdatePassage(p)
  \/ \E refresh \in BOOLEAN : ReviseTest(refresh)

PagesSpec == PagesInit /\ [][PagesNext]_pagesVars

-------------------------------------------------------------------------------
(* Properties.                                                              *)

\* A page shows of each attempt the questions of the versions it is pinned to, the same
\* as if the version were read by itself, whatever was edited, cached, evicted or loaded
\* together with it; and the cache of a replica stays within its bound.
PagesAreExact ==
  /\ \A g \in Visits : visit[g].at = "answered" => \A v \in visit[g].wanted : visit[g].got[v] = Structure(v)
  /\ \A r \in Replicas : Cardinality(DOMAIN local[r]) <= CacheSize

\* The pages and their caches, with the variables in their ranges.
PagesHold == PagesTypeOK /\ PagesAreExact
===============================================================================
