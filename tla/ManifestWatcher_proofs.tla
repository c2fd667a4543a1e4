------------------------- MODULE ManifestWatcher_proofs -------------------------
(***************************************************************************)
(* Theorems about ManifestWatcher, for every project and every edit of it. *)
(***************************************************************************)
EXTENDS ManifestWatcher, Algorithms_proofs

-----------------------------------------------------------------------------
(* The watcher                                                             *)

\* What resolve_repo stores is the guess for the dependency, or a link of a document.
LEMMA FoundRepository ==
    ASSUME NEW d \in Deps, NEW a \in Answers[d]
    PROVE  resolveRepo(d, EcosystemOf[d], a, a).repo \in Repositories \cup {NoRepo}
<1> DEFINE R == Repositories \cup {NoRepo}
<1>1. IsAnswer(a) /\ EcosystemOf[d] \in Ecosystems
    BY AnswersAssumption DEF IsAnswer
<1>2. fuzzyFallback(d).repo \in R /\ Unresolved.repo \in R
    BY FallbackIsGuess DEF Repositories
<1>3. \A k \in Linked(a) : a.links[k].repo \in R
    <2> SUFFICES ASSUME NEW k \in Linked(a) PROVE a.links[k].repo \in R
        OBVIOUS
    <2>1. a.links[k] \in ToSet(a.links)
        BY DEF Linked, ToSet
    <2> QED
        BY <2>1 DEF Repositories
<1> HIDE DEF R
<1>4. ASSUME NEW ifDown, NEW ifUnlinked, ifDown.repo \in R, ifUnlinked.repo \in R
      PROVE  Lookup(a, ifDown, ifUnlinked).repo \in R
    <2>1. \A k \in Linked(a) : \A result : Takes(a, k, result) => result.repo \in R
        BY <1>3 DEF Takes, Resolved
    <2> QED
        BY <1>1, <1>2, <1>4, <2>1, LookupTakes
<1>5. resolveRepo(d, EcosystemOf[d], a, a).repo \in R
    <2>1. \A x, y \in {fuzzyFallback(d), Unresolved} : Lookup(a, x, y).repo \in R
        BY <1>2, <1>4
    <2> QED
        BY <1>1, <1>2, <2>1 DEF Ecosystems, resolveRepo, resolveNpm, resolvePyPI, resolveRubyGems,
              resolveCargo, resolveComposer, resolveGo, resolveMaven, resolveNuGet
<1> QED
    BY <1>5 DEF R

\* Every file holds what its parser may find.
Parses == \A f \in DOMAIN fs : Parsed(f, fs[f])

\* A root is a record with the shape of scan that its manifest gives.
IsRoot(r) == r = [projectRoot |-> r.projectRoot, manifestPath |-> r.manifestPath, previousScan |-> r.previousScan]
Kept == \A i \in DOMAIN roots : IsRoot(roots[i]) /\ Shaped(roots[i].previousScan)

\* A root that has not strayed has found the manifest it was made for.
SameManifest == \A i \in DOMAIN roots \ strayed : roots[i].previousScan.matched = roots[i].manifestPath

\* What is probed is a repository.
Probes == \A d \in Deps : lookups[d] \in {"idle", "registry"} \cup (Repositories \ {NoRepo})

IInv == TypeOK /\ Parses /\ Kept /\ SameManifest /\ Probes /\ WatchesWhatItKnows

LEMMA SourcesShape ==
    ASSUME NEW F, \A f \in DOMAIN F : Parsed(f, F[f])
    PROVE  Holding(F, Deps) /\ Listing(F)
BY DEF Holding, Listing, Parsed, Projects

LEMMA NextScan ==
    ASSUME Parses, NEW d
    PROVE  scanAtDir(fs, d).deps \subseteq Deps /\ Shaped(scanAtDir(fs, d))
BY SourcesShape, ScanDeps, ScanShape DEF Parses

LEMMA NextRoots ==
    ASSUME NEW rs, NEW i \in DOMAIN rs, IsRoot(rs[i]), NEW next
    PROVE  LET after == [rs EXCEPT ![i].previousScan = next] IN
           /\ DOMAIN after = DOMAIN rs
           /\ after[i] = [projectRoot |-> rs[i].projectRoot, manifestPath |-> rs[i].manifestPath, previousScan |-> next]
           /\ \A j \in DOMAIN rs \ {i} : after[j] = rs[j]
BY DEF IsRoot

\* The members of every other type than Gradle's have their manifests whatever is there.
StaticManifest(m, type) ==
    CASE type \in {"Cargo.toml", "package.json", "pom.xml"} -> {File(m, type)}
      [] type = "go.work" -> {File(m, "go.mod")}
      [] OTHER -> {}
StaticManifests(scan, type) == UNION {StaticManifest(m, type) : m \in scan.members}
StaticKnown(r) ==
    {r.manifestPath} \cup r.previousScan.extras \cup StaticManifests(r.previousScan, r.previousScan.type)

LEMMA MembersAreStatic ==
    ASSUME NEW scan, NEW type, type # "libs.versions.toml"
    PROVE  /\ MemberManifests(scan, type) = StaticManifests(scan, type)
           /\ MemberManifests(scan, type)' = StaticManifests(scan, type)
<1>1. \A m : MemberManifest(m, type) = StaticManifest(m, type)
    BY DEF MemberManifest, StaticManifest
<1>2. \A m : MemberManifest(m, type)' = StaticManifest(m, type)
    BY DEF MemberManifest, StaticManifest
<1> QED
    BY <1>1, <1>2 DEF MemberManifests, StaticManifests

LEMMA KnownIsStatic ==
    ASSUME NEW r, r.previousScan.type # "libs.versions.toml"
    PROVE  Known(r) = StaticKnown(r) /\ Known(r)' = StaticKnown(r)
BY MembersAreStatic DEF Known, StaticKnown

LEMMA InitInv == Init => IInv
<1> SUFFICES ASSUME Init PROVE IInv
    OBVIOUS
<1> DEFINE scans == ProjectScans(fs, Cwd)
<1>1. Parses /\ IsFiniteSet(DOMAIN fs) /\ \A f \in DOMAIN fs : f.dir \in Seq(Nat)
    <2>1. Parses /\ IsFiniteSet(DOMAIN fs)
        BY LayoutsAssumption DEF Init, Parses
    <2>2. \A f \in DOMAIN fs : f \in [dir : Seq(Nat), name : STRING]
        BY <2>1 DEF Parses, Parsed
    <2> QED
        BY <2>1, <2>2
<1>2. AllUsable(scans, Deps)
    <2>1. Holding(fs, Deps) /\ Listing(fs)
        BY <1>1, SourcesShape DEF Parses
    <2>2. Cardinality(Directories(fs, Cwd)) \in Nat
        BY <1>1, DirectoriesAreFinite
    <2> QED
        BY <2>1, <2>2, ProjectScansAreUsable
<1>3. roots = [i \in DOMAIN scans |-> RootOf(scans[i])] /\ strayed = {} /\ shared = {}
    BY DEF Init
<1> HIDE DEF scans
<1>4. \A i \in DOMAIN roots :
         /\ IsRoot(roots[i]) /\ Usable(roots[i].previousScan, Deps)
         /\ roots[i].previousScan.matched = roots[i].manifestPath
    BY <1>2, <1>3 DEF AllUsable, RootOf, IsRoot
<1>5. TypeOK
    BY <1>4, EditsAssumption DEF Init, TypeOK, Usable
<1>6. Kept /\ SameManifest /\ Probes
    BY <1>4 DEF Init, Kept, SameManifest, Probes, Usable
<1>7. WatchesWhatItKnows
    <2> SUFFICES ASSUME ~degraded, NEW i \in DOMAIN roots PROVE Known(roots[i]) \subseteq watched
        BY DEF WatchesWhatItKnows
    <2>1. watched = AllKnown(roots)
        BY DEF Init
    <2> QED
        BY <2>1 DEF AllKnown
<1> QED
    BY <1>1, <1>5, <1>6, <1>7 DEF IInv

-----------------------------------------------------------------------------
(* The steps of the project and of the tools                               *)

\* A step that leaves the roots and what is watched alone.
LEMMA WatchStays ==
    ASSUME WatchesWhatItKnows, UNCHANGED <<roots, watched, degraded, strayed, shared>>
    PROVE  WatchesWhatItKnows'
<1> SUFFICES ASSUME ~degraded', NEW i \in DOMAIN roots' \ strayed',
                    roots'[i].previousScan.type # "libs.versions.toml"
             PROVE  Known(roots[i])' \subseteq watched' \cup shared'
    BY DEF WatchesWhatItKnows
<1>1. Known(roots[i]) \subseteq watched \cup shared
    BY DEF WatchesWhatItKnows
<1>2. PICK r : r = roots[i]
    OBVIOUS
<1>3. Known(roots[i])' = Known(r)'
    BY <1>2
<1>4. Known(r) = StaticKnown(r) /\ Known(r)' = StaticKnown(r)
    BY <1>2, KnownIsStatic
<1> QED
    BY <1>1, <1>2, <1>3, <1>4

LEMMA FilesInv ==
    ASSUME IInv, NEW f \in DOMAIN Versions, Edit(f) \/ Delete(f)
    PROVE  IInv'
<1>1. /\ UNCHANGED <<roots, watched, degraded, strayed, shared, skipped, repos, wikis, lookups>>
      /\ edits < MaxEdits /\ edits' = edits + 1 /\ events' = events \cup ({f} \cap watched)
    BY DEF Edit, Delete, Changes
<1>2. TypeOK'
    BY <1>1, EditsAssumption DEF IInv, TypeOK
<1>3. Parses'
    <2>1. CASE Edit(f)
        <3>1. PICK v \in Versions[f] : fs' = [g \in DOMAIN fs \cup {f} |-> IF g = f THEN v ELSE fs[g]]
            BY <2>1 DEF Edit
        <3>2. Parsed(f, v)
            BY VersionsAssumption
        <3> QED
            BY <3>1, <3>2 DEF IInv, Parses
    <2>2. CASE Delete(f)
        BY <2>2 DEF Delete, IInv, Parses
    <2> QED
        BY <2>1, <2>2
<1>4. (Kept /\ SameManifest /\ Probes)'
    BY <1>1 DEF IInv, Kept, SameManifest, Probes
<1>5. WatchesWhatItKnows'
    BY <1>1, WatchStays DEF IInv
<1> QED
    BY <1>2, <1>3, <1>4, <1>5 DEF IInv

LEMMA UnappliedInv ==
    ASSUME IInv, NEW f \in DOMAIN Versions, Unclaimed(f) \/ Keeps(f)
    PROVE  IInv'
<1>1. /\ UNCHANGED <<fs, roots, watched, degraded, strayed, shared, repos, wikis, lookups, edits>>
      /\ events' = events \ {f}
    BY DEF Unclaimed, Keeps
<1>2. TypeOK'
    BY <1>1 DEF IInv, TypeOK
<1>3. (Parses /\ Kept /\ SameManifest /\ Probes)'
    BY <1>1 DEF IInv, Parses, Kept, SameManifest, Probes
<1>4. WatchesWhatItKnows'
    BY <1>1, WatchStays DEF IInv
<1> QED
    BY <1>2, <1>3, <1>4 DEF IInv

LEMMA ToolsInv ==
    ASSUME IInv, NEW d \in Deps, Ask(d) \/ RegistryAnswers(d) \/ ProbeEnds(d)
    PROVE  IInv'
<1>1. UNCHANGED <<fs, roots, watched, degraded, strayed, shared, skipped, events, edits>>
    BY DEF Ask, RegistryAnswers, ProbeEnds
<1> DEFINE Learned ==
        /\ repos \in [Deps -> Repositories \cup {NoRepo}]
        /\ wikis \subseteq Repositories \ {NoRepo}
        /\ lookups \in [Deps -> {"idle", "registry"} \cup Repositories]
<1>2. Learned /\ Probes
    BY DEF IInv, TypeOK
<1>3. Learned' /\ Probes'
    <2>1. CASE Ask(d)
        BY <1>2, <2>1 DEF Ask, Probes
    <2>2. CASE RegistryAnswers(d)
        <3>1. PICK a \in Answers[d] :
                LET found == resolveRepo(d, EcosystemOf[d], a, a).repo IN
                /\ repos' = IF found = NoRepo THEN repos ELSE [repos EXCEPT ![d] = found]
                /\ \E next \in {"idle"} \cup ({found} \ (wikis \cup {NoRepo})) : lookups' = [lookups EXCEPT ![d] = next]
                /\ UNCHANGED wikis
            BY <2>2 DEF RegistryAnswers
        <3> DEFINE found == resolveRepo(d, EcosystemOf[d], a, a).repo
        <3>2. found \in Repositories \cup {NoRepo}
            BY FoundRepository
        <3>3. /\ repos' = IF found = NoRepo THEN repos ELSE [repos EXCEPT ![d] = found]
              /\ \E next \in {"idle"} \cup ({found} \ {NoRepo}) : lookups' = [lookups EXCEPT ![d] = next]
              /\ wikis' = wikis
            BY <3>1
        <3> HIDE DEF found
        <3> QED
            BY <1>2, <3>2, <3>3 DEF Probes
    <2>3. CASE ProbeEnds(d)
        <3>1. lookups[d] \in Repositories \ {NoRepo}
            BY <1>2, <2>3 DEF ProbeEnds, Probes
        <3> QED
            BY <1>2, <2>3, <3>1 DEF ProbeEnds, Probes
    <2> QED
        BY <2>1, <2>2, <2>3
<1>4. TypeOK'
    BY <1>1, <1>3 DEF IInv, TypeOK
<1>5. (Parses /\ Kept /\ SameManifest)'
    BY <1>1 DEF IInv, Parses, Kept, SameManifest
<1>6. WatchesWhatItKnows'
    BY <1>1, WatchStays DEF IInv
<1> QED
    BY <1>3, <1>4, <1>5, <1>6 DEF IInv

-----------------------------------------------------------------------------
(* A scan that is applied                                                  *)

\* What Applies(f) does for its root i, in terms of the scan that was found.
AppliedTo(i, next) ==
    /\ i \in DOMAIN roots /\ Found(next) /\ next.deps \subseteq Deps /\ Shaped(next)
    /\ repos' = [d \in Deps |-> IF d \in RemovedDeps(roots[i].previousScan, next) THEN NoRepo ELSE repos[d]]
    /\ wikis' = wikis \ Orphans(RemovedDeps(roots[i].previousScan, next), next)
    /\ watched' = Reconciled(roots[i].previousScan, next)
    /\ roots' = [roots EXCEPT ![i].previousScan = next]
    /\ strayed' = IF next.matched # roots[i].manifestPath \/ next.matched \in GivenUp(roots[i].previousScan, next)
                  THEN strayed \cup {i} ELSE strayed
    /\ shared' = (shared \cup {g \in GivenUp(roots[i].previousScan, next) : \E j \in DOMAIN roots \ {i} : g \in Known(roots[j])})
                    \ watched'
    /\ UNCHANGED <<fs, degraded, lookups, edits>>

LEMMA AppliesTo ==
    ASSUME IInv, NEW f, Applies(f)
    PROVE  \E i \in Owners(f) :
              /\ AppliedTo(i, scanAtDir(fs, roots[i].projectRoot))
              /\ events' = events \ {f} /\ skipped' = skipped \ {i}
<1>1. PICK i \in Owners(f) :
        LET prev == roots[i].previousScan
            next == scanAtDir(fs, roots[i].projectRoot)
        IN  /\ events' = events \ {f} /\ skipped' = skipped \ {i}
            /\ ~Skipped(next)
            /\ repos' = [d \in Deps |-> IF d \in RemovedDeps(prev, next) THEN NoRepo ELSE repos[d]]
            /\ wikis' = wikis \ Orphans(RemovedDeps(prev, next), next)
            /\ watched' = Reconciled(prev, next)
            /\ roots' = [roots EXCEPT ![i].previousScan = next]
            /\ strayed' = IF next.matched # roots[i].manifestPath \/ next.matched \in GivenUp(prev, next)
                          THEN strayed \cup {i} ELSE strayed
            /\ shared' = (shared \cup {g \in GivenUp(prev, next) : \E j \in DOMAIN roots \ {i} : g \in Known(roots[j])})
                            \ watched'
            /\ UNCHANGED <<fs, degraded, lookups, edits>>
    BY Zenon DEF Applies
<1> DEFINE next == scanAtDir(fs, roots[i].projectRoot)
<1>2. next.deps \subseteq Deps /\ Shaped(next) /\ i \in DOMAIN roots
    BY NextScan DEF IInv, Owners
<1>3. Found(next)
    BY <1>1 DEF Skipped
<1> HIDE DEF next
<1>4. AppliedTo(i, next)
    BY <1>1, <1>2, <1>3 DEF AppliedTo, next
<1> QED
    BY <1>1, <1>4 DEF next

\* Two scans that found the same manifest are of one type, or both of a .NET project.
LEMMA SameType ==
    ASSUME NEW prev, NEW next, Found(prev), Found(next), Shaped(prev), Shaped(next), prev.matched = next.matched
    PROVE  prev.type = next.type \/ (prev.members = {} /\ next.members = {} /\ next.type # "libs.versions.toml"
                                        /\ prev.type # "libs.versions.toml")
BY DEF Found, Shaped, Projects, Plain

\* Member manifests and extra files are never confused, but in a Gradle project.
LEMMA Disjoint ==
    ASSUME NEW one, NEW other, NEW type, Found(one), Shaped(one), Shaped(other), other.type = one.type,
           one.type # "libs.versions.toml", NEW f \in StaticManifests(one, one.type)
    PROVE  f \notin other.extras
<1>1. one.type \in {"Cargo.toml", "package.json", "pom.xml", "go.work"} /\ one.type \notin {"sln", "csproj"}
    BY DEF StaticManifests, StaticManifest
<1>2. f.name = IF one.type = "go.work" THEN "go.mod" ELSE one.type
    BY <1>1 DEF StaticManifests, StaticManifest, File
<1>3. CASE other.extras = {}
    BY <1>3
<1>4. CASE one.type = "package.json"
    BY <1>2, <1>4 DEF Shaped, Plain
<1>5. one.type # "package.json" => other.extras = {}
    BY <1>1 DEF Shaped
<1> QED
    BY <1>3, <1>4, <1>5

\* The root that was scanned again watches what the scan names.
LEMMA ScannedWatches ==
    ASSUME IInv, NEW i, NEW next, AppliedTo(i, next), ~degraded, i \notin strayed', next.type # "libs.versions.toml"
    PROVE  StaticKnown(roots'[i]) \subseteq watched' \cup shared'
<1> DEFINE prev == roots[i].previousScan
           Gone == GivenUp(prev, next)
           M(scan) == StaticManifests(scan, prev.type)
<1>1. /\ i \in DOMAIN roots /\ i \notin strayed
      /\ next.matched = roots[i].manifestPath /\ roots[i].manifestPath \notin Gone
    BY DEF AppliedTo
<1>2. /\ Found(prev) /\ Shaped(prev) /\ prev.matched = roots[i].manifestPath /\ IsRoot(roots[i])
      /\ Found(next) /\ Shaped(next)
    BY <1>1 DEF IInv, TypeOK, Kept, SameManifest, AppliedTo
<1>3. prev.type = next.type \/ (prev.members = {} /\ next.members = {} /\ prev.type # "libs.versions.toml")
    BY <1>1, <1>2, SameType
<1>4. prev.type # "libs.versions.toml"
    BY <1>3
<1>5. StaticKnown(roots[i]) = {roots[i].manifestPath} \cup prev.extras \cup M(prev)
    BY DEF StaticKnown
<1>6. StaticKnown(roots[i]) \subseteq watched \cup shared
    <2>1. Known(roots[i]) \subseteq watched \cup shared
        BY <1>1, <1>4 DEF IInv, WatchesWhatItKnows
    <2> QED
        BY <1>4, <2>1, KnownIsStatic
<1>7. roots'[i] = [projectRoot |-> roots[i].projectRoot, manifestPath |-> roots[i].manifestPath, previousScan |-> next]
    BY <1>1, <1>2, NextRoots DEF AppliedTo
<1>8. StaticKnown(roots'[i]) = {roots[i].manifestPath} \cup next.extras \cup M(next)
    <2>1. StaticManifests(next, next.type) = M(next)
        BY <1>3 DEF StaticManifests
    <2> HIDE DEF prev, M
    <2> QED
        BY <1>7, <2>1 DEF StaticKnown
<1>9. Gone = (M(prev) \ M(next)) \cup (prev.extras \ next.extras)
    BY <1>4, MembersAreStatic DEF GivenUp
<1>10. watched' = (watched \cup (M(next) \ M(prev)) \cup (next.extras \ prev.extras)) \ Gone
    BY <1>4, MembersAreStatic DEF AppliedTo, Reconciled
<1>11. shared \subseteq shared' \cup watched'
    BY DEF AppliedTo
<1>12. M(prev) \cap next.extras = {} /\ M(next) \cap prev.extras = {}
    <2>1. CASE prev.type = next.type
        BY <1>2, <1>4, <2>1, Disjoint
    <2>2. CASE prev.members = {} /\ next.members = {}
        BY <2>2 DEF StaticManifests
    <2> QED
        BY <1>3, <2>1, <2>2
<1> HIDE DEF prev, Gone, M
<1>13. \A f \in StaticKnown(roots'[i]) : f \notin Gone
    BY <1>1, <1>8, <1>9, <1>12
<1>14. \A f \in StaticKnown(roots'[i]) :
          f \in StaticKnown(roots[i]) \/ f \in M(next) \ M(prev) \/ f \in next.extras \ prev.extras
    BY <1>5, <1>8
<1> QED
    BY <1>6, <1>10, <1>11, <1>13, <1>14

LEMMA AppliedWatches ==
    ASSUME IInv, NEW i, NEW next, AppliedTo(i, next)
    PROVE  WatchesWhatItKnows'
<1> SUFFICES ASSUME ~degraded', NEW j \in DOMAIN roots' \ strayed',
                    roots'[j].previousScan.type # "libs.versions.toml"
             PROVE  Known(roots[j])' \subseteq watched' \cup shared'
    BY DEF WatchesWhatItKnows
<1> DEFINE prev == roots[i].previousScan
<1>1. /\ i \in DOMAIN roots /\ IsRoot(roots[i]) /\ ~degraded
      /\ roots' = [roots EXCEPT ![i].previousScan = next]
    BY DEF AppliedTo, IInv, Kept
<1>2. /\ DOMAIN roots' = DOMAIN roots
      /\ roots'[i] = [projectRoot |-> roots[i].projectRoot, manifestPath |-> roots[i].manifestPath, previousScan |-> next]
      /\ \A k \in DOMAIN roots \ {i} : roots'[k] = roots[k]
    BY <1>1, NextRoots
<1>3. PICK r : r = roots'[j]
    OBVIOUS
<1>4. Known(roots[j])' = StaticKnown(r)
    <2>1. Known(roots[j])' = Known(r)'
        BY <1>3
    <2> QED
        BY <1>3, <2>1, KnownIsStatic
<1>5. CASE j = i
    BY <1>1, <1>2, <1>3, <1>4, <1>5, ScannedWatches
<1>6. CASE j # i
    <2>1. j \in DOMAIN roots \ strayed /\ r = roots[j]
        BY <1>2, <1>3, <1>6 DEF AppliedTo
    <2>2. Known(roots[j]) = StaticKnown(r) /\ Known(roots[j]) \subseteq watched \cup shared
        BY <1>1, <1>3, <2>1, KnownIsStatic DEF IInv, WatchesWhatItKnows
    <2>3. watched \subseteq watched' \cup GivenUp(prev, next)
        BY DEF AppliedTo, Reconciled
    <2>4. shared \cup (GivenUp(prev, next) \cap Known(roots[j])) \subseteq shared' \cup watched'
        BY <1>6, <2>1 DEF AppliedTo
    <2> HIDE DEF prev
    <2> QED
        BY <1>4, <2>2, <2>3, <2>4
<1> QED
    BY <1>5, <1>6

LEMMA AppliesInv ==
    ASSUME IInv, NEW f \in DOMAIN Versions, Applies(f)
    PROVE  IInv'
<1>1. PICK i, next : AppliedTo(i, next) /\ events' = events \ {f}
    BY AppliesTo
<1>2. /\ DOMAIN roots' = DOMAIN roots /\ i \in DOMAIN roots
      /\ roots'[i] = [projectRoot |-> roots[i].projectRoot, manifestPath |-> roots[i].manifestPath, previousScan |-> next]
      /\ \A k \in DOMAIN roots \ {i} : roots'[k] = roots[k]
    BY <1>1, NextRoots DEF AppliedTo, IInv, Kept
<1>3. TypeOK'
    <2>1. \A k \in DOMAIN roots' : Found(roots'[k].previousScan) /\ roots'[k].previousScan.deps \subseteq Deps
        BY <1>1, <1>2 DEF AppliedTo, IInv, TypeOK
    <2>2. /\ events' \subseteq DOMAIN Versions /\ repos' \in [Deps -> Repositories \cup {NoRepo}]
          /\ wikis' \subseteq Repositories \ {NoRepo} /\ UNCHANGED <<lookups, edits>>
        BY <1>1 DEF AppliedTo, IInv, TypeOK
    <2> QED
        BY <2>1, <2>2 DEF IInv, TypeOK
<1>4. Kept'
    <2>1. \A k \in DOMAIN roots' : IsRoot(roots'[k]) /\ Shaped(roots'[k].previousScan)
        BY <1>1, <1>2 DEF AppliedTo, IInv, Kept, IsRoot
    <2> QED
        BY <2>1 DEF Kept
<1>5. SameManifest'
    <2>1. \A k \in DOMAIN roots' \ strayed' : roots'[k].previousScan.matched = roots'[k].manifestPath
        BY <1>1, <1>2 DEF AppliedTo, IInv, SameManifest
    <2> QED
        BY <2>1 DEF SameManifest
<1>6. (Parses /\ Probes)'
    BY <1>1 DEF AppliedTo, IInv, Parses, Probes
<1>7. WatchesWhatItKnows'
    BY <1>1, AppliedWatches
<1> QED
    BY <1>3, <1>4, <1>5, <1>6, <1>7 DEF IInv

-----------------------------------------------------------------------------
(* The theorems                                                            *)

LEMMA NextInv == IInv /\ [Next]_vars => IInv'
<1> SUFFICES ASSUME IInv, [Next]_vars PROVE IInv'
    OBVIOUS
<1>1. ASSUME NEW f \in DOMAIN Versions, Edit(f) \/ Delete(f) PROVE IInv'
    BY <1>1, FilesInv
<1>2. ASSUME NEW f \in DOMAIN Versions, Unclaimed(f) \/ Keeps(f) PROVE IInv'
    BY <1>2, UnappliedInv
<1>3. ASSUME NEW f \in DOMAIN Versions, Applies(f) PROVE IInv'
    BY <1>3, AppliesInv
<1>4. ASSUME NEW d \in Deps, Ask(d) \/ RegistryAnswers(d) \/ ProbeEnds(d) PROVE IInv'
    BY <1>4, ToolsInv
<1>5. CASE UNCHANGED vars
    <2>1. TypeOK'
        BY <1>5 DEF vars, IInv, TypeOK
    <2>2. (Parses /\ Kept /\ SameManifest /\ Probes)'
        BY <1>5 DEF vars, IInv, Parses, Kept, SameManifest, Probes
    <2>3. WatchesWhatItKnows'
        BY <1>5, WatchStays DEF vars, IInv
    <2> QED
        BY <2>1, <2>2, <2>3 DEF IInv
<1> QED
    BY <1>1, <1>2, <1>3, <1>4, <1>5 DEF Next

\* Every root holds a scan that found a manifest and dependencies that there are; what is
\* stored and probed for them are guesses or links of what a registry may answer.
THEOREM WatcherTypeOK == Spec => []TypeOK
<1>1. IInv => TypeOK
    BY DEF IInv
<1> QED
    BY <1>1, InitInv, NextInv, PTL DEF Spec

\* Unless there were too many files at the start, a root that kept its manifest watches
\* every file its last scan named, but those that another root gave up: reconcileWatchSet()
\* never gives up a file that it has just been told of, whatever is edited and in whatever
\* order the events are handled.
THEOREM WatcherWatchesWhatItKnows == Spec => []WatchesWhatItKnows
<1>1. IInv => WatchesWhatItKnows
    BY DEF IInv
<1> QED
    BY <1>1, InitInv, NextInv, PTL DEF Spec

LEMMA AppliedForgets ==
    ASSUME IInv, NEW i, NEW next, AppliedTo(i, next), NEW d \in ViewOf(roots), d \notin ViewOf(roots')
    PROVE  /\ repos'[d] = NoRepo
           /\ repos[d] \in wikis' => \E e \in ViewOf(roots') : repos'[e] = repos[d]
<1> DEFINE removed == RemovedDeps(roots[i].previousScan, next)
<1>1. /\ DOMAIN roots' = DOMAIN roots /\ i \in DOMAIN roots
      /\ roots'[i] = [projectRoot |-> roots[i].projectRoot, manifestPath |-> roots[i].manifestPath, previousScan |-> next]
      /\ \A k \in DOMAIN roots \ {i} : roots'[k] = roots[k]
    BY NextRoots DEF AppliedTo, IInv, Kept
<1>2. next.deps \subseteq ViewOf(roots')
    <2>1. roots'[i].previousScan.deps = next.deps
        BY <1>1
    <2> QED
        BY <1>1, <2>1 DEF ViewOf
<1>3. d \in removed
    <2>1. PICK k \in DOMAIN roots : d \in roots[k].previousScan.deps
        BY DEF ViewOf
    <2>2. k = i
        BY <1>1, <2>1 DEF ViewOf
    <2> QED
        BY <1>2, <2>1, <2>2 DEF RemovedDeps
<1>4. next.deps \subseteq Deps /\ removed \subseteq Deps /\ removed \cap next.deps = {}
    BY <1>1 DEF AppliedTo, IInv, TypeOK, RemovedDeps
<1>5. /\ repos' = [e \in Deps |-> IF e \in removed THEN NoRepo ELSE repos[e]]
      /\ wikis' = wikis \ Orphans(removed, next)
    BY DEF AppliedTo
<1> HIDE DEF removed
<1>6. repos'[d] = NoRepo
    BY <1>3, <1>4, <1>5
<1>7. ASSUME repos[d] \in wikis' PROVE \E e \in ViewOf(roots') : repos'[e] = repos[d]
    <2>1. repos[d] \in wikis /\ repos[d] # NoRepo
        BY <1>5, <1>7 DEF IInv, TypeOK
    <2>2. PICK e \in next.deps : repos[e] = repos[d]
        BY <1>3, <1>5, <1>7, <2>1 DEF Orphans
    <2>3. repos'[e] = repos[e]
        BY <1>4, <1>5
    <2> QED
        BY <1>2, <2>2, <2>3
<1> QED
    BY <1>6, <1>7

\* A wiki that goes is one of the dependencies that go, and of none that stays.
LEMMA AppliedSpares ==
    ASSUME IInv, NEW i, NEW next, AppliedTo(i, next), NEW w \in wikis \ wikis'
    PROVE  /\ i \in DOMAIN roots
           /\ \E d \in DepsOf(roots[i]) \ DepsOf(roots'[i]) : repos[d] = w
           /\ \A e \in DepsOf(roots'[i]) : repos'[e] # w
<1> DEFINE removed == RemovedDeps(roots[i].previousScan, next)
<1>1. /\ i \in DOMAIN roots
      /\ roots'[i] = [projectRoot |-> roots[i].projectRoot, manifestPath |-> roots[i].manifestPath, previousScan |-> next]
    BY NextRoots DEF AppliedTo, IInv, Kept
<1>2. DepsOf(roots'[i]) = next.deps
    BY <1>1 DEF DepsOf
<1>3. /\ next.deps \subseteq Deps /\ removed \cap next.deps = {}
      /\ removed = DepsOf(roots[i]) \ next.deps
    BY <1>1 DEF AppliedTo, IInv, TypeOK, RemovedDeps, DepsOf
<1>4. /\ repos' = [e \in Deps |-> IF e \in removed THEN NoRepo ELSE repos[e]]
      /\ wikis' = wikis \ Orphans(removed, next)
    BY DEF AppliedTo
<1> HIDE DEF removed
<1>5. w \in Orphans(removed, next)
    BY <1>4
<1>6. (\E d \in removed : repos[d] = w) /\ \A e \in next.deps : repos[e] # w
    BY <1>5 DEF Orphans
<1>7. \A e \in next.deps : repos'[e] = repos[e]
    BY <1>3, <1>4
<1> QED
    BY <1>1, <1>2, <1>3, <1>6, <1>7

\* A dependency that leaves the project is forgotten, and its wiki too, unless another
\* dependency of the root leads to the same repository: invalidateForRemovals() leaves no
\* row behind, and takes none that the root still needs, even when a tool call asks for the
\* same repositories meanwhile.
THEOREM WatcherForgetsRemoved == Spec => ForgetsRemoved
<1> DEFINE Forgotten ==
        \A d \in ViewOf(roots) \ ViewOf(roots') :
            /\ repos'[d] = NoRepo
            /\ repos[d] \in wikis' => \E e \in ViewOf(roots') : repos'[e] = repos[d]
           Spares ==
        \A w \in wikis \ wikis' : \E i \in DOMAIN roots :
            /\ \E d \in DepsOf(roots[i]) \ DepsOf(roots'[i]) : repos[d] = w
            /\ \A e \in DepsOf(roots'[i]) : repos'[e] # w
           Forgets == Forgotten /\ Spares
<1>1. IInv /\ [Next]_vars => Forgets
    <2> SUFFICES ASSUME IInv, [Next]_vars PROVE Forgets
        OBVIOUS
    <2>1. CASE roots' = roots /\ wikis \subseteq wikis'
        <3>1. ViewOf(roots') = ViewOf(roots)
            BY <2>1
        <3> QED
            BY <2>1, <3>1
    <2>2. ASSUME NEW f, Applies(f) PROVE Forgets
        <3>1. PICK i, next : AppliedTo(i, next)
            BY <2>2, AppliesTo
        <3>2. Forgotten
            BY <3>1, AppliedForgets
        <3>3. Spares
            BY <3>1, AppliedSpares
        <3> QED
            BY <3>2, <3>3
    <2>3. (roots' = roots /\ wikis \subseteq wikis') \/ \E f : Applies(f)
        BY DEF Next, vars, Edit, Delete, Changes, Unclaimed, Keeps, Ask, RegistryAnswers, ProbeEnds
    <2> QED
        BY <2>1, <2>2, <2>3
<1>2. IInv /\ [Next]_vars => [Forgets]_vars
    BY <1>1
<1> QED
    BY <1>2, InitInv, NextInv, PTL DEF Spec, ForgetsRemoved

-----------------------------------------------------------------------------
(* What a root shows                                                       *)

\* The paths of a root, in the file system F.
MemberManifestIn(F, m, type) ==
    CASE type \in {"Cargo.toml", "package.json", "pom.xml"} -> {File(m, type)}
      [] type = "go.work" -> {File(m, "go.mod")}
      [] type = "libs.versions.toml" -> {f \in DOMAIN F : f = File(m, "build.gradle")}
      [] OTHER -> {}
MemberManifestsIn(F, scan, type) == UNION {MemberManifestIn(F, m, type) : m \in scan.members}
KnownIn(F, r) ==
    {r.manifestPath} \cup r.previousScan.extras \cup MemberManifestsIn(F, r.previousScan, r.previousScan.type)

LEMMA KnownNow ==
    /\ \A scan, type : MemberManifests(scan, type) = MemberManifestsIn(fs, scan, type)
    /\ \A r : Known(r) = KnownIn(fs, r)
<1>1. \A m, type : MemberManifest(m, type) = MemberManifestIn(fs, m, type)
    BY DEF MemberManifest, MemberManifestIn
<1>2. \A scan, type : MemberManifests(scan, type) = MemberManifestsIn(fs, scan, type)
    BY <1>1 DEF MemberManifests, MemberManifestsIn
<1> QED
    BY <1>2 DEF Known, KnownIn

MemberNames == {"Cargo.toml", "package.json", "pom.xml", "go.mod", "build.gradle"}
RootAt(r) ==
    /\ r.projectRoot \in Paths /\ Placed(r.previousScan, r.projectRoot)
    /\ r.manifestPath.dir = r.projectRoot \/ r.manifestPath.name \in Projects

LEMMA MembersPlaced ==
    ASSUME NEW F, NEW scan, NEW d, Placed(scan, d), NEW type, NEW f \in MemberManifestsIn(F, scan, type)
    PROVE  f.name \in MemberNames /\ f.dir \in Paths /\ IsPrefix(d, f.dir)
<1>1. PICK m \in scan.members : f \in MemberManifestIn(F, m, type)
    BY DEF MemberManifestsIn
<1>2. m \in Paths /\ IsPrefix(d, m)
    BY DEF Placed
<1>3. f.name \in MemberNames /\ f.dir = m
    BY <1>1 DEF MemberManifestIn, MemberNames, File
<1> QED
    BY <1>2, <1>3

LEMMA KnownPlaced ==
    ASSUME NEW F, NEW r, RootAt(r), NEW f \in KnownIn(F, r)
    PROVE  f.name \in Projects \cup {Props} \/ (f.dir \in Paths /\ IsPrefix(r.projectRoot, f.dir))
<1>1. CASE f = r.manifestPath
    BY <1>1, PrefixOrder DEF RootAt
<1>2. CASE f \in r.previousScan.extras
    BY <1>2 DEF RootAt, Placed, Props
<1>3. CASE f \in MemberManifestsIn(F, r.previousScan, r.previousScan.type)
    BY <1>3, MembersPlaced DEF RootAt
<1> QED
    BY <1>1, <1>2, <1>3 DEF KnownIn

\* A member of one root is no file of another that is neither above nor below it.
LEMMA MembersApart ==
    ASSUME NEW F, NEW r, RootAt(r), NEW d \in Paths, ~IsPrefix(d, r.projectRoot), ~IsPrefix(r.projectRoot, d),
           NEW scan, Placed(scan, d), NEW type, NEW f \in MemberManifestsIn(F, scan, type)
    PROVE  f \notin KnownIn(F, r)
<1>1. f.name \in MemberNames /\ f.dir \in Paths /\ IsPrefix(d, f.dir)
    BY MembersPlaced
<1>2. f.name \notin Projects \cup {Props}
    BY <1>1 DEF MemberNames, Projects, Props
<1>3. r.projectRoot \in Paths
    BY DEF RootAt
<1>4. ~IsPrefix(r.projectRoot, f.dir)
    BY <1>1, <1>3, PrefixOrder
<1> QED
    BY <1>2, <1>4, KnownPlaced

\* A change of one file makes no other one known or unknown.
LEMMA KnownElsewhere ==
    ASSUME NEW F, NEW G, NEW f, DOMAIN F \ {f} = DOMAIN G \ {f}, NEW r, NEW g, g # f
    PROVE  g \in KnownIn(F, r) <=> g \in KnownIn(G, r)
<1>1. \A m, type : g \in MemberManifestIn(F, m, type) <=> g \in MemberManifestIn(G, m, type)
    BY DEF MemberManifestIn
<1>2. \A scan, type : g \in MemberManifestsIn(F, scan, type) <=> g \in MemberManifestsIn(G, scan, type)
    BY <1>1 DEF MemberManifestsIn
<1> QED
    BY <1>2 DEF KnownIn

\* Root i shows what there was at some time, and of what it alone knows and watches, every
\* later change has its event.
SeenThen(old, F, rs, W, E, i) ==
    /\ WellFormed(old) /\ Whole(old) /\ SameRepositories(old, F)
    /\ rs[i].previousScan = scanAtDir(old, rs[i].projectRoot)
    /\ \A g \in (KnownIn(F, rs[i]) \cap W) \ E :
          (\A j \in DOMAIN rs \ {i} : g \notin KnownIn(F, rs[j])) => Agree(old, F, {g})
Seen(F, rs, W, E, i) == \E old : SeenThen(old, F, rs, W, E, i)

OnDisk == WellFormed(fs) /\ Whole(fs)
Rooted ==
    /\ \E n \in Nat : DOMAIN roots = 1..n
    /\ \A i \in DOMAIN roots : RootAt(roots[i])
    /\ \A i, j \in DOMAIN roots : i # j => ~IsPrefix(roots[i].projectRoot, roots[j].projectRoot)
Current == \A i \in DOMAIN roots \ skipped : Seen(fs, roots, watched, events, i)
CInv == OnDisk /\ Rooted /\ Current

LEMMA FewAreWhole ==
    ASSUME NEW F, \A f \in DOMAIN F : Parsed(f, F[f]) /\ Few(f, F[f]), IsFiniteSet(DOMAIN F), MaxMembers \in Nat
    PROVE  WellFormed(F) /\ Whole(F)
<1>1. WellFormed(F)
    <2>1. \A f \in DOMAIN F : IsFile(f)
        BY DEF Parsed, IsFile, File, Paths
    <2>2. ASSUME NEW f \in DOMAIN F
          PROVE  /\ DOMAIN F[f].members \subseteq Nat
                 /\ \A k \in DOMAIN F[f].members : F[f].members[k] \in
                        IF f.name = "x.sln" THEN [dir : Paths, name : {"a.csproj", "b.csproj"}] ELSE Paths
        <3>1. Parsed(f, F[f])
            OBVIOUS
        <3> QED
            BY <3>1, Zenon DEF Parsed, Paths
    <2> QED
        BY <2>1, <2>2 DEF WellFormed
<1>2. Whole(F)
    BY FewAreUncapped DEF Whole, Few, Parsed
<1> QED
    BY <1>1, <1>2

LEMMA InitCurrent == Uncut /\ Init => CInv
<1> SUFFICES ASSUME Uncut, Init PROVE CInv
    OBVIOUS
<1> DEFINE scans == ProjectScans(fs, Cwd)
<1>1. OnDisk
    BY FewAreWhole, LayoutsAssumption DEF Init, Uncut, OnDisk
<1>2. OwnScans(fs, scans) /\ Apart(scans)
    BY <1>1, CwdAssumption, ProjectsApart DEF OnDisk, Paths
<1>3. roots = [i \in DOMAIN scans |-> RootOf(scans[i])]
    BY DEF Init
<1>4. \E n \in Nat : DOMAIN scans = 1..n
    BY <1>1, CwdAssumption, ProjectsListed DEF OnDisk, Paths
<1> HIDE DEF scans
<1>5. ASSUME NEW i \in DOMAIN roots
      PROVE  /\ roots[i].projectRoot = scans[i].root /\ roots[i].previousScan = scans[i]
             /\ roots[i].manifestPath = scans[i].matched /\ i \in DOMAIN scans
    BY <1>3 DEF RootOf
<1>6. ASSUME NEW i \in DOMAIN roots PROVE RootAt(roots[i])
    <2>1. scans[i].root \in Paths /\ Found(scans[i]) /\ scans[i] = scanAtDir(fs, scans[i].root)
        BY <1>2, <1>5 DEF OwnScans, OwnScan
    <2>2. Placed(scans[i], scans[i].root)
        BY <1>1, <2>1, ScanFound DEF OnDisk
    <2>3. scans[i].matched.dir = scans[i].root \/ scans[i].matched.name \in Projects
        BY <2>2 DEF Placed, File
    <2> QED
        BY <1>5, <2>1, <2>2, <2>3 DEF RootAt
<1>7. Rooted
    <2>1. \E n \in Nat : DOMAIN roots = 1..n
        BY <1>3, <1>4
    <2>2. \A i, j \in DOMAIN roots : i # j => ~IsPrefix(roots[i].projectRoot, roots[j].projectRoot)
        BY <1>2, <1>5 DEF Apart
    <2> QED
        BY <1>6, <2>1, <2>2 DEF Rooted
<1>8. Current
    <2> SUFFICES ASSUME NEW i \in DOMAIN roots PROVE SeenThen(fs, fs, roots, watched, events, i)
        BY DEF Current, Seen
    <2>1. roots[i].previousScan = scanAtDir(fs, roots[i].projectRoot)
        BY <1>2, <1>5 DEF OwnScans, OwnScan
    <2> QED
        BY <1>1, <2>1 DEF SeenThen, OnDisk, SameRepositories, Agree
<1> QED
    BY <1>1, <1>7, <1>8 DEF CInv

LEMMA ChangedFile ==
    ASSUME IInv, OnDisk, Uncut, SteadyRepositories, NEW f \in DOMAIN Versions, Edit(f) \/ Delete(f)
    PROVE  /\ OnDisk' /\ SameRepositories(fs, fs') /\ DOMAIN fs' \ {f} = DOMAIN fs \ {f}
           /\ \A g : g # f => Agree(fs, fs', {g})
<1>1. CASE Edit(f)
    <2>1. PICK v \in Versions[f] : fs' = [g \in DOMAIN fs \cup {f} |-> IF g = f THEN v ELSE fs[g]]
        BY <1>1 DEF Edit
    <2>2. DOMAIN fs' = DOMAIN fs \cup {f} /\ fs'[f] = v /\ \A g \in DOMAIN fs \ {f} : fs'[g] = fs[g]
        BY <2>1
    <2>3. Parsed(f, v) /\ Few(f, v)
        BY VersionsAssumption DEF Uncut
    <2>4. WellFormed(fs')
        <3>1. IsFiniteSet(DOMAIN fs')
            BY <2>2, FS_AddElement DEF OnDisk, WellFormed
        <3>2. IsFile(f)
            BY <2>3 DEF Parsed, IsFile, File, Paths
        <3>3. /\ DOMAIN v.members \subseteq Nat
              /\ \A k \in DOMAIN v.members : v.members[k] \in
                    IF f.name = "x.sln" THEN [dir : Paths, name : {"a.csproj", "b.csproj"}] ELSE Paths
            BY <2>3, Zenon DEF Parsed, Paths
        <3> QED
            BY <2>2, <3>1, <3>2, <3>3 DEF OnDisk, WellFormed
    <2>5. Whole(fs')
        <3>1. f.name \in {"package.json", "pnpm-workspace.yaml"} => Uncapped(v.members)
            BY <2>3, FewAreUncapped DEF Few, Parsed, Uncut
        <3> QED
            BY <2>2, <3>1 DEF OnDisk, Whole
    <2> QED
        BY <2>2, <2>4, <2>5 DEF OnDisk, SameRepositories, SteadyRepositories, Has, File, Agree
<1>2. CASE Delete(f)
    <2>1. DOMAIN fs' = DOMAIN fs \ {f} /\ \A g \in DOMAIN fs \ {f} : fs'[g] = fs[g]
        BY <1>2 DEF Delete
    <2>2. IsFiniteSet(DOMAIN fs')
        BY <2>1, FS_Subset DEF OnDisk, WellFormed
    <2>3. WellFormed(fs') /\ Whole(fs')
        BY <2>1, <2>2 DEF OnDisk, WellFormed, Whole
    <2> QED
        BY <2>1, <2>3 DEF OnDisk, SameRepositories, SteadyRepositories, Has, File, Agree
<1> QED
    BY <1>1, <1>2

LEMMA RepositoriesStay ==
    ASSUME NEW F, NEW G, NEW H, SameRepositories(F, G), SameRepositories(G, H)
    PROVE  SameRepositories(F, H)
BY DEF SameRepositories

LEMMA FilesCurrent ==
    ASSUME IInv, CInv, Uncut, SteadyRepositories, NEW f \in DOMAIN Versions, Edit(f) \/ Delete(f)
    PROVE  CInv'
<1>1. UNCHANGED <<roots, watched, skipped>> /\ events' = events \cup ({f} \cap watched)
    BY DEF Edit, Delete, Changes
<1>2. /\ OnDisk' /\ SameRepositories(fs, fs') /\ DOMAIN fs' \ {f} = DOMAIN fs \ {f}
      /\ \A g : g # f => Agree(fs, fs', {g})
    BY ChangedFile DEF CInv
<1>3. Rooted'
    BY <1>1 DEF CInv, Rooted
<1>4. Current'
    <2> SUFFICES ASSUME NEW i \in DOMAIN roots \ skipped PROVE Seen(fs', roots, watched, events', i)
        BY <1>1 DEF Current
    <2>1. PICK old : SeenThen(old, fs, roots, watched, events, i)
        BY DEF CInv, Current, Seen
    <2>2. SeenThen(old, fs', roots, watched, events', i)
        <3>1. SameRepositories(old, fs')
            BY <1>2, <2>1, RepositoriesStay DEF SeenThen
        <3>2. ASSUME NEW g \in (KnownIn(fs', roots[i]) \cap watched) \ events',
                     \A j \in DOMAIN roots \ {i} : g \notin KnownIn(fs', roots[j])
              PROVE  Agree(old, fs', {g})
            <4>1. g # f /\ g \notin events
                BY <1>1
            <4>2. g \in KnownIn(fs, roots[i]) /\ \A j \in DOMAIN roots \ {i} : g \notin KnownIn(fs, roots[j])
                BY <1>2, <3>2, <4>1, KnownElsewhere
            <4>3. Agree(old, fs, {g})
                BY <2>1, <4>1, <4>2 DEF SeenThen
            <4> QED
                BY <1>2, <4>1, <4>3 DEF Agree
        <3> QED
            BY <2>1, <3>1, <3>2 DEF SeenThen
    <2> QED
        BY <2>2 DEF Seen
<1> QED
    BY <1>2, <1>3, <1>4 DEF CInv

LEMMA SomeOwner ==
    ASSUME Rooted, NEW f, NEW i \in DOMAIN roots, f \in Known(roots[i])
    PROVE  Owners(f) # {}
<1> DEFINE S == {k \in DOMAIN roots : f \in Known(roots[k])}
<1>1. PICK n \in Nat : DOMAIN roots = 1..n
    BY DEF Rooted
<1>2. S \in SUBSET Nat /\ i \in S
    BY <1>1
<1> HIDE DEF S
<1>3. PICK k \in S : \A m \in S : k <= m
    BY <1>2, LeastNatural
<1>4. k \in 1..n /\ f \in Known(roots[k])
    BY <1>1 DEF S
<1>5. ASSUME NEW j \in 1..(k - 1) PROVE f \notin Known(roots[j])
    <2>1. j \in DOMAIN roots /\ ~(k <= j)
        BY <1>1, <1>4
    <2> QED
        BY <1>3, <2>1 DEF S
<1> QED
    BY <1>1, <1>4, <1>5 DEF Owners

\* An event that no root claims is about no file of any of them.
LEMMA UnappliedCurrent ==
    ASSUME IInv, CInv, NEW f, Unclaimed(f) \/ Keeps(f)
    PROVE  CInv'
<1>1. UNCHANGED <<fs, roots, watched>> /\ events' = events \ {f} /\ skipped \subseteq skipped'
    BY DEF Unclaimed, Keeps
<1>2. OnDisk' /\ Rooted'
    BY <1>1 DEF CInv, OnDisk, Rooted
<1>3. ASSUME NEW i \in DOMAIN roots \ skipped'
      PROVE  f \notin KnownIn(fs, roots[i]) \/ \E j \in DOMAIN roots \ {i} : f \in KnownIn(fs, roots[j])
    <2>1. CASE Unclaimed(f)
        BY <2>1, SomeOwner, KnownNow DEF Unclaimed, CInv
    <2>2. CASE Keeps(f)
        <3>1. PICK j \in Owners(f) : skipped' = skipped \cup {j}
            BY <2>2 DEF Keeps
        <3>2. j \in DOMAIN roots \ {i} /\ f \in Known(roots[j])
            BY <3>1 DEF Owners
        <3> QED
            BY <3>2, KnownNow
    <2> QED
        BY <2>1, <2>2
<1>4. Current'
    <2> SUFFICES ASSUME NEW i \in DOMAIN roots \ skipped' PROVE Seen(fs, roots, watched, events', i)
        BY <1>1 DEF Current
    <2>1. PICK old : SeenThen(old, fs, roots, watched, events, i)
        BY <1>1 DEF CInv, Current, Seen
    <2>2. SeenThen(old, fs, roots, watched, events', i)
        BY <1>1, <1>3, <2>1 DEF SeenThen
    <2> QED
        BY <2>2 DEF Seen
<1> QED
    BY <1>2, <1>4 DEF CInv

LEMMA ToolsCurrent ==
    ASSUME CInv, UNCHANGED <<fs, roots, watched, skipped, events>>
    PROVE  CInv'
BY DEF CInv, OnDisk, Rooted, Current

-----------------------------------------------------------------------------
(* A scan that is applied                                                  *)

\* A file that a root no longer knows is watched no longer, or was a member of it.
LEMMA NoLongerKnown ==
    ASSUME NEW r, NEW next, NEW f \in KnownIn(fs, r), f \notin {r.manifestPath} \cup next.extras,
           f \notin MemberManifestsIn(fs, r.previousScan, r.previousScan.type)
    PROVE  f \in GivenUp(r.previousScan, next)
BY DEF KnownIn, GivenUp

LEMMA AppliedCurrent ==
    ASSUME IInv, CInv, NEW f, NEW i \in Owners(f), AppliedTo(i, scanAtDir(fs, roots[i].projectRoot)),
           events' = events \ {f}, skipped' = skipped \ {i}
    PROVE  CInv'
<1> DEFINE d == roots[i].projectRoot
           prev == roots[i].previousScan
           next == scanAtDir(fs, d)
<1>0. /\ i \in DOMAIN roots /\ f \in KnownIn(fs, roots[i]) /\ Found(next) /\ fs' = fs
      /\ watched' = Reconciled(prev, next) /\ roots' = [roots EXCEPT ![i].previousScan = next]
    BY KnownNow DEF Owners, AppliedTo
<1>1. OnDisk /\ d \in Paths /\ RootAt(roots[i]) /\ IsRoot(roots[i]) /\ Placed(prev, d)
    BY <1>0 DEF CInv, Rooted, RootAt, IInv, Kept
<1>2. Placed(next, d)
    BY <1>0, <1>1, ScanFound DEF OnDisk
<1> HIDE DEF next
<1>3. /\ DOMAIN roots' = DOMAIN roots
      /\ roots'[i] = [projectRoot |-> d, manifestPath |-> roots[i].manifestPath, previousScan |-> next]
      /\ \A k \in DOMAIN roots \ {i} : roots'[k] = roots[k]
    BY <1>0, <1>1, NextRoots
<1>4. OnDisk'
    BY <1>0, <1>1 DEF OnDisk
<1>5. Rooted'
    <2>1. \A k \in DOMAIN roots' : RootAt(roots'[k]) /\ roots'[k].projectRoot = roots[k].projectRoot
        BY <1>1, <1>2, <1>3 DEF CInv, Rooted, RootAt
    <2> QED
        BY <1>3, <2>1 DEF CInv, Rooted
<1>6. KnownIn(fs, roots'[i]) = {roots[i].manifestPath} \cup next.extras \cup MemberManifestsIn(fs, next, next.type)
    <2>1. roots'[i].manifestPath = roots[i].manifestPath /\ roots'[i].previousScan = next
        BY <1>3
    <2> QED
        BY <2>1 DEF KnownIn
\* Another root's files are watched as before, unless root i knows them too.
<1>7. ASSUME NEW k \in DOMAIN roots \ {i}, NEW g \in KnownIn(fs, roots[k]) \cap watched', g \notin KnownIn(fs, roots'[i])
      PROVE  g \in watched /\ g \notin KnownIn(fs, roots[i])
    <2>1. /\ RootAt(roots[k])
          /\ ~IsPrefix(d, roots[k].projectRoot) /\ ~IsPrefix(roots[k].projectRoot, d)
        BY <1>0 DEF CInv, Rooted
    <2>2. \A type : g \notin MemberManifestsIn(fs, prev, type) /\ g \notin MemberManifestsIn(fs, next, type)
        BY <1>1, <1>2, <2>1, MembersApart
    <2>3. g \notin {roots[i].manifestPath} \cup next.extras
        BY <1>6, <1>7
    <2>4. g \notin GivenUp(prev, next)
        BY <1>0, <1>7 DEF Reconciled
    <2>5. g \notin KnownIn(fs, roots[i])
        BY <2>2, <2>3, <2>4, NoLongerKnown
    <2>6. g \in watched
        BY <1>0, <1>7, <2>2, <2>3, KnownNow DEF Reconciled
    <2> QED
        BY <2>5, <2>6
<1>8. SeenThen(fs, fs, roots', watched', events', i)
    <2>1. roots'[i].previousScan = scanAtDir(fs, roots'[i].projectRoot)
        BY <1>3 DEF next
    <2> QED
        BY <1>1, <2>1 DEF SeenThen, OnDisk, SameRepositories, Agree
<1>9. ASSUME NEW k \in (DOMAIN roots \ skipped) \ {i} PROVE Seen(fs, roots', watched', events', k)
    <2>1. PICK old : SeenThen(old, fs, roots, watched, events, k)
        BY DEF CInv, Current, Seen
    <2>2. ASSUME NEW g \in (KnownIn(fs, roots[k]) \cap watched') \ events',
                 \A j \in DOMAIN roots \ {k} : g \notin KnownIn(fs, roots'[j])
          PROVE  Agree(old, fs, {g})
        <3>1. g \in watched /\ g \notin KnownIn(fs, roots[i])
            BY <1>0, <1>7, <2>2
        <3>2. \A j \in DOMAIN roots \ {k} : g \notin KnownIn(fs, roots[j])
            BY <1>3, <2>2, <3>1
        <3>3. g \notin events
            BY <1>0, <3>1
        <3> QED
            BY <2>1, <3>1, <3>2, <3>3 DEF SeenThen
    <2>3. SeenThen(old, fs, roots', watched', events', k)
        BY <1>3, <2>1, <2>2 DEF SeenThen
    <2> QED
        BY <2>3 DEF Seen
<1>10. Current'
    <2> SUFFICES ASSUME NEW k \in DOMAIN roots \ skipped' PROVE Seen(fs, roots', watched', events', k)
        BY <1>0, <1>3 DEF Current
    <2> QED
        BY <1>8, <1>9 DEF Seen
<1> QED
    BY <1>4, <1>5, <1>10 DEF CInv

LEMMA NextCurrent == Uncut /\ SteadyRepositories /\ IInv /\ CInv /\ [Next]_vars => CInv'
<1> SUFFICES ASSUME Uncut, SteadyRepositories, IInv, CInv, [Next]_vars PROVE CInv'
    OBVIOUS
<1>1. ASSUME NEW f \in DOMAIN Versions, Edit(f) \/ Delete(f) PROVE CInv'
    BY <1>1, FilesCurrent
<1>2. ASSUME NEW f, Unclaimed(f) \/ Keeps(f) PROVE CInv'
    BY <1>2, UnappliedCurrent
<1>3. ASSUME NEW f, Applies(f) PROVE CInv'
    BY <1>3, AppliesTo, AppliedCurrent
<1>4. ASSUME UNCHANGED <<fs, roots, watched, skipped, events>> PROVE CInv'
    BY <1>4, ToolsCurrent
<1> QED
    BY <1>1, <1>2, <1>3, <1>4 DEF Next, vars, Ask, RegistryAnswers, ProbeEnds

LEMMA CurrentView == Uncut /\ IInv /\ CInv => ViewIsCurrent
<1> SUFFICES ASSUME Uncut, CInv, events = {}, NEW i \in DOMAIN roots \ skipped,
                    Found(scanAtDir(fs, roots[i].projectRoot)),
                    Found(roots[i].previousScan),
                    roots[i].previousScan.matched = roots[i].manifestPath,
                    scanAtDir(fs, roots[i].projectRoot).reads \cup roots[i].previousScan.reads
                        \subseteq watched \cap Known(roots[i]),
                    \A j \in DOMAIN roots \ {i} :
                        (scanAtDir(fs, roots[i].projectRoot).reads \cup roots[i].previousScan.reads)
                            \cap Known(roots[j]) = {}
             PROVE  roots[i].previousScan.deps = scanAtDir(fs, roots[i].projectRoot).deps
    BY DEF ViewIsCurrent, IInv, TypeOK
<1> DEFINE d == roots[i].projectRoot
           prev == roots[i].previousScan
           now == scanAtDir(fs, d)
<1>1. PICK old : SeenThen(old, fs, roots, watched, events, i)
    BY DEF CInv, Current, Seen
<1>2. RootAt(roots[i]) /\ d \in Paths /\ Placed(prev, d)
    BY DEF CInv, Rooted, RootAt
<1>3. Agree(old, fs, prev.reads \cup now.reads)
    <2> SUFFICES ASSUME NEW g \in prev.reads \cup now.reads PROVE Agree(old, fs, {g})
        BY DEF Agree
    <2>1. g \in KnownIn(fs, roots[i]) \cap watched /\ \A j \in DOMAIN roots \ {i} : g \notin KnownIn(fs, roots[j])
        BY KnownNow
    <2> QED
        BY <1>1, <2>1 DEF SeenThen
<1>4. now.reads \subseteq {prev.matched} \cup prev.extras \cup MemberManifestsIn(fs, prev, prev.type)
    BY KnownNow DEF KnownIn
<1>5. prev = scanAtDir(old, d) /\ WellFormed(old) /\ Whole(old) /\ SameRepositories(old, fs)
    BY <1>1 DEF SeenThen
<1> HIDE DEF now, prev, d
<1>6. IF prev.type \in {"sln", "csproj"} THEN \A f \in now.reads : f.name \in Projects \cup {Props}
      ELSE \A f \in now.reads : f.name # "x.sln"
    <2>1. CASE prev.type \in {"sln", "csproj"}
        <3>1. prev.members = {} /\ prev.matched.name \in Projects
              /\ \A f \in prev.extras : f.name \in Projects \cup {Props}
            BY <1>2, <2>1 DEF Placed, Props
        <3>2. MemberManifestsIn(fs, prev, prev.type) = {}
            BY <3>1 DEF MemberManifestsIn
        <3> QED
            BY <1>4, <2>1, <3>1, <3>2
    <2>2. CASE prev.type \notin {"sln", "csproj"}
        <3>1. /\ prev.matched = File(d, prev.type) /\ prev.type \in Plain \cup {"package.json", "libs.versions.toml"}
              /\ \A f \in prev.extras : f.name \in BuildFiles
            BY <1>2, <2>2 DEF Placed
        <3>2. prev.matched.name # "x.sln"
            BY <3>1 DEF File, Plain
        <3>3. \A f \in prev.extras : f.name # "x.sln"
            BY <3>1 DEF BuildFiles
        <3>4. \A f \in MemberManifestsIn(fs, prev, prev.type) : f.name # "x.sln"
            BY <1>2, MembersPlaced DEF MemberNames
        <3> QED
            BY <1>4, <2>2, <3>2, <3>3, <3>4
    <2> QED
        BY <2>1, <2>2
<1>7. prev.deps = now.deps
    <2>1. WellFormed(fs) /\ Whole(fs) /\ MaxMembers \in Nat /\ 2 <= MaxMembers
        BY DEF CInv, OnDisk, Uncut
    <2>2. Found(scanAtDir(old, d)) /\ Found(scanAtDir(fs, d))
        BY <1>5 DEF now, prev, d
    <2>3. Agree(old, fs, scanAtDir(old, d).reads \cup scanAtDir(fs, d).reads)
        BY <1>3, <1>5 DEF now
    <2>4. IF scanAtDir(old, d).type \in {"sln", "csproj"}
          THEN \A f \in scanAtDir(fs, d).reads : f.name \in Projects \cup {Props}
          ELSE \A f \in scanAtDir(fs, d).reads : f.name # "x.sln"
        BY <1>5, <1>6 DEF now
    <2>5. scanAtDir(old, d).deps = scanAtDir(fs, d).deps
        BY <1>2, <1>5, <2>1, <2>2, <2>3, <2>4, ScanFrame
    <2> QED
        BY <1>5, <2>5 DEF now
<1> QED
    BY <1>7 DEF prev, now, d

\* handleChange() keeps the view of a root up to date with its manifests through every sequence
\* of edits, deletions and events, in whatever order the events come: for every project and
\* every number of edits, if workspaces stay under the cap and repositories where they are.
THEOREM WatcherViewIsCurrent == Uncut /\ SteadyRepositories => (Spec => []ViewIsCurrent)
<1>1. Uncut /\ SteadyRepositories /\ Init => IInv /\ CInv
    BY InitInv, InitCurrent
<1>2. Uncut /\ SteadyRepositories /\ IInv /\ CInv /\ [Next]_vars => IInv' /\ CInv'
    BY NextInv, NextCurrent
<1>3. Uncut /\ IInv /\ CInv => ViewIsCurrent
    BY CurrentView
<1> SUFFICES ASSUME Uncut, SteadyRepositories PROVE Spec => []ViewIsCurrent
    OBVIOUS
<1> QED
    BY <1>1, <1>2, <1>3, PTL DEF Spec
=============================================================================
