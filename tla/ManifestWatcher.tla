---------------------------- MODULE ManifestWatcher ----------------------------
(***************************************************************************)
(* The manifest watcher beside list_project_dependencies: edits of the     *)
(* project reach it as file events, and a dependency that is removed takes *)
(* its row in `repos`, and maybe one in `wiki_status`, with it.            *)
(*                                                                         *)
(* A root's workspaceMembers and extraManifestFiles are always those of its*)
(* previousScan, so the scan alone is kept.  chokidar is external: it      *)
(* reports every change of a watched path, once for several changes.       *)
(***************************************************************************)
EXTENDS ProjectScan, RepoResolver

CONSTANTS
    Cwd,           \* where the server was started
    Layouts,       \* file systems at the start
    Versions,      \* Versions[f]: what an edit may leave in file f
    EcosystemOf,   \* EcosystemOf[dep]
    Answers,       \* Answers[dep]: what its registry may say
    MaxWatched,    \* MAX_WATCHED_PATHS
    MaxEdits       \* bound: edits of the project

VARIABLES
    fs,        \* the file system
    roots,     \* the watched roots, primary first: [projectRoot, manifestPath, previousScan]
    watched,   \* the paths given to chokidar
    degraded,  \* were there too many of them at the start?
    strayed,   \* roots a scan of which found another manifest than manifestPath, or gave
               \* it up as a member (history)
    shared,    \* files that are not watched since one root gave them up, though another knows
               \* them (history)
    skipped,   \* roots whose latest event found no scan to apply (history)
    events,    \* changed paths whose event is not handled yet
    repos,     \* table repos: the repository of a dependency, or NoRepo
    wikis,     \* table wiki_status: the repositories that have a row
    lookups,   \* what a tool call awaits for a dependency: "idle", "registry", or the
               \* repository it probes
    edits

vars == <<fs, roots, watched, degraded, strayed, shared, skipped, events, repos, wikis, lookups, edits>>

Deps == DOMAIN EcosystemOf

\* What a parser may find: dependencies, and directories, or in a solution *.csproj files.
Parsed(f, v) ==
    /\ f \in [dir : Seq(Nat), name : STRING]
    /\ v = [bad |-> v.bad, deps |-> v.deps, members |-> v.members]
    /\ v.deps \subseteq Deps
    /\ DOMAIN v.members \subseteq Nat
    /\ \A k \in DOMAIN v.members :
          v.members[k] \in IF f.name = "x.sln" THEN [dir : Seq(Nat), name : {"a.csproj", "b.csproj"}] ELSE Seq(Nat)
ASSUME CwdAssumption == Cwd \in Seq(Nat)
ASSUME LayoutsAssumption == \A l \in Layouts : IsFiniteSet(DOMAIN l) /\ \A f \in DOMAIN l : Parsed(f, l[f])
ASSUME VersionsAssumption == \A f \in DOMAIN Versions : \A v \in Versions[f] : Parsed(f, v)
ASSUME AnswersAssumption == \A d \in Deps :
    /\ EcosystemOf[d] \in Ecosystems
    /\ \A a \in Answers[d] : a.status \in {"missing", "down", "found"} /\ DOMAIN a.links \subseteq Nat
ASSUME EditsAssumption == MaxEdits \in Nat

Repositories == {GuessOf[d] : d \in Deps} \cup {l.repo : l \in UNION {ToSet(a.links) : a \in UNION {Answers[d] : d \in Deps}}}

TypeOK ==
    /\ \A i \in DOMAIN roots : Found(roots[i].previousScan) /\ roots[i].previousScan.deps \subseteq Deps
    /\ events \subseteq DOMAIN Versions
    /\ repos \in [Deps -> Repositories \cup {NoRepo}]
    /\ wikis \subseteq Repositories \ {NoRepo}
    /\ lookups \in [Deps -> {"idle", "registry"} \cup Repositories]
    /\ edits \in 0..MaxEdits

-----------------------------------------------------------------------------
(* The paths of a root                                                     *)

\* deriveMemberManifest(): of a Gradle project, the build file that is there now.
MemberManifest(m, type) ==
    CASE type \in {"Cargo.toml", "package.json", "pom.xml"} -> {File(m, type)}
      [] type = "go.work" -> {File(m, "go.mod")}
      [] type = "libs.versions.toml" -> {f \in DOMAIN fs : f = File(m, "build.gradle")}
      [] OTHER -> {}
MemberManifests(scan, type) == UNION {MemberManifest(m, type) : m \in scan.members}
Known(root) ==
    {root.manifestPath} \cup root.previousScan.extras \cup MemberManifests(root.previousScan, root.previousScan.type)

\* computeWatchSet(): all of them, or manifests before extras before members.
ManifestPaths(rs) == {rs[i].manifestPath : i \in DOMAIN rs}
Extras(rs) == UNION {rs[i].previousScan.extras : i \in DOMAIN rs}
AllKnown(rs) == UNION {Known(rs[i]) : i \in DOMAIN rs}
IsWatchSet(W, rs) ==
    /\ Cardinality(W) = Min({MaxWatched, Cardinality(AllKnown(rs))})
    /\ W \subseteq ManifestPaths(rs) \/ ManifestPaths(rs) \subseteq W
    /\ W \subseteq ManifestPaths(rs) \cup Extras(rs) \/ ManifestPaths(rs) \cup Extras(rs) \subseteq W

\* main(): every root of the initial scan.
RootOf(scan) == [projectRoot |-> scan.root, manifestPath |-> scan.matched, previousScan |-> scan]
Init ==
    /\ fs \in Layouts
    /\ roots = [i \in DOMAIN ProjectScans(fs, Cwd) |-> RootOf(ProjectScans(fs, Cwd)[i])]
    /\ watched \in SUBSET AllKnown(roots) /\ IsWatchSet(watched, roots)
    /\ degraded = (watched # AllKnown(roots))
    /\ events = {} /\ strayed = {} /\ shared = {} /\ skipped = {} /\ edits = 0
    /\ repos = [d \in Deps |-> NoRepo] /\ wikis = {}
    /\ lookups = [d \in Deps |-> "idle"]

-----------------------------------------------------------------------------
(* The project and chokidar                                                *)

Changes(f) ==
    /\ edits < MaxEdits /\ edits' = edits + 1
    /\ events' = events \cup ({f} \cap watched)
    /\ UNCHANGED <<roots, watched, degraded, strayed, shared, skipped, repos, wikis, lookups>>

Edit(f) == \E v \in {u \in Versions[f] : f \in DOMAIN fs => fs[f] # u} :
    /\ fs' = [g \in DOMAIN fs \cup {f} |-> IF g = f THEN v ELSE fs[g]]
    /\ Changes(f)

Delete(f) ==
    /\ f \in DOMAIN fs
    /\ fs' = [g \in DOMAIN fs \ {f} |-> fs[g]]
    /\ Changes(f)

-----------------------------------------------------------------------------
(* handleChange()                                                          *)

\* Mutant: every change is the primary root's.
PrimaryOwns(f) == {1}

\* findOwningRoot(): the first root that knows the path.
Owners(f) == {i \in DOMAIN roots : f \in Known(roots[i]) /\ \A j \in 1..(i - 1) : f \notin Known(roots[j])}

\* Mutant: a manifest that is gone for a moment counts as one without dependencies.
NeverTransient(next) == next.type = "thrown"

\* A scan that throws is logged; no manifest at all is taken for the gap of a rename.
Skipped(next) == ~Found(next)

RemovedDeps(prev, next) == prev.deps \ next.deps

\* Mutant: the row of the removed dependency is read after it was deleted.
ReadAfterDelete(removed, next) == {}

\* invalidateForRemovals(): repositories that no dependency of the root leads to any more.
Orphans(removed, next) == {repos[d] : d \in removed} \ ({repos[d] : d \in next.deps} \cup {NoRepo})

\* reconcileWatchSet(): what the next scan no longer names; members by the type of the
\* previous one.
GivenUp(prev, next) ==
    (MemberManifests(prev, prev.type) \ MemberManifests(next, prev.type)) \cup (prev.extras \ next.extras)

\* Mutant: members and extra files that come later are not watched.
NeverAdded(prev, next) == watched \ GivenUp(prev, next)

\* reconcileWatchSet(): add(), then unwatch().
Reconciled(prev, next) ==
    (watched \cup (MemberManifests(next, prev.type) \ MemberManifests(prev, prev.type))
             \cup (next.extras \ prev.extras)) \ GivenUp(prev, next)

Unclaimed(f) ==
    /\ f \in events /\ Owners(f) = {}
    /\ events' = events \ {f}
    /\ UNCHANGED <<fs, roots, watched, degraded, strayed, shared, skipped, repos, wikis, lookups, edits>>

Keeps(f) ==
    /\ f \in events
    /\ \E i \in Owners(f) :
          Skipped(scanAtDir(fs, roots[i].projectRoot)) /\ skipped' = skipped \cup {i}
    /\ events' = events \ {f}
    /\ UNCHANGED <<fs, roots, watched, degraded, strayed, shared, repos, wikis, lookups, edits>>

Applies(f) == \E i \in Owners(f) :
    LET prev    == roots[i].previousScan
        next    == scanAtDir(fs, roots[i].projectRoot)
        removed == RemovedDeps(prev, next)
    IN  /\ f \in events /\ events' = events \ {f}
        /\ ~Skipped(next)
        /\ repos' = [d \in Deps |-> IF d \in removed THEN NoRepo ELSE repos[d]]
        /\ wikis' = wikis \ Orphans(removed, next)
        /\ watched' = Reconciled(prev, next)
        /\ roots' = [roots EXCEPT ![i].previousScan = next]
        /\ strayed' = IF next.matched # roots[i].manifestPath \/ next.matched \in GivenUp(prev, next)
                      THEN strayed \cup {i} ELSE strayed
        /\ shared' = (shared \cup {g \in GivenUp(prev, next) : \E j \in DOMAIN roots \ {i} : g \in Known(roots[j])})
                        \ watched'
        /\ skipped' = skipped \ {i}
        /\ UNCHANGED <<fs, degraded, lookups, edits>>

-----------------------------------------------------------------------------
(* resolve_repo and list_project_dependencies                              *)

\* A dependency whose rows are both there costs nothing.
Ask(d) ==
    /\ lookups[d] = "idle" /\ repos[d] \notin wikis
    /\ lookups' = [lookups EXCEPT ![d] = IF repos[d] = NoRepo THEN "registry" ELSE repos[d]]
    /\ UNCHANGED <<fs, roots, watched, degraded, strayed, shared, skipped, events, repos, wikis, edits>>

\* Only list_project_dependencies goes on to the probe.
RegistryAnswers(d) == \E a \in Answers[d] :
    LET found == resolveRepo(d, EcosystemOf[d], a, a).repo
    IN  /\ lookups[d] = "registry"
        /\ repos' = IF found = NoRepo THEN repos ELSE [repos EXCEPT ![d] = found]
        /\ \E next \in {"idle"} \cup ({found} \ (wikis \cup {NoRepo})) : lookups' = [lookups EXCEPT ![d] = next]
        /\ UNCHANGED <<fs, roots, watched, degraded, strayed, shared, skipped, events, wikis, edits>>

\* probe() stores what it learned, or fails.
ProbeEnds(d) ==
    /\ lookups[d] \notin {"idle", "registry"}
    /\ lookups' = [lookups EXCEPT ![d] = "idle"]
    /\ wikis' \in {wikis, wikis \cup {lookups[d]}}
    /\ UNCHANGED <<fs, roots, watched, degraded, strayed, shared, skipped, events, repos, edits>>

-----------------------------------------------------------------------------
Next ==
    \/ \E f \in DOMAIN Versions : Edit(f) \/ Delete(f) \/ Unclaimed(f) \/ Keeps(f) \/ Applies(f)
    \/ \E d \in Deps : Ask(d) \/ RegistryAnswers(d) \/ ProbeEnds(d)

Spec == Init /\ [][Next]_vars

-----------------------------------------------------------------------------
\* Once the events are handled, a root shows the dependencies its manifests have, whatever
\* was edited, renamed or broken on the way: if its scans, the last one and one of now, read
\* files that it knows and watches, and none that another root, which is asked first, knows
\* too; and if it shows the manifest it was made for.  A scan that threw may have read a
\* new member, which is not watched: the event after it must come.
ViewIsCurrent == events = {} =>
    \A i \in DOMAIN roots \ skipped :
        LET prev == roots[i].previousScan
            now  == scanAtDir(fs, roots[i].projectRoot)
            read == now.reads \cup prev.reads
        IN  /\ Found(now) /\ prev.matched = roots[i].manifestPath
            /\ read \subseteq watched \cap Known(roots[i])
            /\ \A j \in DOMAIN roots \ {i} : read \cap Known(roots[j]) = {}
            => prev.deps = now.deps

\* What ViewIsCurrent needs of the environment for every value of the constants: no workspace
\* lists more patterns than are followed, for a directory that goes lets the next pattern in
\* under the cap, and directories are not watched; and no .git comes or goes, for it ends a
\* walk upwards, and is not watched either.
Few(f, v) == f.name \in {"package.json", "pnpm-workspace.yaml"} =>
    IsFiniteSet(DOMAIN v.members) /\ Cardinality(DOMAIN v.members) <= MaxMembers
Uncut ==
    /\ MaxMembers \in Nat /\ 2 <= MaxMembers
    /\ \A l \in Layouts : \A f \in DOMAIN l : Few(f, l[f])
    /\ \A f \in DOMAIN Versions : \A v \in Versions[f] : Few(f, v)
SteadyRepositories == \A f \in DOMAIN Versions : f.name # ".git"

\* Unless there were too many files at the start, a root that kept its manifest watches
\* every file its last scan named, but those that another root gave up: a
\* Directory.Packages.props above two roots goes with the first that drops it.
WatchesWhatItKnows == ~degraded =>
    \A i \in DOMAIN roots \ strayed :
        roots[i].previousScan.type # "libs.versions.toml" => Known(roots[i]) \subseteq watched \cup shared

ViewOf(rs) == UNION {rs[i].previousScan.deps : i \in DOMAIN rs}

\* A dependency that leaves the project is forgotten, and its wiki too, unless another
\* dependency of the root leads to the same repository; and a wiki is only lost to the root
\* that loses the last dependency it has of that repository (another root may still need it).
DepsOf(r) == r.previousScan.deps
ForgetsRemoved == [][
    /\ \A d \in ViewOf(roots) \ ViewOf(roots') :
          /\ repos'[d] = NoRepo
          /\ repos[d] \in wikis' => \E e \in ViewOf(roots') : repos'[e] = repos[d]
    /\ \A w \in wikis \ wikis' : \E i \in DOMAIN roots :
          /\ \E d \in DepsOf(roots[i]) \ DepsOf(roots'[i]) : repos[d] = w
          /\ \A e \in DepsOf(roots'[i]) : repos'[e] # w ]_vars
=============================================================================
