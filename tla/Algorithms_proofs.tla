---------------------------- MODULE Algorithms_proofs ----------------------------
(***************************************************************************)
(* Theorems about the functions of the server, for every input, and the    *)
(* lemmas about the scanner and the resolver that the watcher rests on.    *)
(***************************************************************************)
EXTENDS MCAlgorithms, FiniteSetTheorems, SequenceTheorems, WellFoundedInduction, TLAPS

-----------------------------------------------------------------------------
(* Numbers                                                                 *)

LEMMA LeastNatural == ASSUME NEW S \in SUBSET Nat, S # {} PROVE \E n \in S : \A m \in S : n <= m
<1> DEFINE less == OpToRel(<, Nat)
<1>1. IsWellFoundedOn(less, Nat)
    BY NatLessThanWellFounded
<1>2. PICK n \in S : \A m \in S : <<m, n>> \notin less
    <2> HIDE DEF less
    <2> QED
        BY <1>1, WFMin
<1>3. \A m \in S : m < n => <<m, n>> \in less
    BY DEF OpToRel
<1> HIDE DEF less
<1>4. \A m \in S : ~(m < n)
    BY <1>2, <1>3
<1>5. \A m \in S : m \in Nat /\ n \in Nat
    OBVIOUS
<1> QED
    BY <1>4, <1>5

\* The first of several positions is one of them.
LEMMA MinIsFirst ==
    ASSUME NEW S \in SUBSET Nat, S # {}
    PROVE  Min(S) \in S /\ \A n \in S : Min(S) <= n
BY LeastNatural DEF Min

\* Induction, for the set of the numbers that have the property.
LEMMA NaturalsByStep ==
    ASSUME NEW S \in SUBSET Nat, 0 \in S, \A n \in S : n + 1 \in S
    PROVE  S = Nat
<1> DEFINE T == Nat \ S
<1> SUFFICES ASSUME T # {} PROVE FALSE
    OBVIOUS
<1>1. PICK n \in T : \A m \in T : n <= m
    <2>1. T \in SUBSET Nat /\ T # {}
        OBVIOUS
    <2> HIDE DEF T
    <2> QED
        BY <2>1, LeastNatural
<1>2. n \in Nat /\ n # 0 /\ n - 1 \in Nat /\ (n - 1) + 1 = n /\ ~(n <= n - 1)
    BY <1>1
<1>3. n - 1 \in S
    BY <1>1, <1>2
<1> QED
    BY <1>1, <1>2, <1>3

-----------------------------------------------------------------------------
(* What a scan finds                                                       *)

\* The files of F hold dependencies of S only.
Holding(F, S) == \A f \in DOMAIN F : F[f].deps \subseteq S

LEMMA EmptyScans == NoScan.deps = {} /\ Thrown.deps = {}
BY DEF NoScan, Thrown

LEMMA ReadingDeps ==
    ASSUME NEW F, NEW S, Holding(F, S), NEW files, files \subseteq DOMAIN F,
           NEW root, NEW type, NEW matched, NEW members, NEW extras
    PROVE  Reading(F, files, Scan(root, type, matched, members, extras)).deps \subseteq S
BY EmptyScans DEF Reading, Scan, Holding

LEMMA ListedFiles ==
    ASSUME NEW F, NEW sln, NEW K, K \subseteq Listed(F, sln)
    PROVE  Items(F[sln].members, K) \subseteq DOMAIN F
BY DEF Listed, Items

LEMMA NearestFiles == ASSUME NEW F, NEW d, NEW name PROVE Nearest(F, d, name) \subseteq DOMAIN F
BY DEF Nearest

LEMMA SlnDeps ==
    ASSUME NEW F, NEW S, Holding(F, S), NEW sln \in DOMAIN F, NEW root, NEW anchor
    PROVE  handleSlnDispatch(F, sln, root, anchor).deps \subseteq S
<1> DEFINE files == {sln} \cup Items(F[sln].members, Listed(F, sln)) \cup PropsAbove(F, anchor)
<1>1. files \subseteq DOMAIN F
    BY ListedFiles, NearestFiles DEF PropsAbove
<1> HIDE DEF files
<1>2. \A matched, extras : Reading(F, files, Scan(root, "sln", matched, {}, extras)).deps \subseteq S
    BY <1>1, ReadingDeps
<1> QED
    BY <1>2, EmptyScans DEF handleSlnDispatch, files

LEMMA SlnMatchDeps ==
    ASSUME NEW F, NEW S, Holding(F, S), NEW d, NEW sln \in DOMAIN F
    PROVE  SlnMatch(F, d, sln).deps \subseteq S
<1>1. Reading(F, {sln}, Scan(d, "sln", sln, {}, {})).deps \subseteq S
    BY ReadingDeps
<1>2. \A anchor : handleSlnDispatch(F, sln, d, anchor).deps \subseteq S
    BY SlnDeps
<1> QED
    BY <1>1, <1>2 DEF SlnMatch

LEMMA CsprojDeps ==
    ASSUME NEW F, NEW S, Holding(F, S), NEW d, NEW files, NEW own, Items(files, own) \subseteq DOMAIN F
    PROVE  handleCsprojMatch(F, d, files, own).deps \subseteq S
<1> DEFINE slns  == Nearest(F, d, "x.sln")
           above == {handleSlnDispatch(F, sln, d, d) : sln \in slns} \ {NoScan}
           read  == slns \cup PropsAbove(F, d) \cup Items(files, Capped(own))
<1>1. read \subseteq DOMAIN F
    BY NearestFiles DEF PropsAbove, Items, Capped
<1>2. \A scan \in above : scan.deps \subseteq S
    BY SlnDeps, NearestFiles
<1> HIDE DEF slns, above, read
<1>3. \A matched, extras : Reading(F, read, Scan(d, "csproj", matched, {}, extras)).deps \subseteq S
    BY <1>1, ReadingDeps
<1>4. above # {} => (CHOOSE scan \in above : TRUE) \in above
    OBVIOUS
<1> QED
    BY <1>2, <1>3, <1>4 DEF handleCsprojMatch, slns, above, read

LEMMA WorkspaceDeps ==
    ASSUME NEW F, NEW S, Holding(F, S), NEW file \in DOMAIN F, NEW type, NEW memberName
    PROVE  mergeWorkspace(F, file, type, memberName).deps \subseteq S
<1> DEFINE members == {m \in Declared(F, file) : Has(F, m, memberName)}
           read    == {file} \cup {File(m, memberName) : m \in members}
<1>1. read \subseteq DOMAIN F
    BY DEF Has
<1> HIDE DEF members, read
<1>2. Reading(F, read, Scan(file.dir, type, file, members, {})).deps \subseteq S
    BY <1>1, ReadingDeps
<1> QED
    BY <1>2 DEF mergeWorkspace, members, read

LEMMA JsDeps ==
    ASSUME NEW F, NEW S, Holding(F, S), NEW file \in DOMAIN F
    PROVE  traverseJsWorkspaces(F, file).deps \subseteq S
<1> DEFINE Yaml     == {f \in DOMAIN F : f = File(file.dir, "pnpm-workspace.yaml")}
           Read(M)  == {file} \cup Yaml \cup {File(m, "package.json") : m \in M}
<1>1. ASSUME NEW M, \A m \in M : Has(F, m, "package.json"), NEW extras
      PROVE  Reading(F, Read(M), Scan(file.dir, "package.json", file, M, extras)).deps \subseteq S
    <2>1. Read(M) \subseteq DOMAIN F
        BY <1>1 DEF Has
    <2> HIDE DEF Read
    <2> QED
        BY <2>1, ReadingDeps
<1> HIDE DEF Yaml
<1>2. \A M, extras : (\A m \in M : Has(F, m, "package.json")) =>
         Reading(F, {file} \cup Yaml \cup {File(m, "package.json") : m \in M},
                 Scan(file.dir, "package.json", file, M, extras)).deps \subseteq S
    BY <1>1
<1> QED
    BY <1>2 DEF traverseJsWorkspaces, Yaml

LEMMA GradleDeps ==
    ASSUME NEW F, NEW S, Holding(F, S), NEW file \in DOMAIN F
    PROVE  discoverGradleProjects(F, file).deps \subseteq S
<1>1. \A members, extras : extras \subseteq DOMAIN F =>
        Reading(F, {file} \cup extras, Scan(file.dir, "libs.versions.toml", file, members, extras)).deps \subseteq S
    <2> SUFFICES ASSUME NEW members, NEW extras, extras \subseteq DOMAIN F
                 PROVE  Reading(F, {file} \cup extras,
                            Scan(file.dir, "libs.versions.toml", file, members, extras)).deps \subseteq S
        OBVIOUS
    <2>1. {file} \cup extras \subseteq DOMAIN F
        OBVIOUS
    <2> QED
        BY <2>1, ReadingDeps
<1>2. Reading(F, {file}, Scan(file.dir, "libs.versions.toml", file, {}, {})).deps \subseteq S
    BY ReadingDeps
<1> QED
    BY <1>1, <1>2 DEF discoverGradleProjects

\* The names of files that scans distinguish.
Projects == {"x.sln", "a.csproj", "b.csproj"}
Plain == {"pom.xml", "Cargo.toml", "composer.json", "go.work", "go.mod", "pyproject.toml", "Gemfile.lock",
          "requirements.txt", "Gemfile"}

LEMMA Priorities ==
    /\ DOMAIN MANIFEST_PRIORITY \subseteq Nat
    /\ \A i \in DOMAIN MANIFEST_PRIORITY :
          LET entry == MANIFEST_PRIORITY[i] IN
          /\ DOMAIN entry.names \subseteq Nat
          /\ \/ entry.type \in {"sln", "csproj"} /\ \A k \in DOMAIN entry.names : entry.names[k] \in Projects
             \/ /\ entry.type \in Plain \cup {"libs.versions.toml", "package.json"}
                /\ \A k \in DOMAIN entry.names : entry.names[k] = entry.type
          /\ entry.type = "sln" => \A k \in DOMAIN entry.names : entry.names[k] = "x.sln"
BY DEF MANIFEST_PRIORITY, Named, Entry, Projects, Plain

Dispatched(F, d, type, files, own) ==
    LET first == files[Min(own)] IN
    CASE type = "sln" -> SlnMatch(F, d, first)
      [] type = "csproj" -> handleCsprojMatch(F, d, files, own)
      [] type = "go.work" -> handleGoWorkMatch(F, first)
      [] type = "Cargo.toml" -> traverseCargoWorkspace(F, first)
      [] type = "pom.xml" -> traverseAggregatorPom(F, first)
      [] type = "libs.versions.toml" -> discoverGradleProjects(F, first)
      [] type = "package.json" -> traverseJsWorkspaces(F, first)
      [] OTHER -> Reading(F, {first}, Scan(d, type, first, {}, {}))

\* A directory is scanned by the first entry of the priorities that it has a file of.
LEMMA ScanIsDispatched ==
    ASSUME NEW F, NEW d, scanAtDir(F, d) # NoScan
    PROVE  \E type, files, own :
              LET first == files[Min(own)] IN
              /\ first \in DOMAIN F /\ Items(files, own) \subseteq DOMAIN F
              /\ \/ type \in {"sln", "csproj"} /\ first.name \in Projects
                 \/ type \in Plain \cup {"libs.versions.toml", "package.json"} /\ first.name = type
              /\ type = "sln" => first.name = "x.sln"
              /\ scanAtDir(F, d) = Dispatched(F, d, type, files, own)
<1> DEFINE hits  == {i \in DOMAIN MANIFEST_PRIORITY : matchManifestInDir(F, d, MANIFEST_PRIORITY[i]) # {}}
           entry == MANIFEST_PRIORITY[Min(hits)]
           files == [k \in DOMAIN entry.names |-> File(d, entry.names[k])]
           own   == matchManifestInDir(F, d, entry)
           first == files[Min(own)]
<1>1. hits # {}
    BY DEF scanAtDir
<1>2. Min(hits) \in hits
    <2>1. hits \in SUBSET Nat
        BY Priorities
    <2> HIDE DEF hits
    <2> QED
        BY <1>1, <2>1, MinIsFirst
<1>3. own \in SUBSET (DOMAIN entry.names) /\ own # {} /\ DOMAIN entry.names \subseteq Nat
    BY <1>2, Priorities DEF matchManifestInDir
<1>4. /\ \/ entry.type \in {"sln", "csproj"} /\ \A k \in DOMAIN entry.names : entry.names[k] \in Projects
         \/ /\ entry.type \in Plain \cup {"libs.versions.toml", "package.json"}
            /\ \A k \in DOMAIN entry.names : entry.names[k] = entry.type
      /\ entry.type = "sln" => \A k \in DOMAIN entry.names : entry.names[k] = "x.sln"
    BY <1>2, Priorities
<1>5. scanAtDir(F, d) = Dispatched(F, d, entry.type, files, own)
    BY <1>1 DEF scanAtDir, Dispatched
<1> HIDE DEF hits, entry
<1>6. \A k \in own : files[k] \in DOMAIN F /\ files[k].name = entry.names[k]
    BY DEF matchManifestInDir, Has, File
<1> HIDE DEF own, files
<1>7. Min(own) \in own
    BY <1>3, MinIsFirst
<1>8. first \in DOMAIN F /\ Items(files, own) \subseteq DOMAIN F /\ first.name = entry.names[Min(own)]
    BY <1>6, <1>7 DEF Items
<1>9. Min(own) \in DOMAIN entry.names
    BY <1>3, <1>7
<1>10. /\ \/ entry.type \in {"sln", "csproj"} /\ first.name \in Projects
          \/ entry.type \in Plain \cup {"libs.versions.toml", "package.json"} /\ first.name = entry.type
       /\ entry.type = "sln" => first.name = "x.sln"
    BY <1>4, <1>8, <1>9
<1> QED
    BY <1>5, <1>8, <1>10

\* Whatever is found in a directory, the dependencies of its scan are in its files.
LEMMA ScanDeps ==
    ASSUME NEW F, NEW S, Holding(F, S), NEW d
    PROVE  scanAtDir(F, d).deps \subseteq S
<1> SUFFICES ASSUME scanAtDir(F, d) # NoScan PROVE scanAtDir(F, d).deps \subseteq S
    BY EmptyScans
<1>1. PICK type, files, own :
         /\ files[Min(own)] \in DOMAIN F /\ Items(files, own) \subseteq DOMAIN F
         /\ scanAtDir(F, d) = Dispatched(F, d, type, files, own)
    BY ScanIsDispatched
<1> DEFINE first == files[Min(own)]
<1>2. first \in DOMAIN F /\ Items(files, own) \subseteq DOMAIN F
    BY <1>1
<1> HIDE DEF first
<1>3. \A t, memberName : mergeWorkspace(F, first, t, memberName).deps \subseteq S
    BY <1>2, WorkspaceDeps
<1>4. /\ handleGoWorkMatch(F, first).deps \subseteq S
      /\ traverseCargoWorkspace(F, first).deps \subseteq S
      /\ traverseAggregatorPom(F, first).deps \subseteq S
    BY <1>3, EmptyScans DEF handleGoWorkMatch, traverseCargoWorkspace, traverseAggregatorPom
<1>5. /\ SlnMatch(F, d, first).deps \subseteq S
      /\ handleCsprojMatch(F, d, files, own).deps \subseteq S
      /\ discoverGradleProjects(F, first).deps \subseteq S
      /\ traverseJsWorkspaces(F, first).deps \subseteq S
    BY <1>2, SlnMatchDeps, CsprojDeps, GradleDeps, JsDeps
<1>6. Reading(F, {first}, Scan(d, type, first, {}, {})).deps \subseteq S
    BY <1>2, ReadingDeps
<1>7. Dispatched(F, d, type, files, own).deps \subseteq S
    BY <1>4, <1>5, <1>6 DEF Dispatched, first
<1> QED
    BY <1>1, <1>7

\* Which members and which extra files a scan of a type may name.
Shaped(scan) ==
    \/ scan.type \in {"none", "thrown"}
    \/ scan.type \in {"sln", "csproj"} /\ scan.members = {} /\ scan.matched.name \in Projects
    \/ scan.type \in {"libs.versions.toml"} /\ scan.matched.name = scan.type
    \/ /\ scan.type = "package.json" /\ scan.matched.name = scan.type
       /\ \A f \in scan.extras : f.name = "pnpm-workspace.yaml"
    \/ scan.type \in Plain /\ scan.matched.name = scan.type /\ scan.extras = {}

\* Members are listed in order, and those of a solution are projects.
Listing(F) == \A f \in DOMAIN F :
    /\ DOMAIN F[f].members \subseteq Nat
    /\ f.name = "x.sln" => \A k \in DOMAIN F[f].members : F[f].members[k].name \in Projects

LEMMA ReadingShape ==
    ASSUME NEW F, NEW files, NEW root, NEW type, NEW matched, NEW members, NEW extras
    PROVE  LET scan == Reading(F, files, Scan(root, type, matched, members, extras)) IN
           \/ scan.type = "thrown"
           \/ scan.type = type /\ scan.matched = matched /\ scan.members = members /\ scan.extras = extras
BY DEF Reading, Scan, Thrown, NoScan

LEMMA SlnShape ==
    ASSUME NEW F, Listing(F), NEW sln \in DOMAIN F, sln.name = "x.sln", NEW root, NEW anchor
    PROVE  Shaped(handleSlnDispatch(F, sln, root, anchor))
<1> DEFINE all    == F[sln].members
           listed == Listed(F, sln)
           first  == all[Min(listed)]
           files  == {sln} \cup Items(all, listed) \cup PropsAbove(F, anchor)
           extras == {sln} \cup Items(all, listed \ {Min(listed)}) \cup PropsAbove(F, anchor)
           scan   == Reading(F, files, Scan(root, "sln", first, {}, extras))
<1>1. \/ handleSlnDispatch(F, sln, root, anchor) \in {Thrown, NoScan}
      \/ (listed # {} /\ handleSlnDispatch(F, sln, root, anchor) = scan)
    BY DEF handleSlnDispatch
<1>2. Shaped(Thrown) /\ Shaped(NoScan)
    BY DEF Shaped, Thrown, NoScan
<1>3. ASSUME listed # {} PROVE Shaped(scan)
    <2>1. listed \in SUBSET Nat /\ listed \subseteq DOMAIN all
        BY DEF Listed, Listing
    <2> HIDE DEF listed
    <2>2. Min(listed) \in listed
        BY <1>3, <2>1, MinIsFirst
    <2>3. first.name \in Projects
        BY <2>1, <2>2 DEF Listing
    <2> HIDE DEF first, files, extras
    <2>4. \/ scan.type = "thrown"
          \/ scan.type = "sln" /\ scan.matched = first /\ scan.members = {}
        BY ReadingShape
    <2> QED
        BY <2>3, <2>4 DEF Shaped
<1> QED
    BY <1>1, <1>2, <1>3

LEMMA CsprojShape ==
    ASSUME NEW F, Listing(F), NEW d, NEW files, NEW own, files[Min(own)].name \in Projects
    PROVE  Shaped(handleCsprojMatch(F, d, files, own))
<1> DEFINE slns   == Nearest(F, d, "x.sln")
           above  == {handleSlnDispatch(F, sln, d, d) : sln \in slns} \ {NoScan}
           kept   == Capped(own)
           first  == files[Min(own)]
           read   == slns \cup PropsAbove(F, d) \cup Items(files, kept)
           extras == Items(files, kept \ {Min(own)}) \cup PropsAbove(F, d)
           scan   == Reading(F, read, Scan(d, "csproj", first, {}, extras))
<1>1. \A s \in above : Shaped(s)
    <2>1. \A sln \in slns : sln \in DOMAIN F /\ sln.name = "x.sln"
        BY DEF Nearest
    <2> QED
        BY <2>1, SlnShape
<1>2. above # {} => (CHOOSE s \in above : TRUE) \in above
    <2> HIDE DEF above
    <2> QED
        OBVIOUS
<1>3. handleCsprojMatch(F, d, files, own) = IF above # {} THEN CHOOSE s \in above : TRUE ELSE scan
    BY DEF handleCsprojMatch
<1> HIDE DEF above, read, extras, first
<1>4. \/ scan.type = "thrown"
      \/ scan.type = "csproj" /\ scan.matched = first /\ scan.members = {}
    BY ReadingShape
<1>5. Shaped(scan)
    BY <1>4 DEF Shaped, first
<1> HIDE DEF scan
<1> QED
    BY <1>1, <1>2, <1>3, <1>5

\* Workspaces of these types watch no extra files.
LEMMA WorkspaceShape ==
    ASSUME NEW F, NEW file, NEW memberName, file.name \in Plain
    PROVE  Shaped(mergeWorkspace(F, file, file.name, memberName))
<1> DEFINE members == {m \in Declared(F, file) : Has(F, m, memberName)}
           read    == {file} \cup {File(m, memberName) : m \in members}
           scan    == Reading(F, read, Scan(file.dir, file.name, file, members, {}))
<1>1. mergeWorkspace(F, file, file.name, memberName) = scan
    BY DEF mergeWorkspace
<1> HIDE DEF members, read
<1>2. \/ scan.type = "thrown"
      \/ scan.type = file.name /\ scan.matched = file /\ scan.extras = {}
    BY ReadingShape
<1> HIDE DEF scan
<1> QED
    BY <1>1, <1>2 DEF Shaped

LEMMA JsShape ==
    ASSUME NEW F, NEW file, file.name = "package.json"
    PROVE  Shaped(traverseJsWorkspaces(F, file))
<1> DEFINE Yaml == {f \in DOMAIN F : f = File(file.dir, "pnpm-workspace.yaml")}
<1>1. PICK read, members, extras :
         /\ extras \subseteq Yaml
         /\ traverseJsWorkspaces(F, file) = Reading(F, read, Scan(file.dir, "package.json", file, members, extras))
    BY Zenon DEF traverseJsWorkspaces
<1>2. \A f \in extras : f.name = "pnpm-workspace.yaml"
    BY <1>1 DEF File
<1> DEFINE scan == Reading(F, read, Scan(file.dir, "package.json", file, members, extras))
<1>3. \/ scan.type = "thrown"
      \/ scan.type = "package.json" /\ scan.matched = file /\ scan.extras = extras
    BY ReadingShape
<1> HIDE DEF scan
<1>4. Shaped(scan)
    BY <1>2, <1>3 DEF Shaped
<1> QED
    BY <1>1, <1>4 DEF scan

LEMMA GradleShape ==
    ASSUME NEW F, NEW file, file.name = "libs.versions.toml"
    PROVE  Shaped(discoverGradleProjects(F, file))
<1>1. PICK read, members, extras : discoverGradleProjects(F, file) =
          Reading(F, read, Scan(file.dir, "libs.versions.toml", file, members, extras))
    BY Zenon DEF discoverGradleProjects
<1> DEFINE scan == Reading(F, read, Scan(file.dir, "libs.versions.toml", file, members, extras))
<1>2. \/ scan.type = "thrown"
      \/ scan.type = "libs.versions.toml" /\ scan.matched = file
    BY ReadingShape
<1> HIDE DEF scan
<1>3. Shaped(scan)
    BY <1>2 DEF Shaped
<1> QED
    BY <1>1, <1>3 DEF scan

LEMMA SlnMatchShape ==
    ASSUME NEW F, Listing(F), NEW d, NEW sln \in DOMAIN F, sln.name = "x.sln"
    PROVE  Shaped(SlnMatch(F, d, sln))
<1> DEFINE alone == Reading(F, {sln}, Scan(d, "sln", sln, {}, {}))
<1>1. \A anchor : Shaped(handleSlnDispatch(F, sln, d, anchor))
    BY SlnShape
<1>2. Shaped(alone)
    <2>1. \/ alone.type = "thrown"
          \/ alone.type = "sln" /\ alone.matched = sln /\ alone.members = {}
        BY ReadingShape
    <2> HIDE DEF alone
    <2> QED
        BY <2>1 DEF Shaped, Projects
<1> HIDE DEF alone
<1>3. \E anchor : SlnMatch(F, d, sln) \in {alone, handleSlnDispatch(F, sln, d, anchor)}
    BY DEF SlnMatch, alone
<1> QED
    BY <1>1, <1>2, <1>3

LEMMA ScanShape ==
    ASSUME NEW F, Listing(F), NEW d
    PROVE  Shaped(scanAtDir(F, d))
<1>0. Shaped(NoScan) /\ Shaped(Thrown)
    BY DEF Shaped, Thrown, NoScan
<1> SUFFICES ASSUME scanAtDir(F, d) # NoScan PROVE Shaped(scanAtDir(F, d))
    BY <1>0
<1>1. PICK type, files, own :
         /\ files[Min(own)] \in DOMAIN F
         /\ \/ type \in {"sln", "csproj"} /\ files[Min(own)].name \in Projects
            \/ type \in Plain \cup {"libs.versions.toml", "package.json"} /\ files[Min(own)].name = type
         /\ type = "sln" => files[Min(own)].name = "x.sln"
         /\ scanAtDir(F, d) = Dispatched(F, d, type, files, own)
    BY ScanIsDispatched
<1> DEFINE first == files[Min(own)]
           alone == Reading(F, {first}, Scan(d, type, first, {}, {}))
<1>2. type = "csproj" => Shaped(handleCsprojMatch(F, d, files, own))
    BY <1>1, CsprojShape DEF Plain
<1>3. /\ first \in DOMAIN F
      /\ type \in Plain \cup {"libs.versions.toml", "package.json"} => first.name = type
      /\ type = "sln" => first.name = "x.sln"
      /\ type \in {"sln", "csproj", "libs.versions.toml", "package.json"} \cup Plain
    BY <1>1 DEF Plain
<1> HIDE DEF first
<1>4. type = "sln" => Shaped(SlnMatch(F, d, first))
    BY <1>3, SlnMatchShape
<1>5. type \in Plain => \A memberName : Shaped(mergeWorkspace(F, first, type, memberName))
    BY <1>3, WorkspaceShape
<1>6. /\ type = "go.work" => Shaped(handleGoWorkMatch(F, first))
      /\ type = "Cargo.toml" => Shaped(traverseCargoWorkspace(F, first))
      /\ type = "pom.xml" => Shaped(traverseAggregatorPom(F, first))
    BY <1>0, <1>5 DEF Plain, handleGoWorkMatch, traverseCargoWorkspace, traverseAggregatorPom
<1>7. /\ type = "libs.versions.toml" => Shaped(discoverGradleProjects(F, first))
      /\ type = "package.json" => Shaped(traverseJsWorkspaces(F, first))
    BY <1>3, GradleShape, JsShape
<1>8. type \in Plain => Shaped(alone)
    <2>1. \/ alone.type = "thrown"
          \/ alone.type = type /\ alone.matched = first /\ alone.extras = {}
        BY ReadingShape
    <2> HIDE DEF alone
    <2> QED
        BY <1>3, <2>1 DEF Shaped
<1> HIDE DEF alone
<1>9. Shaped(Dispatched(F, d, type, files, own))
    BY <1>2, <1>3, <1>4, <1>6, <1>7, <1>8 DEF Dispatched, first, alone
<1> QED
    BY <1>1, <1>9

-----------------------------------------------------------------------------
(* The walk of the tree                                                    *)

LEMMA ImageIsFinite ==
    ASSUME NEW S, IsFiniteSet(S), NEW T, NEW g \in [S -> T]
    PROVE  IsFiniteSet({g[x] : x \in S})
<1>1. g \in Surjection(S, {g[x] : x \in S})
    BY DEF Surjection
<1> QED
    BY <1>1, FS_Surjection

LEMMA DirectoriesAreFinite ==
    ASSUME NEW F, IsFiniteSet(DOMAIN F), \A f \in DOMAIN F : f.dir \in Seq(Nat), NEW start
    PROVE  IsFiniteSet(Directories(F, start)) /\ Cardinality(Directories(F, start)) \in Nat
<1> DEFINE Above(f) == {SubSeq(f.dir, 1, k) : k \in 0..Len(f.dir)}
           aboves   == {Above(f) : f \in DOMAIN F}
<1>1. ASSUME NEW f \in DOMAIN F PROVE IsFiniteSet(Above(f))
    <2> DEFINE g == [k \in 0..Len(f.dir) |-> SubSeq(f.dir, 1, k)]
    <2>1. Len(f.dir) \in Nat
        OBVIOUS
    <2>2. IsFiniteSet(0..Len(f.dir))
        BY <2>1, FS_Interval
    <2>3. g \in [0..Len(f.dir) -> Above(f)]
        OBVIOUS
    <2>4. {g[k] : k \in 0..Len(f.dir)} = Above(f)
        OBVIOUS
    <2> HIDE DEF g, Above
    <2>5. IsFiniteSet({g[k] : k \in 0..Len(f.dir)})
        BY <2>2, <2>3, ImageIsFinite
    <2> QED
        BY <2>4, <2>5
<1>2. IsFiniteSet(aboves)
    <2> DEFINE g == [f \in DOMAIN F |-> Above(f)]
    <2> HIDE DEF Above
    <2>1. g \in [DOMAIN F -> aboves]
        OBVIOUS
    <2>2. {g[f] : f \in DOMAIN F} = aboves
        OBVIOUS
    <2> HIDE DEF g, aboves
    <2>3. IsFiniteSet({g[f] : f \in DOMAIN F})
        BY <2>1, ImageIsFinite
    <2> QED
        BY <2>2, <2>3
<1>3. IsFiniteSet(UNION aboves)
    <2>1. \A T \in aboves : IsFiniteSet(T)
        BY <1>1
    <2> HIDE DEF aboves
    <2> QED
        BY <1>2, <2>1, FS_UNION
<1>4. IsFiniteSet((UNION aboves) \cup {start})
    BY <1>3, FS_AddElement
<1>5. Directories(F, start) \subseteq (UNION aboves) \cup {start}
    BY DEF Directories
<1> HIDE DEF aboves
<1>6. IsFiniteSet(Directories(F, start))
    BY <1>4, <1>5, FS_Subset
<1> QED
    BY <1>6, FS_CardinalityType

Start == [results |-> <<>>, visited |-> {}, open |-> {}]
IsWalk(g, F, start, n) ==
    g = [k \in 0..n |-> IF k = 0 THEN Start ELSE Visited(F, g[k - 1], Ordered(F, start)[k], start)]

LEMMA WalkExists == ASSUME NEW F, NEW start, NEW n \in Nat PROVE \E g : IsWalk(g, F, start, n)
<1> DEFINE S == {m \in Nat : \E g : IsWalk(g, F, start, m)}
           Step(w, k) == Visited(F, w, Ordered(F, start)[k], start)
<1>1. 0 \in S
    <2>1. IsWalk([k \in 0..0 |-> Start], F, start, 0)
        BY DEF IsWalk
    <2> QED
        BY <2>1
<1>2. ASSUME NEW m \in S PROVE m + 1 \in S
    <2>1. PICK g : IsWalk(g, F, start, m)
        OBVIOUS
    <2> DEFINE h == [k \in 0..(m + 1) |-> IF k = m + 1 THEN Step(g[m], m + 1) ELSE g[k]]
    <2>2. m \in Nat /\ m + 1 \in Nat
        OBVIOUS
    <2>3. \A k \in 0..m : h[k] = g[k] /\ k # m + 1 /\ k \in 0..(m + 1)
        BY <2>2
    <2>4. \A k \in 0..m : g[k] = IF k = 0 THEN Start ELSE Step(g[k - 1], k)
        BY <2>1 DEF IsWalk
    <2>5. ASSUME NEW k \in 0..(m + 1) PROVE h[k] = IF k = 0 THEN Start ELSE Step(h[k - 1], k)
        <3>1. CASE k = m + 1
            <4>1. k # 0 /\ k - 1 = m /\ m \in 0..m
                BY <2>2, <3>1
            <4> QED
                BY <2>3, <3>1, <4>1
        <3>2. CASE k # m + 1
            <4>1. k \in 0..m /\ (k # 0 => k - 1 \in 0..m)
                BY <2>2, <3>2
            <4> QED
                BY <2>3, <2>4, <4>1
        <3> QED
            BY <3>1, <3>2
    <2>6. IsWalk(h, F, start, m + 1)
        BY <2>5 DEF IsWalk
    <2> HIDE DEF h
    <2> QED
        BY <2>2, <2>6
<1>3. S = Nat
    <2>1. S \in SUBSET Nat
        OBVIOUS
    <2> HIDE DEF S
    <2> QED
        BY <1>1, <1>2, <2>1, NaturalsByStep
<1> QED
    BY <1>3

\* A scan that the walk or the watcher keeps.
Usable(scan, S) == Found(scan) /\ scan.deps \subseteq S /\ Shaped(scan)
AllUsable(results, S) == \A i \in DOMAIN results : Usable(results[i], S)

\* However many directories there are, every scan of the walk has found a manifest.
LEMMA WalkIsUsable ==
    ASSUME NEW F, NEW S, Holding(F, S), Listing(F), NEW start, Cardinality(Directories(F, start)) \in Nat
    PROVE  AllUsable(scanProjectRecursive(F, start), S)
<1> DEFINE n == Cardinality(Directories(F, start))
           walk == CHOOSE g : IsWalk(g, F, start, n)
           order == Ordered(F, start)
           scans == {scanAtDir(F, order[k]) : k \in 1..n}
           kept == {scan \in scans : Found(scan)}
           Walked(w) == /\ w = [results |-> w.results, visited |-> w.visited, open |-> w.open]
                        /\ w.results \in Seq(kept)
           T == {m \in Nat : m <= n => Walked(walk[m])}
<1>1. IsWalk(walk, F, start, n)
    BY WalkExists
<1>2. scanProjectRecursive(F, start) = walk[n].results
    BY DEF scanProjectRecursive, IsWalk, Start
<1>3. \A k \in 0..n : walk[k] = IF k = 0 THEN Start ELSE Visited(F, walk[k - 1], order[k], start)
    BY <1>1 DEF IsWalk
<1> HIDE DEF walk, scans
<1>4. 0 \in T
    <2>1. walk[0] = Start
        BY <1>3
    <2> HIDE DEF kept
    <2>2. Walked(Start)
        BY DEF Start
    <2> QED
        BY <2>1, <2>2
<1>5. ASSUME NEW m \in T PROVE m + 1 \in T
    <2> SUFFICES ASSUME m + 1 <= n PROVE Walked(walk[m + 1])
        OBVIOUS
    <2>1. m \in Nat /\ m + 1 \in 1..n /\ (m + 1) - 1 = m /\ m + 1 # 0
        OBVIOUS
    <2>2. Walked(walk[m])
        BY <2>1
    <2> DEFINE w == walk[m]
               d == order[m + 1]
               scan == scanAtDir(F, d)
    <2>3. walk[m + 1] = Visited(F, w, d, start)
        BY <1>3, <2>1
    <2>4. Found(scan) => scan \in kept
        BY <2>1 DEF scans
    <2>5. Walked(Visited(F, w, d, start))
        <3> HIDE DEF w, d, kept
        <3>1. CASE Visited(F, w, d, start) = w
            BY <2>2, <3>1 DEF w
        <3>2. CASE Visited(F, w, d, start) = [w EXCEPT !.open = @ \cup {d}]
            BY <2>2, <3>2 DEF w
        <3>3. CASE Found(scan) /\ Visited(F, w, d, start) =
                      [w EXCEPT !.results = Append(@, scan), !.visited = @ \cup {d} \cup scan.members]
            <4>1. Append(w.results, scan) \in Seq(kept)
                BY <2>2, <2>4, <3>3 DEF w
            <4> QED
                BY <2>2, <3>3, <4>1 DEF w
        <3> QED
            BY <3>1, <3>2, <3>3 DEF Visited, Descends
    <2> QED
        BY <2>3, <2>5
<1>6. T = Nat
    <2>1. T \in SUBSET Nat
        OBVIOUS
    <2> HIDE DEF T
    <2> QED
        BY <1>4, <1>5, <2>1, NaturalsByStep
<1>7. walk[n].results \in Seq(kept)
    <2>1. n \in T /\ n <= n
        BY <1>6
    <2> QED
        BY <2>1
<1>8. \A scan \in kept : Usable(scan, S)
    BY ScanDeps, ScanShape DEF Usable, scans
<1> HIDE DEF kept
<1>9. AllUsable(walk[n].results, S)
    BY <1>7, <1>8 DEF AllUsable
<1> QED
    BY <1>2, <1>9

LEMMA ProjectScansAreUsable ==
    ASSUME NEW F, NEW S, Holding(F, S), Listing(F), NEW cwd, Cardinality(Directories(F, cwd)) \in Nat
    PROVE  AllUsable(ProjectScans(F, cwd), S)
<1>1. AllUsable(scanProjectRecursive(F, cwd), S)
    BY WalkIsUsable
<1>2. scanProject(F, cwd).deps \subseteq S /\ Shaped(scanProject(F, cwd))
    <2>1. scanProject(F, cwd) = NoScan \/ \E d : scanProject(F, cwd) = scanAtDir(F, d)
        BY DEF scanProject
    <2>2. Shaped(NoScan)
        BY DEF Shaped, NoScan
    <2> QED
        BY <2>1, <2>2, ScanDeps, ScanShape, EmptyScans
<1> QED
    BY <1>1, <1>2 DEF ProjectScans, AllUsable, Usable

-----------------------------------------------------------------------------
(* What a registry's answer leads to                                       *)

IsAnswer(a) ==
    /\ a.status \in {"missing", "down", "found"}
    /\ DOMAIN a.links \subseteq Nat
Linked(a) == {k \in DOMAIN a.links : a.links[k].repo # NoRepo}

\* The link at position k is taken, with the confidence its kind deserves.
Takes(a, k, result) ==
    /\ result = Resolved(a.links[k].repo, IF a.links[k].high THEN "high" ELSE "medium")
    /\ a.links[k].high \/ \A j \in Linked(a) : ~a.links[j].high

LEMMA LookupTakes ==
    ASSUME NEW a, IsAnswer(a), NEW ifDown, NEW ifUnlinked
    PROVE  LET result == Lookup(a, ifDown, ifUnlinked) IN
           \/ a.status = "missing" /\ result = Unresolved
           \/ a.status = "down" /\ result = ifDown
           \/ a.status = "found" /\ Linked(a) = {} /\ result = ifUnlinked
           \/ a.status = "found" /\ \E k \in Linked(a) : Takes(a, k, result)
<1> DEFINE K    == Linked(a)
           high == {k \in K : a.links[k].high}
           best == Primary(a.links, K)
<1>1. CASE K = {} \/ a.status # "found"
    BY <1>1 DEF Lookup, Linked, IsAnswer
<1>2. CASE K # {} /\ a.status = "found"
    <2>1. K \in SUBSET Nat /\ high \in SUBSET Nat
        BY DEF Linked, IsAnswer
    <2>2. best \in K /\ (a.links[best].high \/ \A j \in K : ~a.links[j].high)
        <3>1. best = IF high # {} THEN Min(high) ELSE Min(K)
            BY DEF Primary
        <3>2. CASE high # {}
            <4> HIDE DEF high, K
            <4>1. Min(high) \in high
                BY <2>1, <3>2, MinIsFirst
            <4> QED
                BY <3>1, <3>2, <4>1 DEF high
        <3>3. CASE high = {}
            <4> HIDE DEF high, K
            <4>1. Min(K) \in K
                BY <1>2, <2>1, MinIsFirst
            <4> QED
                BY <3>1, <3>3, <4>1 DEF high
        <3> QED
            BY <3>2, <3>3
    <2> HIDE DEF best
    <2>3. Lookup(a, ifDown, ifUnlinked) =
            Resolved(a.links[best].repo, IF a.links[best].high THEN "high" ELSE "medium")
        BY <1>2 DEF Lookup, Linked, best
    <2> QED
        BY <1>2, <2>2, <2>3 DEF Takes
<1> QED
    BY <1>1, <1>2

LEMMA FallbackIsGuess ==
    ASSUME NEW name
    PROVE  /\ fuzzyFallback(name).confidence \in {"low", "none"}
           /\ fuzzyFallback(name).repo \in {GuessOf[name], NoRepo}
           /\ Unresolved.confidence = "none" /\ Unresolved.repo = NoRepo
BY DEF fuzzyFallback, Unresolved, Resolved

LEMMA TakenIsBest ==
    ASSUME NEW R, NEW a, a.links \in Seq([high : BOOLEAN, repo : R]),
           NEW k \in Linked(a), NEW result, Takes(a, k, result)
    PROVE  LET links == {l \in ToSet(a.links) : l.repo # NoRepo} IN
           /\ result.confidence \in {"medium", "high"} /\ result.repo # NoRepo
           /\ [high |-> result.confidence = "high", repo |-> result.repo] \in links
           /\ result.confidence = "medium" => \A l \in links : ~l.high
<1> DEFINE links == {l \in ToSet(a.links) : l.repo # NoRepo}
           l == a.links[k]
<1>1. links = {a.links[j] : j \in Linked(a)}
    BY DEF Linked, ToSet
<1>2. l \in [high : BOOLEAN, repo : R] /\ l \in links /\ l.repo # NoRepo
    <2>1. k \in DOMAIN a.links /\ l.repo # NoRepo
        BY DEF Linked
    <2>2. ASSUME NEW L, a.links \in Seq(L) PROVE l \in L
        BY <2>1, <2>2
    <2>3. l \in links
        BY <1>1
    <2> QED
        BY <2>1, <2>2, <2>3
<1>3. /\ result.repo = l.repo /\ result.confidence = IF l.high THEN "high" ELSE "medium"
      /\ l.high \/ \A m \in links : ~m.high
    BY <1>1 DEF Takes, Resolved
<1> HIDE DEF l, links
<1>4. (result.confidence = "high") = l.high
    BY <1>2, <1>3
<1>5. [high |-> result.confidence = "high", repo |-> result.repo] = l
    BY <1>2, <1>3, <1>4
<1>6. result.confidence = "medium" => \A m \in links : ~m.high
    BY <1>3
<1> QED
    BY <1>2, <1>3, <1>5, <1>6 DEF links

\* A resolution rests on the best link of the document that was read, or is a guess that
\* the code may make: for every package of every registry, and any number of links.
THEOREM ResolutionIsSourced ==
    ASSUME NEW R, NEW name, NEW ecosystem \in Ecosystems, NEW first, NEW second,
           first.status \in {"missing", "down", "found"}, second.status \in {"missing", "down", "found"},
           first.links \in Seq([high : BOOLEAN, repo : R]), second.links \in Seq([high : BOOLEAN, repo : R])
    PROVE  IsSourced(name, ecosystem, first, second)
<1> DEFINE result == resolveRepo(name, ecosystem, first, second)
           read   == IF ecosystem \in {"maven", "nuget"} THEN second ELSE first
           links  == {l \in ToSet(read.links) : l.repo # NoRepo}
           Guess  == fuzzyFallback(name)
<1>1. IsAnswer(first) /\ IsAnswer(second)
    BY DEF IsAnswer
<1>2. IsAnswer(read) /\ read.links \in Seq([high : BOOLEAN, repo : R])
    BY <1>1
<1>3. links = {} <=> Linked(read) = {}
    BY DEF ToSet, Linked
<1> HIDE DEF read
<1>4. \A k \in Linked(read) : Takes(read, k, result) =>
        /\ result.confidence \in {"medium", "high"} /\ result.repo # NoRepo
        /\ [high |-> result.confidence = "high", repo |-> result.repo] \in links
        /\ result.confidence = "medium" => \A l \in links : ~l.high
    BY <1>2, TakenIsBest
<1> DEFINE Sourced ==
        /\ result.confidence = "low" =>
              /\ first.status # "missing"
              /\ first.status = "down" \/ (ecosystem \in {"cargo", "composer"} /\ links = {})
        /\ result.confidence \in {"medium", "high"} =>
              /\ [high |-> result.confidence = "high", repo |-> result.repo] \in links
              /\ result.confidence = "medium" => \A l \in links : ~l.high
        /\ first.status = "found" /\ read.status = "found" /\ links # {} => result.repo # NoRepo
<1> SUFFICES Sourced
    BY DEF IsSourced, read
<1>5. ASSUME NEW ifDown, NEW ifUnlinked, result = Lookup(read, ifDown, ifUnlinked)
      PROVE  \/ read.status = "missing" /\ result = Unresolved
             \/ read.status = "down" /\ result = ifDown
             \/ read.status = "found" /\ links = {} /\ result = ifUnlinked
             \/ read.status = "found" /\ \E k \in Linked(read) : Takes(read, k, result)
    BY <1>2, <1>3, <1>5, LookupTakes
<1>6. CASE ecosystem \in {"npm", "pypi", "gem"}
    <2>1. result = Lookup(read, Guess, Unresolved) /\ read = first
        BY <1>6 DEF resolveRepo, resolveNpm, resolvePyPI, resolveRubyGems, read
    <2> HIDE DEF result, links
    <2> QED
        BY <1>3, <1>4, <1>5, <2>1, FallbackIsGuess
<1>7. CASE ecosystem \in {"cargo", "composer"}
    <2>1. result = Lookup(read, Guess, Guess) /\ read = first
        BY <1>7 DEF resolveRepo, resolveCargo, resolveComposer, read
    <2> HIDE DEF result, links
    <2> QED
        BY <1>3, <1>4, <1>5, <1>7, <2>1, FallbackIsGuess
<1>8. CASE ecosystem = "go"
    <2>1. result = Lookup(read, Unresolved, Unresolved) /\ read = first
        BY <1>8 DEF resolveRepo, resolveGo, read
    <2> HIDE DEF result, links
    <2> QED
        BY <1>3, <1>4, <1>5, <2>1, FallbackIsGuess
<1>9. CASE ecosystem = "maven"
    <2>1. result = IF first.status = "found" THEN Lookup(read, Unresolved, Unresolved) ELSE Unresolved
        BY <1>9 DEF resolveRepo, resolveMaven, read
    <2> HIDE DEF result, links
    <2> QED
        BY <1>3, <1>4, <1>5, <2>1, FallbackIsGuess
<1>10. CASE ecosystem = "nuget"
    <2>1. \/ first.status = "down" /\ result = Guess
          \/ first.status = "missing" /\ result = Unresolved
          \/ first.status = "found" /\ result = Lookup(read, Unresolved, Unresolved)
        BY <1>10 DEF resolveRepo, resolveNuGet, read
    <2> HIDE DEF result, links
    <2> QED
        BY <1>3, <1>4, <1>5, <2>1, FallbackIsGuess
<1> QED
    BY <1>6, <1>7, <1>8, <1>9, <1>10 DEF Ecosystems

-----------------------------------------------------------------------------
(* Directories                                                             *)

Paths == Seq(Nat)

LEMMA PrefixIsPointwise ==
    ASSUME NEW d \in Paths, NEW e \in Paths
    PROVE  IsPrefix(d, e) <=> Len(d) <= Len(e) /\ \A k \in 1..Len(d) : d[k] = e[k]
<1>1. Len(d) \in Nat /\ Len(e) \in Nat /\ d \in [1..Len(d) -> Nat] /\ e \in [1..Len(e) -> Nat]
    BY DEF Paths
<1>2. ASSUME Len(d) <= Len(e)
      PROVE  /\ SubSeq(d, 1, Len(d)) = [k \in 1..Len(d) |-> d[k]]
             /\ SubSeq(e, 1, Len(d)) = [k \in 1..Len(d) |-> e[k]]
    BY <1>1, <1>2 DEF Paths
<1> QED
    BY <1>1, <1>2 DEF IsPrefix

LEMMA Above ==
    ASSUME NEW d \in Paths, NEW k \in 0..Len(d)
    PROVE  /\ SubSeq(d, 1, k) \in Paths /\ Len(SubSeq(d, 1, k)) = k
           /\ \A j \in 1..k : SubSeq(d, 1, k)[j] = d[j]
           /\ IsPrefix(SubSeq(d, 1, k), d)
<1>1. /\ SubSeq(d, 1, k) \in Paths /\ Len(SubSeq(d, 1, k)) = k
      /\ \A j \in 1..k : SubSeq(d, 1, k)[j] = d[j]
    BY DEF Paths
<1>2. k <= Len(d)
    BY DEF Paths
<1> QED
    BY <1>1, <1>2, PrefixIsPointwise

LEMMA SamePath ==
    ASSUME NEW d \in Paths, NEW e \in Paths, Len(d) = Len(e), \A k \in 1..Len(d) : d[k] = e[k]
    PROVE  d = e
BY DEF Paths

\* What is above a directory is one of its prefixes.
LEMMA PrefixIsAbove ==
    ASSUME NEW d \in Paths, NEW e \in Paths, IsPrefix(d, e)
    PROVE  d = SubSeq(e, 1, Len(d)) /\ Len(d) \in 0..Len(e)
<1>0. Len(d) \in Nat /\ Len(e) \in Nat
    BY DEF Paths
<1>1. Len(d) \in 0..Len(e) /\ \A k \in 1..Len(d) : d[k] = e[k]
    BY <1>0, PrefixIsPointwise
<1>2. SubSeq(e, 1, Len(d)) \in Paths /\ Len(SubSeq(e, 1, Len(d))) = Len(d)
      /\ \A k \in 1..Len(d) : SubSeq(e, 1, Len(d))[k] = d[k]
    BY <1>1, Above
<1> QED
    BY <1>1, <1>2, SamePath

LEMMA PrefixOrder ==
    /\ \A d \in Paths : IsPrefix(d, d)
    /\ \A d, e, f \in Paths : IsPrefix(d, e) /\ IsPrefix(e, f) => IsPrefix(d, f)
    /\ \A d, e \in Paths : IsPrefix(d, e) /\ IsPrefix(e, d) => d = e
    /\ \A d, e, f \in Paths : IsPrefix(d, f) /\ IsPrefix(e, f) => IsPrefix(d, e) \/ IsPrefix(e, d)
<1>0. \A d \in Paths : Len(d) \in Nat
    BY DEF Paths
<1>1. ASSUME NEW d \in Paths PROVE IsPrefix(d, d)
    BY <1>0, PrefixIsPointwise
<1>2. ASSUME NEW d \in Paths, NEW e \in Paths, NEW f \in Paths, IsPrefix(d, e), IsPrefix(e, f) PROVE IsPrefix(d, f)
    <2>1. /\ Len(d) <= Len(e) /\ \A k \in 1..Len(d) : d[k] = e[k]
          /\ Len(e) <= Len(f) /\ \A k \in 1..Len(e) : e[k] = f[k]
        BY <1>2, PrefixIsPointwise
    <2>2. Len(d) <= Len(f) /\ \A k \in 1..Len(d) : k \in 1..Len(e)
        BY <1>0, <2>1
    <2> QED
        BY <2>1, <2>2, PrefixIsPointwise
<1>3. ASSUME NEW d \in Paths, NEW e \in Paths, IsPrefix(d, e), IsPrefix(e, d) PROVE d = e
    <2>1. Len(d) = Len(e) /\ \A k \in 1..Len(d) : d[k] = e[k]
        BY <1>0, <1>3, PrefixIsPointwise
    <2> QED
        BY <2>1, SamePath
<1>4. ASSUME NEW d \in Paths, NEW e \in Paths, NEW f \in Paths, IsPrefix(d, f), IsPrefix(e, f)
      PROVE  IsPrefix(d, e) \/ IsPrefix(e, d)
    <2>1. (\A k \in 1..Len(d) : d[k] = f[k]) /\ (\A k \in 1..Len(e) : e[k] = f[k])
        BY <1>4, PrefixIsPointwise
    <2>2. CASE Len(d) <= Len(e)
        <3>1. \A k \in 1..Len(d) : k \in 1..Len(e)
            BY <1>0, <2>2
        <3> QED
            BY <2>1, <2>2, <3>1, PrefixIsPointwise
    <2>3. CASE Len(e) <= Len(d)
        <3>1. \A k \in 1..Len(e) : k \in 1..Len(d)
            BY <1>0, <2>3
        <3> QED
            BY <2>1, <2>3, <3>1, PrefixIsPointwise
    <2> QED
        BY <1>0, <2>2, <2>3
<1> QED
    BY <1>1, <1>2, <1>3, <1>4

LEMMA BeforeIsOrder ==
    /\ \A d \in Paths : ~Before(d, d)
    /\ \A d, e, f \in Paths : Before(d, e) /\ Before(e, f) => Before(d, f)
    /\ \A d, e \in Paths : d # e => Before(d, e) \/ Before(e, d)
<1>0. \A d \in Paths : Len(d) \in Nat /\ DOMAIN d = 1..Len(d) /\ \A k \in 1..Len(d) : d[k] \in Nat
    BY DEF Paths
<1>1. ASSUME NEW d \in Paths PROVE ~Before(d, d)
    BY <1>0 DEF Before
<1>2. ASSUME NEW d \in Paths, NEW e \in Paths, NEW f \in Paths, Before(d, e), Before(e, f) PROVE Before(d, f)
    <2>1. CASE Len(d) < Len(e) \/ Len(e) < Len(f)
        BY <1>0, <1>2, <2>1 DEF Before
    <2>2. CASE Len(d) = Len(e) /\ Len(e) = Len(f)
        <3>1. PICK k \in 1..Len(d) : d[k] < e[k] /\ \A j \in 1..(k - 1) : d[j] = e[j]
            BY <1>0, <1>2, <2>2 DEF Before
        <3>2. PICK l \in 1..Len(d) : e[l] < f[l] /\ \A j \in 1..(l - 1) : e[j] = f[j]
            BY <1>0, <1>2, <2>2 DEF Before
        <3>3. \A j \in 1..Len(d) : d[j] \in Nat /\ e[j] \in Nat /\ f[j] \in Nat
            BY <1>0, <2>2
        <3>4. CASE k < l
            <4>1. d[k] < f[k] /\ \A j \in 1..(k - 1) : d[j] = f[j]
                BY <1>0, <3>1, <3>2, <3>3, <3>4
            <4> QED
                BY <1>0, <2>2, <4>1 DEF Before
        <3>5. CASE k >= l
            <4>1. d[l] < f[l] /\ \A j \in 1..(l - 1) : d[j] = f[j]
                BY <1>0, <3>1, <3>2, <3>3, <3>5
            <4> QED
                BY <1>0, <2>2, <4>1 DEF Before
        <3> QED
            BY <1>0, <3>4, <3>5
    <2> QED
        BY <1>0, <1>2, <2>1, <2>2 DEF Before
<1>3. ASSUME NEW d \in Paths, NEW e \in Paths, d # e PROVE Before(d, e) \/ Before(e, d)
    <2>1. CASE Len(d) # Len(e)
        BY <1>0, <2>1 DEF Before
    <2>2. CASE Len(d) = Len(e)
        <3> DEFINE K == {k \in 1..Len(d) : d[k] # e[k]}
        <3>1. K # {}
            BY <1>3, <2>2, SamePath
        <3>2. K \in SUBSET Nat
            OBVIOUS
        <3> HIDE DEF K
        <3>3. PICK k \in K : \A j \in K : k <= j
            BY <3>1, <3>2, LeastNatural
        <3>4. k \in 1..Len(d) /\ d[k] # e[k]
            BY DEF K
        <3>5. ASSUME NEW j \in 1..(k - 1) PROVE d[j] = e[j]
            <4>1. j \in 1..Len(d) /\ ~(k <= j)
                BY <1>0, <3>4
            <4> QED
                BY <3>3, <4>1 DEF K
        <3>6. d[k] < e[k] \/ e[k] < d[k]
            BY <1>0, <2>2, <3>4
        <3> QED
            BY <1>0, <2>2, <3>4, <3>5, <3>6 DEF Before
    <2> QED
        BY <2>1, <2>2
<1> QED
    BY <1>1, <1>2, <1>3

\* The k-th of a finite set of directories: each is met once, in order.
LEMMA RankIsBijective ==
    ASSUME NEW S \in SUBSET Paths, IsFiniteSet(S)
    PROVE  LET n == Cardinality(S)
               rank == [d \in S |-> Cardinality({e \in S : Before(e, d)})]
           IN  /\ n \in Nat /\ rank \in [S -> 0..(n - 1)]
               /\ \A d, e \in S : Before(d, e) => rank[d] < rank[e]
               /\ \A k \in 0..(n - 1) : \E d \in S : rank[d] = k
<1> DEFINE n == Cardinality(S)
           Prior(d) == {e \in S : Before(e, d)}
           rank == [d \in S |-> Cardinality(Prior(d))]
<1>1. n \in Nat
    BY FS_CardinalityType
<1>2. ASSUME NEW d \in S PROVE IsFiniteSet(Prior(d)) /\ Cardinality(Prior(d)) \in 0..(n - 1)
    <2>1. Prior(d) \in SUBSET S /\ d \notin Prior(d)
        BY BeforeIsOrder
    <2>2. Prior(d) # S
        BY <2>1
    <2> HIDE DEF Prior
    <2>3. IsFiniteSet(Prior(d)) /\ Cardinality(Prior(d)) <= n /\ Cardinality(Prior(d)) # n
        BY <2>1, <2>2, FS_Subset
    <2>4. Cardinality(Prior(d)) \in Nat
        BY <2>3, FS_CardinalityType
    <2> QED
        BY <1>1, <2>3, <2>4
<1>3. rank \in [S -> 0..(n - 1)]
    <2> HIDE DEF Prior, n
    <2> QED
        BY <1>2
<1>4. ASSUME NEW d \in S, NEW e \in S, Before(d, e) PROVE rank[d] < rank[e]
    <2>1. Prior(d) \in SUBSET Prior(e) /\ d \in Prior(e) /\ d \notin Prior(d)
        BY <1>4, BeforeIsOrder
    <2>2. Prior(d) # Prior(e)
        BY <2>1
    <2>3. IsFiniteSet(Prior(e))
        BY <1>2
    <2>4. Cardinality(Prior(d)) \in Nat /\ Cardinality(Prior(e)) \in Nat
        <3> HIDE DEF Prior
        <3> QED
            BY <1>2
    <2>5. Cardinality(Prior(d)) <= Cardinality(Prior(e)) /\ Cardinality(Prior(d)) # Cardinality(Prior(e))
        <3> HIDE DEF Prior
        <3> QED
            BY <2>1, <2>2, <2>3, FS_Subset
    <2> QED
        BY <2>4, <2>5
<1>5. rank \in Surjection(S, 0..(n - 1))
    <2>1. ASSUME NEW d \in S, NEW e \in S, d # e PROVE rank[d] # rank[e]
        <3>1. Before(d, e) \/ Before(e, d)
            BY <2>1, BeforeIsOrder
        <3>2. rank[d] < rank[e] \/ rank[e] < rank[d]
            BY <1>4, <3>1
        <3>3. rank[d] \in Int /\ rank[e] \in Int
            <4> HIDE DEF rank
            <4>1. rank[d] \in 0..(n - 1) /\ rank[e] \in 0..(n - 1)
                BY <1>3
            <4> QED
                BY <4>1
        <3> HIDE DEF rank
        <3> QED
            BY <3>2, <3>3
    <2> HIDE DEF rank
    <2>2. rank \in Injection(S, 0..(n - 1))
        BY <1>3, <2>1 DEF Injection, IsInjective
    <2>3. IsFiniteSet(0..(n - 1)) /\ Cardinality(0..(n - 1)) = n
        BY <1>1, FS_Interval
    <2> QED
        BY <2>2, <2>3, FS_Injection
<1>6. \A k \in 0..(n - 1) : \E d \in S : rank[d] = k
    <2> HIDE DEF rank, n
    <2> QED
        BY <1>5 DEF Surjection
<1> HIDE DEF n
<1> QED
    BY <1>1, <1>3, <1>4, <1>6 DEF n

\* The walk meets every directory once, those above it first.
LEMMA OrderedVisits ==
    ASSUME NEW F, NEW start, IsFiniteSet(Directories(F, start)), Directories(F, start) \subseteq Paths
    PROVE  LET n == Cardinality(Directories(F, start))
               order == Ordered(F, start)
           IN  /\ n \in Nat /\ order \in [1..n -> Directories(F, start)]
               /\ \A d \in Directories(F, start) : \E k \in 1..n : order[k] = d
               /\ \A j, k \in 1..n : Before(order[j], order[k]) => j < k
<1> DEFINE S == Directories(F, start)
           n == Cardinality(S)
           rank == [d \in S |-> Cardinality({e \in S : Before(e, d)})]
           order == Ordered(F, start)
<1>1. /\ n \in Nat /\ rank \in [S -> 0..(n - 1)]
      /\ \A d, e \in S : Before(d, e) => rank[d] < rank[e]
      /\ \A k \in 0..(n - 1) : \E d \in S : rank[d] = k
    <2> HIDE DEF S
    <2> QED
        BY RankIsBijective DEF S
<1>2. order = [k \in 1..n |-> CHOOSE d \in S : Cardinality({e \in S : Before(e, d)}) = k - 1]
    BY DEF Ordered
<1> HIDE DEF S, n, order
<1>3. ASSUME NEW k \in 1..n PROVE order[k] \in S /\ rank[order[k]] = k - 1
    <2>1. \E d \in S : Cardinality({e \in S : Before(e, d)}) = k - 1
        <3>1. k - 1 \in 0..(n - 1)
            BY <1>1
        <3>2. PICK d \in S : rank[d] = k - 1
            BY <1>1, <3>1
        <3> QED
            BY <3>2
    <2>2. order[k] = CHOOSE d \in S : Cardinality({e \in S : Before(e, d)}) = k - 1
        BY <1>2
    <2>3. order[k] \in S /\ Cardinality({e \in S : Before(e, order[k])}) = k - 1
        BY <2>1, <2>2
    <2> QED
        BY <2>3
<1> HIDE DEF rank
<1>4. order \in [1..n -> S]
    BY <1>2, <1>3
<1>5. \A j, k \in 1..n : Before(order[j], order[k]) => j < k
    <2> SUFFICES ASSUME NEW j \in 1..n, NEW k \in 1..n, Before(order[j], order[k]) PROVE j < k
        OBVIOUS
    <2>1. rank[order[j]] < rank[order[k]]
        BY <1>1, <1>3
    <2>2. j - 1 < k - 1
        BY <1>3, <2>1
    <2> QED
        BY <1>1, <2>2
<1>6. ASSUME NEW d \in S, NEW e \in S, rank[d] = rank[e] PROVE d = e
    <2>1. rank[d] \in Int /\ rank[e] \in Int
        BY <1>1
    <2>2. ~Before(d, e) /\ ~Before(e, d)
        BY <1>1, <1>6, <2>1
    <2> QED
        BY <2>2, BeforeIsOrder DEF S
<1>7. ASSUME NEW d \in S PROVE \E k \in 1..n : order[k] = d
    <2>1. rank[d] + 1 \in 1..n /\ (rank[d] + 1) - 1 = rank[d]
        BY <1>1
    <2>2. rank[order[rank[d] + 1]] = rank[d] /\ order[rank[d] + 1] \in S
        BY <1>3, <2>1
    <2> QED
        BY <1>6, <2>1, <2>2
<1> QED
    BY <1>1, <1>4, <1>5, <1>7 DEF S, n, order

\* Of a start and the directories above files, there are finitely many.
LEMMA DirectoriesArePaths ==
    ASSUME NEW F, \A f \in DOMAIN F : f.dir \in Paths, NEW start \in Paths
    PROVE  /\ Directories(F, start) \subseteq Paths
           /\ \A d \in Directories(F, start) : IsPrefix(start, d)
<1>1. \A f \in DOMAIN F : \A k \in 0..Len(f.dir) : SubSeq(f.dir, 1, k) \in Paths
    BY Above
<1> DEFINE above == UNION {{SubSeq(f.dir, 1, k) : k \in 0..Len(f.dir)} : f \in DOMAIN F}
<1>2. ASSUME NEW d \in above PROVE d \in Paths
    <2>1. PICK f \in DOMAIN F : \E k \in 0..Len(f.dir) : d = SubSeq(f.dir, 1, k)
        OBVIOUS
    <2> QED
        BY <1>1, <2>1
<1>3. \A d \in Directories(F, start) : d \in above \cup {start} /\ IsPrefix(start, d)
    BY DEF Directories
<1> HIDE DEF above
<1> QED
    BY <1>2, <1>3

-----------------------------------------------------------------------------
(* What a scan reads                                                       *)

IsFile(f) == f.dir \in Paths /\ f = File(f.dir, f.name)
WellFormed(F) ==
    /\ IsFiniteSet(DOMAIN F) /\ \A f \in DOMAIN F : IsFile(f)
    /\ \A f \in DOMAIN F :
          /\ DOMAIN F[f].members \subseteq Nat
          /\ \A k \in DOMAIN F[f].members :
                F[f].members[k] \in IF f.name = "x.sln" THEN [dir : Paths, name : {"a.csproj", "b.csproj"}] ELSE Paths

\* The dependencies are those of the files that were read.
Summed(F, scan) == scan.deps = UNION {F[f].deps : f \in scan.reads}

LEMMA ReadingFound ==
    ASSUME NEW F, NEW files, NEW root, NEW type, NEW matched, NEW members, NEW extras,
           Found(Reading(F, files, Scan(root, type, matched, members, extras)))
    PROVE  LET scan == Reading(F, files, Scan(root, type, matched, members, extras)) IN
           /\ scan.type = type /\ scan.root = root /\ scan.matched = matched
           /\ scan.members = members /\ scan.extras = extras
           /\ scan.reads = files /\ Summed(F, scan) /\ \A f \in files : ~F[f].bad
BY DEF Reading, Scan, Thrown, NoScan, Found, Summed

\* The files of a solution, with the shared versions above the anchor.
SlnReads(F, sln, anchor) == {sln} \cup Items(F[sln].members, Listed(F, sln)) \cup PropsAbove(F, anchor)

IsSlnScan(F, scan, sln, root, anchor) ==
    LET all    == F[sln].members
        listed == Listed(F, sln)
    IN  /\ listed # {} /\ scan.type = "sln" /\ scan.root = root /\ scan.members = {}
        /\ scan.matched = all[Min(listed)]
        /\ scan.extras = {sln} \cup Items(all, listed \ {Min(listed)}) \cup PropsAbove(F, anchor)
        /\ scan.reads = SlnReads(F, sln, anchor) /\ Summed(F, scan)
        /\ ~F[sln].bad

LEMMA SlnFound ==
    ASSUME NEW F, NEW sln, NEW root, NEW anchor, Found(handleSlnDispatch(F, sln, root, anchor))
    PROVE  IsSlnScan(F, handleSlnDispatch(F, sln, root, anchor), sln, root, anchor)
<1> DEFINE all    == F[sln].members
           listed == Listed(F, sln)
           files  == SlnReads(F, sln, anchor)
           extras == {sln} \cup Items(all, listed \ {Min(listed)}) \cup PropsAbove(F, anchor)
           scan   == Reading(F, files, Scan(root, "sln", all[Min(listed)], {}, extras))
<1>1. listed # {} /\ handleSlnDispatch(F, sln, root, anchor) = scan
    BY DEF handleSlnDispatch, Found, NoScan, Thrown, SlnReads
<1>3. sln \in files
    BY DEF SlnReads
<1> HIDE DEF listed, all, files, extras
<1>2. /\ scan.type = "sln" /\ scan.root = root /\ scan.members = {}
      /\ scan.matched = all[Min(listed)] /\ scan.extras = extras /\ scan.reads = files
      /\ Summed(F, scan) /\ \A f \in files : ~F[f].bad
    <2>1. Found(Reading(F, files, Scan(root, "sln", all[Min(listed)], {}, extras)))
        BY <1>1
    <2> QED
        BY <2>1, ReadingFound
<1> HIDE DEF scan
<1> QED
    BY <1>1, <1>2, <1>3 DEF IsSlnScan, listed, all, files, extras

-----------------------------------------------------------------------------
(* The entry a directory is scanned by                                     *)

Hits(F, d) == {i \in 1..13 : matchManifestInDir(F, d, MANIFEST_PRIORITY[i]) # {}}
Type(i) == MANIFEST_PRIORITY[i].type
First(i, d) == File(d, Type(i))
Solution(d) == File(d, "x.sln")
ProjectsIn(d) == [k \in 1..2 |-> File(d, <<"a.csproj", "b.csproj">>[k])]
OwnOf(F, d) == {k \in 1..2 : ProjectsIn(d)[k] \in DOMAIN F}

LEMMA Entries ==
    /\ DOMAIN MANIFEST_PRIORITY = 1..13
    /\ MANIFEST_PRIORITY[2] = Entry("sln", <<"x.sln">>)
    /\ MANIFEST_PRIORITY[3] = Entry("csproj", <<"a.csproj", "b.csproj">>)
    /\ \A i \in 1..13 \ {2, 3} : MANIFEST_PRIORITY[i] = Entry(Type(i), <<Type(i)>>)
    /\ \A i \in 1..13 \ {2, 3} : Type(i) \in Plain \cup {"package.json", "libs.versions.toml"}
    /\ \A i, j \in 1..13 : Type(i) = Type(j) => i = j
    /\ Type(1) = "pom.xml" /\ Type(4) = "Cargo.toml" /\ Type(6) = "go.work"
    /\ Type(9) = "package.json" /\ Type(12) = "libs.versions.toml"
BY DEF MANIFEST_PRIORITY, Named, Entry, Plain, Type

LEMMA HitsAreFiles ==
    ASSUME NEW F, NEW d, NEW i \in 1..13
    PROVE  /\ i \notin {2, 3} => (i \in Hits(F, d) <=> First(i, d) \in DOMAIN F)
           /\ i = 2 => (i \in Hits(F, d) <=> Solution(d) \in DOMAIN F)
           /\ i = 3 => (i \in Hits(F, d) <=> OwnOf(F, d) # {})
<1>1. CASE i \notin {2, 3}
    <2>1. MANIFEST_PRIORITY[i] = Entry(Type(i), <<Type(i)>>)
        BY <1>1, Entries
    <2>2. matchManifestInDir(F, d, MANIFEST_PRIORITY[i]) = {k \in 1..1 : File(d, Type(i)) \in DOMAIN F}
        BY <2>1 DEF matchManifestInDir, Entry, Has
    <2>3. 1 \in 1..1
        OBVIOUS
    <2> QED
        BY <1>1, <2>2, <2>3 DEF Hits, First
<1>2. CASE i = 2
    <2>1. matchManifestInDir(F, d, MANIFEST_PRIORITY[i]) = {k \in 1..1 : File(d, "x.sln") \in DOMAIN F}
        BY <1>2, Entries DEF matchManifestInDir, Entry, Has
    <2>2. 1 \in 1..1
        OBVIOUS
    <2> QED
        BY <1>2, <2>1, <2>2 DEF Hits, Solution
<1>3. CASE i = 3
    <2>1. matchManifestInDir(F, d, MANIFEST_PRIORITY[i]) = OwnOf(F, d)
        BY <1>3, Entries DEF matchManifestInDir, Entry, Has, OwnOf, ProjectsIn
    <2> QED
        BY <1>3, <2>1 DEF Hits
<1> QED
    BY <1>1, <1>2, <1>3

\* A directory with a manifest is scanned by the first entry that has a file there.
LEMMA ScanCases ==
    ASSUME NEW F, NEW d, Found(scanAtDir(F, d))
    PROVE  \E i \in Hits(F, d) :
              /\ \A j \in Hits(F, d) : i <= j
              /\ i = 1 => scanAtDir(F, d) = traverseAggregatorPom(F, First(i, d))
              /\ i = 2 => scanAtDir(F, d) = SlnMatch(F, d, Solution(d))
              /\ i = 3 => scanAtDir(F, d) = handleCsprojMatch(F, d, ProjectsIn(d), OwnOf(F, d))
              /\ i = 4 => scanAtDir(F, d) = traverseCargoWorkspace(F, First(i, d))
              /\ i = 6 => scanAtDir(F, d) = handleGoWorkMatch(F, First(i, d))
              /\ i = 9 => scanAtDir(F, d) = traverseJsWorkspaces(F, First(i, d))
              /\ i = 12 => scanAtDir(F, d) = discoverGradleProjects(F, First(i, d))
              /\ i \notin {1, 2, 3, 4, 6, 9, 12} =>
                    scanAtDir(F, d) = Reading(F, {First(i, d)}, Scan(d, Type(i), First(i, d), {}, {}))
<1> DEFINE i     == Min(Hits(F, d))
           entry == MANIFEST_PRIORITY[i]
           files == [k \in DOMAIN entry.names |-> File(d, entry.names[k])]
           own   == matchManifestInDir(F, d, entry)
<1>1. Hits(F, d) = {j \in DOMAIN MANIFEST_PRIORITY : matchManifestInDir(F, d, MANIFEST_PRIORITY[j]) # {}}
    BY Entries DEF Hits
<1>2. Hits(F, d) # {} /\ scanAtDir(F, d) = Dispatched(F, d, entry.type, files, own)
    BY <1>1 DEF scanAtDir, Found, NoScan, Dispatched
<1>3. i \in Hits(F, d) /\ i \in 1..13 /\ \A j \in Hits(F, d) : i <= j
    <2>1. Hits(F, d) \in SUBSET Nat
        BY DEF Hits
    <2>2. Hits(F, d) \subseteq 1..13
        BY DEF Hits
    <2> QED
        BY <1>2, <2>1, <2>2, MinIsFirst
<1> HIDE DEF i
<1>4. CASE i = 2
    <2>1. entry.type = "sln" /\ entry.names = <<"x.sln">>
        BY <1>4, Entries DEF Entry
    <2>2. own = {1} /\ files[1] = Solution(d)
        BY <1>3, <1>4, <2>1 DEF matchManifestInDir, Hits, Solution
    <2>3. Min(own) = 1
        BY <2>2, MinIsFirst
    <2> HIDE DEF own, files
    <2>4. scanAtDir(F, d) = SlnMatch(F, d, Solution(d))
        BY <1>2, <2>1, <2>2, <2>3 DEF Dispatched
    <2> QED
        BY <1>3, <1>4, <2>4
<1>5. CASE i = 3
    <2>1. entry.type = "csproj" /\ entry.names = <<"a.csproj", "b.csproj">>
        BY <1>5, Entries DEF Entry
    <2>2. own = OwnOf(F, d) /\ files = ProjectsIn(d)
        BY <2>1 DEF matchManifestInDir, OwnOf, ProjectsIn, Has
    <2> HIDE DEF own, files
    <2>3. scanAtDir(F, d) = handleCsprojMatch(F, d, ProjectsIn(d), OwnOf(F, d))
        BY <1>2, <2>1, <2>2 DEF Dispatched
    <2> QED
        BY <1>3, <1>5, <2>3
<1>6. CASE i \notin {2, 3}
    <2>1. entry.type = Type(i) /\ entry.names = <<Type(i)>>
        <3>1. entry = Entry(Type(i), <<Type(i)>>)
            BY <1>3, <1>6, Entries
        <3> QED
            BY <3>1 DEF Entry
    <2>2. own = {1} /\ files[1] = First(i, d)
        BY <1>3, <2>1 DEF matchManifestInDir, Hits, First
    <2>3. Min(own) = 1
        BY <2>2, MinIsFirst
    <2> HIDE DEF own, files
    <2>4. scanAtDir(F, d) = Dispatched(F, d, Type(i), files, own) /\ files[Min(own)] = First(i, d)
        BY <1>2, <2>1, <2>2, <2>3
    <2>5. \A j \in 1..13 : Type(j) = Type(i) => i = j
        BY <1>3, Entries
    <2>6. Type(i) \notin {"sln", "csproj"}
        BY <1>3, <1>6, Entries DEF Plain
    <2>7. /\ i = 1 => scanAtDir(F, d) = traverseAggregatorPom(F, First(i, d))
          /\ i = 4 => scanAtDir(F, d) = traverseCargoWorkspace(F, First(i, d))
          /\ i = 6 => scanAtDir(F, d) = handleGoWorkMatch(F, First(i, d))
          /\ i = 9 => scanAtDir(F, d) = traverseJsWorkspaces(F, First(i, d))
          /\ i = 12 => scanAtDir(F, d) = discoverGradleProjects(F, First(i, d))
        BY <2>4, Entries DEF Dispatched
    <2>8. i \notin {1, 2, 3, 4, 6, 9, 12} =>
              Type(i) \notin {"sln", "csproj", "go.work", "Cargo.toml", "pom.xml", "libs.versions.toml", "package.json"}
        BY <2>5, <2>6, Entries
    <2>9. i \notin {1, 2, 3, 4, 6, 9, 12} =>
              scanAtDir(F, d) = Reading(F, {First(i, d)}, Scan(d, Type(i), First(i, d), {}, {}))
        BY <2>4, <2>8 DEF Dispatched
    <2> QED
        BY <1>3, <1>6, <2>7, <2>9
<1> QED
    BY <1>4, <1>5, <1>6

BuildFiles == {"pnpm-workspace.yaml", "settings.gradle", "build.gradle"}

\* Files of other kinds than .NET's, in directory d or below.
Below(files, d) == \A f \in files : f.name \notin Projects /\ f.dir \in Paths /\ IsPrefix(d, f.dir)

\* Where the files of a scan of directory d are.
Placed(scan, d) ==
    /\ scan.root = d
    /\ \A m \in scan.members : m \in Paths /\ IsPrefix(d, m)
    /\ IF scan.type \in {"sln", "csproj"}
       THEN /\ scan.members = {} /\ scan.matched.name \in Projects
            /\ \A f \in scan.extras : f.name \in Projects \cup {"Directory.Packages.props"}
       ELSE /\ scan.matched = File(d, scan.type) /\ scan.type \in Plain \cup {"package.json", "libs.versions.toml"}
            /\ \A f \in scan.extras : f.name \in BuildFiles /\ f.dir \in Paths /\ IsPrefix(d, f.dir)
            /\ Below(scan.reads, d)

LEMMA PlainFound ==
    ASSUME NEW F, NEW d \in Paths, NEW type, type \in Plain,
           Found(Reading(F, {File(d, type)}, Scan(d, type, File(d, type), {}, {})))
    PROVE  LET scan == Reading(F, {File(d, type)}, Scan(d, type, File(d, type), {}, {})) IN
           scan.reads = {File(d, type)} /\ scan.type = type /\ Summed(F, scan) /\ Placed(scan, d)
<1> DEFINE file == File(d, type)
           files == {file}
           scan == Reading(F, files, Scan(d, type, file, {}, {}))
<1>1. Found(scan)
    OBVIOUS
<1> HIDE DEF file, files
<1>2. /\ scan.type = type /\ scan.root = d /\ scan.matched = file /\ scan.members = {} /\ scan.extras = {}
      /\ scan.reads = files /\ Summed(F, scan)
    BY <1>1, ReadingFound
<1>3. type \notin {"sln", "csproj"}
    BY DEF Plain
<1>5. Below(files, d)
    BY PrefixOrder DEF files, file, File, Below, Plain, Projects
<1> HIDE DEF scan
<1>4. scan.reads = files /\ scan.type = type /\ Summed(F, scan) /\ Placed(scan, d)
    BY <1>2, <1>3, <1>5 DEF Placed, file
<1> QED
    BY <1>4 DEF scan, files, file

Members(F, file, name) == {m \in Declared(F, file) : Has(F, m, name)}

LEMMA DeclaredPaths ==
    ASSUME NEW F, WellFormed(F), NEW file \in DOMAIN F, file.name # "x.sln"
    PROVE  Declared(F, file) \subseteq Paths
BY DEF Declared, Items, Capped, WellFormed

LEMMA WorkspaceFound ==
    ASSUME NEW F, WellFormed(F), NEW d \in Paths, NEW type \in Plain, File(d, type) \in DOMAIN F,
           NEW name, name \notin Projects, \A m \in Declared(F, File(d, type)) : IsPrefix(d, m),
           Found(mergeWorkspace(F, File(d, type), type, name))
    PROVE  LET scan == mergeWorkspace(F, File(d, type), type, name) IN
           /\ scan.reads = {File(d, type)} \cup {File(m, name) : m \in Members(F, File(d, type), name)}
           /\ scan.type = type /\ scan.members = Members(F, File(d, type), name)
           /\ Summed(F, scan) /\ Placed(scan, d)
<1> DEFINE file == File(d, type)
           members == Members(F, file, name)
           files == {file} \cup {File(m, name) : m \in members}
           scan == Reading(F, files, Scan(d, type, file, members, {}))
<1>0. type \notin {"sln", "csproj"} /\ file.name # "x.sln" /\ file.dir = d
    BY DEF Plain, File
<1>1. mergeWorkspace(F, file, type, name) = scan
    BY <1>0 DEF mergeWorkspace, Members
<1>2. \A m \in members : m \in Paths /\ IsPrefix(d, m)
    BY <1>0, DeclaredPaths DEF Members
<1>4. Below(files, d)
    <2>1. Below({file}, d)
        BY PrefixOrder DEF Below, File, Plain, Projects
    <2>2. \A m \in members : File(m, name).name = name /\ File(m, name).dir = m
        BY DEF File
    <2> HIDE DEF file, members
    <2> QED
        BY <1>2, <2>1, <2>2 DEF Below
<1> HIDE DEF file, members, files
<1>3. /\ scan.type = type /\ scan.root = d /\ scan.matched = file /\ scan.members = members /\ scan.extras = {}
      /\ scan.reads = files /\ Summed(F, scan)
    <2>1. Found(Reading(F, files, Scan(d, type, file, members, {})))
        BY <1>1 DEF file
    <2> QED
        BY <2>1, ReadingFound
<1> HIDE DEF scan
<1> QED
    BY <1>0, <1>1, <1>2, <1>3, <1>4 DEF Placed, file, files, members

LEMMA AggregatesFound ==
    ASSUME NEW F, WellFormed(F), NEW d \in Paths, NEW i \in {1, 4, 6}, First(i, d) \in DOMAIN F,
           NEW scan, Found(scan),
           scan = IF i = 1 THEN traverseAggregatorPom(F, First(i, d))
                  ELSE IF i = 4 THEN traverseCargoWorkspace(F, First(i, d))
                  ELSE handleGoWorkMatch(F, First(i, d))
    PROVE  LET name == IF i = 6 THEN "go.mod" ELSE Type(i) IN
           /\ scan.reads = {First(i, d)} \cup {File(m, name) : m \in Members(F, First(i, d), name)}
           /\ scan.type = Type(i) /\ Summed(F, scan) /\ Placed(scan, d)
<1> DEFINE name == IF i = 6 THEN "go.mod" ELSE Type(i)
           file == First(i, d)
<1>0. Type(1) = "pom.xml" /\ Type(4) = "Cargo.toml" /\ Type(6) = "go.work" /\ file.dir = d
    BY Entries DEF First, File
<1>1. Type(i) \in Plain /\ file = File(d, Type(i))
    BY <1>0 DEF Plain, First
<1>2. scan = mergeWorkspace(F, file, Type(i), name) /\ \A m \in Declared(F, file) : IsPrefix(d, m)
    BY <1>0 DEF traverseAggregatorPom, traverseCargoWorkspace, handleGoWorkMatch, Found, Thrown, NoScan, IsStrictPrefix
<1>3. name \notin Projects
    BY <1>0 DEF Projects
<1> HIDE DEF name, file
<1> QED
    BY <1>1, <1>2, <1>3, WorkspaceFound DEF file, name

\* The workspace patterns of a JavaScript project, and the directories below it among them.
Yaml(F, d) == {f \in DOMAIN F : f = File(d, "pnpm-workspace.yaml")}
Patterns(F, d) ==
    IF Yaml(F, d) = {} THEN F[File(d, "package.json")].members ELSE F[File(d, "pnpm-workspace.yaml")].members
Inside(F, d) == {k \in DOMAIN Patterns(F, d) : IsStrictPrefix(d, Patterns(F, d)[k])}
Uncapped(s) == \A K \in SUBSET DOMAIN s : Capped(K) = K

LEMMA JsFound ==
    ASSUME NEW F, WellFormed(F), NEW d \in Paths, File(d, "package.json") \in DOMAIN F,
           Found(traverseJsWorkspaces(F, File(d, "package.json")))
    PROVE  LET scan == traverseJsWorkspaces(F, File(d, "package.json"))
               members == {m \in Items(Patterns(F, d), Inside(F, d)) : Has(F, m, "package.json")}
           IN  /\ scan.type = "package.json" /\ Summed(F, scan) /\ Placed(scan, d)
               /\ {File(d, "package.json")} \cup Yaml(F, d) \subseteq scan.reads
               /\ Uncapped(Patterns(F, d)) =>
                     scan.reads = {File(d, "package.json")} \cup Yaml(F, d) \cup {File(m, "package.json") : m \in members}
<1> DEFINE file == File(d, "package.json")
           yaml == Yaml(F, d)
           all == Patterns(F, d)
           matches == {k \in Inside(F, d) : Exists(F, all[k])}
           members == {m \in Items(all, Capped(matches)) : Has(F, m, "package.json")}
           extras == IF Inside(F, d) = {} THEN {} ELSE yaml
           files == {file} \cup yaml \cup {File(m, "package.json") : m \in members}
           scan == Reading(F, files, Scan(d, "package.json", file, members, extras))
<1>0. yaml # {} => (CHOOSE f \in yaml : TRUE) = File(d, "pnpm-workspace.yaml")
    <2>1. yaml # {} => (CHOOSE f \in yaml : TRUE) \in yaml
        OBVIOUS
    <2> QED
        BY <2>1 DEF Yaml
<1>1. traverseJsWorkspaces(F, file) = scan
    <2>1. file.dir = d
        BY DEF File
    <2>2. all = IF yaml = {} THEN F[file].members ELSE F[CHOOSE f \in yaml : TRUE].members
        BY <1>0 DEF Patterns
    <2>3. traverseJsWorkspaces(F, file) =
            LET declared == IF yaml = {} THEN F[file].members ELSE F[CHOOSE f \in yaml : TRUE].members
                safe     == {k \in DOMAIN declared : IsStrictPrefix(d, declared[k])}
                found    == {k \in safe : Exists(F, declared[k])}
                ms       == {m \in Items(declared, Capped(found)) : Has(F, m, "package.json")}
            IN  Reading(F, {file} \cup yaml \cup {File(m, "package.json") : m \in ms},
                    Scan(d, "package.json", file, ms, IF safe = {} THEN {} ELSE yaml))
        BY <2>1, Zenon DEF traverseJsWorkspaces, Yaml
    <2> HIDE DEF file, yaml
    <2> QED
        BY <2>2, <2>3, Zenon DEF Inside
<1>2. \A m \in Items(all, Inside(F, d)) : m \in Paths /\ IsPrefix(d, m)
    <2>1. \A k \in DOMAIN all : all[k] \in Paths
        <3>1. file \in DOMAIN F /\ file.name # "x.sln" /\ File(d, "pnpm-workspace.yaml").name # "x.sln"
            BY DEF File
        <3>2. yaml # {} => File(d, "pnpm-workspace.yaml") \in DOMAIN F
            BY DEF Yaml
        <3> QED
            BY <3>1, <3>2 DEF Patterns, WellFormed
    <2> QED
        BY <2>1 DEF Items, Inside, IsStrictPrefix
<1>3. \A m \in members : m \in Items(all, Inside(F, d)) /\ Has(F, m, "package.json")
    BY DEF Items, Capped
<1>4. \A f \in extras : f.name \in BuildFiles /\ f.dir = d
    BY DEF Yaml, File, BuildFiles
<1>5. Uncapped(all) => members = {m \in Items(all, Inside(F, d)) : Has(F, m, "package.json")}
    <2> SUFFICES ASSUME Uncapped(all) PROVE members = {m \in Items(all, Inside(F, d)) : Has(F, m, "package.json")}
        OBVIOUS
    <2>1. matches \in SUBSET DOMAIN all
        BY DEF Inside
    <2>2. Capped(matches) = matches
        BY <2>1 DEF Uncapped
    <2>3. ASSUME NEW k \in Inside(F, d), Has(F, all[k], "package.json") PROVE k \in matches
        <3>1. all[k] \in Paths
            BY <1>2 DEF Items
        <3>2. IsPrefix(all[k], File(all[k], "package.json").dir)
            BY <3>1, PrefixOrder DEF File
        <3> QED
            BY <2>3, <3>2 DEF Has, Exists
    <2> QED
        BY <2>2, <2>3 DEF Items
<1>6. file = File(d, "package.json") /\ "package.json" \notin {"sln", "csproj"}
    OBVIOUS
<1>12. Below(files, d)
    <2>1. \A f \in {file} \cup yaml : f.name \in {"package.json", "pnpm-workspace.yaml"} /\ f.dir = d
        BY DEF File, Yaml
    <2>2. Below({file} \cup yaml, d)
        BY <2>1, PrefixOrder DEF Below, Projects
    <2>3. \A m : File(m, "package.json").name = "package.json" /\ File(m, "package.json").dir = m
        BY DEF File
    <2> HIDE DEF members, file, yaml, all
    <2>4. Below({File(m, "package.json") : m \in members}, d)
        BY <1>2, <1>3, <2>3 DEF Below, Projects
    <2> QED
        BY <2>2, <2>4 DEF Below
<1> HIDE DEF members, extras, file, yaml, all, matches, files
<1>7. /\ scan.type = "package.json" /\ scan.root = d /\ scan.matched = file /\ scan.members = members
      /\ scan.extras = extras /\ scan.reads = files /\ Summed(F, scan)
    <2>1. Found(scan)
        BY <1>1 DEF file
    <2> QED
        BY <2>1, ReadingFound
<1>8. IsPrefix(d, d)
    BY PrefixOrder
<1> HIDE DEF scan
<1>9. Placed(scan, d) /\ Summed(F, scan)
    BY <1>2, <1>3, <1>4, <1>6, <1>7, <1>8, <1>12 DEF Placed
<1>10. {file} \cup yaml \subseteq scan.reads
    BY <1>7 DEF files
<1>11. Uncapped(all) => scan.reads =
          {file} \cup yaml \cup {File(m, "package.json") : m \in {m \in Items(all, Inside(F, d)) : Has(F, m, "package.json")}}
    BY <1>5, <1>7 DEF files
<1> QED
    BY <1>1, <1>7, <1>9, <1>10, <1>11 DEF file, yaml, all

\* The build files of a Gradle project.
Settings(F, d) == {f \in DOMAIN F : f = File(d, "settings.gradle")}
Build(F, d) == {f \in DOMAIN F : f = File(d, "build.gradle")}
Subprojects(F, d) == {m \in UNION {ToSet(F[f].members) : f \in Settings(F, d)} : IsStrictPrefix(d, m)}
Builds(F, d) == {f \in {File(m, "build.gradle") : m \in Subprojects(F, d)} : f \in DOMAIN F}

LEMMA GradleFound ==
    ASSUME NEW F, WellFormed(F), NEW d \in Paths,
           Found(discoverGradleProjects(F, File(d, "libs.versions.toml")))
    PROVE  LET scan == discoverGradleProjects(F, File(d, "libs.versions.toml")) IN
           /\ scan.type = "libs.versions.toml" /\ Summed(F, scan) /\ Placed(scan, d)
           /\ scan.reads = {File(d, "libs.versions.toml")} \cup Settings(F, d) \cup Build(F, d) \cup Builds(F, d)
<1> DEFINE file == File(d, "libs.versions.toml")
           settings == Settings(F, d)
           build == Build(F, d)
           members == {m \in Subprojects(F, d) : Exists(F, m)}
           extras == settings \cup build \cup {f \in {File(m, "build.gradle") : m \in members} : f \in DOMAIN F}
           alone == settings \cup build = {}
           files == IF alone THEN {file} ELSE {file} \cup extras
           ms == IF alone THEN {} ELSE members
           xs == IF alone THEN {} ELSE extras
           scan == Reading(F, files, Scan(d, "libs.versions.toml", file, ms, xs))
<1>1. discoverGradleProjects(F, file) = scan
    <2>1. file.dir = d
        BY DEF File
    <2>2. discoverGradleProjects(F, file) =
            IF alone THEN Reading(F, {file}, Scan(d, "libs.versions.toml", file, {}, {}))
            ELSE Reading(F, {file} \cup extras, Scan(d, "libs.versions.toml", file, members, extras))
        <3>1. members = {m \in UNION {ToSet(F[f].members) : f \in settings} : IsStrictPrefix(d, m) /\ Exists(F, m)}
            BY DEF Subprojects
        <3> HIDE DEF members
        <3> QED
            BY <2>1, <3>1, Zenon DEF discoverGradleProjects, Settings, Build
    <2> HIDE DEF file, extras, members, alone
    <2> QED
        BY <2>2
<1>2. ASSUME NEW m \in Subprojects(F, d) PROVE m \in Paths /\ IsPrefix(d, m)
    <2>1. PICK f \in Settings(F, d) : m \in ToSet(F[f].members)
        BY DEF Subprojects
    <2>2. f \in DOMAIN F /\ f.name # "x.sln"
        BY <2>1 DEF Settings, File
    <2>3. \E k \in DOMAIN F[f].members : m = F[f].members[k]
        BY <2>1 DEF ToSet
    <2> QED
        BY <2>2, <2>3 DEF WellFormed, Subprojects, IsStrictPrefix
<1>3. ASSUME NEW m \in Subprojects(F, d), File(m, "build.gradle") \in DOMAIN F PROVE m \in members
    <2>1. IsPrefix(m, File(m, "build.gradle").dir)
        BY <1>2, PrefixOrder DEF File
    <2> QED
        BY <1>3, <2>1 DEF Exists
<1>4. extras = settings \cup build \cup Builds(F, d)
    BY <1>3 DEF Builds
<1>5. settings = {} => Builds(F, d) = {}
    BY DEF Builds, Subprojects
<1>6. files = {file} \cup settings \cup build \cup Builds(F, d)
    BY <1>4, <1>5
<1>7. \A f \in extras : f.name \in BuildFiles /\ f.dir \in Paths /\ IsPrefix(d, f.dir)
    <2>1. IsPrefix(d, d)
        BY PrefixOrder
    <2>2. \A f \in settings \cup build : f.name \in BuildFiles /\ f.dir = d
        BY DEF Settings, Build, File, BuildFiles
    <2>3. \A f \in Builds(F, d) : f.name \in BuildFiles /\ f.dir \in Subprojects(F, d)
        BY DEF Builds, File, BuildFiles
    <2> QED
        BY <1>2, <1>4, <2>1, <2>2, <2>3
<1>8. (\A m \in ms : m \in Paths /\ IsPrefix(d, m)) /\ xs \subseteq extras
    BY <1>2
<1>9. file = File(d, "libs.versions.toml") /\ "libs.versions.toml" \notin {"sln", "csproj"}
    OBVIOUS
<1>12. Below(files, d)
    <2>1. Below({file}, d)
        BY PrefixOrder DEF Below, File, Projects
    <2>2. Below(extras, d)
        BY <1>7 DEF Below, BuildFiles, Projects
    <2> HIDE DEF file, extras, alone
    <2> QED
        BY <2>1, <2>2 DEF Below
<1> HIDE DEF file, settings, build, members, extras, alone, files, ms, xs
<1>10. /\ scan.type = "libs.versions.toml" /\ scan.root = d /\ scan.matched = file /\ scan.members = ms
       /\ scan.extras = xs /\ scan.reads = files /\ Summed(F, scan)
    <2>1. Found(scan)
        BY <1>1 DEF file
    <2> QED
        BY <2>1, ReadingFound
<1> HIDE DEF scan
<1>11. Placed(scan, d) /\ Summed(F, scan)
    BY <1>7, <1>8, <1>9, <1>10, <1>12 DEF Placed
<1> QED
    BY <1>1, <1>6, <1>10, <1>11 DEF file, settings, build

LEMMA ListedPositions ==
    ASSUME NEW F, WellFormed(F), NEW sln \in DOMAIN F, sln.name = "x.sln"
    PROVE  /\ Listed(F, sln) \in SUBSET Nat
           /\ \A k \in Listed(F, sln) : F[sln].members[k] \in [dir : Paths, name : {"a.csproj", "b.csproj"}]
BY DEF Listed, WellFormed

LEMMA SlnPlaced ==
    ASSUME NEW F, WellFormed(F), NEW sln \in DOMAIN F, sln.name = "x.sln", NEW root, NEW anchor,
           Found(handleSlnDispatch(F, sln, root, anchor))
    PROVE  Placed(handleSlnDispatch(F, sln, root, anchor), root) /\ Summed(F, handleSlnDispatch(F, sln, root, anchor))
<1> DEFINE scan == handleSlnDispatch(F, sln, root, anchor)
           all == F[sln].members
           listed == Listed(F, sln)
<1>1. /\ listed # {} /\ scan.type = "sln" /\ scan.root = root /\ scan.members = {}
      /\ scan.matched = all[Min(listed)]
      /\ scan.extras = {sln} \cup Items(all, listed \ {Min(listed)}) \cup PropsAbove(F, anchor)
      /\ Summed(F, scan)
    <2>1. IsSlnScan(F, scan, sln, root, anchor)
        BY SlnFound
    <2> HIDE DEF scan
    <2> QED
        BY <2>1 DEF IsSlnScan
<1> HIDE DEF scan
<1>2. Min(listed) \in listed
    BY <1>1, ListedPositions, MinIsFirst
<1>3. \A k \in listed : all[k].name \in Projects
    BY ListedPositions DEF Projects
<1>4. \A f \in PropsAbove(F, anchor) : f.name = "Directory.Packages.props"
    BY DEF PropsAbove, Nearest
<1>5. \A f \in scan.extras : f.name \in Projects \cup {"Directory.Packages.props"}
    BY <1>1, <1>3, <1>4 DEF Items, Projects
<1> HIDE DEF listed, all
<1>6. Placed(scan, root) /\ Summed(F, scan)
    BY <1>1, <1>2, <1>3, <1>5 DEF Placed
<1> QED
    BY <1>6 DEF scan

\* A solution in its own directory, with the project its first name is for.
Anchor(F, d) ==
    IF Listed(F, Solution(d)) = {} THEN d ELSE F[Solution(d)].members[Min(Listed(F, Solution(d)))].dir

LEMMA SlnMatchFound ==
    ASSUME NEW F, WellFormed(F), NEW d, Solution(d) \in DOMAIN F, Found(SlnMatch(F, d, Solution(d)))
    PROVE  LET scan == SlnMatch(F, d, Solution(d)) IN
           /\ scan.type = "sln" /\ Placed(scan, d) /\ Summed(F, scan)
           /\ scan.reads = IF Listed(F, Solution(d)) = {} THEN {Solution(d)} ELSE SlnReads(F, Solution(d), Anchor(F, d))
<1> DEFINE sln == Solution(d)
           one == handleSlnDispatch(F, sln, d, Anchor(F, d))
           files == {sln}
           alone == Reading(F, files, Scan(d, "sln", sln, {}, {}))
<1>1. sln.name = "x.sln"
    BY DEF Solution, File
<1>2. SlnMatch(F, d, sln) = IF one = NoScan THEN alone ELSE one
    BY DEF SlnMatch, Anchor
<1>3. CASE one # NoScan
    <2>1. Found(one)
        BY <1>2, <1>3
    <2>2. Placed(one, d) /\ Summed(F, one)
        BY <1>1, <2>1, SlnPlaced
    <2>3. Listed(F, sln) # {} /\ one.type = "sln" /\ one.reads = SlnReads(F, sln, Anchor(F, d))
        <3>1. IsSlnScan(F, one, sln, d, Anchor(F, d))
            BY <2>1, SlnFound
        <3> HIDE DEF one, sln
        <3> QED
            BY <3>1 DEF IsSlnScan
    <2> QED
        BY <1>2, <1>3, <2>2, <2>3
<1>4. CASE one = NoScan
    <2>1. Found(alone)
        BY <1>2, <1>4
    <2> HIDE DEF sln, files
    <2>2. /\ alone.type = "sln" /\ alone.root = d /\ alone.matched = sln /\ alone.members = {} /\ alone.extras = {}
          /\ alone.reads = files /\ Summed(F, alone)
        BY <2>1, ReadingFound
    <2> HIDE DEF alone
    <2>3. Placed(alone, d) /\ Summed(F, alone)
        BY <1>1, <2>2 DEF Placed, Projects
    <2>4. Listed(F, sln) = {}
        <3>1. NoScan.type = "none" /\ \A files_, root_, m_, x_ :
                 Reading(F, files_, Scan(root_, "sln", m_, {}, x_)).type \in {"thrown", "sln"}
            BY DEF NoScan, Reading, Thrown, Scan
        <3>2. Thrown.type = "thrown"
            BY DEF Thrown, NoScan
        <3> QED
            BY <1>4, <3>1, <3>2 DEF handleSlnDispatch
    <2> QED
        BY <1>2, <1>4, <2>2, <2>3, <2>4 DEF sln, files
<1> QED
    BY <1>3, <1>4

LEMMA NearestIsAbove ==
    ASSUME NEW F, WellFormed(F), NEW d \in Paths, NEW name, NEW f \in Nearest(F, d, name)
    PROVE  /\ f \in DOMAIN F /\ f.dir \in Paths /\ f = File(f.dir, name)
           /\ Len(f.dir) \in 0..Len(d) /\ f.dir = SubSeq(d, 1, Len(f.dir))
           /\ \A k \in (Len(f.dir) + 1)..Len(d) : ~Has(F, SubSeq(d, 1, k), name) /\ ~Has(F, SubSeq(d, 1, k), ".git")
<1>1. f \in DOMAIN F /\ f.name = name /\ IsPrefix(f.dir, d)
    BY DEF Nearest
<1>2. IsFile(f)
    BY <1>1 DEF WellFormed
<1>3. f.dir \in Paths /\ f = File(f.dir, name)
    BY <1>1, <1>2 DEF IsFile
<1>4. Len(f.dir) \in 0..Len(d) /\ f.dir = SubSeq(d, 1, Len(f.dir))
    BY <1>1, <1>3, PrefixIsAbove
<1>5. \A k \in (Len(f.dir) + 1)..Len(d) : ~Has(F, SubSeq(d, 1, k), name) /\ ~Has(F, SubSeq(d, 1, k), ".git")
    BY DEF Nearest
<1> QED
    BY <1>1, <1>3, <1>4, <1>5

\* The walk upwards ends at one file.
LEMMA NearestIsUnique ==
    ASSUME NEW F, WellFormed(F), NEW d \in Paths, NEW name, NEW f \in Nearest(F, d, name), NEW g \in Nearest(F, d, name)
    PROVE  f = g
<1> DEFINE Facts(h) ==
        /\ h \in DOMAIN F /\ h.dir \in Paths /\ h = File(h.dir, name)
        /\ Len(h.dir) \in 0..Len(d) /\ h.dir = SubSeq(d, 1, Len(h.dir))
        /\ \A k \in (Len(h.dir) + 1)..Len(d) : ~Has(F, SubSeq(d, 1, k), name)
<1>1. Facts(f) /\ Facts(g)
    BY NearestIsAbove
<1>2. Len(d) \in Nat
    BY DEF Paths
<1>3. ASSUME NEW x, NEW y, Facts(x), Facts(y), Len(x.dir) < Len(y.dir) PROVE FALSE
    <2>1. Len(y.dir) \in (Len(x.dir) + 1)..Len(d)
        BY <1>2, <1>3
    <2>2. Has(F, SubSeq(d, 1, Len(y.dir)), name)
        BY <1>3 DEF Has
    <2> QED
        BY <1>3, <2>1, <2>2
<1>4. Len(f.dir) = Len(g.dir)
    <2>1. ~(Len(f.dir) < Len(g.dir)) /\ ~(Len(g.dir) < Len(f.dir))
        BY <1>1, <1>3
    <2>2. Len(f.dir) \in Int /\ Len(g.dir) \in Int
        BY <1>1
    <2> QED
        BY <2>1, <2>2
<1> QED
    BY <1>1, <1>4

\* Two file systems have the same of the files R.
Agree(F, G, R) == \A f \in R : (f \in DOMAIN F <=> f \in DOMAIN G) /\ (f \in DOMAIN F => F[f] = G[f])
SameRepositories(F, G) == \A d \in Paths : Has(F, d, ".git") <=> Has(G, d, ".git")

LEMMA NearestKept ==
    ASSUME NEW F, NEW G, WellFormed(F), WellFormed(G), SameRepositories(F, G), NEW d \in Paths, NEW name,
           Agree(F, G, Nearest(F, d, name)), Agree(F, G, Nearest(G, d, name))
    PROVE  Nearest(F, d, name) \subseteq Nearest(G, d, name)
<1> SUFFICES ASSUME NEW f \in Nearest(F, d, name) PROVE f \in Nearest(G, d, name)
    OBVIOUS
<1> DEFINE n == Len(f.dir)
           Up(k) == SubSeq(d, 1, k)
           K == {k \in (n + 1)..Len(d) : Has(G, Up(k), name)}
<1>1. /\ f \in DOMAIN F /\ f.dir \in Paths /\ f = File(f.dir, name) /\ n \in 0..Len(d) /\ f.dir = Up(n)
      /\ \A k \in (n + 1)..Len(d) : ~Has(F, Up(k), name) /\ ~Has(F, Up(k), ".git")
    BY NearestIsAbove
<1>2. Len(d) \in Nat /\ n \in Nat
    BY <1>1 DEF Paths
<1>3. \A k \in (n + 1)..Len(d) : Up(k) \in Paths /\ Len(Up(k)) = k /\ IsPrefix(Up(k), d)
    BY <1>2, Above
<1>4. \A k \in (n + 1)..Len(d) : ~Has(G, Up(k), ".git")
    BY <1>1, <1>3 DEF SameRepositories
<1>5. K = {}
    <2> SUFFICES ASSUME K # {} PROVE FALSE
        OBVIOUS
    <2> DEFINE L == {Len(d) - k : k \in K}
    <2>1. L \in SUBSET Nat /\ L # {}
        BY <1>2
    <2> HIDE DEF L
    <2>2. PICK l \in L : \A m \in L : l <= m
        BY <2>1, LeastNatural
    <2>3. PICK k \in K : l = Len(d) - k
        BY DEF L
    <2>4. \A m \in K : m <= k
        <3> SUFFICES ASSUME NEW m \in K PROVE m <= k
            OBVIOUS
        <3>1. Len(d) - k <= Len(d) - m
            BY <2>2, <2>3 DEF L
        <3>2. k \in Int /\ m \in Int
            OBVIOUS
        <3> QED
            BY <1>2, <3>1, <3>2
    <2>5. k \in (n + 1)..Len(d) /\ Has(G, Up(k), name)
        OBVIOUS
    <2> DEFINE g == File(Up(k), name)
    <2>6. g \in DOMAIN G /\ g.name = name /\ g.dir = Up(k)
        BY <2>5 DEF Has, File
    <2>7. \A m \in (k + 1)..Len(d) : ~Has(G, Up(m), name) /\ ~Has(G, Up(m), ".git")
        <3> SUFFICES ASSUME NEW m \in (k + 1)..Len(d) PROVE ~Has(G, Up(m), name) /\ ~Has(G, Up(m), ".git")
            OBVIOUS
        <3>1. m \in (n + 1)..Len(d) /\ ~(m <= k)
            BY <1>2, <2>5
        <3> QED
            BY <1>4, <2>4, <3>1
    <2>8. g \in Nearest(G, d, name)
        BY <1>3, <2>5, <2>6, <2>7 DEF Nearest
    <2>9. Has(F, Up(k), name)
        BY <2>6, <2>8 DEF Agree, Has
    <2> QED
        BY <1>1, <2>5, <2>9
<1>6. f \in DOMAIN G
    BY <1>1 DEF Agree
<1>7. f.name = name /\ IsPrefix(f.dir, d)
    BY DEF Nearest
<1> QED
    BY <1>4, <1>5, <1>6, <1>7 DEF Nearest

LEMMA NearestSame ==
    ASSUME NEW F, NEW G, WellFormed(F), WellFormed(G), SameRepositories(F, G), NEW d \in Paths, NEW name,
           Agree(F, G, Nearest(F, d, name)), Agree(F, G, Nearest(G, d, name))
    PROVE  Nearest(F, d, name) = Nearest(G, d, name)
<1>1. Agree(G, F, Nearest(F, d, name)) /\ Agree(G, F, Nearest(G, d, name)) /\ SameRepositories(G, F)
    BY DEF Agree, SameRepositories
<1> QED
    BY <1>1, NearestKept

\* What is read of a directory with projects and no solution of its own.
OwnReads(F, d) == Nearest(F, d, "x.sln") \cup PropsAbove(F, d) \cup Items(ProjectsIn(d), Capped(OwnOf(F, d)))

LEMMA CsprojFound ==
    ASSUME NEW F, WellFormed(F), NEW d \in Paths, OwnOf(F, d) # {},
           Found(handleCsprojMatch(F, d, ProjectsIn(d), OwnOf(F, d)))
    PROVE  LET scan == handleCsprojMatch(F, d, ProjectsIn(d), OwnOf(F, d)) IN
           /\ Placed(scan, d) /\ Summed(F, scan)
           /\ \/ /\ scan.type = "sln"
                 /\ \E sln \in Nearest(F, d, "x.sln") : Listed(F, sln) # {} /\ scan.reads = SlnReads(F, sln, d)
              \/ /\ scan.type = "csproj" /\ scan.reads = OwnReads(F, d)
                 /\ \A sln \in Nearest(F, d, "x.sln") : Listed(F, sln) = {}
<1> DEFINE slns   == Nearest(F, d, "x.sln")
           above  == {handleSlnDispatch(F, sln, d, d) : sln \in slns} \ {NoScan}
           own    == OwnOf(F, d)
           files  == ProjectsIn(d)
           kept   == Capped(own)
           first  == files[Min(own)]
           read   == slns \cup PropsAbove(F, d) \cup Items(files, kept)
           extras == Items(files, kept \ {Min(own)}) \cup PropsAbove(F, d)
           alone  == Reading(F, read, Scan(d, "csproj", first, {}, extras))
           scan   == handleCsprojMatch(F, d, files, own)
<1>1. scan = IF above # {} THEN CHOOSE s \in above : TRUE ELSE alone
    BY DEF handleCsprojMatch
<1>2. CASE above # {}
    <2>1. scan \in above
        <3> HIDE DEF above, scan
        <3> QED
            BY <1>1, <1>2
    <2>2. PICK sln \in slns : scan = handleSlnDispatch(F, sln, d, d)
        BY <2>1
    <2>3. sln \in DOMAIN F /\ sln.name = "x.sln"
        BY DEF Nearest
    <2>4. Found(handleSlnDispatch(F, sln, d, d))
        BY <2>2
    <2>5. Placed(scan, d) /\ Summed(F, scan)
        BY <2>2, <2>3, <2>4, SlnPlaced
    <2>6. IsSlnScan(F, scan, sln, d, d)
        BY <2>2, <2>4, SlnFound
    <2> HIDE DEF scan, slns
    <2>7. scan.type = "sln" /\ Listed(F, sln) # {} /\ scan.reads = SlnReads(F, sln, d)
        BY <2>6 DEF IsSlnScan
    <2> QED
        BY <2>5, <2>7 DEF scan, slns
<1>3. CASE above = {}
    <2>1. scan = alone /\ Found(alone)
        BY <1>1, <1>3
    <2>2. ASSUME NEW sln \in slns PROVE Listed(F, sln) = {}
        <3>1. handleSlnDispatch(F, sln, d, d) = NoScan
            BY <1>3
        <3>2. NoScan.type = "none" /\ \A files_, root_, m_, x_ :
                 Reading(F, files_, Scan(root_, "sln", m_, {}, x_)).type \in {"thrown", "sln"}
            BY DEF NoScan, Reading, Thrown, Scan
        <3> QED
            BY <3>1, <3>2 DEF handleSlnDispatch
    <2>3. own \in SUBSET Nat /\ own # {} /\ own \subseteq 1..2
        BY DEF OwnOf
    <2>4. \A k \in 1..2 : files[k].name \in Projects
        BY DEF ProjectsIn, File, Projects
    <2>5. Min(own) \in own
        <3> HIDE DEF own
        <3> QED
            BY <2>3, MinIsFirst
    <2>6. first.name \in Projects
        BY <2>3, <2>4, <2>5
    <2>7. \A f \in extras : f.name \in Projects \cup {"Directory.Packages.props"}
        BY <2>3, <2>4 DEF PropsAbove, Nearest, Items, Capped
    <2>8. read = OwnReads(F, d)
        BY DEF OwnReads
    <2> HIDE DEF read, first, extras, scan
    <2>9. /\ alone.type = "csproj" /\ alone.root = d /\ alone.matched = first /\ alone.members = {}
          /\ alone.extras = extras /\ alone.reads = read /\ Summed(F, alone)
        BY <2>1, ReadingFound
    <2> HIDE DEF alone
    <2>10. Placed(alone, d)
        BY <2>6, <2>7, <2>9 DEF Placed
    <2>11. /\ Placed(scan, d) /\ Summed(F, scan) /\ scan.type = "csproj" /\ scan.reads = OwnReads(F, d)
        BY <2>1, <2>8, <2>9, <2>10
    <2> QED
        BY <2>2, <2>11 DEF scan
<1> QED
    BY <1>2, <1>3

MemberName(i) == IF i = 6 THEN "go.mod" ELSE Type(i)

\* What the scan of directory d by entry i has read.
Reads(F, d, i) ==
    CASE i \in {1, 4, 6} ->
            {First(i, d)} \cup {File(m, MemberName(i)) : m \in Members(F, First(i, d), MemberName(i))}
      [] i = 2 -> IF Listed(F, Solution(d)) = {} THEN {Solution(d)} ELSE SlnReads(F, Solution(d), Anchor(F, d))
      [] i = 9 -> {First(9, d)} \cup Yaml(F, d)
                     \cup {File(m, "package.json") : m \in {n \in Items(Patterns(F, d), Inside(F, d)) : Has(F, n, "package.json")}}
      [] i = 12 -> {First(12, d)} \cup Settings(F, d) \cup Build(F, d) \cup Builds(F, d)
      [] OTHER -> {First(i, d)}
ProjectsRead(F, d, scan) ==
    \/ scan.type = "sln" /\ \E sln \in Nearest(F, d, "x.sln") : Listed(F, sln) # {} /\ scan.reads = SlnReads(F, sln, d)
    \/ /\ scan.type = "csproj" /\ scan.reads = OwnReads(F, d)
       /\ \A sln \in Nearest(F, d, "x.sln") : Listed(F, sln) = {}

IsScanBy(F, d, i, scan) ==
    /\ i \in Hits(F, d) /\ \A j \in Hits(F, d) : i <= j
    /\ i = 3 => ProjectsRead(F, d, scan)
    /\ i # 3 => scan.type = Type(i)
    /\ i \notin {3, 9} => scan.reads = Reads(F, d, i)
    /\ i = 9 => /\ {First(9, d)} \cup Yaml(F, d) \subseteq scan.reads
                /\ Uncapped(Patterns(F, d)) => scan.reads = Reads(F, d, 9)

LEMMA ScanFound ==
    ASSUME NEW F, WellFormed(F), NEW d \in Paths, Found(scanAtDir(F, d))
    PROVE  /\ Placed(scanAtDir(F, d), d) /\ Summed(F, scanAtDir(F, d))
           /\ \E i \in 1..13 : IsScanBy(F, d, i, scanAtDir(F, d))
<1> DEFINE scan == scanAtDir(F, d)
<1>1. PICK i \in Hits(F, d) :
        /\ \A j \in Hits(F, d) : i <= j
        /\ i = 1 => scan = traverseAggregatorPom(F, First(i, d))
        /\ i = 2 => scan = SlnMatch(F, d, Solution(d))
        /\ i = 3 => scan = handleCsprojMatch(F, d, ProjectsIn(d), OwnOf(F, d))
        /\ i = 4 => scan = traverseCargoWorkspace(F, First(i, d))
        /\ i = 6 => scan = handleGoWorkMatch(F, First(i, d))
        /\ i = 9 => scan = traverseJsWorkspaces(F, First(i, d))
        /\ i = 12 => scan = discoverGradleProjects(F, First(i, d))
        /\ i \notin {1, 2, 3, 4, 6, 9, 12} => scan = Reading(F, {First(i, d)}, Scan(d, Type(i), First(i, d), {}, {}))
    BY ScanCases
<1>2. i \in 1..13 /\ Found(scan)
    BY DEF Hits
<1>3. i \notin {2, 3} => First(i, d) \in DOMAIN F
    BY <1>2, HitsAreFiles
<1>4. Type(2) = "sln" /\ Type(9) = "package.json" /\ Type(12) = "libs.versions.toml"
    BY Entries DEF Type, Entry
<1>5. CASE i \in {1, 4, 6}
    <2>1. scan = IF i = 1 THEN traverseAggregatorPom(F, First(i, d))
                 ELSE IF i = 4 THEN traverseCargoWorkspace(F, First(i, d))
                 ELSE handleGoWorkMatch(F, First(i, d))
        BY <1>1, <1>5
    <2> HIDE DEF scan
    <2>2. /\ scan.reads = {First(i, d)} \cup {File(m, MemberName(i)) : m \in Members(F, First(i, d), MemberName(i))}
          /\ scan.type = Type(i) /\ Summed(F, scan) /\ Placed(scan, d)
        BY <1>2, <1>3, <1>5, <2>1, AggregatesFound DEF MemberName
    <2>3. scan.reads = Reads(F, d, i)
        BY <1>5, <2>2 DEF Reads
    <2>4. IsScanBy(F, d, i, scan)
        BY <1>1, <1>5, <2>2, <2>3 DEF IsScanBy
    <2> QED
        BY <1>2, <2>2, <2>4 DEF scan
<1>6. CASE i = 2
    <2>1. scan = SlnMatch(F, d, Solution(d)) /\ Solution(d) \in DOMAIN F
        BY <1>1, <1>2, <1>6, HitsAreFiles
    <2> HIDE DEF scan
    <2>2. /\ scan.type = "sln" /\ Placed(scan, d) /\ Summed(F, scan)
          /\ scan.reads = IF Listed(F, Solution(d)) = {} THEN {Solution(d)} ELSE SlnReads(F, Solution(d), Anchor(F, d))
        BY <1>2, <2>1, SlnMatchFound
    <2>3. scan.reads = Reads(F, d, 2)
        BY <2>2 DEF Reads
    <2>4. IsScanBy(F, d, i, scan)
        BY <1>1, <1>4, <1>6, <2>2, <2>3 DEF IsScanBy
    <2> QED
        BY <1>2, <2>2, <2>4 DEF scan
<1>7. CASE i = 3
    <2>1. scan = handleCsprojMatch(F, d, ProjectsIn(d), OwnOf(F, d)) /\ OwnOf(F, d) # {}
        BY <1>1, <1>2, <1>7, HitsAreFiles
    <2> HIDE DEF scan
    <2>2. /\ Placed(scan, d) /\ Summed(F, scan)
          /\ \/ /\ scan.type = "sln"
                /\ \E sln \in Nearest(F, d, "x.sln") : Listed(F, sln) # {} /\ scan.reads = SlnReads(F, sln, d)
             \/ /\ scan.type = "csproj" /\ scan.reads = OwnReads(F, d)
                /\ \A sln \in Nearest(F, d, "x.sln") : Listed(F, sln) = {}
        BY <1>2, <2>1, CsprojFound
    <2>3. IsScanBy(F, d, i, scan)
        BY <1>1, <1>7, <2>2 DEF IsScanBy, ProjectsRead
    <2> QED
        BY <1>2, <2>2, <2>3 DEF scan
<1>8. CASE i = 9
    <2>1. scan = traverseJsWorkspaces(F, File(d, "package.json")) /\ File(d, "package.json") \in DOMAIN F
        BY <1>1, <1>3, <1>4, <1>8 DEF First
    <2> HIDE DEF scan
    <2>2. /\ scan.type = "package.json" /\ Summed(F, scan) /\ Placed(scan, d)
          /\ {File(d, "package.json")} \cup Yaml(F, d) \subseteq scan.reads
          /\ Uncapped(Patterns(F, d)) => scan.reads = {File(d, "package.json")} \cup Yaml(F, d)
                \cup {File(m, "package.json") : m \in {n \in Items(Patterns(F, d), Inside(F, d)) : Has(F, n, "package.json")}}
        BY <1>2, <2>1, JsFound
    <2>3. IsScanBy(F, d, i, scan)
        BY <1>1, <1>4, <1>8, <2>2 DEF IsScanBy, Reads, First
    <2> QED
        BY <1>2, <2>2, <2>3 DEF scan
<1>9. CASE i = 12
    <2>1. scan = discoverGradleProjects(F, File(d, "libs.versions.toml"))
        BY <1>1, <1>4, <1>9 DEF First
    <2> HIDE DEF scan
    <2>2. /\ scan.type = "libs.versions.toml" /\ Summed(F, scan) /\ Placed(scan, d)
          /\ scan.reads = {File(d, "libs.versions.toml")} \cup Settings(F, d) \cup Build(F, d) \cup Builds(F, d)
        BY <1>2, <2>1, GradleFound
    <2>3. IsScanBy(F, d, i, scan)
        BY <1>1, <1>4, <1>9, <2>2 DEF IsScanBy, Reads, First
    <2> QED
        BY <1>2, <2>2, <2>3 DEF scan
<1>10. CASE i \notin {1, 2, 3, 4, 6, 9, 12}
    <2>1. Type(i) \in Plain
        <3>1. Type(i) \in Plain \cup {"package.json", "libs.versions.toml"}
            BY <1>2, <1>10, Entries
        <3>2. Type(i) # "package.json" /\ Type(i) # "libs.versions.toml"
            BY <1>2, <1>10, Entries
        <3> QED
            BY <3>1, <3>2
    <2>2. scan = Reading(F, {File(d, Type(i))}, Scan(d, Type(i), File(d, Type(i)), {}, {}))
        BY <1>1, <1>10 DEF First
    <2> HIDE DEF scan
    <2>3. scan.reads = {File(d, Type(i))} /\ scan.type = Type(i) /\ Summed(F, scan) /\ Placed(scan, d)
        <3> DEFINE type == Type(i)
                   one == Reading(F, {File(d, type)}, Scan(d, type, File(d, type), {}, {}))
        <3>1. type \in Plain /\ Found(one) /\ scan = one
            BY <1>2, <2>1, <2>2
        <3> HIDE DEF type
        <3>2. one.reads = {File(d, type)} /\ one.type = type /\ Summed(F, one) /\ Placed(one, d)
            BY <3>1, PlainFound
        <3> QED
            BY <3>1, <3>2 DEF type
    <2>4. scan.reads = Reads(F, d, i)
        BY <1>10, <2>3 DEF Reads, First
    <2>5. IsScanBy(F, d, i, scan)
        BY <1>1, <1>10, <2>3, <2>4 DEF IsScanBy
    <2> QED
        BY <1>2, <2>3, <2>5 DEF scan
<1> QED
    BY <1>5, <1>6, <1>7, <1>8, <1>9, <1>10

\* No pattern of a JavaScript workspace is cut off by MAX_WORKSPACE_MEMBERS.
Whole(F) == \A f \in DOMAIN F : f.name \in {"package.json", "pnpm-workspace.yaml"} => Uncapped(F[f].members)

LEMMA FewAreUncapped ==
    ASSUME NEW s, IsFiniteSet(DOMAIN s), DOMAIN s \subseteq Nat, MaxMembers \in Nat, Cardinality(DOMAIN s) <= MaxMembers
    PROVE  Uncapped(s)
<1> SUFFICES ASSUME NEW K \in SUBSET DOMAIN s, NEW k \in K
             PROVE  Cardinality({j \in K : j < k}) < MaxMembers
    BY DEF Uncapped, Capped
<1> DEFINE S == DOMAIN s
           J == {j \in K : j < k}
<1>1. J \in SUBSET S /\ k \notin J /\ k \in S
    BY DEF Uncapped
<1>2. J # S
    BY <1>1
<1> HIDE DEF S, J
<1>3. IsFiniteSet(J) /\ Cardinality(J) <= Cardinality(S) /\ Cardinality(J) # Cardinality(S)
    BY <1>1, <1>2, FS_Subset DEF S
<1>4. Cardinality(J) \in Nat /\ Cardinality(S) \in Nat
    BY <1>3, FS_CardinalityType DEF S
<1>5. Cardinality(J) < MaxMembers
    BY <1>3, <1>4 DEF S
<1> QED
    BY <1>5 DEF J

LEMMA OwnIsUncapped ==
    ASSUME NEW F, NEW d, MaxMembers \in Nat, 2 <= MaxMembers
    PROVE  Capped(OwnOf(F, d)) = OwnOf(F, d)
<1> DEFINE s == [k \in 1..2 |-> k]
<1>1. DOMAIN s = 1..2 /\ 1..2 \subseteq Nat /\ IsFiniteSet(1..2) /\ Cardinality(1..2) = 2
    <2>1. \A n \in Nat : IsFiniteSet(1..n) /\ Cardinality(1..n) = n
        BY FS_Interval
    <2>2. IsFiniteSet(1..2) /\ Cardinality(1..2) = 2
        BY <2>1
    <2> QED
        BY <2>2
<1> HIDE DEF s
<1>2. Uncapped(s)
    BY <1>1, FewAreUncapped
<1>3. OwnOf(F, d) \in SUBSET (1..2)
    BY DEF OwnOf
<1> QED
    BY <1>1, <1>2, <1>3 DEF Uncapped

LEMMA ReadsExist ==
    ASSUME NEW F, WellFormed(F), Whole(F), NEW d \in Paths, NEW i \in 1..13, NEW scan, IsScanBy(F, d, i, scan)
    PROVE  scan.reads \subseteq DOMAIN F
<1>1. i \notin {2, 3} => First(i, d) \in DOMAIN F
    BY HitsAreFiles DEF IsScanBy
<1>2. i = 2 => Solution(d) \in DOMAIN F
    BY HitsAreFiles DEF IsScanBy
<1>3. \A sln, a : sln \in DOMAIN F => SlnReads(F, sln, a) \subseteq DOMAIN F
    BY ListedFiles, NearestFiles DEF SlnReads, PropsAbove
<1>4. CASE i = 3
    <2>1. OwnReads(F, d) \subseteq DOMAIN F
        BY NearestFiles DEF OwnReads, PropsAbove, Items, Capped, OwnOf
    <2> QED
        BY <1>3, <1>4, <2>1, NearestFiles DEF IsScanBy, ProjectsRead
<1>5. CASE i = 2
    <2>1. scan.reads = Reads(F, d, 2)
        BY <1>5 DEF IsScanBy
    <2> QED
        BY <1>2, <1>3, <1>5, <2>1 DEF Reads
<1>6. CASE i \in {1, 4, 6}
    <2>1. scan.reads = Reads(F, d, i)
        BY <1>6 DEF IsScanBy
    <2> QED
        BY <1>1, <1>6, <2>1 DEF Reads, Members, Has
<1>7. CASE i = 9
    <2>1. Uncapped(Patterns(F, d))
        <3>1. First(9, d) = File(d, "package.json")
            BY Entries DEF First
        <3> QED
            BY <1>1, <1>7, <3>1 DEF Whole, Patterns, Yaml, File
    <2>2. scan.reads = Reads(F, d, 9)
        BY <1>7, <2>1 DEF IsScanBy
    <2> QED
        BY <1>1, <1>7, <2>2 DEF Reads, Yaml, Has
<1>8. CASE i = 12
    <2>1. scan.reads = Reads(F, d, 12)
        BY <1>8 DEF IsScanBy
    <2> QED
        BY <1>1, <1>8, <2>1 DEF Reads, Settings, Build, Builds
<1>9. CASE i \notin {1, 2, 3, 4, 6, 9, 12}
    <2>1. scan.reads = Reads(F, d, i)
        BY <1>9 DEF IsScanBy
    <2> QED
        BY <1>1, <1>9, <2>1 DEF Reads
<1> QED
    BY <1>4, <1>5, <1>6, <1>7, <1>8, <1>9

\* What one file system has in a directory, one that agrees on what was read has too.
LEMMA EntryKept ==
    ASSUME NEW F, NEW G, NEW d \in Paths, NEW i \in 1..13, i # 3, NEW scan, IsScanBy(F, d, i, scan), Agree(F, G, scan.reads)
    PROVE  /\ i \in Hits(G, d)
           /\ i # 2 => First(i, d) \in scan.reads
<1>1. i = 2 => Solution(d) \in scan.reads
    BY DEF IsScanBy, Reads, SlnReads
<1>2. i # 2 => First(i, d) \in scan.reads
    <2>1. i # 9 => scan.reads = Reads(F, d, i)
        BY DEF IsScanBy
    <2>2. i \notin {2, 9} => First(i, d) \in Reads(F, d, i)
        BY DEF Reads
    <2>3. i = 9 => First(i, d) \in scan.reads
        BY DEF IsScanBy
    <2> QED
        BY <2>1, <2>2, <2>3
<1>3. i \in Hits(F, d)
    BY DEF IsScanBy
<1>4. i = 2 => Solution(d) \in DOMAIN G
    BY <1>1, <1>3, HitsAreFiles DEF Agree
<1>5. i # 2 => First(i, d) \in DOMAIN G
    BY <1>2, <1>3, HitsAreFiles DEF Agree
<1> QED
    BY <1>2, <1>4, <1>5, HitsAreFiles

LEMMA ListedKept ==
    ASSUME NEW F, NEW G, NEW sln, F[sln] = G[sln], NEW a, Listed(F, sln) = {} \/ Agree(F, G, SlnReads(F, sln, a))
    PROVE  Listed(F, sln) \subseteq Listed(G, sln)
<1> SUFFICES ASSUME NEW k \in Listed(F, sln) PROVE k \in Listed(G, sln)
    OBVIOUS
<1>1. F[sln].members[k] \in SlnReads(F, sln, a) /\ F[sln].members[k] \in DOMAIN F
    BY DEF SlnReads, Items, Listed
<1>2. F[sln].members[k] \in DOMAIN G
    BY <1>1 DEF Agree
<1> QED
    BY <1>2 DEF Listed

LEMMA SlnReadsSame ==
    ASSUME NEW F, NEW G, WellFormed(F), WellFormed(G), SameRepositories(F, G), NEW sln, F[sln] = G[sln],
           Listed(F, sln) = Listed(G, sln), NEW a \in Paths,
           Agree(F, G, SlnReads(F, sln, a)), Agree(F, G, SlnReads(G, sln, a))
    PROVE  SlnReads(F, sln, a) = SlnReads(G, sln, a)
<1>1. PropsAbove(F, a) = PropsAbove(G, a)
    <2>1. Agree(F, G, Nearest(F, a, "Directory.Packages.props")) /\ Agree(F, G, Nearest(G, a, "Directory.Packages.props"))
        BY DEF SlnReads, PropsAbove, Agree
    <2> QED
        BY <2>1, NearestSame DEF PropsAbove
<1> QED
    BY <1>1 DEF SlnReads

Views(F, G, d, i, j, p, q) ==
    /\ WellFormed(F) /\ WellFormed(G) /\ Whole(F) /\ Whole(G) /\ SameRepositories(F, G)
    /\ d \in Paths /\ i \in 1..13 /\ j \in 1..13
    /\ IsScanBy(F, d, i, p) /\ IsScanBy(G, d, j, q)
    /\ Agree(F, G, p.reads) /\ Agree(F, G, q.reads)

LEMMA PlainSame ==
    ASSUME NEW F, NEW G, NEW d, NEW i, i \in {1, 4, 6}, NEW p, NEW q, Views(F, G, d, i, i, p, q)
    PROVE  p.reads = q.reads
<1> DEFINE file == First(i, d)
           name == MemberName(i)
<1>1. /\ p.reads = {file} \cup {File(m, name) : m \in Members(F, file, name)}
      /\ q.reads = {file} \cup {File(m, name) : m \in Members(G, file, name)}
    BY DEF Views, IsScanBy, Reads
<1>2. file \in DOMAIN F /\ file \in DOMAIN G
    BY HitsAreFiles DEF Views, IsScanBy
<1>3. F[file] = G[file]
    BY <1>1, <1>2 DEF Views, Agree
<1>4. Declared(F, file) = Declared(G, file)
    BY <1>3 DEF Declared
<1>5. Members(F, file, name) = Members(G, file, name)
    BY <1>1, <1>4 DEF Members, Has, Views, Agree
<1> QED
    BY <1>1, <1>5

LEMMA SolutionSame ==
    ASSUME NEW F, NEW G, NEW d, NEW p, NEW q, Views(F, G, d, 2, 2, p, q)
    PROVE  p.reads = q.reads
<1> DEFINE sln == Solution(d)
<1>1. sln \in DOMAIN F /\ sln \in DOMAIN G
    BY HitsAreFiles DEF Views, IsScanBy
<1>2. /\ p.reads = IF Listed(F, sln) = {} THEN {sln} ELSE SlnReads(F, sln, Anchor(F, d))
      /\ q.reads = IF Listed(G, sln) = {} THEN {sln} ELSE SlnReads(G, sln, Anchor(G, d))
    BY DEF Views, IsScanBy, Reads
<1>3. sln \in p.reads
    BY <1>2 DEF SlnReads
<1>4. F[sln] = G[sln]
    BY <1>1, <1>3 DEF Views, Agree
<1>5. Listed(F, sln) = Listed(G, sln)
    <2>1. Listed(F, sln) = {} \/ Agree(F, G, SlnReads(F, sln, Anchor(F, d)))
        BY <1>2 DEF Views
    <2>2. Listed(G, sln) = {} \/ Agree(G, F, SlnReads(G, sln, Anchor(G, d)))
        BY <1>2 DEF Views, Agree
    <2> HIDE DEF sln
    <2>3. Listed(F, sln) \subseteq Listed(G, sln)
        BY <1>4, <2>1, ListedKept
    <2>4. Listed(G, sln) \subseteq Listed(F, sln)
        BY <1>4, <2>2, ListedKept
    <2> QED
        BY <2>3, <2>4
<1>6. Anchor(F, d) = Anchor(G, d)
    BY <1>4, <1>5 DEF Anchor
<1>7. CASE Listed(F, sln) = {}
    BY <1>2, <1>5, <1>7
<1>8. CASE Listed(F, sln) # {}
    <2>1. Anchor(F, d) \in Paths
        <3>1. WellFormed(F) /\ sln.name = "x.sln"
            BY DEF Views, Solution, File
        <3>2. Min(Listed(F, sln)) \in Listed(F, sln)
            BY <1>1, <1>8, <3>1, ListedPositions, MinIsFirst
        <3>3. F[sln].members[Min(Listed(F, sln))] \in [dir : Paths, name : {"a.csproj", "b.csproj"}]
            BY <1>1, <3>1, <3>2, ListedPositions
        <3> QED
            BY <1>8, <3>3 DEF Anchor
    <2>2. Agree(F, G, SlnReads(F, sln, Anchor(F, d))) /\ Agree(F, G, SlnReads(G, sln, Anchor(F, d)))
        BY <1>2, <1>5, <1>6, <1>8 DEF Views
    <2>3. SlnReads(F, sln, Anchor(F, d)) = SlnReads(G, sln, Anchor(F, d))
        <3> HIDE DEF sln
        <3> QED
            BY <1>4, <1>5, <2>1, <2>2, SlnReadsSame DEF Views
    <2> QED
        BY <1>2, <1>5, <1>6, <1>8, <2>3
<1> QED
    BY <1>7, <1>8

LEMMA JsSame ==
    ASSUME NEW F, NEW G, NEW d, NEW p, NEW q, Views(F, G, d, 9, 9, p, q)
    PROVE  p.reads = q.reads
<1> DEFINE file == File(d, "package.json")
           yaml == File(d, "pnpm-workspace.yaml")
<1>0. First(9, d) = file
    BY Entries DEF First
<1>1. file \in DOMAIN F /\ file \in DOMAIN G
    BY <1>0, HitsAreFiles DEF Views, IsScanBy
<1>2. Uncapped(Patterns(F, d)) /\ Uncapped(Patterns(G, d))
    BY <1>1 DEF Views, Whole, Patterns, Yaml, File
<1>3. p.reads = Reads(F, d, 9) /\ q.reads = Reads(G, d, 9)
    BY <1>2 DEF Views, IsScanBy
<1>4. F[file] = G[file] /\ Yaml(F, d) = Yaml(G, d) /\ (Yaml(F, d) # {} => F[yaml] = G[yaml])
    <2>1. {file} \cup Yaml(F, d) \subseteq p.reads /\ Yaml(G, d) \subseteq q.reads
        BY <1>0 DEF Views, IsScanBy
    <2>2. Agree(F, G, {file} \cup Yaml(F, d)) /\ Agree(F, G, Yaml(G, d))
        BY <2>1 DEF Views, Agree
    <2> HIDE DEF file
    <2> QED
        BY <1>1, <2>2 DEF Agree, Yaml
<1>5. Patterns(F, d) = Patterns(G, d)
    BY <1>4 DEF Patterns
<1>6. Inside(F, d) = Inside(G, d)
    BY <1>5 DEF Inside
<1> DEFINE all == Items(Patterns(F, d), Inside(F, d))
<1>7. /\ p.reads = {file} \cup Yaml(F, d) \cup {File(m, "package.json") : m \in {n \in all : Has(F, n, "package.json")}}
      /\ q.reads = {file} \cup Yaml(F, d) \cup {File(m, "package.json") : m \in {n \in all : Has(G, n, "package.json")}}
    BY <1>0, <1>3, <1>4, <1>5, <1>6 DEF Reads
<1> HIDE DEF all, file
<1>8. \A n \in all : Has(F, n, "package.json") <=> Has(G, n, "package.json")
    BY <1>7 DEF Has, Views, Agree
<1> QED
    BY <1>7, <1>8

LEMMA GradleSame ==
    ASSUME NEW F, NEW G, NEW d, NEW p, NEW q, Views(F, G, d, 12, 12, p, q)
    PROVE  p.reads = q.reads
<1>1. /\ p.reads = {First(12, d)} \cup Settings(F, d) \cup Build(F, d) \cup Builds(F, d)
      /\ q.reads = {First(12, d)} \cup Settings(G, d) \cup Build(G, d) \cup Builds(G, d)
    BY DEF Views, IsScanBy, Reads
<1>2. Agree(F, G, Settings(F, d)) /\ Agree(F, G, Settings(G, d)) /\ Agree(F, G, Build(F, d)) /\ Agree(F, G, Build(G, d))
      /\ Agree(F, G, Builds(F, d)) /\ Agree(F, G, Builds(G, d))
    BY <1>1 DEF Views, Agree
<1>3. Settings(F, d) = Settings(G, d) /\ Build(F, d) = Build(G, d)
    BY <1>2 DEF Agree, Settings, Build
<1>4. \A f \in Settings(F, d) : F[f] = G[f]
    BY <1>2 DEF Agree, Settings
<1>5. Subprojects(F, d) = Subprojects(G, d)
    BY <1>3, <1>4 DEF Subprojects
<1>6. Builds(F, d) = Builds(G, d)
    BY <1>2, <1>5 DEF Builds, Agree
<1> QED
    BY <1>1, <1>3, <1>6

LEMMA ProjectsSame ==
    ASSUME NEW F, NEW G, NEW d, NEW p, NEW q, Views(F, G, d, 3, 3, p, q), MaxMembers \in Nat, 2 <= MaxMembers
    PROVE  p.reads = q.reads
<1>1. ProjectsRead(F, d, p) /\ ProjectsRead(G, d, q) /\ d \in Paths
    BY DEF Views, IsScanBy
<1>2. /\ OwnReads(F, d) = Nearest(F, d, "x.sln") \cup PropsAbove(F, d) \cup Items(ProjectsIn(d), OwnOf(F, d))
      /\ OwnReads(G, d) = Nearest(G, d, "x.sln") \cup PropsAbove(G, d) \cup Items(ProjectsIn(d), OwnOf(G, d))
    BY OwnIsUncapped DEF OwnReads
<1>3. Nearest(F, d, "x.sln") \subseteq p.reads /\ Nearest(G, d, "x.sln") \subseteq q.reads
    <2>1. ASSUME NEW H, NEW r, WellFormed(H), ProjectsRead(H, d, r) PROVE Nearest(H, d, "x.sln") \subseteq r.reads
        <3>1. \A sln, other \in Nearest(H, d, "x.sln") : sln = other
            BY <1>1, <2>1, NearestIsUnique
        <3> QED
            BY <2>1, <3>1 DEF ProjectsRead, SlnReads, OwnReads
    <2> QED
        BY <1>1, <2>1 DEF Views
<1>4. PropsAbove(F, d) \subseteq p.reads /\ PropsAbove(G, d) \subseteq q.reads
    BY <1>1 DEF ProjectsRead, SlnReads, OwnReads
<1>5. Nearest(F, d, "x.sln") = Nearest(G, d, "x.sln") /\ PropsAbove(F, d) = PropsAbove(G, d)
    <2>1. /\ Agree(F, G, Nearest(F, d, "x.sln")) /\ Agree(F, G, Nearest(G, d, "x.sln"))
          /\ Agree(F, G, PropsAbove(F, d)) /\ Agree(F, G, PropsAbove(G, d))
        BY <1>3, <1>4 DEF Views, Agree
    <2> QED
        BY <1>1, <2>1, NearestSame DEF Views, PropsAbove
<1>6. \A sln \in Nearest(F, d, "x.sln") : sln \in DOMAIN F /\ F[sln] = G[sln]
    <2>1. Nearest(F, d, "x.sln") \subseteq DOMAIN F
        BY NearestFiles
    <2> QED
        BY <1>3, <2>1 DEF Views, Agree
<1>7. ASSUME p.type = "sln", NEW sln \in Nearest(F, d, "x.sln"), Listed(F, sln) # {}, p.reads = SlnReads(F, sln, d)
      PROVE  Listed(F, sln) \subseteq Listed(G, sln)
    BY <1>6, <1>7, ListedKept DEF Views
<1>8. ASSUME q.type = "sln", NEW sln \in Nearest(G, d, "x.sln"), Listed(G, sln) # {}, q.reads = SlnReads(G, sln, d)
      PROVE  Listed(G, sln) \subseteq Listed(F, sln)
    <2>1. Agree(G, F, SlnReads(G, sln, d)) /\ F[sln] = G[sln]
        BY <1>5, <1>6, <1>8 DEF Views, Agree
    <2> QED
        BY <2>1, ListedKept
<1>9. CASE p.type = "sln" /\ q.type = "sln"
    <2>1. PICK sln \in Nearest(F, d, "x.sln") : Listed(F, sln) # {} /\ p.reads = SlnReads(F, sln, d)
        BY <1>1, <1>9 DEF ProjectsRead
    <2>2. PICK other \in Nearest(G, d, "x.sln") : Listed(G, other) # {} /\ q.reads = SlnReads(G, other, d)
        BY <1>1, <1>9 DEF ProjectsRead
    <2>3. sln = other
        BY <1>1, <1>5, <2>1, <2>2, NearestIsUnique DEF Views
    <2>4. Listed(F, sln) = Listed(G, sln)
        BY <1>7, <1>8, <1>9, <2>1, <2>2, <2>3
    <2>5. Agree(F, G, SlnReads(F, sln, d)) /\ Agree(F, G, SlnReads(G, sln, d))
        BY <2>1, <2>2, <2>3 DEF Views
    <2> QED
        BY <1>1, <1>6, <2>1, <2>2, <2>3, <2>4, <2>5, SlnReadsSame DEF Views
<1>10. CASE p.type = "sln" /\ q.type = "csproj"
    <2>1. PICK sln \in Nearest(F, d, "x.sln") : Listed(F, sln) # {} /\ p.reads = SlnReads(F, sln, d)
        BY <1>1, <1>10 DEF ProjectsRead
    <2>2. Listed(G, sln) = {}
        BY <1>1, <1>5, <1>10 DEF ProjectsRead
    <2> QED
        BY <1>7, <1>10, <2>1, <2>2
<1>11. CASE p.type = "csproj" /\ q.type = "sln"
    <2>1. PICK sln \in Nearest(G, d, "x.sln") : Listed(G, sln) # {} /\ q.reads = SlnReads(G, sln, d)
        BY <1>1, <1>11 DEF ProjectsRead
    <2>2. Listed(F, sln) = {}
        BY <1>1, <1>5, <1>11 DEF ProjectsRead
    <2> QED
        BY <1>8, <1>11, <2>1, <2>2
<1>12. CASE p.type = "csproj" /\ q.type = "csproj"
    <2>1. p.reads = OwnReads(F, d) /\ q.reads = OwnReads(G, d)
        BY <1>1, <1>12 DEF ProjectsRead
    <2>2. \A k \in 1..2 : ProjectsIn(d)[k] \in DOMAIN F <=> ProjectsIn(d)[k] \in DOMAIN G
        <3> SUFFICES ASSUME NEW k \in 1..2 PROVE ProjectsIn(d)[k] \in DOMAIN F <=> ProjectsIn(d)[k] \in DOMAIN G
            OBVIOUS
        <3>1. /\ ProjectsIn(d)[k] \in DOMAIN F => ProjectsIn(d)[k] \in p.reads
              /\ ProjectsIn(d)[k] \in DOMAIN G => ProjectsIn(d)[k] \in q.reads
            BY <1>2, <2>1 DEF OwnOf, Items
        <3> QED
            BY <3>1 DEF Views, Agree
    <2>3. OwnOf(F, d) = OwnOf(G, d)
        BY <2>2 DEF OwnOf
    <2> QED
        BY <1>2, <1>5, <2>1, <2>3
<1> QED
    BY <1>1, <1>9, <1>10, <1>11, <1>12 DEF ProjectsRead

Props == "Directory.Packages.props"

LEMMA EntriesSame ==
    ASSUME NEW F, NEW G, NEW d, NEW i, NEW j, NEW p, NEW q, Views(F, G, d, i, j, p, q), i # 3, j # 3
    PROVE  i = j
<1>1. Agree(G, F, q.reads) /\ i \in 1..13 /\ j \in 1..13 /\ d \in Paths
    BY DEF Views, Agree
<1>2. i \in Hits(G, d)
    BY <1>1, EntryKept DEF Views
<1>3. j \in Hits(F, d)
    BY <1>1, EntryKept DEF Views
<1>4. i <= j /\ j <= i
    BY <1>2, <1>3 DEF Views, IsScanBy
<1> QED
    BY <1>1, <1>4

LEMMA SameEntrySame ==
    ASSUME NEW F, NEW G, NEW d, NEW i, NEW p, NEW q, Views(F, G, d, i, i, p, q), MaxMembers \in Nat, 2 <= MaxMembers
    PROVE  p.reads = q.reads
<1>1. CASE i \notin {1, 2, 3, 4, 6, 9, 12}
    BY <1>1 DEF Views, IsScanBy, Reads
<1> QED
    BY <1>1, PlainSame, SolutionSame, JsSame, GradleSame, ProjectsSame

\* Projects are never taken for a manifest of another kind, nor the other way around, by a
\* scan that reads what the last one knows.
LEMMA ProjectsOnly ==
    ASSUME NEW F, NEW G, NEW d, NEW i, NEW p, NEW q, Views(F, G, d, i, 3, p, q), i # 3,
           MaxMembers \in Nat, 2 <= MaxMembers
    PROVE  \E f \in q.reads : f.name = "x.sln" /\ i > 3
<1>1. Agree(G, F, q.reads) /\ i \in 1..13 /\ d \in Paths
    BY DEF Views, Agree
<1>2. i \in Hits(G, d)
    BY <1>1, EntryKept DEF Views
<1>3. i > 3
    BY <1>1, <1>2 DEF Views, IsScanBy
<1>4. 3 \notin Hits(F, d)
    BY <1>1, <1>3 DEF Views, IsScanBy
<1>5. OwnOf(F, d) = {} /\ OwnOf(G, d) # {}
    <2>1. 3 \in Hits(G, d)
        BY DEF Views, IsScanBy
    <2> QED
        BY <1>4, <2>1, HitsAreFiles
<1>6. PICK k \in OwnOf(G, d) : k \in 1..2 /\ ProjectsIn(d)[k] \in DOMAIN G /\ ProjectsIn(d)[k] \notin DOMAIN F
    BY <1>5 DEF OwnOf
<1>7. q.reads # OwnReads(G, d)
    <2>1. ProjectsIn(d)[k] \in OwnReads(G, d)
        BY OwnIsUncapped DEF OwnReads, Items
    <2> QED
        BY <1>1, <1>6, <2>1 DEF Agree
<1>8. PICK sln \in Nearest(G, d, "x.sln") : q.reads = SlnReads(G, sln, d)
    BY <1>7 DEF Views, IsScanBy, ProjectsRead
<1>9. sln \in q.reads /\ sln.name = "x.sln"
    BY <1>8 DEF SlnReads, Nearest
<1> QED
    BY <1>3, <1>9

LEMMA OthersOnly ==
    ASSUME NEW F, NEW G, NEW d, NEW j, NEW p, NEW q, Views(F, G, d, 3, j, p, q), j # 3,
           MaxMembers \in Nat, 2 <= MaxMembers
    PROVE  /\ p.type = "sln"
           /\ \E f \in q.reads : f.name \notin Projects \cup {Props}
<1>0. Views(G, F, d, j, 3, q, p)
    BY DEF Views, Agree, SameRepositories
<1>1. j > 3
    BY <1>0, ProjectsOnly
<1>2. p.type = "sln"
    <2>1. 3 \notin Hits(G, d)
        BY <1>1 DEF Views, IsScanBy
    <2>2. OwnOf(G, d) = {} /\ OwnOf(F, d) # {}
        <3>1. 3 \in Hits(F, d)
            BY DEF Views, IsScanBy
        <3> QED
            BY <2>1, <3>1, HitsAreFiles
    <2>3. PICK k \in OwnOf(F, d) : k \in 1..2 /\ ProjectsIn(d)[k] \in DOMAIN F /\ ProjectsIn(d)[k] \notin DOMAIN G
        BY <2>2 DEF OwnOf
    <2>4. ProjectsIn(d)[k] \in OwnReads(F, d)
        BY OwnIsUncapped DEF OwnReads, Items
    <2>5. p.reads # OwnReads(F, d)
        BY <2>3, <2>4 DEF Views, Agree
    <2> QED
        BY <2>5 DEF Views, IsScanBy, ProjectsRead
<1>3. First(j, d) \in q.reads
    BY <1>0, <1>1, EntryKept DEF Views
<1>4. First(j, d).name \notin Projects \cup {Props}
    <2>1. Type(j) \in Plain \cup {"package.json", "libs.versions.toml"}
        BY <1>1, Entries DEF Views
    <2> QED
        BY <2>1 DEF First, File, Plain, Projects, Props
<1> QED
    BY <1>2, <1>3, <1>4

\* Two file systems that agree on what a scan reads in either give it the same
\* dependencies: whatever else they hold, and whichever manifest comes first.
LEMMA ScanFrame ==
    ASSUME NEW F, NEW G, WellFormed(F), WellFormed(G), Whole(F), Whole(G), SameRepositories(F, G),
           MaxMembers \in Nat, 2 <= MaxMembers, NEW d \in Paths,
           Found(scanAtDir(F, d)), Found(scanAtDir(G, d)),
           Agree(F, G, scanAtDir(F, d).reads \cup scanAtDir(G, d).reads),
           IF scanAtDir(F, d).type \in {"sln", "csproj"}
           THEN \A f \in scanAtDir(G, d).reads : f.name \in Projects \cup {Props}
           ELSE \A f \in scanAtDir(G, d).reads : f.name # "x.sln"
    PROVE  scanAtDir(F, d).deps = scanAtDir(G, d).deps
<1> DEFINE p == scanAtDir(F, d)
           q == scanAtDir(G, d)
<1>1. Summed(F, p) /\ Summed(G, q)
    BY ScanFound
<1>2. PICK i \in 1..13 : IsScanBy(F, d, i, p)
    BY ScanFound
<1>3. PICK j \in 1..13 : IsScanBy(G, d, j, q)
    BY ScanFound
<1>4. Agree(F, G, p.reads) /\ Agree(F, G, q.reads)
    BY DEF Agree
<1>5. IF p.type \in {"sln", "csproj"} THEN \A f \in q.reads : f.name \in Projects \cup {Props}
      ELSE \A f \in q.reads : f.name # "x.sln"
    OBVIOUS
<1> HIDE DEF p, q
<1>6. Views(F, G, d, i, j, p, q)
    BY <1>2, <1>3, <1>4 DEF Views
<1>7. i = j
    <2>1. CASE i # 3 /\ j # 3
        BY <1>6, <2>1, EntriesSame
    <2>2. CASE i # 3 /\ j = 3
        <3>1. (\E f \in q.reads : f.name = "x.sln") /\ i > 3
            BY <1>6, <2>2, ProjectsOnly
        <3>2. p.type \notin {"sln", "csproj"}
            <4>1. Type(i) \in Plain \cup {"package.json", "libs.versions.toml"}
                BY <3>1, Entries
            <4> QED
                BY <1>2, <2>2, <4>1 DEF IsScanBy, Plain
        <3> QED
            BY <1>5, <3>1, <3>2
    <2>3. CASE i = 3 /\ j # 3
        BY <1>5, <1>6, <2>3, OthersOnly
    <2> QED
        BY <2>1, <2>2, <2>3
<1>8. p.reads = q.reads
    BY <1>6, <1>7, SameEntrySame
<1>9. p.reads \subseteq DOMAIN F
    BY <1>2, ReadsExist
<1>10. \A f \in p.reads : F[f] = G[f]
    BY <1>4, <1>9 DEF Agree
<1>11. p.deps = q.deps
    BY <1>1, <1>8, <1>10 DEF Summed
<1> QED
    BY <1>11 DEF p, q

LEMMA AboveAbove ==
    ASSUME NEW d \in Paths, NEW n \in 0..Len(d), NEW k \in 0..n
    PROVE  SubSeq(SubSeq(d, 1, n), 1, k) = SubSeq(d, 1, k)
<1> DEFINE e == SubSeq(d, 1, n)
<1>0. Len(d) \in Nat /\ k \in 0..Len(d)
    BY DEF Paths
<1>1. e \in Paths /\ Len(e) = n /\ \A j \in 1..n : e[j] = d[j]
    BY Above
<1> HIDE DEF e
<1>2. /\ SubSeq(e, 1, k) \in Paths /\ Len(SubSeq(e, 1, k)) = k
      /\ \A j \in 1..k : SubSeq(e, 1, k)[j] = e[j]
    BY <1>1, Above
<1>3. /\ SubSeq(d, 1, k) \in Paths /\ Len(SubSeq(d, 1, k)) = k
      /\ \A j \in 1..k : SubSeq(d, 1, k)[j] = d[j]
    BY <1>0, Above
<1>4. \A j \in 1..k : j \in 1..n
    OBVIOUS
<1>5. SubSeq(e, 1, k) = SubSeq(d, 1, k)
    BY <1>1, <1>2, <1>3, <1>4, SamePath
<1> QED
    BY <1>5 DEF e

\* Every directory between the start and d was descended into.
Reached(open, start, d) == d \in Paths /\ IsPrefix(start, d) /\ \A k \in Len(start)..(Len(d) - 1) : SubSeq(d, 1, k) \in open

LEMMA ReachedNext ==
    ASSUME NEW open, NEW start \in Paths, NEW d \in Paths, IsPrefix(start, d),
           d = start \/ (Front(d) \in open /\ Reached(open, start, Front(d)))
    PROVE  Reached(open, start, d)
<1>1. CASE d = start
    BY <1>1 DEF Reached, Paths
<1>2. CASE d # start
    <2>1. Len(d) \in Nat /\ Len(start) \in Nat /\ Front(d) = SubSeq(d, 1, Len(d) - 1) /\ Front(d) \in open
        BY <1>2 DEF Front, Paths
    <2> SUFFICES ASSUME NEW k \in Len(start)..(Len(d) - 1) PROVE SubSeq(d, 1, k) \in open
        BY DEF Reached
    <2>2. Len(d) - 1 \in 0..Len(d) /\ k \in 0..(Len(d) - 1)
        BY <2>1
    <2>3. CASE k = Len(d) - 1
        BY <2>1, <2>3
    <2>4. CASE k # Len(d) - 1
        <3>1. Len(Front(d)) = Len(d) - 1
            BY <2>1, <2>2, Above
        <3>2. k \in Len(start)..(Len(Front(d)) - 1)
            BY <2>1, <2>4, <3>1
        <3>3. SubSeq(Front(d), 1, k) \in open
            BY <1>2, <3>2 DEF Reached
        <3> QED
            BY <2>1, <2>2, <3>3, AboveAbove
    <2> QED
        BY <2>3, <2>4
<1> QED
    BY <1>1, <1>2

\* A scan of its own directory.
OwnScan(F, r) == r.root \in Paths /\ Found(r) /\ r = scanAtDir(F, r.root)
Apart(rs) == \A i, j \in DOMAIN rs : i # j => ~IsPrefix(rs[i].root, rs[j].root)
OwnScans(F, rs) == \A i \in DOMAIN rs : OwnScan(F, rs[i])

Walked(F, start, w) ==
    /\ DOMAIN w = {"results", "visited", "open"}
    /\ w.results \in Seq({r \in {scanAtDir(F, d) : d \in Paths} : OwnScan(F, r)})
    /\ \A d \in w.open : ~Found(scanAtDir(F, d)) /\ Reached(w.open, start, d)
    /\ \A i \in DOMAIN w.results : Reached(w.open, start, w.results[i].root) /\ w.results[i].root \in w.visited
    /\ \A i, j \in DOMAIN w.results : i # j =>
          w.results[i].root # w.results[j].root /\ w.results[i].matched # w.results[j].matched
    /\ \A d \in w.visited : \E i \in DOMAIN w.results : d \in w.results[i].members \cup {w.results[i].root}

LEMMA ReachedMonotone ==
    ASSUME NEW open, NEW more, open \subseteq more, NEW start, NEW d, Reached(open, start, d)
    PROVE  Reached(more, start, d)
BY DEF Reached

LEMMA VisitedWalked ==
    ASSUME NEW F, WellFormed(F), NEW start \in Paths, NEW w, Walked(F, start, w), NEW d \in Paths, IsPrefix(start, d)
    PROVE  Walked(F, start, Visited(F, w, d, start))
<1> DEFINE scan == scanAtDir(F, d)
           All == {r \in {scanAtDir(F, e) : e \in Paths} : OwnScan(F, r)}
<1>1. CASE Visited(F, w, d, start) = w
    BY <1>1
<1>2. CASE isUnderAny(d, w.visited) \/ (d # start /\ Front(d) \notin w.open)
    BY <1>1, <1>2 DEF Visited
<1>3. CASE ~isUnderAny(d, w.visited) /\ (d = start \/ Front(d) \in w.open)
    <2>1. Reached(w.open, start, d)
        BY <1>3, ReachedNext DEF Walked
    <2>2. CASE Descends(scan)
        <3> DEFINE more == w.open \cup {d}
                   v == [w EXCEPT !.open = @ \cup {d}]
        <3>1. Visited(F, w, d, start) = v
            BY <1>3, <2>2 DEF Visited
        <3>0. DOMAIN w = {"results", "visited", "open"}
            BY DEF Walked
        <3>2. DOMAIN v = DOMAIN w /\ v.results = w.results /\ v.visited = w.visited /\ v.open = more
            BY <3>0
        <3>3. \A e \in more : ~Found(scanAtDir(F, e)) /\ Reached(more, start, e)
            BY <2>1, <2>2, ReachedMonotone DEF Walked, Descends
        <3>4. \A i \in DOMAIN w.results : Reached(more, start, w.results[i].root)
            BY ReachedMonotone DEF Walked
        <3> HIDE DEF v, more
        <3>5. Walked(F, start, v)
            BY <3>2, <3>3, <3>4 DEF Walked
        <3> QED
            BY <3>1, <3>5
    <2>3. CASE Found(scan) /\ ~AlreadyEmitted(w, scan)
        <3> DEFINE v == [w EXCEPT !.results = Append(@, scan), !.visited = @ \cup {d} \cup scan.members]
                   rs == Append(w.results, scan)
                   seen == w.visited \cup {d} \cup scan.members
        <3>1. Visited(F, w, d, start) = v
            BY <1>3, <2>3 DEF Visited, Descends
        <3>0. DOMAIN w = {"results", "visited", "open"}
            BY DEF Walked
        <3>2. DOMAIN v = DOMAIN w /\ v.results = rs /\ v.visited = seen /\ v.open = w.open
            <4> HIDE DEF scan
            <4> QED
                BY <3>0
        <3>3. scan.root = d
            BY <2>3, ScanFound DEF Placed
        <3>4. scan \in All
            BY <2>3, <3>3 DEF OwnScan
        <3>5. \A i \in DOMAIN w.results : w.results[i].root # d
            <4> SUFFICES ASSUME NEW i \in DOMAIN w.results, w.results[i].root = d PROVE FALSE
                OBVIOUS
            <4>1. d \in w.visited /\ IsPrefix(d, d)
                BY PrefixOrder DEF Walked
            <4> QED
                BY <1>3, <4>1 DEF isUnderAny
        <3> HIDE DEF scan, All
        <3>6. w.results \in Seq(All)
            BY DEF Walked, All
        <3>7. /\ rs \in Seq(All) /\ DOMAIN rs = DOMAIN w.results \cup {Len(w.results) + 1}
              /\ \A i \in DOMAIN w.results : rs[i] = w.results[i] /\ i # Len(w.results) + 1
              /\ rs[Len(w.results) + 1] = scan
            BY <3>4, <3>6
        <3> HIDE DEF rs
        <3>8. \A i \in DOMAIN rs : Reached(w.open, start, rs[i].root) /\ rs[i].root \in seen
            BY <2>1, <3>3, <3>7 DEF Walked
        <3>9. \A i, j \in DOMAIN rs : i # j => rs[i].root # rs[j].root /\ rs[i].matched # rs[j].matched
            <4>1. \A i \in DOMAIN w.results : w.results[i].matched # scan.matched
                BY <2>3 DEF AlreadyEmitted, scan
            <4> QED
                BY <3>3, <3>5, <3>7, <4>1 DEF Walked
        <3>11. \A e \in seen : \E i \in DOMAIN rs : e \in rs[i].members \cup {rs[i].root}
            BY <3>3, <3>7 DEF Walked
        <3> HIDE DEF v, seen
        <3>10. Walked(F, start, v)
            BY <3>2, <3>7, <3>8, <3>9, <3>11 DEF Walked, All
        <3> QED
            BY <3>1, <3>10
    <2> QED
        BY <1>1, <1>3, <2>2, <2>3 DEF Visited, Descends
<1> QED
    BY <1>2, <1>3

LEMMA WalkedApart ==
    ASSUME NEW F, NEW start \in Paths, NEW w, Walked(F, start, w)
    PROVE  OwnScans(F, w.results) /\ Apart(w.results)
<1>1. OwnScans(F, w.results)
    BY DEF Walked, OwnScans
<1>2. ASSUME NEW i \in DOMAIN w.results, NEW j \in DOMAIN w.results, i # j, IsPrefix(w.results[i].root, w.results[j].root)
      PROVE  FALSE
    <2> DEFINE d == w.results[i].root
               e == w.results[j].root
    <2>1. d # e /\ Reached(w.open, start, d) /\ Reached(w.open, start, e) /\ IsPrefix(d, e)
        BY <1>2 DEF Walked
    <2>2. Found(scanAtDir(F, d))
        BY <1>1 DEF OwnScans, OwnScan
    <2> HIDE DEF d, e
    <2>3. d \in Paths /\ e \in Paths /\ IsPrefix(start, d)
        BY <2>1 DEF Reached
    <2>4. d = SubSeq(e, 1, Len(d)) /\ Len(d) \in 0..Len(e)
        BY <2>1, <2>3, PrefixIsAbove
    <2>5. Len(start) <= Len(d)
        BY <2>3, PrefixIsPointwise
    <2>6. Len(d) # Len(e)
        <3>1. IsPrefix(e, d) \/ Len(d) # Len(e)
            BY <2>1, <2>3, PrefixIsPointwise
        <3> QED
            BY <2>1, <2>3, <3>1, PrefixOrder
    <2>7. Len(d) \in Len(start)..(Len(e) - 1)
        BY <2>3, <2>4, <2>5, <2>6 DEF Paths
    <2>8. d \in w.open
        BY <2>1, <2>4, <2>7 DEF Reached
    <2> QED
        BY <2>2, <2>8 DEF Walked
<1> QED
    BY <1>1, <1>2 DEF Apart

\* A directory is below one that gave a scan, or below a member.
Covered(F, start, rs, d) ==
    \E i \in DOMAIN rs :
        \/ isUnderAny(d, rs[i].members)
        \/ \E k \in Len(start)..Len(d) : rs[i].matched = scanAtDir(F, SubSeq(d, 1, k)).matched
Handled(F, start, w, d) == d \in w.open \/ Covered(F, start, w.results, d)

LEMMA FrontIsAbove ==
    ASSUME NEW d \in Paths, NEW start \in Paths, IsPrefix(start, d), d # start
    PROVE  /\ Front(d) \in Paths /\ IsPrefix(start, Front(d)) /\ IsPrefix(Front(d), d)
           /\ Len(d) \in Nat /\ Len(start) \in 0..(Len(d) - 1) /\ Len(Front(d)) = Len(d) - 1
           /\ \A k \in 0..(Len(d) - 1) : SubSeq(Front(d), 1, k) = SubSeq(d, 1, k)
<1>1. Len(d) \in Nat /\ Len(start) \in Nat /\ Len(start) <= Len(d)
    BY PrefixIsPointwise DEF Paths
<1>2. Len(start) # Len(d)
    <2>1. Len(start) = Len(d) => d = start
        BY PrefixIsPointwise, SamePath
    <2> QED
        BY <2>1
<1>3. Front(d) = SubSeq(d, 1, Len(d) - 1) /\ Len(d) - 1 \in 0..Len(d) /\ Len(start) \in 0..(Len(d) - 1)
    BY <1>1, <1>2 DEF Front, Paths
<1>4. Front(d) \in Paths /\ Len(Front(d)) = Len(d) - 1 /\ IsPrefix(Front(d), d)
    BY <1>3, Above
<1>5. \A k \in 0..(Len(d) - 1) : SubSeq(Front(d), 1, k) = SubSeq(d, 1, k)
    BY <1>3, AboveAbove
<1>6. IsPrefix(start, Front(d))
    <2>1. IsPrefix(start, Front(d)) \/ IsPrefix(Front(d), start)
        BY <1>4, PrefixOrder
    <2>2. IsPrefix(Front(d), start) => Len(Front(d)) <= Len(start) /\ \A k \in 1..Len(Front(d)) : Front(d)[k] = start[k]
        BY <1>4, PrefixIsPointwise
    <2>3. IsPrefix(Front(d), start) => Front(d) = start
        <3> SUFFICES ASSUME IsPrefix(Front(d), start) PROVE Front(d) = start
            OBVIOUS
        <3>1. Len(Front(d)) = Len(start)
            BY <1>1, <1>3, <1>4, <2>2
        <3> QED
            BY <1>4, <2>2, <3>1, SamePath
    <2> QED
        BY <1>4, <2>1, <2>3, PrefixOrder
<1> QED
    BY <1>1, <1>3, <1>4, <1>5, <1>6

\* What is below a covered directory is covered.
LEMMA CoveredBelow ==
    ASSUME NEW F, NEW start \in Paths, NEW rs, NEW d \in Paths, NEW e \in Paths, IsPrefix(d, e),
           \A i \in DOMAIN rs : rs[i].members \subseteq Paths,
           Covered(F, start, rs, d)
    PROVE  Covered(F, start, rs, e)
<1>1. PICK i \in DOMAIN rs :
        \/ isUnderAny(d, rs[i].members)
        \/ \E k \in Len(start)..Len(d) : rs[i].matched = scanAtDir(F, SubSeq(d, 1, k)).matched
    BY DEF Covered
<1>2. CASE isUnderAny(d, rs[i].members)
    <2>1. PICK m \in rs[i].members : IsPrefix(m, d)
        BY <1>2 DEF isUnderAny
    <2>2. IsPrefix(m, e)
        BY <2>1, PrefixOrder
    <2> QED
        BY <2>2 DEF Covered, isUnderAny
<1>3. ASSUME NEW k \in Len(start)..Len(d), rs[i].matched = scanAtDir(F, SubSeq(d, 1, k)).matched
      PROVE  Covered(F, start, rs, e)
    <2>1. d = SubSeq(e, 1, Len(d)) /\ Len(d) \in 0..Len(e) /\ Len(start) \in Nat /\ Len(e) \in Nat
        BY PrefixIsAbove DEF Paths
    <2>2. k \in 0..Len(d) /\ k \in Len(start)..Len(e)
        BY <2>1
    <2>3. SubSeq(d, 1, k) = SubSeq(e, 1, k)
        BY <2>1, <2>2, AboveAbove
    <2> QED
        BY <1>3, <2>2, <2>3 DEF Covered
<1> QED
    BY <1>1, <1>2, <1>3

LEMMA CoveredMonotone ==
    ASSUME NEW F, NEW start, NEW rs, NEW more, NEW d, Covered(F, start, rs, d),
           DOMAIN rs \subseteq DOMAIN more, \A i \in DOMAIN rs : more[i] = rs[i]
    PROVE  Covered(F, start, more, d)
BY DEF Covered

\* A step of the walk opens its directory, or leaves it covered.
LEMMA VisitedHandles ==
    ASSUME NEW F, WellFormed(F), NEW start \in Paths, NEW w, Walked(F, start, w), NEW d \in Paths, IsPrefix(start, d),
           d = start \/ Handled(F, start, w, Front(d))
    PROVE  LET v == Visited(F, w, d, start) IN
           /\ w.open \subseteq v.open
           /\ DOMAIN w.results \subseteq DOMAIN v.results /\ \A i \in DOMAIN w.results : v.results[i] = w.results[i]
           /\ Handled(F, start, v, d)
<1> DEFINE scan == scanAtDir(F, d)
           v == Visited(F, w, d, start)
           All == {r \in {scanAtDir(F, e) : e \in Paths} : OwnScan(F, r)}
           Goal == /\ w.open \subseteq v.open
                   /\ DOMAIN w.results \subseteq DOMAIN v.results /\ \A i \in DOMAIN w.results : v.results[i] = w.results[i]
                   /\ Handled(F, start, v, d)
<1>0. DOMAIN w = {"results", "visited", "open"}
    BY DEF Walked
<1>1. \A i \in DOMAIN w.results :
        LET r == w.results[i] IN
        r.root \in Paths /\ IsPrefix(start, r.root) /\ r = scanAtDir(F, r.root) /\ r.members \subseteq Paths
    <2> SUFFICES ASSUME NEW i \in DOMAIN w.results
                 PROVE  LET r == w.results[i] IN
                        r.root \in Paths /\ IsPrefix(start, r.root) /\ r = scanAtDir(F, r.root) /\ r.members \subseteq Paths
        OBVIOUS
    <2> DEFINE r == w.results[i]
    <2>1. OwnScans(F, w.results)
        BY WalkedApart
    <2>2. OwnScan(F, r) /\ Reached(w.open, start, r.root)
        BY <2>1 DEF Walked, OwnScans
    <2> HIDE DEF r
    <2>3. r.root \in Paths /\ Found(scanAtDir(F, r.root)) /\ r = scanAtDir(F, r.root) /\ IsPrefix(start, r.root)
        BY <2>2 DEF OwnScan, Reached
    <2>4. Placed(scanAtDir(F, r.root), r.root)
        BY <2>3, ScanFound
    <2>5. r.members \subseteq Paths
        BY <2>3, <2>4 DEF Placed
    <2> QED
        BY <2>3, <2>5 DEF r
<1>2. Len(start) \in Nat /\ Len(d) \in Nat /\ Len(start) <= Len(d) /\ SubSeq(d, 1, Len(d)) = d
    BY PrefixIsPointwise, PrefixIsAbove, PrefixOrder DEF Paths
<1>3. CASE isUnderAny(d, w.visited)
    <2>1. v = w
        BY <1>3 DEF Visited
    <2>2. PICK e \in w.visited : IsPrefix(e, d)
        BY <1>3 DEF isUnderAny
    <2>3. PICK i \in DOMAIN w.results : e \in w.results[i].members \cup {w.results[i].root}
        BY DEF Walked
    <2>4. CASE e \in w.results[i].members
        <3>1. Covered(F, start, w.results, d)
            BY <2>2, <2>4 DEF Covered, isUnderAny
        <3> QED
            BY <2>1, <3>1 DEF Handled
    <2>5. CASE e = w.results[i].root
        <3>1. e \in Paths /\ IsPrefix(start, e) /\ w.results[i].matched = scanAtDir(F, e).matched
            BY <1>1, <2>5
        <3>2. e = SubSeq(d, 1, Len(e)) /\ Len(e) \in 0..Len(d) /\ Len(start) <= Len(e)
            BY <2>2, <3>1, PrefixIsAbove, PrefixIsPointwise
        <3>3. Len(e) \in Len(start)..Len(d)
            BY <1>2, <3>2
        <3>4. w.results[i].matched = scanAtDir(F, SubSeq(d, 1, Len(e))).matched
            BY <3>1, <3>2
        <3>5. Covered(F, start, w.results, d)
            BY <3>3, <3>4 DEF Covered
        <3> QED
            BY <2>1, <3>5 DEF Handled
    <2> QED
        BY <2>3, <2>4, <2>5
<1>4. CASE ~isUnderAny(d, w.visited) /\ d # start /\ Front(d) \notin w.open
    <2>1. v = w
        BY <1>4 DEF Visited
    <2>2. Covered(F, start, w.results, Front(d))
        BY <1>4 DEF Handled
    <2>3. Front(d) \in Paths /\ IsPrefix(Front(d), d)
        BY <1>4, FrontIsAbove
    <2>4. Covered(F, start, w.results, d)
        BY <1>1, <2>2, <2>3, CoveredBelow
    <2> QED
        BY <2>1, <2>4 DEF Handled
<1>5. CASE ~isUnderAny(d, w.visited) /\ (d = start \/ Front(d) \in w.open)
    <2>1. CASE Descends(scan)
        <3>1. v = [w EXCEPT !.open = @ \cup {d}]
            BY <1>5, <2>1 DEF Visited
        <3>2. v.results = w.results /\ v.open = w.open \cup {d}
            BY <1>0, <3>1
        <3> HIDE DEF v
        <3> QED
            BY <3>2 DEF Handled, v
    <2>2. CASE Found(scan) /\ AlreadyEmitted(w, scan)
        <3>1. v = w
            BY <1>5, <2>2 DEF Visited, Descends
        <3>2. PICK i \in DOMAIN w.results : w.results[i].matched = scan.matched
            BY <2>2 DEF AlreadyEmitted
        <3>3. Len(d) \in Len(start)..Len(d)
            BY <1>2
        <3>4. w.results[i].matched = scanAtDir(F, SubSeq(d, 1, Len(d))).matched
            BY <1>2, <3>2
        <3>5. Covered(F, start, w.results, d)
            BY <3>3, <3>4 DEF Covered
        <3> QED
            BY <3>1, <3>5 DEF Handled
    <2>3. CASE Found(scan) /\ ~AlreadyEmitted(w, scan)
        <3> DEFINE rs == Append(w.results, scan)
        <3>1. v = [w EXCEPT !.results = Append(@, scan), !.visited = @ \cup {d} \cup scan.members]
            BY <1>5, <2>3 DEF Visited, Descends
        <3>2. v.results = rs /\ v.open = w.open
            <4> HIDE DEF scan
            <4> QED
                BY <1>0, <3>1
        <3>3. scan \in All
            <4>1. scan.root = d
                BY <2>3, ScanFound DEF Placed
            <4> QED
                BY <2>3, <4>1 DEF OwnScan
        <3>4. w.results \in Seq(All)
            BY DEF Walked
        <3> HIDE DEF v, All
        <3>5. /\ DOMAIN rs = DOMAIN w.results \cup {Len(w.results) + 1}
              /\ \A i \in DOMAIN w.results : rs[i] = w.results[i]
              /\ rs[Len(w.results) + 1] = scan
            <4> HIDE DEF scan
            <4> QED
                BY <3>3, <3>4
        <3> HIDE DEF rs
        <3>6. Covered(F, start, rs, d)
            <4>1. Len(d) \in Len(start)..Len(d) /\ Len(w.results) + 1 \in DOMAIN rs
                BY <1>2, <3>5
            <4>2. rs[Len(w.results) + 1].matched = scanAtDir(F, SubSeq(d, 1, Len(d))).matched
                BY <1>2, <3>5
            <4> QED
                BY <4>1, <4>2 DEF Covered
        <3>7. Handled(F, start, v, d)
            BY <3>2, <3>6 DEF Handled
        <3>8. /\ w.open \subseteq v.open
              /\ DOMAIN w.results \subseteq DOMAIN v.results /\ \A i \in DOMAIN w.results : v.results[i] = w.results[i]
            BY <3>2, <3>5
        <3> QED
            BY <3>7, <3>8 DEF v
    <2> QED
        BY <1>5, <2>1, <2>2, <2>3 DEF Descends
<1>6. Goal
    BY <1>3, <1>4, <1>5
<1> QED
    BY <1>6

\* The directories are closed under their parents, and a parent comes first.
LEMMA FrontIsEarlier ==
    ASSUME NEW F, WellFormed(F), NEW start \in Paths, NEW d \in Directories(F, start), d # start
    PROVE  Front(d) \in Directories(F, start) /\ Before(Front(d), d)
<1>1. (\A f \in DOMAIN F : f.dir \in Paths) /\ d \in Paths /\ IsPrefix(start, d)
    <2>1. \A f \in DOMAIN F : f.dir \in Paths
        BY DEF WellFormed, IsFile
    <2> QED
        BY <2>1, DirectoriesArePaths
<1>2. /\ Front(d) \in Paths /\ IsPrefix(start, Front(d)) /\ IsPrefix(Front(d), d)
      /\ Len(d) \in Nat /\ Len(start) \in 0..(Len(d) - 1) /\ Len(Front(d)) = Len(d) - 1
      /\ \A k \in 0..(Len(d) - 1) : SubSeq(Front(d), 1, k) = SubSeq(d, 1, k)
    BY <1>1, FrontIsAbove
<1>3. PICK f \in DOMAIN F : \E k \in 0..Len(f.dir) : d = SubSeq(f.dir, 1, k)
    BY DEF Directories
<1>4. PICK k \in 0..Len(f.dir) : d = SubSeq(f.dir, 1, k)
    BY <1>3
<1>5. Len(d) = k /\ k - 1 \in 0..k /\ k - 1 \in 0..Len(f.dir)
    <2>1. Len(d) = k /\ Len(f.dir) \in Nat
        BY <1>1, <1>4, Above DEF Paths
    <2> QED
        BY <1>2, <2>1
<1>6. Front(d) = SubSeq(f.dir, 1, k - 1)
    <2>1. SubSeq(d, 1, k - 1) = SubSeq(f.dir, 1, k - 1)
        BY <1>1, <1>4, <1>5, AboveAbove
    <2>2. Front(d) = SubSeq(d, 1, k - 1)
        BY <1>5 DEF Front
    <2> QED
        BY <2>1, <2>2
<1>7. /\ Len(d) <= Len(start) + MaxDepth
      /\ \A j \in (Len(start) + 1)..Len(d) : d[j] \notin IgnoredNames
    BY DEF Directories
<1>8. \A j \in 1..Len(Front(d)) : Front(d)[j] = d[j]
    BY <1>1, <1>2, PrefixIsPointwise
<1>9. /\ Len(Front(d)) <= Len(start) + MaxDepth
      /\ \A j \in (Len(start) + 1)..Len(Front(d)) : Front(d)[j] \notin IgnoredNames
    BY <1>2, <1>7, <1>8, DepthAssumption
<1>10. Front(d) \in Directories(F, start)
    <2>1. Front(d) \in UNION {{SubSeq(g.dir, 1, j) : j \in 0..Len(g.dir)} : g \in DOMAIN F}
        BY <1>5, <1>6
    <2> QED
        BY <1>2, <1>9, <2>1 DEF Directories
<1>11. Before(Front(d), d)
    BY <1>2 DEF Before
<1> QED
    BY <1>10, <1>11

LEMMA WalkEnds ==
    ASSUME NEW F, WellFormed(F), NEW start \in Paths
    PROVE  \E w : /\ Walked(F, start, w) /\ scanProjectRecursive(F, start) = w.results
                  /\ \A d \in Directories(F, start) : Handled(F, start, w, d)
<1> DEFINE n == Cardinality(Directories(F, start))
           walk == CHOOSE g : IsWalk(g, F, start, n)
           order == Ordered(F, start)
           T == {m \in Nat : m <= n =>
                    Walked(F, start, walk[m]) /\ \A k \in 1..m : Handled(F, start, walk[m], order[k])}
<1>1. /\ n \in Nat /\ order \in [1..n -> Directories(F, start)]
      /\ \A d \in Directories(F, start) : d \in Paths /\ IsPrefix(start, d) /\ \E k \in 1..n : order[k] = d
      /\ \A j, k \in 1..n : Before(order[j], order[k]) => j < k
    <2>1. \A f \in DOMAIN F : f.dir \in Paths
        BY DEF WellFormed, IsFile
    <2>2. /\ Directories(F, start) \subseteq Paths
          /\ \A d \in Directories(F, start) : IsPrefix(start, d)
        BY <2>1, DirectoriesArePaths
    <2>3. IsFiniteSet(Directories(F, start))
        BY <2>1, DirectoriesAreFinite DEF WellFormed, Paths
    <2> HIDE DEF n, order
    <2>4. /\ n \in Nat /\ order \in [1..n -> Directories(F, start)]
          /\ \A d \in Directories(F, start) : \E k \in 1..n : order[k] = d
          /\ \A j, k \in 1..n : Before(order[j], order[k]) => j < k
        BY <2>2, <2>3, OrderedVisits DEF n, order
    <2> QED
        BY <2>2, <2>4
<1>2. IsWalk(walk, F, start, n)
    BY <1>1, WalkExists
<1>3. scanProjectRecursive(F, start) = walk[n].results
    BY DEF scanProjectRecursive, IsWalk, Start
<1>4. \A k \in 0..n : walk[k] = IF k = 0 THEN Start ELSE Visited(F, walk[k - 1], order[k], start)
    BY <1>2 DEF IsWalk
<1> HIDE DEF walk, n, order
<1>5. 0 \in T
    <2>1. walk[0] = Start
        BY <1>1, <1>4
    <2>2. Walked(F, start, Start)
        BY DEF Start, Walked
    <2> QED
        BY <2>1, <2>2
<1>6. ASSUME NEW m \in T PROVE m + 1 \in T
    <2> DEFINE w == walk[m]
               d == order[m + 1]
    <2> SUFFICES ASSUME m + 1 <= n
                 PROVE  /\ Walked(F, start, walk[m + 1])
                        /\ \A k \in 1..(m + 1) : Handled(F, start, walk[m + 1], order[k])
        OBVIOUS
    <2>1. m \in Nat /\ m + 1 \in 1..n /\ m + 1 \in 0..n /\ (m + 1) - 1 = m /\ m + 1 # 0 /\ m <= n
        BY <1>1
    <2>2. Walked(F, start, w) /\ \A k \in 1..m : Handled(F, start, w, order[k])
        BY <2>1
    <2>3. walk[m + 1] = Visited(F, w, d, start)
        BY <1>4, <2>1
    <2>4. d \in Directories(F, start) /\ d \in Paths /\ IsPrefix(start, d)
        BY <1>1, <2>1
    <2>5. d = start \/ Handled(F, start, w, Front(d))
        <3> SUFFICES ASSUME d # start PROVE Handled(F, start, w, Front(d))
            OBVIOUS
        <3>1. Front(d) \in Directories(F, start) /\ Before(Front(d), d)
            BY <2>4, FrontIsEarlier
        <3>2. PICK k \in 1..n : order[k] = Front(d)
            BY <1>1, <3>1
        <3>3. k < m + 1
            BY <1>1, <2>1, <3>1, <3>2
        <3>4. k \in 1..m
            BY <2>1, <3>3
        <3> QED
            BY <2>2, <3>2, <3>4
    <2> HIDE DEF w, d
    <2>6. Walked(F, start, walk[m + 1])
        BY <2>2, <2>3, <2>4, VisitedWalked
    <2>7. /\ w.open \subseteq walk[m + 1].open
          /\ DOMAIN w.results \subseteq DOMAIN walk[m + 1].results
          /\ \A i \in DOMAIN w.results : walk[m + 1].results[i] = w.results[i]
          /\ Handled(F, start, walk[m + 1], d)
        BY <2>2, <2>3, <2>4, <2>5, VisitedHandles
    <2>8. \A k \in 1..m : Handled(F, start, walk[m + 1], order[k])
        BY <2>2, <2>7, CoveredMonotone DEF Handled
    <2>9. \A k \in 1..(m + 1) : k \in 1..m \/ k = m + 1
        BY <2>1
    <2> QED
        BY <2>6, <2>7, <2>8, <2>9 DEF d
<1>7. T = Nat
    <2>1. T \in SUBSET Nat
        OBVIOUS
    <2> HIDE DEF T
    <2> QED
        BY <1>5, <1>6, <2>1, NaturalsByStep
<1>8. Walked(F, start, walk[n]) /\ \A k \in 1..n : Handled(F, start, walk[n], order[k])
    <2>1. n \in T /\ n <= n
        BY <1>1, <1>7
    <2> QED
        BY <2>1
<1>9. \A d \in Directories(F, start) : Handled(F, start, walk[n], d)
    BY <1>1, <1>8
<1> QED
    BY <1>3, <1>8, <1>9

\* The walk descends from a directory or scans it, never both: no root is below another.
LEMMA WalkApart ==
    ASSUME NEW F, WellFormed(F), NEW start \in Paths
    PROVE  OwnScans(F, scanProjectRecursive(F, start)) /\ Apart(scanProjectRecursive(F, start))
BY WalkEnds, WalkedApart

LEMMA WalkListed ==
    ASSUME NEW F, WellFormed(F), NEW start \in Paths
    PROVE  \E n \in Nat : DOMAIN scanProjectRecursive(F, start) = 1..n
<1>1. PICK w : Walked(F, start, w) /\ scanProjectRecursive(F, start) = w.results
    BY WalkEnds
<1> DEFINE All == {r \in {scanAtDir(F, e) : e \in Paths} : OwnScan(F, r)}
<1>2. w.results \in Seq(All)
    BY <1>1 DEF Walked
<1> HIDE DEF All
<1>3. Len(w.results) \in Nat /\ DOMAIN w.results = 1..Len(w.results)
    BY <1>2
<1> QED
    BY <1>1, <1>3

LEMMA MaxIsLast ==
    ASSUME NEW n \in Nat, NEW S \in SUBSET (0..n), S # {}
    PROVE  Max(S) \in S /\ \A k \in S : k <= Max(S)
<1> DEFINE L == {n - k : k \in S}
<1>1. L \in SUBSET Nat /\ L # {}
    <2>1. \A k \in S : n - k \in Nat
        OBVIOUS
    <2>2. \A l \in L : l \in Nat
        BY <2>1
    <2> QED
        BY <2>2
<1> HIDE DEF L
<1>2. PICK l \in L : \A m \in L : l <= m
    BY <1>1, LeastNatural
<1>3. PICK k \in S : l = n - k
    BY DEF L
<1>4. \A m \in S : k >= m
    <2> SUFFICES ASSUME NEW m \in S PROVE k >= m
        OBVIOUS
    <2>1. n - k <= n - m
        BY <1>2, <1>3 DEF L
    <2>2. k \in Int /\ m \in Int
        OBVIOUS
    <2> QED
        BY <2>1, <2>2
<1>5. Max(S) \in S /\ \A m \in S : Max(S) >= m
    BY <1>4 DEF Max
<1>6. \A m \in S : m \in Int
    OBVIOUS
<1> QED
    BY <1>5, <1>6

LEMMA ProjectsApart ==
    ASSUME NEW F, WellFormed(F), NEW cwd \in Paths
    PROVE  OwnScans(F, ProjectScans(F, cwd)) /\ Apart(ProjectScans(F, cwd))
<1> DEFINE levels == {k \in 0..Len(cwd) : scanAtDir(F, SubSeq(cwd, 1, k)).type # "none"}
           up == scanProject(F, cwd)
<1>1. CASE ProjectScans(F, cwd) = scanProjectRecursive(F, cwd)
    BY <1>1, WalkApart
<1>2. CASE ProjectScans(F, cwd) = <<>>
    BY <1>2 DEF OwnScans, Apart
<1>3. CASE Found(up) /\ ProjectScans(F, cwd) = <<up>>
    <2>1. levels # {} /\ up = scanAtDir(F, SubSeq(cwd, 1, Max(levels)))
        BY <1>3 DEF scanProject, Found, NoScan
    <2>2. Max(levels) \in 0..Len(cwd)
        <3>1. Len(cwd) \in Nat /\ levels \in SUBSET (0..Len(cwd))
            BY DEF Paths
        <3> HIDE DEF levels
        <3> QED
            BY <2>1, <3>1, MaxIsLast
    <2>3. SubSeq(cwd, 1, Max(levels)) \in Paths
        BY <2>2, Above
    <2> DEFINE d == SubSeq(cwd, 1, Max(levels))
    <2>4. up.root = d
        <3>1. d \in Paths /\ Found(scanAtDir(F, d)) /\ up = scanAtDir(F, d)
            BY <1>3, <2>1, <2>3
        <3> HIDE DEF d, up
        <3>2. Placed(scanAtDir(F, d), d)
            BY <3>1, ScanFound
        <3> QED
            BY <3>1, <3>2 DEF Placed
    <2>5. OwnScan(F, up)
        BY <1>3, <2>1, <2>3, <2>4 DEF OwnScan
    <2> HIDE DEF up
    <2> QED
        BY <1>3, <2>5 DEF OwnScans, Apart
<1> QED
    BY <1>1, <1>2, <1>3 DEF ProjectScans

LEMMA ProjectsListed ==
    ASSUME NEW F, WellFormed(F), NEW cwd \in Paths
    PROVE  \E n \in Nat : DOMAIN ProjectScans(F, cwd) = 1..n
<1>1. ProjectScans(F, cwd) \in {scanProjectRecursive(F, cwd), <<>>, <<scanProject(F, cwd)>>}
    BY DEF ProjectScans
<1>2. DOMAIN <<>> = 1..0 /\ \A up : DOMAIN <<up>> = 1..1
    OBVIOUS
<1> QED
    BY <1>1, <1>2, WalkListed

-----------------------------------------------------------------------------
(* A scan of a tree leaves no directory out                                *)

\* A directory that can be scanned, at any depth up to MaxDepth, is below one that gave a
\* scan or below a workspace's member: in every tree, whatever in it cannot be read.
THEOREM ScanIsComplete ==
    ASSUME NEW F, WellFormed(F), NEW start \in Paths
    PROVE  IsComplete(F, start, scanProjectRecursive(F, start))
<1>1. PICK w : /\ Walked(F, start, w) /\ scanProjectRecursive(F, start) = w.results
               /\ \A d \in Directories(F, start) : Handled(F, start, w, d)
    BY WalkEnds
<1>2. \A d \in w.open : ~Found(scanAtDir(F, d))
    BY <1>1 DEF Walked
<1> QED
    BY <1>1, <1>2 DEF IsComplete, Handled, Covered

-----------------------------------------------------------------------------
(* A scan of a tree reads no manifest twice                                *)

Sole(scan) == {g \in scan.extras : g.name = "x.sln"}

\* The project files that the scan of a directory reads are its own, or those that the
\* solution above it lists.
ListedBy(F, d, scan, sln) ==
    /\ sln \in Nearest(F, d, "x.sln") /\ Listed(F, sln) # {}
    /\ scan.matched = F[sln].members[Min(Listed(F, sln))]
    /\ Sole(scan) = {sln}
    /\ \A f \in scan.reads : f.name \in {"a.csproj", "b.csproj"} => f \in Items(F[sln].members, Listed(F, sln))

LEMMA SlnListed ==
    ASSUME NEW F, WellFormed(F), NEW d \in Paths, NEW sln \in Nearest(F, d, "x.sln"), NEW anchor,
           Found(handleSlnDispatch(F, sln, d, anchor))
    PROVE  ListedBy(F, d, handleSlnDispatch(F, sln, d, anchor), sln)
<1> DEFINE scan == handleSlnDispatch(F, sln, d, anchor)
           all == F[sln].members
           listed == Listed(F, sln)
           props == PropsAbove(F, anchor)
<1>1. IsSlnScan(F, scan, sln, d, anchor)
    BY SlnFound
<1> HIDE DEF scan
<1>2. /\ listed # {} /\ scan.matched = all[Min(listed)]
      /\ scan.extras = {sln} \cup Items(all, listed \ {Min(listed)}) \cup props
      /\ scan.reads = {sln} \cup Items(all, listed) \cup props
    BY <1>1 DEF IsSlnScan, SlnReads
<1>3. sln \in DOMAIN F /\ sln.name = "x.sln"
    BY DEF Nearest
<1>4. \A k \in listed : all[k].name \in {"a.csproj", "b.csproj"}
    BY <1>3, ListedPositions
<1>5. \A f \in props : f.name = "Directory.Packages.props"
    BY DEF PropsAbove, Nearest
<1> HIDE DEF listed, all, props
<1>6. Sole(scan) = {sln}
    BY <1>2, <1>3, <1>4, <1>5 DEF Sole, Items
<1>7. \A f \in scan.reads : f.name \in {"a.csproj", "b.csproj"} => f \in Items(all, listed)
    BY <1>2, <1>3, <1>5
<1> QED
    BY <1>2, <1>6, <1>7 DEF ListedBy, scan, listed, all

LEMMA OwnSolution ==
    ASSUME NEW F, WellFormed(F), NEW d \in Paths, Solution(d) \in DOMAIN F
    PROVE  Solution(d) \in Nearest(F, d, "x.sln")
<1>1. Solution(d).name = "x.sln" /\ Solution(d).dir = d
    BY DEF Solution, File
<1>2. \A k \in (Len(d) + 1)..Len(d) : FALSE
    BY DEF Paths
<1> QED
    BY <1>1, <1>2, PrefixOrder DEF Nearest

LEMMA ProjectsAreListed ==
    ASSUME NEW F, WellFormed(F), NEW d \in Paths, Found(scanAtDir(F, d)),
           NEW f \in scanAtDir(F, d).reads, f.name \in {"a.csproj", "b.csproj"}
    PROVE  LET scan == scanAtDir(F, d) IN
           \/ scan.type = "sln" /\ \E sln \in DOMAIN F : ListedBy(F, d, scan, sln)
           \/ scan.type = "csproj" /\ f.dir = d /\ \A sln \in Nearest(F, d, "x.sln") : Listed(F, sln) = {}
<1> DEFINE scan == scanAtDir(F, d)
<1>1. scan.type \in {"sln", "csproj"}
    <2>1. Placed(scan, d)
        BY ScanFound
    <2> HIDE DEF scan
    <2>2. scan.type \notin {"sln", "csproj"} => Below(scan.reads, d)
        BY <2>1 DEF Placed
    <2> QED
        BY <2>2 DEF Below, Projects, scan
<1>2. PICK i \in Hits(F, d) :
        /\ \A j \in Hits(F, d) : i <= j
        /\ i = 1 => scan = traverseAggregatorPom(F, First(i, d))
        /\ i = 2 => scan = SlnMatch(F, d, Solution(d))
        /\ i = 3 => scan = handleCsprojMatch(F, d, ProjectsIn(d), OwnOf(F, d))
        /\ i = 4 => scan = traverseCargoWorkspace(F, First(i, d))
        /\ i = 6 => scan = handleGoWorkMatch(F, First(i, d))
        /\ i = 9 => scan = traverseJsWorkspaces(F, First(i, d))
        /\ i = 12 => scan = discoverGradleProjects(F, First(i, d))
        /\ i \notin {1, 2, 3, 4, 6, 9, 12} => scan = Reading(F, {First(i, d)}, Scan(d, Type(i), First(i, d), {}, {}))
    BY ScanCases
<1>3. i \in {2, 3}
    <2>1. PICK j \in 1..13 : IsScanBy(F, d, j, scan)
        BY ScanFound
    <2>2. i \in 1..13 /\ j \in Hits(F, d) /\ i = j
        BY <1>2, <2>1 DEF IsScanBy, Hits
    <2> HIDE DEF scan
    <2>3. j \notin {2, 3} => scan.type \in Plain \cup {"package.json", "libs.versions.toml"}
        BY <2>1, Entries DEF IsScanBy
    <2> QED
        BY <1>1, <2>2, <2>3 DEF Plain
<1>4. CASE i = 2
    <2> DEFINE sln == Solution(d)
               one == handleSlnDispatch(F, sln, d, Anchor(F, d))
               files == {sln}
               alone == Reading(F, files, Scan(d, "sln", sln, {}, {}))
    <2>1. sln \in DOMAIN F /\ sln \in Nearest(F, d, "x.sln") /\ sln.name = "x.sln"
        BY <1>4, HitsAreFiles, OwnSolution DEF Solution, File
    <2>2. scan = IF one = NoScan THEN alone ELSE one
        BY <1>2, <1>4 DEF SlnMatch, Anchor
    <2>3. scan = one /\ one # NoScan
        <3>1. alone.reads \subseteq files
            BY DEF Reading, Scan, Thrown, NoScan
        <3>2. f \notin files
            BY <2>1
        <3> QED
            BY <2>2, <3>1, <3>2
    <2>4. Found(one)
        BY <2>3
    <2>5. ListedBy(F, d, one, sln)
        BY <2>1, <2>4, SlnListed
    <2>6. one.type = "sln"
        <3>1. IsSlnScan(F, one, sln, d, Anchor(F, d))
            BY <2>4, SlnFound
        <3> HIDE DEF one
        <3> QED
            BY <3>1 DEF IsSlnScan
    <2> HIDE DEF one
    <2> QED
        BY <2>1, <2>3, <2>5, <2>6
<1>5. CASE i = 3
    <2> DEFINE slns  == Nearest(F, d, "x.sln")
               above == {handleSlnDispatch(F, sln, d, d) : sln \in slns} \ {NoScan}
               own   == OwnOf(F, d)
    <2>1. own # {}
        BY <1>5, HitsAreFiles
    <2>2. above # {} => scan \in above
        <3>1. above # {} => scan = CHOOSE s \in above : TRUE
            BY <1>2, <1>5 DEF handleCsprojMatch
        <3> HIDE DEF above, scan
        <3> QED
            BY <3>1
    <2>3. CASE above # {}
        <3>1. PICK sln \in slns : scan = handleSlnDispatch(F, sln, d, d)
            BY <2>2, <2>3
        <3>2. Found(handleSlnDispatch(F, sln, d, d))
            BY <3>1
        <3>3. ListedBy(F, d, scan, sln)
            BY <3>1, <3>2, SlnListed
        <3>4. IsSlnScan(F, scan, sln, d, d)
            BY <3>1, <3>2, SlnFound
        <3>5. sln \in DOMAIN F
            BY DEF Nearest
        <3> HIDE DEF scan
        <3>6. scan.type = "sln"
            BY <3>4 DEF IsSlnScan
        <3> QED
            BY <3>3, <3>5, <3>6 DEF scan
    <2>4. CASE above = {}
        <3> DEFINE handled == handleCsprojMatch(F, d, ProjectsIn(d), own)
        <3>1. scan = handled /\ Found(handled)
            BY <1>2, <1>5
        <3>2. \/ /\ handled.type = "sln"
                 /\ \E sln \in slns : Listed(F, sln) # {} /\ handled.reads = SlnReads(F, sln, d)
              \/ /\ handled.type = "csproj" /\ handled.reads = OwnReads(F, d)
                 /\ \A sln \in slns : Listed(F, sln) = {}
            BY <2>1, <3>1, CsprojFound
        <3> HIDE DEF handled
        <3>3. handled.type # "sln"
            <4> USE DEF handled
            <4>1. \A sln, files, x : Reading(F, files, Scan(d, "csproj", sln, {}, x)).type \in {"csproj", "thrown"}
                BY DEF Reading, Scan, Thrown, NoScan
            <4> QED
                BY <2>4, <4>1 DEF handleCsprojMatch
        <3>4. f \in OwnReads(F, d)
            BY <3>1, <3>2, <3>3
        <3>5. \A g \in OwnReads(F, d) : g.name \in {"x.sln", "Directory.Packages.props"} \/ g.dir = d
            <4>1. \A k \in OwnOf(F, d) : ProjectsIn(d)[k].dir = d
                BY DEF OwnOf, ProjectsIn, File
            <4>2. Capped(OwnOf(F, d)) \subseteq OwnOf(F, d)
                BY DEF Capped
            <4> QED
                BY <4>1, <4>2 DEF OwnReads, PropsAbove, Nearest, Items
        <3> QED
            BY <3>1, <3>2, <3>3, <3>4, <3>5
    <2> QED
        BY <2>3, <2>4
<1> QED
    BY <1>3, <1>4, <1>5

\* A solution that is found from one directory below the start is found from every other
\* that it lies above, unless something parts them.
LEMMA SameSolution ==
    ASSUME NEW F, WellFormed(F), NEW start \in Paths, NEW d \in Paths, NEW e \in Paths,
           IsPrefix(start, d), IsPrefix(start, e), NEW sln \in Nearest(F, d, "x.sln"), IsPrefix(sln.dir, e)
    PROVE  sln \in Nearest(F, e, "x.sln") \/ Parted(F, start, e)
<1> SUFFICES ASSUME ~Parted(F, start, e) PROVE sln \in Nearest(F, e, "x.sln")
    OBVIOUS
<1>1. /\ sln \in DOMAIN F /\ sln.name = "x.sln" /\ sln.dir \in Paths /\ Len(sln.dir) \in 0..Len(d)
      /\ \A k \in (Len(sln.dir) + 1)..Len(d) : ~Has(F, SubSeq(d, 1, k), "x.sln") /\ ~Has(F, SubSeq(d, 1, k), ".git")
    BY NearestIsAbove DEF Nearest
<1>2. Len(start) \in Nat /\ Len(d) \in Nat /\ Len(e) \in Nat /\ Len(start) <= Len(d) /\ Len(start) <= Len(e)
    BY PrefixIsPointwise DEF Paths
<1>3. \A k \in 0..Len(start) : SubSeq(d, 1, k) = SubSeq(e, 1, k)
    <2>1. start = SubSeq(d, 1, Len(start)) /\ start = SubSeq(e, 1, Len(start)) /\ Len(start) \in 0..Len(d) /\ Len(start) \in 0..Len(e)
        BY PrefixIsAbove
    <2>2. \A k \in 0..Len(start) : SubSeq(SubSeq(d, 1, Len(start)), 1, k) = SubSeq(d, 1, k)
        BY <2>1, AboveAbove
    <2>3. \A k \in 0..Len(start) : SubSeq(SubSeq(e, 1, Len(start)), 1, k) = SubSeq(e, 1, k)
        BY <2>1, AboveAbove
    <2> QED
        BY <2>1, <2>2, <2>3
<1>4. ASSUME NEW k \in (Len(sln.dir) + 1)..Len(e)
      PROVE  ~Has(F, SubSeq(e, 1, k), "x.sln") /\ ~Has(F, SubSeq(e, 1, k), ".git")
    <2>1. CASE k \in 0..Len(start)
        <3>1. k \in (Len(sln.dir) + 1)..Len(d)
            BY <1>1, <1>2, <2>1
        <3> QED
            BY <1>1, <1>3, <2>1, <3>1
    <2>2. CASE k \notin 0..Len(start)
        <3>1. k \in (Len(start) + 1)..Len(e)
            BY <1>1, <1>2, <2>2
        <3> QED
            BY <3>1 DEF Parted
    <2> QED
        BY <2>1, <2>2
<1> QED
    BY <1>1, <1>4 DEF Nearest

LEMMA ProjectNames ==
    ASSUME NEW F, WellFormed(F), NEW d \in Paths, Found(scanAtDir(F, d)), scanAtDir(F, d).type \in {"sln", "csproj"},
           NEW f \in scanAtDir(F, d).reads
    PROVE  f.name \in Projects \cup {"Directory.Packages.props"}
<1> DEFINE scan == scanAtDir(F, d)
<1>1. PICK i \in 1..13 : IsScanBy(F, d, i, scan)
    BY ScanFound
<1>2. \A anchor : \A g \in PropsAbove(F, anchor) : g.name = "Directory.Packages.props"
    BY DEF PropsAbove, Nearest
<1>3. ASSUME NEW sln \in DOMAIN F, sln.name = "x.sln", NEW anchor, NEW g \in SlnReads(F, sln, anchor)
      PROVE  g.name \in Projects \cup {"Directory.Packages.props"}
    <2>1. \A k \in Listed(F, sln) : F[sln].members[k].name \in {"a.csproj", "b.csproj"}
        BY <1>3, ListedPositions
    <2> QED
        BY <1>2, <1>3, <2>1 DEF SlnReads, Items, Projects
<1>4. \A g \in OwnReads(F, d) : g.name \in Projects \cup {"Directory.Packages.props"}
    <2>1. \A k \in OwnOf(F, d) : ProjectsIn(d)[k].name \in Projects
        BY DEF OwnOf, ProjectsIn, File, Projects
    <2>2. Capped(OwnOf(F, d)) \subseteq OwnOf(F, d)
        BY DEF Capped
    <2>3. \A g \in Nearest(F, d, "x.sln") : g.name \in Projects
        BY DEF Nearest, Projects
    <2> QED
        BY <1>2, <2>1, <2>2, <2>3 DEF OwnReads, Items
<1> HIDE DEF scan
<1>5. CASE i = 2
    <2>1. Solution(d) \in DOMAIN F /\ Solution(d).name = "x.sln"
        BY <1>1, <1>5, HitsAreFiles DEF IsScanBy, Solution, File
    <2>2. scan.reads = {Solution(d)} \/ scan.reads = SlnReads(F, Solution(d), Anchor(F, d))
        BY <1>1, <1>5 DEF IsScanBy, Reads
    <2> QED
        BY <1>3, <2>1, <2>2 DEF Projects, scan
<1>6. CASE i = 3
    <2>1. \/ \E sln \in Nearest(F, d, "x.sln") : scan.reads = SlnReads(F, sln, d)
          \/ scan.reads = OwnReads(F, d)
        BY <1>1, <1>6 DEF IsScanBy, ProjectsRead
    <2>2. \A sln \in Nearest(F, d, "x.sln") : sln \in DOMAIN F /\ sln.name = "x.sln"
        BY DEF Nearest
    <2> QED
        BY <1>3, <1>4, <2>1, <2>2 DEF scan
<1>7. CASE i \notin {2, 3}
    <2>1. scan.type \in Plain \cup {"package.json", "libs.versions.toml"}
        BY <1>1, <1>7, Entries DEF IsScanBy
    <2> QED
        BY <2>1 DEF Plain, scan
<1> QED
    BY <1>5, <1>6, <1>7

\* A project that a solution lists is scanned on its own where something parts them only.
LEMMA AloneIsParted ==
    ASSUME NEW F, WellFormed(F), NEW start \in Paths, NEW d \in Paths, NEW e \in Paths,
           IsPrefix(start, d), IsPrefix(start, e), NEW scan, NEW sln, ListedBy(F, d, scan, sln),
           NEW f \in scan.reads, f.name \in {"a.csproj", "b.csproj"}, f.dir = e,
           \A other \in Nearest(F, e, "x.sln") : Listed(F, other) = {}
    PROVE  Parted(F, start, e)
<1>1. sln \in Nearest(F, d, "x.sln") /\ Listed(F, sln) # {} /\ f \in Items(F[sln].members, Listed(F, sln))
    BY DEF ListedBy
<1>2. IsPrefix(sln.dir, e)
    BY <1>1 DEF Items, Listed
<1> QED
    BY <1>1, <1>2, SameSolution

\* In every tree, two scans read one manifest of dependencies only when two solutions list
\* it, or when a repository's root or a useless solution parts it from the one that does.
THEOREM ScanReadsOnce ==
    ASSUME NEW F, WellFormed(F), NEW start \in Paths
    PROVE  IsReadOnce(F, start, scanProjectRecursive(F, start))
<1>1. PICK w : Walked(F, start, w) /\ scanProjectRecursive(F, start) = w.results
    BY WalkEnds
<1> DEFINE rs == w.results
<1>2. OwnScans(F, rs) /\ Apart(rs)
    BY <1>1, WalkedApart
<1> SUFFICES ASSUME NEW i \in DOMAIN rs, NEW j \in DOMAIN rs, i # j,
                    NEW f \in rs[i].reads \cap rs[j].reads,
                    f.name \notin {"Directory.Packages.props", "x.sln"}
             PROVE  \/ rs[i].type = "sln" /\ rs[j].type = "sln" /\ Sole(rs[i]) # Sole(rs[j])
                    \/ {rs[i].type, rs[j].type} = {"sln", "csproj"} /\ Parted(F, start, f.dir)
    BY <1>1 DEF IsReadOnce, Sole
<1> DEFINE p == rs[i]
           q == rs[j]
           d == rs[i].root
           e == rs[j].root
<1>3. /\ d \in Paths /\ Found(p) /\ p = scanAtDir(F, d) /\ IsPrefix(start, d)
      /\ e \in Paths /\ Found(q) /\ q = scanAtDir(F, e) /\ IsPrefix(start, e)
    BY <1>1, <1>2 DEF OwnScans, OwnScan, Walked, Reached
<1>4. d # e /\ ~IsPrefix(d, e) /\ ~IsPrefix(e, d) /\ p.matched # q.matched
    BY <1>1, <1>2 DEF Walked, Apart
<1>5. f \in p.reads /\ f \in q.reads
    OBVIOUS
<1> HIDE DEF p, q, d, e
<1>6. CASE p.type \notin {"sln", "csproj"} \/ q.type \notin {"sln", "csproj"}
    <2>1. Placed(p, d) /\ Placed(q, e)
        BY <1>3, ScanFound
    <2>2. /\ p.type \notin {"sln", "csproj"} => Below(p.reads, d)
          /\ q.type \notin {"sln", "csproj"} => Below(q.reads, e)
        BY <2>1 DEF Placed
    <2>3. /\ p.type \in {"sln", "csproj"} => f.name \in Projects \cup {"Directory.Packages.props"}
          /\ q.type \in {"sln", "csproj"} => f.name \in Projects \cup {"Directory.Packages.props"}
        BY <1>3, <1>5, ProjectNames
    <2>4. f.name \notin Projects
        BY <1>5, <1>6, <2>2 DEF Below
    <2>5. Below(p.reads, d) /\ Below(q.reads, e)
        BY <2>2, <2>3, <2>4
    <2>6. f.dir \in Paths /\ IsPrefix(d, f.dir) /\ IsPrefix(e, f.dir)
        BY <1>5, <2>5 DEF Below
    <2> QED
        BY <1>3, <1>4, <2>6, PrefixOrder
<1>7. CASE p.type \in {"sln", "csproj"} /\ q.type \in {"sln", "csproj"}
    <2>1. f.name \in {"a.csproj", "b.csproj"}
        BY <1>3, <1>5, <1>7, ProjectNames DEF Projects
    <2>2. \/ p.type = "sln" /\ \E sln \in DOMAIN F : ListedBy(F, d, p, sln)
          \/ p.type = "csproj" /\ f.dir = d /\ \A sln \in Nearest(F, d, "x.sln") : Listed(F, sln) = {}
        BY <1>3, <1>5, <2>1, ProjectsAreListed
    <2>3. \/ q.type = "sln" /\ \E sln \in DOMAIN F : ListedBy(F, e, q, sln)
          \/ q.type = "csproj" /\ f.dir = e /\ \A sln \in Nearest(F, e, "x.sln") : Listed(F, sln) = {}
        BY <1>3, <1>5, <2>1, ProjectsAreListed
    <2>4. CASE p.type = "sln" /\ q.type = "sln"
        <3>1. PICK s, t : ListedBy(F, d, p, s) /\ ListedBy(F, e, q, t)
            BY <2>2, <2>3, <2>4
        <3>2. s # t
            BY <1>4, <3>1 DEF ListedBy
        <3>3. Sole(p) # Sole(q)
            BY <3>1, <3>2 DEF ListedBy
        <3> QED
            BY <2>4, <3>3 DEF p, q
    <2>5. CASE p.type = "csproj" /\ q.type = "csproj"
        BY <1>4, <2>2, <2>3, <2>5
    <2>6. CASE p.type = "sln" /\ q.type = "csproj"
        <3>1. PICK s : ListedBy(F, d, p, s)
            BY <2>2, <2>6
        <3>2. f.dir = e /\ \A sln \in Nearest(F, e, "x.sln") : Listed(F, sln) = {}
            BY <2>3, <2>6
        <3>3. Parted(F, start, e)
            BY <1>3, <1>5, <2>1, <3>1, <3>2, AloneIsParted
        <3> QED
            BY <2>6, <3>2, <3>3 DEF p, q
    <2>7. CASE p.type = "csproj" /\ q.type = "sln"
        <3>1. PICK s : ListedBy(F, e, q, s)
            BY <2>3, <2>7
        <3>2. f.dir = d /\ \A sln \in Nearest(F, d, "x.sln") : Listed(F, sln) = {}
            BY <2>2, <2>7
        <3>3. Parted(F, start, d)
            BY <1>3, <1>5, <2>1, <3>1, <3>2, AloneIsParted
        <3> QED
            BY <2>7, <3>2, <3>3 DEF p, q
    <2> QED
        BY <1>7, <2>4, <2>5, <2>6, <2>7
<1> QED
    BY <1>6, <1>7

-----------------------------------------------------------------------------
(* Recursive functions and sequences                                       *)

\* Induction up to n.
LEMMA UpTo ==
    ASSUME NEW n \in Nat, NEW T, 0 \in T, \A k \in 0..(n - 1) : k \in T => k + 1 \in T
    PROVE  0..n \subseteq T
<1> DEFINE U == {m \in Nat : m <= n => m \in T}
<1>1. 0 \in U
    OBVIOUS
<1>2. ASSUME NEW m \in U PROVE m + 1 \in U
    OBVIOUS
<1>3. U \in SUBSET Nat
    OBVIOUS
<1> HIDE DEF U
<1>4. U = Nat
    BY <1>1, <1>2, <1>3, NaturalsByStep
<1> QED
    BY <1>4 DEF U

\* What a recursive function of 0..n satisfies, and a step that stays in S.
Recursion(g, S, a, n, f) == g \in [0..n -> S] /\ g[0] = a /\ \A k \in 1..n : g[k] = f[<<k, g[k - 1]>>]
Stays(f, S, n) == \A k \in 1..n : \A x \in S : f[<<k, x>>] \in S

\* A function that is defined at 0 and from each number to the next exists.
LEMMA RecursionExists ==
    ASSUME NEW S, NEW a \in S, NEW n \in Nat, NEW f, Stays(f, S, n)
    PROVE  \E g : Recursion(g, S, a, n, f)
<1> DEFINE Is(g, m) == g \in [0..m -> S] /\ g[0] = a /\ \A k \in 1..m : g[k] = f[<<k, g[k - 1]>>]
           T == {m \in Nat : \E g : Is(g, m)}
<1>1. 0 \in T
    <2>1. Is([k \in 0..0 |-> a], 0)
        OBVIOUS
    <2> QED
        BY <2>1
<1>2. ASSUME NEW m \in 0..(n - 1), m \in T PROVE m + 1 \in T
    <2>1. PICK g : Is(g, m)
        BY <1>2
    <2> DEFINE h == [k \in 0..(m + 1) |-> IF k = m + 1 THEN f[<<m + 1, g[m]>>] ELSE g[k]]
    <2>2. m \in Nat /\ m + 1 \in 1..n /\ m + 1 \in Nat
        OBVIOUS
    <2>3. g \in [0..m -> S] /\ g[0] = a /\ \A k \in 1..m : g[k] = f[<<k, g[k - 1]>>]
        BY <2>1
    <2>4. f[<<m + 1, g[m]>>] \in S
        BY <2>2, <2>3 DEF Stays
    <2>5. \A k \in 0..m : h[k] = g[k] /\ k # m + 1 /\ k \in 0..(m + 1)
        BY <2>2
    <2>6. h[m + 1] = f[<<m + 1, g[m]>>]
        BY <2>2
    <2>7. DOMAIN h = 0..(m + 1) /\ h = [k \in 0..(m + 1) |-> h[k]]
        OBVIOUS
    <2> HIDE DEF h
    <2>8. ASSUME NEW k \in 0..(m + 1) PROVE h[k] \in S
        <3>1. CASE k = m + 1
            BY <2>4, <2>6, <3>1
        <3>2. CASE k # m + 1
            <4>1. k \in 0..m
                BY <2>2, <3>2
            <4> QED
                BY <2>3, <2>5, <4>1
        <3> QED
            BY <3>1, <3>2
    <2>9. h \in [0..(m + 1) -> S]
        BY <2>7, <2>8
    <2>10. ASSUME NEW k \in 1..(m + 1) PROVE h[k] = f[<<k, h[k - 1]>>]
        <3>1. CASE k = m + 1
            <4>1. k - 1 = m /\ m \in 0..m
                BY <2>2, <3>1
            <4> QED
                BY <2>5, <2>6, <3>1, <4>1
        <3>2. CASE k # m + 1
            <4>1. k \in 1..m /\ k \in 0..m /\ k - 1 \in 0..m
                BY <2>2, <3>2
            <4> QED
                BY <2>3, <2>5, <4>1
        <3> QED
            BY <3>1, <3>2
    <2>11. h[0] = a
        <3>1. 0 \in 0..m
            BY <2>2
        <3> QED
            BY <2>3, <2>5, <3>1
    <2>12. Is(h, m + 1)
        BY <2>9, <2>10, <2>11
    <2> QED
        BY <2>2, <2>12
<1> HIDE DEF T
<1>3. 0..n \subseteq T
    BY <1>1, <1>2, UpTo
<1>4. n \in T
    BY <1>3
<1> QED
    BY <1>4 DEF T, Recursion

\* A finite set listed as a sequence.
LEMMA SetAsSequence ==
    ASSUME NEW S, IsFiniteSet(S)
    PROVE  /\ SetToSeq(S) \in Seq(S) /\ ToSet(SetToSeq(S)) = S
           /\ Len(SetToSeq(S)) = Cardinality(S) /\ Cardinality(S) \in Nat
           /\ \A i, j \in 1..Cardinality(S) : SetToSeq(S)[i] = SetToSeq(S)[j] => i = j
<1> DEFINE n == Cardinality(S)
           q == SetToSeq(S)
<1>1. n \in Nat /\ ExistsBijection(1..n, S)
    BY FS_CardinalityType
<1>2. \E f \in [1..n -> S] : IsInjective(f)
    BY <1>1 DEF ExistsBijection, Bijection, Injection
<1>3. q \in [1..n -> S] /\ IsInjective(q)
    BY <1>2 DEF SetToSeq
<1> HIDE DEF q
<1>4. q \in Injection(1..n, S)
    BY <1>3 DEF Injection
<1>5. Cardinality(1..n) = n
    BY <1>1, FS_Interval
<1>6. q \in Surjection(1..n, S)
    BY <1>4, <1>5, FS_Injection
<1>7. \A x \in S : \E i \in 1..n : q[i] = x
    BY <1>6 DEF Surjection
<1> HIDE DEF n
<1>8. q \in Seq(S) /\ Len(q) = n /\ DOMAIN q = 1..n
    BY <1>1, <1>3
<1>9. ToSet(q) = S
    BY <1>3, <1>7, <1>8 DEF ToSet
<1>10. \A i, j \in 1..n : q[i] = q[j] => i = j
    BY <1>3, <1>8 DEF IsInjective
<1> QED
    BY <1>1, <1>8, <1>9, <1>10 DEF q, n

\* The sums of the first elements of a sequence.
IsSum(g, s) == g = [n \in 0..Len(s) |-> IF n = 0 THEN 0 ELSE g[n - 1] + s[n]]
Sum(s) == CHOOSE g : IsSum(g, s)

LEMMA SumExists ==
    ASSUME NEW s \in Seq(Nat)
    PROVE  /\ SumOf(s) = Sum(s)[Len(s)]
           /\ Sum(s) \in [0..Len(s) -> Nat]
           /\ Sum(s)[0] = 0
           /\ \A k \in 1..Len(s) : Sum(s)[k] = Sum(s)[k - 1] + s[k]
<1> DEFINE n == Len(s)
           f == [p \in (1..n) \X Nat |-> p[2] + s[p[1]]]
<1>1. n \in Nat /\ \A k \in 1..n : s[k] \in Nat
    OBVIOUS
<1>2. SumOf(s) = Sum(s)[n]
    BY DEF SumOf, Sum, IsSum
<1> HIDE DEF n
<1>3. \A k \in 1..n, x \in Nat : f[<<k, x>>] = x + s[k]
    OBVIOUS
<1> HIDE DEF f
<1>4. ASSUME NEW k \in 1..n, NEW x \in Nat PROVE f[<<k, x>>] \in Nat
    <2>1. f[<<k, x>>] = x + s[k]
        BY <1>3
    <2>2. s[k] \in Nat
        BY <1>1
    <2> QED
        BY <2>1, <2>2
<1>5. PICK g : Recursion(g, Nat, 0, n, f)
    <2>1. Stays(f, Nat, n)
        BY <1>4 DEF Stays
    <2>2. 0 \in Nat
        OBVIOUS
    <2>3. \E g : Recursion(g, Nat, 0, n, f)
        BY <1>1, <2>1, <2>2, RecursionExists
    <2> QED
        BY <2>3
<1>6. g \in [0..n -> Nat] /\ g[0] = 0 /\ \A k \in 1..n : g[k] = f[<<k, g[k - 1]>>]
    BY <1>5 DEF Recursion
<1>7. ASSUME NEW k \in 0..n PROVE g[k] = IF k = 0 THEN 0 ELSE g[k - 1] + s[k]
    <2>1. CASE k = 0
        BY <1>6, <2>1
    <2>2. CASE k # 0
        <3>1. k \in 1..n /\ k - 1 \in 0..n
            BY <1>1, <2>2
        <3>2. g[k - 1] \in Nat
            BY <1>6, <3>1
        <3> QED
            BY <1>3, <1>6, <2>2, <3>1, <3>2
    <2> QED
        BY <2>1, <2>2
<1>8. IsSum(g, s)
    <2>1. g = [k \in 0..n |-> g[k]]
        BY <1>6
    <2>2. g = [k \in 0..n |-> IF k = 0 THEN 0 ELSE g[k - 1] + s[k]]
        BY <1>7, <2>1, Zenon
    <2> QED
        BY <2>2 DEF IsSum, n
<1>9. IsSum(Sum(s), s)
    BY <1>8 DEF Sum
<1> DEFINE h == Sum(s)
<1>10. h = [k \in 0..n |-> IF k = 0 THEN 0 ELSE h[k - 1] + s[k]]
    BY <1>9 DEF IsSum, n
<1> HIDE DEF h
<1>11. h[0] = 0 /\ DOMAIN h = 0..n /\ \A k \in 1..n : h[k] = h[k - 1] + s[k]
    <2>1. DOMAIN h = 0..n
        BY <1>10
    <2>2. \A k \in 0..n : h[k] = IF k = 0 THEN 0 ELSE h[k - 1] + s[k]
        BY <1>10, Zenon
    <2>3. 0 \in 0..n
        BY <1>1
    <2>4. \A k \in 1..n : k \in 0..n /\ k # 0
        BY <1>1
    <2> QED
        BY <2>1, <2>2, <2>3, <2>4
<1> DEFINE T == {k \in 0..n : h[k] \in Nat}
<1>12. 0 \in T
    BY <1>1, <1>11
<1>13. ASSUME NEW k \in 0..(n - 1), k \in T PROVE k + 1 \in T
    <2>1. k + 1 \in 1..n /\ k + 1 \in 0..n /\ (k + 1) - 1 = k
        BY <1>1
    <2>2. h[k + 1] = h[k] + s[k + 1]
        BY <1>11, <2>1
    <2> QED
        BY <1>1, <1>13, <2>1, <2>2
<1> HIDE DEF T
<1>14. 0..n \subseteq T
    BY <1>1, <1>12, <1>13, UpTo
<1>15. h \in [0..n -> Nat]
    <2>1. \A k \in 0..n : h[k] \in Nat
        BY <1>14 DEF T
    <2>2. h = [k \in 0..n |-> h[k]]
        BY <1>10, <1>11
    <2> QED
        BY <2>1, <2>2
<1> QED
    BY <1>2, <1>11, <1>15 DEF h, n

\* A sort's order of the positions of a list: by descending keys, and by position.
Sorts(order, n, keys) ==
    /\ order \in [1..n -> 1..n]
    /\ \A i \in 1..n : \E k \in 1..n : order[k] = i
    /\ \A j, k \in 1..n : j < k =>
          /\ order[j] # order[k] /\ keys[order[j]] >= keys[order[k]]
          /\ keys[order[j]] = keys[order[k]] => order[j] < order[k]

\* The list t is s in that order.
Permuted(t, order, n, s) == t = [k \in 1..n |-> s[order[k]]]

LEMMA SortIsStable ==
    ASSUME NEW s, NEW n \in Nat, DOMAIN s = 1..n, NEW keys, DOMAIN keys = 1..n, \A i \in 1..n : keys[i] \in Nat
    PROVE  \E order : Sorts(order, n, keys) /\ Permuted(StablySorted(s, keys), order, n, s)
<1> DEFINE S == 1..n
           Comes(j, i) == keys[j] > keys[i] \/ (keys[j] = keys[i] /\ j < i)
           place == [i \in S |-> Cardinality(Ahead(keys, i))]
           order == [k \in S |-> CHOOSE i \in S : Cardinality(Ahead(keys, i)) = k - 1]
<1>1. IsFiniteSet(S) /\ Cardinality(S) = n
    BY FS_Interval
<1>2. \A i \in S : Ahead(keys, i) = {j \in S : Comes(j, i)}
    BY Zenon DEF Ahead
<1>3. /\ \A i \in S : ~Comes(i, i)
      /\ \A i, j, k \in S : Comes(i, j) /\ Comes(j, k) => Comes(i, k)
      /\ \A i, j \in S : i # j => Comes(i, j) \/ Comes(j, i)
    OBVIOUS
<1> HIDE DEF Comes, S
<1>4. ASSUME NEW i \in S
      PROVE  IsFiniteSet(Ahead(keys, i)) /\ Cardinality(Ahead(keys, i)) \in 0..(n - 1)
    <2>1. Ahead(keys, i) \in SUBSET S /\ Ahead(keys, i) # S
        BY <1>2, <1>3
    <2>2. IsFiniteSet(Ahead(keys, i)) /\ Cardinality(Ahead(keys, i)) <= n /\ Cardinality(Ahead(keys, i)) # n
        BY <1>1, <2>1, FS_Subset
    <2>3. Cardinality(Ahead(keys, i)) \in Nat
        BY <2>2, FS_CardinalityType
    <2> QED
        BY <2>2, <2>3
<1>5. place \in [S -> 0..(n - 1)]
    BY <1>4
<1>6. ASSUME NEW i \in S, NEW j \in S, Comes(i, j) PROVE place[i] < place[j]
    <2>1. Ahead(keys, i) \in SUBSET Ahead(keys, j) /\ Ahead(keys, i) # Ahead(keys, j)
        BY <1>2, <1>3, <1>6
    <2>2. IsFiniteSet(Ahead(keys, j))
        BY <1>4
    <2>3. Cardinality(Ahead(keys, i)) <= Cardinality(Ahead(keys, j)) /\ Cardinality(Ahead(keys, i)) # Cardinality(Ahead(keys, j))
        BY <2>1, <2>2, FS_Subset
    <2>4. Cardinality(Ahead(keys, i)) \in Int /\ Cardinality(Ahead(keys, j)) \in Int
        <3>1. \A k \in 0..(n - 1) : k \in Int
            OBVIOUS
        <3> QED
            BY <1>4, <3>1
    <2> QED
        BY <2>3, <2>4
<1>7. \A i \in S : place[i] = Cardinality(Ahead(keys, i)) /\ place[i] \in Int
    <2>1. \A k \in 0..(n - 1) : k \in Int
        OBVIOUS
    <2> QED
        BY <1>4, <2>1
<1>8. order = [k \in S |-> CHOOSE i \in S : Cardinality(Ahead(keys, i)) = k - 1]
    OBVIOUS
<1> HIDE DEF place, order
<1>9. \A i, j \in S : place[i] = place[j] => i = j
    <2> SUFFICES ASSUME NEW i \in S, NEW j \in S, i # j PROVE place[i] # place[j]
        OBVIOUS
    <2>1. place[i] < place[j] \/ place[j] < place[i]
        BY <1>3, <1>6
    <2> QED
        BY <1>7, <2>1
<1>10. \A k \in 0..(n - 1) : \E i \in S : place[i] = k
    <2>1. place \in Injection(S, 0..(n - 1))
        BY <1>5, <1>9 DEF Injection, IsInjective
    <2>2. IsFiniteSet(0..(n - 1)) /\ Cardinality(0..(n - 1)) = n
        <3>1. 0 \in Int /\ n - 1 \in Int /\ n - 1 - 0 + 1 = n /\ (0 > n - 1 => n = 0)
            OBVIOUS
        <3>2. IsFiniteSet(0..(n - 1)) /\ Cardinality(0..(n - 1)) = IF 0 > n - 1 THEN 0 ELSE n - 1 - 0 + 1
            BY <3>1, FS_Interval
        <3> QED
            BY <3>1, <3>2
    <2>3. place \in Surjection(S, 0..(n - 1))
        BY <1>1, <2>1, <2>2, FS_Injection
    <2> QED
        BY <2>3 DEF Surjection
<1>11. ASSUME NEW k \in S PROVE order[k] \in S /\ place[order[k]] = k - 1
    <2>1. k - 1 \in 0..(n - 1)
        BY DEF S
    <2>2. \E i \in S : Cardinality(Ahead(keys, i)) = k - 1
        BY <1>7, <1>10, <2>1
    <2>3. order[k] = CHOOSE i \in S : Cardinality(Ahead(keys, i)) = k - 1
        BY <1>8
    <2>4. order[k] \in S /\ Cardinality(Ahead(keys, order[k])) = k - 1
        BY <2>2, <2>3
    <2> QED
        BY <1>7, <2>4
<1>12. order \in [S -> S]
    BY <1>8, <1>11
<1>13. ASSUME NEW i \in S PROVE \E k \in S : order[k] = i
    <2>1. place[i] \in 0..(n - 1)
        BY <1>5
    <2>2. place[i] + 1 \in S /\ (place[i] + 1) - 1 = place[i]
        BY <2>1 DEF S
    <2>3. order[place[i] + 1] \in S /\ place[order[place[i] + 1]] = place[i]
        BY <1>11, <2>2
    <2> QED
        BY <1>9, <2>2, <2>3
<1>14. ASSUME NEW j \in S, NEW k \in S, j < k PROVE Comes(order[j], order[k])
    <2>1. order[j] \in S /\ order[k] \in S /\ place[order[j]] = j - 1 /\ place[order[k]] = k - 1
        BY <1>11
    <2>2. j \in Int /\ k \in Int
        BY DEF S
    <2>3. order[j] # order[k]
        BY <1>14, <2>1, <2>2
    <2>4. Comes(order[k], order[j]) => k - 1 < j - 1
        BY <1>6, <2>1
    <2>5. ~(k - 1 < j - 1)
        BY <1>14, <2>2
    <2> QED
        BY <1>3, <2>1, <2>3, <2>4, <2>5
<1>15. ASSUME NEW j \in S, NEW k \in S, j < k
       PROVE  /\ order[j] # order[k] /\ keys[order[j]] >= keys[order[k]]
              /\ keys[order[j]] = keys[order[k]] => order[j] < order[k]
    <2>1. Comes(order[j], order[k]) /\ order[j] \in S /\ order[k] \in S
        BY <1>11, <1>14, <1>15
    <2>2. keys[order[j]] \in Nat /\ keys[order[k]] \in Nat /\ order[j] \in Nat /\ order[k] \in Nat
        BY <2>1 DEF S
    <2> QED
        BY <2>1, <2>2 DEF Comes
<1>16. Sorts(order, n, keys)
    BY <1>12, <1>13, <1>15 DEF Sorts, S
<1>17. StablySorted(s, keys) = [k \in S |-> s[order[k]]]
    <2>1. \A k \in S : order[k] = CHOOSE i \in S : Cardinality(Ahead(keys, i)) = k - 1
        BY <1>8
    <2>2. StablySorted(s, keys) = [k \in S |-> s[CHOOSE i \in S : Cardinality(Ahead(keys, i)) = k - 1]]
        <3> DEFINE By(D) == [k \in D |-> s[CHOOSE i \in D : Cardinality(Ahead(keys, i)) = k - 1]]
        <3>1. DOMAIN s = S
            BY DEF S
        <3>2. StablySorted(s, keys) = By(DOMAIN s)
            BY Zenon DEF StablySorted
        <3> HIDE DEF By
        <3>3. StablySorted(s, keys) = By(S)
            BY <3>1, <3>2
        <3> QED
            BY <3>3, Zenon DEF By
    <2> QED
        BY <2>1, <2>2, Zenon
<1>18. Permuted(StablySorted(s, keys), order, n, s)
    BY <1>17 DEF Permuted, S
<1> QED
    BY <1>16, <1>18

-----------------------------------------------------------------------------
(* The walk over BOMs                                                      *)

\* The loop over the BOMs that are not seen.
IsFresh(g, boms, seen, n) ==
    g = [k \in 0..n |->
            IF k = 0 THEN <<>>
            ELSE IF boms[k] \in seen \cup ToSet(g[k - 1]) THEN g[k - 1] ELSE Append(g[k - 1], boms[k])]

LEMMA AppendSet ==
    ASSUME NEW X, NEW s \in Seq(X), NEW x \in X
    PROVE  Append(s, x) \in Seq(X) /\ ToSet(Append(s, x)) = ToSet(s) \cup {x}
<1> DEFINE t == Append(s, x)
<1>1. t \in Seq(X) /\ Len(t) = Len(s) + 1 /\ Len(s) \in Nat
    OBVIOUS
<1>2. DOMAIN t = 1..(Len(s) + 1) /\ DOMAIN s = 1..Len(s)
    BY <1>1
<1>3. \A i \in 1..Len(s) : t[i] = s[i]
    OBVIOUS
<1>4. t[Len(s) + 1] = x
    OBVIOUS
<1> HIDE DEF t
<1>5. ToSet(t) = ToSet(s) \cup {x}
    BY <1>1, <1>2, <1>3, <1>4 DEF ToSet
<1> QED
    BY <1>1, <1>5 DEF t

LEMMA NotSeenRange ==
    ASSUME NEW X, NEW boms \in Seq(X), NEW seen
    PROVE  NotSeen(boms, seen) \in Seq(X) /\ ToSet(NotSeen(boms, seen)) = ToSet(boms) \ seen
<1> DEFINE n == Len(boms)
           fresh == CHOOSE g : IsFresh(g, boms, seen, n)
           f == [p \in (1..n) \X Seq(X) |-> IF boms[p[1]] \in seen \cup ToSet(p[2]) THEN p[2] ELSE Append(p[2], boms[p[1]])]
<1>1. n \in Nat /\ \A k \in 1..n : boms[k] \in X
    OBVIOUS
<1>2. NotSeen(boms, seen) = fresh[n]
    BY DEF NotSeen, IsFresh
<1> HIDE DEF n, fresh
<1>3. \A k \in 1..n, s \in Seq(X) :
          f[<<k, s>>] = IF boms[k] \in seen \cup ToSet(s) THEN s ELSE Append(s, boms[k])
    OBVIOUS
<1>4. \A k \in 1..n, s \in Seq(X) : f[<<k, s>>] \in Seq(X)
    BY <1>1, <1>3, AppendSet
<1> HIDE DEF f
<1>5. PICK g \in [0..n -> Seq(X)] : g[0] = <<>> /\ \A k \in 1..n : g[k] = f[<<k, g[k - 1]>>]
    <2> DEFINE S == Seq(X)
               a == <<>>
    <2>1. a \in S
        OBVIOUS
    <2>2. \A k \in 1..n, s \in S : f[<<k, s>>] \in S
        BY <1>4
    <2> HIDE DEF S, a
    <2>4. n \in Nat
        BY <1>1
    <2>5. Stays(f, S, n)
        BY <2>2 DEF Stays
    <2>3. \E g : Recursion(g, S, a, n, f)
        BY <2>1, <2>4, <2>5, RecursionExists
    <2> QED
        BY <2>3 DEF S, a, Recursion
<1>6. IsFresh(g, boms, seen, n)
    <2>1. ASSUME NEW k \in 0..n
          PROVE  g[k] = IF k = 0 THEN <<>>
                        ELSE IF boms[k] \in seen \cup ToSet(g[k - 1]) THEN g[k - 1] ELSE Append(g[k - 1], boms[k])
        <3>1. CASE k = 0
            BY <1>5, <3>1
        <3>2. CASE k # 0
            <4>1. k \in 1..n /\ k - 1 \in 0..n
                BY <1>1, <3>2
            <4>2. g[k - 1] \in Seq(X)
                BY <1>5, <4>1
            <4> QED
                BY <1>3, <1>5, <3>2, <4>1, <4>2
        <3> QED
            BY <3>1, <3>2
    <2>2. g = [k \in 0..n |-> g[k]]
        BY <1>5
    <2> QED
        BY <2>1, <2>2 DEF IsFresh
<1>7. IsFresh(fresh, boms, seen, n)
    BY <1>6 DEF fresh
<1>8. \A k \in 0..n : fresh[k] =
          IF k = 0 THEN <<>>
          ELSE IF boms[k] \in seen \cup ToSet(fresh[k - 1]) THEN fresh[k - 1] ELSE Append(fresh[k - 1], boms[k])
    BY <1>7 DEF IsFresh
<1> DEFINE T == {k \in 0..n : fresh[k] \in Seq(X) /\ ToSet(fresh[k]) = {boms[i] : i \in 1..k} \ seen}
<1>9. 0 \in T
    <2>1. fresh[0] = <<>> /\ 0 \in 0..n
        BY <1>1, <1>8
    <2>2. ToSet(<<>>) = {}
        BY DEF ToSet
    <2>3. {boms[i] : i \in 1..0} = {}
        OBVIOUS
    <2>4. <<>> \in Seq(X)
        OBVIOUS
    <2>5. fresh[0] \in Seq(X) /\ ToSet(fresh[0]) = {boms[i] : i \in 1..0} \ seen
        BY <2>1, <2>2, <2>3, <2>4
    <2> QED
        BY <2>1, <2>5
<1>10. ASSUME NEW k \in 0..(n - 1), k \in T PROVE k + 1 \in T
    <2>1. k + 1 \in 0..n /\ k + 1 # 0 /\ (k + 1) - 1 = k /\ k + 1 \in 1..n /\ k \in Nat
        BY <1>1
    <2> DEFINE s == fresh[k]
               b == boms[k + 1]
               K == {boms[i] : i \in 1..k}
               L == {boms[i] : i \in 1..(k + 1)}
    <2>2. s \in Seq(X) /\ ToSet(s) = K \ seen
        BY <1>10
    <2>3. fresh[k + 1] = IF b \in seen \cup ToSet(s) THEN s ELSE Append(s, b)
        BY <1>8, <2>1
    <2>4. L = K \cup {b}
        <3>1. 1..(k + 1) = (1..k) \cup {k + 1}
            BY <2>1
        <3> QED
            BY <3>1
    <2>5. b \in X
        BY <1>1, <2>1
    <2>8. fresh[k + 1] \in Seq(X) /\ ToSet(fresh[k + 1]) = L \ seen
        <3> HIDE DEF s, b, K, L
        <3>1. CASE b \in seen \cup ToSet(s)
            BY <2>2, <2>3, <2>4, <3>1
        <3>2. CASE b \notin seen \cup ToSet(s)
            <4>1. Append(s, b) \in Seq(X) /\ ToSet(Append(s, b)) = ToSet(s) \cup {b}
                BY <2>2, <2>5, AppendSet
            <4> QED
                BY <2>2, <2>3, <2>4, <3>2, <4>1
        <3> QED
            BY <3>1, <3>2
    <2> QED
        BY <2>1, <2>8
<1> HIDE DEF T
<1>11. n \in T
    <2>1. 0..n \subseteq T
        BY <1>1, <1>9, <1>10, UpTo
    <2> QED
        BY <1>1, <2>1
<1>12. ToSet(boms) = {boms[i] : i \in 1..n}
    BY DEF ToSet, n
<1> QED
    BY <1>2, <1>11, <1>12 DEF T

LEMMA ConcatSet ==
    ASSUME NEW X, NEW s \in Seq(X), NEW t \in Seq(X)
    PROVE  s \o t \in Seq(X) /\ ToSet(s \o t) = ToSet(s) \cup ToSet(t)
<1> DEFINE u == s \o t
           m == Len(s)
           n == Len(t)
<1>1. u \in Seq(X) /\ Len(u) = m + n /\ m \in Nat /\ n \in Nat
    OBVIOUS
<1>2. DOMAIN u = 1..(m + n) /\ DOMAIN s = 1..m /\ DOMAIN t = 1..n
    BY <1>1
<1>3. \A i \in 1..(m + n) : u[i] = IF i <= m THEN s[i] ELSE t[i - m]
    OBVIOUS
<1> HIDE DEF u, m, n
<1>4. \A i \in 1..(m + n) : u[i] \in ToSet(s) \cup ToSet(t)
    <2> TAKE i \in 1..(m + n)
    <2>1. CASE i <= m
        <3>1. i \in 1..m
            BY <1>1, <2>1
        <3> QED
            BY <1>2, <1>3, <2>1, <3>1 DEF ToSet
    <2>2. CASE ~(i <= m)
        <3>1. i - m \in 1..n
            BY <1>1, <2>2
        <3> QED
            BY <1>2, <1>3, <2>2, <3>1 DEF ToSet
    <2> QED
        BY <2>1, <2>2
<1>5. \A i \in 1..m : s[i] \in ToSet(u)
    <2> TAKE i \in 1..m
    <2>1. i \in 1..(m + n) /\ i <= m
        BY <1>1
    <2> QED
        BY <1>2, <1>3, <2>1 DEF ToSet
<1>6. \A i \in 1..n : t[i] \in ToSet(u)
    <2> TAKE i \in 1..n
    <2>1. i + m \in 1..(m + n) /\ ~(i + m <= m) /\ (i + m) - m = i
        BY <1>1
    <2>2. u[i + m] = t[i]
        BY <1>3, <2>1
    <2> QED
        BY <1>2, <2>1, <2>2 DEF ToSet
<1>7. ToSet(u) = ToSet(s) \cup ToSet(t)
    BY <1>2, <1>4, <1>5, <1>6 DEF ToSet
<1> QED
    BY <1>1, <1>7 DEF u

IsFlattened(g, seqs) ==
    g = [i \in 1..Len(seqs) |-> IF i = 1 THEN seqs[i] ELSE g[i - 1] \o seqs[i]]

\* The concatenations of the first elements of a list of lists.
Joined(h, seqs, n, X) ==
    h \in [0..n -> Seq(X)] /\ h[0] = <<>> /\ \A k \in 1..n : h[k] = h[k - 1] \o seqs[k]

LEMMA FlattenSteps ==
    ASSUME NEW X, NEW seqs \in Seq(Seq(X))
    PROVE  \E h : Joined(h, seqs, Len(seqs), X) /\ FlattenSeq(seqs) = h[Len(seqs)]
<1> DEFINE n == Len(seqs)
           flat == CHOOSE g : IsFlattened(g, seqs)
           f == [p \in (1..n) \X Seq(X) |-> p[2] \o seqs[p[1]]]
<1>1. n \in Nat /\ DOMAIN seqs = 1..n /\ \A i \in 1..n : seqs[i] \in Seq(X)
    OBVIOUS
<1>2. n = 0 => FlattenSeq(seqs) = <<>>
    BY DEF FlattenSeq
<1>3. n # 0 => FlattenSeq(seqs) = flat[n]
    BY DEF FlattenSeq, IsFlattened
<1> HIDE DEF n, flat
<1>4. \A k \in 1..n, s \in Seq(X) : f[<<k, s>>] = s \o seqs[k]
    OBVIOUS
<1>5. Stays(f, Seq(X), n)
    BY <1>1, <1>4, ConcatSet DEF Stays
<1> HIDE DEF f
<1>6. PICK h : Recursion(h, Seq(X), <<>>, n, f)
    <2> DEFINE S == Seq(X)
               a == <<>>
    <2>1. a \in S
        OBVIOUS
    <2>2. Stays(f, S, n)
        BY <1>5
    <2>3. n \in Nat
        BY <1>1
    <2> HIDE DEF S, a
    <2>4. \E h : Recursion(h, S, a, n, f)
        BY <2>1, <2>2, <2>3, RecursionExists
    <2> QED
        BY <2>4 DEF S, a
<1>7. Joined(h, seqs, n, X)
    <2>1. \A k \in 1..n : k - 1 \in 0..n
        BY <1>1
    <2> QED
        BY <1>4, <1>6, <2>1 DEF Recursion, Joined
<1>8. h[0] = <<>> /\ h \in [0..n -> Seq(X)] /\ \A k \in 1..n : h[k] = h[k - 1] \o seqs[k]
    BY <1>7 DEF Joined
<1>9. n # 0 => h[1] = seqs[1]
    <2> HAVE n # 0
    <2>1. 1 \in 1..n /\ 1 - 1 = 0
        BY <1>1
    <2>2. h[1] = h[0] \o seqs[1] /\ seqs[1] \in Seq(X)
        BY <1>1, <1>8, <2>1
    <2>3. <<>> \o seqs[1] = seqs[1]
        BY <2>2
    <2> QED
        BY <1>8, <2>2, <2>3
<1>10. IsFlattened(flat, seqs)
    <2> DEFINE g == [k \in 1..n |-> h[k]]
    <2>1. ASSUME NEW k \in 1..n PROVE g[k] = IF k = 1 THEN seqs[k] ELSE g[k - 1] \o seqs[k]
        <3>1. CASE k = 1
            BY <1>1, <1>9, <3>1
        <3>2. CASE k # 1
            <4>1. k - 1 \in 1..n
                BY <1>1, <3>2
            <4> QED
                BY <1>8, <3>2, <4>1
        <3> QED
            BY <3>1, <3>2
    <2> HIDE DEF g
    <2>2. g = [k \in 1..n |-> g[k]]
        BY DEF g
    <2>3. IsFlattened(g, seqs)
        BY <2>1, <2>2 DEF IsFlattened, n
    <2> QED
        BY <2>3 DEF flat
<1>11. \A k \in 1..n : flat[k] = IF k = 1 THEN seqs[k] ELSE flat[k - 1] \o seqs[k]
    BY <1>10 DEF IsFlattened, n
<1> DEFINE T == {k \in 0..n : k # 0 => flat[k] = h[k]}
<1>12. 0 \in T
    BY <1>1
<1>13. ASSUME NEW k \in 0..(n - 1), k \in T PROVE k + 1 \in T
    <2>1. k + 1 \in 1..n /\ k + 1 \in 0..n /\ k \in Nat /\ (k + 1) - 1 = k
        BY <1>1
    <2>2. CASE k = 0
        BY <1>9, <1>11, <2>1, <2>2
    <2>3. CASE k # 0
        <3>1. flat[k + 1] = flat[k] \o seqs[k + 1]
            <4>1. k + 1 # 1
                BY <2>3
            <4> QED
                BY <1>11, <2>1, <4>1
        <3>2. h[k + 1] = h[k] \o seqs[k + 1]
            BY <1>8, <2>1
        <3> QED
            BY <1>13, <2>1, <2>3, <3>1, <3>2
    <2> QED
        BY <2>2, <2>3
<1> HIDE DEF T
<1>14. n \in T
    <2>1. 0..n \subseteq T
        BY <1>1, <1>12, <1>13, UpTo
    <2> QED
        BY <1>1, <2>1
<1>15. FlattenSeq(seqs) = h[n]
    BY <1>2, <1>3, <1>8, <1>14 DEF T
<1> QED
    BY <1>7, <1>15 DEF n

LEMMA FlattenRange ==
    ASSUME NEW X, NEW seqs \in Seq(Seq(X))
    PROVE  FlattenSeq(seqs) \in Seq(X) /\ ToSet(FlattenSeq(seqs)) = UNION {ToSet(seqs[i]) : i \in DOMAIN seqs}
<1> DEFINE n == Len(seqs)
<1>1. n \in Nat /\ DOMAIN seqs = 1..n /\ \A i \in 1..n : seqs[i] \in Seq(X)
    OBVIOUS
<1>2. PICK h : Joined(h, seqs, n, X) /\ FlattenSeq(seqs) = h[n]
    BY FlattenSteps
<1> HIDE DEF n
<1>3. h[0] = <<>> /\ h \in [0..n -> Seq(X)] /\ \A k \in 1..n : h[k] = h[k - 1] \o seqs[k]
    BY <1>2 DEF Joined
<1> DEFINE R(k) == UNION {ToSet(seqs[i]) : i \in 1..k}
           T == {k \in 0..n : ToSet(h[k]) = R(k)}
<1>4. 0 \in T
    <2>1. ToSet(<<>>) = {} /\ R(0) = {}
        BY DEF ToSet
    <2> QED
        BY <1>1, <1>3, <2>1
<1>5. ASSUME NEW k \in 0..(n - 1), k \in T PROVE k + 1 \in T
    <2>1. k + 1 \in 1..n /\ k + 1 \in 0..n /\ k \in 0..n /\ (k + 1) - 1 = k /\ k \in Nat
        BY <1>1
    <2>2. R(k + 1) = R(k) \cup ToSet(seqs[k + 1])
        <3>1. 1..(k + 1) = (1..k) \cup {k + 1}
            BY <2>1
        <3> QED
            BY <3>1
    <2>3. h[k] \in Seq(X) /\ seqs[k + 1] \in Seq(X) /\ h[k + 1] = h[k] \o seqs[k + 1]
        BY <1>1, <1>3, <2>1
    <2>4. ToSet(h[k + 1]) = ToSet(h[k]) \cup ToSet(seqs[k + 1])
        BY <2>3, ConcatSet
    <2> HIDE DEF R
    <2> QED
        BY <1>5, <2>1, <2>2, <2>4
<1> HIDE DEF T
<1>6. n \in T
    <2>1. 0..n \subseteq T
        BY <1>1, <1>4, <1>5, UpTo
    <2> QED
        BY <1>1, <2>1
<1> QED
    BY <1>1, <1>2, <1>3, <1>6 DEF T

\* POMs as a parser returns them, each BOM among them.
ArePoms(poms) ==
    /\ poms = [k \in DOMAIN poms |-> poms[k]]
    /\ \A k \in DOMAIN poms :
          /\ poms[k] = [versions |-> poms[k].versions, nested |-> poms[k].nested]
          /\ poms[k].nested \in Seq(DOMAIN poms)
Left(poms, cached) == Shortened(poms, OldRows(cached))

LEMMA LeftArePoms ==
    ASSUME NEW poms, ArePoms(poms), NEW cached
    PROVE  ArePoms(Left(poms, cached)) /\ DOMAIN Left(poms, cached) = DOMAIN poms
<1> DEFINE q == Left(poms, cached)
           old == OldRows(cached)
           P == DOMAIN poms
<1>1. q = [k \in P |-> IF k \in old THEN [poms[k] EXCEPT !.nested = <<>>] ELSE poms[k]]
    BY DEF Left, Shortened
<1> HIDE DEF q, old
<1>2. DOMAIN q = P
    BY <1>1
<1>3. ASSUME NEW k \in P
      PROVE  q[k] = [versions |-> q[k].versions, nested |-> q[k].nested] /\ q[k].nested \in Seq(P)
    <2>1. poms[k] = [versions |-> poms[k].versions, nested |-> poms[k].nested] /\ poms[k].nested \in Seq(P)
        BY DEF ArePoms
    <2>2. CASE k \in old
        <3>1. q[k] = [poms[k] EXCEPT !.nested = <<>>]
            BY <1>1, <2>2
        <3>2. q[k] = [versions |-> poms[k].versions, nested |-> <<>>]
            BY <2>1, <3>1
        <3>3. <<>> \in Seq(P)
            OBVIOUS
        <3> QED
            BY <3>2, <3>3
    <2>3. CASE k \notin old
        BY <1>1, <2>1, <2>3
    <2> QED
        BY <2>2, <2>3
<1>4. q = [k \in DOMAIN q |-> q[k]]
    BY <1>1
<1> QED
    BY <1>2, <1>3, <1>4 DEF q, ArePoms

\* Without old rows, the POMs as they are.
LEMMA NothingLost ==
    ASSUME NEW poms, ArePoms(poms)
    PROVE  Left(poms, <<>>) = poms
<1>1. OldRows(<<>>) = {}
    BY DEF OldRows
<1>2. Left(poms, <<>>) = [k \in DOMAIN poms |-> poms[k]]
    BY <1>1 DEF Left, Shortened
<1> QED
    BY <1>2 DEF ArePoms

LEMMA RowsAreRead ==
    ASSUME NEW poms, ArePoms(poms), NEW cached, NEW down, NEW k \in DOMAIN poms
    PROVE  /\ Loads(cached, down, k) <=> k \notin down \ DOMAIN cached
           /\ Loaded(poms, cached, k) = Left(poms, cached)[k]
<1>1. Loads(cached, down, k) <=> k \notin down \ DOMAIN cached
    BY DEF Loads
<1>2. poms[k] = [versions |-> poms[k].versions, nested |-> poms[k].nested]
    BY DEF ArePoms
<1>3. k \in OldRows(cached) <=> k \in DOMAIN cached /\ cached[k] = "flat"
    BY DEF OldRows
<1>4. Left(poms, cached)[k] = IF k \in OldRows(cached) THEN [poms[k] EXCEPT !.nested = <<>>] ELSE poms[k]
    BY DEF Left, Shortened
<1>5. ParseEnvelope(Stored(poms[k])) = poms[k]
    BY <1>2 DEF ParseEnvelope, Stored
<1>6. ParseEnvelope(Flat(poms[k])) = [versions |-> poms[k].versions, nested |-> <<>>]
    <2>1. DOMAIN Flat(poms[k]) = {"versions"} /\ Flat(poms[k]).versions = poms[k].versions
        BY DEF Flat
    <2>2. "nested" \notin DOMAIN Flat(poms[k])
        BY <2>1
    <2> QED
        BY <2>1, <2>2 DEF ParseEnvelope
<1>7. [poms[k] EXCEPT !.nested = <<>>] = [versions |-> poms[k].versions, nested |-> <<>>]
    BY <1>2
<1>8. Loaded(poms, cached, k) = Left(poms, cached)[k]
    BY <1>3, <1>4, <1>5, <1>6, <1>7 DEF Loaded
<1> QED
    BY <1>1, <1>8

\* A level without the rows.
Fetched(poms, down, fr) == {i \in DOMAIN fr : fr[i] \notin down}
Managed(poms, down, fr) ==
    [d \in UNION {DOMAIN poms[fr[i]].versions : i \in Fetched(poms, down, fr)} |->
        poms[fr[Max({i \in Fetched(poms, down, fr) : d \in DOMAIN poms[fr[i]].versions})]].versions[d]]
Imports(poms, down, fr) ==
    [i \in DOMAIN fr |-> IF i \in Fetched(poms, down, fr) THEN poms[fr[i]].nested ELSE <<>>]
Round(poms, down, w) ==
    LET next == NotSeen(FlattenSeq(Imports(poms, down, w.frontier)), w.seen)
    IN  [frontier |-> next, seen |-> w.seen \cup ToSet(next), merged |-> Under(w.merged, Managed(poms, down, w.frontier))]

LEMMA LevelIsRound ==
    ASSUME NEW poms, ArePoms(poms), NEW cached, NEW down, NEW w, w.frontier \in Seq(DOMAIN poms)
    PROVE  Level(poms, cached, down, w) = Round(Left(poms, cached), down \ DOMAIN cached, w)
<1> DEFINE fr == w.frontier
           there == {i \in DOMAIN fr : Loads(cached, down, fr[i])}
           pom(i) == Loaded(poms, cached, fr[i])
           level == [d \in UNION {DOMAIN pom(i).versions : i \in there} |->
                        pom(Max({i \in there : d \in DOMAIN pom(i).versions})).versions[d]]
           nested == [i \in DOMAIN fr |-> IF i \in there THEN pom(i).nested ELSE <<>>]
           off == down \ DOMAIN cached
           left == Left(poms, cached)
<1>1. \A i \in DOMAIN fr : fr[i] \in DOMAIN poms
    OBVIOUS
<1>2. \A i \in DOMAIN fr : (Loads(cached, down, fr[i]) <=> fr[i] \notin off) /\ pom(i) = left[fr[i]]
    BY <1>1, RowsAreRead
<1> HIDE DEF left
<1>3. there = Fetched(left, off, fr)
    BY <1>2 DEF Fetched
<1>4. \A i \in there : pom(i) = left[fr[i]]
    BY <1>2
<1>5. level = Managed(left, off, fr)
    <2> DEFINE at(d) == {i \in there : d \in DOMAIN pom(i).versions}
               pt(d) == {i \in there : d \in DOMAIN left[fr[i]].versions}
               D == UNION {DOMAIN pom(i).versions : i \in there}
               E == UNION {DOMAIN left[fr[i]].versions : i \in there}
    <2> HIDE DEF there, fr
    <2>1. D = E
        BY <1>4
    <2>2. \A d : at(d) = pt(d)
        BY <1>4
    <2>3. ASSUME NEW d \in E
          PROVE  pom(Max(at(d))).versions[d] = left[fr[Max(pt(d))]].versions[d]
        <3>0. there \subseteq DOMAIN fr /\ fr \in Seq(DOMAIN poms)
            BY DEF there, fr
        <3>1. pt(d) # {} /\ pt(d) \subseteq there
            BY <2>3
        <3>2. Len(fr) \in Nat /\ pt(d) \in SUBSET (0..Len(fr))
            BY <3>0
        <3>3. Max(pt(d)) \in pt(d)
            <4> HIDE DEF pt
            <4> QED
                BY <3>1, <3>2, MaxIsLast
        <3>4. Max(at(d)) = Max(pt(d))
            BY <2>2
        <3>5. Max(pt(d)) \in there
            BY <3>1, <3>3
        <3> HIDE DEF pt, at
        <3>6. pom(Max(pt(d))) = left[fr[Max(pt(d))]]
            <4> HIDE DEF pom
            <4> QED
                BY <1>4, <3>5
        <3> HIDE DEF pom
        <3> QED
            BY <3>4, <3>6
    <2>4. level = [d \in D |-> pom(Max(at(d))).versions[d]]
        OBVIOUS
    <2>5. Managed(left, off, fr) = [d \in E |-> left[fr[Max(pt(d))]].versions[d]]
        BY <1>3 DEF Managed
    <2> HIDE DEF D, E, at, pt, pom, level
    <2> QED
        BY <2>1, <2>3, <2>4, <2>5
<1>6. nested = Imports(left, off, fr)
    <2>1. \A i \in DOMAIN fr : (IF i \in there THEN pom(i).nested ELSE <<>>)
                               = IF i \in Fetched(left, off, fr) THEN left[fr[i]].nested ELSE <<>>
        <3> HIDE DEF there, pom, fr
        <3> QED
            BY <1>3, <1>4
    <2> HIDE DEF there, pom, fr
    <2> QED
        BY <2>1 DEF Imports
<1>7. Level(poms, cached, down, w) =
          LET next == NotSeen(FlattenSeq(nested), w.seen)
          IN  [frontier |-> next, seen |-> w.seen \cup ToSet(next), merged |-> Under(w.merged, level)]
    BY DEF Level, NearerWins
<1> HIDE DEF level, nested, off, left
<1> QED
    BY <1>5, <1>6, <1>7 DEF Round, off, left

\* What one round adds.
Adds(poms, w, now, v) ==
    /\ v.frontier \in Seq(DOMAIN poms)
    /\ ToSet(v.frontier) = (UNION {ToSet(poms[b].nested) : b \in now}) \ w.seen
    /\ v.seen = w.seen \cup ToSet(v.frontier)
    /\ DOMAIN v.merged = DOMAIN w.merged \cup UNION {DOMAIN poms[b].versions : b \in now}
    /\ \A d \in DOMAIN w.merged : v.merged[d] = w.merged[d]
    /\ \A d \in DOMAIN v.merged \ DOMAIN w.merged :
          \E b \in now : d \in DOMAIN poms[b].versions /\ v.merged[d] = poms[b].versions[d]

LEMMA RoundAdds ==
    ASSUME NEW poms, ArePoms(poms), NEW down, NEW w, w.frontier \in Seq(DOMAIN poms)
    PROVE  Adds(poms, w, ToSet(w.frontier) \ down, Round(poms, down, w))
<1> DEFINE v == Round(poms, down, w)
           fr == w.frontier
           now == ToSet(fr) \ down
           there == Fetched(poms, down, fr)
           nested == Imports(poms, down, fr)
           level == Managed(poms, down, fr)
           next == NotSeen(FlattenSeq(nested), w.seen)
           P == DOMAIN poms
<1>1. /\ v.frontier = next /\ v.seen = w.seen \cup ToSet(next)
      /\ v.merged = Under(w.merged, level)
    BY DEF Round
<1>2. fr \in Seq(P) /\ Len(fr) \in Nat /\ DOMAIN fr = 1..Len(fr) /\ \A i \in DOMAIN fr : fr[i] \in P
    OBVIOUS
<1>3. there \subseteq DOMAIN fr /\ \A i \in there : fr[i] \in now
    BY DEF Fetched, ToSet
<1>4. \A b \in now : \E i \in there : fr[i] = b
    BY DEF Fetched, ToSet
<1>5. \A b \in P : poms[b].nested \in Seq(P)
    BY DEF ArePoms
<1>6. DOMAIN nested = DOMAIN fr /\ \A i \in DOMAIN fr : nested[i] = IF i \in there THEN poms[fr[i]].nested ELSE <<>>
    BY DEF Imports
<1>7. level = [d \in UNION {DOMAIN poms[fr[i]].versions : i \in there} |->
                  poms[fr[Max({i \in there : d \in DOMAIN poms[fr[i]].versions})]].versions[d]]
    BY DEF Managed
<1>8. nested = [i \in 1..Len(fr) |-> nested[i]]
    BY <1>2 DEF Imports
<1> HIDE DEF v, fr, now, there, nested, level, next, P
<1>9. nested \in Seq(Seq(P))
    <2>1. \A i \in 1..Len(fr) : nested[i] \in Seq(P)
        <3> TAKE i \in 1..Len(fr)
        <3>1. <<>> \in Seq(P)
            OBVIOUS
        <3> QED
            BY <1>2, <1>5, <1>6, <3>1
    <2> DEFINE S == Seq(P)
    <2>2. \A i \in 1..Len(fr) : nested[i] \in S
        BY <2>1
    <2> HIDE DEF S
    <2>3. nested \in Seq(S)
        BY <1>2, <1>8, <2>2
    <2> QED
        BY <2>3 DEF S
<1>10. /\ FlattenSeq(nested) \in Seq(P)
       /\ ToSet(FlattenSeq(nested)) = UNION {ToSet(nested[i]) : i \in DOMAIN nested}
    BY <1>9, FlattenRange
<1>11. next \in Seq(P) /\ ToSet(next) = ToSet(FlattenSeq(nested)) \ w.seen
    BY <1>10, NotSeenRange DEF next
<1>12. UNION {ToSet(nested[i]) : i \in DOMAIN nested} = UNION {ToSet(poms[b].nested) : b \in now}
    <2>1. ASSUME NEW x, NEW i \in DOMAIN nested, x \in ToSet(nested[i])
          PROVE  \E b \in now : x \in ToSet(poms[b].nested)
        <3>1. CASE i \in there
            BY <1>3, <1>6, <2>1, <3>1
        <3>2. CASE i \notin there
            <4>1. nested[i] = <<>>
                BY <1>6, <3>2
            <4>2. ToSet(<<>>) = {}
                BY DEF ToSet
            <4> QED
                BY <2>1, <4>1, <4>2
        <3> QED
            BY <3>1, <3>2
    <2>2. ASSUME NEW b \in now, NEW x \in ToSet(poms[b].nested)
          PROVE  \E i \in DOMAIN nested : x \in ToSet(nested[i])
        <3>1. PICK i \in there : fr[i] = b
            BY <1>4
        <3> QED
            BY <1>3, <1>6, <3>1
    <2> QED
        BY <2>1, <2>2
<1>13. DOMAIN level = UNION {DOMAIN poms[b].versions : b \in now}
    <2>1. DOMAIN level = UNION {DOMAIN poms[fr[i]].versions : i \in there}
        BY <1>7
    <2> QED
        BY <1>3, <1>4, <2>1
<1>14. \A d \in DOMAIN level : \E b \in now : d \in DOMAIN poms[b].versions /\ level[d] = poms[b].versions[d]
    <2> TAKE d \in DOMAIN level
    <2> DEFINE K == {i \in there : d \in DOMAIN poms[fr[i]].versions}
               k == Max(K)
    <2>1. K # {}
        BY <1>7
    <2>2. K \in SUBSET (0..Len(fr))
        BY <1>2, <1>3
    <2>3. level[d] = poms[fr[k]].versions[d]
        BY <1>7
    <2> HIDE DEF K
    <2>4. k \in K
        BY <1>2, <2>1, <2>2, MaxIsLast
    <2>5. k \in there /\ d \in DOMAIN poms[fr[k]].versions
        BY <2>4 DEF K
    <2> QED
        BY <1>3, <2>3, <2>5
<1>15. /\ DOMAIN v.merged = DOMAIN w.merged \cup DOMAIN level
       /\ \A d \in DOMAIN v.merged : v.merged[d] = IF d \in DOMAIN w.merged THEN w.merged[d] ELSE level[d]
    BY <1>1 DEF Under
<1>16. v.frontier \in Seq(P)
    BY <1>1, <1>11
<1>17. ToSet(v.frontier) = (UNION {ToSet(poms[b].nested) : b \in now}) \ w.seen
    BY <1>1, <1>10, <1>11, <1>12
<1>18. v.seen = w.seen \cup ToSet(v.frontier)
    BY <1>1
<1>19. DOMAIN v.merged = DOMAIN w.merged \cup UNION {DOMAIN poms[b].versions : b \in now}
    BY <1>13, <1>15
<1>20. \A d \in DOMAIN w.merged : v.merged[d] = w.merged[d]
    BY <1>15
<1>21. \A d \in DOMAIN v.merged \ DOMAIN w.merged :
           \E b \in now : d \in DOMAIN poms[b].versions /\ v.merged[d] = poms[b].versions[d]
    BY <1>14, <1>15
<1> QED
    BY <1>16, <1>17, <1>18, <1>19, <1>20, <1>21 DEF v, now, fr, P, Adds

Seed(boms) == [frontier |-> NotSeen(boms, {}), seen |-> ToSet(NotSeen(boms, {})), merged |-> <<>>]
IsBomWalk(g, poms, cached, down, boms, n) ==
    g = [k \in 0..n |-> IF k = 0 THEN Seed(boms) ELSE Level(poms, cached, down, g[k - 1])]
BomWalk(poms, cached, down, boms) == CHOOSE g : IsBomWalk(g, poms, cached, down, boms, MaxBomDepth + 1)

LEMMA BomWalkExists ==
    ASSUME NEW poms, NEW cached, NEW down, NEW boms, NEW n \in Nat
    PROVE  \E g : IsBomWalk(g, poms, cached, down, boms, n)
<1> DEFINE S == {m \in Nat : \E g : IsBomWalk(g, poms, cached, down, boms, m)}
           Step(w) == Level(poms, cached, down, w)
<1>1. 0 \in S
    <2>1. IsBomWalk([k \in 0..0 |-> Seed(boms)], poms, cached, down, boms, 0)
        BY DEF IsBomWalk
    <2> QED
        BY <2>1
<1>2. ASSUME NEW m \in S PROVE m + 1 \in S
    <2>1. PICK g : IsBomWalk(g, poms, cached, down, boms, m)
        OBVIOUS
    <2> DEFINE h == [k \in 0..(m + 1) |-> IF k = m + 1 THEN Step(g[m]) ELSE g[k]]
    <2>2. m \in Nat /\ m + 1 \in Nat
        OBVIOUS
    <2>3. \A k \in 0..m : h[k] = g[k] /\ k # m + 1 /\ k \in 0..(m + 1)
        BY <2>2
    <2>4. \A k \in 0..m : g[k] = IF k = 0 THEN Seed(boms) ELSE Step(g[k - 1])
        BY <2>1 DEF IsBomWalk
    <2>5. ASSUME NEW k \in 0..(m + 1) PROVE h[k] = IF k = 0 THEN Seed(boms) ELSE Step(h[k - 1])
        <3>1. CASE k = m + 1
            <4>1. k # 0 /\ k - 1 = m /\ m \in 0..m
                BY <2>2, <3>1
            <4> QED
                BY <2>3, <3>1, <4>1
        <3>2. CASE k # m + 1
            <4>1. k \in 0..m /\ (k # 0 => k - 1 \in 0..m)
                BY <2>2, <3>2
            <4> QED
                BY <2>3, <2>4, <4>1
        <3> QED
            BY <3>1, <3>2
    <2>6. IsBomWalk(h, poms, cached, down, boms, m + 1)
        BY <2>5 DEF IsBomWalk
    <2> HIDE DEF h
    <2> QED
        BY <2>2, <2>6
<1>3. S = Nat
    <2>1. S \in SUBSET Nat
        OBVIOUS
    <2> HIDE DEF S
    <2> QED
        BY <1>1, <1>2, <2>1, NaturalsByStep
<1> QED
    BY <1>3

LEMMA BomWalkSteps ==
    ASSUME NEW poms, NEW cached, NEW down, NEW boms
    PROVE  LET walk == BomWalk(poms, cached, down, boms)
           IN  /\ BomVersions(poms, cached, down, boms) = walk[MaxBomDepth + 1].merged
               /\ walk[0] = Seed(boms)
               /\ \A k \in 0..MaxBomDepth : walk[k + 1] = Level(poms, cached, down, walk[k])
<1> DEFINE walk == BomWalk(poms, cached, down, boms)
           n == MaxBomDepth + 1
<1>1. n \in Nat /\ MaxBomDepth \in Nat
    BY BomDepthAssumption
<1>2. BomVersions(poms, cached, down, boms) = walk[MaxBomDepth + 1].merged
    BY DEF BomVersions, BomWalk, IsBomWalk, Seed
<1>3. IsBomWalk(walk, poms, cached, down, boms, n)
    <2>1. \E g : IsBomWalk(g, poms, cached, down, boms, n)
        BY <1>1, BomWalkExists
    <2> QED
        BY <2>1 DEF BomWalk
<1> HIDE DEF walk
<1>4. \A k \in 0..n : walk[k] = IF k = 0 THEN Seed(boms) ELSE Level(poms, cached, down, walk[k - 1])
    BY <1>3 DEF IsBomWalk
<1>5. walk[0] = Seed(boms)
    BY <1>1, <1>4
<1>6. ASSUME NEW k \in 0..MaxBomDepth PROVE walk[k + 1] = Level(poms, cached, down, walk[k])
    <2>1. k + 1 \in 0..n /\ k + 1 # 0 /\ (k + 1) - 1 = k
        BY <1>1
    <2> QED
        BY <1>4, <2>1
<1> QED
    BY <1>2, <1>5, <1>6 DEF walk

\* Rows change no round of the walk.
LEMMA WalkIsReplayed ==
    ASSUME NEW poms, ArePoms(poms), NEW cached, NEW down, NEW boms \in Seq(DOMAIN poms)
    PROVE  BomVersions(poms, cached, down, boms) = BomVersions(Left(poms, cached), <<>>, down \ DOMAIN cached, boms)
<1> DEFINE warm == BomWalk(poms, cached, down, boms)
           cold == BomWalk(Left(poms, cached), <<>>, down \ DOMAIN cached, boms)
           left == Left(poms, cached)
           off == down \ DOMAIN cached
           P == DOMAIN poms
           n == MaxBomDepth + 1
           T == {k \in 0..n : warm[k] = cold[k] /\ warm[k].frontier \in Seq(P)}
<1>0. ArePoms(left) /\ DOMAIN left = P
    BY LeftArePoms
<1>1. n \in Nat /\ MaxBomDepth \in Nat
    BY BomDepthAssumption
<1>2. /\ BomVersions(poms, cached, down, boms) = warm[n].merged /\ warm[0] = Seed(boms)
      /\ \A k \in 0..MaxBomDepth : warm[k + 1] = Level(poms, cached, down, warm[k])
    BY BomWalkSteps
<1>3. /\ BomVersions(left, <<>>, off, boms) = cold[n].merged /\ cold[0] = Seed(boms)
      /\ \A k \in 0..MaxBomDepth : cold[k + 1] = Level(left, <<>>, off, cold[k])
    BY BomWalkSteps
<1> HIDE DEF warm, cold
<1>4. 0 \in T
    <2>1. NotSeen(boms, {}) \in Seq(P)
        BY NotSeenRange
    <2> QED
        BY <1>1, <1>2, <1>3, <2>1 DEF Seed
<1>5. ASSUME NEW k \in 0..(n - 1), k \in T PROVE k + 1 \in T
    <2>1. k \in 0..MaxBomDepth /\ k + 1 \in 0..n
        BY <1>1
    <2> DEFINE w == warm[k]
    <2>2. w.frontier \in Seq(P) /\ cold[k] = w
        BY <1>5
    <2>3. warm[k + 1] = Level(poms, cached, down, w) /\ cold[k + 1] = Level(left, <<>>, off, w)
        BY <1>2, <1>3, <2>1, <2>2
    <2> HIDE DEF w
    <2>4. Level(poms, cached, down, w) = Round(left, off, w)
        BY <2>2, LevelIsRound
    <2>5. Level(left, <<>>, off, w) = Round(left, off, w)
        <3>1. off \ DOMAIN <<>> = off
            OBVIOUS
        <3>2. Left(left, <<>>) = left
            BY <1>0, NothingLost
        <3> HIDE DEF left, off
        <3>3. Level(left, <<>>, off, w) = Round(Left(left, <<>>), off \ DOMAIN <<>>, w)
            BY <1>0, <2>2, LevelIsRound
        <3> QED
            BY <3>1, <3>2, <3>3
    <2>6. Round(left, off, w).frontier \in Seq(P)
        <3> HIDE DEF left, off
        <3> QED
            BY <1>0, <2>2, RoundAdds DEF Adds
    <2> QED
        BY <2>1, <2>3, <2>4, <2>5, <2>6
<1> HIDE DEF T
<1>6. n \in T
    <2>1. 0..n \subseteq T
        BY <1>1, <1>4, <1>5, UpTo
    <2> QED
        BY <1>1, <2>1
<1>7. warm[n] = cold[n]
    BY <1>6 DEF T
<1> QED
    BY <1>2, <1>3, <1>7

\* A scan of a pom.xml that imports BOMs and has a parent of poms.
IsMavenProject(project, poms) ==
    /\ project = [declared |-> project.declared, boms |-> project.boms, parent |-> project.parent]
    /\ project.boms \in Seq(DOMAIN poms) /\ project.parent \in Seq(DOMAIN poms)

\* Rows of earlier calls, whichever there are, change no answer, but that a row from before
\* v2.5 loses what its POM imports: loadBomResolution() and loadParentResolution() store all
\* that the walk needs, and parseEnvelope() reads an old row as a POM without imports.
THEOREM RowsAreReplayed ==
    ASSUME NEW poms, ArePoms(poms), NEW cached, NEW down, NEW project, IsMavenProject(project, poms)
    PROVE  IsReplayed(poms, cached, down, project)
<1> DEFINE off == down \ DOMAIN cached
           left == Left(poms, cached)
           p == WithParent(poms, cached, down, project)
           q == WithParent(left, <<>>, off, project)
           k == project.parent[1]
           P == DOMAIN poms
<1>1. off \ DOMAIN <<>> = off
    OBVIOUS
<1>0. ArePoms(left) /\ DOMAIN left = P /\ Left(left, <<>>) = left
    <2>1. ArePoms(left) /\ DOMAIN left = P
        BY LeftArePoms
    <2> QED
        BY <2>1, NothingLost
<1>2. \A b \in P : /\ Loads(cached, down, b) <=> Loads(<<>>, off, b)
                   /\ Loaded(poms, cached, b) = left[b] /\ Loaded(left, <<>>, b) = left[b]
    <2> TAKE b \in P
    <2>1. (Loads(cached, down, b) <=> b \notin off) /\ Loaded(poms, cached, b) = left[b]
        BY RowsAreRead
    <2> HIDE DEF left, off
    <2>2. (Loads(<<>>, off, b) <=> b \notin off \ DOMAIN <<>>) /\ Loaded(left, <<>>, b) = Left(left, <<>>)[b]
        BY <1>0, RowsAreRead
    <2> QED
        BY <1>0, <1>1, <2>1, <2>2
<1>3. \A b \in ToSet(project.parent) : b \in P
    BY DEF ToSet, IsMavenProject
<1>4. p = q /\ p.boms \in Seq(P)
    <2>1. CASE \E b \in ToSet(project.parent) : Loads(cached, down, b)
        <3>1. \E b \in ToSet(project.parent) : Loads(<<>>, off, b)
            BY <1>2, <1>3, <2>1
        <3>2. k \in P
            <4>1. project.parent \in Seq(P) /\ project.parent # <<>>
                BY <2>1 DEF ToSet, IsMavenProject
            <4> QED
                BY <4>1
        <3>3. Loaded(poms, cached, k) = left[k] /\ Loaded(left, <<>>, k) = left[k]
            BY <1>2, <3>2
        <3> DEFINE pom == left[k]
                   r == [project EXCEPT !.declared = Under(@, pom.versions), !.boms = @ \o pom.nested]
        <3>4. p = r /\ q = r
            BY <2>1, <3>1, <3>3 DEF WithParent
        <3>5. r.boms = project.boms \o pom.nested
            BY DEF IsMavenProject
        <3>6. pom.nested \in Seq(P)
            BY <1>0, <3>2 DEF ArePoms
        <3>7. project.boms \in Seq(P)
            BY DEF IsMavenProject
        <3> HIDE DEF r, pom, p, q, P
        <3>8. project.boms \o pom.nested \in Seq(P)
            BY <3>6, <3>7
        <3> QED
            BY <3>4, <3>5, <3>8
    <2>2. CASE ~\E b \in ToSet(project.parent) : Loads(cached, down, b)
        <3>1. ~\E b \in ToSet(project.parent) : Loads(<<>>, off, b)
            BY <1>2, <1>3, <2>2
        <3>2. p = project /\ q = project
            BY <2>2, <3>1 DEF WithParent
        <3> QED
            BY <3>2 DEF IsMavenProject
    <2> QED
        BY <2>1, <2>2
<1>5. BomVersions(poms, cached, down, p.boms) = BomVersions(left, <<>>, off, p.boms)
    <2> HIDE DEF p
    <2> QED
        BY <1>4, WalkIsReplayed
<1> HIDE DEF p, q
<1>6. Enriched(poms, cached, down, project) = Under(p.declared, BomVersions(poms, cached, down, p.boms))
    BY DEF Enriched, p
<1>7. Enriched(left, <<>>, off, project) = Under(q.declared, BomVersions(left, <<>>, off, q.boms))
    BY DEF Enriched, q
<1> QED
    BY <1>4, <1>5, <1>6, <1>7 DEF IsReplayed, Left

IsReached(g, poms, down, boms) ==
    g = [n \in 0..MaxBomDepth |->
            IF n = 0 THEN ToSet(boms) ELSE UNION {ToSet(poms[b].nested) : b \in g[n - 1] \ down}]

LEMMA ReachedSteps ==
    ASSUME NEW poms, ArePoms(poms), NEW down, NEW boms \in Seq(DOMAIN poms)
    PROVE  LET near == ReachedIn(poms, down, boms)
           IN  /\ DOMAIN near = 0..MaxBomDepth /\ near[0] = ToSet(boms)
               /\ \A k \in 1..MaxBomDepth : near[k] = UNION {ToSet(poms[b].nested) : b \in near[k - 1] \ down}
<1> DEFINE P == DOMAIN poms
           n == MaxBomDepth
           near == CHOOSE g : IsReached(g, poms, down, boms)
           Next(s) == UNION {ToSet(poms[b].nested) : b \in s \ down}
           f == [p \in (1..n) \X SUBSET P |-> Next(p[2])]
<1>1. n \in Nat
    BY BomDepthAssumption
<1>2. ReachedIn(poms, down, boms) = near
    BY DEF ReachedIn, IsReached
<1>3. ToSet(boms) \in SUBSET P
    BY DEF ToSet
<1>4. \A s \in SUBSET P : Next(s) \in SUBSET P
    <2>1. \A b \in P : ToSet(poms[b].nested) \in SUBSET P
        BY DEF ArePoms, ToSet
    <2> QED
        BY <2>1
<1>5. \A k \in 1..n, s \in SUBSET P : f[<<k, s>>] = Next(s)
    OBVIOUS
<1> HIDE DEF near, Next, f, n
<1>6. PICK g : Recursion(g, SUBSET P, ToSet(boms), n, f)
    <2> DEFINE S == SUBSET P
               a == ToSet(boms)
    <2>1. a \in S
        BY <1>3
    <2>2. Stays(f, S, n)
        BY <1>4, <1>5 DEF Stays
    <2> HIDE DEF S, a
    <2>3. \E g : Recursion(g, S, a, n, f)
        BY <1>1, <2>1, <2>2, RecursionExists
    <2> QED
        BY <2>3 DEF S, a
<1>7. g \in [0..n -> SUBSET P] /\ g[0] = ToSet(boms) /\ \A k \in 1..n : g[k] = Next(g[k - 1])
    <2>1. \A k \in 1..n : k - 1 \in 0..n
        BY <1>1
    <2>2. g \in [0..n -> SUBSET P] /\ g[0] = ToSet(boms) /\ \A k \in 1..n : g[k] = f[<<k, g[k - 1]>>]
        BY <1>6 DEF Recursion
    <2> QED
        BY <1>5, <2>1, <2>2
<1>8. IsReached(g, poms, down, boms)
    <2>1. ASSUME NEW k \in 0..n PROVE g[k] = IF k = 0 THEN ToSet(boms) ELSE Next(g[k - 1])
        <3>1. CASE k = 0
            BY <1>7, <3>1
        <3>2. CASE k # 0
            <4>1. k \in 1..n
                BY <1>1, <3>2
            <4> QED
                BY <1>7, <3>2, <4>1
        <3> QED
            BY <3>1, <3>2
    <2>2. g = [k \in 0..n |-> g[k]]
        BY <1>7
    <2> QED
        BY <2>1, <2>2 DEF IsReached, Next, n
<1>9. IsReached(near, poms, down, boms)
    BY <1>8 DEF near
<1>10. near = [k \in 0..n |-> IF k = 0 THEN ToSet(boms) ELSE Next(near[k - 1])]
    BY <1>9 DEF IsReached, Next, n
<1>11. DOMAIN near = 0..n /\ near[0] = ToSet(boms)
    <2>1. 0 \in 0..n
        BY <1>1
    <2> QED
        BY <1>10, <2>1
<1>12. ASSUME NEW k \in 1..n PROVE near[k] = Next(near[k - 1])
    <2>1. k \in 0..n /\ k # 0
        BY <1>1
    <2> QED
        BY <1>10, <2>1
<1> QED
    BY <1>2, <1>11, <1>12 DEF n, Next

Earlier(near, k) == UNION {near[j] : j \in 0..(k - 1)}

\* The BOMs of the first k levels decide: a dependency has the version of a manager of the
\* first level that has one.
Manages(poms, down, b, d) == b \notin down /\ d \in DOMAIN poms[b].versions
Decided(poms, down, near, m, k) ==
    /\ \A d \in DOMAIN m : \E j \in 0..(k - 1) : \E b \in near[j] :
          /\ Manages(poms, down, b, d) /\ m[d] = poms[b].versions[d]
          /\ \A i \in 0..(j - 1) : \A c \in near[i] : ~Manages(poms, down, c, d)
    /\ \A j \in 0..(k - 1) : \A b \in near[j] : \A d : Manages(poms, down, b, d) => d \in DOMAIN m

LEMMA BomWalkIsNearest ==
    ASSUME NEW poms, ArePoms(poms), NEW down, NEW boms \in Seq(DOMAIN poms)
    PROVE  Decided(poms, down, ReachedIn(poms, down, boms), BomVersions(poms, <<>>, down, boms), MaxBomDepth + 1)
<1> DEFINE walk == BomWalk(poms, <<>>, down, boms)
           near == ReachedIn(poms, down, boms)
           P == DOMAIN poms
           N == MaxBomDepth
           Next(s) == UNION {ToSet(poms[b].nested) : b \in s \ down}
           Good(w, k) == /\ w.frontier \in Seq(P)
                         /\ k <= N => /\ ToSet(w.frontier) = near[k] \ Earlier(near, k)
                                      /\ w.seen = Earlier(near, k + 1)
                         /\ Decided(poms, down, near, w.merged, k)
           T == {k \in 0..(N + 1) : Good(walk[k], k)}
<1>1. N \in Nat /\ N + 1 \in Nat
    BY BomDepthAssumption
<1>2. /\ BomVersions(poms, <<>>, down, boms) = walk[N + 1].merged /\ walk[0] = Seed(boms)
      /\ \A k \in 0..N : walk[k + 1] = Level(poms, <<>>, down, walk[k])
    BY BomWalkSteps
<1>3. /\ DOMAIN near = 0..N /\ near[0] = ToSet(boms)
      /\ \A k \in 1..N : near[k] = Next(near[k - 1])
    BY ReachedSteps
<1>4. \A s, b, x : b \in s /\ b \notin down /\ x \in ToSet(poms[b].nested) => x \in Next(s)
    OBVIOUS
<1>5. \A s : \A x \in Next(s) : \E b \in s : b \notin down /\ x \in ToSet(poms[b].nested)
    OBVIOUS
<1> HIDE DEF walk, near, N, Next
<1>6. 0 \in T
    <2>1. NotSeen(boms, {}) \in Seq(P) /\ ToSet(NotSeen(boms, {})) = ToSet(boms)
        <3>1. NotSeen(boms, {}) \in Seq(P) /\ ToSet(NotSeen(boms, {})) = ToSet(boms) \ {}
            BY NotSeenRange
        <3> QED
            BY <3>1
    <2>2. Earlier(near, 0) = {} /\ Earlier(near, 0 + 1) = near[0]
        <3>1. 0..(0 - 1) = {} /\ 0..((0 + 1) - 1) = {0}
            OBVIOUS
        <3> QED
            BY <3>1 DEF Earlier
    <2>3. DOMAIN <<>> = {}
        OBVIOUS
    <2>4. Decided(poms, down, near, <<>>, 0)
        <3>1. 0..(0 - 1) = {}
            OBVIOUS
        <3> QED
            BY <2>3, <3>1 DEF Decided
    <2>5. walk[0].frontier = NotSeen(boms, {}) /\ walk[0].seen = ToSet(NotSeen(boms, {})) /\ walk[0].merged = <<>>
        BY <1>2 DEF Seed
    <2>6. Good(walk[0], 0)
        BY <1>3, <2>1, <2>2, <2>4, <2>5
    <2> QED
        BY <1>1, <2>6
<1>7. ASSUME NEW k \in 0..((N + 1) - 1), k \in T PROVE k + 1 \in T
    <2>1. k \in 0..N /\ k \in Nat /\ k <= N /\ k + 1 \in 0..(N + 1) /\ (k + 1) - 1 = k
        BY <1>1
    <2> DEFINE w == walk[k]
               v == Round(poms, down, w)
               now == ToSet(w.frontier) \ down
    <2>2. /\ w.frontier \in Seq(P) /\ ToSet(w.frontier) = near[k] \ Earlier(near, k)
          /\ w.seen = Earlier(near, k + 1) /\ Decided(poms, down, near, w.merged, k)
        BY <1>7, <2>1
    <2>3. walk[k + 1] = v
        <3>1. walk[k + 1] = Level(poms, <<>>, down, w)
            BY <1>2, <2>1
        <3>2. down \ DOMAIN <<>> = down /\ Left(poms, <<>>) = poms
            BY NothingLost
        <3> HIDE DEF w
        <3>3. Level(poms, <<>>, down, w) = Round(Left(poms, <<>>), down \ DOMAIN <<>>, w)
            BY <2>2, LevelIsRound
        <3> QED
            BY <3>1, <3>2, <3>3
    <2>4. /\ v.frontier \in Seq(P)
          /\ ToSet(v.frontier) = (UNION {ToSet(poms[b].nested) : b \in now}) \ w.seen
          /\ v.seen = w.seen \cup ToSet(v.frontier)
          /\ DOMAIN v.merged = DOMAIN w.merged \cup UNION {DOMAIN poms[b].versions : b \in now}
          /\ \A d \in DOMAIN w.merged : v.merged[d] = w.merged[d]
          /\ \A d \in DOMAIN v.merged \ DOMAIN w.merged :
                \E b \in now : d \in DOMAIN poms[b].versions /\ v.merged[d] = poms[b].versions[d]
        <3> HIDE DEF w
        <3>1. w.frontier \in Seq(DOMAIN poms)
            BY <2>2
        <3> HIDE DEF v
        <3>2. Adds(poms, w, ToSet(w.frontier) \ down, Round(poms, down, w))
            BY <3>1, RoundAdds
        <3>3. Adds(poms, w, now, v)
            BY <3>2 DEF v
        <3> HIDE DEF now
        <3> QED
            BY <3>3 DEF Adds
    <2> HIDE DEF w, v
    <2>5. \A b : b \in now <=> b \in near[k] /\ b \notin Earlier(near, k) /\ b \notin down
        BY <2>2
    <2>6. UNION {ToSet(poms[b].nested) : b \in now} = Next(ToSet(w.frontier))
        BY DEF Next
    <2>7. \A j, x : j \in 0..(k - 1) /\ x \in near[j] => x \in Earlier(near, k)
        BY DEF Earlier
    <2>8. \A x \in Earlier(near, k) : \E j \in 0..(k - 1) : x \in near[j]
        BY DEF Earlier
    <2>9. Earlier(near, k + 1) = Earlier(near, k) \cup near[k]
        <3>1. 0..((k + 1) - 1) = (0..(k - 1)) \cup {k}
            BY <2>1
        <3> QED
            BY <3>1 DEF Earlier
    <2>10. k + 1 <= N => /\ ToSet(v.frontier) = near[k + 1] \ Earlier(near, k + 1)
                         /\ v.seen = Earlier(near, (k + 1) + 1)
        <3> SUFFICES ASSUME k + 1 <= N
                     PROVE  /\ ToSet(v.frontier) = near[k + 1] \ Earlier(near, k + 1)
                            /\ v.seen = Earlier(near, (k + 1) + 1)
            OBVIOUS
        <3>1. near[k + 1] = Next(near[k])
            <4>1. k + 1 \in 1..N
                BY <1>1, <2>1
            <4> QED
                BY <1>3, <2>1, <4>1
        <3>2. ASSUME NEW x \in Next(near[k]), x \notin Earlier(near, k + 1) PROVE x \in Next(ToSet(w.frontier))
            <4>1. PICK b \in near[k] : b \notin down /\ x \in ToSet(poms[b].nested)
                BY <1>5
            <4>2. CASE b \in Earlier(near, k)
                <5>1. PICK j \in 0..(k - 1) : b \in near[j]
                    BY <2>8, <4>2
                <5>2. j + 1 \in 1..N /\ (j + 1) - 1 = j /\ j + 1 \in 0..((k + 1) - 1)
                    BY <1>1, <2>1
                <5>3. near[j + 1] = Next(near[j])
                    BY <1>3, <5>2
                <5>4. x \in near[j + 1]
                    BY <1>4, <4>1, <5>1, <5>3
                <5>5. x \in Earlier(near, k + 1)
                    BY <5>2, <5>4 DEF Earlier
                <5> QED
                    BY <3>2, <5>5
            <4>3. CASE b \notin Earlier(near, k)
                <5>1. b \in ToSet(w.frontier)
                    BY <2>2, <4>3
                <5> QED
                    BY <1>4, <4>1, <5>1
            <4> QED
                BY <4>2, <4>3
        <3>3. ASSUME NEW x \in Next(ToSet(w.frontier)) PROVE x \in Next(near[k])
            <4>1. PICK b \in ToSet(w.frontier) : b \notin down /\ x \in ToSet(poms[b].nested)
                BY <1>5
            <4> QED
                BY <1>4, <2>2, <4>1
        <3>4. ToSet(v.frontier) = near[k + 1] \ Earlier(near, k + 1)
            <4>1. ToSet(v.frontier) = Next(ToSet(w.frontier)) \ Earlier(near, k + 1)
                BY <2>2, <2>4, <2>6
            <4> QED
                BY <3>1, <3>2, <3>3, <4>1
        <3>5. Earlier(near, (k + 1) + 1) = Earlier(near, k + 1) \cup near[k + 1]
            <4>1. 0..(((k + 1) + 1) - 1) = (0..((k + 1) - 1)) \cup {k + 1}
                BY <2>1
            <4> QED
                BY <4>1 DEF Earlier
        <3> QED
            BY <2>2, <2>4, <3>4, <3>5
    <2>11. Decided(poms, down, near, v.merged, k + 1)
        <3> DEFINE M(b, d) == Manages(poms, down, b, d)
                   Earliest(j, d) == \A i \in 0..(j - 1) : \A c \in near[i] : ~M(c, d)
        <3>1. \A d \in DOMAIN w.merged : \E j \in 0..(k - 1) : \E b \in near[j] :
                  M(b, d) /\ w.merged[d] = poms[b].versions[d] /\ Earliest(j, d)
            BY <2>2 DEF Decided
        <3>2. \A j \in 0..(k - 1) : \A b \in near[j] : \A d : M(b, d) => d \in DOMAIN w.merged
            BY <2>2 DEF Decided
        <3>3. \A b \in now : \A d : d \in DOMAIN poms[b].versions <=> M(b, d)
            BY DEF Manages
        <3>0. \A b, d : M(b, d) => b \notin down
            BY DEF Manages
        <3> HIDE DEF M, Earliest, now
        <3>4. ASSUME NEW d \in DOMAIN v.merged
              PROVE  \E j \in 0..k : \E b \in near[j] : M(b, d) /\ v.merged[d] = poms[b].versions[d] /\ Earliest(j, d)
            <4>1. CASE d \in DOMAIN w.merged
                <5>0. PICK j \in 0..(k - 1) : \E b \in near[j] : M(b, d) /\ w.merged[d] = poms[b].versions[d] /\ Earliest(j, d)
                    BY <3>1, <4>1
                <5>1. PICK b \in near[j] : M(b, d) /\ w.merged[d] = poms[b].versions[d] /\ Earliest(j, d)
                    BY <5>0
                <5>2. j \in 0..k
                    BY <2>1
                <5> QED
                    BY <2>4, <4>1, <5>1, <5>2
            <4>2. CASE d \notin DOMAIN w.merged
                <5>1. PICK b \in now : d \in DOMAIN poms[b].versions /\ v.merged[d] = poms[b].versions[d]
                    BY <2>4, <4>2
                <5>2. b \in near[k] /\ k \in 0..k
                    BY <2>1, <2>5
                <5>3. Earliest(k, d)
                    BY <3>2, <4>2 DEF Earliest
                <5> QED
                    BY <3>3, <5>1, <5>2, <5>3
            <4> QED
                BY <4>1, <4>2
        <3>5. ASSUME NEW j \in 0..k, NEW b \in near[j], NEW d, M(b, d) PROVE d \in DOMAIN v.merged
            <4>1. CASE \E i \in 0..(k - 1) : b \in near[i]
                BY <2>4, <3>2, <3>5, <4>1
            <4>2. CASE ~\E i \in 0..(k - 1) : b \in near[i]
                <5>1. j = k
                    BY <2>1, <4>2
                <5>2. b \notin Earlier(near, k)
                    BY <2>8, <4>2
                <5>3. b \in now
                    BY <2>5, <3>0, <3>5, <5>1, <5>2
                <5> QED
                    BY <2>4, <3>3, <3>5, <5>3
            <4> QED
                BY <4>1, <4>2
        <3>6. \A d \in DOMAIN v.merged : \E j \in 0..((k + 1) - 1) : \E b \in near[j] :
                  M(b, d) /\ v.merged[d] = poms[b].versions[d] /\ Earliest(j, d)
            BY <2>1, <3>4
        <3>7. \A j \in 0..((k + 1) - 1) : \A b \in near[j] : \A d : M(b, d) => d \in DOMAIN v.merged
            BY <2>1, <3>5
        <3> QED
            BY <3>6, <3>7 DEF Decided, M, Earliest
    <2>12. Good(v, k + 1)
        BY <2>4, <2>10, <2>11
    <2> QED
        BY <2>1, <2>3, <2>12
<1> HIDE DEF T
<1>8. N + 1 \in T
    <2>1. 0..(N + 1) \subseteq T
        BY <1>1, <1>6, <1>7, UpTo
    <2> QED
        BY <1>1, <2>1
<1>9. Decided(poms, down, near, walk[N + 1].merged, N + 1)
    BY <1>8 DEF T
<1> QED
    BY <1>2, <1>9 DEF near, N

\* A dependency has the version of a nearest BOM that manages it, whatever imports what,
\* cycles included, and whichever POMs cannot be fetched: the walk of
\* enrichWithBomImports() visits the BOMs by their distance, and keeps the first value.
THEOREM VersionsOfNearest ==
    ASSUME NEW poms, ArePoms(poms), NEW down, NEW boms \in Seq(DOMAIN poms)
    PROVE  IsNearest(poms, down, boms)
<1> DEFINE near == ReachedIn(poms, down, boms)
           result == BomVersions(poms, <<>>, down, boms)
           N == MaxBomDepth
           Manage(d) == {b \in (UNION Range(near)) \ down : d \in DOMAIN poms[b].versions}
           M(b, d) == Manages(poms, down, b, d)
<1>1. N \in Nat
    BY BomDepthAssumption
<1>2. DOMAIN near = 0..N
    BY ReachedSteps
<1>3. Decided(poms, down, near, result, N + 1)
    BY BomWalkIsNearest
<1> HIDE DEF near, result
<1>4. (N + 1) - 1 = N
    BY <1>1
<1>5. \A d \in DOMAIN result : \E j \in 0..N : \E b \in near[j] :
          M(b, d) /\ result[d] = poms[b].versions[d] /\ \A i \in 0..(j - 1) : \A c \in near[i] : ~M(c, d)
    BY <1>3, <1>4 DEF Decided
<1>6. \A j \in 0..N : \A b \in near[j] : \A d : M(b, d) => d \in DOMAIN result
    BY <1>3, <1>4 DEF Decided
<1> HIDE DEF N
<1>7. \A b, d : b \in Manage(d) <=> (\E j \in 0..N : b \in near[j]) /\ M(b, d)
    <2>1. \A b : b \in UNION Range(near) <=> \E j \in 0..N : b \in near[j]
        BY <1>2 DEF Range
    <2>2. \A b, d : b \in Manage(d) <=> b \in UNION Range(near) /\ b \notin down /\ d \in DOMAIN poms[b].versions
        OBVIOUS
    <2> HIDE DEF Manage
    <2> QED
        BY <2>1, <2>2 DEF Manages
<1> HIDE DEF Manage
<1>8. ASSUME NEW b, NEW j \in 0..N, b \in near[j]
      PROVE  /\ Distance(near, b) \in 0..N /\ b \in near[Distance(near, b)]
             /\ \A i \in 0..(Distance(near, b) - 1) : b \notin near[i]
    <2> DEFINE S == {n \in 0..N : b \in near[n]}
    <2>1. S \in SUBSET Nat /\ S # {}
        BY <1>1, <1>8
    <2>2. PICK n \in S : \A m \in S : n <= m
        <3> HIDE DEF S
        <3> QED
            BY <2>1, LeastNatural
    <2>3. n \in 0..N /\ b \in near[n]
        OBVIOUS
    <2>4. \A m \in 0..(n - 1) : b \notin near[m]
        <3> TAKE m \in 0..(n - 1)
        <3>1. m \in 0..N /\ ~(n <= m)
            BY <1>1, <2>3
        <3> QED
            BY <2>2, <3>1
    <2> HIDE DEF S
    <2>5. \E x \in DOMAIN near : b \in near[x] /\ \A m \in 0..(x - 1) : b \notin near[m]
        BY <1>2, <2>3, <2>4
    <2> QED
        BY <1>2, <2>5 DEF Distance
<1>9. ASSUME NEW d PROVE d \in DOMAIN result <=> Manage(d) # {}
    <2>1. ASSUME d \in DOMAIN result PROVE Manage(d) # {}
        BY <1>5, <1>7, <2>1
    <2>2. ASSUME Manage(d) # {} PROVE d \in DOMAIN result
        <3>1. PICK b : b \in Manage(d)
            BY <2>2
        <3> QED
            BY <1>6, <1>7, <3>1
    <2> QED
        BY <2>1, <2>2
<1>10. ASSUME NEW d, d \in DOMAIN result
       PROVE  \E b \in Manage(d) : /\ poms[b].versions[d] = result[d]
                                   /\ \A c \in Manage(d) : Distance(near, b) <= Distance(near, c)
    <2>1. PICK j \in 0..N : \E b \in near[j] :
              M(b, d) /\ result[d] = poms[b].versions[d] /\ \A i \in 0..(j - 1) : \A c \in near[i] : ~M(c, d)
        BY <1>5, <1>10
    <2>2. PICK b \in near[j] :
              M(b, d) /\ result[d] = poms[b].versions[d] /\ \A i \in 0..(j - 1) : \A c \in near[i] : ~M(c, d)
        BY <2>1
    <2> HIDE DEF M
    <2>3. b \in Manage(d)
        BY <1>7, <2>2
    <2>4. ASSUME NEW c \in Manage(d) PROVE Distance(near, b) <= Distance(near, c)
        <3>1. M(c, d)
            BY <1>7
        <3>2. PICK i \in 0..N : c \in near[i]
            BY <1>7
        <3> DEFINE x == Distance(near, b)
                   y == Distance(near, c)
        <3>3. x \in 0..N /\ \A m \in 0..(x - 1) : b \notin near[m]
            BY <1>8
        <3>4. y \in 0..N /\ c \in near[y]
            BY <1>8, <3>2
        <3> HIDE DEF x, y
        <3>5. x <= j
            <4>1. ~(j \in 0..(x - 1))
                BY <3>3
            <4> QED
                BY <1>1, <3>3, <4>1
        <3>6. j <= y
            <4>1. ~(y \in 0..(j - 1))
                BY <2>2, <3>1, <3>4
            <4> QED
                BY <1>1, <3>4, <4>1
        <3>7. x <= y
            BY <1>1, <3>3, <3>4, <3>5, <3>6
        <3> QED
            BY <3>7 DEF x, y
    <2> QED
        BY <2>2, <2>3, <2>4
<1> QED
    BY <1>9, <1>10 DEF IsNearest, near, result, Manage

-----------------------------------------------------------------------------
(* The chunks of a section                                                 *)

\* The tokens of some paragraphs in a row.
LEMMA SliceTokens ==
    ASSUME NEW s \in Seq(Nat), NEW a \in 1..(Len(s) + 1), NEW b \in (a - 1)..Len(s)
    PROVE  /\ SubSeq(s, a, b) \in Seq(Nat) /\ Len(SubSeq(s, a, b)) = b + 1 - a
           /\ \A i \in 1..(b + 1 - a) : SubSeq(s, a, b)[i] = s[a + i - 1]
           /\ Sum(s)[b] \in Nat /\ Sum(s)[a - 1] \in Nat
           /\ Tokens(SubSeq(s, a, b)) = Sum(s)[b] - Sum(s)[a - 1]
<1> DEFINE t == SubSeq(s, a, b)
           n == b + 1 - a
           g == Sum(s)
           h == Sum(t)
<1>1. a \in Nat /\ b \in Nat /\ n \in Nat /\ a - 1 \in 0..Len(s) /\ b \in 0..Len(s) /\ Len(s) \in Nat
    OBVIOUS
<1>2. t \in Seq(Nat) /\ Len(t) = n /\ \A i \in 1..n : t[i] = s[a + i - 1]
    <2>1. \A i \in a..b : s[i] \in Nat
        BY <1>1
    <2> QED
        BY <1>1, <2>1, SubSeqProperties
<1> HIDE DEF t
<1>3. g \in [0..Len(s) -> Nat] /\ \A k \in 1..Len(s) : g[k] = g[k - 1] + s[k]
    BY SumExists
<1>4. h \in [0..n -> Nat] /\ h[0] = 0 /\ Tokens(t) = h[n] /\ \A k \in 1..n : h[k] = h[k - 1] + t[k]
    BY <1>2, SumExists DEF Tokens
<1> HIDE DEF g, h
<1> DEFINE T == {k \in 0..n : h[k] = g[a - 1 + k] - g[a - 1]}
<1>5. 0 \in T
    <2>0. a - 1 \in 0..Len(s) /\ a - 1 + 0 = a - 1
        BY <1>1
    <2>1. g[a - 1] \in Nat /\ a - 1 + 0 = a - 1
        BY <1>3, <2>0
    <2> QED
        BY <1>1, <1>4, <2>1
<1>6. ASSUME NEW k \in 0..(n - 1), k \in T PROVE k + 1 \in T
    <2>1. k + 1 \in 1..n /\ k + 1 \in 0..n /\ (k + 1) - 1 = k /\ k \in 0..n
        BY <1>1
    <2>2. a + k \in 1..Len(s) /\ a + k - 1 \in 0..Len(s) /\ a + k \in 0..Len(s)
        BY <1>1
    <2>3. a - 1 + (k + 1) = a + k /\ a - 1 + k = a + k - 1 /\ a + (k + 1) - 1 = a + k
        BY <1>1
    <2>4. h[k + 1] = h[k] + t[k + 1] /\ t[k + 1] = s[a + k]
        BY <1>2, <1>4, <2>1, <2>3
    <2>5. g[a + k] = g[a + k - 1] + s[a + k] /\ g[a + k - 1] \in Nat /\ s[a + k] \in Nat /\ g[a - 1] \in Nat
        <3> DEFINE j == a + k
        <3>1. j \in 1..Len(s) /\ j - 1 \in 0..Len(s)
            BY <2>2
        <3>2. a - 1 \in 0..Len(s)
            BY <1>1
        <3> HIDE DEF j
        <3>3. g[j] = g[j - 1] + s[j]
            BY <1>3, <3>1
        <3>4. g[j - 1] \in Nat
            BY <1>3, <3>1
        <3>5. s[j] \in Nat
            BY <3>1
        <3>6. g[a - 1] \in Nat
            BY <1>3, <3>2
        <3> QED
            BY <3>3, <3>4, <3>5, <3>6 DEF j
    <2>6. h[k] = g[a + k - 1] - g[a - 1]
        BY <1>6, <2>3
    <2>7. h[k + 1] = g[a - 1 + (k + 1)] - g[a - 1]
        BY <2>3, <2>4, <2>5, <2>6
    <2> QED
        BY <2>1, <2>7
<1> HIDE DEF T
<1>7. 0..n \subseteq T
    BY <1>1, <1>5, <1>6, UpTo
<1>8. h[n] = g[a - 1 + n] - g[a - 1]
    <2>1. n \in T
        BY <1>1, <1>7
    <2> QED
        BY <2>1 DEF T
<1>9. a - 1 + n = b
    BY <1>1
<1>10. g[b] \in Nat /\ g[a - 1] \in Nat
    BY <1>1, <1>3
<1> QED
    BY <1>2, <1>4, <1>8, <1>9, <1>10 DEF t, g

\* What a window takes over from the one before fits the overlap.
LEMMA CarryFits ==
    ASSUME NEW buf \in Seq(Nat), NEW overlap \in Nat
    PROVE  /\ Carry(buf, overlap) \in 0..Len(buf)
           /\ Tokens(SubSeq(buf, Len(buf) - Carry(buf, overlap) + 1, Len(buf))) <= overlap
<1> DEFINE fits == {n \in 0..Len(buf) : Tokens(SubSeq(buf, Len(buf) - n + 1, Len(buf))) <= overlap}
           most == CHOOSE n \in fits : \A m \in fits : m <= n
<1>1. Len(buf) \in Nat
    OBVIOUS
<1>2. 0 \in fits
    <2>1. Len(buf) - 0 + 1 \in 1..(Len(buf) + 1) /\ Len(buf) \in (Len(buf) - 0 + 1 - 1)..Len(buf)
        BY <1>1
    <2>2. Sum(buf)[Len(buf)] \in Nat /\ Len(buf) - 0 + 1 - 1 = Len(buf)
        BY <1>1, SumExists
    <2>3. Tokens(SubSeq(buf, Len(buf) - 0 + 1, Len(buf))) = Sum(buf)[Len(buf)] - Sum(buf)[Len(buf) - 0 + 1 - 1]
        BY <2>1, SliceTokens
    <2>4. Tokens(SubSeq(buf, Len(buf) - 0 + 1, Len(buf))) = 0
        BY <2>2, <2>3
    <2> QED
        BY <1>1, <2>4
<1>3. fits \in SUBSET (0..Len(buf))
    OBVIOUS
<1> HIDE DEF fits
<1>4. \E n \in fits : \A m \in fits : m <= n
    BY <1>1, <1>2, <1>3, MaxIsLast
<1>5. most \in fits
    BY <1>4
<1>6. Carry(buf, overlap) = most
    BY DEF Carry, fits
<1> HIDE DEF most
<1> QED
    BY <1>5, <1>6 DEF fits

\* A list of windows up to paragraph p, each of which keeps what ChunksCover says of it.
Windows == [closed : Seq(Nat \X Nat), first : Nat, last : Nat]
AllWindows(w) == Append(w.closed, <<w.first, w.last>>)
Behind(l, i) == IF i = 1 THEN 0 ELSE l[i - 1][2] + 1 - l[i][1]
CutsWell(l, text, max, overlap, i) ==
    /\ 1 <= l[i][1] /\ l[i][1] <= l[i][2] + 1 /\ l[i][2] <= Len(text)
    /\ i # 1 => l[i][1] <= l[i - 1][2] + 1 /\ l[i - 1][2] < l[i][2]
    /\ Tokens(SubSeq(text, l[i][1], l[i][1] + Behind(l, i) - 1)) <= overlap
    /\ Tokens(SubSeq(text, l[i][1], l[i][2])) > max => l[i][2] - l[i][1] + 1 - Behind(l, i) = 1
Covers(w, p, text, max, overlap) ==
    /\ w \in Windows
    /\ w.last = p /\ (p # 0 => w.first <= p)
    /\ AllWindows(w)[1][1] = 1
    /\ \A i \in 1..(Len(w.closed) + 1) : CutsWell(AllWindows(w), text, max, overlap, i)

LEMMA AllOfWindows ==
    ASSUME NEW w \in Windows
    PROVE  /\ Len(AllWindows(w)) = Len(w.closed) + 1 /\ Len(w.closed) \in Nat
           /\ AllWindows(w) \in Seq(Nat \X Nat)
           /\ \A i \in 1..Len(w.closed) : AllWindows(w)[i] = w.closed[i]
           /\ AllWindows(w)[Len(w.closed) + 1] = <<w.first, w.last>>
<1>1. w.closed \in Seq(Nat \X Nat) /\ <<w.first, w.last>> \in Nat \X Nat
    BY DEF Windows
<1> DEFINE X == Nat \X Nat
           x == <<w.first, w.last>>
           c == w.closed
<1>2. c \in Seq(X) /\ x \in X
    BY <1>1
<1>3. AllWindows(w) = Append(c, x)
    BY DEF AllWindows
<1> HIDE DEF X, x, c
<1>4. /\ Len(Append(c, x)) = Len(c) + 1 /\ Len(c) \in Nat /\ Append(c, x) \in Seq(X)
      /\ \A i \in 1..Len(c) : Append(c, x)[i] = c[i]
      /\ Append(c, x)[Len(c) + 1] = x
    BY <1>2
<1> QED
    BY <1>3, <1>4 DEF X, x, c

LEMMA NoWindows ==
    ASSUME NEW text \in Seq(Nat), NEW max \in Nat, NEW overlap \in Nat
    PROVE  Covers([closed |-> <<>>, first |-> 1, last |-> 0], 0, text, max, overlap)
<1> DEFINE w == [closed |-> <<>>, first |-> 1, last |-> 0]
           l == AllWindows(w)
<1>1. w \in Windows /\ Len(w.closed) = 0 /\ w.first = 1 /\ w.last = 0
    <2>1. <<>> \in Seq(Nat \X Nat)
        OBVIOUS
    <2> QED
        BY <2>1 DEF Windows
<1> HIDE DEF w
<1>2. l[1] = <<1, 0>>
    BY <1>1, AllOfWindows
<1> HIDE DEF l
<1>3. CutsWell(l, text, max, overlap, 1)
    <2>1. 1 \in 1..(Len(text) + 1) /\ 0 \in (1 - 1)..Len(text) /\ Len(text) \in Nat
        OBVIOUS
    <2>2. Tokens(SubSeq(text, 1, 0)) = Sum(text)[0] - Sum(text)[1 - 1]
        BY <2>1, SliceTokens
    <2>3. Tokens(SubSeq(text, 1, 0)) = 0
        <3>1. Sum(text)[0] = 0
            BY SumExists
        <3> QED
            BY <2>2, <3>1
    <2>4. Behind(l, 1) = 0
        BY DEF Behind
    <2>5. l[1][1] = 1 /\ l[1][2] = 0 /\ l[1][1] + Behind(l, 1) - 1 = 0
        BY <1>2, <2>4
    <2> QED
        BY <2>1, <2>3, <2>5 DEF CutsWell
<1>4. l[1][1] = 1
    BY <1>2
<1> QED
    BY <1>1, <1>3, <1>4 DEF Covers, l, w

\* One paragraph keeps it.
LEMMA AddCovers ==
    ASSUME NEW text \in Seq(Nat), NEW max \in Nat, NEW overlap \in Nat,
           NEW p \in 1..Len(text), NEW w, Covers(w, p - 1, text, max, overlap)
    PROVE  Covers(AddParagraph(w, p, text, max, overlap), p, text, max, overlap)
<1> DEFINE buf == SubSeq(text, w.first, w.last)
           v == AddParagraph(w, p, text, max, overlap)
           l == AllWindows(w)
           m == AllWindows(v)
           n == Len(w.closed) + 1
           a == w.first
<1>1. w \in Windows /\ w.last = p - 1 /\ (p - 1 # 0 => a <= p - 1)
    BY DEF Covers
<1>2. p \in Nat /\ Len(text) \in Nat /\ 1 <= p /\ p <= Len(text) /\ p - 1 \in Nat
    OBVIOUS
<1>3. n \in Nat /\ Len(l) = n /\ l[n] = <<a, p - 1>> /\ n >= 1 /\ \A i \in 1..(n - 1) : l[i] = w.closed[i]
    BY <1>1, AllOfWindows
<1>4. \A i \in 1..n : CutsWell(l, text, max, overlap, i)
    BY DEF Covers
<1>5. l[1][1] = 1
    BY DEF Covers
<1>6. a \in Nat /\ w.closed \in Seq(Nat \X Nat) /\ w = [closed |-> w.closed, first |-> a, last |-> p - 1]
    BY <1>1 DEF Windows
<1>7. 1 <= a /\ a <= p
    <2>1. CutsWell(l, text, max, overlap, n)
        BY <1>3, <1>4
    <2>2. 1 <= l[n][1] /\ l[n][1] <= l[n][2] + 1
        BY <2>1 DEF CutsWell
    <2>3. l[n][1] = a /\ l[n][2] = p - 1
        BY <1>3
    <2> QED
        BY <1>2, <1>6, <2>2, <2>3
<1>8. a \in 1..(Len(text) + 1) /\ p - 1 \in (a - 1)..Len(text)
    BY <1>2, <1>6, <1>7
<1>9. buf = SubSeq(text, a, p - 1)
    BY <1>1
<1> HIDE DEF buf
<1>10. buf \in Seq(Nat) /\ Len(buf) = p - a /\ Tokens(buf) = Sum(text)[p - 1] - Sum(text)[a - 1]
    <2>1. (p - 1) + 1 - a = p - a
        BY <1>2, <1>6
    <2> QED
        BY <1>8, <1>9, <2>1, SliceTokens
<1>11. \A i \in 1..(p - a) : buf[i] = text[a + i - 1]
    <2>1. (p - 1) + 1 - a = p - a
        BY <1>2, <1>6
    <2> QED
        BY <1>8, <1>9, <2>1, SliceTokens
<1>12. buf = <<>> <=> a = p
    BY <1>2, <1>6, <1>10
<1>13. \A b \in 1..(p + 1) : /\ Tokens(SubSeq(text, b, p)) = Sum(text)[p] - Sum(text)[b - 1]
                             /\ Sum(text)[b - 1] \in Nat
    <2> SUFFICES ASSUME NEW b \in 1..(p + 1)
                 PROVE  Tokens(SubSeq(text, b, p)) = Sum(text)[p] - Sum(text)[b - 1] /\ Sum(text)[b - 1] \in Nat
        OBVIOUS
    <2>1. b \in 1..(Len(text) + 1) /\ p \in (b - 1)..Len(text)
        BY <1>2
    <2> QED
        BY <2>1, SliceTokens
<1>14. Sum(text)[p] = Sum(text)[p - 1] + text[p] /\ Sum(text)[p - 1] \in Nat /\ text[p] \in Nat
    <2>1. p - 1 \in 0..Len(text)
        BY <1>2
    <2> QED
        BY <2>1, SumExists
<1>15. CASE buf # <<>> /\ Tokens(buf) + text[p] > max
    <2> DEFINE c == Carry(buf, overlap)
               b == w.last + 1 - c
    <2>1. c \in 0..Len(buf) /\ Tokens(SubSeq(buf, Len(buf) - c + 1, Len(buf))) <= overlap
        BY <1>10, CarryFits
    <2>2. v = [closed |-> Append(w.closed, <<w.first, w.last>>), first |-> b, last |-> p]
        BY <1>9, <1>1, <1>15 DEF AddParagraph, buf
    <2>3. Append(w.closed, <<w.first, w.last>>) = l
        BY DEF AllWindows
    <2> HIDE DEF v, c, l
    <2>4. b = p - c /\ b \in Nat /\ a <= b /\ b <= p /\ c \in Nat /\ b \in 1..(p + 1) /\ c <= p - a
        <3>1. c \in Nat /\ c <= p - a
            BY <1>2, <1>6, <1>7, <1>10, <2>1
        <3>2. b = (p - 1) + 1 - c
            BY <1>1
        <3> HIDE DEF a, b
        <3> QED
            BY <1>2, <1>6, <1>7, <3>1, <3>2
    <2> HIDE DEF b
    <2>5. l \in Seq(Nat \X Nat) /\ v \in Windows /\ v.closed = l /\ v.first = b /\ v.last = p
        <3>1. l \in Seq(Nat \X Nat)
            BY <1>1, AllOfWindows DEF l
        <3> QED
            BY <1>2, <2>2, <2>3, <2>4, <3>1 DEF Windows
    <2>6. m[n + 1] = <<b, p>> /\ Len(v.closed) = n /\ \A i \in 1..n : m[i] = l[i]
        BY <1>3, <2>5, AllOfWindows
    <2> HIDE DEF m
    <2>7. Tokens(SubSeq(text, b, b + c - 1)) <= overlap
        <3>1. b + c - 1 = p - 1 /\ b \in 1..(Len(text) + 1) /\ p - 1 \in (b - 1)..Len(text)
            BY <1>2, <2>4
        <3>2. Len(buf) - c + 1 \in 1..(Len(buf) + 1) /\ Len(buf) \in (Len(buf) - c + 1 - 1)..Len(buf)
            BY <1>2, <1>6, <1>10, <2>1
        <3>3. /\ SubSeq(buf, Len(buf) - c + 1, Len(buf)) \in Seq(Nat)
              /\ Len(SubSeq(buf, Len(buf) - c + 1, Len(buf))) = Len(buf) + 1 - (Len(buf) - c + 1)
              /\ \A i \in 1..(Len(buf) + 1 - (Len(buf) - c + 1)) :
                    SubSeq(buf, Len(buf) - c + 1, Len(buf))[i] = buf[(Len(buf) - c + 1) + i - 1]
            <4> DEFINE j == Len(buf) - c + 1
                       k == Len(buf)
            <4>1. j \in 1..(Len(buf) + 1) /\ k \in (j - 1)..Len(buf)
                BY <3>2
            <4> HIDE DEF j, k
            <4>2. /\ SubSeq(buf, j, k) \in Seq(Nat) /\ Len(SubSeq(buf, j, k)) = k + 1 - j
                  /\ \A i \in 1..(k + 1 - j) : SubSeq(buf, j, k)[i] = buf[j + i - 1]
                BY <1>10, <4>1, SliceTokens
            <4> QED
                BY <4>2 DEF j, k
        <3>4. /\ SubSeq(text, b, p - 1) \in Seq(Nat) /\ Len(SubSeq(text, b, p - 1)) = (p - 1) + 1 - b
              /\ \A i \in 1..((p - 1) + 1 - b) : SubSeq(text, b, p - 1)[i] = text[b + i - 1]
            BY <3>1, SliceTokens
        <3> HIDE DEF a
        <3>5. Len(buf) + 1 - (Len(buf) - c + 1) = c /\ (p - 1) + 1 - b = c /\ Len(buf) - c + 1 = p - a - c + 1
            <4> DEFINE k == Len(buf)
            <4>1. k = p - a /\ p \in Nat /\ a \in Nat /\ c \in Nat /\ b = p - c
                BY <1>2, <1>6, <1>10, <2>4
            <4> HIDE DEF k
            <4>2. k + 1 - (k - c + 1) = c /\ (p - 1) + 1 - b = c /\ k - c + 1 = p - a - c + 1
                BY <4>1
            <4> QED
                BY <4>2 DEF k
        <3>6. ASSUME NEW i \in 1..c
              PROVE  SubSeq(buf, Len(buf) - c + 1, Len(buf))[i] = SubSeq(text, b, p - 1)[i]
            <4>1. (p - a - c + 1) + i - 1 \in 1..(p - a) /\ a + ((p - a - c + 1) + i - 1) - 1 = b + i - 1
                <5>1. i \in Nat /\ 1 <= i /\ i <= c /\ p \in Nat /\ a \in Nat /\ c \in Nat /\ b = p - c /\ c <= p - a
                    BY <1>2, <1>6, <2>4
                <5> QED
                    BY <5>1
            <4>2. SubSeq(buf, Len(buf) - c + 1, Len(buf))[i] = buf[(p - a - c + 1) + i - 1]
                BY <3>3, <3>5
            <4>3. buf[(p - a - c + 1) + i - 1] = text[a + ((p - a - c + 1) + i - 1) - 1]
                BY <1>11, <4>1
            <4>4. SubSeq(text, b, p - 1)[i] = text[b + i - 1]
                BY <3>4, <3>5
            <4> QED
                BY <4>1, <4>2, <4>3, <4>4
        <3> DEFINE s == SubSeq(buf, Len(buf) - c + 1, Len(buf))
                   t == SubSeq(text, b, p - 1)
        <3>7. s \in Seq(Nat) /\ t \in Seq(Nat) /\ Len(s) = c /\ Len(t) = c /\ \A i \in 1..c : s[i] = t[i]
            BY <3>3, <3>4, <3>5, <3>6
        <3>8. Tokens(s) <= overlap
            BY <2>1
        <3> HIDE DEF s, t
        <3>9. s = t
            BY <3>7, SeqEqual
        <3>10. SubSeq(text, b, b + c - 1) = t
            BY <3>1 DEF t
        <3> QED
            BY <3>8, <3>9, <3>10
    <2>8. CutsWell(m, text, max, overlap, n + 1)
        <3>1. n + 1 # 1 /\ (n + 1) - 1 = n /\ n \in 1..n
            BY <1>3
        <3>2. m[n + 1][1] = b /\ m[n + 1][2] = p /\ m[n][1] = a /\ m[n][2] = p - 1
            BY <1>3, <2>6, <3>1
        <3>3. Behind(m, n + 1) = c
            <4>1. Behind(m, n + 1) = (p - 1) + 1 - b
                BY <3>1, <3>2 DEF Behind
            <4> QED
                BY <1>2, <2>4, <4>1
        <3>4. p - b + 1 - c = 1 /\ 1 <= b /\ b <= p + 1 /\ b <= (p - 1) + 1 /\ p - 1 < p
            BY <1>2, <1>6, <1>7, <2>4
        <3> QED
            BY <1>2, <2>7, <3>1, <3>2, <3>3, <3>4 DEF CutsWell
    <2>9. ASSUME NEW i \in 1..n PROVE CutsWell(m, text, max, overlap, i)
        <3>1. CutsWell(l, text, max, overlap, i)
            BY <1>4
        <3>2. m[i] = l[i]
            BY <2>6
        <3>3. i # 1 => m[i - 1] = l[i - 1]
            <4>1. i # 1 => i - 1 \in 1..n
                BY <1>3
            <4> QED
                BY <2>6, <4>1
        <3>4. Behind(m, i) = Behind(l, i)
            BY <3>2, <3>3 DEF Behind
        <3> QED
            BY <3>1, <3>2, <3>3, <3>4 DEF CutsWell
    <2>10. \A i \in 1..(Len(v.closed) + 1) : CutsWell(m, text, max, overlap, i)
        BY <1>3, <2>6, <2>8, <2>9
    <2>11. m[1][1] = 1
        <3>1. 1 \in 1..n
            BY <1>3
        <3> QED
            BY <1>5, <2>6, <3>1
    <2> QED
        BY <2>4, <2>5, <2>10, <2>11 DEF Covers, m, v
<1>16. CASE ~(buf # <<>> /\ Tokens(buf) + text[p] > max)
    <2>1. v = [w EXCEPT !.last = p]
        BY <1>9, <1>1, <1>16 DEF AddParagraph, buf
    <2> HIDE DEF v
    <2>2. v \in Windows /\ v.closed = w.closed /\ v.first = a /\ v.last = p
        BY <1>2, <1>6, <2>1 DEF Windows
    <2>3. m[n] = <<a, p>> /\ \A i \in 1..(n - 1) : m[i] = l[i]
        <3>1. Len(v.closed) = n - 1 /\ Len(v.closed) + 1 = n
            <4>1. Len(w.closed) \in Nat
                BY <1>6
            <4> QED
                BY <2>2, <4>1
        <3>2. m[Len(v.closed) + 1] = <<a, p>> /\ \A i \in 1..Len(v.closed) : m[i] = v.closed[i]
            BY <2>2, AllOfWindows
        <3> HIDE DEF m, l, n
        <3> QED
            BY <1>3, <2>2, <3>1, <3>2
    <2> HIDE DEF m, l
    <2>4. n \in 1..n /\ CutsWell(l, text, max, overlap, n)
        BY <1>3, <1>4
    <2>5. m[n][1] = a /\ m[n][2] = p /\ l[n][1] = a /\ l[n][2] = p - 1
        BY <1>3, <2>3
    <2>6. n # 1 => n - 1 \in 1..(n - 1) /\ m[n - 1] = l[n - 1]
        <3>1. n # 1 => n - 1 \in 1..(n - 1)
            BY <1>3
        <3> QED
            BY <2>3, <3>1
    <2>7. Behind(m, n) = Behind(l, n)
        BY <2>5, <2>6 DEF Behind
    <2>8. Tokens(SubSeq(text, a, p)) > max => p - a + 1 - Behind(m, n) = 1
        <3>1. Tokens(SubSeq(text, a, p)) = Tokens(buf) + text[p]
            <4>1. a \in 1..(p + 1)
                BY <1>2, <1>6, <1>7
            <4>2. Tokens(SubSeq(text, a, p)) = Sum(text)[p] - Sum(text)[a - 1] /\ Sum(text)[a - 1] \in Nat
                BY <1>13, <4>1
            <4> QED
                BY <1>10, <1>14, <4>2
        <3>2. CASE buf # <<>>
            BY <1>16, <3>1, <3>2
        <3>3. CASE buf = <<>>
            <4>1. a = p
                BY <1>12, <3>3
            <4>2. p = 1
                BY <1>1, <1>2, <4>1
            <4>3. n = 1
                <5>1. n # 1 => l[n - 1][2] < l[n][2]
                    BY <2>4 DEF CutsWell
                <5>2. n # 1 => l[n - 1][2] \in Nat
                    <6>1. n # 1 => n - 1 \in 1..n
                        BY <1>3
                    <6>2. l \in Seq(Nat \X Nat) /\ Len(l) = n
                        BY <1>1, <1>3, AllOfWindows DEF l
                    <6>3. n # 1 => l[n - 1] \in Nat \X Nat
                        BY <6>1, <6>2
                    <6> QED
                        BY <6>3
                <5> QED
                    BY <2>5, <4>2, <5>1, <5>2
            <4>4. Behind(m, n) = 0
                BY <4>3 DEF Behind
            <4> QED
                BY <1>2, <4>1, <4>2, <4>4
        <3> QED
            BY <3>2, <3>3
    <2>9. CutsWell(m, text, max, overlap, n)
        <3>1. 1 <= a /\ a <= p + 1 /\ p <= Len(text)
            BY <1>2, <1>6, <1>7
        <3>2. n # 1 => a <= l[n - 1][2] + 1 /\ l[n - 1][2] < p - 1
            BY <2>4, <2>5 DEF CutsWell
        <3>3. n # 1 => l[n - 1][2] < p
            <4>1. n # 1 => l[n - 1][2] \in Nat
                <5>1. n # 1 => n - 1 \in 1..n
                    BY <1>3
                <5>2. l \in Seq(Nat \X Nat) /\ Len(l) = n
                    BY <1>1, <1>3, AllOfWindows DEF l
                <5>3. n # 1 => l[n - 1] \in Nat \X Nat
                    BY <5>1, <5>2
                <5> QED
                    BY <5>3
            <4> QED
                BY <1>2, <3>2, <4>1
        <3>4. Tokens(SubSeq(text, a, a + Behind(m, n) - 1)) <= overlap
            BY <2>4, <2>5, <2>7 DEF CutsWell
        <3>5. n # 1 => a <= m[n - 1][2] + 1 /\ m[n - 1][2] < p
            BY <2>6, <3>2, <3>3
        <3> QED
            BY <2>5, <2>8, <3>1, <3>4, <3>5 DEF CutsWell
    <2>10. ASSUME NEW i \in 1..(n - 1) PROVE CutsWell(m, text, max, overlap, i)
        <3>1. CutsWell(l, text, max, overlap, i)
            <4>1. i \in 1..n
                BY <1>3
            <4> QED
                BY <1>4, <4>1
        <3>2. m[i] = l[i]
            BY <2>3
        <3>3. i # 1 => m[i - 1] = l[i - 1]
            <4>1. i # 1 => i - 1 \in 1..(n - 1)
                BY <1>3
            <4> QED
                BY <2>3, <4>1
        <3>4. Behind(m, i) = Behind(l, i)
            BY <3>2, <3>3 DEF Behind
        <3> QED
            BY <3>1, <3>2, <3>3, <3>4 DEF CutsWell
    <2>11. \A i \in 1..(Len(v.closed) + 1) : CutsWell(m, text, max, overlap, i)
        <3>1. Len(v.closed) + 1 = n
            BY <2>2
        <3>2. \A i \in 1..n : i = n \/ i \in 1..(n - 1)
            BY <1>3
        <3> QED
            BY <2>9, <2>10, <3>1, <3>2
    <2>12. m[1][1] = 1
        <3>1. CASE n = 1
            <4>1. l[1] = <<a, p - 1>>
                BY <1>3, <3>1
            <4> QED
                BY <1>5, <2>3, <3>1, <4>1
        <3>2. CASE n # 1
            <4>1. 1 \in 1..(n - 1)
                BY <1>3, <3>2
            <4> QED
                BY <1>5, <2>3, <4>1
        <3> QED
            BY <3>1, <3>2
    <2>13. p # 0 => v.first <= p
        BY <1>7, <2>2
    <2> QED
        BY <2>2, <2>11, <2>12, <2>13 DEF Covers, m, v
<1> QED
    BY <1>15, <1>16

\* Every window of splitWithOverlap() keeps what ChunksCover says of a chunk.
LEMMA WindowsCutWell ==
    ASSUME NEW text \in Seq(Nat), NEW max \in Nat, NEW overlap \in Nat
    PROVE  LET l == SplitWithOverlap(text, max, overlap)
           IN  /\ Len(l) \in Nat /\ Len(l) >= 1 /\ DOMAIN l = 1..Len(l)
               /\ l[1][1] = 1 /\ l[Len(l)][2] = Len(text)
               /\ \A i \in 1..Len(l) : l[i] \in Nat \X Nat /\ CutsWell(l, text, max, overlap, i)
<1> DEFINE n == Len(text)
           start == [closed |-> <<>>, first |-> 1, last |-> 0]
           Is(g) == g = [p \in 0..n |-> IF p = 0 THEN start ELSE AddParagraph(g[p - 1], p, text, max, overlap)]
           open == CHOOSE g : Is(g)
           f == [x \in (1..n) \X Windows |->
                    IF Covers(x[2], x[1] - 1, text, max, overlap)
                    THEN AddParagraph(x[2], x[1], text, max, overlap) ELSE x[2]]
<1>1. n \in Nat
    OBVIOUS
<1>2. SplitWithOverlap(text, max, overlap) = AllWindows(open[n])
    BY Zenon DEF SplitWithOverlap, AllWindows
<1>3. start \in Windows /\ Covers(start, 0, text, max, overlap)
    <2>1. Covers(start, 0, text, max, overlap)
        BY NoWindows
    <2> QED
        BY <2>1 DEF Covers
<1>4. \A k \in 1..n, x \in Windows :
          f[<<k, x>>] = IF Covers(x, k - 1, text, max, overlap) THEN AddParagraph(x, k, text, max, overlap) ELSE x
    OBVIOUS
<1>5. ASSUME NEW k \in 1..n, NEW x, Covers(x, k - 1, text, max, overlap)
      PROVE  Covers(AddParagraph(x, k, text, max, overlap), k, text, max, overlap)
    BY <1>5, AddCovers
<1>6. \A k \in 1..n, x \in Windows :
          Covers(x, k - 1, text, max, overlap) => AddParagraph(x, k, text, max, overlap) \in Windows
    BY <1>5 DEF Covers
<1> HIDE DEF f, start
<1>7. PICK g : Recursion(g, Windows, start, n, f)
    <2>1. Stays(f, Windows, n)
        BY <1>4, <1>6 DEF Stays
    <2>2. n \in Nat /\ start \in Windows
        BY <1>1, <1>3
    <2> HIDE DEF n
    <2>3. \E g : Recursion(g, Windows, start, n, f)
        BY <2>1, <2>2, RecursionExists
    <2> QED
        BY <2>3
<1> HIDE DEF n, open
<1>8. g \in [0..n -> Windows] /\ g[0] = start /\ \A k \in 1..n : g[k] = f[<<k, g[k - 1]>>]
    BY <1>7 DEF Recursion
<1>9. \A k \in 1..n : k - 1 \in 0..n /\ k \in 0..n /\ k # 0
    BY <1>1
<1>10. \A k \in 1..n : Covers(g[k - 1], k - 1, text, max, overlap) =>
                          g[k] = AddParagraph(g[k - 1], k, text, max, overlap)
    BY <1>4, <1>8, <1>9
<1> DEFINE T == {k \in 0..n : Covers(g[k], k, text, max, overlap)}
<1>11. 0 \in T
    <2>1. 0 \in 0..n
        BY <1>1
    <2> QED
        BY <1>3, <1>8, <2>1
<1>12. ASSUME NEW k \in 0..(n - 1), k \in T PROVE k + 1 \in T
    <2>1. k + 1 \in 1..n /\ k + 1 \in 0..n /\ (k + 1) - 1 = k
        BY <1>1
    <2>2. Covers(g[(k + 1) - 1], (k + 1) - 1, text, max, overlap)
        BY <1>12, <2>1
    <2>3. Covers(g[k + 1], k + 1, text, max, overlap)
        BY <1>5, <1>10, <2>1, <2>2
    <2> QED
        BY <2>1, <2>3
<1> HIDE DEF T
<1>13. 0..n \subseteq T
    BY <1>1, <1>11, <1>12, UpTo
<1>14. \A k \in 0..n : Covers(g[k], k, text, max, overlap)
    BY <1>13 DEF T
<1>15. Is(g)
    <2>1. ASSUME NEW k \in 0..n
          PROVE  g[k] = IF k = 0 THEN start ELSE AddParagraph(g[k - 1], k, text, max, overlap)
        <3>1. CASE k = 0
            BY <1>8, <3>1
        <3>2. CASE k # 0
            <4>1. k \in 1..n
                BY <1>1, <3>2
            <4> QED
                BY <1>9, <1>10, <1>14, <3>2, <4>1
        <3> QED
            BY <3>1, <3>2
    <2>2. g = [k \in 0..n |-> g[k]]
        BY <1>8
    <2> QED
        BY <2>1, <2>2, Zenon
<1>16. Is(open)
    BY <1>15, Zenon DEF open
<1>17. DOMAIN open = 0..n /\ \A k \in 0..n :
           open[k] = IF k = 0 THEN start ELSE AddParagraph(open[k - 1], k, text, max, overlap)
    BY <1>16, Zenon
<1> HIDE DEF Is
<1> DEFINE U == {k \in 0..n : open[k] = g[k]}
<1>18. 0 \in U
    <2>1. 0 \in 0..n
        BY <1>1
    <2> QED
        BY <1>8, <1>17, <2>1
<1>19. ASSUME NEW k \in 0..(n - 1), k \in U PROVE k + 1 \in U
    <2>1. k + 1 \in 1..n /\ k + 1 \in 0..n /\ (k + 1) - 1 = k /\ k + 1 # 0 /\ k \in 0..n
        BY <1>1
    <2>2. open[k + 1] = AddParagraph(open[k], k + 1, text, max, overlap)
        BY <1>17, <2>1
    <2>3. g[k + 1] = AddParagraph(g[k], k + 1, text, max, overlap)
        BY <1>10, <1>14, <2>1
    <2> QED
        BY <1>19, <2>1, <2>2, <2>3
<1> HIDE DEF U
<1>20. 0..n \subseteq U
    BY <1>1, <1>18, <1>19, UpTo
<1>21. Covers(open[n], n, text, max, overlap)
    <2>1. n \in 0..n
        BY <1>1
    <2>2. open[n] = g[n]
        BY <1>20, <2>1 DEF U
    <2> QED
        BY <1>14, <2>1, <2>2
<1> DEFINE l == SplitWithOverlap(text, max, overlap)
           w == open[n]
<1>22. l = AllWindows(w)
    BY <1>2
<1> HIDE DEF l, w
<1>23. w \in Windows /\ w.last = n /\ l[1][1] = 1
    BY <1>21, <1>22 DEF Covers, w
<1>24. Len(l) = Len(w.closed) + 1 /\ Len(w.closed) \in Nat /\ l[Len(w.closed) + 1] = <<w.first, w.last>>
    BY <1>22, <1>23, AllOfWindows
<1>25. l \in Seq(Nat \X Nat)
    BY <1>22, <1>23, AllOfWindows
<1>26. DOMAIN l = 1..Len(l) /\ \A i \in 1..Len(l) : l[i] \in Nat \X Nat
    <2> DEFINE X == Nat \X Nat
    <2>1. l \in Seq(X)
        BY <1>25
    <2> HIDE DEF X
    <2>2. DOMAIN l = 1..Len(l) /\ \A i \in 1..Len(l) : l[i] \in X
        BY <2>1
    <2> QED
        BY <2>2 DEF X
<1>27. \A i \in 1..(Len(w.closed) + 1) : CutsWell(l, text, max, overlap, i)
    BY <1>21, <1>22 DEF Covers, w
<1>28. Len(l) \in Nat /\ Len(l) >= 1
    BY <1>24
<1>29. l[Len(l)][2] = n
    BY <1>23, <1>24
<1> QED
    BY <1>23, <1>24, <1>26, <1>27, <1>28, <1>29 DEF l, n

\* Paragraphs are no longer than four characters for every token of theirs, so that a text
\* is estimated at no more than its paragraphs together and what joins them.
LEMMA JoinedEstimate ==
    ASSUME NEW text \in Seq(Nat)
    PROVE  /\ Estimates(text) \in Seq(Nat) /\ Len(Estimates(text)) = Len(text)
           /\ Tokens(Estimates(text)) \in Nat
           /\ Estimate(TextLength(text, 0)) <= Tokens(Estimates(text)) + Len(text) \div 2
<1> DEFINE n == Len(text)
           e == Estimates(text)
           g == Sum(text)
           h == Sum(e)
<1>1. n \in Nat /\ \A k \in 1..n : text[k] \in Nat
    OBVIOUS
<1>2. \A k \in 1..n : Estimate(text[k]) \in Nat /\ text[k] <= 4 * Estimate(text[k])
    BY <1>1 DEF Estimate
<1>3. e \in Seq(Nat) /\ Len(e) = n /\ \A k \in 1..n : e[k] = Estimate(text[k])
    BY <1>1, <1>2 DEF Estimates
<1> HIDE DEF e, n
<1>4. g \in [0..n -> Nat] /\ g[0] = 0 /\ SumOf(text) = g[n] /\ \A k \in 1..n : g[k] = g[k - 1] + text[k]
    BY SumExists DEF n
<1>5. h \in [0..n -> Nat] /\ h[0] = 0 /\ Tokens(e) = h[n] /\ \A k \in 1..n : h[k] = h[k - 1] + e[k]
    BY <1>3, SumExists DEF Tokens
<1> HIDE DEF g, h
<1> DEFINE T == {k \in 0..n : g[k] <= 4 * h[k]}
<1>6. 0 \in T
    BY <1>1, <1>4, <1>5
<1>7. ASSUME NEW k \in 0..(n - 1), k \in T PROVE k + 1 \in T
    <2>1. k + 1 \in 1..n /\ k + 1 \in 0..n /\ (k + 1) - 1 = k /\ k \in 0..n
        BY <1>1
    <2>2. g[k + 1] = g[k] + text[k + 1] /\ h[k + 1] = h[k] + e[k + 1]
        BY <1>4, <1>5, <2>1
    <2>3. text[k + 1] \in Nat /\ e[k + 1] \in Nat /\ text[k + 1] <= 4 * e[k + 1]
        BY <1>1, <1>2, <1>3, <2>1
    <2>4. g[k] \in Nat /\ h[k] \in Nat /\ g[k] <= 4 * h[k]
        BY <1>4, <1>5, <1>7, <2>1
    <2>5. g[k + 1] <= 4 * h[k + 1]
        BY <2>2, <2>3, <2>4
    <2> QED
        BY <2>1, <2>5
<1> HIDE DEF T
<1>8. 0..n \subseteq T
    BY <1>1, <1>6, <1>7, UpTo
<1>9. g[n] \in Nat /\ h[n] \in Nat /\ g[n] <= 4 * h[n]
    <2>1. n \in 0..n
        BY <1>1
    <2>2. n \in T
        BY <1>8, <2>1
    <2> QED
        BY <1>4, <1>5, <2>1, <2>2 DEF T
<1>10. Estimate(TextLength(text, 0)) <= h[n] + n \div 2
    <2>1. TextLength(text, 0) = g[n] + IF n = 0 THEN 0 ELSE 2 * (n - 1)
        BY <1>1, <1>4 DEF TextLength, n
    <2> DEFINE x == g[n]
               y == h[n]
    <2>2. x \in Nat /\ y \in Nat /\ x <= 4 * y /\ n \in Nat
        BY <1>1, <1>9
    <2> HIDE DEF x, y
    <2>3. CASE n = 0
        <3>1. (x + 0 + 3) \div 4 <= y /\ y = y + 0 \div 2
            BY <2>2
        <3> QED
            BY <2>1, <2>3, <3>1 DEF Estimate, x, y
    <2>4. CASE n # 0
        <3>1. (x + 2 * (n - 1) + 3) \div 4 <= y + n \div 2
            BY <2>2, <2>4
        <3> QED
            BY <2>1, <2>4, <3>1 DEF Estimate, x, y
    <2> QED
        BY <2>3, <2>4
<1> QED
    BY <1>3, <1>5, <1>9, <1>10 DEF e, n

\* Whatever the lengths of its paragraphs and the limits, a section's chunks cover its text
\* in order, each goes beyond the one before it, and one that adds more than a single
\* paragraph to its overlap exceeds maxTokens by no more than what joins its paragraphs:
\* splitWithOverlap() loses no text and ends.
THEOREM ChunksCoverText ==
    ASSUME NEW text \in Seq(Nat), NEW blanks \in Nat, NEW max \in Nat, NEW overlap \in Nat
    PROVE  ChunksCover(text, blanks, max, overlap)
<1> DEFINE n == Len(text)
           e == Estimates(text)
           l == SectionChunks(text, blanks, max, overlap)
           Shared(i) == IF i = 1 THEN 0 ELSE l[i - 1][2] + 1 - l[i][1]
           Chunk(i) == SubSeq(text, l[i][1], l[i][2])
           New(i) == l[i][2] - l[i][1] + 1 - Shared(i)
           Small(i) == Estimate(TextLength(Chunk(i), 0)) <= max + Len(Chunk(i)) \div 2
<1>1. n \in Nat /\ e \in Seq(Nat) /\ Len(e) = n
    BY JoinedEstimate
<1>2. ASSUME NEW a \in 1..(n + 1), NEW b \in (a - 1)..n
      PROVE  /\ SubSeq(text, a, b) \in Seq(Nat) /\ Len(SubSeq(text, a, b)) = b + 1 - a
             /\ SubSeq(e, a, b) = Estimates(SubSeq(text, a, b))
    <2> DEFINE s == SubSeq(text, a, b)
               t == SubSeq(e, a, b)
    <2>1. /\ s \in Seq(Nat) /\ Len(s) = b + 1 - a
          /\ \A i \in 1..(b + 1 - a) : s[i] = text[a + i - 1]
        BY SliceTokens
    <2>2. /\ t \in Seq(Nat) /\ Len(t) = b + 1 - a
          /\ \A i \in 1..(b + 1 - a) : t[i] = e[a + i - 1]
        BY <1>1, SliceTokens
    <2> HIDE DEF s, t, e
    <2>3. Estimates(s) \in Seq(Nat) /\ Len(Estimates(s)) = b + 1 - a
        BY <2>1, JoinedEstimate
    <2>4. ASSUME NEW i \in 1..(b + 1 - a) PROVE t[i] = Estimates(s)[i]
        <3>1. a + i - 1 \in 1..n
            BY <1>1
        <3>2. e[a + i - 1] = Estimate(text[a + i - 1])
            BY <3>1 DEF e, Estimates, n
        <3>3. Estimates(s)[i] = Estimate(s[i])
            BY <2>1 DEF Estimates
        <3> QED
            BY <2>1, <2>2, <3>2, <3>3
    <2>5. t = Estimates(s)
        BY <2>2, <2>3, <2>4, SeqEqual
    <2> QED
        BY <2>1, <2>5 DEF s, t
<1>3. /\ Len(l) \in Nat /\ Len(l) >= 1 /\ DOMAIN l = 1..Len(l)
      /\ l[1][1] = 1 /\ l[Len(l)][2] = n
      /\ \A i \in 2..Len(l) : l[i][1] <= l[i - 1][2] + 1 /\ l[i - 1][2] < l[i][2]
      /\ \A i \in 1..Len(l) : /\ Tokens(SubSeq(e, l[i][1], l[i][1] + Shared(i) - 1)) <= overlap
                              /\ New(i) = 1 \/ Small(i)
    <2>1. CASE Estimate(TextLength(text, blanks)) <= max
        <3>1. l = <<<<1, n>>>>
            BY <2>1 DEF SectionChunks, n
        <3> HIDE DEF l
        <3>2. Len(l) = 1 /\ DOMAIN l = 1..1 /\ l[1] = <<1, n>> /\ 2..Len(l) = {} /\ 1..Len(l) = {1}
            BY <3>1
        <3>3. Shared(1) = 0
            OBVIOUS
        <3>4. Tokens(SubSeq(e, 1, 0)) = 0
            <4>1. 1 \in 1..(Len(e) + 1) /\ 0 \in (1 - 1)..Len(e) /\ 1 - 1 = 0
                BY <1>1
            <4>2. Tokens(SubSeq(e, 1, 0)) = Sum(e)[0] - Sum(e)[1 - 1]
                BY <1>1, <4>1, SliceTokens
            <4>3. Sum(e)[0] = 0
                BY <1>1, SumExists
            <4> QED
                BY <4>1, <4>2, <4>3
        <3>5. Chunk(1) = text
            BY <3>2, SubSeqFull DEF n
        <3>6. Estimate(TextLength(text, 0)) <= max + n \div 2
            <4> DEFINE x == SumOf(text)
            <4>1. x \in Nat
                BY SumExists
            <4>2. TextLength(text, 0) = x + IF n = 0 THEN 0 ELSE 2 * (n - 1)
                BY <1>1 DEF TextLength, n
            <4>3. TextLength(text, blanks) = x + IF n + blanks = 0 THEN 0 ELSE 2 * (n + blanks - 1)
                BY DEF TextLength, n
            <4> HIDE DEF x, n
            <4> DEFINE y == TextLength(text, 0)
                       z == TextLength(text, blanks)
            <4>4. y \in Nat /\ z \in Nat /\ y <= z
                BY <1>1, <4>1, <4>2, <4>3
            <4> HIDE DEF y, z
            <4>5. (y + 3) \div 4 <= (z + 3) \div 4 /\ (y + 3) \div 4 \in Nat /\ (z + 3) \div 4 \in Nat
                BY <4>4
            <4>6. n \div 2 \in Nat
                BY <1>1
            <4>7. Estimate(y) <= max /\ Estimate(y) \in Nat
                BY <2>1, <4>5 DEF Estimate, z
            <4> QED
                BY <4>6, <4>7 DEF y
        <3>7. Small(1)
            BY <3>5, <3>6 DEF n
        <3>8. Tokens(SubSeq(e, l[1][1], l[1][1] + Shared(1) - 1)) <= overlap
            <4>1. l[1][1] = 1 /\ 1 + 0 - 1 = 0
                BY <3>2
            <4> QED
                BY <3>3, <3>4, <4>1
        <3> HIDE DEF Shared, Chunk, New, Small, e
        <3> QED
            BY <3>2, <3>7, <3>8
    <2>2. CASE ~(Estimate(TextLength(text, blanks)) <= max)
        <3>1. l = SplitWithOverlap(e, max, overlap)
            BY <2>2 DEF SectionChunks
        <3> HIDE DEF l
        <3>2. /\ Len(l) \in Nat /\ Len(l) >= 1 /\ DOMAIN l = 1..Len(l)
              /\ l[1][1] = 1 /\ l[Len(l)][2] = n
              /\ \A i \in 1..Len(l) : l[i] \in Nat \X Nat /\ CutsWell(l, e, max, overlap, i)
            <4> HIDE DEF e, n
            <4> QED
                BY <1>1, <3>1, WindowsCutWell
        <3> HIDE DEF e, n
        <3>3. \A i : Shared(i) = Behind(l, i)
            BY Zenon DEF Behind
        <3> HIDE DEF Shared
        <3>4. ASSUME NEW i \in 1..Len(l)
              PROVE  /\ Tokens(SubSeq(e, l[i][1], l[i][1] + Shared(i) - 1)) <= overlap
                     /\ New(i) = 1 \/ Small(i)
            <4> DEFINE a == l[i][1]
                       b == l[i][2]
                       k == Len(Chunk(i))
                       tokens == Tokens(SubSeq(e, a, b))
            <4>1. /\ a \in Nat /\ b \in Nat /\ 1 <= a /\ a <= b + 1 /\ b <= n
                  /\ Tokens(SubSeq(e, a, a + Shared(i) - 1)) <= overlap
                  /\ tokens > max => b - a + 1 - Shared(i) = 1
                BY <1>1, <3>2, <3>3 DEF CutsWell
            <4>2. a \in 1..(n + 1) /\ b \in (a - 1)..n
                BY <1>1, <4>1
            <4>3. Chunk(i) \in Seq(Nat) /\ SubSeq(e, a, b) = Estimates(Chunk(i))
                BY <1>2, <4>2
            <4> HIDE DEF Chunk
            <4>4. tokens \in Nat /\ Estimate(TextLength(Chunk(i), 0)) <= tokens + k \div 2 /\ k \in Nat
                BY <4>3, JoinedEstimate
            <4>5. Estimate(TextLength(Chunk(i), 0)) \in Nat
                <5>1. TextLength(Chunk(i), 0) \in Nat
                    <6>1. SumOf(Chunk(i)) \in Nat
                        <7>1. Sum(Chunk(i)) \in [0..k -> Nat] /\ SumOf(Chunk(i)) = Sum(Chunk(i))[k]
                            BY <4>3, SumExists
                        <7>2. k \in 0..k
                            BY <4>4
                        <7> QED
                            BY <7>1, <7>2
                    <6> QED
                        BY <4>4, <6>1 DEF TextLength
                <5> QED
                    BY <5>1 DEF Estimate
            <4> DEFINE q == Estimate(TextLength(Chunk(i), 0))
            <4> HIDE DEF a, b, k, tokens, q
            <4>6. ~(tokens > max) => q <= max + k \div 2
                BY <4>4, <4>5 DEF q
            <4> QED
                BY <4>1, <4>6 DEF a, b, k, q
        <3> HIDE DEF New, Small
        <3>5. ASSUME NEW i \in 2..Len(l) PROVE l[i][1] <= l[i - 1][2] + 1 /\ l[i - 1][2] < l[i][2]
            <4>1. i \in 1..Len(l) /\ i # 1
                BY <3>2
            <4> QED
                BY <3>2, <4>1 DEF CutsWell
        <3> QED
            BY <3>2, <3>4, <3>5
    <2> QED
        BY <2>1, <2>2
<1> HIDE DEF l, e
<1> QED
    BY <1>3, Zenon DEF ChunksCover, l, e, n

-----------------------------------------------------------------------------
(* The subtree of a section                                                *)

LEMMA AncestorIsPointwise ==
    ASSUME NEW X, NEW a \in Seq(X), NEW s \in Seq(X)
    PROVE  IsAncestor(a, s) <=> Len(a) < Len(s) /\ \A k \in 1..Len(a) : a[k] = s[k]
<1>1. Len(a) \in Nat /\ Len(s) \in Nat
    OBVIOUS
<1>2. ASSUME Len(a) < Len(s)
      PROVE  SubSeq(s, 1, Len(a)) = a <=> \A k \in 1..Len(a) : a[k] = s[k]
    <2> DEFINE t == SubSeq(s, 1, Len(a))
    <2>1. \A i \in 1..Len(a) : s[i] \in X
        BY <1>1, <1>2
    <2>2. t \in Seq(X) /\ Len(t) = Len(a) /\ \A k \in 1..Len(a) : t[k] = s[k]
        <3>1. \A i \in 1..Len(a) : 1 + i - 1 = i
            BY <1>1
        <3> QED
            BY <1>1, <1>2, <2>1, <3>1, SubSeqProperties
    <2> HIDE DEF t
    <2>3. (\A k \in 1..Len(a) : a[k] = s[k]) => t = a
        BY <2>2, SeqEqual
    <2> QED
        BY <2>2, <2>3 DEF t
<1> QED
    BY <1>2 DEF IsAncestor

LEMMA AncestorsAreOrdered ==
    ASSUME NEW X, NEW a \in Seq(X), NEW b \in Seq(X), NEW s \in Seq(X), IsAncestor(b, s)
    PROVE  /\ IsAncestor(a, b) => IsAncestor(a, s)
           /\ IsAncestor(a, s) /\ Len(a) <= Len(b) => a = b \/ IsAncestor(a, b)
<1>1. Len(a) \in Nat /\ Len(b) \in Nat /\ Len(s) \in Nat
    OBVIOUS
<1>2. Len(b) < Len(s) /\ \A k \in 1..Len(b) : b[k] = s[k]
    BY AncestorIsPointwise
<1>3. ASSUME IsAncestor(a, b) PROVE IsAncestor(a, s)
    <2>1. Len(a) < Len(b) /\ \A k \in 1..Len(a) : a[k] = b[k]
        BY <1>3, AncestorIsPointwise
    <2>2. \A k \in 1..Len(a) : k \in 1..Len(b)
        BY <1>1, <2>1
    <2>3. Len(a) < Len(s) /\ \A k \in 1..Len(a) : a[k] = s[k]
        BY <1>1, <1>2, <2>1, <2>2
    <2> QED
        BY <2>3, AncestorIsPointwise
<1>4. ASSUME IsAncestor(a, s), Len(a) <= Len(b) PROVE a = b \/ IsAncestor(a, b)
    <2>1. \A k \in 1..Len(a) : a[k] = s[k]
        BY <1>4, AncestorIsPointwise
    <2>2. \A k \in 1..Len(a) : k \in 1..Len(b)
        BY <1>1, <1>4
    <2>3. \A k \in 1..Len(a) : a[k] = b[k]
        BY <1>2, <2>1, <2>2
    <2>4. CASE Len(a) = Len(b)
        BY <2>3, <2>4, SeqEqual
    <2>5. CASE Len(a) # Len(b)
        <3>1. Len(a) < Len(b)
            BY <1>1, <1>4, <2>5
        <3> QED
            BY <2>3, <3>1, AncestorIsPointwise
    <2> QED
        BY <2>4, <2>5
<1> QED
    BY <1>3, <1>4

\* The inferred parent is the nearest heading above, if there is one.
LEMMA ParentIsNearest ==
    ASSUME NEW X, NEW slugs \in SUBSET Seq(X), <<>> \notin slugs, NEW s \in Seq(X)
    PROVE  \/ /\ InferParent(s, slugs) = <<>>
              /\ \A a \in slugs : ~IsAncestor(a, s)
           \/ /\ InferParent(s, slugs) \in slugs /\ InferParent(s, slugs) # <<>>
              /\ IsAncestor(InferParent(s, slugs), s)
              /\ \A a \in slugs : IsAncestor(a, s) => Len(a) <= Len(InferParent(s, slugs))
<1> DEFINE above == {a \in slugs : IsAncestor(a, s)}
           p == CHOOSE a \in above : \A b \in above : Len(a) >= Len(b)
<1>1. InferParent(s, slugs) = IF above = {} THEN <<>> ELSE p
    BY Zenon DEF InferParent
<1>2. CASE above = {}
    BY <1>1, <1>2
<1>3. CASE above # {}
    <2> DEFINE lens == {Len(a) : a \in above}
    <2>1. \A a \in above : Len(a) \in 0..Len(s) /\ a \in slugs /\ a \in Seq(X)
        <3> SUFFICES ASSUME NEW a \in slugs, IsAncestor(a, s) PROVE Len(a) \in 0..Len(s)
            OBVIOUS
        <3>1. Len(a) \in Nat /\ Len(s) \in Nat
            OBVIOUS
        <3> QED
            BY <3>1 DEF IsAncestor
    <2> HIDE DEF above
    <2>2. lens \in SUBSET (0..Len(s)) /\ lens # {}
        BY <1>3, <2>1
    <2>3. Len(s) \in Nat
        OBVIOUS
    <2> HIDE DEF lens
    <2>4. Max(lens) \in lens /\ \A k \in lens : k <= Max(lens)
        BY <2>2, <2>3, MaxIsLast
    <2>5. PICK a \in above : Len(a) = Max(lens)
        BY <2>4 DEF lens
    <2>6. \A b \in above : Len(b) <= Len(a)
        BY <2>4, <2>5 DEF lens
    <2>7. \A b \in above : Len(a) >= Len(b)
        BY <2>1, <2>6
    <2>8. p \in above /\ \A b \in above : Len(p) >= Len(b)
        BY <2>7
    <2> HIDE DEF p
    <2>9. \A b \in above : Len(b) <= Len(p)
        <3> SUFFICES ASSUME NEW b \in above PROVE Len(b) <= Len(p)
            OBVIOUS
        <3>1. Len(b) \in 0..Len(s) /\ Len(p) \in 0..Len(s) /\ Len(p) >= Len(b)
            BY <2>1, <2>8
        <3> QED
            BY <3>1
    <2>10. InferParent(s, slugs) = p
        BY <1>1, <1>3
    <2>11. p \in slugs /\ IsAncestor(p, s) /\ \A b \in slugs : IsAncestor(b, s) => Len(b) <= Len(p)
        BY <2>8, <2>9 DEF above
    <2> QED
        BY <2>10, <2>11
<1> QED
    BY <1>2, <1>3

\* The walk up the parents reaches the target from what is below it.
UpFrom(up, slug, target, slugs) ==
    up = [s \in slugs \cup {slug} |->
             \/ s = target
             \/ /\ s \in slugs /\ InferParent(s, slugs) # <<>>
                /\ up[InferParent(s, slugs)]]
IsBelow(s, target, slugs) == s = target \/ (s \in slugs /\ IsAncestor(target, s))

LEMMA BelowByParent ==
    ASSUME NEW X, NEW slugs \in SUBSET Seq(X), <<>> \notin slugs, NEW s \in Seq(X), NEW target \in slugs
    PROVE  IsBelow(s, target, slugs) <=>
               \/ s = target
               \/ /\ s \in slugs /\ InferParent(s, slugs) # <<>>
                  /\ IsBelow(InferParent(s, slugs), target, slugs)
<1> DEFINE p == InferParent(s, slugs)
<1> SUFFICES ASSUME s # target, s \in slugs
             PROVE  IsAncestor(target, s) <=> p # <<>> /\ (p = target \/ (p \in slugs /\ IsAncestor(target, p)))
    BY DEF IsBelow
<1> HIDE DEF p
<1>1. CASE p = <<>>
    BY <1>1, ParentIsNearest DEF p
<1>2. CASE p # <<>>
    <2>1. p \in slugs /\ IsAncestor(p, s) /\ (IsAncestor(target, s) => Len(target) <= Len(p))
        BY <1>2, ParentIsNearest DEF p
    <2>2. p \in Seq(X) /\ target \in Seq(X)
        BY <2>1
    <2>3. IsAncestor(target, p) => IsAncestor(target, s)
        BY <2>1, <2>2, AncestorsAreOrdered
    <2>4. IsAncestor(target, s) => target = p \/ IsAncestor(target, p)
        BY <2>1, <2>2, AncestorsAreOrdered
    <2> QED
        BY <1>2, <2>1, <2>3, <2>4
<1> QED
    BY <1>1, <1>2

LEMMA ReachesIsBelow ==
    ASSUME NEW X, NEW slugs \in SUBSET Seq(X), <<>> \notin slugs, NEW slug \in Seq(X), NEW target \in slugs
    PROVE  Reaches(slug, target, slugs) <=> IsBelow(slug, target, slugs)
<1> DEFINE D == slugs \cup {slug}
           P(s) == InferParent(s, slugs)
           up == CHOOSE g : UpFrom(g, slug, target, slugs)
           below == [s \in D |-> IsBelow(s, target, slugs)]
<1>1. Reaches(slug, target, slugs) = up[slug]
    BY Zenon DEF Reaches, UpFrom
<1>2. \A s \in D : s \in Seq(X)
    OBVIOUS
<1>3. \A s \in slugs : P(s) # <<>> => P(s) \in slugs /\ P(s) \in D /\ IsAncestor(P(s), s)
    <2> SUFFICES ASSUME NEW s \in slugs, P(s) # <<>>
                 PROVE  P(s) \in slugs /\ IsAncestor(P(s), s)
        OBVIOUS
    <2>1. s \in Seq(X)
        OBVIOUS
    <2> QED
        BY <2>1, ParentIsNearest
<1>4. \A s \in D : IsBelow(s, target, slugs) <=>
          \/ s = target
          \/ s \in slugs /\ P(s) # <<>> /\ IsBelow(P(s), target, slugs)
    BY <1>2, BelowByParent
<1> HIDE DEF D, P, up
<1>5. UpFrom(below, slug, target, slugs)
    <2>1. ASSUME NEW s \in D
          PROVE  IsBelow(s, target, slugs) = (s = target \/ (s \in slugs /\ P(s) # <<>> /\ below[P(s)]))
        <3>1. s \in slugs /\ P(s) # <<>> => below[P(s)] = IsBelow(P(s), target, slugs)
            BY <1>3
        <3>2. IsBelow(s, target, slugs) \in BOOLEAN
            BY DEF IsBelow
        <3> HIDE DEF below
        <3> QED
            BY <1>4, <3>1, <3>2
    <2>2. below = [s \in D |-> s = target \/ (s \in slugs /\ P(s) # <<>> /\ below[P(s)])]
        BY <2>1
    <2> QED
        BY <2>2, Zenon DEF UpFrom, D, P
<1>6. UpFrom(up, slug, target, slugs)
    BY <1>5, Zenon DEF up
<1>7. \A s \in D : up[s] = (s = target \/ (s \in slugs /\ P(s) # <<>> /\ up[P(s)]))
    <2>1. up = [s \in D |-> s = target \/ (s \in slugs /\ P(s) # <<>> /\ up[P(s)])]
        BY <1>6, Zenon DEF UpFrom, D, P
    <2> QED
        BY <2>1, Zenon
<1> DEFINE T == {n \in Nat : \A s \in D : Len(s) < n => (up[s] <=> IsBelow(s, target, slugs))}
<1>8. 0 \in T
    <2>1. \A s \in D : Len(s) \in Nat
        BY <1>2
    <2>2. \A s \in D : ~(Len(s) < 0)
        BY <2>1
    <2> QED
        BY <2>2
<1>9. ASSUME NEW n \in T PROVE n + 1 \in T
    <2>1. n \in Nat /\ \A s \in D : Len(s) < n => (up[s] <=> IsBelow(s, target, slugs))
        OBVIOUS
    <2>2. ASSUME NEW s \in D, Len(s) < n + 1 PROVE up[s] <=> IsBelow(s, target, slugs)
        <3>1. ASSUME s \in slugs, P(s) # <<>> PROVE up[P(s)] <=> IsBelow(P(s), target, slugs)
            <4>1. P(s) \in D /\ Len(P(s)) < Len(s)
                BY <1>3, <3>1 DEF IsAncestor
            <4>2. Len(P(s)) \in Nat /\ Len(s) \in Nat
                BY <1>2, <4>1
            <4>3. Len(P(s)) < n
                BY <2>1, <2>2, <4>1, <4>2
            <4> QED
                BY <2>1, <4>1, <4>3
        <3>2. up[s] <=> (s = target \/ (s \in slugs /\ P(s) # <<>> /\ up[P(s)]))
            BY <1>7
        <3> QED
            BY <1>4, <3>1, <3>2, Zenon
    <2>3. n + 1 \in Nat
        BY <2>1
    <2> QED
        BY <2>2, <2>3
<1>10. T = Nat
    <2>1. T \in SUBSET Nat
        OBVIOUS
    <2> HIDE DEF T
    <2> QED
        BY <1>8, <1>9, <2>1, NaturalsByStep
<1>11. up[slug] <=> IsBelow(slug, target, slugs)
    <2>1. Len(slug) + 1 \in Nat /\ Len(slug) < Len(slug) + 1 /\ slug \in D
        BY DEF D
    <2>2. Len(slug) + 1 \in T
        BY <1>10, <2>1
    <2> QED
        BY <2>1, <2>2
<1> QED
    BY <1>1, <1>11

\* Whatever headings a page has, subtreeFor() returns the nodes of the sections at and below
\* the target and no other, although parents are only inferred from the slugs.
THEOREM SubtreeIsExact ==
    ASSUME NEW X, NEW slugs \in SUBSET Seq(X), <<>> \notin slugs,
           NEW nodes, ToSet(nodes) \subseteq Seq(X), NEW target
    PROVE  IsSubtree(slugs, nodes, target)
<1>1. CASE target \notin slugs
    BY <1>1 DEF IsSubtree, SubtreeFor
<1>2. CASE target \in slugs
    <2>1. \A s \in ToSet(nodes) : Reaches(s, target, slugs) <=> IsBelow(s, target, slugs)
        BY <1>2, ReachesIsBelow
    <2>2. {s \in ToSet(nodes) : Reaches(s, target, slugs)} = {s \in ToSet(nodes) : IsBelow(s, target, slugs)}
        BY <2>1
    <2>3. SubtreeFor(slugs, nodes, target) = Within(nodes, {s \in ToSet(nodes) : IsBelow(s, target, slugs)})
        BY <1>2, <2>2 DEF SubtreeFor
    <2> QED
        BY <1>2, <2>3, Zenon DEF IsSubtree, IsBelow
<1> QED
    BY <1>1, <1>2

-----------------------------------------------------------------------------
(* The knowledge graph                                                     *)

\* What the nodes of a page add to the graph.
RawOf(repo, nodes) == UNION {OfNode(repo, nodes[i]) : i \in {i \in DOMAIN nodes : InSection(nodes, i)}}
EdgeOf(repo, raw, r) ==
    [src |-> r.src, dst |-> r.dst, type |-> r.type, repo |-> repo, kinds |-> KindsOf(raw, r) \ {"none"}]

LEMMA RawFields ==
    ASSUME NEW src, NEW dst, NEW type, NEW kind
    PROVE  /\ Raw(src, dst, type, kind).src = src /\ Raw(src, dst, type, kind).dst = dst
           /\ Raw(src, dst, type, kind).type = type /\ Raw(src, dst, type, kind).kind = kind
BY DEF Raw

\* The kinds of an edge, by the node it comes from.
LEMMA RawCases ==
    ASSUME NEW repo, NEW n, NEW r \in OfNode(repo, n)
    PROVE  \/ /\ n.type \in {"code", "blob"} /\ r.type = "code_ref" /\ r.src = <<repo, n.section>>
              /\ r.dst = <<"file", n.repo, n.path>> /\ r.kind = "none"
           \/ /\ n.type \in {"code", "blob"} /\ n.repo # repo /\ r.type = "cross_repo_ref"
              /\ r.src = <<repo, n.section>> /\ r.dst = <<n.repo>>
              /\ r.kind = IF n.type = "code" THEN "code_block" ELSE "prose_link"
           \/ /\ n.type = "link" /\ n.repo # repo /\ r.type = "cross_repo_ref"
              /\ r.src = <<repo, n.section>> /\ r.dst = <<n.repo>> /\ r.kind = "anchor_link"
           \/ /\ n.type = "link" /\ n.repo = repo /\ n.anchor # "" /\ r.type = "section_link"
              /\ r.src = <<repo, n.section>> /\ r.dst = <<repo, n.anchor>> /\ r.kind = "none"
           \/ /\ n.type = "diagram" /\ r.type = "diagram_member" /\ r.src = <<repo, n.section>>
              /\ \E d \in n.ids \ BadIds : r.dst = <<repo, n.section, d>>
           \/ /\ n.type = "diagram" /\ r.type = "diagram_edge"
              /\ \E a \in n.arrows : /\ a[1] \in n.ids \ BadIds /\ a[2] \in n.ids \ BadIds
                                     /\ r.src = <<repo, n.section, a[1]>> /\ r.dst = <<repo, n.section, a[2]>>
<1>1. CASE n.type = "code"
    <2>1. r \in FileLink(repo, n.section, n.repo, n.path, "code_block")
        BY <1>1 DEF OfNode
    <2>2. \/ r = Raw(<<repo, n.section>>, <<"file", n.repo, n.path>>, "code_ref", "none")
          \/ n.repo # repo /\ r = Raw(<<repo, n.section>>, <<n.repo>>, "cross_repo_ref", "code_block")
        BY <2>1, Zenon DEF FileLink
    <2>3. CASE r = Raw(<<repo, n.section>>, <<"file", n.repo, n.path>>, "code_ref", "none")
        BY <1>1, <2>3, RawFields
    <2>4. CASE n.repo # repo /\ r = Raw(<<repo, n.section>>, <<n.repo>>, "cross_repo_ref", "code_block")
        <3>1. r.type = "cross_repo_ref" /\ r.src = <<repo, n.section>> /\ r.dst = <<n.repo>> /\ r.kind = "code_block"
            BY <2>4, RawFields
        <3> QED
            BY <1>1, <2>4, <3>1
    <2> QED
        BY <2>2, <2>3, <2>4
<1>2. CASE n.type = "blob"
    <2>1. r \in FileLink(repo, n.section, n.repo, n.path, "prose_link")
        BY <1>2 DEF OfNode
    <2>2. \/ r = Raw(<<repo, n.section>>, <<"file", n.repo, n.path>>, "code_ref", "none")
          \/ n.repo # repo /\ r = Raw(<<repo, n.section>>, <<n.repo>>, "cross_repo_ref", "prose_link")
        BY <2>1, Zenon DEF FileLink
    <2>3. CASE r = Raw(<<repo, n.section>>, <<"file", n.repo, n.path>>, "code_ref", "none")
        BY <1>2, <2>3, RawFields
    <2>4. CASE n.repo # repo /\ r = Raw(<<repo, n.section>>, <<n.repo>>, "cross_repo_ref", "prose_link")
        <3>1. r.type = "cross_repo_ref" /\ r.src = <<repo, n.section>> /\ r.dst = <<n.repo>> /\ r.kind = "prose_link"
            BY <2>4, RawFields
        <3> QED
            BY <1>2, <2>4, <3>1
    <2> QED
        BY <2>2, <2>3, <2>4
<1>3. CASE n.type = "link"
    <2>1. r \in WikiLink(repo, n.section, n.repo, n.anchor)
        BY <1>3 DEF OfNode
    <2>2. CASE n.repo # repo
        <3>1. r = Raw(<<repo, n.section>>, <<n.repo>>, "cross_repo_ref", "anchor_link")
            BY <2>1, <2>2 DEF WikiLink
        <3>2. r.type = "cross_repo_ref" /\ r.src = <<repo, n.section>> /\ r.dst = <<n.repo>> /\ r.kind = "anchor_link"
            BY <3>1, RawFields
        <3> QED
            BY <1>3, <2>2, <3>2
    <2>3. CASE n.repo = repo /\ n.anchor # ""
        <3>1. r = Raw(<<repo, n.section>>, <<repo, n.anchor>>, "section_link", "none")
            BY <2>1, <2>3 DEF WikiLink
        <3>2. r.type = "section_link" /\ r.src = <<repo, n.section>> /\ r.dst = <<repo, n.anchor>> /\ r.kind = "none"
            BY <3>1, RawFields
        <3> QED
            BY <1>3, <2>3, <3>2
    <2>4. CASE n.repo = repo /\ n.anchor = ""
        BY <2>1, <2>4 DEF WikiLink
    <2> QED
        BY <2>2, <2>3, <2>4
<1>4. CASE n.type = "diagram"
    <2> DEFINE valid == n.ids \ BadIds
    <2>1. r \in Diagram(repo, n.section, n)
        BY <1>4 DEF OfNode
    <2>2. \/ \E d \in valid : r = Raw(<<repo, n.section>>, <<repo, n.section, d>>, "diagram_member", "none")
          \/ \E a \in n.arrows : /\ a[1] \in valid /\ a[2] \in valid
                                 /\ r = Raw(<<repo, n.section, a[1]>>, <<repo, n.section, a[2]>>, "diagram_edge", "none")
        BY <2>1, Zenon DEF Diagram
    <2> HIDE DEF valid
    <2>3. CASE \E d \in valid : r = Raw(<<repo, n.section>>, <<repo, n.section, d>>, "diagram_member", "none")
        BY <1>4, <2>3, RawFields DEF valid
    <2>4. CASE \E a \in n.arrows : /\ a[1] \in valid /\ a[2] \in valid
                                   /\ r = Raw(<<repo, n.section, a[1]>>, <<repo, n.section, a[2]>>, "diagram_edge", "none")
        BY <1>4, <2>4, RawFields DEF valid
    <2> QED
        BY <2>2, <2>3, <2>4
<1>5. CASE n.type \notin {"code", "blob", "link", "diagram"}
    BY <1>5 DEF OfNode
<1> QED
    BY <1>1, <1>2, <1>3, <1>4, <1>5

\* What each kind of node adds.
LEMMA RawOfLink ==
    ASSUME NEW repo, NEW n, n.type = "link", n.repo = repo, n.anchor # ""
    PROVE  Raw(<<repo, n.section>>, <<repo, n.anchor>>, "section_link", "none") \in OfNode(repo, n)
<1>1. OfNode(repo, n) = WikiLink(repo, n.section, n.repo, n.anchor)
    BY DEF OfNode
<1>2. WikiLink(repo, n.section, n.repo, n.anchor)
          = {Raw(<<repo, n.section>>, <<repo, n.anchor>>, "section_link", "none")}
    BY DEF WikiLink
<1> QED
    BY <1>1, <1>2

KindOfLink(type) == IF type = "code" THEN "code_block" ELSE IF type = "blob" THEN "prose_link" ELSE "anchor_link"

LEMMA RawOfCross ==
    ASSUME NEW repo, NEW n, n.repo # repo, n.type \in {"code", "blob", "link"}
    PROVE  Raw(<<repo, n.section>>, <<n.repo>>, "cross_repo_ref", KindOfLink(n.type)) \in OfNode(repo, n)
<1>1. CASE n.type = "code"
    <2>1. OfNode(repo, n) = FileLink(repo, n.section, n.repo, n.path, "code_block")
        BY <1>1 DEF OfNode
    <2>2. Raw(<<repo, n.section>>, <<n.repo>>, "cross_repo_ref", "code_block")
              \in FileLink(repo, n.section, n.repo, n.path, "code_block")
        BY DEF FileLink
    <2> QED
        BY <1>1, <2>1, <2>2 DEF KindOfLink
<1>2. CASE n.type = "blob"
    <2>1. OfNode(repo, n) = FileLink(repo, n.section, n.repo, n.path, "prose_link")
        BY <1>2 DEF OfNode
    <2>2. Raw(<<repo, n.section>>, <<n.repo>>, "cross_repo_ref", "prose_link")
              \in FileLink(repo, n.section, n.repo, n.path, "prose_link")
        BY DEF FileLink
    <2> QED
        BY <1>2, <2>1, <2>2 DEF KindOfLink
<1>3. CASE n.type = "link"
    <2>1. OfNode(repo, n) = WikiLink(repo, n.section, n.repo, n.anchor)
        BY <1>3 DEF OfNode
    <2>2. WikiLink(repo, n.section, n.repo, n.anchor)
              = {Raw(<<repo, n.section>>, <<n.repo>>, "cross_repo_ref", "anchor_link")}
        BY DEF WikiLink
    <2> QED
        BY <1>3, <2>1, <2>2 DEF KindOfLink
<1> QED
    BY <1>1, <1>2, <1>3

LEMMA RawOfMember ==
    ASSUME NEW repo, NEW n, n.type = "diagram", NEW d \in n.ids \ BadIds
    PROVE  Raw(<<repo, n.section>>, <<repo, n.section, d>>, "diagram_member", "none") \in OfNode(repo, n)
<1>1. OfNode(repo, n) = Diagram(repo, n.section, n)
    BY DEF OfNode
<1>2. Raw(<<repo, n.section>>, <<repo, n.section, d>>, "diagram_member", "none") \in Diagram(repo, n.section, n)
    BY Zenon DEF Diagram
<1> QED
    BY <1>1, <1>2

LEMMA RawOfArrow ==
    ASSUME NEW repo, NEW n, NEW r \in OfNode(repo, n), r.type = "diagram_edge"
    PROVE  n.type = "diagram" /\ \E x, y \in n.ids \ BadIds :
               r.src = <<repo, n.section, x>> /\ r.dst = <<repo, n.section, y>>
<1>1. /\ n.type = "diagram"
      /\ \E a \in n.arrows : /\ a[1] \in n.ids \ BadIds /\ a[2] \in n.ids \ BadIds
                             /\ r.src = <<repo, n.section, a[1]>> /\ r.dst = <<repo, n.section, a[2]>>
    BY RawCases
<1> QED
    BY <1>1, Zenon

LEMMA EdgesOfRaw ==
    ASSUME NEW repo, NEW nodes
    PROVE  Extract(repo, nodes) = {EdgeOf(repo, RawOf(repo, nodes), r) : r \in RawOf(repo, nodes)}
BY Zenon DEF Extract, RawOf, EdgeOf

LEMMA EdgeFields ==
    ASSUME NEW repo, NEW raw, NEW r
    PROVE  /\ EdgeOf(repo, raw, r).src = r.src /\ EdgeOf(repo, raw, r).dst = r.dst
           /\ EdgeOf(repo, raw, r).type = r.type /\ EdgeOf(repo, raw, r).repo = repo
           /\ EdgeOf(repo, raw, r).kinds = KindsOf(raw, r) \ {"none"}
BY DEF EdgeOf

\* A page is a list of nodes, whose diagrams are finite; a graph holds, for this page, what
\* was read off it.
IsPage(nodes) ==
    /\ IsFiniteSet(DOMAIN nodes)
    /\ \A i \in DOMAIN nodes :
          nodes[i].type = "diagram" => IsFiniteSet(nodes[i].ids) /\ IsFiniteSet(nodes[i].arrows)
IsGraph(edges, repo, nodes) == IsFiniteSet(edges) /\ {e \in edges : e.repo = repo} = Extract(repo, nodes)

LEMMA ValuesAreFinite ==
    ASSUME NEW S, IsFiniteSet(S), NEW g
    PROVE  IsFiniteSet({g[x] : x \in S})
<1> DEFINE h == [x \in S |-> g[x]]
           T == {g[x] : x \in S}
<1>1. h \in Surjection(S, T)
    BY DEF Surjection
<1> HIDE DEF h, T
<1>2. IsFiniteSet(T)
    BY <1>1, FS_Surjection
<1> QED
    BY <1>2 DEF T

LEMMA GraphIsFinite ==
    ASSUME NEW repo, NEW nodes, IsPage(nodes)
    PROVE  IsFiniteSet(Extract(repo, nodes))
<1>1. ASSUME NEW i \in DOMAIN nodes PROVE IsFiniteSet(OfNode(repo, nodes[i]))
    <2> DEFINE n == nodes[i]
    <2>1. \A x, y : IsFiniteSet({x}) /\ IsFiniteSet({x} \cup {y}) /\ IsFiniteSet({x} \cup {})
        BY FS_Singleton, FS_EmptySet, FS_Union
    <2>2. \A to, path, kind : IsFiniteSet(FileLink(repo, n.section, to, path, kind))
        BY <2>1, Zenon DEF FileLink
    <2>3. \A to, anchor : IsFiniteSet(WikiLink(repo, n.section, to, anchor))
        BY <2>1, FS_EmptySet DEF WikiLink
    <2>4. ASSUME n.type = "diagram" PROVE IsFiniteSet(Diagram(repo, n.section, n))
        <3> DEFINE valid == n.ids \ BadIds
                   arrows == {a \in n.arrows : a[1] \in valid /\ a[2] \in valid}
                   f == [d \in valid |-> Raw(<<repo, n.section>>, <<repo, n.section, d>>, "diagram_member", "none")]
                   g == [a \in arrows |-> Raw(<<repo, n.section, a[1]>>, <<repo, n.section, a[2]>>, "diagram_edge", "none")]
        <3>1. IsFiniteSet(valid) /\ IsFiniteSet(arrows)
            BY <2>4, FS_Subset DEF IsPage
        <3>2. Diagram(repo, n.section, n) = {f[d] : d \in valid} \cup {g[a] : a \in arrows}
            BY Zenon DEF Diagram
        <3> HIDE DEF valid, arrows, f, g
        <3>3. IsFiniteSet({f[d] : d \in valid})
            BY <3>1, ValuesAreFinite
        <3>4. IsFiniteSet({g[a] : a \in arrows})
            BY <3>1, ValuesAreFinite
        <3> QED
            BY <3>2, <3>3, <3>4, FS_Union
    <2> QED
        BY <2>2, <2>3, <2>4, FS_EmptySet DEF OfNode
<1> DEFINE here == {i \in DOMAIN nodes : InSection(nodes, i)}
           f == [i \in here |-> OfNode(repo, nodes[i])]
           raw == RawOf(repo, nodes)
           g == [r \in raw |-> EdgeOf(repo, raw, r)]
<1>2. IsFiniteSet(here)
    BY FS_Subset DEF IsPage
<1>3. raw = UNION {f[i] : i \in here}
    BY DEF RawOf
<1>4. Extract(repo, nodes) = {g[r] : r \in raw}
    BY EdgesOfRaw
<1>5. \A i \in here : IsFiniteSet(f[i])
    BY <1>1
<1> HIDE DEF here, raw
<1> HIDE DEF f, g
<1>6. IsFiniteSet({f[i] : i \in here})
    BY <1>2, ValuesAreFinite
<1>7. IsFiniteSet(raw)
    BY <1>3, <1>5, <1>6, FS_UNION
<1>8. IsFiniteSet({g[r] : r \in raw})
    BY <1>7, ValuesAreFinite
<1> QED
    BY <1>4, <1>8

\* An edge of the page, with the link or the part of a diagram that it was made from.
EdgeFrom(e, repo, nodes, i, r) ==
    /\ InSection(nodes, i) /\ r \in OfNode(repo, nodes[i])
    /\ e.repo = repo /\ e.src = r.src /\ e.dst = r.dst /\ e.type = r.type
    /\ e.kinds = KindsOf(RawOf(repo, nodes), r) \ {"none"}

LEMMA EdgesOfGraph ==
    ASSUME NEW repo, NEW nodes, NEW edges, IsGraph(edges, repo, nodes)
    PROVE  /\ \A e \in edges : e.repo = repo => \E i \in DOMAIN nodes : \E r : EdgeFrom(e, repo, nodes, i, r)
           /\ \A i \in DOMAIN nodes : InSection(nodes, i) =>
                  \A r \in OfNode(repo, nodes[i]) : \E e \in edges : EdgeFrom(e, repo, nodes, i, r)
<1> DEFINE raw == RawOf(repo, nodes)
<1>1. \A r : r \in raw <=> \E i \in DOMAIN nodes : InSection(nodes, i) /\ r \in OfNode(repo, nodes[i])
    BY Zenon DEF RawOf
<1>2. Extract(repo, nodes) = {EdgeOf(repo, raw, r) : r \in raw}
    BY EdgesOfRaw
<1>3. \A e : e \in edges /\ e.repo = repo <=> e \in Extract(repo, nodes)
    BY DEF IsGraph
<1>4. \A i, r : InSection(nodes, i) /\ r \in OfNode(repo, nodes[i]) => EdgeFrom(EdgeOf(repo, raw, r), repo, nodes, i, r)
    <2> TAKE i, r
    <2>1. LET e == EdgeOf(repo, raw, r)
          IN  e.repo = repo /\ e.src = r.src /\ e.dst = r.dst /\ e.type = r.type /\ e.kinds = KindsOf(raw, r) \ {"none"}
        BY EdgeFields
    <2> QED
        BY <2>1, Zenon DEF EdgeFrom
<1> HIDE DEF raw
<1>5. \A e \in edges : e.repo = repo => \E i \in DOMAIN nodes : \E r : EdgeFrom(e, repo, nodes, i, r)
    <2> TAKE e \in edges
    <2> HAVE e.repo = repo
    <2>1. PICK r \in raw : e = EdgeOf(repo, raw, r)
        BY <1>2, <1>3
    <2>2. PICK i \in DOMAIN nodes : InSection(nodes, i) /\ r \in OfNode(repo, nodes[i])
        BY <1>1
    <2> QED
        BY <1>4, <2>1, <2>2, Zenon
<1>6. \A i \in DOMAIN nodes : InSection(nodes, i) =>
          \A r \in OfNode(repo, nodes[i]) : \E e \in edges : EdgeFrom(e, repo, nodes, i, r)
    <2> TAKE i \in DOMAIN nodes
    <2> HAVE InSection(nodes, i)
    <2> TAKE r \in OfNode(repo, nodes[i])
    <2>1. EdgeOf(repo, raw, r) \in edges
        BY <1>1, <1>2, <1>3, Zenon
    <2> QED
        BY <1>4, <2>1, Zenon
<1> QED
    BY <1>5, <1>6

LEMMA TuplesMatch ==
    ASSUME NEW a, NEW b, NEW c, NEW d, NEW e, NEW f
    PROVE  /\ <<a>> = <<b>> => a = b
           /\ <<a, b>> = <<c, d>> => a = c /\ b = d
           /\ <<a, b, c>> = <<d, e, f>> => a = d /\ b = e /\ c = f
OBVIOUS

LEMMA NeighborFields ==
    ASSUME NEW type, NEW direction, NEW id, NEW from
    PROVE  /\ Neighbor(type, direction, id, from).type = type
           /\ Neighbor(type, direction, id, from).direction = direction
           /\ Neighbor(type, direction, id, from).id = id /\ Neighbor(type, direction, id, from).from = from
BY DEF Neighbor

LEMMA AnswersAreListed ==
    ASSUME NEW E, IsFiniteSet(E)
    PROVE  /\ IsFiniteSet({Neighbor(e.type, "in", e.src, <<>>) : e \in E})
           /\ IsFiniteSet({Neighbor(e.type, "out", e.dst, <<>>) : e \in E})
           /\ IsFiniteSet({Neighbor("diagram_edge", "out", e.dst, e.src) : e \in E})
<1> DEFINE f == [e \in E |-> Neighbor(e.type, "in", e.src, <<>>)]
           g == [e \in E |-> Neighbor(e.type, "out", e.dst, <<>>)]
           h == [e \in E |-> Neighbor("diagram_edge", "out", e.dst, e.src)]
<1>1. /\ {Neighbor(e.type, "in", e.src, <<>>) : e \in E} = {f[e] : e \in E}
      /\ {Neighbor(e.type, "out", e.dst, <<>>) : e \in E} = {g[e] : e \in E}
      /\ {Neighbor("diagram_edge", "out", e.dst, e.src) : e \in E} = {h[e] : e \in E}
    BY Zenon
<1> HIDE DEF f, g, h
<1>2. IsFiniteSet({f[e] : e \in E})
    BY ValuesAreFinite
<1>3. IsFiniteSet({g[e] : e \in E})
    BY ValuesAreFinite
<1>4. IsFiniteSet({h[e] : e \in E})
    BY ValuesAreFinite
<1> QED
    BY <1>1, <1>2, <1>3, <1>4

LEMMA IdsOfSet ==
    ASSUME NEW answer, NEW way
    PROVE  IdsOf(answer, way) = {n.id : n \in {n \in ToSet(answer) : n.direction = way}}
BY Zenon DEF IdsOf, ToSet

\* A section's links, whichever end is asked.
HasLink(edges, repo, a, b) ==
    \E e \in edges : e.type = "section_link" /\ e.repo = repo /\ e.src = <<repo, a>> /\ e.dst = <<repo, b>>

LEMMA LinksOfSection ==
    ASSUME NEW edges, IsFiniteSet(edges), NEW repo, NEW s
    PROVE  /\ \A b : <<repo, b>> \in IdsOf(SectionLinks(edges, repo, s, "out"), "out") <=> HasLink(edges, repo, s, b)
           /\ \A a : <<repo, a>> \in IdsOf(SectionLinks(edges, repo, s, "both"), "in") <=> HasLink(edges, repo, a, s)
<1> DEFINE links == {e \in edges : e.type = "section_link" /\ e.repo = repo}
           O == {e \in links : e.src = <<repo, s>>}
           I == {e \in links : e.dst = <<repo, s>>}
           T == {Neighbor(e.type, "out", e.dst, <<>>) : e \in O}
           S == {Neighbor(e.type, "in", e.src, <<>>) : e \in I}
           X == T \cup S
<1>1. IsFiniteSet(T) /\ IsFiniteSet(S)
    <2>1. IsFiniteSet(O) /\ IsFiniteSet(I)
        BY FS_Subset
    <2> HIDE DEF O, I
    <2> QED
        BY <2>1, AnswersAreListed
<1>2. Targets(O) = SetToSeq(T) /\ Sources(I) = SetToSeq(S)
    BY Zenon DEF Targets, Sources
<1>3. Wants("out", "out") /\ ~Wants("out", "in") /\ Wants("both", "out") /\ Wants("both", "in")
    BY DEF Wants
<1>4. /\ SectionLinks(edges, repo, s, "out") = Targets(O) \o <<>>
      /\ SectionLinks(edges, repo, s, "both") = Targets(O) \o Sources(I)
    BY <1>3, Zenon DEF SectionLinks
<1>5. /\ \A n \in T : n.direction = "out" /\ \E e \in O : n.id = e.dst
      /\ \A n \in S : n.direction = "in" /\ \E e \in I : n.id = e.src
      /\ \A e \in O : \E n \in T : n.direction = "out" /\ n.id = e.dst
      /\ \A e \in I : \E n \in S : n.direction = "in" /\ n.id = e.src
    <2> HIDE DEF O, I
    <2>1. \A e : LET n == Neighbor(e.type, "out", e.dst, <<>>) IN n.direction = "out" /\ n.id = e.dst
        BY NeighborFields
    <2>2. \A e : LET n == Neighbor(e.type, "in", e.src, <<>>) IN n.direction = "in" /\ n.id = e.src
        BY NeighborFields
    <2> QED
        BY <2>1, <2>2, Zenon
<1> HIDE DEF links, O, I, T, S
<1>6. /\ SetToSeq(T) \in Seq(X) /\ SetToSeq(S) \in Seq(X) /\ <<>> \in Seq(X)
      /\ ToSet(SetToSeq(T)) = T /\ ToSet(SetToSeq(S)) = S
    <2>1. /\ SetToSeq(T) \in Seq(T) /\ SetToSeq(S) \in Seq(S)
          /\ ToSet(SetToSeq(T)) = T /\ ToSet(SetToSeq(S)) = S
        BY <1>1, SetAsSequence
    <2> QED
        BY <2>1
<1>7. ToSet(<<>>) = {}
    BY DEF ToSet
<1>8. ToSet(SectionLinks(edges, repo, s, "out")) = T /\ ToSet(SectionLinks(edges, repo, s, "both")) = T \cup S
    <2> DEFINE t == SetToSeq(T)
               u == SetToSeq(S)
               none == <<>>
    <2> HIDE DEF X, t, u, none
    <2>1. t \in Seq(X) /\ u \in Seq(X) /\ none \in Seq(X) /\ ToSet(t) = T /\ ToSet(u) = S /\ ToSet(none) = {}
        BY <1>6, <1>7 DEF t, u, none
    <2>2. ToSet(t \o none) = ToSet(t) \cup ToSet(none)
        BY <2>1, ConcatSet
    <2>3. ToSet(t \o u) = T \cup S
        BY <2>1, ConcatSet
    <2> QED
        BY <1>2, <1>4, <2>1, <2>2, <2>3 DEF t, u, none
<1>9. IdsOf(SectionLinks(edges, repo, s, "out"), "out") = {e.dst : e \in O}
    <2>1. IdsOf(SectionLinks(edges, repo, s, "out"), "out") = {n.id : n \in {n \in T : n.direction = "out"}}
        BY <1>8, IdsOfSet
    <2> QED
        BY <1>5, <2>1
<1>10. IdsOf(SectionLinks(edges, repo, s, "both"), "in") = {e.src : e \in I}
    <2>1. IdsOf(SectionLinks(edges, repo, s, "both"), "in") = {n.id : n \in {n \in T \cup S : n.direction = "in"}}
        BY <1>8, IdsOfSet
    <2> QED
        BY <1>5, <2>1
<1> QED
    BY <1>9, <1>10, Zenon DEF O, I, links, HasLink

\* The links of a section are those its text has, whichever end is asked.
THEOREM LinksFoundFromBothEnds ==
    ASSUME NEW repo, NEW nodes, NEW edges, IsGraph(edges, repo, nodes), NEW sections, "" \notin sections
    PROVE  LinksAreMutual(repo, nodes, edges, sections)
<1> SUFFICES ASSUME NEW a \in sections, NEW b \in sections
             PROVE  LET out == <<repo, b>> \in IdsOf(SectionLinks(edges, repo, a, "out"), "out")
                        in == <<repo, a>> \in IdsOf(SectionLinks(edges, repo, b, "both"), "in")
                        text == \E i \in DOMAIN nodes :
                                   /\ InSection(nodes, i) /\ nodes[i].section = a
                                   /\ nodes[i].type = "link" /\ nodes[i].repo = repo /\ nodes[i].anchor = b
                    IN  (out <=> in) /\ (out <=> text)
    BY Zenon DEF LinksAreMutual
<1> DEFINE raw == RawOf(repo, nodes)
           Joins(e) == e \in edges /\ e.type = "section_link" /\ e.repo = repo /\ e.src = <<repo, a>> /\ e.dst = <<repo, b>>
           text == \E i \in DOMAIN nodes :
                      /\ InSection(nodes, i) /\ nodes[i].section = a
                      /\ nodes[i].type = "link" /\ nodes[i].repo = repo /\ nodes[i].anchor = b
           out == <<repo, b>> \in IdsOf(SectionLinks(edges, repo, a, "out"), "out")
           in == <<repo, a>> \in IdsOf(SectionLinks(edges, repo, b, "both"), "in")
<1>1. IsFiniteSet(edges) /\ a # "" /\ b # ""
    BY DEF IsGraph
<1>2. (out <=> HasLink(edges, repo, a, b)) /\ (in <=> HasLink(edges, repo, a, b))
    BY <1>1, LinksOfSection
<1>3. HasLink(edges, repo, a, b) <=> \E e : Joins(e)
    BY Zenon DEF HasLink
<1>4. ASSUME NEW e, Joins(e) PROVE text
    <2>1. PICK i \in DOMAIN nodes : \E r : EdgeFrom(e, repo, nodes, i, r)
        BY <1>4, EdgesOfGraph
    <2>2. PICK r : EdgeFrom(e, repo, nodes, i, r)
        BY <2>1
    <2> DEFINE n == nodes[i]
    <2>3. InSection(nodes, i) /\ r \in OfNode(repo, n)
          /\ r.type = "section_link" /\ r.src = <<repo, a>> /\ r.dst = <<repo, b>>
        BY <1>4, <2>2 DEF EdgeFrom
    <2> HIDE DEF n
    <2>4. n.type = "link" /\ n.repo = repo /\ r.src = <<repo, n.section>> /\ r.dst = <<repo, n.anchor>>
        BY <2>3, RawCases
    <2>5. <<repo, a>> = <<repo, n.section>> /\ <<repo, b>> = <<repo, n.anchor>>
        BY <2>3, <2>4
    <2>6. n.section = a /\ n.anchor = b
        BY <2>5, TuplesMatch
    <2> QED
        BY <2>3, <2>4, <2>6 DEF n
<1>5. ASSUME text PROVE \E e : Joins(e)
    <2>1. PICK i \in DOMAIN nodes :
              /\ InSection(nodes, i) /\ nodes[i].section = a
              /\ nodes[i].type = "link" /\ nodes[i].repo = repo /\ nodes[i].anchor = b
        BY <1>5
    <2> DEFINE r == Raw(<<repo, a>>, <<repo, b>>, "section_link", "none")
    <2>2. r \in OfNode(repo, nodes[i])
        BY <1>1, <2>1, RawOfLink
    <2>3. PICK e \in edges : EdgeFrom(e, repo, nodes, i, r)
        BY <2>1, <2>2, EdgesOfGraph, Zenon
    <2>4. r.src = <<repo, a>> /\ r.dst = <<repo, b>> /\ r.type = "section_link"
        BY DEF Raw
    <2> HIDE DEF r
    <2>5. Joins(e)
        BY <2>3, <2>4 DEF EdgeFrom
    <2> QED
        BY <2>5
<1> HIDE DEF Joins
<1>6. (out <=> in) /\ (out <=> text)
    BY <1>2, <1>3, <1>4, <1>5
<1> QED
    BY <1>6

\* The links of a page to another wiki, as edges and in its text.
IsCross(e, repo, other) == e.type = "cross_repo_ref" /\ e.repo = repo /\ e.dst = <<other>>
CrossLink(repo, nodes, other, i) ==
    InSection(nodes, i) /\ nodes[i].repo = other /\ nodes[i].type \in {"code", "blob", "link"}

LEMMA CrossIsLink ==
    ASSUME NEW repo, NEW nodes, NEW other, other # repo, NEW i, InSection(nodes, i),
           NEW r \in OfNode(repo, nodes[i]), r.type = "cross_repo_ref", r.dst = <<other>>
    PROVE  CrossLink(repo, nodes, other, i) /\ r.kind = KindOfLink(nodes[i].type)
<1> DEFINE n == nodes[i]
<1>1. r \in OfNode(repo, n)
    OBVIOUS
<1> HIDE DEF n
<1>2. n.type \in {"code", "blob", "link"} /\ r.dst = <<n.repo>> /\ r.kind = KindOfLink(n.type)
    BY <1>1, RawCases DEF KindOfLink
<1>3. n.repo = other
    BY <1>2, TuplesMatch
<1> QED
    BY <1>2, <1>3 DEF CrossLink, n

LEMMA KindsOfCross ==
    ASSUME NEW repo, NEW nodes, NEW edges, IsGraph(edges, repo, nodes), NEW other, other # repo, NEW k
    PROVE  (\E e \in edges : IsCross(e, repo, other) /\ k \in e.kinds)
              <=> \E i \in DOMAIN nodes : CrossLink(repo, nodes, other, i) /\ k = KindOfLink(nodes[i].type)
<1> DEFINE raw == RawOf(repo, nodes)
<1>1. \A r : r \in raw <=> \E i \in DOMAIN nodes : InSection(nodes, i) /\ r \in OfNode(repo, nodes[i])
    BY Zenon DEF RawOf
<1>2. ASSUME NEW e \in edges, IsCross(e, repo, other), k \in e.kinds
      PROVE  \E i \in DOMAIN nodes : CrossLink(repo, nodes, other, i) /\ k = KindOfLink(nodes[i].type)
    <2>1. PICK i \in DOMAIN nodes : \E r : EdgeFrom(e, repo, nodes, i, r)
        BY <1>2, EdgesOfGraph DEF IsCross
    <2>2. PICK r : EdgeFrom(e, repo, nodes, i, r)
        BY <2>1
    <2>3. k \in KindsOf(raw, r) /\ r.type = "cross_repo_ref" /\ r.dst = <<other>>
        BY <1>2, <2>2 DEF EdgeFrom, IsCross
    <2>4. PICK q \in raw : q.type = r.type /\ q.dst = r.dst /\ q.kind = k
        BY <2>3, Zenon DEF KindsOf
    <2>5. PICK j \in DOMAIN nodes : InSection(nodes, j) /\ q \in OfNode(repo, nodes[j])
        BY <1>1
    <2>6. q.type = "cross_repo_ref" /\ q.dst = <<other>>
        BY <2>3, <2>4
    <2>7. CrossLink(repo, nodes, other, j) /\ q.kind = KindOfLink(nodes[j].type)
        BY <2>5, <2>6, CrossIsLink
    <2> QED
        BY <2>4, <2>7
<1>3. ASSUME NEW i \in DOMAIN nodes, CrossLink(repo, nodes, other, i), k = KindOfLink(nodes[i].type)
      PROVE  \E e \in edges : IsCross(e, repo, other) /\ k \in e.kinds
    <2> DEFINE n == nodes[i]
               r == Raw(<<repo, n.section>>, <<n.repo>>, "cross_repo_ref", KindOfLink(n.type))
    <2>1. InSection(nodes, i) /\ n.repo = other /\ n.repo # repo /\ n.type \in {"code", "blob", "link"}
        BY <1>3 DEF CrossLink
    <2>2. r \in OfNode(repo, n)
        BY <2>1, RawOfCross
    <2>3. r.dst = <<other>> /\ r.type = "cross_repo_ref" /\ r.kind = k
        BY <1>3, <2>1 DEF Raw
    <2> HIDE DEF r
    <2>4. PICK e \in edges : EdgeFrom(e, repo, nodes, i, r)
        BY <2>1, <2>2, EdgesOfGraph, Zenon
    <2>5. r \in raw
        BY <1>1, <2>1, <2>2
    <2>6. k \in KindsOf(raw, r)
        BY <2>3, <2>5, Zenon DEF KindsOf
    <2>7. k # "none"
        BY <1>3 DEF KindOfLink
    <2>8. k \in e.kinds /\ IsCross(e, repo, other)
        BY <2>3, <2>4, <2>6, <2>7 DEF EdgeFrom, IsCross
    <2> QED
        BY <2>8
<1> QED
    BY <1>2, <1>3

\* Links to another wiki are found from both wikis, with the kinds that the text has.
THEOREM CrossLinksFoundFromBothEnds ==
    ASSUME NEW repo, NEW nodes, NEW edges, IsGraph(edges, repo, nodes), NEW repos
    PROVE  CrossIsMutual(repo, nodes, edges, repos)
<1> SUFFICES ASSUME NEW other \in repos, other # repo
             PROVE  LET out == {n \in CrossOut(edges, repo) : n.id = <<other>>}
                        in == {n \in CrossIn(edges, other) : n.id = <<repo>>}
                        Links(type) == {i \in DOMAIN nodes :
                               InSection(nodes, i) /\ nodes[i].type = type /\ nodes[i].repo = other}
                    IN  /\ {n.sections : n \in out} = {n.sections : n \in in}
                        /\ \A n \in out :
                              n.kinds = (IF Links("code") = {} THEN {} ELSE {"code_block"})
                                          \cup (IF Links("blob") = {} THEN {} ELSE {"prose_link"})
                                          \cup (IF Links("link") = {} THEN {} ELSE {"anchor_link"})
    BY Zenon DEF CrossIsMutual
<1> DEFINE out == {n \in CrossOut(edges, repo) : n.id = <<other>>}
           in == {n \in CrossIn(edges, other) : n.id = <<repo>>}
           Links(type) == {i \in DOMAIN nodes :
                               InSection(nodes, i) /\ nodes[i].type = type /\ nodes[i].repo = other}
           rows == {e \in edges : e.type = "cross_repo_ref" /\ e.repo = repo}
           back == {e \in edges : e.type = "cross_repo_ref" /\ e.dst = <<other>>}
           R == {e \in edges : IsCross(e, repo, other)}
           sections == {e.src[2] : e \in R}
           kinds == UNION {e.kinds : e \in R}
           To(d) == [id |-> d, sections |-> {e.src[2] : e \in {e \in rows : e.dst = d}},
                     kinds |-> UNION {e.kinds : e \in {e \in rows : e.dst = d}}]
           From(q) == [id |-> <<q>>, sections |-> {e.src[2] : e \in {e \in back : e.repo = q}}]
<1>1. R = {e \in rows : e.dst = <<other>>} /\ R = {e \in back : e.repo = repo}
    BY DEF IsCross
<1>2. CrossOut(edges, repo) = {To(d) : d \in {e.dst : e \in rows}}
    BY Zenon DEF CrossOut
<1>3. CrossIn(edges, other) = {From(q) : q \in {e.repo : e \in back}}
    BY Zenon DEF CrossIn
<1> HIDE DEF R, rows, back
<1>4. /\ To(<<other>>).id = <<other>> /\ To(<<other>>).sections = sections /\ To(<<other>>).kinds = kinds
      /\ \A d : To(d).id = d
    BY <1>1
<1>5. /\ From(repo).id = <<repo>> /\ From(repo).sections = sections
      /\ \A q : From(q).id = <<q>>
    BY <1>1
<1> HIDE DEF To, From, sections, kinds
<1>6. /\ \A n \in out : n.sections = sections /\ n.kinds = kinds /\ R # {}
      /\ R # {} => \E n \in out : n.sections = sections
    <2>1. ASSUME NEW n \in out PROVE n.sections = sections /\ n.kinds = kinds /\ R # {}
        <3>1. PICK e \in rows : n = To(e.dst) /\ n.id = <<other>>
            BY <1>2
        <3>2. e.dst = <<other>>
            BY <1>4, <3>1
        <3> QED
            BY <1>1, <1>4, <3>1, <3>2
    <2>2. ASSUME NEW e \in R PROVE To(<<other>>) \in out
        <3>1. e \in rows /\ e.dst = <<other>>
            BY <1>1
        <3> QED
            BY <1>2, <1>4, <3>1
    <2> QED
        BY <1>4, <2>1, <2>2
<1>7. /\ \A n \in in : n.sections = sections /\ R # {}
      /\ R # {} => \E n \in in : n.sections = sections
    <2>1. ASSUME NEW n \in in PROVE n.sections = sections /\ R # {}
        <3>1. PICK e \in back : n = From(e.repo) /\ n.id = <<repo>>
            BY <1>3
        <3>2. e.repo = repo
            BY <1>5, <3>1, TuplesMatch
        <3> QED
            BY <1>1, <1>5, <3>1, <3>2
    <2>2. ASSUME NEW e \in R PROVE From(repo) \in in
        <3>1. e \in back /\ e.repo = repo
            BY <1>1
        <3> QED
            BY <1>3, <1>5, <3>1
    <2> QED
        BY <1>5, <2>1, <2>2
<1>8. kinds = (IF Links("code") = {} THEN {} ELSE {"code_block"})
                  \cup (IF Links("blob") = {} THEN {} ELSE {"prose_link"})
                  \cup (IF Links("link") = {} THEN {} ELSE {"anchor_link"})
    <2>1. \A k : k \in kinds <=> \E e \in edges : IsCross(e, repo, other) /\ k \in e.kinds
        BY Zenon DEF kinds, R
    <2>2. \A k : k \in kinds <=>
              \E i \in DOMAIN nodes : CrossLink(repo, nodes, other, i) /\ k = KindOfLink(nodes[i].type)
        BY <2>1, KindsOfCross
    <2>3. \A k : k \in kinds <=> \/ Links("code") # {} /\ k = "code_block"
                                 \/ Links("blob") # {} /\ k = "prose_link"
                                 \/ Links("link") # {} /\ k = "anchor_link"
        BY <2>2 DEF CrossLink, KindOfLink
    <2> HIDE DEF Links
    <2> QED
        BY <2>3
<1> HIDE DEF out, in, Links
<1>9. {n.sections : n \in out} = {n.sections : n \in in}
    BY <1>6, <1>7
<1>10. \A n \in out : n.kinds = (IF Links("code") = {} THEN {} ELSE {"code_block"})
                                  \cup (IF Links("blob") = {} THEN {} ELSE {"prose_link"})
                                  \cup (IF Links("link") = {} THEN {} ELSE {"anchor_link"})
    BY <1>6, <1>8
<1> QED
    BY <1>9, <1>10, Zenon DEF out, in, Links

\* The edges that make the diagrams of a section.
MembersOf(edges, repo, s) == {e \in edges : e.type = "diagram_member" /\ e.repo = repo /\ e.src = <<repo, s>>}
ArrowsOf(edges, repo, s) ==
    AmongMembers({e \in edges : e.type = "diagram_edge" /\ e.repo = repo}, {e.dst : e \in MembersOf(edges, repo, s)})

LEMMA MembersAreNodes ==
    ASSUME NEW repo, NEW nodes, NEW edges, IsGraph(edges, repo, nodes), NEW s, NEW e \in MembersOf(edges, repo, s)
    PROVE  \E d : e.dst = <<repo, s, d>>
<1>1. e \in edges /\ e.repo = repo /\ e.type = "diagram_member" /\ e.src = <<repo, s>>
    BY DEF MembersOf
<1>2. PICK i \in DOMAIN nodes : \E r : EdgeFrom(e, repo, nodes, i, r)
    BY <1>1, EdgesOfGraph
<1>3. PICK r : EdgeFrom(e, repo, nodes, i, r)
    BY <1>2
<1> DEFINE n == nodes[i]
<1>4. r \in OfNode(repo, n) /\ r.type = "diagram_member" /\ r.src = <<repo, s>> /\ e.dst = r.dst
    BY <1>1, <1>3 DEF EdgeFrom
<1> HIDE DEF n
<1>5. r.src = <<repo, n.section>> /\ \E d \in n.ids \ BadIds : r.dst = <<repo, n.section, d>>
    BY <1>4, RawCases
<1>6. n.section = s
    BY <1>4, <1>5, TuplesMatch
<1> QED
    BY <1>4, <1>5, <1>6

\* The arrows of a section's diagrams are the arrows among its members.
LEMMA ArrowsAreOfSection ==
    ASSUME NEW repo, NEW nodes, NEW edges, IsGraph(edges, repo, nodes), NEW s, NEW e
    PROVE  e \in ArrowsOf(edges, repo, s)
              <=> e \in edges /\ e.type = "diagram_edge" /\ e.repo = repo /\ SubSeq(e.src, 1, 2) = <<repo, s>>
<1>1. e \in ArrowsOf(edges, repo, s)
          <=> /\ e \in edges /\ e.type = "diagram_edge" /\ e.repo = repo
              /\ \E m \in MembersOf(edges, repo, s) : e.src = m.dst
              /\ \E m \in MembersOf(edges, repo, s) : e.dst = m.dst
    BY Zenon DEF ArrowsOf, AmongMembers
<1>2. \A d, t : SubSeq(<<repo, t, d>>, 1, 2) = <<repo, t>>
    <2> TAKE d, t
    <2> DEFINE q == <<repo, t, d>>
    <2>1. q \in Seq({repo, t, d}) /\ Len(q) = 3 /\ q[1] = repo /\ q[2] = t
        OBVIOUS
    <2> HIDE DEF q
    <2>2. SubSeq(q, 1, 2) = [i \in 1..2 |-> q[i]]
        BY <2>1
    <2>3. <<repo, t>> = [i \in 1..2 |-> q[i]]
        BY <2>1
    <2> QED
        BY <2>2, <2>3 DEF q
<1>3. ASSUME e \in ArrowsOf(edges, repo, s) PROVE SubSeq(e.src, 1, 2) = <<repo, s>>
    <2>1. PICK m \in MembersOf(edges, repo, s) : e.src = m.dst
        BY <1>1, <1>3
    <2>2. PICK d : m.dst = <<repo, s, d>>
        BY MembersAreNodes
    <2> QED
        BY <1>2, <2>1, <2>2
<1>4. ASSUME e \in edges, e.type = "diagram_edge", e.repo = repo, SubSeq(e.src, 1, 2) = <<repo, s>>
      PROVE  /\ \E m \in MembersOf(edges, repo, s) : e.src = m.dst
             /\ \E m \in MembersOf(edges, repo, s) : e.dst = m.dst
    <2>1. PICK i \in DOMAIN nodes : \E r : EdgeFrom(e, repo, nodes, i, r)
        BY <1>4, EdgesOfGraph
    <2>2. PICK r : EdgeFrom(e, repo, nodes, i, r)
        BY <2>1
    <2> DEFINE n == nodes[i]
    <2>3. InSection(nodes, i) /\ r \in OfNode(repo, n) /\ r.type = "diagram_edge" /\ e.src = r.src /\ e.dst = r.dst
        BY <1>4, <2>2 DEF EdgeFrom
    <2> HIDE DEF n
    <2>4. n.type = "diagram" /\ \E x, y \in n.ids \ BadIds :
              r.src = <<repo, n.section, x>> /\ r.dst = <<repo, n.section, y>>
        BY <2>3, RawOfArrow
    <2>5. PICK x \in n.ids \ BadIds, y \in n.ids \ BadIds :
              r.src = <<repo, n.section, x>> /\ r.dst = <<repo, n.section, y>>
        BY <2>4
    <2>6. n.section = s
        BY <1>2, <1>4, <2>3, <2>5, TuplesMatch
    <2>7. ASSUME NEW d \in n.ids \ BadIds PROVE \E m \in MembersOf(edges, repo, s) : m.dst = <<repo, s, d>>
        <3> DEFINE q == Raw(<<repo, s>>, <<repo, s, d>>, "diagram_member", "none")
        <3>1. q \in OfNode(repo, n)
            BY <2>4, <2>6, RawOfMember
        <3>2. q.src = <<repo, s>> /\ q.dst = <<repo, s, d>> /\ q.type = "diagram_member"
            BY DEF Raw
        <3> HIDE DEF q
        <3>3. PICK m \in edges : EdgeFrom(m, repo, nodes, i, q)
            BY <2>3, <3>1, EdgesOfGraph, Zenon DEF n
        <3> QED
            BY <3>2, <3>3 DEF EdgeFrom, MembersOf
    <2> QED
        BY <2>3, <2>5, <2>6, <2>7
<1> QED
    BY <1>1, <1>3, <1>4

\* Neighbors that have one key keep their order.
LEMMA EqualKeysKeepOrder ==
    ASSUME NEW s, NEW n \in Nat, DOMAIN s = 1..n, NEW keys, DOMAIN keys = 1..n,
           \A i, j \in 1..n : keys[i] \in Nat /\ keys[i] = keys[j]
    PROVE  StablySorted(s, keys) = [k \in 1..n |-> s[k]]
<1>1. \A i \in 1..n : Ahead(keys, i) = 1..(i - 1)
    BY DEF Ahead
<1>2. \A i \in 1..n : Cardinality(1..(i - 1)) = i - 1
    <2> TAKE i \in 1..n
    <2>1. 1 \in Int /\ i - 1 \in Int /\ 1 <= (i - 1) + 1
        OBVIOUS
    <2>2. Cardinality(1..(i - 1)) = IF 1 > i - 1 THEN 0 ELSE (i - 1) - 1 + 1
        BY <2>1, FS_Interval
    <2> QED
        BY <2>1, <2>2
<1>3. \A k \in 1..n : (CHOOSE i \in DOMAIN s : Cardinality(Ahead(keys, i)) = k - 1) = k
    <2> TAKE k \in 1..n
    <2>1. \A i \in DOMAIN s : Cardinality(Ahead(keys, i)) = k - 1 <=> i = k
        BY <1>1, <1>2
    <2> QED
        BY <2>1
<1>4. StablySorted(s, keys)
          = [k \in DOMAIN s |-> s[CHOOSE i \in DOMAIN s : Cardinality(Ahead(keys, i)) = k - 1]]
    BY Zenon DEF StablySorted
<1> QED
    BY <1>3, <1>4

\* A list whose neighbors are of one section has its order whatever the scores are.
IsOfSection(answer, n, repo, s) ==
    n \in Nat /\ DOMAIN answer = 1..n /\ \A i \in 1..n : \E d : answer[i].id = <<repo, s, d>>
IsScore(score) == \A at \in DOMAIN score : score[at] \in Nat

LEMMA RankKeepsSection ==
    ASSUME NEW answer, NEW n, NEW repo, NEW s, NEW score, IsOfSection(answer, n, repo, s), IsScore(score)
    PROVE  SemanticRank(answer, score) = [k \in 1..n |-> answer[k]]
<1> DEFINE At(m) == <<m.id[1], m.id[2]>>
           Scored(m) == Len(m.id) > 1 /\ m.id[1] # "file" /\ At(m) \in DOMAIN score
           keys == [i \in DOMAIN answer |-> IF Scored(answer[i]) THEN score[At(answer[i])] + 1 ELSE 0]
           key == IF repo # "file" /\ <<repo, s>> \in DOMAIN score THEN score[<<repo, s>>] + 1 ELSE 0
<1>0. n \in Nat /\ DOMAIN answer = 1..n /\ \A i \in 1..n : \E d : answer[i].id = <<repo, s, d>>
    BY DEF IsOfSection
<1>1. SemanticRank(answer, score) = StablySorted(answer, keys)
    BY Zenon DEF SemanticRank
<1>2. key \in Nat
    BY DEF IsScore
<1>3. \A i \in 1..n : keys[i] = key
    <2> TAKE i \in 1..n
    <2>1. PICK d : answer[i].id = <<repo, s, d>>
        BY <1>0
    <2>2. Len(answer[i].id) > 1 /\ answer[i].id[1] = repo /\ At(answer[i]) = <<repo, s>>
        BY <2>1
    <2>3. keys[i] = IF Scored(answer[i]) THEN score[At(answer[i])] + 1 ELSE 0
        BY <1>0
    <2> QED
        BY <2>2, <2>3
<1>4. DOMAIN keys = 1..n
    BY <1>0
<1> HIDE DEF keys, key
<1>5. \A i, j \in 1..n : keys[i] \in Nat /\ keys[i] = keys[j]
    BY <1>2, <1>3
<1> QED
    BY <1>0, <1>1, <1>4, <1>5, EqualKeysKeepOrder

\* What DiagramIsClosed says of an answer.
IsClosed(answer, edges, repo, s) ==
    LET drawn == {answer.neighbors[i] : i \in DOMAIN answer.neighbors}
        nodes == {n.id : n \in {n \in drawn : n.type = "diagram_member"}}
        arrows == {<<n.from, n.id>> : n \in {n \in drawn : n.type = "diagram_edge"}}
    IN  /\ \A a \in arrows : a[1] \in nodes /\ a[2] \in nodes
        /\ answer.truncated \/ arrows = {<<e.src, e.dst>> : e \in {e \in edges : e.type = "diagram_edge"
                                            /\ e.repo = repo /\ SubSeq(e.src, 1, 2) = <<repo, s>>}}

\* However a section's diagrams are ranked and cut, no arrow is drawn without its ends, and
\* all are drawn unless the answer is truncated.
THEOREM DiagramsStayClosed ==
    ASSUME NEW repo, NEW nodes, NEW edges, IsGraph(edges, repo, nodes), NEW s, NEW limit \in Nat,
           NEW score, IsScore(score)
    PROVE  DiagramIsClosed(edges, repo, s, score, limit)
<1> DEFINE M == MembersOf(edges, repo, s)
           drawable == ArrowsOf(edges, repo, s)
           T == {Neighbor(e.type, "out", e.dst, <<>>) : e \in M}
           U == {Neighbor("diagram_edge", "out", e.dst, e.src) : e \in drawable}
           t == SetToSeq(T)
           u == SetToSeq(U)
           all == t \o u
           a == Len(t)
           n == Len(all)
           m == IF n > limit THEN limit ELSE n
           X == T \cup U
<1>1. IsFiniteSet(T) /\ IsFiniteSet(U)
    <2>1. M \in SUBSET edges /\ drawable \in SUBSET edges /\ IsFiniteSet(edges)
        BY DEF MembersOf, ArrowsOf, AmongMembers, IsGraph
    <2>2. IsFiniteSet(M) /\ IsFiniteSet(drawable)
        BY <2>1, FS_Subset
    <2> HIDE DEF M, drawable
    <2> QED
        BY <2>2, AnswersAreListed
<1>2. DiagramOfSection(edges, repo, s) = all
    BY Zenon DEF DiagramOfSection, Targets, MembersOf, ArrowsOf
<1>3. /\ \A e \in drawable : e.dst \in {x.dst : x \in M} /\ e.src \in {x.dst : x \in M}
      /\ \A e \in M : e.type = "diagram_member" /\ \E d : e.dst = <<repo, s, d>>
    <2>1. \A e \in drawable : e.dst \in {x.dst : x \in M} /\ e.src \in {x.dst : x \in M}
        BY Zenon DEF ArrowsOf, AmongMembers
    <2>2. \A e \in M : e.type = "diagram_member"
        BY DEF MembersOf
    <2> QED
        BY <2>1, <2>2, MembersAreNodes
<1> HIDE DEF M, drawable
<1>4. /\ \A x \in T : x.type = "diagram_member" /\ \E e \in M : x.id = e.dst
      /\ \A e \in M : \E x \in T : x.type = "diagram_member" /\ x.id = e.dst
      /\ \A x \in U : x.type = "diagram_edge" /\ \E e \in drawable : x.id = e.dst /\ x.from = e.src
      /\ \A e \in drawable : \E x \in U : x.type = "diagram_edge" /\ x.id = e.dst /\ x.from = e.src
    <2>1. \A e \in M : LET x == Neighbor(e.type, "out", e.dst, <<>>) IN x.type = "diagram_member" /\ x.id = e.dst
        BY <1>3, NeighborFields
    <2>2. \A e : LET x == Neighbor("diagram_edge", "out", e.dst, e.src)
                 IN  x.type = "diagram_edge" /\ x.id = e.dst /\ x.from = e.src
        BY NeighborFields
    <2> QED
        BY <2>1, <2>2, Zenon
<1> HIDE DEF T, U
<1>5. t \in Seq(T) /\ u \in Seq(U) /\ ToSet(t) = T /\ ToSet(u) = U
    BY <1>1, SetAsSequence
<1>6. t \in Seq(X) /\ u \in Seq(X)
    BY <1>5
<1> HIDE DEF t, u, X
<1>7. all \in Seq(X) /\ a \in Nat /\ n \in Nat /\ a <= n /\ ToSet(all) = T \cup U
    BY <1>5, <1>6, ConcatSet
<1>8. /\ \A i \in 1..n : all[i] = IF i <= a THEN t[i] ELSE u[i - a]
      /\ DOMAIN all = 1..n /\ DOMAIN t = 1..a
    BY <1>6
<1>9. \A i \in 1..a : all[i] \in T /\ all[i] = t[i]
    BY <1>5, <1>7, <1>8
<1>10. \A i \in 1..n : all[i] \in T \cup U
    BY <1>7, <1>8 DEF X
<1> HIDE DEF all, a, n
<1>11. \A i \in 1..n : \E d : all[i].id = <<repo, s, d>>
    <2> TAKE i \in 1..n
    <2>1. PICK e \in M : all[i].id = e.dst
        <3>1. CASE all[i] \in T
            BY <1>4, <3>1
        <3>2. CASE all[i] \in U
            BY <1>3, <1>4, <3>2
        <3> QED
            BY <1>10, <3>1, <3>2
    <2> QED
        BY <1>3, <2>1
<1>12. SemanticRank(all, score) = all
    <2>1. SemanticRank(all, score) = [k \in 1..n |-> all[k]]
        <3>1. IsOfSection(all, n, repo, s)
            BY <1>7, <1>8, <1>11 DEF IsOfSection
        <3> QED
            BY <3>1, RankKeepsSection
    <2>2. all = [k \in 1..n |-> all[k]]
        BY <1>7, <1>8
    <2> QED
        BY <2>1, <2>2
<1> DEFINE answer == Finalize(all, limit)
           drawn == {answer.neighbors[i] : i \in DOMAIN answer.neighbors}
           ends == {x.id : x \in {x \in drawn : x.type = "diagram_member"}}
           arrows == {<<x.from, x.id>> : x \in {x \in drawn : x.type = "diagram_edge"}}
           section == {<<e.src, e.dst>> : e \in {e \in edges : e.type = "diagram_edge"
                                            /\ e.repo = repo /\ SubSeq(e.src, 1, 2) = <<repo, s>>}}
<1>13. m \in Nat /\ m <= n
    BY <1>7
<1>14. answer.neighbors = SubSeq(all, 1, m) /\ answer.truncated = (n > limit)
    BY DEF Finalize, n
<1>15. DOMAIN answer.neighbors = 1..m /\ \A i \in 1..m : answer.neighbors[i] = all[i]
    <2>1. 1 \in 1..(n + 1) /\ n = Len(all)
        BY <1>7 DEF n
    <2> QED
        BY <1>7, <1>13, <1>14, <2>1
<1>16. \A x : x \in drawn <=> \E i \in 1..m : x = all[i]
    BY <1>15
<1>17. answer.truncated \/ m = n
    BY <1>7, <1>14
<1> HIDE DEF answer, m
<1>18. \A i \in 1..n : all[i].type = "diagram_edge" => i > a /\ all[i] \in U
    BY <1>4, <1>7, <1>9, <1>10
<1> HIDE DEF drawn
<1>19. ASSUME NEW x \in drawn, x.type = "diagram_edge" PROVE x.from \in ends /\ x.id \in ends
    <2>1. PICK i \in 1..m : x = all[i]
        BY <1>16
    <2>2. i \in 1..n /\ i > a /\ x \in U
        BY <1>7, <1>13, <1>18, <1>19, <2>1
    <2>3. PICK e \in drawable : x.id = e.dst /\ x.from = e.src
        BY <1>4, <2>2
    <2>4. ASSUME NEW y \in M PROVE y.dst \in ends
        <3>1. PICK z \in T : z.type = "diagram_member" /\ z.id = y.dst
            BY <1>4
        <3>2. PICK j \in 1..a : z = t[j]
            BY <1>5, <1>8 DEF ToSet
        <3>3. j \in 1..m /\ z = all[j]
            BY <1>7, <1>9, <1>13, <2>2, <3>2
        <3>4. z \in drawn
            BY <1>16, <3>3
        <3> QED
            BY <3>1, <3>4
    <2> QED
        BY <1>3, <2>3, <2>4
<1>20. \A x \in arrows : x[1] \in ends /\ x[2] \in ends
    <2> HIDE DEF ends
    <2> QED
        BY <1>19
<1>21. ASSUME ~answer.truncated PROVE arrows = section
    <2>1. \A x : x \in drawn <=> x \in T \cup U
        BY <1>7, <1>8, <1>16, <1>17, <1>21 DEF ToSet
    <2>2. \A x : x \in arrows <=> \E y \in U : x = <<y.from, y.id>>
        BY <1>4, <2>1
    <2>3. \A x : x \in arrows <=> \E e \in drawable : x = <<e.src, e.dst>>
        BY <1>4, <2>2
    <2>4. \A e : e \in drawable <=>
              e \in edges /\ e.type = "diagram_edge" /\ e.repo = repo /\ SubSeq(e.src, 1, 2) = <<repo, s>>
        BY ArrowsAreOfSection DEF drawable
    <2>5. \A x : x \in section <=> \E e \in drawable : x = <<e.src, e.dst>>
        BY <2>4
    <2> HIDE DEF arrows, section
    <2> QED
        BY <2>3, <2>5
<1>22. /\ \A x \in arrows : x[1] \in ends /\ x[2] \in ends
       /\ answer.truncated \/ arrows = section
    BY <1>20, <1>21
<1>23. IsClosed(answer, edges, repo, s)
    BY <1>22, Zenon DEF IsClosed, drawn
<1>24. Finalize(SemanticRank(DiagramOfSection(edges, repo, s), score), limit) = answer
    BY <1>2, <1>12 DEF answer
<1>25. IsClosed(Finalize(SemanticRank(DiagramOfSection(edges, repo, s), score), limit), edges, repo, s)
    BY <1>23, <1>24
<1> QED
    BY <1>25, Zenon DEF DiagramIsClosed, IsClosed

-----------------------------------------------------------------------------
(* Ranking                                                                 *)

Distinct(s) == \A i, j \in 1..Len(s) : s[i] = s[j] => i = j

LEMMA IntervalCount == ASSUME NEW n \in Nat PROVE IsFiniteSet(1..n) /\ Cardinality(1..n) = n
BY FS_Interval

LEMMA DistinctCount ==
    ASSUME NEW X, NEW s \in Seq(X), Distinct(s)
    PROVE  IsFiniteSet(ToSet(s)) /\ Cardinality(ToSet(s)) = Len(s)
<1> DEFINE n == Len(s)
           S == ToSet(s)
<1>1. n \in Nat /\ DOMAIN s = 1..n /\ s = [i \in 1..n |-> s[i]]
    OBVIOUS
<1>2. s \in Bijection(1..n, S)
    BY <1>1 DEF Distinct, ToSet, Bijection, Injection, Surjection, IsInjective
<1> HIDE DEF n, S
<1>3. ExistsBijection(1..n, S)
    BY <1>2 DEF ExistsBijection
<1>4. IsFiniteSet(1..n) /\ Cardinality(1..n) = n
    BY <1>1, IntervalCount
<1> QED
    BY <1>3, <1>4, FS_Bijection DEF n, S

\* A concatenation is as long as its lists together.
LEMMA FlattenLength ==
    ASSUME NEW X, NEW seqs \in Seq(Seq(X))
    PROVE  Len(FlattenSeq(seqs)) = SumOf([i \in DOMAIN seqs |-> Len(seqs[i])])
<1> DEFINE n == Len(seqs)
           lens == [i \in DOMAIN seqs |-> Len(seqs[i])]
<1>1. n \in Nat /\ DOMAIN seqs = 1..n /\ \A i \in 1..n : seqs[i] \in Seq(X) /\ Len(seqs[i]) \in Nat
    OBVIOUS
<1>2. lens \in Seq(Nat) /\ Len(lens) = n /\ \A i \in 1..n : lens[i] = Len(seqs[i])
    BY <1>1
<1>3. PICK h : Joined(h, seqs, n, X) /\ FlattenSeq(seqs) = h[n]
    BY FlattenSteps
<1> HIDE DEF n, lens
<1>4. h[0] = <<>> /\ h \in [0..n -> Seq(X)] /\ \A k \in 1..n : h[k] = h[k - 1] \o seqs[k]
    BY <1>3 DEF Joined
<1>5. SumOf(lens) = Sum(lens)[n] /\ Sum(lens)[0] = 0 /\ \A k \in 1..n : Sum(lens)[k] = Sum(lens)[k - 1] + lens[k]
    BY <1>2, SumExists
<1> DEFINE T == {k \in 0..n : Len(h[k]) = Sum(lens)[k]}
<1>6. 0 \in T
    BY <1>1, <1>4, <1>5
<1>7. ASSUME NEW k \in 0..(n - 1), k \in T PROVE k + 1 \in T
    <2>1. k + 1 \in 1..n /\ k + 1 \in 0..n /\ k \in 0..n /\ (k + 1) - 1 = k
        BY <1>1
    <2>2. h[k] \in Seq(X) /\ seqs[k + 1] \in Seq(X) /\ h[k + 1] = h[k] \o seqs[k + 1]
        BY <1>1, <1>4, <2>1
    <2>3. Len(h[k + 1]) = Len(h[k]) + Len(seqs[k + 1])
        BY <2>2
    <2>4. Sum(lens)[k + 1] = Sum(lens)[k] + Len(seqs[k + 1])
        BY <1>2, <1>5, <2>1
    <2> QED
        BY <1>7, <2>1, <2>3, <2>4
<1> HIDE DEF T
<1>8. n \in T
    <2>1. 0..n \subseteq T
        BY <1>1, <1>6, <1>7, UpTo
    <2> QED
        BY <1>1, <2>1
<1> QED
    BY <1>3, <1>5, <1>8 DEF T, lens

\* The map of the fusion has each chunk of both lists once.
LEMMA MergedIsUnion ==
    ASSUME NEW X, NEW v \in Seq(X), NEW b \in Seq(X), Distinct(v), Distinct(b)
    PROVE  Merged(v, b) \in Seq(X) /\ Distinct(Merged(v, b)) /\ ToSet(Merged(v, b)) = ToSet(v) \cup ToSet(b)
<1> DEFINE n == Len(b)
           Is(g) == g = [k \in 0..n |-> IF k = 0 THEN v
                                        ELSE IF b[k] \in ToSet(v) THEN g[k - 1] ELSE Append(g[k - 1], b[k])]
           merged == CHOOSE g : Is(g)
           f == [p \in (1..n) \X Seq(X) |-> IF b[p[1]] \in ToSet(v) THEN p[2] ELSE Append(p[2], b[p[1]])]
<1>1. n \in Nat /\ DOMAIN b = 1..n /\ \A k \in 1..n : b[k] \in X
    OBVIOUS
<1>2. Merged(v, b) = merged[n]
    BY DEF Merged
<1> HIDE DEF n, merged
<1>3. \A k \in 1..n, s \in Seq(X) : f[<<k, s>>] = IF b[k] \in ToSet(v) THEN s ELSE Append(s, b[k])
    OBVIOUS
<1>4. Stays(f, Seq(X), n)
    <2>1. \A s \in Seq(X), x \in X : Append(s, x) \in Seq(X)
        OBVIOUS
    <2> QED
        BY <1>1, <1>3, <2>1 DEF Stays
<1> HIDE DEF f
<1>5. PICK h : Recursion(h, Seq(X), v, n, f)
    <2> DEFINE S == Seq(X)
    <2>1. v \in S /\ Stays(f, S, n) /\ n \in Nat
        BY <1>1, <1>4
    <2> HIDE DEF S
    <2>2. \E h : Recursion(h, S, v, n, f)
        BY <2>1, RecursionExists
    <2> QED
        BY <2>2 DEF S
<1>6. /\ h[0] = v /\ h \in [0..n -> Seq(X)]
      /\ \A k \in 1..n : h[k] = IF b[k] \in ToSet(v) THEN h[k - 1] ELSE Append(h[k - 1], b[k])
    <2>1. h[0] = v /\ h \in [0..n -> Seq(X)] /\ \A k \in 1..n : h[k] = f[<<k, h[k - 1]>>]
        BY <1>5 DEF Recursion
    <2>2. ASSUME NEW k \in 1..n PROVE h[k] = IF b[k] \in ToSet(v) THEN h[k - 1] ELSE Append(h[k - 1], b[k])
        <3>1. k - 1 \in 0..n
            BY <1>1
        <3>2. h[k - 1] \in Seq(X)
            BY <2>1, <3>1
        <3>3. h[k] = f[<<k, h[k - 1]>>]
            BY <2>1
        <3> QED
            BY <1>3, <3>2, <3>3
    <2> QED
        BY <2>1, <2>2
<1>7. Is(merged)
    <2>1. h = [k \in 0..n |-> h[k]]
        BY <1>6
    <2>2. \A k \in 0..n : h[k] = IF k = 0 THEN v
                                 ELSE IF b[k] \in ToSet(v) THEN h[k - 1] ELSE Append(h[k - 1], b[k])
        <3> TAKE k \in 0..n
        <3>1. k # 0 => k \in 1..n
            BY <1>1
        <3> QED
            BY <1>6, <3>1
    <2>3. Is(h)
        BY <2>1, <2>2
    <2> HIDE DEF Is
    <2> QED
        BY <2>3 DEF merged
<1>8. \A k \in 0..n : merged[k] = IF k = 0 THEN v
                                  ELSE IF b[k] \in ToSet(v) THEN merged[k - 1] ELSE Append(merged[k - 1], b[k])
    BY <1>7
<1> DEFINE Good(k) == /\ merged[k] \in Seq(X) /\ Distinct(merged[k])
                      /\ ToSet(merged[k]) = ToSet(v) \cup {b[i] : i \in 1..k}
           T == {k \in 0..n : Good(k)}
<1>9. 0 \in T
    <2>1. merged[0] = v
        BY <1>1, <1>8
    <2>2. {b[i] : i \in 1..0} = {}
        OBVIOUS
    <2> QED
        BY <1>1, <2>1, <2>2
<1>10. ASSUME NEW k \in 0..(n - 1), k \in T PROVE k + 1 \in T
    <2>1. k + 1 \in 1..n /\ k + 1 \in 0..n /\ k + 1 # 0 /\ (k + 1) - 1 = k
        BY <1>1
    <2>2. {b[i] : i \in 1..(k + 1)} = {b[i] : i \in 1..k} \cup {b[k + 1]}
        <3>1. 1..(k + 1) = (1..k) \cup {k + 1}
            OBVIOUS
        <3> QED
            BY <3>1
    <2>3. b[k + 1] \in X
        BY <1>1, <2>1
    <2>4. Good(k)
        BY <1>10
    <2>5. merged[k + 1] = IF b[k + 1] \in ToSet(v) THEN merged[k] ELSE Append(merged[k], b[k + 1])
        BY <1>8, <2>1
    <2>6. CASE b[k + 1] \in ToSet(v)
        <3>1. merged[k + 1] = merged[k]
            BY <2>5, <2>6
        <3>2. ToSet(merged[k + 1]) = ToSet(v) \cup {b[i] : i \in 1..(k + 1)}
            BY <2>2, <2>4, <2>6, <3>1
        <3> QED
            BY <2>1, <2>4, <3>1, <3>2
    <2>7. CASE b[k + 1] \notin ToSet(v)
        <3> DEFINE m == merged[k]
                   x == b[k + 1]
        <3>1. x \notin {b[i] : i \in 1..k}
            <4>1. \A i \in 1..k : b[i] = b[k + 1] => i = k + 1
                BY <1>1, <2>1 DEF Distinct, n
            <4> QED
                BY <4>1
        <3>2. m \in Seq(X) /\ x \in X /\ Distinct(m) /\ x \notin ToSet(m)
            BY <2>3, <2>4, <2>7, <3>1
        <3>3. merged[k + 1] = Append(m, x)
            BY <2>5, <2>7
        <3> HIDE DEF m, x
        <3>4. /\ Append(m, x) \in Seq(X) /\ Len(Append(m, x)) = Len(m) + 1 /\ Len(m) \in Nat
              /\ \A i \in 1..Len(m) : Append(m, x)[i] = m[i]
              /\ Append(m, x)[Len(m) + 1] = x
              /\ DOMAIN m = 1..Len(m) /\ DOMAIN Append(m, x) = 1..(Len(m) + 1)
            BY <3>2
        <3>5. \A i \in 1..Len(m) : m[i] # x
            BY <3>2, <3>4 DEF ToSet
        <3>6. Distinct(Append(m, x))
            BY <3>2, <3>4, <3>5 DEF Distinct
        <3>7. ToSet(Append(m, x)) = ToSet(m) \cup {x}
            BY <3>2, AppendSet
        <3>8. ToSet(Append(m, x)) = ToSet(v) \cup {b[i] : i \in 1..(k + 1)}
            BY <2>2, <2>4, <3>7 DEF m, x
        <3> QED
            BY <2>1, <3>3, <3>4, <3>6, <3>8
    <2> QED
        BY <2>6, <2>7
<1> HIDE DEF T
<1>11. n \in T
    <2>1. 0..n \subseteq T
        BY <1>1, <1>9, <1>10, UpTo
    <2> QED
        BY <1>1, <2>1
<1>12. ToSet(b) = {b[i] : i \in 1..n}
    BY <1>1 DEF ToSet
<1> QED
    BY <1>2, <1>11, <1>12 DEF T

\* The unit of the exact scores is a number.
LEMMA ScaleIsNumber == Scale \in Nat
<1> DEFINE Is(g) == g = [k \in 0..TopN |-> IF k = 0 THEN 1 ELSE g[k - 1] * (RrfK + k)]
           product == CHOOSE g : Is(g)
           f == [p \in (1..TopN) \X Nat |-> p[2] * (RrfK + p[1])]
<1>1. TopN \in Nat /\ RrfK \in Nat
    BY RankingAssumption
<1>2. Scale = product[TopN]
    BY DEF Scale
<1> HIDE DEF product
<1>3. \A k \in 1..TopN, x \in Nat : f[<<k, x>>] = x * (RrfK + k)
    OBVIOUS
<1>4. Stays(f, Nat, TopN)
    <2>1. \A k \in 1..TopN, x \in Nat : x * (RrfK + k) \in Nat
        BY <1>1
    <2> QED
        BY <1>3, <2>1 DEF Stays
<1> HIDE DEF f
<1>5. PICK h : Recursion(h, Nat, 1, TopN, f)
    BY <1>1, <1>4, RecursionExists
<1>6. h[0] = 1 /\ h \in [0..TopN -> Nat] /\ \A k \in 1..TopN : h[k] = h[k - 1] * (RrfK + k)
    <2>1. \A k \in 1..TopN : k - 1 \in 0..TopN
        BY <1>1
    <2> QED
        BY <1>3, <1>5, <2>1 DEF Recursion
<1>7. Is(product)
    <2>1. h = [k \in 0..TopN |-> h[k]]
        BY <1>6
    <2>2. \A k \in 0..TopN : h[k] = IF k = 0 THEN 1 ELSE h[k - 1] * (RrfK + k)
        BY <1>1, <1>6
    <2>3. Is(h)
        BY <2>1, <2>2
    <2> HIDE DEF Is
    <2> QED
        BY <2>3 DEF product
<1>8. \A k \in 0..TopN : product[k] = IF k = 0 THEN 1 ELSE product[k - 1] * (RrfK + k)
    BY <1>7
<1> DEFINE T == {k \in 0..TopN : product[k] \in Nat}
<1>9. 0 \in T
    BY <1>1, <1>8
<1>10. ASSUME NEW k \in 0..(TopN - 1), k \in T PROVE k + 1 \in T
    <2>1. k + 1 \in 0..TopN /\ k + 1 # 0 /\ (k + 1) - 1 = k
        BY <1>1
    <2>2. product[k + 1] = product[k] * (RrfK + (k + 1))
        BY <1>8, <2>1
    <2>3. \A x, y \in Nat : x * y \in Nat
        OBVIOUS
    <2> QED
        BY <1>1, <1>10, <2>1, <2>2, <2>3
<1> HIDE DEF T
<1>11. 0..TopN \subseteq T
    BY <1>1, <1>9, <1>10, UpTo
<1>12. TopN \in T
    BY <1>1, <1>11
<1> QED
    BY <1>2, <1>12 DEF T

\* A repository of the tables: every match is one of its chunks, and listed once.
IsTable(t) == t.size \in Nat /\ t.matches \in Seq(1..t.size) /\ Distinct(t.matches)

\* A list that is cut is the beginning of it.
LEMMA CutList ==
    ASSUME NEW X, NEW s \in Seq(X), NEW n \in 0..Len(s)
    PROVE  /\ SubSeq(s, 1, n) \in Seq(X) /\ Len(SubSeq(s, 1, n)) = n
           /\ \A i \in 1..n : SubSeq(s, 1, n)[i] = s[i]
<1>1. n \in Int /\ 1 \in Int /\ \A i \in 1..n : s[i] \in X
    OBVIOUS
<1> QED
    BY <1>1, SubSeqProperties

LEMMA CutDistinct ==
    ASSUME NEW X, NEW s \in Seq(X), NEW n \in 0..Len(s), Distinct(s)
    PROVE  Distinct(SubSeq(s, 1, n))
<1>1. /\ Len(SubSeq(s, 1, n)) = n /\ \A i \in 1..n : SubSeq(s, 1, n)[i] = s[i]
    BY CutList
<1>2. 1..n \subseteq 1..Len(s)
    OBVIOUS
<1> QED
    BY <1>1, <1>2 DEF Distinct

LEMMA AtMostIsLess ==
    ASSUME NEW n \in Nat
    PROVE  /\ AtMost(n) \in 0..n /\ AtMost(n) \in 0..TopN
           /\ n <= TopN => AtMost(n) = n
           /\ n >= TopN => AtMost(n) = TopN
BY RankingAssumption DEF AtMost

\* Both ranked lists of a repository are lists of different chunks of it.
LEMMA RowsAreDistinct ==
    ASSUME NEW t, IsTable(t)
    PROVE  /\ VectorRows(t) \in Seq(1..t.size) /\ Distinct(VectorRows(t))
           /\ ToSet(VectorRows(t)) = 1..AtMost(t.size)
           /\ Bm25Rows(t) \in Seq(1..t.size) /\ Distinct(Bm25Rows(t))
           /\ Len(Bm25Rows(t)) = AtMost(Len(t.matches))
<1>1. t.size \in Nat /\ t.matches \in Seq(1..t.size) /\ Distinct(t.matches) /\ Len(t.matches) \in Nat
    BY DEF IsTable
<1>2. AtMost(t.size) \in 0..t.size /\ AtMost(Len(t.matches)) \in 0..Len(t.matches)
    BY <1>1, AtMostIsLess
<1> DEFINE m == AtMost(t.size)
           v == [i \in 1..m |-> i]
<1>3. m \in Nat /\ 1..m \subseteq 1..t.size
    BY <1>1, <1>2
<1> HIDE DEF m
<1>4. v \in Seq(1..t.size) /\ Len(v) = m /\ DOMAIN v = 1..m
    BY <1>3
<1>5. Distinct(v) /\ ToSet(v) = 1..m
    BY <1>3, <1>4 DEF Distinct, ToSet
<1>6. VectorRows(t) = v
    BY DEF VectorRows, m
<1> HIDE DEF v
<1>7. Bm25Rows(t) \in Seq(1..t.size) /\ Distinct(Bm25Rows(t)) /\ Len(Bm25Rows(t)) = AtMost(Len(t.matches))
    BY <1>1, <1>2, CutList, CutDistinct DEF Bm25Rows
<1> QED
    BY <1>4, <1>5, <1>6, <1>7 DEF m

\* A list of different numbers up to n is no longer than n.
LEMMA MatchesFit ==
    ASSUME NEW n \in Nat, NEW s \in Seq(1..n), Distinct(s)
    PROVE  Len(s) <= n
<1>1. Cardinality(ToSet(s)) = Len(s)
    BY DistinctCount
<1>2. ToSet(s) \in SUBSET (1..n)
    BY DEF ToSet
<1>3. IsFiniteSet(1..n) /\ Cardinality(1..n) = n
    BY IntervalCount
<1> QED
    BY <1>1, <1>2, <1>3, FS_Subset

LEMMA ContributionIsNumber == ASSUME NEW rank \in Nat, rank # 0 PROVE Contribution(rank) \in Nat
<1> DEFINE a == Scale
           b == RrfK + rank
<1>1. a \in Nat /\ b \in Nat /\ b > 0
    BY ScaleIsNumber, RankingAssumption
<1> HIDE DEF a, b
<1>2. a \div b \in Nat
    BY <1>1
<1> QED
    BY <1>2 DEF Contribution, a, b

\* What one list contributes to the score of a chunk.
Part(s, x) == IF x \in ToSet(s) THEN Contribution(RankIn(s, x)) ELSE 0

LEMMA PartIsNumber == ASSUME NEW X, NEW s \in Seq(X), NEW x PROVE Part(s, x) \in Nat
<1>1. CASE x \in ToSet(s)
    <2>1. \E i \in DOMAIN s : s[i] = x
        BY <1>1 DEF ToSet
    <2>2. RankIn(s, x) \in DOMAIN s
        BY <2>1 DEF RankIn
    <2>3. RankIn(s, x) \in Nat /\ RankIn(s, x) # 0
        BY <2>2
    <2>4. Contribution(RankIn(s, x)) \in Nat
        BY <2>3, ContributionIsNumber
    <2> QED
        BY <1>1, <2>4 DEF Part
<1>2. CASE x \notin ToSet(s)
    BY <1>2 DEF Part
<1> QED
    BY <1>1, <1>2

LEMMA ScoreIsSum ==
    ASSUME NEW X, NEW v \in Seq(X), NEW b \in Seq(X), NEW x
    PROVE  /\ RrfScore(v, b, x) \in Nat
           /\ SumOf([l \in {1, 2} |-> IF x \in ToSet(<<v, b>>[l]) THEN Contribution(RankIn(<<v, b>>[l], x)) ELSE 0])
                = RrfScore(v, b, x)
<1> DEFINE lists == <<v, b>>
           parts == [l \in {1, 2} |-> IF x \in ToSet(lists[l]) THEN Contribution(RankIn(lists[l], x)) ELSE 0]
<1>1. Part(v, x) \in Nat /\ Part(b, x) \in Nat
    BY PartIsNumber
<1>2. RrfScore(v, b, x) = Part(v, x) + Part(b, x)
    BY DEF RrfScore, Part
<1>3. parts[1] = Part(v, x) /\ parts[2] = Part(b, x)
    BY DEF Part
<1>4. parts = [l \in {1, 2} |-> parts[l]]
    OBVIOUS
<1> DEFINE p == parts
<1>5. p = [l \in {1, 2} |-> p[l]] /\ p[1] = Part(v, x) /\ p[2] = Part(b, x)
    BY <1>3, <1>4
<1> HIDE DEF p
<1>6. p = [l \in 1..2 |-> p[l]] /\ \A l \in 1..2 : p[l] \in Nat
    <2>1. 1..2 = {1, 2}
        OBVIOUS
    <2> QED
        BY <1>1, <1>5, <2>1
<1>7. p \in Seq(Nat) /\ Len(p) = 2
    BY <1>6
<1>8. SumOf(p) = Sum(p)[2] /\ Sum(p)[0] = 0 /\ \A k \in 1..2 : Sum(p)[k] = Sum(p)[k - 1] + p[k]
    BY <1>7, SumExists
<1>9. Sum(p)[1] = Sum(p)[0] + p[1] /\ Sum(p)[2] = Sum(p)[1] + p[2]
    BY <1>8
<1>10. SumOf(p) = Part(v, x) + Part(b, x)
    BY <1>1, <1>5, <1>8, <1>9
<1> QED
    BY <1>1, <1>2, <1>10 DEF p

\* A sorted list has the elements of the list, as often, by descending keys.
LEMMA SortKeepsElements ==
    ASSUME NEW X, NEW s \in Seq(X), NEW keys, DOMAIN keys = 1..Len(s), \A i \in 1..Len(s) : keys[i] \in Nat
    PROVE  \E order \in [1..Len(s) -> 1..Len(s)] :
              /\ Sorts(order, Len(s), keys)
              /\ StablySorted(s, keys) = [k \in 1..Len(s) |-> s[order[k]]]
              /\ StablySorted(s, keys) \in Seq(X) /\ Len(StablySorted(s, keys)) = Len(s)
              /\ ToSet(StablySorted(s, keys)) = ToSet(s)
<1> DEFINE n == Len(s)
           sorted == StablySorted(s, keys)
<1>1. n \in Nat /\ DOMAIN s = 1..n /\ \A i \in 1..n : s[i] \in X
    OBVIOUS
<1>2. \A i \in 1..n : keys[i] \in Nat
    OBVIOUS
<1> HIDE DEF n
<1>3. PICK order : Sorts(order, n, keys) /\ sorted = [k \in 1..n |-> s[order[k]]]
    <2>1. DOMAIN keys = 1..n
        BY DEF n
    <2>2. \E order : Sorts(order, n, keys) /\ Permuted(StablySorted(s, keys), order, n, s)
        <3>1. n \in Nat /\ DOMAIN s = 1..n
            BY <1>1
        <3> QED
            BY <1>2, <2>1, <3>1, SortIsStable
    <2> QED
        BY <2>2 DEF Permuted
<1>4. order \in [1..n -> 1..n] /\ \A i \in 1..n : \E k \in 1..n : order[k] = i
    BY <1>3 DEF Sorts
<1> HIDE DEF sorted
<1>5. sorted \in Seq(X) /\ Len(sorted) = n /\ DOMAIN sorted = 1..n
    <2>1. \A k \in 1..n : s[order[k]] \in X
        BY <1>1, <1>4
    <2> QED
        BY <1>1, <1>3, <2>1
<1>6. ToSet(sorted) = ToSet(s)
    <2>1. \A x : x \in ToSet(sorted) <=> \E k \in 1..n : x = s[order[k]]
        BY <1>3, <1>5 DEF ToSet
    <2>2. \A x : x \in ToSet(s) <=> \E i \in 1..n : x = s[i]
        BY <1>1 DEF ToSet
    <2> QED
        BY <1>4, <2>1, <2>2
<1> QED
    BY <1>3, <1>4, <1>5, <1>6 DEF n, sorted

\* The fused list before it is cut: the chunks of both lists, by descending scores.
IsRanked(s, t) ==
    LET v == VectorRows(t)
        b == Bm25Rows(t)
    IN  /\ s \in Seq(1..t.size) /\ Distinct(s) /\ ToSet(s) = ToSet(v) \cup ToSet(b)
        /\ \A i, j \in 1..Len(s) : i < j => RrfScore(v, b, s[i]) >= RrfScore(v, b, s[j])

LEMMA FusedIsCut ==
    ASSUME NEW r, NEW t, IsTable(t)
    PROVE  \E s : /\ IsRanked(s, t)
                  /\ Fused(r, t) = [i \in 1..AtMost(Len(s)) |->
                          [repo |-> r, chunk |-> s[i], score |-> RrfScore(VectorRows(t), Bm25Rows(t), s[i])]]
<1> DEFINE v == VectorRows(t)
           b == Bm25Rows(t)
           X == 1..t.size
           merged == Merged(v, b)
           keys == [i \in DOMAIN merged |-> RrfScore(v, b, merged[i])]
           s == StablySorted(merged, keys)
<1>1. v \in Seq(X) /\ b \in Seq(X) /\ Distinct(v) /\ Distinct(b)
    BY RowsAreDistinct
<1>2. Fused(r, t) = [i \in 1..AtMost(Len(s)) |-> [repo |-> r, chunk |-> s[i], score |-> RrfScore(v, b, s[i])]]
    BY Zenon DEF Fused
<1> HIDE DEF v, b, X
<1>3. merged \in Seq(X) /\ Distinct(merged) /\ ToSet(merged) = ToSet(v) \cup ToSet(b)
    BY <1>1, MergedIsUnion
<1>4. \A x : RrfScore(v, b, x) \in Nat
    BY <1>1, ScoreIsSum
<1> HIDE DEF merged
<1>5. /\ DOMAIN keys = 1..Len(merged) /\ Len(merged) \in Nat
      /\ \A i \in 1..Len(merged) : keys[i] = RrfScore(v, b, merged[i]) /\ keys[i] \in Nat
    BY <1>3, <1>4
<1> HIDE DEF keys
<1>6. PICK order \in [1..Len(merged) -> 1..Len(merged)] :
              /\ Sorts(order, Len(merged), keys)
              /\ s = [k \in 1..Len(merged) |-> merged[order[k]]]
              /\ s \in Seq(X) /\ Len(s) = Len(merged) /\ ToSet(s) = ToSet(merged)
    BY <1>3, <1>5, SortKeepsElements
<1> HIDE DEF s
<1>7. \A i, j \in 1..Len(s) : i < j => order[i] # order[j] /\ keys[order[i]] >= keys[order[j]]
    BY <1>6 DEF Sorts
<1>8. \A i \in 1..Len(s) : order[i] \in 1..Len(merged) /\ s[i] = merged[order[i]]
    BY <1>6
<1>9. Distinct(s)
    <2> SUFFICES ASSUME NEW i \in 1..Len(s), NEW j \in 1..Len(s), s[i] = s[j] PROVE i = j
        BY DEF Distinct
    <2>1. order[i] = order[j]
        BY <1>3, <1>8 DEF Distinct
    <2>2. i \in Int /\ j \in Int
        OBVIOUS
    <2> QED
        BY <1>7, <2>1, <2>2
<1>10. \A i, j \in 1..Len(s) : i < j => RrfScore(v, b, s[i]) >= RrfScore(v, b, s[j])
    <2> SUFFICES ASSUME NEW i \in 1..Len(s), NEW j \in 1..Len(s), i < j
                 PROVE  RrfScore(v, b, s[i]) >= RrfScore(v, b, s[j])
        OBVIOUS
    <2>1. keys[order[i]] >= keys[order[j]]
        BY <1>7
    <2>2. keys[order[i]] = RrfScore(v, b, s[i]) /\ keys[order[j]] = RrfScore(v, b, s[j])
        BY <1>5, <1>8
    <2> QED
        BY <2>1, <2>2
<1>11. IsRanked(s, t)
    BY <1>3, <1>6, <1>9, <1>10 DEF IsRanked, v, b, X
<1> QED
    BY <1>2, <1>11 DEF v, b

\* Rank fusion, for every table, RRF_K and RERANK_TOP_N: reciprocalRankFusion() returns the
\* TopN chunks of the highest summed reciprocal ranks, each once, best first.
THEOREM FusionIsExact ==
    ASSUME NEW r, NEW t, IsTable(t)
    PROVE  IsFusion(t, Fused(r, t))
<1> DEFINE v == VectorRows(t)
           b == Bm25Rows(t)
           lists == <<v, b>>
           all == UNION {ToSet(lists[l]) : l \in {1, 2}}
           Score(x) == SumOf([l \in {1, 2} |->
                              IF x \in ToSet(lists[l]) THEN Contribution(RankIn(lists[l], x)) ELSE 0])
           f == Fused(r, t)
           in == {f[i].chunk : i \in DOMAIN f}
<1>1. v \in Seq(1..t.size) /\ b \in Seq(1..t.size)
    BY RowsAreDistinct
<1>2. \A x : Score(x) = RrfScore(v, b, x) /\ Score(x) \in Nat
    <2> TAKE x
    <2> HIDE DEF v, b
    <2>1. RrfScore(v, b, x) \in Nat /\ Score(x) = RrfScore(v, b, x)
        BY <1>1, ScoreIsSum
    <2> QED
        BY <2>1
<1>3. all = ToSet(v) \cup ToSet(b)
    <2>1. lists[1] = v /\ lists[2] = b
        OBVIOUS
    <2> HIDE DEF lists
    <2>2. all = ToSet(lists[1]) \cup ToSet(lists[2])
        OBVIOUS
    <2> QED
        BY <2>1, <2>2
<1>4. PICK s : /\ IsRanked(s, t)
               /\ f = [i \in 1..AtMost(Len(s)) |-> [repo |-> r, chunk |-> s[i], score |-> RrfScore(v, b, s[i])]]
    BY FusedIsCut
<1>5. /\ s \in Seq(1..t.size) /\ Distinct(s) /\ ToSet(s) = all
      /\ \A i, j \in 1..Len(s) : i < j => RrfScore(v, b, s[i]) >= RrfScore(v, b, s[j])
    BY <1>3, <1>4 DEF IsRanked
<1>6. SUFFICES
         /\ in \subseteq all
         /\ Len(f) = AtMost(Cardinality(all)) /\ Cardinality(in) = Len(f)
         /\ \A x \in all \ in, y \in in : Score(x) <= Score(y)
         /\ \A i, j \in DOMAIN f : i < j => Score(f[i].chunk) >= Score(f[j].chunk)
    BY Zenon DEF IsFusion
<1> HIDE DEF v, b, lists, all, Score, f
<1>7. Len(s) \in Nat /\ DOMAIN s = 1..Len(s) /\ Cardinality(all) = Len(s)
    BY <1>5, DistinctCount
<1> DEFINE n == AtMost(Len(s))
           cut == SubSeq(s, 1, n)
<1>8. n \in 0..Len(s) /\ n \in Nat
    BY <1>7, AtMostIsLess
<1> HIDE DEF n
<1>9. /\ cut \in Seq(1..t.size) /\ Len(cut) = n /\ Distinct(cut)
      /\ \A i \in 1..n : cut[i] = s[i]
    BY <1>5, <1>8, CutList, CutDistinct
<1> HIDE DEF cut
<1>10. DOMAIN f = 1..n /\ Len(f) = n /\ \A i \in 1..n : f[i].chunk = s[i]
    <2>1. f = [i \in 1..n |-> [repo |-> r, chunk |-> s[i], score |-> RrfScore(v, b, s[i])]]
        BY <1>4 DEF n
    <2> QED
        BY <1>8, <2>1
<1>11. in = ToSet(cut)
    <2>1. DOMAIN cut = 1..n
        BY <1>9
    <2> QED
        BY <1>9, <1>10, <2>1 DEF ToSet
<1>12. Cardinality(in) = Len(f)
    BY <1>9, <1>10, <1>11, DistinctCount
<1>13. \A x : x \in all <=> \E i \in 1..Len(s) : x = s[i]
    BY <1>5, <1>7 DEF ToSet
<1>14. in \subseteq all
    BY <1>8, <1>10, <1>13
<1>15. \A x \in all \ in, y \in in : Score(x) <= Score(y)
    <2> SUFFICES ASSUME NEW x \in all, x \notin in, NEW y \in in PROVE Score(x) <= Score(y)
        OBVIOUS
    <2>1. PICK j \in 1..Len(s) : x = s[j]
        BY <1>13
    <2>2. PICK i \in 1..n : y = s[i]
        BY <1>10
    <2>3. ~(j <= n)
        BY <1>10, <2>1
    <2>4. i < j /\ i \in 1..Len(s)
        BY <1>8, <2>3
    <2>5. RrfScore(v, b, y) >= RrfScore(v, b, x)
        BY <1>5, <2>1, <2>2, <2>4
    <2> QED
        BY <1>2, <2>5
<1>16. \A i, j \in DOMAIN f : i < j => Score(f[i].chunk) >= Score(f[j].chunk)
    <2> SUFFICES ASSUME NEW i \in 1..n, NEW j \in 1..n, i < j PROVE Score(f[i].chunk) >= Score(f[j].chunk)
        BY <1>10
    <2>1. i \in 1..Len(s) /\ j \in 1..Len(s)
        BY <1>8
    <2>2. RrfScore(v, b, s[i]) >= RrfScore(v, b, s[j])
        BY <1>5, <2>1
    <2> QED
        BY <1>2, <1>10, <2>2
<1> QED
    BY <1>7, <1>10, <1>12, <1>14, <1>15, <1>16 DEF n

\* The tables of the repositories that are searched.
AreTables(tables) ==
    \E n \in Nat : DOMAIN tables = 1..n /\ \A r \in 1..n : IsTable(tables[r])

RowsOf(R) == [repo : R, chunk : Nat, score : Nat]

LEMMA FusedRows ==
    ASSUME NEW R, NEW r \in R, NEW t, IsTable(t)
    PROVE  Fused(r, t) \in Seq(RowsOf(R))
<1> DEFINE v == VectorRows(t)
           b == Bm25Rows(t)
<1>1. PICK s : /\ IsRanked(s, t)
               /\ Fused(r, t) = [i \in 1..AtMost(Len(s)) |-> [repo |-> r, chunk |-> s[i], score |-> RrfScore(v, b, s[i])]]
    BY FusedIsCut
<1>2. s \in Seq(1..t.size) /\ t.size \in Nat
    BY <1>1 DEF IsRanked, IsTable
<1>3. v \in Seq(1..t.size) /\ b \in Seq(1..t.size)
    BY RowsAreDistinct
<1> HIDE DEF v, b
<1> DEFINE n == AtMost(Len(s))
           row(i) == [repo |-> r, chunk |-> s[i], score |-> RrfScore(v, b, s[i])]
<1>4. n \in 0..Len(s) /\ Len(s) \in Nat
    BY <1>2, AtMostIsLess
<1>5. ASSUME NEW i \in 1..n PROVE row(i) \in RowsOf(R)
    <2>1. i \in 1..Len(s)
        BY <1>4
    <2>2. s[i] \in Nat
        BY <1>2, <2>1
    <2>3. RrfScore(v, b, s[i]) \in Nat
        BY <1>3, ScoreIsSum
    <2> QED
        BY <2>2, <2>3 DEF RowsOf
<1>6. Fused(r, t) = [i \in 1..n |-> row(i)] /\ n \in Nat
    BY <1>1, <1>4
<1> HIDE DEF n, row
<1> QED
    BY <1>5, <1>6

LEMMA ListHasElements ==
    ASSUME NEW X, NEW s \in Seq(X)
    PROVE  Len(s) \in Nat /\ DOMAIN s = 1..Len(s) /\ \A i \in 1..Len(s) : s[i] \in X
OBVIOUS

LEMMA TermsAreList ==
    ASSUME NEW S, NEW n \in Nat, NEW a, a = [i \in 1..n |-> a[i]], \A i \in 1..n : a[i] \in S
    PROVE  a \in Seq(S) /\ Len(a) = n
OBVIOUS

\* What the totals count of a repository, and what its fused list has.
LEMMA FusedCount ==
    ASSUME NEW r, NEW t, IsTable(t)
    PROVE  /\ Bm25Only(t) \in Nat /\ Len(Fused(r, t)) \in Nat
           /\ t.size <= TopN =>
                 /\ Bm25Only(t) = 0 /\ Len(Fused(r, t)) = t.size
                 /\ \A x \in 1..t.size : \E i \in 1..Len(Fused(r, t)) : Fused(r, t)[i].repo = r /\ Fused(r, t)[i].chunk = x
           /\ t.size > TopN => Len(Fused(r, t)) = TopN
<1> DEFINE v == VectorRows(t)
           b == Bm25Rows(t)
           m == t.size
           q == Len(t.matches)
           shared == {i \in DOMAIN b : b[i] \in ToSet(v)}
           f == Fused(r, t)
<1>1. /\ m \in Nat /\ q \in Nat /\ TopN \in Nat /\ q <= m
    BY MatchesFit, RankingAssumption DEF IsTable
<1>2. /\ v \in Seq(1..m) /\ ToSet(v) = 1..AtMost(m)
      /\ b \in Seq(1..m) /\ Len(b) = AtMost(q)
    BY RowsAreDistinct
<1>3. PICK s : /\ IsRanked(s, t)
               /\ f = [i \in 1..AtMost(Len(s)) |-> [repo |-> r, chunk |-> s[i], score |-> RrfScore(v, b, s[i])]]
    BY FusedIsCut
<1>4. s \in Seq(1..m) /\ Distinct(s) /\ ToSet(s) = ToSet(v) \cup ToSet(b)
    BY <1>3 DEF IsRanked
<1>5. Bm25Only(t) = IF q > Cardinality(shared) THEN q - Cardinality(shared) ELSE 0
    BY Zenon DEF Bm25Only
<1> HIDE DEF v, b, m, q, shared, f
<1>6. DOMAIN b = 1..Len(b) /\ Len(b) \in Nat /\ \A i \in DOMAIN b : b[i] \in 1..m
    BY <1>2, ListHasElements
<1>7. IsFiniteSet(shared) /\ Cardinality(shared) \in Nat
    <2>1. IsFiniteSet(1..Len(b))
        BY <1>6, IntervalCount
    <2>2. shared \in SUBSET (1..Len(b))
        BY <1>6 DEF shared
    <2> QED
        BY <2>1, <2>2, FS_Subset, FS_CardinalityType
<1>8. Bm25Only(t) \in Nat
    BY <1>1, <1>5, <1>7
<1>9. Len(s) \in Nat /\ DOMAIN s = 1..Len(s) /\ IsFiniteSet(ToSet(s)) /\ Cardinality(ToSet(s)) = Len(s)
    BY <1>4, ListHasElements, DistinctCount
<1> DEFINE n == AtMost(Len(s))
<1>10. n \in Nat /\ (Len(s) <= TopN => n = Len(s)) /\ (Len(s) >= TopN => n = TopN)
    BY <1>9, AtMostIsLess
<1>11. Len(f) = n /\ \A i \in 1..n : f[i].repo = r /\ f[i].chunk = s[i]
    BY <1>3, <1>10
<1> HIDE DEF n
<1>12. ToSet(b) \subseteq 1..m
    BY <1>6 DEF ToSet
<1>13. ASSUME m <= TopN
       PROVE  /\ Bm25Only(t) = 0 /\ Len(f) = m
              /\ \A x \in 1..m : \E i \in 1..Len(f) : f[i].repo = r /\ f[i].chunk = x
    <2>1. AtMost(m) = m /\ AtMost(q) = q
        BY <1>1, <1>13, AtMostIsLess
    <2>2. shared = 1..q
        BY <1>2, <1>6, <2>1 DEF shared
    <2>3. Bm25Only(t) = 0
        <3>1. Cardinality(shared) = q
            BY <1>1, <2>2, IntervalCount
        <3> QED
            BY <1>1, <1>5, <3>1
    <2>4. ToSet(s) = 1..m
        BY <1>2, <1>4, <1>12, <2>1
    <2>5. Len(s) = m
        BY <1>1, <1>9, <2>4, IntervalCount
    <2>6. n = m /\ Len(f) = m
        BY <1>10, <1>11, <1>13, <2>5
    <2>7. \A x \in 1..m : \E i \in 1..m : s[i] = x
        BY <1>9, <2>4, <2>5 DEF ToSet
    <2> QED
        BY <1>11, <2>3, <2>6, <2>7
<1>14. ASSUME m > TopN PROVE Len(f) = TopN
    <2>1. AtMost(m) = TopN
        BY <1>1, <1>14, AtMostIsLess
    <2>2. 1..TopN \in SUBSET ToSet(s)
        BY <1>2, <1>4, <2>1
    <2>3. Cardinality(1..TopN) = TopN
        BY <1>1, IntervalCount
    <2>4. TopN <= Len(s)
        BY <1>9, <2>2, <2>3, FS_Subset
    <2> QED
        BY <1>9, <1>10, <1>11, <1>1, <2>4
<1> QED
    BY <1>8, <1>10, <1>11, <1>13, <1>14 DEF f, m

\* Two sums whose terms are equal, or both large, are equal, or both large.
LEMMA SumsAgree ==
    ASSUME NEW a \in Seq(Nat), NEW b \in Seq(Nat), Len(a) = Len(b), NEW T \in Nat,
           \A i \in 1..Len(a) : a[i] = b[i] \/ (a[i] >= T /\ b[i] >= T)
    PROVE  SumOf(a) \in Nat /\ SumOf(b) \in Nat /\ (SumOf(a) = SumOf(b) \/ (SumOf(a) >= T /\ SumOf(b) >= T))
<1> DEFINE n == Len(a)
<1>1. n \in Nat /\ Len(b) = n /\ \A i \in 1..n : a[i] \in Nat /\ b[i] \in Nat
    OBVIOUS
<1>2. /\ SumOf(a) = Sum(a)[n] /\ Sum(a) \in [0..n -> Nat] /\ Sum(a)[0] = 0
      /\ \A k \in 1..n : Sum(a)[k] = Sum(a)[k - 1] + a[k]
    BY SumExists
<1>3. /\ SumOf(b) = Sum(b)[n] /\ Sum(b) \in [0..n -> Nat] /\ Sum(b)[0] = 0
      /\ \A k \in 1..n : Sum(b)[k] = Sum(b)[k - 1] + b[k]
    BY <1>1, SumExists
<1>4. \A i \in 1..n : a[i] = b[i] \/ (a[i] >= T /\ b[i] >= T)
    OBVIOUS
<1> HIDE DEF n
<1> DEFINE U == {k \in 0..n : Sum(a)[k] = Sum(b)[k] \/ (Sum(a)[k] >= T /\ Sum(b)[k] >= T)}
<1>5. 0 \in U
    BY <1>1, <1>2, <1>3
<1>6. ASSUME NEW k \in 0..(n - 1), k \in U PROVE k + 1 \in U
    <2>1. k + 1 \in 1..n /\ k + 1 \in 0..n /\ k \in 0..n /\ (k + 1) - 1 = k
        BY <1>1
    <2>2. Sum(a)[k + 1] = Sum(a)[k] + a[k + 1] /\ Sum(b)[k + 1] = Sum(b)[k] + b[k + 1]
        BY <1>2, <1>3, <2>1
    <2>3. Sum(a)[k] \in Nat /\ Sum(b)[k] \in Nat /\ a[k + 1] \in Nat /\ b[k + 1] \in Nat
        BY <1>1, <1>2, <1>3, <2>1
    <2>4. a[k + 1] = b[k + 1] \/ (a[k + 1] >= T /\ b[k + 1] >= T)
        BY <1>4, <2>1
    <2>5. Sum(a)[k] = Sum(b)[k] \/ (Sum(a)[k] >= T /\ Sum(b)[k] >= T)
        BY <1>6
    <2>6. \/ Sum(a)[k + 1] = Sum(b)[k + 1]
          \/ Sum(a)[k + 1] >= T /\ Sum(b)[k + 1] >= T
        <3> DEFINE w == Sum(a)[k]
                   x == Sum(b)[k]
                   y == a[k + 1]
                   z == b[k + 1]
        <3>1. /\ w \in Nat /\ x \in Nat /\ y \in Nat /\ z \in Nat /\ T \in Nat
              /\ w = x \/ (w >= T /\ x >= T)
              /\ y = z \/ (y >= T /\ z >= T)
            BY <2>3, <2>4, <2>5
        <3> HIDE DEF w, x, y, z
        <3>2. w + y = x + z \/ (w + y >= T /\ x + z >= T)
            BY <3>1
        <3> QED
            BY <2>2, <3>2 DEF w, x, y, z
    <2> QED
        BY <2>1, <2>6
<1> HIDE DEF U
<1>7. n \in U /\ n \in 0..n
    <2>1. 0..n \subseteq U
        BY <1>1, <1>5, <1>6, UpTo
    <2> QED
        BY <1>1, <2>1
<1> QED
    BY <1>2, <1>3, <1>7 DEF U

\* The fused lists of all repositories, one after the other.
LEMMA FusedOfAll ==
    ASSUME NEW tables, NEW n \in Nat, DOMAIN tables = 1..n, \A r \in 1..n : IsTable(tables[r])
    PROVE  /\ AllFused(tables) \in Seq(RowsOf(1..n))
           /\ ToSet(AllFused(tables)) = UNION {ToSet(Fused(r, tables[r])) : r \in 1..n}
           /\ Len(AllFused(tables)) = SumOf([r \in 1..n |-> Len(Fused(r, tables[r]))])
<1> DEFINE X == RowsOf(1..n)
           g == [r \in 1..n |-> Fused(r, tables[r])]
<1>1. \A r \in 1..n : Fused(r, tables[r]) \in Seq(X)
    <2> TAKE r \in 1..n
    <2>1. IsTable(tables[r])
        OBVIOUS
    <2> QED
        BY <2>1, FusedRows
<1>2. AllFused(tables) = FlattenSeq(g)
    BY DEF AllFused
<1> HIDE DEF X
<1>3. g \in Seq(Seq(X)) /\ DOMAIN g = 1..n /\ \A r \in 1..n : g[r] = Fused(r, tables[r])
    BY <1>1
<1> HIDE DEF g
<1>4. /\ FlattenSeq(g) \in Seq(X)
      /\ ToSet(FlattenSeq(g)) = UNION {ToSet(g[r]) : r \in DOMAIN g}
      /\ Len(FlattenSeq(g)) = SumOf([r \in DOMAIN g |-> Len(g[r])])
    BY <1>3, FlattenRange, FlattenLength
<1>5. [r \in DOMAIN g |-> Len(g[r])] = [r \in 1..n |-> Len(Fused(r, tables[r]))]
    BY <1>3
<1>6. UNION {ToSet(g[r]) : r \in DOMAIN g} = UNION {ToSet(Fused(r, tables[r])) : r \in 1..n}
    BY <1>3
<1> QED
    BY <1>2, <1>4, <1>5, <1>6 DEF X

\* The candidates before they are cut.
LEMMA CandidatesAreCut ==
    ASSUME NEW tables, NEW n \in Nat, DOMAIN tables = 1..n, \A r \in 1..n : IsTable(tables[r])
    PROVE  \E s \in Seq(RowsOf(1..n)) :
              /\ Len(s) = Len(AllFused(tables)) /\ ToSet(s) = ToSet(AllFused(tables))
              /\ Candidates(tables) = SubSeq(s, 1, AtMost(Len(s)))
<1> DEFINE X == RowsOf(1..n)
           fused == AllFused(tables)
           keys == [i \in DOMAIN fused |-> fused[i].score]
           s == StablySorted(fused, keys)
<1>1. Candidates(tables) = SubSeq(s, 1, AtMost(Len(s)))
    BY Zenon DEF Candidates
<1>2. fused \in Seq(X)
    BY FusedOfAll
<1>3. \A x \in X : x.score \in Nat
    BY DEF RowsOf
<1> HIDE DEF X, fused
<1>4. DOMAIN keys = 1..Len(fused) /\ \A i \in 1..Len(fused) : keys[i] \in Nat
    <2>1. DOMAIN fused = 1..Len(fused) /\ \A i \in 1..Len(fused) : fused[i] \in X
        BY <1>2
    <2> QED
        BY <1>3, <2>1
<1> HIDE DEF keys
<1>5. s \in Seq(X) /\ Len(s) = Len(fused) /\ ToSet(s) = ToSet(fused)
    BY <1>2, <1>4, SortKeepsElements
<1> HIDE DEF s
<1> QED
    BY <1>1, <1>5 DEF X, fused

\* The total that findChunks() computes from the tables is the number of its candidates.
LEMMA TotalIsCount ==
    ASSUME NEW tables, AreTables(tables)
    PROVE  Total(tables) = Len(Candidates(tables))
<1>1. PICK n \in Nat : DOMAIN tables = 1..n /\ \A r \in 1..n : IsTable(tables[r])
    BY DEF AreTables
<1> DEFINE a == [r \in 1..n |-> tables[r].size + Bm25Only(tables[r])]
           b == [r \in 1..n |-> Len(Fused(r, tables[r]))]
<1>2. ASSUME NEW r \in 1..n
      PROVE  /\ a[r] \in Nat /\ b[r] \in Nat
             /\ a[r] = b[r] \/ (a[r] >= TopN /\ b[r] >= TopN)
    <2> DEFINE t == tables[r]
    <2>1. IsTable(t)
        BY <1>1
    <2>2. a[r] = t.size + Bm25Only(t) /\ b[r] = Len(Fused(r, t))
        OBVIOUS
    <2>3. t.size \in Nat /\ TopN \in Nat
        BY <2>1, RankingAssumption DEF IsTable
    <2> HIDE DEF t
    <2>4. /\ Bm25Only(t) \in Nat /\ Len(Fused(r, t)) \in Nat
          /\ t.size <= TopN => Bm25Only(t) = 0 /\ Len(Fused(r, t)) = t.size
          /\ t.size > TopN => Len(Fused(r, t)) = TopN
        BY <2>1, FusedCount
    <2> HIDE DEF a, b
    <2> QED
        BY <2>2, <2>3, <2>4
<1>3. a = [r \in 1..n |-> a[r]] /\ b = [r \in 1..n |-> b[r]]
    OBVIOUS
<1>4. RepoTotal(tables) = SumOf(a)
    BY <1>1 DEF RepoTotal
<1>5. Len(AllFused(tables)) = SumOf(b)
    BY <1>1, FusedOfAll
<1> HIDE DEF a, b
<1>6. a \in Seq(Nat) /\ b \in Seq(Nat) /\ Len(a) = n /\ Len(b) = n
    <2>1. (\A r \in 1..n : a[r] \in Nat) /\ \A r \in 1..n : b[r] \in Nat
        BY <1>2
    <2> QED
        BY <1>3, <2>1, TermsAreList
<1>7. TopN \in Nat
    BY RankingAssumption
<1>8. /\ SumOf(a) \in Nat /\ SumOf(b) \in Nat
      /\ SumOf(a) = SumOf(b) \/ (SumOf(a) >= TopN /\ SumOf(b) >= TopN)
    BY <1>2, <1>6, <1>7, SumsAgree
<1>9. Total(tables) = AtMost(SumOf(b))
    <2>1. CASE SumOf(a) = SumOf(b)
        BY <1>4, <2>1 DEF Total
    <2>2. CASE SumOf(a) >= TopN /\ SumOf(b) >= TopN
        BY <1>4, <1>8, <2>2, AtMostIsLess DEF Total
    <2> QED
        BY <1>8, <2>1, <2>2
<1>10. PICK s \in Seq(RowsOf(1..n)) :
              /\ Len(s) = Len(AllFused(tables)) /\ Candidates(tables) = SubSeq(s, 1, AtMost(Len(s)))
    BY <1>1, CandidatesAreCut
<1>11. AtMost(Len(s)) \in 0..Len(s)
    BY <1>10, AtMostIsLess
<1>12. Len(Candidates(tables)) = AtMost(Len(s))
    BY <1>10, <1>11, CutList
<1> QED
    BY <1>5, <1>9, <1>10, <1>12

\* The elements of a list after the first o, at most k of them.
Until(c, o) == IF o < Len(c) THEN o ELSE Len(c)
Slice(c, o, k) == IF o >= Len(c) THEN <<>> ELSE SubSeq(c, o + 1, Until(c, o + k))

LEMMA SliceExtends ==
    ASSUME NEW X, NEW c \in Seq(X), NEW o \in Nat, NEW k \in Nat
    PROVE  /\ Slice(c, o, k) \in Seq(X)
           /\ SubSeq(c, 1, Until(c, o)) \o Slice(c, o, k) = SubSeq(c, 1, Until(c, o + k))
<1> DEFINE n == Len(c)
           last == Until(c, o + k)
<1>1. n \in Nat /\ \A i \in 1..n : c[i] \in X
    BY ListHasElements
<1>2. Until(c, o) = (IF o < n THEN o ELSE n) /\ last = (IF o + k < n THEN o + k ELSE n)
    BY DEF Until
<1>3. Slice(c, o, k) = IF o >= n THEN <<>> ELSE SubSeq(c, o + 1, last)
    BY DEF Slice
<1> HIDE DEF n, last
<1>4. CASE o >= n
    <2>1. Until(c, o) = n /\ last = n /\ Slice(c, o, k) = <<>>
        BY <1>1, <1>2, <1>3, <1>4
    <2>2. SubSeq(c, 1, n) = c
        BY SubSeqFull DEF n
    <2>3. c \o <<>> = c /\ <<>> \in Seq(X)
        OBVIOUS
    <2> QED
        BY <2>1, <2>2, <2>3 DEF last
<1>5. CASE ~(o >= n)
    <2>1. Until(c, o) = o /\ last \in o..n /\ last \in Int /\ o + 1 \in Int /\ o \in 0..n
        BY <1>1, <1>2, <1>5
    <2>2. Slice(c, o, k) = SubSeq(c, o + 1, last)
        BY <1>3, <1>5
    <2>3. \A i \in (o + 1)..last : c[i] \in X
        <3>1. \A i \in (o + 1)..last : i \in 1..n
            BY <1>1, <2>1
        <3> QED
            BY <1>1, <3>1
    <2>4. SubSeq(c, o + 1, last) \in Seq(X)
        BY <2>1, <2>3, SubSeqProperties
    <2>5. SubSeq(c, 1, o) \o SubSeq(c, o + 1, last) = SubSeq(c, 1, last)
        <3>1. 1 \in 1..(Len(c) + 1) /\ o \in (1 - 1)..Len(c) /\ last \in o..Len(c)
            BY <1>1, <2>1 DEF n
        <3> QED
            BY <3>1, ConcatAdjacentSubSeq
    <2> QED
        BY <2>1, <2>2, <2>4, <2>5 DEF last
<1> QED
    BY <1>4, <1>5

\* The slices at 0, k, 2k, ... of a list are the list.
LEMMA SlicesAreList ==
    ASSUME NEW X, NEW c \in Seq(X), NEW k \in Nat, NEW m \in Nat, m * k >= Len(c)
    PROVE  FlattenSeq([p \in 1..m |-> Slice(c, (p - 1) * k, k)]) = c
<1> DEFINE g == [p \in 1..m |-> Slice(c, (p - 1) * k, k)]
           at == [p \in 0..m |-> p * k]
<1>1. /\ \A p \in 0..m : at[p] = p * k /\ at[p] \in Nat
      /\ at[0] = 0 /\ at[m] >= Len(c)
    OBVIOUS
<1>2. \A p \in 1..m : p - 1 \in 0..m /\ at[p] = at[p - 1] + k
    OBVIOUS
<1>3. \A p \in 1..m : g[p] = Slice(c, at[p - 1], k) /\ g[p] \in Seq(X)
    <2> TAKE p \in 1..m
    <2>1. g[p] = Slice(c, at[p - 1], k)
        BY <1>2
    <2>2. at[p - 1] \in Nat
        BY <1>1, <1>2
    <2> QED
        BY <2>1, <2>2, SliceExtends
<1>4. g \in Seq(Seq(X)) /\ Len(g) = m
    <2>1. g = [p \in 1..m |-> g[p]]
        OBVIOUS
    <2> HIDE DEF g
    <2> QED
        BY <1>3, <2>1, TermsAreList
<1> HIDE DEF g, at
<1>5. PICK h : Joined(h, g, m, X) /\ FlattenSeq(g) = h[m]
    BY <1>4, FlattenSteps
<1>6. h[0] = <<>> /\ \A p \in 1..m : h[p] = h[p - 1] \o g[p]
    BY <1>5 DEF Joined
<1> DEFINE T == {p \in 0..m : h[p] = SubSeq(c, 1, Until(c, at[p]))}
<1>7. 0 \in T
    <2>1. Until(c, at[0]) = 0
        BY <1>1, ListHasElements DEF Until
    <2>2. SubSeq(c, 1, 0) = <<>>
        <3>1. 1 \in Int /\ 0 \in Int /\ 0 < 1
            OBVIOUS
        <3> QED
            BY <3>1, SubSeqEmpty
    <2>3. 0 \in 0..m
        OBVIOUS
    <2> QED
        BY <1>6, <2>1, <2>2, <2>3
<1>8. ASSUME NEW p \in 0..(m - 1), p \in T PROVE p + 1 \in T
    <2>1. p + 1 \in 1..m /\ p + 1 \in 0..m /\ (p + 1) - 1 = p /\ p \in 0..m
        OBVIOUS
    <2>2. h[p + 1] = h[p] \o Slice(c, at[p], k)
        BY <1>3, <1>6, <2>1
    <2>3. h[p] = SubSeq(c, 1, Until(c, at[p])) /\ at[p] \in Nat /\ at[p + 1] = at[p] + k
        BY <1>1, <1>2, <1>8, <2>1
    <2>4. SubSeq(c, 1, Until(c, at[p])) \o Slice(c, at[p], k) = SubSeq(c, 1, Until(c, at[p] + k))
        BY <2>3, SliceExtends
    <2> QED
        BY <2>1, <2>2, <2>3, <2>4
<1> HIDE DEF T
<1>9. m \in T
    <2>1. 0..m \subseteq T
        BY <1>7, <1>8, UpTo
    <2> QED
        BY <2>1
<1>10. h[m] = SubSeq(c, 1, Len(c))
    <2>1. Until(c, at[m]) = Len(c)
        BY <1>1, ListHasElements DEF Until
    <2> QED
        BY <1>9, <2>1 DEF T
<1>11. SubSeq(c, 1, Len(c)) = c
    BY SubSeqFull
<1> QED
    BY <1>5, <1>10, <1>11 DEF g

LEMMA PagesSuffice ==
    ASSUME NEW n \in Nat, NEW k \in Nat, k # 0
    PROVE  (n + k - 1) \div k \in Nat /\ ((n + k - 1) \div k) * k >= n
<1> DEFINE a == n + k - 1
           q == a \div k
<1>1. a \in Nat /\ k > 0 /\ a >= n + k - 1
    OBVIOUS
<1> HIDE DEF a
<1>2. q \in Nat /\ a = (k * q) + (a % k) /\ a % k \in 0..(k - 1)
    BY <1>1
<1> HIDE DEF q
<1>3. k * q = q * k
    BY <1>2
<1>4. q * k \in Nat
    BY <1>2
<1> DEFINE qk == q * k
           r == a % k
<1>5. a = qk + r /\ r \in 0..(k - 1) /\ qk \in Nat
    BY <1>2, <1>3, <1>4
<1> HIDE DEF qk, r
<1>6. qk >= n
    BY <1>1, <1>5
<1> QED
    BY <1>2, <1>6 DEF a, q, qk

\* The pages of a query, for every tables and every page size: a client that walks the
\* offsets up to the total of findChunks() is given each candidate once and in order.
THEOREM PagesReturnCandidates ==
    ASSUME NEW tables, AreTables(tables), NEW k \in Nat \ {0}
    PROVE  WalkIsComplete(tables, k)
<1>1. PICK n \in Nat : DOMAIN tables = 1..n /\ \A r \in 1..n : IsTable(tables[r])
    BY DEF AreTables
<1> DEFINE X == RowsOf(1..n)
           c == Candidates(tables)
           m == (Len(c) + k - 1) \div k
           walk == FlattenSeq([p \in 1..m |-> PageOf(tables, (p - 1) * k, k)])
<1>2. PICK s \in Seq(X) : c = SubSeq(s, 1, AtMost(Len(s)))
    BY <1>1, CandidatesAreCut
<1>3. c \in Seq(X)
    <2> HIDE DEF X, c
    <2>1. AtMost(Len(s)) \in 0..Len(s)
        BY <1>2, ListHasElements, AtMostIsLess
    <2> QED
        BY <1>2, <2>1, CutList
<1>4. \A o : PageOf(tables, o, k) = Slice(c, o, k)
    BY DEF PageOf, Slice, Until
<1>5. Total(tables) = Len(c)
    BY TotalIsCount
<1>6. walk = FlattenSeq([p \in 1..m |-> Slice(c, (p - 1) * k, k)])
    BY <1>4
<1> HIDE DEF X, c
<1>7. Len(c) \in Nat
    BY <1>3, ListHasElements
<1>8. m \in Nat /\ m * k >= Len(c)
    BY <1>7, PagesSuffice
<1> HIDE DEF m
<1>9. FlattenSeq([p \in 1..m |-> Slice(c, (p - 1) * k, k)]) = c
    BY <1>3, <1>8, SlicesAreList
<1> HIDE DEF walk
<1>10. walk = c /\ Len(walk) = Total(tables)
    BY <1>5, <1>6, <1>9
<1> QED
    <2>1. (Total(tables) + k - 1) \div k = m
        BY <1>5 DEF m
    <2> QED
        BY <1>10, <2>1 DEF WalkIsComplete, walk, c

\* The flag of a response, for every tables: when findChunks() does not say `truncated`,
\* every chunk of every repository it searched was a candidate.
THEOREM FlagTellsTruth ==
    ASSUME NEW tables, AreTables(tables)
    PROVE  FlagIsHonest(tables)
<1>1. PICK n \in Nat : DOMAIN tables = 1..n /\ \A r \in 1..n : IsTable(tables[r])
    BY DEF AreTables
<1> SUFFICES ASSUME ~Truncated(tables), NEW r \in 1..n, NEW x \in 1..tables[r].size
             PROVE  \E i \in DOMAIN Candidates(tables) :
                       Candidates(tables)[i].repo = r /\ Candidates(tables)[i].chunk = x
    BY <1>1 DEF FlagIsHonest
<1> DEFINE c == Candidates(tables)
           all == AllFused(tables)
           t == tables[r]
           f == Fused(r, t)
<1>2. TopN \in Nat /\ t.size \in Nat /\ IsTable(t)
    BY <1>1, RankingAssumption DEF IsTable
<1>3. all \in Seq(RowsOf(1..n)) /\ ToSet(all) = UNION {ToSet(Fused(j, tables[j])) : j \in 1..n}
    BY <1>1, FusedOfAll
<1>4. Len(all) \in Nat
    BY <1>3, ListHasElements
<1>5. t.size <= TopN /\ Len(all) <= TopN
    BY <1>1, <1>2, <1>4 DEF Truncated
<1>6. PICK s \in Seq(RowsOf(1..n)) :
              Len(s) = Len(all) /\ ToSet(s) = ToSet(all) /\ c = SubSeq(s, 1, AtMost(Len(s)))
    BY <1>1, CandidatesAreCut
<1> HIDE DEF c, all, f
<1>7. c = s
    <2>1. AtMost(Len(s)) = Len(s)
        BY <1>4, <1>5, <1>6, AtMostIsLess
    <2>2. SubSeq(s, 1, Len(s)) = s
        BY SubSeqFull
    <2> QED
        BY <1>6, <2>1, <2>2
<1>8. PICK i \in 1..Len(f) : f[i].repo = r /\ f[i].chunk = x
    <2>1. \A y \in 1..t.size : \E i \in 1..Len(f) : f[i].repo = r /\ f[i].chunk = y
        <3> HIDE DEF t
        <3> QED
            BY <1>2, <1>5, FusedCount DEF f
    <2> QED
        BY <2>1
<1>9. f[i] \in ToSet(f)
    <2>1. f \in Seq(RowsOf(1..n))
        BY <1>2, FusedRows DEF f
    <2>2. DOMAIN f = 1..Len(f)
        BY <2>1, ListHasElements
    <2> QED
        BY <2>2 DEF ToSet
<1>10. f[i] \in ToSet(c)
    BY <1>3, <1>6, <1>7, <1>9 DEF f
<1>11. PICK j \in DOMAIN c : c[j] = f[i]
    BY <1>10 DEF ToSet
<1> QED
    BY <1>8, <1>11 DEF c

-----------------------------------------------------------------------------
(* The inputs of the runs                                                  *)

LEMMA FiveAreFinite == ASSUME NEW a, NEW b, NEW c, NEW d, NEW e PROVE IsFiniteSet({a, b, c, d, e})
<1>1. IsFiniteSet({})
    BY FS_EmptySet
<1>2. IsFiniteSet({} \cup {a})
    BY <1>1, FS_AddElement
<1>3. IsFiniteSet({} \cup {a} \cup {b})
    BY <1>2, FS_AddElement
<1>4. IsFiniteSet({} \cup {a} \cup {b} \cup {c})
    BY <1>3, FS_AddElement
<1>5. IsFiniteSet({} \cup {a} \cup {b} \cup {c} \cup {d})
    BY <1>4, FS_AddElement
<1>6. IsFiniteSet({} \cup {a} \cup {b} \cup {c} \cup {d} \cup {e})
    BY <1>5, FS_AddElement
<1>7. {a, b, c, d, e} = {} \cup {a} \cup {b} \cup {c} \cup {d} \cup {e}
    OBVIOUS
<1> QED
    BY <1>6, <1>7

\* Where the files of the inputs are, and what they are called.
Places == {Home, A, B, A1, <<2, 9>>}
InputNames ==
    {"x.sln", "a.csproj", "b.csproj", ".git", "Directory.Packages.props"}
      \cup {"package.json", "pom.xml", "Cargo.toml", "go.work", "settings.gradle"}
      \cup {"pnpm-workspace.yaml", "go.mod", "build.gradle", "Gemfile", "libs.versions.toml"}
InputFiles == {File(d, n) : d \in Places, n \in InputNames}

LEMMA NamesAreFinite == IsFiniteSet(InputNames)
<1> DEFINE X == {"x.sln", "a.csproj", "b.csproj", ".git", "Directory.Packages.props"}
           Y == {"package.json", "pom.xml", "Cargo.toml", "go.work", "settings.gradle"}
           Z == {"pnpm-workspace.yaml", "go.mod", "build.gradle", "Gemfile", "libs.versions.toml"}
<1>1. IsFiniteSet(X) /\ IsFiniteSet(Y) /\ IsFiniteSet(Z)
    BY FiveAreFinite
<1>2. InputNames = X \cup Y \cup Z
    BY Zenon DEF InputNames
<1> HIDE DEF X, Y, Z
<1>3. IsFiniteSet(X \cup Y)
    BY <1>1, FS_Union
<1>4. IsFiniteSet((X \cup Y) \cup Z)
    BY <1>1, <1>3, FS_Union
<1> QED
    BY <1>2, <1>4

LEMMA InputFilesAreFinite == IsFiniteSet(InputFiles) /\ Places \subseteq Paths /\ \A f \in InputFiles : IsFile(f)
<1> DEFINE S == Places \X InputNames
           g == [x \in S |-> File(x[1], x[2])]
           G == {g[x] : x \in S}
<1>1. IsFiniteSet(Places)
    BY FiveAreFinite DEF Places
<1>2. IsFiniteSet(S)
    BY <1>1, NamesAreFinite, FS_Product
<1>3. Places \subseteq Paths
    BY DEF Places, Home, A, B, A1, Paths
<1>4. \A f \in InputFiles : IsFile(f)
    BY <1>3 DEF InputFiles, File, IsFile
<1>5. InputFiles \subseteq G
    <2> SUFFICES ASSUME NEW d \in Places, NEW n \in InputNames PROVE File(d, n) \in G
        BY DEF InputFiles
    <2>1. <<d, n>> \in S /\ g[<<d, n>>] = File(d, n)
        OBVIOUS
    <2> HIDE DEF g, S
    <2> QED
        BY <2>1
<1>6. g \in [S -> {g[x] : x \in S}]
    OBVIOUS
<1> HIDE DEF g, S
<1>7. IsFiniteSet(G)
    BY <1>2, <1>6, ImageIsFinite
<1> QED
    BY <1>3, <1>4, <1>5, <1>7, FS_Subset

\* What a file of the inputs is.
IsSource(e) ==
    /\ e.file \in InputFiles
    /\ DOMAIN e.members \subseteq Nat
    /\ \A k \in DOMAIN e.members :
          e.members[k] \in IF e.file.name = "x.sln" THEN [dir : Paths, name : {"a.csproj", "b.csproj"}] ELSE Paths

LEMMA HoldsIsSource ==
    ASSUME NEW d \in Places, NEW n \in InputNames, NEW m,
           m \in Seq(IF n = "x.sln" THEN [dir : Paths, name : {"a.csproj", "b.csproj"}] ELSE Paths)
    PROVE  IsSource(Holds(d, n, m))
<1>1. Holds(d, n, m).file = File(d, n) /\ Holds(d, n, m).members = m /\ File(d, n).name = n
    BY DEF Holds, File
<1>2. File(d, n) \in InputFiles
    BY DEF InputFiles
<1> DEFINE T == IF n = "x.sln" THEN [dir : Paths, name : {"a.csproj", "b.csproj"}] ELSE Paths
<1> HIDE DEF T
<1>3. m \in Seq(T)
    BY DEF T
<1>4. DOMAIN m \subseteq Nat /\ \A k \in DOMAIN m : m[k] \in T
    BY <1>3
<1> QED
    BY <1>1, <1>2, <1>4 DEF IsSource, T

LEMMA BadIsSource ==
    ASSUME NEW d \in Places, NEW n \in InputNames
    PROVE  IsSource(Bad(d, n))
<1>1. Bad(d, n).file = Holds(d, n, <<>>).file /\ Bad(d, n).members = Holds(d, n, <<>>).members
    BY DEF Bad, Holds
<1>2. <<>> \in Seq(IF n = "x.sln" THEN [dir : Paths, name : {"a.csproj", "b.csproj"}] ELSE Paths)
    OBVIOUS
<1>3. IsSource(Holds(d, n, <<>>))
    BY <1>2, HoldsIsSource
<1> QED
    BY <1>1, <1>3 DEF IsSource

LEMMA InputsAreSources == \A e \in DotNet \cup Workspaces : IsSource(e)
<1>1. Home \in Places /\ A \in Places /\ B \in Places /\ A1 \in Places /\ <<2, 9>> \in Places
    BY DEF Places
<1>2. \A d \in Places : Cs(d) \in [dir : Paths, name : {"a.csproj", "b.csproj"}]
    BY InputFilesAreFinite DEF Cs, File
<1>3. ASSUME NEW d \in Places, NEW m \in {<<>>, <<Cs(B)>>, <<Cs(A), Cs(B)>>, <<Cs(A)>>, <<Cs(A1), Cs(A)>>}
      PROVE  IsSource(Holds(d, "x.sln", m))
    <2> DEFINE T == [dir : Paths, name : {"a.csproj", "b.csproj"}]
    <2>1. Cs(A) \in T /\ Cs(B) \in T /\ Cs(A1) \in T
        BY <1>1, <1>2
    <2> HIDE DEF T
    <2> DEFINE x == Cs(A)
               y == Cs(B)
               z == Cs(A1)
    <2>4. x \in T /\ y \in T /\ z \in T /\ m \in {<<>>, <<y>>, <<x, y>>, <<x>>, <<z, x>>}
        BY <2>1
    <2> HIDE DEF x, y, z
    <2>5. <<>> \in Seq(T) /\ <<y>> \in Seq(T) /\ <<x>> \in Seq(T)
        BY <2>4
    <2>6. <<x, y>> \in Seq(T) /\ <<z, x>> \in Seq(T)
        BY <2>4
    <2>2. m \in Seq(T)
        BY <2>4, <2>5, <2>6
    <2>3. "x.sln" \in InputNames
        BY DEF InputNames
    <2> QED
        BY <2>2, <2>3, HoldsIsSource DEF T
<1>4. ASSUME NEW d \in Places, NEW n \in InputNames \ {"x.sln"}, NEW m \in {<<>>, <<A>>, <<A1>>, <<B>>, <<A1, B>>}
      PROVE  IsSource(Holds(d, n, m))
    <2>1. A \in Paths /\ B \in Paths /\ A1 \in Paths
        BY <1>1, InputFilesAreFinite
    <2> DEFINE x == A
               y == B
               z == A1
               T == Paths
    <2>3. x \in T /\ y \in T /\ z \in T /\ m \in {<<>>, <<x>>, <<z>>, <<y>>, <<z, y>>}
        BY <2>1
    <2> HIDE DEF x, y, z, T
    <2>5. <<>> \in Seq(T) /\ <<y>> \in Seq(T) /\ <<x>> \in Seq(T)
        BY <2>3
    <2>6. <<z, y>> \in Seq(T) /\ <<z>> \in Seq(T)
        BY <2>3
    <2>4. m \in Seq(T)
        BY <2>3, <2>5, <2>6
    <2>2. m \in Seq(Paths)
        BY <2>4 DEF T
    <2> QED
        BY <2>2, HoldsIsSource
<1>5. \A d \in Places, n \in InputNames : IsSource(Bad(d, n))
    BY BadIsSource
<1>6. {"x.sln", "a.csproj", "b.csproj", ".git", "Directory.Packages.props", "package.json", "pom.xml", "Cargo.toml",
       "go.work", "settings.gradle", "pnpm-workspace.yaml", "go.mod", "build.gradle", "Gemfile", "libs.versions.toml"}
         \subseteq InputNames
    BY DEF InputNames
<1>7. ASSUME NEW e \in DotNet PROVE IsSource(e)
    <2>1. \/ e \in {Holds(Home, "x.sln", m) : m \in {<<>>, <<Cs(B)>>, <<Cs(A), Cs(B)>>}}
          \/ e \in {Holds(A, "x.sln", m) : m \in {<<>>, <<Cs(A)>>, <<Cs(A1), Cs(A)>>}}
          \/ e \in {Holds(d, "a.csproj", <<>>) : d \in {A, B, A1}} \cup {Holds(A, "b.csproj", <<>>)}
          \/ e \in {Holds(A, ".git", <<>>), Holds(A1, "package.json", <<>>), Holds(Home, "Directory.Packages.props", <<>>)}
          \/ e \in {Bad(Home, "x.sln"), Bad(Home, "Directory.Packages.props"), Bad(A, "a.csproj"), Bad(Home, "pom.xml")}
        BY Zenon DEF DotNet
    <2>2. CASE e \in {Holds(Home, "x.sln", m) : m \in {<<>>, <<Cs(B)>>, <<Cs(A), Cs(B)>>}}
        BY <1>1, <1>3, <2>2
    <2>3. CASE e \in {Holds(A, "x.sln", m) : m \in {<<>>, <<Cs(A)>>, <<Cs(A1), Cs(A)>>}}
        BY <1>1, <1>3, <2>3
    <2>4. CASE e \in {Holds(d, "a.csproj", <<>>) : d \in {A, B, A1}} \cup {Holds(A, "b.csproj", <<>>)}
        BY <1>1, <1>4, <1>6, <2>4
    <2>5. CASE e \in {Holds(A, ".git", <<>>), Holds(A1, "package.json", <<>>), Holds(Home, "Directory.Packages.props", <<>>)}
        BY <1>1, <1>4, <1>6, <2>5
    <2>6. CASE e \in {Bad(Home, "x.sln"), Bad(Home, "Directory.Packages.props"), Bad(A, "a.csproj"), Bad(Home, "pom.xml")}
        BY <1>1, <1>5, <1>6, <2>6
    <2> QED
        BY <2>1, <2>2, <2>3, <2>4, <2>5, <2>6
<1>8. ASSUME NEW e \in Workspaces PROVE IsSource(e)
    <2>1. \/ e \in {Holds(Home, "package.json", m) : m \in {<<>>, <<A>>, <<A1, B>>}}
          \/ e \in {Holds(A, "Cargo.toml", m) : m \in {<<>>, <<A1>>, <<B>>}}
          \/ e \in {Holds(A, name, <<A1>>) : name \in {"pom.xml", "go.work", "settings.gradle", "pnpm-workspace.yaml"}}
          \/ \E d \in {A1, B} : \E name \in {"package.json", "Cargo.toml"} : e = Holds(d, name, <<>>)
          \/ e \in {Holds(A1, name, <<>>) : name \in {"pom.xml", "go.mod", "build.gradle", "Gemfile"}}
          \/ e \in {Holds(A, "package.json", <<A1>>), Holds(A, "libs.versions.toml", <<>>), Holds(<<2, 9>>, "Gemfile", <<>>)}
          \/ e \in {Bad(A, "Cargo.toml"), Bad(A1, "Cargo.toml"), Bad(A, "pnpm-workspace.yaml"), Bad(Home, "package.json")}
        BY DEF Workspaces
    <2>2. CASE e \in {Holds(Home, "package.json", m) : m \in {<<>>, <<A>>, <<A1, B>>}}
        BY <1>1, <1>4, <1>6, <2>2
    <2>3. CASE e \in {Holds(A, "Cargo.toml", m) : m \in {<<>>, <<A1>>, <<B>>}}
        BY <1>1, <1>4, <1>6, <2>3
    <2>4. CASE e \in {Holds(A, name, <<A1>>) : name \in {"pom.xml", "go.work", "settings.gradle", "pnpm-workspace.yaml"}}
        BY <1>1, <1>4, <1>6, <2>4
    <2>5. CASE \E d \in {A1, B} : \E name \in {"package.json", "Cargo.toml"} : e = Holds(d, name, <<>>)
        BY <1>1, <1>4, <1>6, <2>5
    <2>6. CASE e \in {Holds(A1, name, <<>>) : name \in {"pom.xml", "go.mod", "build.gradle", "Gemfile"}}
        BY <1>1, <1>4, <1>6, <2>6
    <2>7. CASE e \in {Holds(A, "package.json", <<A1>>), Holds(A, "libs.versions.toml", <<>>), Holds(<<2, 9>>, "Gemfile", <<>>)}
        BY <1>1, <1>4, <1>6, <2>7
    <2>8. CASE e \in {Bad(A, "Cargo.toml"), Bad(A1, "Cargo.toml"), Bad(A, "pnpm-workspace.yaml"), Bad(Home, "package.json")}
        BY <1>1, <1>5, <1>6, <2>8
    <2> QED
        BY <2>1, <2>2, <2>3, <2>4, <2>5, <2>6, <2>7, <2>8
<1> QED
    BY <1>7, <1>8

LEMMA InputsAreWellFormed ==
    ASSUME NEW S, S = DotNet \/ S = Workspaces, NEW t \in Trees(S)
    PROVE  WellFormed(FileSystem(t))
<1> DEFINE F == FileSystem(t)
           Names == {e.file : e \in t}
<1>1. t \subseteq S
    BY DEF Trees, kSubset
<1>2. \A e \in t : IsSource(e)
    BY <1>1, InputsAreSources
<1>3. DOMAIN F = Names /\ \A f \in Names : F[f] \in t /\ F[f].file = f
    <2>1. DOMAIN F = Names /\ \A f \in Names : F[f] = CHOOSE e \in t : e.file = f
        BY DEF FileSystem
    <2>2. \A f \in Names : \E e \in t : e.file = f
        OBVIOUS
    <2> HIDE DEF F, Names
    <2> QED
        BY <2>1, <2>2
<1>4. Names \subseteq InputFiles
    BY <1>2 DEF IsSource
<1>5. IsFiniteSet(Names) /\ \A f \in Names : IsFile(f)
    BY <1>4, InputFilesAreFinite, FS_Subset
<1> HIDE DEF F, Names
<1>6. \A f \in Names : IsSource(F[f]) /\ F[f].file = f
    BY <1>2, <1>3
<1>7. WellFormed(F)
    BY <1>3, <1>5, <1>6 DEF WellFormed, IsSource
<1> QED
    BY <1>7 DEF F

IsReply(reply) == reply.status \in {"missing", "down", "found"} /\ reply.links \in Seq([high : BOOLEAN, repo : {NoRepo, "r", "q"}])

LEMMA RepliesAreReplies == \A reply \in Replies : IsReply(reply)
<1> SUFFICES ASSUME NEW reply \in Replies PROVE IsReply(reply)
    OBVIOUS
<1> DEFINE L == [high : BOOLEAN, repo : {NoRepo, "r", "q"}]
<1>1. L = Link
    BY DEF Link
<1> HIDE DEF L
<1>2. ASSUME NEW l \in SeqsUpTo(L, 2) PROVE l \in Seq(L)
    <2>1. PICK m \in 0..2 : l \in [1..m -> L]
        BY DEF SeqsUpTo
    <2>2. m \in Nat
        BY <2>1
    <2> QED
        BY <2>1, <2>2
<1>3. \/ \E status \in {"missing", "down"} : reply = [status |-> status, links |-> <<>>]
      \/ \E l \in SeqsUpTo(L, 2) : reply = [status |-> "found", links |-> l]
    BY <1>1, Zenon DEF Replies
<1>4. CASE \E status \in {"missing", "down"} : reply = [status |-> status, links |-> <<>>]
    <2>1. reply.status \in {"missing", "down"} /\ reply.links = <<>>
        BY <1>4
    <2>2. <<>> \in Seq(L)
        OBVIOUS
    <2> QED
        BY <2>1, <2>2 DEF IsReply, L
<1>5. CASE \E l \in SeqsUpTo(L, 2) : reply = [status |-> "found", links |-> l]
    <2>1. PICK l \in SeqsUpTo(L, 2) : reply = [status |-> "found", links |-> l]
        BY <1>5
    <2>2. reply.status = "found" /\ reply.links \in Seq(L)
        BY <1>2, <2>1
    <2> QED
        BY <2>2 DEF IsReply, L
<1> QED
    BY <1>3, <1>4, <1>5

LEMMA RepliesAreSourced ==
    ASSUME NEW name, NEW ecosystem \in Ecosystems, NEW first, NEW second, IsReply(first), IsReply(second)
    PROVE  IsSourced(name, ecosystem, first, second)
<1> DEFINE R == {NoRepo, "r", "q"}
<1>1. first.status \in {"missing", "down", "found"}
    BY DEF IsReply
<1>2. second.status \in {"missing", "down", "found"}
    BY DEF IsReply
<1>3. first.links \in Seq([high : BOOLEAN, repo : R])
    BY Zenon DEF IsReply
<1>4. second.links \in Seq([high : BOOLEAN, repo : R])
    BY Zenon DEF IsReply
<1> HIDE DEF R
<1> QED
    BY <1>1, <1>2, <1>3, <1>4, ResolutionIsSourced

LEMMA InputPomsArePoms ==
    ASSUME NEW poms \in Poms, NEW project \in MavenProjects
    PROVE  ArePoms(poms) /\ IsMavenProject(project, poms)
<1>1. <<>> \in Seq(Boms)
    OBVIOUS
<1>2. "a" \in Boms /\ "b" \in Boms /\ "c" \in Boms
    BY DEF Boms
<1> HIDE DEF Boms
<1>3. \A b \in Boms : <<b>> \in Seq(Boms)
    OBVIOUS
<1>4. \A b, c \in Boms : <<b, c>> \in Seq(Boms)
    OBVIOUS
<1>5. \A b, c, d \in Boms : <<b, c, d>> \in Seq(Boms)
    OBVIOUS
<1>6. ASSUME NEW s \in Nested PROVE s \in Seq(Boms)
    <2>1. CASE s \in SeqsUpTo(Boms, 1)
        <3>1. PICK m \in 0..1 : s \in [1..m -> Boms]
            BY <2>1 DEF SeqsUpTo
        <3>2. m \in Nat
            BY <3>1
        <3> QED
            BY <3>1, <3>2
    <2>2. CASE s \in {<<"b", "c">>, <<"c", "b">>}
        BY <1>2, <1>4, <2>2
    <2> QED
        BY <2>1, <2>2 DEF Nested
<1>7. DOMAIN poms = Boms /\ ArePoms(poms)
    <2> DEFINE V(owners, b) == IF b \in owners THEN "d" :> b ELSE <<>>
               Pom(owners, nested) == [b \in Boms |-> [versions |-> V(owners, b), nested |-> nested[b]]]
    <2>0. Poms = {Pom(owners, nested) : owners \in SUBSET Boms, nested \in [Boms -> Nested]}
        BY DEF Poms
    <2> HIDE DEF V, Pom
    <2>1. PICK owners \in SUBSET Boms, nested \in [Boms -> Nested] : poms = Pom(owners, nested)
        BY <2>0
    <2>2. poms = [b \in Boms |-> [versions |-> V(owners, b), nested |-> nested[b]]]
        BY <2>1 DEF Pom
    <2>3. DOMAIN poms = Boms
        BY <2>2
    <2>4. ASSUME NEW b \in Boms
          PROVE  poms[b] = [versions |-> poms[b].versions, nested |-> poms[b].nested] /\ poms[b].nested \in Seq(Boms)
        <3>1. poms[b] = [versions |-> V(owners, b), nested |-> nested[b]]
            BY <2>2
        <3>2. nested[b] \in Seq(Boms)
            BY <1>6
        <3> QED
            BY <3>1, <3>2
    <2>5. poms = [b \in DOMAIN poms |-> poms[b]]
        BY <2>2
    <2> QED
        BY <2>3, <2>4, <2>5 DEF ArePoms
<1>8. /\ project = [declared |-> project.declared, boms |-> project.boms, parent |-> project.parent]
      /\ project.boms \in {<<"a">>, <<"a", "b", "a">>} /\ project.parent \in {<<>>, <<"c">>}
    <2> DEFINE own == "d" :> "own"
    <2>1. \/ project = [declared |-> <<>>, boms |-> <<"a">>, parent |-> <<>>]
          \/ project = [declared |-> own, boms |-> <<"a">>, parent |-> <<>>]
          \/ project = [declared |-> <<>>, boms |-> <<"a", "b", "a">>, parent |-> <<>>]
          \/ project = [declared |-> <<>>, boms |-> <<"a">>, parent |-> <<"c">>]
        BY DEF MavenProjects
    <2> HIDE DEF own
    <2> QED
        BY <2>1
<1>9. project.boms \in Seq(Boms) /\ project.parent \in Seq(Boms)
    BY <1>1, <1>2, <1>3, <1>5, <1>8
<1> QED
    BY <1>7, <1>8, <1>9 DEF IsMavenProject

SlugParts == {"a", "b", "c", "d"}

LEMMA SlugsAreFinite == IsFiniteSet(Slugs) /\ Slugs \subseteq Seq(SlugParts) /\ <<>> \notin Slugs
<1> DEFINE S == {<<"a">>, <<"b">>, <<"a", "b">>, <<"a", "c">>, <<"a", "b", "c">>}
           x == <<"a", "b", "c", "d">>
<1>1. IsFiniteSet(S)
    BY FiveAreFinite
<1>2. Slugs = S \cup {x}
    BY DEF Slugs
<1>3. Slugs \subseteq Seq(SlugParts) /\ <<>> \notin Slugs
    <2> DEFINE X == SlugParts
    <2>1. "a" \in X /\ "b" \in X /\ "c" \in X /\ "d" \in X
        BY DEF SlugParts
    <2> HIDE DEF X
    <2> DEFINE OK(s) == s \in Seq(X) /\ Len(s) # 0
    <2>2. \A a, b, c, d \in X : OK(<<a>>) /\ OK(<<a, b>>) /\ OK(<<a, b, c>>) /\ OK(<<a, b, c, d>>)
        OBVIOUS
    <2> HIDE DEF OK
    <2>7. OK(<<"a">>) /\ OK(<<"b">>) /\ OK(<<"a", "b">>) /\ OK(<<"a", "c">>)
        BY <2>1, <2>2, Zenon
    <2>8. OK(<<"a", "b", "c">>) /\ OK(<<"a", "b", "c", "d">>)
        BY <2>1, <2>2, Zenon
    <2>9. \A s \in Slugs : OK(s)
        BY <2>7, <2>8, Zenon DEF Slugs
    <2>3. \A s \in Slugs : s \in Seq(X) /\ Len(s) # 0
        BY <2>9 DEF OK
    <2>4. Len(<<>>) = 0
        OBVIOUS
    <2>5. <<>> \notin Slugs
        BY <2>3, <2>4
    <2>6. Slugs \subseteq Seq(X)
        BY <2>3
    <2> QED
        BY <2>5, <2>6 DEF X
<1> HIDE DEF S, x
<1>4. IsFiniteSet(S \cup {x})
    BY <1>1, FS_AddElement
<1> QED
    BY <1>2, <1>3, <1>4

LEMMA ListsAreSequences == ASSUME NEW S, NEW n \in Nat PROVE SeqsUpTo(S, n) \subseteq Seq(S)
<1> SUFFICES ASSUME NEW m \in 0..n, NEW s \in [1..m -> S] PROVE s \in Seq(S)
    BY DEF SeqsUpTo
<1>1. m \in Nat
    OBVIOUS
<1> QED
    BY <1>1

LEMMA FewAreFinite == ASSUME NEW a, NEW b, NEW c PROVE IsFiniteSet({a, b}) /\ IsFiniteSet({a, b, c})
<1>1. IsFiniteSet({a, b, b, b, b}) /\ IsFiniteSet({a, b, c, c, c})
    BY FiveAreFinite
<1>2. {a, b, b, b, b} = {a, b} /\ {a, b, c, c, c} = {a, b, c}
    OBVIOUS
<1> QED
    BY <1>1, <1>2

LEMMA NodesAreFinite == ASSUME NEW n \in Nodes, n.type = "diagram" PROVE IsFiniteSet(n.ids) /\ IsFiniteSet(n.arrows)
<1>3. \/ \E s \in Sections : n = Heading(s)
      \/ \E type \in {"code", "blob", "link"}, s \in Sections, repo \in {"r", "q"} : n = Node(type, s, repo)
      \/ n = Drawing("s", {"x", "y"}, {<<"x", "y">>, <<"y", "y">>, <<"x", "z">>})
      \/ n = Drawing("t", {"x", "z::"}, {<<"x", "z::">>, <<"x", "x">>})
    BY DEF Nodes
<1>4. \A s : Heading(s).type # "diagram"
    BY DEF Heading
<1>5. \A type \in {"code", "blob", "link"} : \A s, repo : Node(type, s, repo).type # "diagram"
    BY DEF Node
<1>6. \A s, ids, arrows : Drawing(s, ids, arrows).ids = ids /\ Drawing(s, ids, arrows).arrows = arrows
    BY DEF Drawing
<1>7. CASE n = Drawing("s", {"x", "y"}, {<<"x", "y">>, <<"y", "y">>, <<"x", "z">>})
    <2> DEFINE x == "x"
               y == "y"
               a == <<x, y>>
               b == <<y, y>>
               c == <<x, "z">>
    <2>1. n.ids = {x, y} /\ n.arrows = {a, b, c}
        BY <1>6, <1>7
    <2> HIDE DEF x, y, a, b, c
    <2>2. IsFiniteSet({x, y}) /\ IsFiniteSet({a, b, c})
        BY FewAreFinite
    <2> QED
        BY <2>1, <2>2
<1>8. CASE n = Drawing("t", {"x", "z::"}, {<<"x", "z::">>, <<"x", "x">>})
    <2> DEFINE x == "x"
               y == "z::"
               a == <<x, y>>
               b == <<x, x>>
    <2>1. n.ids = {x, y} /\ n.arrows = {a, b}
        BY <1>6, <1>8
    <2> HIDE DEF x, y, a, b
    <2>2. IsFiniteSet({x, y}) /\ IsFiniteSet({a, b})
        BY FewAreFinite
    <2> QED
        BY <2>1, <2>2
<1> QED
    BY <1>3, <1>4, <1>5, <1>7, <1>8

LEMMA InputsArePages ==
    /\ \A p \in SeqsUpTo(Nodes, MaxNodes) : IsPage(<<Heading("s")>> \o p)
    /\ IsPage(OtherPage)
<1>1. Heading("s") \in Nodes
    BY DEF Nodes, Sections
<1>2. ASSUME NEW q \in Seq(Nodes) PROVE IsPage(q)
    <2>1. Len(q) \in Nat /\ DOMAIN q = 1..Len(q) /\ \A i \in DOMAIN q : q[i] \in Nodes
        OBVIOUS
    <2>2. IsFiniteSet(DOMAIN q)
        BY <2>1, FS_Interval
    <2> QED
        BY <2>1, <2>2, NodesAreFinite DEF IsPage
<1>3. ASSUME NEW p \in SeqsUpTo(Nodes, MaxNodes) PROVE IsPage(<<Heading("s")>> \o p)
    <2>1. p \in Seq(Nodes)
        BY InputBounds, ListsAreSequences
    <2>2. <<Heading("s")>> \in Seq(Nodes)
        BY <1>1
    <2> HIDE DEF Nodes
    <2>3. <<Heading("s")>> \o p \in Seq(Nodes)
        BY <2>1, <2>2
    <2> QED
        BY <1>2, <2>3
<1>4. IsPage(OtherPage)
    <2> DEFINE a == Heading("s")
               b == Node("link", "s", "r")
               c == Node("blob", "s", "r")
               d == Drawing("s", {"x"}, {<<"x", "x">>})
               q == OtherPage
    <2>1. q = <<a, b, c, d>>
        BY DEF OtherPage
    <2>2. a.type # "diagram" /\ b.type # "diagram" /\ c.type # "diagram" /\ d.ids = {"x"} /\ d.arrows = {<<"x", "x">>}
        BY DEF Heading, Node, Drawing
    <2> HIDE DEF a, b, c, d, q
    <2>3. DOMAIN q = 1..4 /\ q[1] = a /\ q[2] = b /\ q[3] = c /\ q[4] = d
        BY <2>1
    <2>4. IsFiniteSet(DOMAIN q)
        <3>1. \A k \in Nat : IsFiniteSet(1..k)
            BY FS_Interval
        <3> QED
            BY <2>3, <3>1
    <2>5. \A x : IsFiniteSet({x})
        BY FS_Singleton
    <2>6. IsFiniteSet(d.ids) /\ IsFiniteSet(d.arrows)
        BY <2>2, <2>5, Zenon
    <2>7. \A i \in 1..4 : q[i] \in {a, b, c, d}
        BY <2>3
    <2>8. IsPage(q)
        BY <2>2, <2>3, <2>4, <2>6, <2>7 DEF IsPage
    <2> QED
        BY <2>8 DEF q
<1> QED
    BY <1>3, <1>4

LEMMA InputGraph ==
    ASSUME NEW page, IsPage(page)
    PROVE  IsGraph(Extract("r", page) \cup Extract("q", OtherPage), "r", page)
<1> DEFINE E == Extract("r", page)
           O == Extract("q", OtherPage)
<1>1. IsFiniteSet(E) /\ IsFiniteSet(O)
    BY GraphIsFinite, InputsArePages
<1>2. \A e \in E : e.repo = "r"
    BY EdgesOfRaw, EdgeFields
<1>3. \A e \in O : e.repo = "q"
    BY EdgesOfRaw, EdgeFields
<1> HIDE DEF E, O
<1>4. IsFiniteSet(E \cup O) /\ {e \in E \cup O : e.repo = "r"} = E
    BY <1>1, <1>2, <1>3, FS_Union
<1> QED
    BY <1>4 DEF IsGraph, E, O

\* The lists of the inputs have each chunk once.
LEMMA CountedAreDistinct ==
    ASSUME NEW X, NEW s \in Seq(X), Cardinality(ToSet(s)) = Len(s)
    PROVE  Distinct(s)
<1> DEFINE n == Len(s)
           S == ToSet(s)
<1>1. n \in Nat /\ DOMAIN s = 1..n /\ s = [i \in 1..n |-> s[i]]
    OBVIOUS
<1>2. s \in Surjection(1..n, S)
    BY <1>1 DEF ToSet, Surjection
<1> HIDE DEF n, S
<1>3. IsFiniteSet(1..n) /\ Cardinality(1..n) = n
    BY <1>1, IntervalCount
<1>4. Cardinality(S) = n
    BY DEF n, S
<1>5. s \in Injection(1..n, S)
    BY <1>2, <1>3, <1>4, FS_Surjection
<1> QED
    BY <1>5 DEF Injection, IsInjective, Distinct, n

LEMMA InputTablesAreTables == \A t \in Tables : IsTable(t)
<1> SUFFICES ASSUME NEW n \in 0..MaxChunks, NEW s \in Injections(n)
             PROVE  IsTable([size |-> n, matches |-> s])
    BY Zenon DEF Tables
<1>1. n \in Nat /\ MaxChunks \in Nat
    BY InputBounds
<1>2. s \in SeqsUpTo(1..n, n) /\ Cardinality(ToSet(s)) = Len(s)
    BY Zenon DEF Injections
<1>3. s \in Seq(1..n)
    BY <1>1, <1>2, ListsAreSequences
<1>4. Distinct(s)
    BY <1>2, <1>3, CountedAreDistinct
<1> QED
    BY <1>1, <1>3, <1>4 DEF IsTable

\* An input of the search is a list of tables, one of the chunker a list of paragraphs, one
\* of get_page some headings, one of the graph a page, one of the scanner a tree of
\* manifests, one of the resolver two answers, and one of the Maven resolvers a project and
\* all POMs that it may import.
InputInv ==
    /\ input.of = "ranking" => AreTables(input.tables) /\ input.k \in Nat \ {0}
    /\ input.of = "text" => input.text \in Seq(Nat) /\ input.blanks \in Nat /\ input.overlap \in Nat
    /\ input.of = "subtree" => input.slugs \subseteq Slugs
    /\ input.of = "graph" => IsPage(input.page)
    /\ input.of = "scan" => WellFormed(input.fs) /\ input.start \in Paths
    /\ input.of = "resolver" => input.ecosystem \in Ecosystems /\ IsReply(input.first) /\ IsReply(input.second)
    /\ input.of = "versions" => ArePoms(input.poms) /\ IsMavenProject(input.project, input.poms)

LEMMA InputInvInductive == InputSpec => []InputInv
<1>1. InputInit => InputInv
    BY DEF InputInit, Nothing, InputInv
<1>2. InputInv /\ [InputNext]_input => InputInv'
    <2> SUFFICES ASSUME InputInv, [InputNext]_input PROVE InputInv'
        OBVIOUS
    <2>1. CASE AskRanking
        <3>1. PICK n \in 0..2 : \E t \in [1..n -> Tables], k \in 1..2 :
                  input' = [of |-> "ranking", tables |-> t, k |-> k]
            BY <2>1, Zenon DEF AskRanking
        <3>2. PICK t \in [1..n -> Tables], k \in 1..2 : input' = [of |-> "ranking", tables |-> t, k |-> k]
            BY <3>1
        <3>3. n \in Nat /\ DOMAIN t = 1..n /\ \A r \in 1..n : IsTable(t[r])
            BY InputTablesAreTables
        <3>4. AreTables(t)
            BY <3>3 DEF AreTables
        <3>5. input'.of = "ranking" /\ input'.tables = t /\ input'.k \in Nat \ {0}
            BY <3>2
        <3> QED
            BY <3>4, <3>5 DEF InputInv
    <2>2. CASE AskText
        <3>1. PICK t \in SeqsUpTo({1, 4, 8, 20}, MaxParagraphs), b \in 0..1, o \in 0..2 :
                  input' = [of |-> "text", text |-> t, blanks |-> b, overlap |-> o]
            BY <2>2, Zenon DEF AskText
        <3>2. t \in Seq({1, 4, 8, 20})
            BY InputBounds, ListsAreSequences
        <3>3. t \in Seq(Nat) /\ b \in Nat /\ o \in Nat
            BY <3>2
        <3>4. input'.of = "text" /\ input'.text = t /\ input'.blanks = b /\ input'.overlap = o
            BY <3>1
        <3> QED
            BY <3>3, <3>4 DEF InputInv
    <2>3. CASE AskSubtree
        <3>1. PICK s \in SUBSET Slugs, t \in Slugs : input' = [of |-> "subtree", slugs |-> s, target |-> t]
            BY <2>3, Zenon DEF AskSubtree
        <3>2. input'.of = "subtree" /\ input'.slugs = s
            BY <3>1
        <3> QED
            BY <3>2 DEF InputInv
    <2>4. CASE AskGraph
        <3>1. PICK p \in SeqsUpTo(Nodes, MaxNodes) : input' = [of |-> "graph", page |-> <<Heading("s")>> \o p]
            BY <2>4, Zenon DEF AskGraph
        <3>2. IsPage(<<Heading("s")>> \o p)
            BY InputsArePages
        <3>3. input'.of = "graph" /\ input'.page = <<Heading("s")>> \o p
            BY <3>1
        <3> QED
            BY <3>2, <3>3 DEF InputInv
    <2>5. CASE AskScan
        <3>1. PICK t \in Trees(DotNet) \cup Trees(Workspaces), d \in {Home, A} :
                  input' = [of |-> "scan", fs |-> FileSystem(t), start |-> d]
            BY <2>5, Zenon DEF AskScan
        <3>2. WellFormed(FileSystem(t))
            BY InputsAreWellFormed
        <3>3. Home \in Paths /\ A \in Paths
            BY InputFilesAreFinite DEF Places
        <3>4. input'.of = "scan" /\ input'.fs = FileSystem(t) /\ input'.start = d
            BY <3>1
        <3> QED
            BY <3>2, <3>3, <3>4 DEF InputInv
    <2>6. CASE AskResolver
        <3>1. PICK n \in DOMAIN Guesses, e \in Ecosystems, first \in Replies, second \in Replies :
                  input' = [of |-> "resolver", name |-> n, ecosystem |-> e, first |-> first, second |-> second]
            BY <2>6, Zenon DEF AskResolver
        <3>2. IsReply(first) /\ IsReply(second)
            BY RepliesAreReplies
        <3>3. input'.of = "resolver" /\ input'.ecosystem = e /\ input'.first = first /\ input'.second = second
            BY <3>1
        <3> QED
            BY <3>2, <3>3 DEF InputInv
    <2>7. CASE AskVersions
        <3>1. PICK poms \in Poms, project \in MavenProjects, down \in {{}, {"b"}}, cached \in CachedRows :
                  input' = [of |-> "versions", poms |-> poms, project |-> project, down |-> down, cached |-> cached]
            BY <2>7, Zenon DEF AskVersions
        <3>2. ArePoms(poms) /\ IsMavenProject(project, poms)
            BY InputPomsArePoms
        <3>3. input'.of = "versions" /\ input'.poms = poms /\ input'.project = project
            BY <3>1
        <3> QED
            BY <3>2, <3>3 DEF InputInv
    <2>8. CASE Answer
        BY <2>8 DEF Answer, Nothing, InputInv
    <2>9. CASE UNCHANGED input
        BY <2>9 DEF InputInv
    <2> QED
        BY <2>1, <2>2, <2>3, <2>4, <2>5, <2>6, <2>7, <2>8, <2>9 DEF InputNext, AskOne
<1> QED
    BY <1>1, <1>2, PTL DEF InputSpec

\* What the run checks of hybrid retrieval, for every RRF_K, RERANK_TOP_N and number of
\* chunks: each repository's list is the TopN of the summed reciprocal ranks, the pages up
\* to the total are the candidates, and without `truncated` every chunk was a candidate.
THEOREM AlgorithmsPagesAreComplete == InputSpec => []PagesAreComplete
<1>1. InputInv => PagesAreComplete
    <2> SUFFICES ASSUME InputInv, input.of = "ranking"
                 PROVE  /\ \A i \in DOMAIN input.tables : IsFusion(input.tables[i], Fused(i, input.tables[i]))
                        /\ WalkIsComplete(input.tables, input.k)
                        /\ FlagIsHonest(input.tables)
        BY Zenon DEF PagesAreComplete
    <2>1. AreTables(input.tables) /\ input.k \in Nat \ {0}
        BY DEF InputInv
    <2>2. ASSUME NEW i \in DOMAIN input.tables PROVE IsFusion(input.tables[i], Fused(i, input.tables[i]))
        <3>1. IsTable(input.tables[i])
            BY <2>1 DEF AreTables
        <3> QED
            BY <3>1, FusionIsExact
    <2>3. WalkIsComplete(input.tables, input.k)
        BY <2>1, PagesReturnCandidates
    <2>4. FlagIsHonest(input.tables)
        BY <2>1, FlagTellsTruth
    <2> QED
        BY <2>2, <2>3, <2>4
<1> QED
    BY <1>1, InputInvInductive, PTL

\* What the run checks of the scanner, for every bound of its inputs and every depth and
\* cap of the scan: scanProjectRecursive() misses no directory it could scan, and reads no
\* manifest of dependencies twice but for the named cases.
THEOREM AlgorithmsScansAreComplete == InputSpec => []ScansAreComplete
<1>1. InputInv => ScansAreComplete
    <2> SUFFICES ASSUME InputInv, input.of = "scan"
                 PROVE  LET scan == scanProjectRecursive(input.fs, input.start)
                        IN  IsReadOnce(input.fs, input.start, scan) /\ IsComplete(input.fs, input.start, scan)
        BY Zenon DEF ScansAreComplete
    <2>1. WellFormed(input.fs) /\ input.start \in Paths
        BY DEF InputInv
    <2> DEFINE F == input.fs
               start == input.start
    <2>2. WellFormed(F) /\ start \in Paths
        BY <2>1
    <2> HIDE DEF F, start
    <2>3. IsReadOnce(F, start, scanProjectRecursive(F, start))
        BY <2>2, ScanReadsOnce
    <2>4. IsComplete(F, start, scanProjectRecursive(F, start))
        BY <2>2, ScanIsComplete
    <2> QED
        BY <2>3, <2>4 DEF F, start
<1> QED
    BY <1>1, InputInvInductive, PTL

\* What the run checks of the resolver, for every function of guesses: resolveRepo() takes
\* the best link of the document it read, and guesses only where a guess is due.
THEOREM AlgorithmsReposAreSourced == InputSpec => []ReposAreSourced
<1>1. InputInv => ReposAreSourced
    <2> SUFFICES ASSUME InputInv, input.of = "resolver"
                 PROVE  IsSourced(input.name, input.ecosystem, input.first, input.second)
        BY Zenon DEF ReposAreSourced
    <2>1. input.ecosystem \in Ecosystems /\ IsReply(input.first) /\ IsReply(input.second)
        BY DEF InputInv
    <2> QED
        BY <2>1, RepliesAreSourced
<1> QED
    BY <1>1, InputInvInductive, PTL

\* What the run checks of Maven, for every bound of the depth: rows of earlier calls change
\* no answer of enrichWithParentPom() and enrichWithBomImports(), but for what old ones lose,
\* and a dependency has the version of a nearest BOM, among those left, that manages it.
THEOREM AlgorithmsVersionsAreNearest == InputSpec => []VersionsAreNearest
<1>1. InputInv => VersionsAreNearest
    <2> DEFINE left == Left(input.poms, input.cached)
               off == input.down \ DOMAIN input.cached
    <2> SUFFICES ASSUME InputInv, input.of = "versions"
                 PROVE  /\ IsReplayed(input.poms, input.cached, input.down, input.project)
                        /\ IsNearest(left, off, input.project.boms)
        BY Zenon DEF VersionsAreNearest, Left
    <2>1. ArePoms(input.poms) /\ IsMavenProject(input.project, input.poms)
        BY DEF InputInv
    <2>2. ArePoms(left) /\ DOMAIN left = DOMAIN input.poms
        BY <2>1, LeftArePoms
    <2>3. input.project.boms \in Seq(DOMAIN left)
        BY <2>1, <2>2 DEF IsMavenProject
    <2>4. IsReplayed(input.poms, input.cached, input.down, input.project)
        BY <2>1, RowsAreReplayed
    <2> HIDE DEF left, off
    <2>5. IsNearest(left, off, input.project.boms)
        BY <2>2, <2>3, VersionsOfNearest
    <2> QED
        BY <2>4, <2>5
<1> QED
    BY <1>1, InputInvInductive, PTL

\* What the run checks of pages, for every bound of the paragraphs: chunking loses no text,
\* ends, and exceeds maxTokens only by one paragraph or by what joins the paragraphs;
\* subtreeFor() returns the headings below the section and nothing else.
THEOREM AlgorithmsPagesAreCutCleanly == InputSpec => []PagesAreCutCleanly
<1>1. InputInv => PagesAreCutCleanly
    <2> SUFFICES ASSUME InputInv PROVE PagesAreCutCleanly
        OBVIOUS
    <2>1. ASSUME input.of = "text" PROVE ChunksCover(input.text, input.blanks, 5, input.overlap)
        <3>1. input.text \in Seq(Nat) /\ input.blanks \in Nat /\ input.overlap \in Nat
            BY <2>1 DEF InputInv
        <3> QED
            BY <3>1, ChunksCoverText
    <2>2. ASSUME input.of = "subtree" PROVE IsSubtree(input.slugs, Document, input.target)
        <3> DEFINE X == SlugParts
                   slugs == input.slugs
                   nodes == Document
        <3>1. slugs \subseteq Slugs
            BY <2>2 DEF InputInv
        <3>2. ToSet(nodes) = Slugs
            BY SlugsAreFinite, SetAsSequence DEF Document
        <3>3. slugs \in SUBSET Seq(X) /\ <<>> \notin slugs /\ ToSet(nodes) \subseteq Seq(X)
            BY <3>1, <3>2, SlugsAreFinite
        <3> HIDE DEF X, slugs, nodes
        <3>4. IsSubtree(slugs, nodes, input.target)
            BY <3>3, SubtreeIsExact
        <3> QED
            BY <3>4 DEF slugs, nodes
    <2> QED
        BY <2>1, <2>2, Zenon DEF PagesAreCutCleanly
<1> QED
    BY <1>1, InputInvInductive, PTL

\* What the run checks of the graph, for every bound of the nodes: links are found from both
\* ends with all their kinds, as the text has them; diagrams stay closed when they are cut.
THEOREM AlgorithmsNeighborsAreSound == InputSpec => []NeighborsAreSound
<1>1. InputInv => NeighborsAreSound
    <2> SUFFICES ASSUME InputInv, input.of = "graph"
                 PROVE  /\ LinksAreMutual("r", input.page, Edges, Sections)
                        /\ CrossIsMutual("r", input.page, Edges, {"r", "q"})
                        /\ \A s \in Sections, limit \in 1..4, score \in Scores :
                              DiagramIsClosed(Edges, "r", s, score, limit)
        BY Zenon DEF NeighborsAreSound
    <2>1. IsGraph(Edges, "r", input.page)
        <3>1. IsPage(input.page)
            BY DEF InputInv
        <3> QED
            BY <3>1, InputGraph DEF Edges
    <2>2. "" \notin Sections
        BY DEF Sections
    <2>3. LinksAreMutual("r", input.page, Edges, Sections)
        BY <2>1, <2>2, LinksFoundFromBothEnds
    <2>4. CrossIsMutual("r", input.page, Edges, {"r", "q"})
        BY <2>1, CrossLinksFoundFromBothEnds
    <2>5. ASSUME NEW s \in Sections, NEW limit \in 1..4,
                 NEW score \in Scores
          PROVE  DiagramIsClosed(Edges, "r", s, score, limit)
        <3>1. IsScore(<<>>)
            BY DEF IsScore
        <3>2. \A t : IsScore([at \in {<<"r", t>>} |-> 1])
            BY DEF IsScore
        <3>3. IsScore(score)
            BY <3>1, <3>2, Zenon DEF Scores
        <3>4. limit \in Nat
            OBVIOUS
        <3> QED
            BY <2>1, <3>3, <3>4, DiagramsStayClosed
    <2> QED
        BY <2>3, <2>4, <2>5
<1> QED
    BY <1>1, InputInvInductive, PTL
=============================================================================
