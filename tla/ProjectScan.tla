------------------------------ MODULE ProjectScan ------------------------------
(***************************************************************************)
(* The project scanner: which manifests below (or above) the working       *)
(* directory make up a project, and which files each of them reads.        *)
(*                                                                         *)
(* A directory is the sequence of its names from the home directory, <<>>, *)
(* and a file [dir, name].  A file system `fs` maps each file there is to  *)
(* what a parser finds in it: `bad` (it cannot be read or parsed), `deps`, *)
(* and `members`, the directories of a workspace or the *.csproj files of a*)
(* solution.  Glob patterns stand for the directories they match, and the  *)
(* version and the kind of a dependency are left out.                      *)
(***************************************************************************)
EXTENDS Naturals, Sequences, FiniteSets, FiniteSetsExt, SequencesExt

CONSTANTS
    MaxMembers,    \* MAX_WORKSPACE_MEMBERS
    MaxDepth,      \* CODEWIKI_SCAN_MAX_DEPTH
    IgnoredNames   \* SCAN_IGNORE_DIRS, and the names that begin with a dot

\* getScanMaxDepth() refuses every other value.
ASSUME DepthAssumption == MaxDepth \in Nat

File(d, n) == [dir |-> d, name |-> n]
Has(fs, d, n) == File(d, n) \in DOMAIN fs
Exists(fs, d) == \E f \in DOMAIN fs : IsPrefix(d, f.dir)

\* Of a sequence, the items at the positions K; of positions, the first MaxMembers.
Items(s, K) == {s[k] : k \in K}
Capped(K) == {k \in K : Cardinality({j \in K : j < k}) < MaxMembers}

\* MANIFEST_PRIORITY, with the files that match an entry.
Entry(type, names) == [type |-> type, names |-> names]
Named(type) == Entry(type, <<type>>)
MANIFEST_PRIORITY ==
    <<Named("pom.xml"), Entry("sln", <<"x.sln">>), Entry("csproj", <<"a.csproj", "b.csproj">>),
      Named("Cargo.toml"), Named("composer.json"), Named("go.work"), Named("go.mod"),
      Named("pyproject.toml"), Named("package.json"), Named("Gemfile.lock"),
      Named("requirements.txt"), Named("libs.versions.toml"), Named("Gemfile")>>
matchManifestInDir(fs, d, entry) == {k \in DOMAIN entry.names : Has(fs, d, entry.names[k])}

\* findUpwardSln(), findDirectoryPackagesProps(): the nearest file above, if the walk
\* meets neither a repository's root nor the home directory before.
Nearest(fs, d, name) ==
    {f \in DOMAIN fs :
        /\ f.name = name /\ IsPrefix(f.dir, d)
        /\ \A k \in (Len(f.dir) + 1)..Len(d) :
              LET below == SubSeq(d, 1, k) IN ~Has(fs, below, name) /\ ~Has(fs, below, ".git")}
PropsAbove(fs, d) == Nearest(fs, d, "Directory.Packages.props")

-----------------------------------------------------------------------------
(* One directory: scanAtDir()                                              *)

NoScan == [type |-> "none", root |-> <<>>, matched |-> File(<<>>, ""), members |-> {}, extras |-> {},
           deps |-> {}, reads |-> {}]
Thrown == [NoScan EXCEPT !.type = "thrown"]
Found(scan) == scan.type \notin {"none", "thrown"}

\* The files are read one by one; the first bad one throws.
Reading(fs, files, scan) ==
    IF \E f \in files : fs[f].bad THEN Thrown
    ELSE [scan EXCEPT !.deps = UNION {fs[f].deps : f \in files}, !.reads = files]

Scan(root, type, matched, members, extras) ==
    [type |-> type, root |-> root, matched |-> matched, members |-> members, extras |-> extras,
     deps |-> {}, reads |-> {}]

\* handleSlnDispatch(): the projects of the solution that are there, below it.
Listed(fs, sln) == LET all == fs[sln].members IN
    {k \in DOMAIN all : IsPrefix(sln.dir, all[k].dir) /\ all[k] \in DOMAIN fs}
handleSlnDispatch(fs, sln, root, anchor) ==
    LET all    == fs[sln].members
        listed == Listed(fs, sln)
        props  == PropsAbove(fs, anchor)
    IN  IF listed = {} THEN IF fs[sln].bad THEN Thrown ELSE NoScan
        ELSE Reading(fs, {sln} \cup Items(all, listed) \cup props,
                     Scan(root, "sln", all[Min(listed)], {},
                          {sln} \cup Items(all, listed \ {Min(listed)}) \cup props))

\* The solution in its own directory; one without usable projects is an empty scan.
SlnMatch(fs, d, sln) ==
    LET listed == Listed(fs, sln)
        anchor == IF listed = {} THEN d ELSE fs[sln].members[Min(listed)].dir
        scan   == handleSlnDispatch(fs, sln, d, anchor)
    IN  IF scan = NoScan THEN Reading(fs, {sln}, Scan(d, "sln", sln, {}, {})) ELSE scan

\* A solution above wins over the projects in the directory, own of the files.
handleCsprojMatch(fs, d, files, own) ==
    LET slns  == Nearest(fs, d, "x.sln")
        above == {handleSlnDispatch(fs, sln, d, d) : sln \in slns} \ {NoScan}
        kept  == Capped(own)
        props == PropsAbove(fs, d)
    IN  IF above # {} THEN CHOOSE scan \in above : TRUE
        ELSE Reading(fs, slns \cup props \cup Items(files, kept),
                     Scan(d, "csproj", files[Min(own)], {}, Items(files, kept \ {Min(own)}) \cup props))

\* mergeWorkspace(), mergeAggregatorPom(): a member without a manifest is skipped.
Declared(fs, file) == LET all == fs[file].members IN Items(all, Capped(DOMAIN all))
mergeWorkspace(fs, file, type, memberName) ==
    LET members == {m \in Declared(fs, file) : Has(fs, m, memberName)}
    IN  Reading(fs, {file} \cup {File(m, memberName) : m \in members}, Scan(file.dir, type, file, members, {}))

\* A member outside the root throws; only go.work refuses the root itself.
traverseCargoWorkspace(fs, file) ==
    IF \E m \in Declared(fs, file) : ~IsPrefix(file.dir, m) THEN Thrown
    ELSE mergeWorkspace(fs, file, "Cargo.toml", "Cargo.toml")
traverseAggregatorPom(fs, file) ==
    IF \E m \in Declared(fs, file) : ~IsPrefix(file.dir, m) THEN Thrown
    ELSE mergeWorkspace(fs, file, "pom.xml", "pom.xml")
handleGoWorkMatch(fs, file) ==
    IF \E m \in Declared(fs, file) : ~IsStrictPrefix(file.dir, m) THEN Thrown
    ELSE mergeWorkspace(fs, file, "go.work", "go.mod")

\* traverseJsWorkspaces(), mergeJsWorkspace(): pnpm-workspace.yaml, once there, decides.
traverseJsWorkspaces(fs, file) ==
    LET d        == file.dir
        yaml     == {f \in DOMAIN fs : f = File(d, "pnpm-workspace.yaml")}
        declared == IF yaml = {} THEN fs[file].members ELSE fs[CHOOSE f \in yaml : TRUE].members
        safe     == {k \in DOMAIN declared : IsStrictPrefix(d, declared[k])}
        matches  == {k \in safe : Exists(fs, declared[k])}
        members  == {m \in Items(declared, Capped(matches)) : Has(fs, m, "package.json")}
        extras   == IF safe = {} THEN {} ELSE yaml
    IN  Reading(fs, {file} \cup yaml \cup {File(m, "package.json") : m \in members},
                Scan(d, "package.json", file, members, extras))

\* discoverGradleProjects(): beside the version catalog, the settings and build files.
discoverGradleProjects(fs, file) ==
    LET d        == file.dir
        settings == {f \in DOMAIN fs : f = File(d, "settings.gradle")}
        build    == {f \in DOMAIN fs : f = File(d, "build.gradle")}
        members  == {m \in UNION {ToSet(fs[f].members) : f \in settings} : IsStrictPrefix(d, m) /\ Exists(fs, m)}
        extras   == settings \cup build
                      \cup {f \in {File(m, "build.gradle") : m \in members} : f \in DOMAIN fs}
    IN  IF settings \cup build = {} THEN Reading(fs, {file}, Scan(d, "libs.versions.toml", file, {}, {}))
        ELSE Reading(fs, {file} \cup extras, Scan(d, "libs.versions.toml", file, members, extras))

scanAtDir(fs, d) ==
    LET hits == {i \in DOMAIN MANIFEST_PRIORITY : matchManifestInDir(fs, d, MANIFEST_PRIORITY[i]) # {}}
    IN  IF hits = {} THEN NoScan
        ELSE LET entry == MANIFEST_PRIORITY[Min(hits)]
                 files == [k \in DOMAIN entry.names |-> File(d, entry.names[k])]
                 own   == matchManifestInDir(fs, d, entry)
                 first == files[Min(own)]
             IN  CASE entry.type = "sln" -> SlnMatch(fs, d, first)
                   [] entry.type = "csproj" -> handleCsprojMatch(fs, d, files, own)
                   [] entry.type = "go.work" -> handleGoWorkMatch(fs, first)
                   [] entry.type = "Cargo.toml" -> traverseCargoWorkspace(fs, first)
                   [] entry.type = "pom.xml" -> traverseAggregatorPom(fs, first)
                   [] entry.type = "libs.versions.toml" -> discoverGradleProjects(fs, first)
                   [] entry.type = "package.json" -> traverseJsWorkspaces(fs, first)
                   [] OTHER -> Reading(fs, {first}, Scan(d, entry.type, first, {}, {}))

-----------------------------------------------------------------------------
(* The tree: scanProjectRecursive(), breadth first; scanProject(), upwards *)

Before(d, e) ==
    \/ Len(d) < Len(e)
    \/ Len(d) = Len(e) /\ \E k \in DOMAIN d : d[k] < e[k] /\ \A j \in 1..(k - 1) : d[j] = e[j]
Directories(fs, start) ==
    LET below(d) == /\ IsPrefix(start, d) /\ Len(d) <= Len(start) + MaxDepth
                    /\ \A k \in (Len(start) + 1)..Len(d) : d[k] \notin IgnoredNames
        above == UNION {{SubSeq(f.dir, 1, k) : k \in 0..Len(f.dir)} : f \in DOMAIN fs}
    IN  {d \in above \cup {start} : below(d)}

\* The k-th directory has k - 1 before it.
Ordered(fs, start) ==
    LET all == Directories(fs, start)
    IN  [k \in 1..Cardinality(all) |-> CHOOSE d \in all : Cardinality({e \in all : Before(e, d)}) = k - 1]

isUnderAny(d, visited) == \E v \in visited : IsPrefix(v, d)

\* Mutant: two directories may give one manifest.
EmittedAnyway(walk, scan) == FALSE

\* emittedKeys.has(key): csproj directories below one solution all give that solution.
AlreadyEmitted(walk, scan) == \E i \in DOMAIN walk.results : walk.results[i].matched = scan.matched

\* A directory whose scan throws is descended into, as if it had no manifest.
Descends(scan) == ~Found(scan)

Visited(fs, walk, d, start) ==
    LET scan == scanAtDir(fs, d)
    IN  IF isUnderAny(d, walk.visited) \/ (d # start /\ Front(d) \notin walk.open) THEN walk
        ELSE IF Descends(scan) THEN [walk EXCEPT !.open = @ \cup {d}]
        ELSE IF ~Found(scan) \/ AlreadyEmitted(walk, scan) THEN walk
        ELSE [walk EXCEPT !.results = Append(@, scan), !.visited = @ \cup {d} \cup scan.members]

scanProjectRecursive(fs, start) ==
    LET n     == Cardinality(Directories(fs, start))
        order == Ordered(fs, start)
        walk[k \in 0..n] == IF k = 0 THEN [results |-> <<>>, visited |-> {}, open |-> {}]
                            ELSE Visited(fs, walk[k - 1], order[k], start)
    IN  walk[n].results

scanProject(fs, start) ==
    LET levels == {k \in 0..Len(start) : scanAtDir(fs, SubSeq(start, 1, k)).type # "none"}
    IN  IF levels = {} THEN NoScan ELSE scanAtDir(fs, SubSeq(start, 1, Max(levels)))

\* The scans of a start or of list_project_dependencies: down, or else up.
ProjectScans(fs, cwd) ==
    LET down == scanProjectRecursive(fs, cwd)
        up   == scanProject(fs, cwd)
    IN  IF down # <<>> THEN down ELSE IF Found(up) THEN <<up>> ELSE <<>>

-----------------------------------------------------------------------------
(* What a scan of a tree promises                                          *)

\* A repository's root, or a solution, stands between the start and the directory.
Parted(fs, start, d) ==
    \E k \in (Len(start) + 1)..Len(d) : \E name \in {".git", "x.sln"} : Has(fs, SubSeq(d, 1, k), name)

\* No manifest with dependencies is read by two scans, but for the projects of two
\* solutions, and for a project scanned on its own because another solution, which is of no
\* use, or a repository's root parts it from the solution above that lists it.
IsReadOnce(fs, start, results) ==
    \A i, j \in DOMAIN results : i # j =>
        \A f \in results[i].reads \cap results[j].reads :
            \/ f.name \in {"Directory.Packages.props", "x.sln"}
            \/ /\ results[i].type = "sln" /\ results[j].type = "sln"
               /\ {g \in results[i].extras : g.name = "x.sln"} # {g \in results[j].extras : g.name = "x.sln"}
            \/ {results[i].type, results[j].type} = {"sln", "csproj"} /\ Parted(fs, start, f.dir)

\* A directory that can be scanned is below one that gave a scan, or below a member: a
\* bad manifest costs its own scan only.
IsComplete(fs, start, results) ==
    \A d \in Directories(fs, start) : Found(scanAtDir(fs, d)) =>
        \E i \in DOMAIN results :
            \/ isUnderAny(d, results[i].members)
            \/ \E k \in Len(start)..Len(d) : results[i].matched = scanAtDir(fs, SubSeq(d, 1, k)).matched
=============================================================================
