------------------------------ MODULE MCAlgorithms ------------------------------
(* The functions of the server over bounded inputs: a state is one input. *)
EXTENDS Ranking, WikiText, WikiGraph, ProjectScan, RepoResolver, MavenVersions

CONSTANTS
    MaxChunks,      \* bound: chunks of a repository
    MaxParagraphs,  \* bound: paragraphs of a section
    MaxNodes,       \* bound: nodes of a page below its first heading
    MaxFiles        \* bound: manifests of a project

ASSUME InputBounds == {MaxChunks, MaxParagraphs, MaxNodes, MaxFiles} \subseteq Nat

VARIABLE input

SeqsUpTo(S, n) == UNION {[1..m -> S] : m \in 0..n}

-----------------------------------------------------------------------------
Injections(n) == {s \in SeqsUpTo(1..n, n) : Cardinality(ToSet(s)) = Len(s)}
Tables == UNION {{[size |-> n, matches |-> s] : s \in Injections(n)} : n \in 0..MaxChunks}

Slugs == {<<"a">>, <<"b">>, <<"a", "b">>, <<"a", "c">>, <<"a", "b", "c">>, <<"a", "b", "c", "d">>}
Document == SetToSeq(Slugs)

Heading(s) == [type |-> "heading", section |-> s]
Node(type, s, repo) == [type |-> type, section |-> s, repo |-> repo, path |-> "p", anchor |-> "t"]
Drawing(s, ids, arrows) == [type |-> "diagram", section |-> s, ids |-> ids, arrows |-> arrows]
Sections == {"s", "t"}
Nodes ==
    {Heading(s) : s \in Sections}
      \cup {Node(type, s, repo) : type \in {"code", "blob", "link"}, s \in Sections, repo \in {"r", "q"}}
      \cup {Drawing("s", {"x", "y"}, {<<"x", "y">>, <<"y", "y">>, <<"x", "z">>}),
            Drawing("t", {"x", "z::"}, {<<"x", "z::">>, <<"x", "x">>})}
OtherPage == <<Heading("s"), Node("link", "s", "r"), Node("blob", "s", "r"), Drawing("s", {"x"}, {<<"x", "x">>})>>

Home == <<>>
A == <<1>>
B == <<2>>
A1 == <<1, 1>>
Cs(d) == File(d, "a.csproj")
Holds(d, name, members) == [file |-> File(d, name), bad |-> FALSE, deps |-> {<<d, name>>}, members |-> members]
Bad(d, name) == [Holds(d, name, <<>>) EXCEPT !.bad = TRUE]

DotNet ==
    {Holds(Home, "x.sln", m) : m \in {<<>>, <<Cs(B)>>, <<Cs(A), Cs(B)>>}}
      \cup {Holds(A, "x.sln", m) : m \in {<<>>, <<Cs(A)>>, <<Cs(A1), Cs(A)>>}}
      \cup {Holds(d, "a.csproj", <<>>) : d \in {A, B, A1}} \cup {Holds(A, "b.csproj", <<>>)}
      \cup {Holds(A, ".git", <<>>), Holds(A1, "package.json", <<>>), Holds(Home, "Directory.Packages.props", <<>>)}
      \cup {Bad(Home, "x.sln"), Bad(Home, "Directory.Packages.props"), Bad(A, "a.csproj"), Bad(Home, "pom.xml")}
Workspaces ==
    {Holds(Home, "package.json", m) : m \in {<<>>, <<A>>, <<A1, B>>}}
      \cup {Holds(A, "Cargo.toml", m) : m \in {<<>>, <<A1>>, <<B>>}}
      \cup {Holds(A, name, <<A1>>) : name \in {"pom.xml", "go.work", "settings.gradle", "pnpm-workspace.yaml"}}
      \cup {Holds(d, name, <<>>) : d \in {A1, B}, name \in {"package.json", "Cargo.toml"}}
      \cup {Holds(A1, name, <<>>) : name \in {"pom.xml", "go.mod", "build.gradle", "Gemfile"}}
      \cup {Holds(A, "package.json", <<A1>>), Holds(A, "libs.versions.toml", <<>>), Holds(<<2, 9>>, "Gemfile", <<>>)}
      \cup {Bad(A, "Cargo.toml"), Bad(A1, "Cargo.toml"), Bad(A, "pnpm-workspace.yaml"), Bad(Home, "package.json")}
FileSystem(S) == [f \in {e.file : e \in S} |-> CHOOSE e \in S : e.file = f]
Trees(S) == {t \in UNION {kSubset(n, S) : n \in 0..MaxFiles} : \A e, g \in t : e.file = g.file => e = g}

Link == [high : BOOLEAN, repo : {NoRepo, "r", "q"}]
Replies == {[status |-> status, links |-> <<>>] : status \in {"missing", "down"}}
             \cup {[status |-> "found", links |-> l] : l \in SeqsUpTo(Link, 2)}
Guesses == [named |-> "g", odd |-> NoRepo]

AskRanking == \E n \in 0..2 : \E t \in [1..n -> Tables], k \in 1..2 :
    input' = [of |-> "ranking", tables |-> t, k |-> k]
AskText == \E t \in SeqsUpTo({1, 4, 8, 20}, MaxParagraphs), b \in 0..1, o \in 0..2 :
    input' = [of |-> "text", text |-> t, blanks |-> b, overlap |-> o]
AskSubtree == \E s \in SUBSET Slugs, t \in Slugs :
    input' = [of |-> "subtree", slugs |-> s, target |-> t]
AskGraph == \E p \in SeqsUpTo(Nodes, MaxNodes) :
    input' = [of |-> "graph", page |-> <<Heading("s")>> \o p]

AskScan == \E t \in Trees(DotNet) \cup Trees(Workspaces), d \in {Home, A} :
    input' = [of |-> "scan", fs |-> FileSystem(t), start |-> d]
AskResolver == \E n \in DOMAIN Guesses, e \in Ecosystems, first \in Replies, second \in Replies :
    /\ e \in {"maven", "nuget"} \/ second = first
    /\ input' = [of |-> "resolver", name |-> n, ecosystem |-> e, first |-> first, second |-> second]

Boms == {"a", "b", "c"}
Nested == SeqsUpTo(Boms, 1) \cup {<<"b", "c">>, <<"c", "b">>}
Poms == {[b \in Boms |-> [versions |-> IF b \in owners THEN "d" :> b ELSE <<>>, nested |-> nested[b]]] :
            owners \in SUBSET Boms, nested \in [Boms -> Nested]}
MavenProjects == {[declared |-> <<>>, boms |-> <<"a">>, parent |-> <<>>],
             [declared |-> "d" :> "own", boms |-> <<"a">>, parent |-> <<>>],
             [declared |-> <<>>, boms |-> <<"a", "b", "a">>, parent |-> <<>>],
             [declared |-> <<>>, boms |-> <<"a">>, parent |-> <<"c">>]}
\* No rows, a row of the BOM that cannot be fetched, and rows of this version beside an old one.
CachedRows == {<<>>, "b" :> "envelope", "a" :> "envelope" @@ "c" :> "flat", "a" :> "envelope" @@ "b" :> "flat"}
AskVersions == \E poms \in Poms, project \in MavenProjects, down \in {{}, {"b"}}, cached \in CachedRows :
    input' = [of |-> "versions", poms |-> poms, project |-> project, down |-> down, cached |-> cached]

Nothing == [of |-> "nothing"]
InputInit == input = Nothing
AskOne == input = Nothing /\ (AskRanking \/ AskText \/ AskSubtree \/ AskGraph \/ AskScan \/ AskResolver \/ AskVersions)
Answer == input # Nothing /\ input' = Nothing
InputNext == AskOne \/ Answer
InputSpec == InputInit /\ [][InputNext]_input

-----------------------------------------------------------------------------
\* Hybrid retrieval: the fused list of a repository is the TopN of the summed reciprocal
\* ranks; walking its pages up to `total` returns each candidate once and in order,
\* although total is computed from the tables; and without `truncated` every chunk of
\* every searched repository was a candidate.
PagesAreComplete == input.of = "ranking" =>
    /\ \A i \in DOMAIN input.tables : IsFusion(input.tables[i], Fused(i, input.tables[i]))
    /\ WalkIsComplete(input.tables, input.k)
    /\ FlagIsHonest(input.tables)

\* A page is cut without loss: chunking keeps all text, ends, and exceeds maxTokens only
\* by one paragraph or by what joins the paragraphs; a subsection is the headings below it and nothing else, although
\* parents are inferred from whatever headings the page has.
PagesAreCutCleanly ==
    /\ input.of = "text" => ChunksCover(input.text, input.blanks, 5, input.overlap)
    /\ input.of = "subtree" => IsSubtree(input.slugs, Document, input.target)

Scores == {<<>>} \cup {[at \in {<<"r", s>>} |-> 1] : s \in Sections}
Edges == Extract("r", input.page) \cup Extract("q", OtherPage)

\* Links of the knowledge graph are found from both ends, with all their kinds, exactly
\* as the text has them; diagrams stay closed under ranking and truncation.
NeighborsAreSound == input.of = "graph" =>
    /\ LinksAreMutual("r", input.page, Edges, Sections)
    /\ CrossIsMutual("r", input.page, Edges, {"r", "q"})
    /\ \A s \in Sections, limit \in 1..4, score \in Scores :
          DiagramIsClosed(Edges, "r", s, score, limit)

\* The recursive scan counts no manifest twice, although several directories lead to one
\* solution and workspaces reach down the tree (but see IsReadOnce); and a manifest that cannot be read loses
\* its own scan, and no other part of the tree.
ScansAreComplete == input.of = "scan" =>
    LET scan == scanProjectRecursive(input.fs, input.start)
    IN  IsReadOnce(input.fs, input.start, scan) /\ IsComplete(input.fs, input.start, scan)

\* A repository is read off the best link, and guessed only where a guess is due.
ReposAreSourced == input.of = "resolver" =>
    IsSourced(input.name, input.ecosystem, input.first, input.second)

\* Maven: rows that earlier calls left change no answer, although they stand for POMs that
\* may be out of reach now; a row from before v2.5 loses what its POM imports, and nothing
\* else.  A dependency has the version of a nearest BOM, among those that are left, that
\* manages it.
VersionsAreNearest == input.of = "versions" =>
    LET left == Shortened(input.poms, OldRows(input.cached))
    IN  /\ IsReplayed(input.poms, input.cached, input.down, input.project)
        /\ IsNearest(left, input.down \ DOMAIN input.cached, input.project.boms)
=============================================================================
