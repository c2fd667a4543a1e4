------------------------------- MODULE WikiGraph -------------------------------
(***************************************************************************)
(* The knowledge graph: the edges that extractEdges() reads off a wiki     *)
(* page, and the queries of find_neighbors on the edges of all wikis.      *)
(*                                                                         *)
(* A page is a sequence of nodes, each of which names its section.  An id  *)
(* is <<repo>>, <<repo, section>>, <<repo, section, diagram node>>, or     *)
(* <<"file", repo, path>>.  An answer is a sequence of neighbors, in the   *)
(* order of their ids within each part; no property depends on that order. *)
(***************************************************************************)
EXTENDS Lists, SequencesExt

CONSTANT BadIds      \* diagram node ids that contain "::"

-----------------------------------------------------------------------------
(* extractEdges()                                                          *)

Raw(src, dst, type, kind) == [src |-> src, dst |-> dst, type |-> type, kind |-> kind]

\* A link to a file of repository `to`, by a code block or from prose.
FileLink(repo, s, to, path, kind) ==
    {Raw(<<repo, s>>, <<"file", to, path>>, "code_ref", "none")}
      \cup (IF to = repo THEN {} ELSE {Raw(<<repo, s>>, <<to>>, "cross_repo_ref", kind)})

\* A link to a wiki: an anchor of this page, or a URL of CodeWiki.
WikiLink(repo, s, to, anchor) ==
    CASE to # repo -> {Raw(<<repo, s>>, <<to>>, "cross_repo_ref", "anchor_link")}
      [] to = repo /\ anchor # "" -> {Raw(<<repo, s>>, <<repo, anchor>>, "section_link", "none")}
      [] OTHER -> {}

\* handleDiagramNode(): nodes with a malformed id are left out, and their arrows.
Diagram(repo, s, n) ==
    LET valid == n.ids \ BadIds
    IN  {Raw(<<repo, s>>, <<repo, s, d>>, "diagram_member", "none") : d \in valid}
          \cup {Raw(<<repo, s, a[1]>>, <<repo, s, a[2]>>, "diagram_edge", "none") :
                   a \in {a \in n.arrows : a[1] \in valid /\ a[2] \in valid}}

OfNode(repo, n) ==
    CASE n.type = "code" -> FileLink(repo, n.section, n.repo, n.path, "code_block")
      [] n.type = "blob" -> FileLink(repo, n.section, n.repo, n.path, "prose_link")
      [] n.type = "link" -> WikiLink(repo, n.section, n.repo, n.anchor)
      [] n.type = "diagram" -> Diagram(repo, n.section, n)
      [] OTHER -> {}

\* currentSection: the last heading above the node, if it is the node's section.
InSection(nodes, i) ==
    \E h \in 1..i :
        /\ nodes[h].type = "heading" /\ nodes[h].section = nodes[i].section
        /\ \A j \in (h + 1)..i : nodes[j].type # "heading"

\* Mutant: an edge that is there keeps the kind it was added with.
FirstKind(raw, e) == {(CHOOSE r \in raw : r.src = e.src /\ r.dst = e.dst /\ r.type = e.type).kind}

\* add(): the kinds of links with one key are merged.
KindsOf(raw, e) == {r.kind : r \in {r \in raw : r.src = e.src /\ r.dst = e.dst /\ r.type = e.type}}

Extract(repo, nodes) ==
    LET raw == UNION {OfNode(repo, nodes[i]) : i \in {i \in DOMAIN nodes : InSection(nodes, i)}}
    IN  {[src |-> e.src, dst |-> e.dst, type |-> e.type, repo |-> repo,
          kinds |-> KindsOf(raw, e) \ {"none"}] : e \in raw}

-----------------------------------------------------------------------------
(* The queries                                                             *)

Neighbor(type, direction, id, from) == [type |-> type, direction |-> direction, id |-> id, from |-> from]

\* One neighbor for each edge of E.
Sources(E) == SetToSeq({Neighbor(e.type, "in", e.src, <<>>) : e \in E})
Targets(E) == SetToSeq({Neighbor(e.type, "out", e.dst, <<>>) : e \in E})
Wants(direction, way) == direction \in {way, "both"}

\* pages_referencing_file; without `github` the file may be of any repository.
PagesReferencingFile(edges, github, path) ==
    Sources({e \in edges : e.type = "code_ref" /\ e.dst[3] = path /\ (github = "" \/ e.dst[2] = github)})

SectionLinks(edges, repo, s, direction) ==
    LET links == {e \in edges : e.type = "section_link" /\ e.repo = repo}
    IN  (IF Wants(direction, "out") THEN Targets({e \in links : e.src = <<repo, s>>}) ELSE <<>>)
          \o (IF Wants(direction, "in") THEN Sources({e \in links : e.dst = <<repo, s>>}) ELSE <<>>)

AmongMembers(arrows, members) == {e \in arrows : e.src \in members /\ e.dst \in members}

\* diagram_neighbors of a section: its members, then the arrows among them.
DiagramOfSection(edges, repo, s) ==
    LET members == {e \in edges : e.type = "diagram_member" /\ e.repo = repo /\ e.src = <<repo, s>>}
        arrows == AmongMembers({e \in edges : e.type = "diagram_edge" /\ e.repo = repo}, {e.dst : e \in members})
    IN  Targets(members) \o SetToSeq({Neighbor("diagram_edge", "out", e.dst, e.src) : e \in arrows})

\* diagram_neighbors of one node.
DiagramOfNode(edges, repo, s, d) ==
    LET arrows == {e \in edges : e.type = "diagram_edge" /\ e.repo = repo}
    IN  Targets({e \in arrows : e.src = <<repo, s, d>>}) \o Sources({e \in arrows : e.dst = <<repo, s, d>>})

\* cross_repo: a neighbor for each repository, with the sections that link to it.
CrossOut(edges, repo) ==
    LET rows == {e \in edges : e.type = "cross_repo_ref" /\ e.repo = repo}
    IN  {[id |-> dst, sections |-> {e.src[2] : e \in {e \in rows : e.dst = dst}},
          kinds |-> UNION {e.kinds : e \in {e \in rows : e.dst = dst}}] : dst \in {e.dst : e \in rows}}

CrossIn(edges, repo) ==
    LET rows == {e \in edges : e.type = "cross_repo_ref" /\ e.dst = <<repo>>}
    IN  {[id |-> <<src>>, sections |-> {e.src[2] : e \in {e \in rows : e.repo = src}}] : src \in {e.repo : e \in rows}}

\* dep_link: the dependencies of the project whose repository is indexed; `repos`
\* is the cache of resolved names.
DepLinks(repo, dependencies, repos, indexed) ==
    {[dependency |-> d, id |-> <<repos[d]>>] :
        d \in {d \in dependencies \cap DOMAIN repos : repos[d] # repo /\ repos[d] \in indexed}}

\* applySemanticRank(): neighbors with a section that has chunks come first, by the
\* score of the section; the sort is stable.  Repositories have no score.
SemanticRank(neighbors, score) ==
    LET At(n) == <<n.id[1], n.id[2]>>
        Scored(n) == Len(n.id) > 1 /\ n.id[1] # "file" /\ At(n) \in DOMAIN score
    IN  StablySorted(neighbors,
            [i \in DOMAIN neighbors |-> IF Scored(neighbors[i]) THEN score[At(neighbors[i])] + 1 ELSE 0])

\* finalize()
Finalize(neighbors, limit) ==
    [neighbors |-> SubSeq(neighbors, 1, IF Len(neighbors) > limit THEN limit ELSE Len(neighbors)),
     truncated |-> Len(neighbors) > limit]

-----------------------------------------------------------------------------
(* What is promised                                                        *)

IdsOf(answer, way) == {answer[i].id : i \in {i \in DOMAIN answer : answer[i].direction = way}}

\* Sections name each other: B is a target of A exactly if A is a source of B, and
\* both if A's text, in a section that is A's, links to B.
LinksAreMutual(repo, nodes, edges, sections) ==
    \A a, b \in sections :
        LET out == <<repo, b>> \in IdsOf(SectionLinks(edges, repo, a, "out"), "out")
            in == <<repo, a>> \in IdsOf(SectionLinks(edges, repo, b, "both"), "in")
            text == \E i \in DOMAIN nodes :
                       /\ InSection(nodes, i) /\ nodes[i].section = a
                       /\ nodes[i].type = "link" /\ nodes[i].repo = repo /\ nodes[i].anchor = b
        IN  (out <=> in) /\ (out <=> text)

\* Repositories too, with every kind of link that the text of the page has.
CrossIsMutual(repo, nodes, edges, repos) ==
    \A other \in repos \ {repo} :
        LET out == {n \in CrossOut(edges, repo) : n.id = <<other>>}
            in == {n \in CrossIn(edges, other) : n.id = <<repo>>}
            Links(type) == {i \in DOMAIN nodes :
                               InSection(nodes, i) /\ nodes[i].type = type /\ nodes[i].repo = other}
        IN  /\ {n.sections : n \in out} = {n.sections : n \in in}
            /\ \A n \in out :
                  n.kinds = (IF Links("code") = {} THEN {} ELSE {"code_block"})
                              \cup (IF Links("blob") = {} THEN {} ELSE {"prose_link"})
                              \cup (IF Links("link") = {} THEN {} ELSE {"anchor_link"})

\* A diagram that is cut at `limit`, and ranked, has no arrow without its ends, and
\* an arrow of the section is missing only if the answer says it is truncated.
DiagramIsClosed(edges, repo, s, score, limit) ==
    LET answer == Finalize(SemanticRank(DiagramOfSection(edges, repo, s), score), limit)
        drawn == {answer.neighbors[i] : i \in DOMAIN answer.neighbors}
        nodes == {n.id : n \in {n \in drawn : n.type = "diagram_member"}}
        arrows == {<<n.from, n.id>> : n \in {n \in drawn : n.type = "diagram_edge"}}
    IN  /\ \A a \in arrows : a[1] \in nodes /\ a[2] \in nodes
        /\ answer.truncated \/ arrows = {<<e.src, e.dst>> : e \in {e \in edges : e.type = "diagram_edge"
                                            /\ e.repo = repo /\ SubSeq(e.src, 1, 2) = <<repo, s>>}}
=============================================================================
