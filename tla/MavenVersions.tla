----------------------------- MODULE MavenVersions -----------------------------
(***************************************************************************)
(* The versions that a pom.xml leaves to others: enrichWithParentPom() and *)
(* then enrichWithBomImports(), with the tables maven_parent_versions and  *)
(* maven_bom_versions as their cache.                                      *)
(*                                                                         *)
(* `poms` maps the coordinates of a POM to what its <dependencyManagement> *)
(* says: `versions`, a function from dependencies, and `nested`, the BOMs  *)
(* it imports.  A project is a scan: `declared`, `boms` and `parent`, a    *)
(* sequence of at most one POM.  A fetch of a POM in `down` fails.         *)
(*                                                                         *)
(* `cached` maps the coordinates that have a row to its shape: an          *)
(* "envelope", or "flat" when a version before v2.5 wrote it.              *)
(***************************************************************************)
EXTENDS Naturals, Sequences, FiniteSets, Functions, SequencesExt

CONSTANT MaxBomDepth     \* MAX_BOM_DEPTH
ASSUME BomDepthAssumption == MaxBomDepth \in Nat

\* What a version before v2.5 stored; as a mutant, what this one might still store.
Flat(pom) == [versions |-> pom.versions]

\* serializeEnvelope(), of setMavenBomVersions() and setMavenParentVersions().
Stored(pom) == [versions |-> pom.versions, nested |-> pom.nested]
ParseEnvelope(row) ==
    [versions |-> row.versions, nested |-> IF "nested" \in DOMAIN row THEN row.nested ELSE <<>>]

\* loadBomResolution(), loadParentResolution(): a row never expires, a failure leaves none.
Loads(cached, down, k) == k \in DOMAIN cached \/ k \notin down
Loaded(poms, cached, k) ==
    IF k \in DOMAIN cached
    THEN ParseEnvelope(IF cached[k] = "flat" THEN Flat(poms[k]) ELSE Stored(poms[k]))
    ELSE poms[k]

\* The values of `first` win.
Under(first, second) == [d \in DOMAIN first \cup DOMAIN second |-> IF d \in DOMAIN first THEN first[d] ELSE second[d]]

NearerWins(merged, level) == Under(merged, level)

\* The BOMs that are not seen yet, each once.
NotSeen(boms, seen) ==
    LET fresh[n \in 0..Len(boms)] ==
            IF n = 0 THEN <<>>
            ELSE IF boms[n] \in seen \cup ToSet(fresh[n - 1]) THEN fresh[n - 1] ELSE Append(fresh[n - 1], boms[n])
    IN  fresh[Len(boms)]

\* One round of the walk: siblings are merged in order, the last one wins.
Level(poms, cached, down, w) ==
    LET there  == {i \in DOMAIN w.frontier : Loads(cached, down, w.frontier[i])}
        pom(i) == Loaded(poms, cached, w.frontier[i])
        level  == [d \in UNION {DOMAIN pom(i).versions : i \in there} |->
                      pom(Max({i \in there : d \in DOMAIN pom(i).versions})).versions[d]]
        nested == FlattenSeq([i \in DOMAIN w.frontier |-> IF i \in there THEN pom(i).nested ELSE <<>>])
        next   == NotSeen(nested, w.seen)
    IN  [frontier |-> next, seen |-> w.seen \cup ToSet(next), merged |-> NearerWins(w.merged, level)]

BomVersions(poms, cached, down, boms) ==
    LET seed == NotSeen(boms, {})
        walk[depth \in 0..(MaxBomDepth + 1)] ==
            IF depth = 0 THEN [frontier |-> seed, seen |-> ToSet(seed), merged |-> <<>>]
            ELSE Level(poms, cached, down, walk[depth - 1])
    IN  walk[MaxBomDepth + 1].merged

\* enrichWithParentPom(): versions the project leaves open, and the BOMs of the parent
\* behind its own.
WithParent(poms, cached, down, project) ==
    IF \E k \in ToSet(project.parent) : Loads(cached, down, k)
    THEN LET pom == Loaded(poms, cached, project.parent[1])
         IN  [project EXCEPT !.declared = Under(@, pom.versions), !.boms = @ \o pom.nested]
    ELSE project

Enriched(poms, cached, down, project) ==
    LET p == WithParent(poms, cached, down, project)
    IN  Under(p.declared, BomVersions(poms, cached, down, p.boms))

-----------------------------------------------------------------------------
\* The POMs of the next level, each with a BOM that imports it.
ReachedIn(poms, down, boms) ==
    LET near[n \in 0..MaxBomDepth] ==
            IF n = 0 THEN ToSet(boms) ELSE UNION {ToSet(poms[b].nested) : b \in near[n - 1] \ down}
    IN  near
Distance(near, b) == CHOOSE n \in DOMAIN near : b \in near[n] /\ \A m \in 0..(n - 1) : b \notin near[m]

\* The POMs as an old row shows them: what it imports is lost, and with it all below.
OldRows(cached) == {k \in DOMAIN cached : cached[k] = "flat"}
Shortened(poms, old) == [k \in DOMAIN poms |-> IF k \in old THEN [poms[k] EXCEPT !.nested = <<>>] ELSE poms[k]]

\* Rows of earlier calls change no answer, but for old ones, whose imports are lost: the
\* answer is that of an empty cache on the POMs that are left.
IsReplayed(poms, cached, down, project) ==
    Enriched(poms, cached, down, project) =
        Enriched(Shortened(poms, OldRows(cached)), <<>>, down \ DOMAIN cached, project)

\* A dependency has the version of a nearest BOM that manages it.
IsNearest(poms, down, boms) ==
    LET near   == ReachedIn(poms, down, boms)
        result == BomVersions(poms, <<>>, down, boms)
        Manage(d) == {b \in (UNION Range(near)) \ down : d \in DOMAIN poms[b].versions}
    IN  \A d \in UNION {DOMAIN poms[b].versions : b \in DOMAIN poms} :
            /\ d \in DOMAIN result <=> Manage(d) # {}
            /\ d \in DOMAIN result => \E b \in Manage(d) :
                  /\ poms[b].versions[d] = result[d]
                  /\ \A c \in Manage(d) : Distance(near, b) <= Distance(near, c)
=============================================================================
