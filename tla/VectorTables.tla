------------------------------ MODULE VectorTables ------------------------------
(***************************************************************************)
(* The three tables of a search index in cache.db: chunks, and the virtual *)
(* tables vec_chunks (embeddings) and fts_chunks (words), which refer to a *)
(* chunk by its rowid only.  Cache opens and migrates them, VectorStore    *)
(* writes and joins them, for processes that may lack sqlite-vec, FTS5 or  *)
(* run with an operator's override.                                        *)
(*                                                                         *)
(* SQLite gives a new row the rowid that follows the highest one in use, so *)
(* the rowids of deleted rows come back.                                   *)
(***************************************************************************)
EXTENDS Naturals, FiniteSets, Functions

CONSTANTS
    Procs,
    Repos,
    Sections,
    Texts,
    Dims,          \* the configured embedding models, by their dimension
    LegacyDim,     \* LEGACY_EMBED_MODEL_DEFAULT.dim
    None,
    Tolerated,     \* the backfill of fts_chunks may skip less than one row in so many
    MaxRow,        \* bound: rowids
    MaxSections,   \* bound: sections of a page
    MixedWriters   \* may processes with and without the virtual tables share cache.db?

\* `failed / total >= 0.01` gives up the backfill: Tolerated is 100 in the code.

ASSUME TablesAssumption ==
    /\ LegacyDim \in Dims /\ MixedWriters \in BOOLEAN
    /\ MaxRow \in Nat \ {0} /\ MaxSections \in 0..MaxRow /\ Tolerated \in Nat \ {0}
    /\ None \notin Dims \cup Repos \cup [model : Dims, dim : Dims]

VARIABLES
    db,      \* cache.db: the tables, as functions of the rowid, the dimension of
             \* vec_chunks, schema_version, the embedder's fingerprint, whether
             \* wiki_index_status has rows, and (history) whether the fingerprint was
             \* adopted: stamped as the legacy model's on an index without chunks
    proc,    \* proc[p]: where process p is, how it was configured and what it found
    torn     \* repositories that a virtual table may miss chunks of: their three
             \* DELETEs are not all done, the backfill skipped one, or a process
             \* without that table built them (a history variable)

vars == <<db, proc, torn>>

\* "nobm25" is CODEWIKI_FORCE_NO_BM25, "purejs" CODEWIKI_FORCE_PUREJS_VECTOR;
\* "novec" and "nofts" could not load or migrate a virtual table.
Kinds == {"full", "nobm25"} \cup (IF MixedWriters THEN {"purejs", "novec", "nofts"} ELSE {})

Chunk == [repo : Repos, section : Sections, text : Texts, dim : Dims]
Table(S) == UNION {[R -> S] : R \in SUBSET (1..MaxRow)}
Embedding == [text : Texts, dim : Dims]
Phases == {"down", "booting", "open", "drop_fts", "drop_vec", "drop_chunks", "drop_status"}

TypeOK ==
    /\ db \in [chunks : Table(Chunk), vec : Table(Embedding), fts : Table(Texts), schema : 5..7,
               vecDim : Dims \cup {None}, fingerprint : [model : Dims, dim : Dims] \cup {None},
               status : BOOLEAN, adopted : BOOLEAN]
    /\ proc \in [Procs -> [phase : Phases, kind : Kinds, dim : Dims, vec : BOOLEAN,
                           fts : BOOLEAN, repo : Repos \cup {None}]]
    /\ torn \subseteq Repos

NoRows == [i \in {} |-> None]
IsEmpty(table) == DOMAIN table = {}

\* The embedding of a chunk is a function of its text and the model.
Embedded(c) == [text |-> c.text, dim |-> c.dim]
Down == [phase |-> "down", kind |-> "full", dim |-> LegacyDim, vec |-> FALSE, fts |-> FALSE, repo |-> None]

\* cache.db of release 2.5 or before, of 2.6, or a new one.  The status rows of pages
\* without sections may be all it has.
Init ==
    /\ \E n \in 0..MaxSections : \E page \in [1..n -> Repos \X Sections \X Texts] :
       \E d \in Dims, schema \in {5, 6}, stamped, status \in BOOLEAN :
          /\ \A i, j \in 1..n : page[i][1] = page[j][1] /\ page[i][2] = page[j][2] => i = j
          /\ n = 0 => schema = 5 /\ ~stamped
          /\ n > 0 => status /\ (stamped \/ d = LegacyDim)
          /\ db = [chunks |-> [i \in 1..n |-> [repo |-> page[i][1], section |-> page[i][2],
                                              text |-> page[i][3], dim |-> d]],
                   vec |-> [i \in 1..(IF schema = 6 THEN n ELSE 0) |-> [text |-> page[i][3], dim |-> d]],
                   fts |-> NoRows, schema |-> schema, vecDim |-> IF schema = 6 THEN d ELSE None,
                   fingerprint |-> IF stamped THEN [model |-> d, dim |-> d] ELSE None,
                   status |-> status, adopted |-> FALSE]
    /\ proc = [p \in Procs |-> Down]
    /\ torn = {}

-----------------------------------------------------------------------------
(* Opening: new Cache()                                                    *)

RowsOf(d, r) == {i \in DOMAIN d.chunks : d.chunks[i].repo = r}
Without(table, rows) == Restrict(table, DOMAIN table \ rows)

\* runV6Migration(): behind schema 6 it only makes sure that the table exists; an
\* embedding of another dimension rolls the backfill back.
MigratesVec(d, kind, dim) ==
    kind # "novec" /\ (d.schema >= 6 \/ \A i \in DOMAIN d.chunks : d.chunks[i].dim = dim)

WithVec(d, dim) ==
    IF d.schema >= 6 THEN d
    ELSE [d EXCEPT !.vec = [i \in DOMAIN d.chunks |-> Embedded(d.chunks[i])], !.vecDim = dim, !.schema = 6,
                   !.fingerprint = IF @ = None THEN None ELSE [@ EXCEPT !.dim = dim]]

\* Mutant: the table is created and the version stamped without the backfill.
NotBackfilled(d, skipped) == IF d.schema >= 7 THEN d ELSE [d EXCEPT !.schema = 7]

\* runV7Migration(), which is tried behind the other one only: rows that fail to insert
\* are skipped, and the version is stamped with degraded coverage.
WithFts(d, skipped) ==
    IF d.schema >= 7 THEN d
    ELSE [d EXCEPT !.fts = [i \in DOMAIN d.chunks \ skipped |-> d.chunks[i].text], !.schema = 7]

\* What the constructor leaves, and what it found.
MigratesFts(d, kind, dim) == MigratesVec(d, kind, dim) /\ kind # "nofts"
Opened(d, kind, dim, skipped) ==
    LET v == IF MigratesVec(d, kind, dim) THEN WithVec(d, dim) ELSE d
    IN  IF MigratesFts(d, kind, dim) THEN WithFts(v, skipped) ELSE v

\* The rows that the constructor may skip.  With more of them, it opens the cache as
\* "nofts" does.
Skippable(d, kind, dim) ==
    IF d.schema < 7 /\ MigratesFts(d, kind, dim)
    THEN {{}} \cup {rows \in SUBSET DOMAIN d.chunks :
                       Cardinality(rows) * Tolerated < Cardinality(DOMAIN d.chunks)}
    ELSE {{}}

ReposAt(d, rows) == {d.chunks[i].repo : i \in rows}

\* Two models at once are another matter: see CleanAfterSwap of module Indexer.
MayStart(p, dim) == MixedWriters \/ \A q \in Procs : proc[q].phase # "down" => proc[q].dim = dim

\* Mutant: vec_chunks keeps its dimension.
NotRecreated(d, dim) == d

\* DROP TABLE vec_chunks, CREATE VIRTUAL TABLE vec_chunks
Recreated(d, dim) == [d EXCEPT !.vec = NoRows, !.vecDim = dim]

\* dropAllChunks() of a store that writes vec_chunks, or not, and fts_chunks, or not.
AllDropped(d, vec, fts) ==
    [d EXCEPT !.chunks = NoRows, !.status = FALSE, !.adopted = FALSE,
              !.vec = IF vec THEN Without(@, DOMAIN d.chunks) ELSE @,
              !.fts = IF fts THEN Without(@, DOMAIN d.chunks) ELSE @]

\* applyEmbedderAutoReindex() on the opened cache.  hasAnyIndex() looks at the chunks
\* and at the status rows.
Swapped(d, vec, fts, dim) ==
    LET old == IF d.fingerprint = None /\ (~IsEmpty(d.chunks) \/ d.status)
               THEN [model |-> LegacyDim, dim |-> LegacyDim] ELSE d.fingerprint
        current == [model |-> dim, dim |-> dim]
        dropped == AllDropped(d, vec, fts)
    IN  CASE old = None -> d
          [] old = current -> [d EXCEPT !.fingerprint = current,
                                        !.adopted = @ \/ (d.fingerprint = None /\ IsEmpty(d.chunks))]
          [] OTHER -> [(IF old.dim # dim /\ vec THEN Recreated(dropped, dim) ELSE dropped)
                         EXCEPT !.fingerprint = current]

\* runEmbedderAutoReindex(): open, swap, close.
Boot(p) ==
    /\ proc[p].phase = "down"
    /\ \E kind \in Kinds, dim \in Dims :
          /\ MayStart(p, dim)
          /\ \E skipped \in Skippable(db, kind, dim) :
                LET vec == MigratesVec(db, kind, dim) /\ kind # "purejs"
                IN  /\ db' = Swapped(Opened(db, kind, dim, skipped), vec, MigratesFts(db, kind, dim), dim)
                    /\ torn' = IF IsEmpty(db'.chunks) THEN {} ELSE torn \cup ReposAt(db, skipped)
          /\ proc' = [proc EXCEPT ![p] = [Down EXCEPT !.phase = "booting", !.kind = kind, !.dim = dim]]

\* buildServer() opens the cache again, for as long as the process runs.
Open(p) ==
    /\ proc[p].phase = "booting"
    /\ \E skipped \in Skippable(db, proc[p].kind, proc[p].dim) :
          /\ db' = Opened(db, proc[p].kind, proc[p].dim, skipped)
          /\ torn' = torn \cup ReposAt(db, skipped)
    /\ proc' = [proc EXCEPT ![p] = [@ EXCEPT !.phase = "open",
                    !.vec = MigratesVec(db, proc[p].kind, proc[p].dim),
                    !.fts = MigratesFts(db, proc[p].kind, proc[p].dim)]]

Exit(p) ==
    /\ proc[p].phase # "down"
    /\ proc' = [proc EXCEPT ![p] = Down]
    /\ UNCHANGED <<db, torn>>

-----------------------------------------------------------------------------
(* Writing                                                                 *)

\* _hasSqliteVec, _hasFts5, and the gate of writes to fts_chunks.
HasVec(p) == proc[p].vec /\ proc[p].kind # "purejs"
HasBm25(p) == proc[p].fts /\ proc[p].kind # "nobm25"

\* The operator's escape disables queries, not writes.
WritesFts(p) == proc[p].fts

\* Mutant: rowids count from zero.
FromZero(d) == IF IsEmpty(d.chunks) THEN 0 ELSE 1 + CHOOSE i \in DOMAIN d.chunks : \A j \in DOMAIN d.chunks : j <= i

NextRow(d) == IF IsEmpty(d.chunks) THEN 1 ELSE 1 + CHOOSE i \in DOMAIN d.chunks : \A j \in DOMAIN d.chunks : j <= i

\* Mutant: INSERT OR IGNORE, without the DELETE before it.
KeptAt(table, row, value) ==
    [i \in DOMAIN table \cup {row} |-> IF i \in DOMAIN table THEN table[i] ELSE value]

\* DELETE ... WHERE rowid = ?, INSERT
PutAt(table, row, value) ==
    [i \in DOMAIN table \cup {row} |-> IF i = row THEN value ELSE table[i]]

\* One chunk of upsertChunks(): INSERT OR REPLACE takes a new rowid and deletes the
\* row with the same key; the virtual tables keep what they have for that one.
Upserted(d, p, c) ==
    LET row == NextRow(d)
        same == {i \in RowsOf(d, c.repo) : d.chunks[i].section = c.section}
    IN  [d EXCEPT !.chunks = PutAt(Without(@, same), row, c),
                  !.vec = IF HasVec(p) THEN PutAt(@, row, Embedded(c)) ELSE @,
                  !.fts = IF WritesFts(p) THEN PutAt(@, row, c.text) ELSE @]

\* upsertChunks(): n chunks, one after the other.
UpsertedAll(d, p, c, n) ==
    LET upserted[i \in 0..n] == IF i = 0 THEN d ELSE Upserted(upserted[i - 1], p, c[i])
    IN  upserted[n]

\* dropRepo(): all three DELETEs, within a transaction.
Dropped(d, p, r) ==
    [d EXCEPT !.chunks = Without(@, RowsOf(d, r)),
              !.vec = IF HasVec(p) THEN Without(@, RowsOf(d, r)) ELSE @,
              !.fts = IF WritesFts(p) THEN Without(@, RowsOf(d, r)) ELSE @]

\* Every virtual table that cache.db has takes what this process builds.
WritesAll(p) == (db.schema >= 6 => HasVec(p)) /\ (db.schema >= 7 => WritesFts(p))

\* The transaction of a build, which also stamps the fingerprint behind it.  The
\* page may name one section twice.
Build(p, r) ==
    /\ proc[p].phase = "open"
    /\ \E n \in 1..MaxSections : \E page \in [1..n -> Sections \X Texts] :
          LET c == [i \in 1..n |-> [repo |-> r, section |-> page[i][1],
                                    text |-> page[i][2], dim |-> proc[p].dim]]
              d == Dropped(db, p, r)
          IN  /\ NextRow(d) + n <= MaxRow + 1
              /\ HasVec(p) => db.vecDim = proc[p].dim
              /\ db' = [UpsertedAll(d, p, c, n)
                          EXCEPT !.fingerprint = [model |-> proc[p].dim, dim |-> proc[p].dim],
                                 !.status = TRUE, !.adopted = FALSE]
    /\ torn' = IF WritesAll(p) THEN torn \ {r} ELSE torn \cup {r}
    /\ UNCHANGED proc

\* dropRepo() for a page without sections: three statements, each committed, and
\* behind them the status row, without a fingerprint.
BeginDrop(p, r) ==
    /\ proc[p].phase = "open"
    /\ proc' = [proc EXCEPT ![p].phase = "drop_fts", ![p].repo = r]
    /\ UNCHANGED <<db, torn>>

\* The rows of a repository without chunks are all gone already.
Torn(r) == IF RowsOf(db, r) = {} THEN torn ELSE torn \cup {r}

DropFts(p) ==
    /\ proc[p].phase = "drop_fts"
    /\ db' = IF WritesFts(p) THEN [db EXCEPT !.fts = Without(@, RowsOf(db, proc[p].repo))] ELSE db
    /\ proc' = [proc EXCEPT ![p].phase = "drop_vec"]
    /\ torn' = Torn(proc[p].repo)

DropVec(p) ==
    /\ proc[p].phase = "drop_vec"
    /\ db' = IF HasVec(p) THEN [db EXCEPT !.vec = Without(@, RowsOf(db, proc[p].repo))] ELSE db
    /\ proc' = [proc EXCEPT ![p].phase = "drop_chunks"]
    /\ torn' = Torn(proc[p].repo)

DropChunks(p) ==
    /\ proc[p].phase = "drop_chunks"
    /\ db' = [db EXCEPT !.chunks = Without(@, RowsOf(db, proc[p].repo))]
    /\ proc' = [proc EXCEPT ![p].phase = "drop_status"]
    /\ torn' = torn \ {proc[p].repo}

WriteStatus(p) ==
    /\ proc[p].phase = "drop_status"
    /\ db' = [db EXCEPT !.status = TRUE]
    /\ proc' = [proc EXCEPT ![p].phase = "open", ![p].repo = None]
    /\ UNCHANGED torn

-----------------------------------------------------------------------------
Drop(p) == (\E r \in Repos : BeginDrop(p, r)) \/ DropFts(p) \/ DropVec(p) \/ DropChunks(p) \/ WriteStatus(p)
Next == \E p \in Procs : Boot(p) \/ Open(p) \/ Exit(p) \/ Drop(p) \/ \E r \in Repos : Build(p, r)

Spec == Init /\ [][Next]_vars

-----------------------------------------------------------------------------
(* Queries                                                                 *)

\* queryChunksPagedNative(): FROM chunks JOIN vec_chunks ON rowid.
NativeRows(r) == {i \in RowsOf(db, r) : i \in DOMAIN db.vec}

\* queryChunksBM25(): FROM chunks JOIN fts_chunks ON rowid.
Bm25Rows(r) == {i \in RowsOf(db, r) : i \in DOMAIN db.fts}

\* The page of r in the table of chunks, and what the queries rank of it: a chunk by
\* the embedding, or the words, that it is joined with.
Stored(d, r) ==
    {[section |-> d.chunks[i].section, text |-> d.chunks[i].text, dim |-> d.chunks[i].dim] : i \in RowsOf(d, r)}
Near(d, r) ==
    {[section |-> d.chunks[i].section, text |-> d.vec[i].text, dim |-> d.vec[i].dim] :
        i \in {j \in RowsOf(d, r) : j \in DOMAIN d.vec}}
Words(d, r) ==
    {[section |-> d.chunks[i].section, text |-> d.fts[i], dim |-> d.chunks[i].dim] :
        i \in {j \in RowsOf(d, r) : j \in DOMAIN d.fts}}

-----------------------------------------------------------------------------
(* Properties                                                              *)

Atomic == INSTANCE AtomicTables WITH
            stored <- [r \in Repos |-> Stored(db, r)],
            near <- [r \in Repos |-> Near(db, r)],
            words <- [r \in Repos |-> Words(db, r)]

\* Readers find whole pages: whichever rowids a build is given, and wherever drops, swaps
\* and migrations of several processes are interrupted, either query finds the page of a
\* repository as one build stored it or nothing of it, and no step changes what is found
\* of another repository.  What the full-text query finds of the pages of an old release
\* is decided once, by the backfill.  Every process writes both virtual tables.
PagesAreAtomic == Atomic!Spec

\* Behind the migrations every chunk is found, by either query, whichever processes with
\* the virtual tables or without them wrote it: unless the repository's own DELETEs
\* were interrupted, the backfill skipped a chunk of it, or the process that built it
\* did not write a virtual table that cache.db has.
NothingHidden ==
    \A p \in Procs, r \in Repos \ torn :
        /\ proc[p].phase = "open" /\ HasVec(p) => NativeRows(r) = RowsOf(db, r)
        /\ proc[p].phase = "open" /\ HasBm25(p) => Bm25Rows(r) = RowsOf(db, r)

\* The auto-reindex contract: once chunks of some model have been stamped, and until
\* another swap, vec_chunks accepts what a process embeds.  A fingerprint that was
\* adopted is no such stamp: see README, Deviations.
SwapRebuildsTable ==
    \A p \in Procs :
        proc[p].phase = "open" /\ HasVec(p) /\ db.fingerprint # None /\ ~db.adopted =>
            db.vecDim = proc[p].dim

\* The dim-swap detection on its own: a process never finds a vec_chunks of another
\* dimension than its model's, which would reject every build.
VecTableFits == \A p \in Procs : proc[p].phase = "open" /\ HasVec(p) => db.vecDim = proc[p].dim
=============================================================================
