-------------------------------- MODULE Indexer --------------------------------
(***************************************************************************)
(* The index of a repository and the processes that build it:              *)
(* Indexer.indexRepo() (src/src/services/indexer.ts), the table writes of  *)
(* vector_store.ts and graph_store.ts it is made of, and the startup hook  *)
(* applyEmbedderAutoReindex() of src/src/index.ts that drops the index     *)
(* when the embedding model changed.                                       *)
(*                                                                         *)
(* The processes are server instances that share one cache.db.  Inside a   *)
(* process JavaScript runs to the next await, so while `at[p]` names a SQL *)
(* statement nothing else of p runs; other processes and crashes do        *)
(* interleave.  SQLite gives every process its transaction's private view  *)
(* (`txn`) until COMMIT, one writer at a time, and loses an open           *)
(* transaction in a crash.                                                 *)
(***************************************************************************)
EXTENDS Integers, FiniteSets

CONSTANTS
    Procs,       \* server processes sharing cache.db
    Repos,       \* owner/repo names
    LastVersion, \* bound: upstream publishes versions 1..LastVersion of a wiki
    Unstamped,   \* the contents whose page shows no commit SHA
    Shells,      \* {0} if upstream may answer with an empty SPA shell, else {}
    ChunksOf,    \* ChunksOf[v]: number of chunks of content v
    EdgesOf,     \* EdgesOf[v]: number of knowledge-graph edges of content v
    Models,      \* the embedding models an operator configures
    KgModes,     \* FALSE \in KgModes: some processes run with CODEWIKI_DISABLE_KG
    Legacy,      \* LEGACY_EMBED_MODEL_DEFAULT
    None         \* SQL NULL, JavaScript null or undefined

\* Content v is what version v shows, 0 the empty shell; the SHA of version v is
\* called v, and 0 is the empty string.
Versions == 1..LastVersion
Contents == 0..LastVersion

ASSUME VersionsAssumption ==
    /\ LastVersion \in Nat \ {0}
    /\ 0 \in Unstamped /\ Unstamped \subseteq Contents
    /\ Shells \subseteq {0}
    /\ ChunksOf \in [Contents -> Nat] /\ ChunksOf[0] = 0
    /\ EdgesOf \in [Contents -> Nat] /\ EdgesOf[0] = 0
    /\ KgModes \subseteq BOOLEAN

\* null is neither a model, nor a version, nor a row.
PageRows == [content : Contents, sha : Contents]
StatusRows == [sha : Versions, chunks : Nat, edges : Int, fresh : BOOLEAN]
ChunkRows == [content : Contents, sha : Versions, model : Models \cup {Legacy}]
EdgeRows == [content : Contents, sha : Versions]
Tables ==
    [status : [Repos -> StatusRows \cup {None}],
     rows   : [Repos -> ChunkRows \cup {None}],
     edges  : [Repos -> EdgeRows \cup {None}]]

ASSUME NoneAssumption ==
    /\ None \notin Models \cup {Legacy} /\ None \notin Repos /\ None \notin PageRows
    /\ None \notin StatusRows /\ None \notin ChunkRows /\ None \notin EdgeRows
    /\ None \notin Tables

VARIABLES
    upstream,    \* upstream[r]: the version CodeWiki serves
    page,        \* page[r]: the row of the pages table (slug __root__), or None
    db,          \* wiki_index_status, chunks and kg_edges, as committed
    fingerprint, \* meta.embed_model
    strays,      \* repositories whose chunks were committed while there was no fingerprint
                 \* and which no stamp of their process followed (a history variable)
    model,       \* model[p]: the configured model, None while p is down
    kg,          \* kg[p]: CODEWIKI_DISABLE_KG is not set
    txn,         \* txn[p]: the tables as p's open transaction sees them, or None
    at,          \* at[p]: the SQL statement p runs next, "free" in its event loop
    job,         \* job[p]: the repository whose statements p runs
    listed,      \* listed[p]: listIndexedRepos() of dropAllChunks()
    call         \* call[p][r]: the single-flight build of r in p

store == <<db, fingerprint, strays, txn>>
process == <<model, kg, at, job, listed>>
vars == <<upstream, page, store, process, call>>

\* `seen` is the status row runIndex() read before its first await.
NoCall == [step |-> "idle", seen |-> None, content |-> None, sha |-> None]
Calls == [step : {"idle", "fetching", "reading", "embedding", "writing"},
          seen : StatusRows \cup {None},
          content : Contents \cup {None}, sha : Contents \cup {None}]

Statements == {"free", "refresh", "begin", "dropRows", "putRows", "dropEdges",
               "putEdges", "putStatus", "commit", "stamp",
               "clearRows", "clearEdges", "clearStatus",
               "list", "dropAll", "restamp"}

TypeOK ==
    /\ upstream \in [Repos -> Versions]
    /\ page \in [Repos -> PageRows \cup {None}]
    /\ db \in Tables
    /\ fingerprint \in Models \cup {Legacy, None}
    /\ strays \in SUBSET Repos
    /\ model \in [Procs -> Models \cup {None}]
    /\ kg \in [Procs -> BOOLEAN]
    /\ txn \in [Procs -> Tables \cup {None}]
    /\ at \in [Procs -> Statements]
    /\ job \in [Procs -> Repos \cup {None}]
    /\ listed \in [Procs -> SUBSET Repos]
    /\ call \in [Procs -> [Repos -> Calls]]

\* cache.db as release 2.4 left it, before there was a fingerprint or a graph: the
\* repositories of S are indexed at version 1.  Without S, a new cache.db.
LegacyTables(S) ==
    LET status == [sha |-> 1, chunks |-> ChunksOf[1], edges |-> -1, fresh |-> TRUE]
        row == IF ChunksOf[1] = 0 THEN None ELSE [content |-> 1, sha |-> 1, model |-> Legacy]
    IN  [status |-> [r \in Repos |-> IF r \in S THEN status ELSE None],
         rows   |-> [r \in Repos |-> IF r \in S THEN row ELSE None],
         edges  |-> [r \in Repos |-> None]]

Init ==
    /\ upstream = [r \in Repos |-> 1]
    /\ page = [r \in Repos |-> None]
    /\ \E S \in SUBSET Repos : db = LegacyTables(S)
    /\ fingerprint = None
    /\ strays = {}
    /\ model = [p \in Procs |-> None]
    /\ kg = [p \in Procs |-> TRUE]
    /\ txn = [p \in Procs |-> None]
    /\ at = [p \in Procs |-> "free"]
    /\ job = [p \in Procs |-> None]
    /\ listed = [p \in Procs |-> {}]
    /\ call = [p \in Procs |-> [r \in Repos |-> NoCall]]

Up(p) == model[p] # None
Free(p) == Up(p) /\ at[p] = "free"

-----------------------------------------------------------------------------
(* The environment: upstream commits, the passing of INDEX_TTL_MS          *)

Commits(r) ==
    /\ upstream[r] < LastVersion
    /\ upstream' = [upstream EXCEPT ![r] = @ + 1]
    /\ UNCHANGED <<page, store, process, call>>

\* Time passes between the writes of the processes, never inside a transaction.
Expires(r) ==
    /\ db.status[r] # None
    /\ db.status[r].fresh
    /\ \A p \in Procs : txn[p] = None
    /\ db' = [db EXCEPT !.status[r].fresh = FALSE]
    /\ UNCHANGED <<upstream, page, fingerprint, strays, txn, process, call>>

-----------------------------------------------------------------------------
(* SQL                                                                     *)

\* The tables as p sees them, and a statement of p that makes them d: inside a
\* transaction, or committed by itself.  A second writer waits (busy timeout).
View(p) == IF txn[p] # None THEN txn[p] ELSE db
CanWrite(p) == \A q \in Procs \ {p} : txn[q] = None
Write(p, d) ==
    /\ CanWrite(p)
    /\ IF txn[p] # None
       THEN txn' = [txn EXCEPT ![p] = d] /\ UNCHANGED db
       ELSE db' = d /\ UNCHANGED txn

Goto(p, s) == at' = [at EXCEPT ![p] = s]

\* The statements of a build are done: its promise settles, inflight.delete(repo).
Finish(p) ==
    /\ Goto(p, "free")
    /\ job' = [job EXCEPT ![p] = None]
    /\ call' = [call EXCEPT ![p][job[p]] = NoCall]

-----------------------------------------------------------------------------
(* Startup and crash                                                       *)

HasAnyIndex == \E r \in Repos : db.rows[r] # None \/ db.status[r] # None

\* applyEmbedderAutoReindex(): the model the index is taken to be of.
EffectiveOld ==
    IF fingerprint = None /\ HasAnyIndex THEN Legacy ELSE fingerprint

\* Mutant: a mismatch stamps the new model and keeps the old chunks.
StampOnMismatch(m) ==
    IF EffectiveOld \notin {None, m} THEN "restamp" ELSE "free"

BootStatement(m) ==
    CASE EffectiveOld = None -> "free"
      [] EffectiveOld = m    -> IF fingerprint = None THEN "restamp" ELSE "free"
      [] OTHER               -> "list"

\* Opening the cache marks every graph unbuilt when the extractor's version moved.
GraphsUnbuilt(d) ==
    [d EXCEPT !.status = [r \in Repos |->
        IF d.status[r] = None THEN None ELSE [d.status[r] EXCEPT !.edges = -1]]]

Start(p) ==
    /\ ~Up(p)
    /\ CanWrite(p)
    /\ \E m \in Models, g \in KgModes :
          /\ model' = [model EXCEPT ![p] = m]
          /\ kg' = [kg EXCEPT ![p] = g]
          /\ Goto(p, BootStatement(m))
    /\ db' \in {db, GraphsUnbuilt(db)}
    /\ UNCHANGED <<upstream, page, fingerprint, strays, txn, job, listed, call>>

\* Killed, or exited: what is in memory is lost and an open transaction undone.
Crash(p) ==
    /\ Up(p)
    /\ model' = [model EXCEPT ![p] = None]
    /\ txn' = [txn EXCEPT ![p] = None]
    /\ Goto(p, "free")
    /\ job' = [job EXCEPT ![p] = None]
    /\ listed' = [listed EXCEPT ![p] = {}]
    /\ call' = [call EXCEPT ![p] = [r \in Repos |-> NoCall]]
    /\ UNCHANGED <<upstream, page, db, fingerprint, strays, kg>>

\* dropAllChunks(): the repositories are listed before BEGIN.
ListRepos(p) ==
    /\ at[p] = "list"
    /\ listed' = [listed EXCEPT ![p] = {r \in Repos : db.status[r] # None}]
    /\ Goto(p, "dropAll")
    /\ UNCHANGED <<upstream, page, store, model, kg, job, call>>

\* Mutant: the status rows go and the chunks stay.
WithoutStatus(d, S) ==
    [d EXCEPT !.status = [r \in Repos |-> IF r \in S THEN None ELSE d.status[r]]]

\* Its transaction: chunks and status rows of those repositories, not the edges.
Without(d, S) ==
    [d EXCEPT !.status = [r \in Repos |-> IF r \in S THEN None ELSE d.status[r]],
              !.rows   = [r \in Repos |-> IF r \in S THEN None ELSE d.rows[r]]]

DropAll(p) ==
    /\ at[p] = "dropAll"
    /\ Write(p, Without(View(p), listed[p]))
    /\ listed' = [listed EXCEPT ![p] = {}]
    /\ Goto(p, "restamp")
    /\ UNCHANGED <<upstream, page, fingerprint, strays, model, kg, job, call>>

Restamp(p) ==
    /\ at[p] = "restamp"
    /\ CanWrite(p)
    /\ fingerprint' = model[p]
    /\ Goto(p, "free")
    /\ UNCHANGED <<upstream, page, db, strays, txn, model, kg, job, listed, call>>

-----------------------------------------------------------------------------
(* indexRepo(): from the freshness check to the decision what to write     *)

\* Served without work: fresh, and its graph built if a graph is asked for.
UpToDate(status, g) ==
    /\ status # None
    /\ status.fresh
    /\ g => status.edges >= 0

\* A caller that finds the index up to date, or a build in flight, changes nothing.
IndexRepo(p, r) ==
    /\ Free(p)
    /\ call[p][r].step = "idle"
    /\ ~UpToDate(db.status[r], kg[p])
    /\ call' = [call EXCEPT ![p][r] = [NoCall EXCEPT !.step = "fetching",
                                                     !.seen = db.status[r]]]
    /\ UNCHANGED <<upstream, page, store, process>>

\* CodeWikiClient.getPage() on a missing or expired row, when upstream answers v:
\* the same SHA keeps the body, another one replaces it, and content that shows
\* no SHA is stored under the SHA the row had.
Fetched(row, v) ==
    CASE row = None -> [content |-> v, sha |-> IF v \in Unstamped THEN 0 ELSE v]
      [] row # None /\ v \notin Unstamped /\ v = row.sha -> row
      [] OTHER -> [content |-> v, sha |-> IF v \in Unstamped THEN row.sha ELSE v]

\* no_docs (an expired row is then deleted), rate_limited and retry pass through.
FetchFails(p, r) ==
    /\ Free(p)
    /\ call[p][r].step = "fetching"
    /\ CanWrite(p)
    /\ call' = [call EXCEPT ![p][r] = NoCall]
    /\ page' \in {page, [page EXCEPT ![r] = None]}
    /\ UNCHANGED <<upstream, store, process>>

Reading(p, r, row) ==
    /\ Free(p)
    /\ call[p][r].step = "fetching"
    /\ call' = [call EXCEPT ![p][r].step = "reading", ![p][r].content = row.content,
                            ![p][r].sha = row.sha]

\* A pages row within its TTL answers.
FetchCached(p, r) ==
    /\ page[r] # None
    /\ Reading(p, r, page[r])
    /\ UNCHANGED <<upstream, page, store, process>>

FetchAnswered(p, r, v) ==
    /\ CanWrite(p)
    /\ page' = [page EXCEPT ![r] = Fetched(page[r], v)]
    /\ Reading(p, r, page'[r])
    /\ UNCHANGED <<upstream, store, process>>

FetchUpstream(p, r) == FetchAnswered(p, r, upstream[r])
FetchShell(p, r) == \E v \in Shells : FetchAnswered(p, r, v)

\* The get_page tool of p fetches the same row.  (A build that reads the row back
\* does so in the microtasks of its own fetch, before this can happen in p.)
GetPage(p, r) ==
    /\ Free(p)
    /\ \A q \in Repos : call[p][q].step # "reading"
    /\ CanWrite(p)
    /\ \E v \in {upstream[r]} \cup Shells :
          page' = [page EXCEPT ![r] = Fetched(page[r], v)]
    /\ UNCHANGED <<upstream, store, process, call>>

\* The guard of runIndex() wants 40 hex digits.
UsableSha(sha) == sha # 0

\* Mutant: the same SHA is always refreshed, a missing graph or not.
SameShaOnly(p, seen, sha) == seen # None /\ seen.sha = sha

\* Mutant: an expired index is always embedded anew.
RefreshNever(p, seen, sha) == FALSE

RefreshSuffices(p, seen, sha) ==
    /\ seen # None
    /\ seen.sha = sha
    /\ ~(kg[p] /\ seen.edges < 0)

\* The SHA is read back from the pages row (or is the citation's if the row is
\* gone), then one of: an empty SHA is a retry; the same SHA is a refresh; an
\* empty tree is cleared; else embed.
ReadSha(p, r) ==
    /\ Free(p)
    /\ call[p][r].step = "reading"
    /\ LET c == call[p][r]
           sha == IF page[r] = None THEN c.sha ELSE page[r].sha
           writing == [c EXCEPT !.step = "writing", !.sha = sha]
       IN  \/ /\ ~UsableSha(sha)
              /\ call' = [call EXCEPT ![p][r] = NoCall]
              /\ UNCHANGED <<at, job>>
           \/ /\ UsableSha(sha)
              /\ RefreshSuffices(p, c.seen, sha)
              /\ call' = [call EXCEPT ![p][r] = writing]
              /\ Goto(p, "refresh")
              /\ job' = [job EXCEPT ![p] = r]
           \/ /\ UsableSha(sha)
              /\ ~RefreshSuffices(p, c.seen, sha)
              /\ ChunksOf[c.content] = 0
              /\ kg[p] => EdgesOf[c.content] = 0
              /\ call' = [call EXCEPT ![p][r] = writing]
              /\ Goto(p, "clearRows")
              /\ job' = [job EXCEPT ![p] = r]
           \/ /\ UsableSha(sha)
              /\ ~RefreshSuffices(p, c.seen, sha)
              /\ ChunksOf[c.content] > 0 \/ (kg[p] /\ EdgesOf[c.content] > 0)
              /\ call' = [call EXCEPT ![p][r] = [writing EXCEPT !.step = "embedding"]]
              /\ UNCHANGED <<at, job>>
    /\ UNCHANGED <<upstream, page, store, model, kg, listed>>

EmbedFails(p, r) ==
    /\ Free(p)
    /\ call[p][r].step = "embedding"
    /\ call' = [call EXCEPT ![p][r] = NoCall]
    /\ UNCHANGED <<upstream, page, store, process>>

Embedded(p, r) ==
    /\ Free(p)
    /\ call[p][r].step = "embedding"
    /\ call' = [call EXCEPT ![p][r].step = "writing"]
    /\ Goto(p, "begin")
    /\ job' = [job EXCEPT ![p] = r]
    /\ UNCHANGED <<upstream, page, store, model, kg, listed>>

-----------------------------------------------------------------------------
(* The statements of a build                                               *)

Build(p) == call[p][job[p]]

SetStatus(d, r, sha, chunks, edges) ==
    [d EXCEPT !.status[r] = [sha |-> sha, chunks |-> chunks, edges |-> edges, fresh |-> TRUE]]

\* INSERT OR REPLACE of the whole row, with the counts read before the await.
Refresh(p) ==
    /\ at[p] = "refresh"
    /\ LET c == Build(p)
       IN  Write(p, SetStatus(View(p), job[p], c.sha, c.seen.chunks, c.seen.edges))
    /\ Finish(p)
    /\ UNCHANGED <<upstream, page, fingerprint, strays, model, kg, listed>>

\* Mutant: BEGIN is forgotten, so that every statement commits by itself.
BeginForgotten(p) ==
    /\ at[p] = "begin"
    /\ Goto(p, "dropRows")
    /\ UNCHANGED <<upstream, page, store, model, kg, job, listed, call>>

Begin(p) ==
    /\ at[p] = "begin"
    /\ CanWrite(p)
    /\ txn' = [txn EXCEPT ![p] = db]
    /\ Goto(p, "dropRows")
    /\ UNCHANGED <<upstream, page, db, fingerprint, strays, model, kg, job, listed, call>>

\* A statement of p that makes the tables d; the next one is `next`.
Statement(p, d, next) ==
    /\ Write(p, d)
    /\ Goto(p, next)
    /\ UNCHANGED <<upstream, page, fingerprint, strays, model, kg, job, listed, call>>

DropRows(p) ==
    /\ at[p] = "dropRows"
    /\ Statement(p, [View(p) EXCEPT !.rows[job[p]] = None], "putRows")

PutRows(p) ==
    /\ at[p] = "putRows"
    /\ LET c == Build(p)
           row == [content |-> c.content, sha |-> c.sha, model |-> model[p]]
       IN  Statement(p,
               IF ChunksOf[c.content] = 0 THEN View(p)
               ELSE [View(p) EXCEPT !.rows[job[p]] = row],
               IF kg[p] THEN "dropEdges" ELSE "putStatus")

DropEdges(p) ==
    /\ at[p] = "dropEdges"
    /\ Statement(p, [View(p) EXCEPT !.edges[job[p]] = None], "putEdges")

PutEdges(p) ==
    /\ at[p] = "putEdges"
    /\ LET c == Build(p)
           row == [content |-> c.content, sha |-> c.sha]
       IN  Statement(p,
               IF EdgesOf[c.content] = 0 THEN View(p)
               ELSE [View(p) EXCEPT !.edges[job[p]] = row],
               "putStatus")

\* With the graph disabled the edge count seen before the build is kept.
EdgeCount(p, c) ==
    IF kg[p] THEN EdgesOf[c.content] ELSE IF c.seen = None THEN -1 ELSE c.seen.edges

PutStatus(p) ==
    /\ at[p] = "putStatus"
    /\ LET c == Build(p)
       IN  Statement(p,
               SetStatus(View(p), job[p], c.sha, ChunksOf[c.content], EdgeCount(p, c)),
               "commit")

\* COMMIT; the fingerprint is stamped in a statement after it.
Commit(p) ==
    /\ at[p] = "commit"
    /\ IF txn[p] # None
       THEN db' = txn[p] /\ txn' = [txn EXCEPT ![p] = None]
       ELSE UNCHANGED <<db, txn>>
    /\ strays' = IF fingerprint = None THEN strays \cup {job[p]} ELSE strays \ {job[p]}
    /\ IF ChunksOf[Build(p).content] > 0
       THEN Goto(p, "stamp") /\ UNCHANGED <<job, call>>
       ELSE Finish(p)
    /\ UNCHANGED <<upstream, page, fingerprint, model, kg, listed>>

Stamp(p) ==
    /\ at[p] = "stamp"
    /\ CanWrite(p)
    /\ fingerprint' = model[p]
    /\ strays' = IF fingerprint = None THEN {} ELSE strays
    /\ Finish(p)
    /\ UNCHANGED <<upstream, page, db, txn, model, kg, listed>>

\* The empty tree: three statements without a transaction.
ClearRows(p) ==
    /\ at[p] = "clearRows"
    /\ Statement(p, [View(p) EXCEPT !.rows[job[p]] = None],
                 IF kg[p] THEN "clearEdges" ELSE "clearStatus")

ClearEdges(p) ==
    /\ at[p] = "clearEdges"
    /\ Statement(p, [View(p) EXCEPT !.edges[job[p]] = None], "clearStatus")

ClearStatus(p) ==
    /\ at[p] = "clearStatus"
    /\ Write(p, SetStatus(View(p), job[p], Build(p).sha, 0, IF kg[p] THEN 0 ELSE -1))
    /\ Finish(p)
    /\ UNCHANGED <<upstream, page, fingerprint, strays, model, kg, listed>>

\* A statement throws (disk full, SQLITE_BUSY): ROLLBACK if a transaction is
\* open, and indexRepo() rejects.
Throws(p) ==
    /\ job[p] # None
    /\ txn' = [txn EXCEPT ![p] = None]
    /\ Finish(p)
    /\ UNCHANGED <<upstream, page, db, fingerprint, strays, model, kg, listed>>

-----------------------------------------------------------------------------
Boot(p) == ListRepos(p) \/ DropAll(p) \/ Restamp(p)

SqlStep(p) ==
    \/ Refresh(p)
    \/ Begin(p) \/ DropRows(p) \/ PutRows(p) \/ DropEdges(p) \/ PutEdges(p)
    \/ PutStatus(p) \/ Commit(p) \/ Stamp(p)
    \/ ClearRows(p) \/ ClearEdges(p) \/ ClearStatus(p)

BuildStep(p, r) ==
    \/ FetchFails(p, r) \/ FetchCached(p, r) \/ FetchUpstream(p, r) \/ FetchShell(p, r)
    \/ ReadSha(p, r) \/ EmbedFails(p, r) \/ Embedded(p, r)

Next ==
    \/ \E r \in Repos : Commits(r) \/ Expires(r)
    \/ \E p \in Procs :
          \/ Start(p) \/ Crash(p) \/ Throws(p) \/ Boot(p) \/ SqlStep(p)
          \/ \E r \in Repos : GetPage(p, r) \/ IndexRepo(p, r) \/ BuildStep(p, r)

Spec == Init /\ [][Next]_vars

\* Clients keep asking, rows expire, processes are restarted, and no fetch,
\* embedding or SQL statement fails or is interrupted every time it is tried (an encoder
\* whose load was rejected would fail every build until a restart: see Search).
\* Strong fairness: a crash, a throw or a cached page takes the turn away.
Fairness ==
    /\ \A r \in Repos : SF_vars(Expires(r))
    /\ \A p \in Procs :
          /\ SF_vars(Start(p))
          /\ SF_vars(ListRepos(p) \/ Restamp(p)) /\ SF_vars(DropAll(p))
          /\ SF_vars(Refresh(p) \/ Begin(p))
          /\ SF_vars(DropRows(p)) /\ SF_vars(PutRows(p))
          /\ SF_vars(DropEdges(p)) /\ SF_vars(PutEdges(p))
          /\ SF_vars(PutStatus(p)) /\ SF_vars(Commit(p) \/ Stamp(p))
          /\ \A r \in Repos :
                /\ SF_vars(IndexRepo(p, r)) /\ SF_vars(FetchUpstream(p, r))
                /\ SF_vars(ReadSha(p, r)) /\ SF_vars(Embedded(p, r))

FairSpec == Spec /\ Fairness

-----------------------------------------------------------------------------
(* Properties                                                              *)

\* A repository with chunks has a status row, whatever crashes between the
\* statements of whichever processes.  dropAllChunks() relies on it: it lists the
\* repositories by status row, and chunks without one would survive a model swap.
RowsHaveStatus == \A r \in Repos : db.rows[r] # None => db.status[r] # None

\* Readers of the other connections never see chunks without the status of their
\* own build: chunks appear in one commit with the count and SHA that describe
\* them (the BEGIN ... COMMIT of runIndex()).
RowsArriveWithStatus ==
    [][\A r \in Repos :
          (db'.rows[r] # None /\ db'.rows[r] # db.rows[r]) =>
              /\ db'.status[r] # None
              /\ db'.status[r].sha = db'.rows[r].sha
              /\ db'.status[r].chunks = ChunksOf[db'.rows[r].content]]_vars

\* Freshness contract in the header: "Expired with same commit_sha: refresh
\* indexed_at only, no re-embed".  Chunks of the SHA upstream still has are
\* embedded anew only when the graph beside them has to be built.
NoReembed ==
    [][\A p \in Procs, r \in Repos :
          (at[p] = "begin" /\ at'[p] = "dropRows" /\ job[p] = r) =>
              \/ db.status[r] = None
              \/ db.status[r].sha # call[p][r].sha
              \/ db.status[r].edges < 0]_vars

\* main() in index.ts: the swap "Runs BEFORE buildServer so the first MCP request
\* always sees a clean post-swap state": a process that serves requests embeds
\* queries with the model the chunks were embedded with.  One case is left: a process
\* was killed between its first COMMIT and the stamp behind it, and the operator went
\* back to the model of the releases before the fingerprint.
CleanAfterSwap ==
    \A p \in Procs, r \in Repos :
        (Free(p) /\ db.rows[r] # None) =>
            \/ db.rows[r].model = model[p]
            \/ r \in strays /\ model[p] = Legacy

\* The index catches up with upstream, chunks and graph, again and again, however
\* often processes crash at whatever statement.
Current(r) ==
    /\ db.status[r] # None
    /\ db.status[r].sha = upstream[r]
    /\ db.rows[r] # None /\ db.rows[r].content = upstream[r]
    /\ db.edges[r] # None /\ db.edges[r].content = upstream[r]
    /\ db.status[r].edges >= 0

EventuallyCurrent == \A r \in Repos : []<>Current(r)
=============================================================================
