---------------------------- MODULE Indexer_proofs ----------------------------
(***************************************************************************)
(* Theorems about Indexer, for every set of processes and repositories and *)
(* every number of versions, whatever the processes crash in.              *)
(***************************************************************************)
EXTENDS MCIndexer, TLAPS

TxnStatements == {"dropRows", "putRows", "dropEdges", "putEdges", "putStatus", "commit"}
BuildStatements == TxnStatements \cup
    {"refresh", "begin", "stamp", "clearRows", "clearEdges", "clearStatus"}

\* A build that has read a page has content and a SHA, a usable one once it writes.
CallData(c) ==
    /\ c.step \in {"reading", "embedding", "writing"} => c.content \in Contents /\ c.sha \in Contents
    /\ c.step \in {"embedding", "writing"} => c.sha \in Versions

\* A process that is down does nothing; one that runs the statements of a build has
\* a call that writes; and a refresh has the status row it was decided by.
Control(p) ==
    /\ ~Up(p) => at[p] = "free"
    /\ at[p] \in BuildStatements => job[p] \in Repos /\ call[p][job[p]].step = "writing"
    /\ at[p] = "refresh" => call[p][job[p]].seen # None
    /\ \A r \in Repos : CallData(call[p][r])

\* What an open transaction of p sees before its statement s: the committed chunks
\* and status of every other repository, and those of the build so far.
ViewOK(p, d, s) ==
    LET r == job[p]
        c == call[p][r]
    IN  /\ \A q \in Repos \ {r} : d.rows[q] = db.rows[q] /\ d.status[q] = db.status[q]
        /\ s = "putRows" => d.rows[r] = None
        /\ s \in {"dropEdges", "putEdges", "putStatus"} /\ d.rows[r] # None =>
              d.rows[r].content = c.content /\ d.rows[r].sha = c.sha
        /\ s = "commit" =>
              /\ d.status[r] # None
              /\ d.rows[r] # None => /\ d.status[r].sha = d.rows[r].sha
                                     /\ d.status[r].chunks = ChunksOf[d.rows[r].content]

TxnView(p) == ViewOK(p, txn[p], at[p])

\* A process has a transaction exactly while it is at one of its statements.
ProcOK(p) ==
    /\ Control(p)
    /\ txn[p] # None <=> at[p] \in TxnStatements
    /\ txn[p] # None => TxnView(p)

\* One writer at a time.
OneWriter == \A p, q \in Procs : txn[p] # None /\ txn[q] # None => p = q

\* The inductive invariant of RowsHaveStatus.
IInv ==
    /\ TypeOK
    /\ \A p \in Procs : ProcOK(p)
    /\ OneWriter
    /\ RowsHaveStatus

-----------------------------------------------------------------------------
\* A step of p that leaves the processes beside it alone keeps what holds of them,
\* if it writes to the committed tables only while none of them has a transaction.
LEMMA OthersKept ==
    ASSUME IInv, NEW p \in Procs,
           \A q \in Procs \ {p} : /\ model'[q] = model[q] /\ at'[q] = at[q] /\ job'[q] = job[q]
                                  /\ call'[q] = call[q] /\ txn'[q] = txn[q],
           db' = db \/ CanWrite(p)
    PROVE  \A q \in Procs \ {p} : ProcOK(q)'
<1> SUFFICES ASSUME NEW q \in Procs \ {p} PROVE ProcOK(q)'
    OBVIOUS
<1>1. ProcOK(q)
    BY DEF IInv
<1>2. Control(q)'
    BY <1>1 DEF ProcOK, Control, Up
<1>3. txn'[q] # None <=> at'[q] \in TxnStatements
    BY <1>1 DEF ProcOK
<1>4. ASSUME txn'[q] # None PROVE TxnView(q)'
    <2>1. db' = db /\ txn[q] # None
        BY <1>4 DEF CanWrite
    <2>2. TxnView(q)
        BY <1>1, <2>1 DEF ProcOK
    <2> QED
        BY <2>1, <2>2 DEF TxnView, ViewOK
<1> QED
    BY <1>2, <1>3, <1>4 DEF ProcOK

LEMMA OthersKeep1 ==
    ASSUME NEW p \in Procs, OneWriter,
           \A q \in Procs \ {p} : txn'[q] = txn[q],
           txn'[p] # None => txn[p] # None \/ CanWrite(p)
    PROVE  OneWriter'
    BY DEF OneWriter, CanWrite

\* The tables keep their type.
LEMMA ViewType ==
    ASSUME TypeOK, NEW p \in Procs
    PROVE  View(p) \in Tables
    BY DEF TypeOK, View

LEMMA SetStatusType ==
    ASSUME NEW d \in Tables, NEW r \in Repos, NEW sha \in Versions, NEW n \in Nat, NEW e \in Int
    PROVE  /\ SetStatus(d, r, sha, n, e) \in Tables
           /\ SetStatus(d, r, sha, n, e).rows = d.rows
           /\ SetStatus(d, r, sha, n, e).edges = d.edges
           /\ SetStatus(d, r, sha, n, e).status[r] = [sha |-> sha, chunks |-> n, edges |-> e, fresh |-> TRUE]
           /\ SetStatus(d, r, sha, n, e).status[r] # None
           /\ \A q \in Repos \ {r} : SetStatus(d, r, sha, n, e).status[q] = d.status[q]
<1> DEFINE row == [sha |-> sha, chunks |-> n, edges |-> e, fresh |-> TRUE]
<1>1. row \in StatusRows
    BY DEF StatusRows
<1> HIDE DEF row
<1>2. SetStatus(d, r, sha, n, e) = [d EXCEPT !.status = [d.status EXCEPT ![r] = row]]
    BY DEF SetStatus, row
<1>3. [d.status EXCEPT ![r] = row] \in [Repos -> StatusRows \cup {None}]
    BY <1>1 DEF Tables
<1>4. /\ [d EXCEPT !.status = [d.status EXCEPT ![r] = row]] \in Tables
      /\ [d EXCEPT !.status = [d.status EXCEPT ![r] = row]].rows = d.rows
      /\ [d EXCEPT !.status = [d.status EXCEPT ![r] = row]].edges = d.edges
      /\ [d EXCEPT !.status = [d.status EXCEPT ![r] = row]].status = [d.status EXCEPT ![r] = row]
    BY <1>3 DEF Tables
<1>5. d.status \in [Repos -> StatusRows \cup {None}]
    BY DEF Tables
<1>6. /\ SetStatus(d, r, sha, n, e) \in Tables
      /\ SetStatus(d, r, sha, n, e).rows = d.rows
      /\ SetStatus(d, r, sha, n, e).edges = d.edges
      /\ SetStatus(d, r, sha, n, e).status = [d.status EXCEPT ![r] = row]
    BY <1>2, <1>4
<1>7. /\ SetStatus(d, r, sha, n, e).status[r] = row /\ row # None
      /\ \A q \in Repos \ {r} : SetStatus(d, r, sha, n, e).status[q] = d.status[q]
    BY <1>1, <1>5, <1>6, NoneAssumption
<1> QED
    BY <1>6, <1>7 DEF row

LEMMA SetRowsType ==
    ASSUME NEW d \in Tables, NEW r \in Repos, NEW row \in ChunkRows \cup {None}
    PROVE  /\ [d EXCEPT !.rows[r] = row] \in Tables
           /\ [d EXCEPT !.rows[r] = row].status = d.status
           /\ [d EXCEPT !.rows[r] = row].edges = d.edges
           /\ [d EXCEPT !.rows[r] = row].rows[r] = row
           /\ \A q \in Repos \ {r} : [d EXCEPT !.rows[r] = row].rows[q] = d.rows[q]
<1>1. [d EXCEPT !.rows[r] = row] = [d EXCEPT !.rows = [d.rows EXCEPT ![r] = row]]
    OBVIOUS
<1>2. /\ d.rows \in [Repos -> ChunkRows \cup {None}]
      /\ [d.rows EXCEPT ![r] = row] \in [Repos -> ChunkRows \cup {None}]
    BY DEF Tables
<1>3. /\ [d EXCEPT !.rows = [d.rows EXCEPT ![r] = row]] \in Tables
      /\ [d EXCEPT !.rows = [d.rows EXCEPT ![r] = row]].rows = [d.rows EXCEPT ![r] = row]
      /\ [d EXCEPT !.rows = [d.rows EXCEPT ![r] = row]].status = d.status
      /\ [d EXCEPT !.rows = [d.rows EXCEPT ![r] = row]].edges = d.edges
    BY <1>2 DEF Tables
<1> QED
    BY <1>1, <1>2, <1>3

LEMMA SetEdgesType ==
    ASSUME NEW d \in Tables, NEW r \in Repos, NEW row \in EdgeRows \cup {None}
    PROVE  /\ [d EXCEPT !.edges[r] = row] \in Tables
           /\ [d EXCEPT !.edges[r] = row].status = d.status
           /\ [d EXCEPT !.edges[r] = row].rows = d.rows
           /\ [d EXCEPT !.edges[r] = row].edges[r] = row
           /\ \A q \in Repos \ {r} : [d EXCEPT !.edges[r] = row].edges[q] = d.edges[q]
<1>1. [d EXCEPT !.edges[r] = row] = [d EXCEPT !.edges = [d.edges EXCEPT ![r] = row]]
    OBVIOUS
<1>2. /\ d.edges \in [Repos -> EdgeRows \cup {None}]
      /\ [d.edges EXCEPT ![r] = row] \in [Repos -> EdgeRows \cup {None}]
    BY DEF Tables
<1>3. /\ [d EXCEPT !.edges = [d.edges EXCEPT ![r] = row]] \in Tables
      /\ [d EXCEPT !.edges = [d.edges EXCEPT ![r] = row]].edges = [d.edges EXCEPT ![r] = row]
      /\ [d EXCEPT !.edges = [d.edges EXCEPT ![r] = row]].rows = d.rows
      /\ [d EXCEPT !.edges = [d.edges EXCEPT ![r] = row]].status = d.status
    BY <1>2 DEF Tables
<1> QED
    BY <1>1, <1>2, <1>3

LEMMA StepKeeps ==
    ASSUME IInv, NEW p \in Procs,
           \A q \in Procs \ {p} : /\ model'[q] = model[q] /\ at'[q] = at[q] /\ job'[q] = job[q]
                                  /\ call'[q] = call[q] /\ txn'[q] = txn[q],
           db' = db \/ CanWrite(p), txn'[p] # None => txn[p] # None \/ CanWrite(p),
           TypeOK', ProcOK(p)', RowsHaveStatus'
    PROVE  IInv'
<1>1. \A q \in Procs \ {p} : ProcOK(q)'
    BY OthersKept
<1>2. OneWriter'
    BY OthersKeep1 DEF IInv
<1> QED
    BY <1>1, <1>2 DEF IInv

LEMMA InitIInv == Init => IInv
<1> SUFFICES ASSUME Init PROVE IInv
    OBVIOUS
<1>1. PICK S \in SUBSET Repos : db = LegacyTables(S)
    BY DEF Init
<1> DEFINE status == [sha |-> 1, chunks |-> ChunksOf[1], edges |-> -1, fresh |-> TRUE]
           row == IF ChunksOf[1] = 0 THEN None ELSE [content |-> 1, sha |-> 1, model |-> Legacy]
<1>2. 1 \in Versions /\ 1 \in Contents /\ 1 \in Nat /\ 0 \in Contents
    BY VersionsAssumption DEF Versions, Contents
<1>3. status \in StatusRows /\ row \in ChunkRows \cup {None}
    BY <1>2, VersionsAssumption DEF StatusRows, ChunkRows
<1> HIDE DEF status, row
<1>4. db = [status |-> [r \in Repos |-> IF r \in S THEN status ELSE None],
            rows   |-> [r \in Repos |-> IF r \in S THEN row ELSE None],
            edges  |-> [r \in Repos |-> None]]
    BY <1>1 DEF LegacyTables, status, row
<1>5. db \in Tables
    BY <1>3, <1>4 DEF Tables
<1>6. NoCall \in Calls /\ CallData(NoCall)
    BY DEF NoCall, Calls, CallData
<1>7. TypeOK
    BY <1>2, <1>5, <1>6 DEF Init, TypeOK, Statements
<1>8. RowsHaveStatus
    BY <1>3, <1>4, NoneAssumption DEF RowsHaveStatus
<1>9. \A p \in Procs : ProcOK(p)
    BY <1>6 DEF Init, ProcOK, Control, Up, BuildStatements, TxnStatements
<1>10. OneWriter
    BY DEF Init, OneWriter
<1> QED
    BY <1>7, <1>8, <1>9, <1>10 DEF IInv

-----------------------------------------------------------------------------
(* The steps of a build before its statements                              *)

\* A step that ends in the event loop, or at the first statement of a build.
LEMMA CallStep ==
    ASSUME IInv, NEW p \in Procs, NEW r \in Repos, NEW c \in Calls, CallData(c),
           Free(p), call' = [call EXCEPT ![p][r] = c],
           page' \in [Repos -> PageRows \cup {None}],
           \/ UNCHANGED <<at, job>>
           \/ /\ c.step = "writing"
              /\ job' = [job EXCEPT ![p] = r]
              /\ \E s \in {"refresh", "begin", "clearRows"} :
                    Goto(p, s) /\ (s = "refresh" => c.seen # None),
           UNCHANGED <<upstream, store, model, kg, listed>>
    PROVE  IInv'
<1> USE DEF store
<1>1. /\ call' = [call EXCEPT ![p] = [call[p] EXCEPT ![r] = c]]
      /\ call[p] \in [Repos -> Calls] /\ call \in [Procs -> [Repos -> Calls]]
    BY DEF IInv, TypeOK
<1>2. /\ call'[p] = [call[p] EXCEPT ![r] = c]
      /\ \A q \in Procs \ {p} : call'[q] = call[q]
      /\ call' \in [Procs -> [Repos -> Calls]]
    BY <1>1
<1>3. call'[p][r] = c /\ \A q \in Repos \ {r} : call'[p][q] = call[p][q]
    BY <1>1, <1>2
<1>4. at[p] = "free" /\ Up(p) /\ txn[p] = None
    BY DEF Free, IInv, ProcOK, BuildStatements, TxnStatements
<1>5. at' \in [Procs -> Statements] /\ job' \in [Procs -> Repos \cup {None}]
      /\ \A q \in Procs \ {p} : at'[q] = at[q] /\ job'[q] = job[q]
    BY DEF Goto, IInv, TypeOK, Statements
<1>6. TypeOK'
    BY <1>2, <1>5 DEF IInv, TypeOK
<1>7. \A q \in Repos : CallData(call'[p][q])
    BY <1>3 DEF IInv, ProcOK, Control
<1>8. Control(p)'
    <2>1. CASE UNCHANGED <<at, job>>
        BY <1>4, <1>7, <2>1 DEF Control, Up, BuildStatements, TxnStatements
    <2>2. CASE \E s \in {"refresh", "begin", "clearRows"} : Goto(p, s) /\ (s = "refresh" => c.seen # None)
               /\ c.step = "writing" /\ job' = [job EXCEPT ![p] = r]
        <3>1. job'[p] = r /\ at'[p] \in {"refresh", "begin", "clearRows"}
              /\ (at'[p] = "refresh" => c.seen # None) /\ c.step = "writing"
            BY <2>2 DEF Goto, IInv, TypeOK
        <3> QED
            BY <1>3, <1>4, <1>7, <3>1 DEF Control, Up
    <2> QED
        BY <2>1, <2>2
<1>9. at'[p] \notin TxnStatements
    BY <1>4 DEF Goto, TxnStatements, IInv, TypeOK
<1>10. ProcOK(p)'
    BY <1>4, <1>8, <1>9 DEF ProcOK
<1> QED
    BY <1>2, <1>4, <1>5, <1>6, <1>10, StepKeeps DEF IInv, RowsHaveStatus

LEMMA NoCallOK == NoCall \in Calls /\ CallData(NoCall)
    BY DEF NoCall, Calls, CallData

\* What a fetch stores is a row.
LEMMA FetchedType ==
    ASSUME NEW row \in PageRows \cup {None}, NEW v \in Contents
    PROVE  Fetched(row, v) \in PageRows
    BY VersionsAssumption DEF Fetched, PageRows, Contents

LEMMA EventLoopSteps ==
    ASSUME IInv, NEW p \in Procs, NEW r \in Repos,
           GetPage(p, r) \/ IndexRepo(p, r) \/ BuildStep(p, r)
    PROVE  IInv'
<1>0. /\ call[p][r] \in Calls /\ CallData(call[p][r]) /\ page \in [Repos -> PageRows \cup {None}]
      /\ upstream[r] \in Contents /\ Shells \subseteq Contents
    BY VersionsAssumption DEF IInv, TypeOK, ProcOK, Control, Versions, Contents
<1>1. CASE GetPage(p, r)
    <2>1. page' \in [Repos -> PageRows \cup {None}]
        BY <1>0, <1>1, FetchedType DEF GetPage
    <2>2. TypeOK'
        BY <1>1, <2>1 DEF GetPage, IInv, TypeOK, store, process
    <2>3. ProcOK(p)'
        BY <1>1 DEF GetPage, store, process, IInv, ProcOK, Control, Up, TxnView, ViewOK
    <2> QED
        BY <1>1, <2>2, <2>3, StepKeeps DEF GetPage, store, process, IInv, RowsHaveStatus
<1>2. CASE IndexRepo(p, r)
    <2> DEFINE c == [NoCall EXCEPT !.step = "fetching", !.seen = db.status[r]]
    <2>1. db.status[r] \in StatusRows \cup {None}
        BY DEF IInv, TypeOK, Tables
    <2>2. c \in Calls /\ CallData(c)
        BY <2>1 DEF NoCall, Calls, CallData
    <2> HIDE DEF c
    <2>3. call' = [call EXCEPT ![p][r] = c] /\ UNCHANGED <<upstream, page, store, process>> /\ Free(p)
        BY <1>2 DEF IndexRepo, c
    <2> QED
        BY <1>0, <2>2, <2>3, CallStep DEF process
<1>3. CASE FetchFails(p, r)
    BY <1>0, <1>3, NoCallOK, CallStep DEF FetchFails, process
<1>4. ASSUME NEW row \in PageRows, Reading(p, r, row), page' \in [Repos -> PageRows \cup {None}],
             UNCHANGED <<upstream, store, process>>
      PROVE  IInv'
    <2> DEFINE c == [call[p][r] EXCEPT !.step = "reading", !.content = row.content, !.sha = row.sha]
    <2>1. row.content \in Contents /\ row.sha \in Contents
        BY DEF PageRows
    <2>2. c \in Calls /\ CallData(c)
        BY <1>0, <2>1 DEF Calls, CallData
    <2>3. call' = [call EXCEPT ![p][r] = c] /\ Free(p)
        BY <1>4 DEF Reading, IInv, TypeOK
    <2> HIDE DEF c
    <2> QED
        BY <1>4, <2>2, <2>3, CallStep DEF process
<1>5. CASE FetchCached(p, r)
    <2>1. page[r] \in PageRows
        BY <1>0, <1>5 DEF FetchCached
    <2> QED
        BY <1>0, <1>4, <1>5, <2>1 DEF FetchCached
<1>6. ASSUME NEW v \in Contents, FetchAnswered(p, r, v) PROVE IInv'
    <2>1. page' = [page EXCEPT ![r] = Fetched(page[r], v)] /\ Reading(p, r, page'[r])
          /\ UNCHANGED <<upstream, store, process>>
        BY <1>6 DEF FetchAnswered
    <2>2. Fetched(page[r], v) \in PageRows
        BY <1>0, FetchedType
    <2>3. page' \in [Repos -> PageRows \cup {None}] /\ page'[r] \in PageRows
        BY <1>0, <2>1, <2>2
    <2> QED
        BY <1>4, <2>1, <2>3
<1>7. CASE FetchUpstream(p, r) \/ FetchShell(p, r)
    BY <1>0, <1>6, <1>7 DEF FetchUpstream, FetchShell
<1>8. CASE EmbedFails(p, r)
    BY <1>0, <1>8, NoCallOK, CallStep DEF EmbedFails, process
<1>9. CASE Embedded(p, r)
    <2> DEFINE c == [call[p][r] EXCEPT !.step = "writing"]
    <2>1. c \in Calls /\ CallData(c) /\ c.step = "writing"
        BY <1>0, <1>9 DEF Calls, CallData, Embedded
    <2>2. call' = [call EXCEPT ![p][r] = c] /\ Free(p)
        BY <1>9 DEF Embedded, IInv, TypeOK
    <2> HIDE DEF c
    <2>3. /\ Goto(p, "begin") /\ job' = [job EXCEPT ![p] = r]
          /\ UNCHANGED <<upstream, page, store, model, kg, listed>>
        BY <1>9 DEF Embedded
    <2>4. \E s \in {"refresh", "begin", "clearRows"} : Goto(p, s) /\ (s = "refresh" => c.seen # None)
        BY <2>3
    <2> QED
        BY <1>0, <2>1, <2>2, <2>3, <2>4, CallStep
<1>10. CASE ReadSha(p, r)
    <2> DEFINE sha == IF page[r] = None THEN call[p][r].sha ELSE page[r].sha
               w == [call[p][r] EXCEPT !.step = "writing", !.sha = sha]
               e == [call[p][r] EXCEPT !.step = "embedding", !.sha = sha]
    <2>0. Free(p) /\ call[p][r].step = "reading" /\ UNCHANGED <<upstream, page, store, model, kg, listed>>
        BY <1>10 DEF ReadSha
    <2>1. sha \in Contents
        BY <1>0, <2>0 DEF CallData, PageRows
    <2>2. ASSUME UsableSha(sha)
          PROVE  /\ w \in Calls /\ CallData(w) /\ w.step = "writing" /\ w.seen = call[p][r].seen
                 /\ e \in Calls /\ CallData(e)
        <3>1. sha \in Versions
            BY <2>1, <2>2 DEF UsableSha, Contents, Versions
        <3> QED
            BY <1>0, <2>0, <2>1, <3>1 DEF Calls, CallData
    <2>3. \/ call' = [call EXCEPT ![p][r] = NoCall] /\ UNCHANGED <<at, job>>
          \/ /\ UsableSha(sha) /\ call' = [call EXCEPT ![p][r] = w] /\ job' = [job EXCEPT ![p] = r]
             /\ \E s \in {"refresh", "begin", "clearRows"} :
                   Goto(p, s) /\ (s = "refresh" => call[p][r].seen # None)
          \/ UsableSha(sha) /\ call' = [call EXCEPT ![p][r] = e] /\ UNCHANGED <<at, job>>
        <3>1. [w EXCEPT !.step = "embedding"] = e
            BY <1>0 DEF Calls
        <3> QED
            BY <1>10, <3>1 DEF ReadSha, RefreshSuffices
    <2> HIDE DEF sha, w, e
    <2> QED
        BY <1>0, <2>0, <2>2, <2>3, NoCallOK, CallStep
<1> QED
    BY <1>1, <1>2, <1>3, <1>5, <1>7, <1>8, <1>9, <1>10 DEF BuildStep

-----------------------------------------------------------------------------
(* The environment, startup and crash                                      *)

\* A step that leaves the processes and the tables to what they were.
LEMMA IdleStep ==
    ASSUME IInv, TypeOK', UNCHANGED <<db, txn, process, call>>
    PROVE  IInv'
<1>1. \A p \in Procs : ProcOK(p)'
    BY DEF IInv, process, ProcOK, Control, Up, TxnView, ViewOK
<1> QED
    BY <1>1 DEF IInv, OneWriter, RowsHaveStatus

LEMMA CommitsStep == ASSUME IInv, NEW r \in Repos, Commits(r) PROVE IInv'
<1>1. TypeOK'
    BY VersionsAssumption DEF Commits, IInv, TypeOK, store, process, Versions
<1> QED
    BY <1>1, IdleStep DEF Commits, store

\* Nobody has a transaction: the tables change and the processes do not.
LEMMA ExpiresStep == ASSUME IInv, NEW r \in Repos, Expires(r) PROVE IInv'
<1> DEFINE row == [db.status[r] EXCEPT !.fresh = FALSE]
<1>1. db \in Tables /\ db.status[r] \in StatusRows
    BY DEF Expires, IInv, TypeOK, Tables
<1>2. row \in StatusRows
    BY <1>1 DEF StatusRows
<1>3. db' = [db EXCEPT !.status = [db.status EXCEPT ![r] = row]]
    BY DEF Expires
<1> HIDE DEF row
<1>4. [db.status EXCEPT ![r] = row] \in [Repos -> StatusRows \cup {None}]
    BY <1>1, <1>2 DEF Tables
<1>5. /\ db' \in Tables /\ db'.rows = db.rows
      /\ db'.status = [db.status EXCEPT ![r] = row]
    BY <1>1, <1>3, <1>4 DEF Tables
<1>6. TypeOK'
    BY <1>5 DEF Expires, IInv, TypeOK, process
<1>7. RowsHaveStatus'
    <2>1. row # None
        BY <1>2, NoneAssumption
    <2>2. db.status \in [Repos -> StatusRows \cup {None}]
        BY <1>1 DEF Tables
    <2> QED
        BY <1>5, <2>1, <2>2 DEF IInv, RowsHaveStatus
<1>8. \A p \in Procs : ProcOK(p)'
    BY DEF Expires, IInv, ProcOK, Control, Up, process
<1> QED
    BY <1>6, <1>7, <1>8 DEF IInv, OneWriter, Expires

\* Opening the cache keeps which repositories have chunks and a status.
LEMMA GraphsUnbuiltType ==
    ASSUME NEW d \in Tables
    PROVE  /\ GraphsUnbuilt(d) \in Tables
           /\ GraphsUnbuilt(d).rows = d.rows
           /\ \A r \in Repos : d.status[r] # None => GraphsUnbuilt(d).status[r] # None
<1> DEFINE g(r) == IF d.status[r] = None THEN None ELSE [d.status[r] EXCEPT !.edges = -1]
<1>1. \A r \in Repos : d.status[r] \in StatusRows \cup {None}
    BY DEF Tables
<1>2. \A r \in Repos : d.status[r] # None => [d.status[r] EXCEPT !.edges = -1] \in StatusRows
    BY <1>1 DEF StatusRows
<1>3. \A r \in Repos : g(r) \in StatusRows \cup {None} /\ (d.status[r] # None => g(r) # None)
    BY <1>2, NoneAssumption
<1>4. GraphsUnbuilt(d) = [d EXCEPT !.status = [r \in Repos |-> g(r)]]
    BY DEF GraphsUnbuilt
<1> HIDE DEF g
<1>5. [r \in Repos |-> g(r)] \in [Repos -> StatusRows \cup {None}]
    BY <1>3
<1>6. /\ GraphsUnbuilt(d) \in Tables /\ GraphsUnbuilt(d).rows = d.rows
      /\ GraphsUnbuilt(d).status = [r \in Repos |-> g(r)]
    BY <1>4, <1>5 DEF Tables
<1> QED
    BY <1>3, <1>6

LEMMA StartStep == ASSUME IInv, NEW p \in Procs, Start(p) PROVE IInv'
<1>1. PICK m \in Models, g \in KgModes :
          /\ model' = [model EXCEPT ![p] = m] /\ kg' = [kg EXCEPT ![p] = g]
          /\ at' = [at EXCEPT ![p] = BootStatement(m)]
    BY DEF Start, Goto
<1>2. /\ at[p] = "free" /\ txn[p] = None /\ CanWrite(p)
      /\ UNCHANGED <<upstream, page, fingerprint, strays, txn, job, listed, call>>
    BY DEF Start, IInv, ProcOK, Control, TxnStatements
<1>3. BootStatement(m) \in {"free", "restamp", "list"}
    BY DEF BootStatement
<1>4. /\ db' \in Tables /\ db'.rows = db.rows
      /\ \A r \in Repos : db.status[r] # None => db'.status[r] # None
    BY GraphsUnbuiltType DEF Start, IInv, TypeOK
<1>5. TypeOK'
    BY <1>1, <1>2, <1>3, <1>4, VersionsAssumption DEF IInv, TypeOK, Statements
<1>6. model'[p] = m /\ at'[p] = BootStatement(m)
    BY <1>1 DEF IInv, TypeOK
<1>7. ProcOK(p)'
    BY <1>2, <1>3, <1>6, NoneAssumption
    DEF IInv, ProcOK, Control, Up, BuildStatements, TxnStatements
<1>8. RowsHaveStatus'
    BY <1>4 DEF IInv, RowsHaveStatus
<1>9. \A q \in Procs \ {p} : model'[q] = model[q] /\ at'[q] = at[q]
    BY <1>1 DEF IInv, TypeOK
<1> QED
    BY <1>2, <1>5, <1>7, <1>8, <1>9, StepKeeps

LEMMA CrashStep == ASSUME IInv, NEW p \in Procs, Crash(p) PROVE IInv'
<1>1. call' = [call EXCEPT ![p] = [r \in Repos |-> NoCall]] /\ at' = [at EXCEPT ![p] = "free"]
      /\ txn' = [txn EXCEPT ![p] = None] /\ UNCHANGED <<upstream, page, db, fingerprint, strays, kg>>
    BY DEF Crash, Goto
<1>2. TypeOK'
    BY <1>1, NoCallOK DEF Crash, IInv, TypeOK, Statements
<1>3. at'[p] = "free" /\ txn'[p] = None /\ call'[p] = [r \in Repos |-> NoCall]
    BY <1>1 DEF IInv, TypeOK
<1>4. ProcOK(p)'
    BY <1>3, NoCallOK DEF ProcOK, Control, BuildStatements, TxnStatements
<1> QED
    BY <1>1, <1>2, <1>3, <1>4, StepKeeps DEF Crash, IInv, TypeOK, RowsHaveStatus

-----------------------------------------------------------------------------
(* The statements                                                          *)

\* A process that runs the statements of a build is up, and its call has data.
LEMMA AtStatement ==
    ASSUME IInv, NEW p \in Procs, at[p] \in BuildStatements
    PROVE  /\ job[p] \in Repos /\ Build(p) \in Calls /\ model[p] \in Models
           /\ Build(p).content \in Contents /\ Build(p).sha \in Versions
           /\ Build(p).sha \in Contents
           /\ Build(p).seen \in StatusRows \cup {None}
           /\ View(p) \in Tables
<1>1. job[p] \in Repos /\ Build(p).step = "writing" /\ CallData(Build(p)) /\ at[p] # "free"
    BY DEF IInv, ProcOK, Control, Build, BuildStatements, TxnStatements
<1>2. Build(p) \in Calls /\ model[p] \in Models \cup {None}
    BY <1>1 DEF IInv, TypeOK, Build
<1>3. model[p] # None
    BY <1>1 DEF IInv, ProcOK, Control, Up
<1> QED
    BY <1>1, <1>2, <1>3, ViewType DEF CallData, Calls, IInv

\* The promise of a build settles.
LEMMA FinishOK ==
    ASSUME IInv, NEW p \in Procs, job[p] \in Repos, Finish(p), UNCHANGED model, txn'[p] = None
    PROVE  /\ ProcOK(p)'
           /\ at' \in [Procs -> Statements] /\ job' \in [Procs -> Repos \cup {None}]
           /\ call' \in [Procs -> [Repos -> Calls]]
           /\ \A q \in Procs \ {p} : at'[q] = at[q] /\ job'[q] = job[q] /\ call'[q] = call[q]
<1>1. /\ at' = [at EXCEPT ![p] = "free"] /\ job' = [job EXCEPT ![p] = None]
      /\ call' = [call EXCEPT ![p] = [call[p] EXCEPT ![job[p]] = NoCall]]
    BY DEF Finish, Goto, IInv, TypeOK
<1>2. call[p] \in [Repos -> Calls] /\ [call[p] EXCEPT ![job[p]] = NoCall] \in [Repos -> Calls]
    BY NoCallOK DEF IInv, TypeOK
<1>3. /\ at' \in [Procs -> Statements] /\ job' \in [Procs -> Repos \cup {None}]
      /\ call' \in [Procs -> [Repos -> Calls]]
      /\ at'[p] = "free" /\ call'[p] = [call[p] EXCEPT ![job[p]] = NoCall]
      /\ \A q \in Procs \ {p} : at'[q] = at[q] /\ job'[q] = job[q] /\ call'[q] = call[q]
    BY <1>1, <1>2 DEF IInv, TypeOK, Statements
<1>4. \A r \in Repos : CallData(call'[p][r])
    BY <1>2, <1>3, NoCallOK DEF IInv, ProcOK, Control
<1>5. ProcOK(p)'
    BY <1>3, <1>4 DEF ProcOK, Control, BuildStatements, TxnStatements
<1> QED
    BY <1>3, <1>5

\* A statement inside the transaction: the committed tables stay.
LEMMA InTxn ==
    ASSUME IInv, NEW p \in Procs, at[p] \in TxnStatements, NEW d \in Tables,
           NEW s \in TxnStatements, Statement(p, d, s), ViewOK(p, d, s)
    PROVE  IInv'
<1>1. txn[p] # None /\ at[p] \in BuildStatements
    BY DEF IInv, ProcOK, BuildStatements
<1>2. /\ txn' = [txn EXCEPT ![p] = d] /\ at' = [at EXCEPT ![p] = s]
      /\ UNCHANGED <<db, upstream, page, fingerprint, strays, model, kg, job, listed, call>>
    BY <1>1 DEF Statement, Write, Goto
<1>3. TypeOK'
    BY <1>2 DEF IInv, TypeOK, Statements, TxnStatements
<1>4. txn'[p] = d /\ at'[p] = s /\ d # None
    BY <1>2, NoneAssumption DEF IInv, TypeOK
<1>5. Control(p)'
    BY <1>1, <1>2, <1>4 DEF IInv, ProcOK, Control, Up, BuildStatements, TxnStatements
<1>6. TxnView(p)'
    BY <1>2, <1>4 DEF TxnView, ViewOK
<1> QED
    BY <1>1, <1>2, <1>3, <1>4, <1>5, <1>6, StepKeeps DEF ProcOK, IInv, TypeOK, RowsHaveStatus

\* A statement that commits by itself, followed by another one of the build.
LEMMA OutOfTxn ==
    ASSUME IInv, NEW p \in Procs, at[p] \in BuildStatements \ TxnStatements, NEW d \in Tables,
           NEW s \in {"clearEdges", "clearStatus"}, Statement(p, d, s),
           \A r \in Repos : d.rows[r] # None => d.status[r] # None
    PROVE  IInv'
<1>1. txn[p] = None
    BY DEF IInv, ProcOK
<1>2. /\ db' = d /\ CanWrite(p) /\ at' = [at EXCEPT ![p] = s]
      /\ UNCHANGED <<txn, upstream, page, fingerprint, strays, model, kg, job, listed, call>>
    BY <1>1 DEF Statement, Write, Goto
<1>3. TypeOK' /\ at'[p] = s
    BY <1>2 DEF IInv, TypeOK, Statements
<1>4. ProcOK(p)'
    BY <1>1, <1>2, <1>3 DEF IInv, ProcOK, Control, Up, BuildStatements, TxnStatements
<1> QED
    BY <1>1, <1>2, <1>3, <1>4, StepKeeps DEF IInv, TypeOK, RowsHaveStatus

\* A statement that commits by itself and is the last one of the build.
LEMMA LastStatement ==
    ASSUME IInv, NEW p \in Procs, at[p] \in BuildStatements \ TxnStatements, NEW d \in Tables,
           Write(p, d), Finish(p), UNCHANGED <<upstream, page, fingerprint, strays, model, kg, listed>>,
           \A r \in Repos : d.rows[r] # None => d.status[r] # None
    PROVE  IInv'
<1>1. txn[p] = None /\ job[p] \in Repos
    BY AtStatement DEF IInv, ProcOK
<1>2. db' = d /\ CanWrite(p) /\ UNCHANGED txn
    BY <1>1 DEF Write
<1>3. /\ ProcOK(p)'
      /\ at' \in [Procs -> Statements] /\ job' \in [Procs -> Repos \cup {None}]
      /\ call' \in [Procs -> [Repos -> Calls]]
      /\ \A q \in Procs \ {p} : at'[q] = at[q] /\ job'[q] = job[q] /\ call'[q] = call[q]
    BY <1>1, <1>2, FinishOK
<1>4. TypeOK'
    BY <1>2, <1>3 DEF IInv, TypeOK
<1> QED
    BY <1>1, <1>2, <1>3, <1>4, StepKeeps DEF RowsHaveStatus

LEMMA RefreshStep == ASSUME IInv, NEW p \in Procs, Refresh(p) PROVE IInv'
<1>1. at[p] = "refresh" /\ at[p] \in BuildStatements \ TxnStatements
    BY DEF Refresh, BuildStatements, TxnStatements
<1> DEFINE c == Build(p)
           n == c.seen.chunks
           e == c.seen.edges
           d == SetStatus(View(p), job[p], c.sha, n, e)
<1>2. c.seen \in StatusRows /\ View(p) \in Tables /\ job[p] \in Repos /\ c.sha \in Versions
    BY <1>1, AtStatement DEF IInv, ProcOK, Control, Build
<1>3. n \in Nat /\ e \in Int
    BY <1>2 DEF StatusRows
<1>4. Write(p, d) /\ Finish(p) /\ UNCHANGED <<upstream, page, fingerprint, strays, model, kg, listed>>
    BY DEF Refresh
<1> HIDE DEF c, n, e
<1>5. /\ d \in Tables /\ d.rows = View(p).rows
      /\ d.status[job[p]] # None
      /\ d.status[job[p]] = [sha |-> c.sha, chunks |-> n, edges |-> e, fresh |-> TRUE]
      /\ \A q \in Repos \ {job[p]} : d.status[q] = View(p).status[q]
    BY <1>2, <1>3, SetStatusType
<1> HIDE DEF d
<1>6. View(p) = db
    BY <1>1 DEF IInv, ProcOK, View
<1>7. \A r \in Repos : d.rows[r] # None => d.status[r] # None
    BY <1>5, <1>6 DEF IInv, RowsHaveStatus
<1> QED
    BY <1>1, <1>4, <1>5, <1>7, LastStatement

LEMMA BeginStep == ASSUME IInv, NEW p \in Procs, Begin(p) PROVE IInv'
<1>1. /\ CanWrite(p) /\ at[p] \in BuildStatements /\ db \in Tables /\ db # None
      /\ txn' = [txn EXCEPT ![p] = db] /\ at' = [at EXCEPT ![p] = "dropRows"]
      /\ UNCHANGED <<upstream, page, db, fingerprint, strays, model, kg, job, listed, call>>
    BY NoneAssumption DEF Begin, Goto, BuildStatements, IInv, TypeOK
<1>2. TypeOK' /\ txn'[p] = db /\ at'[p] = "dropRows"
    BY <1>1 DEF IInv, TypeOK, Statements
<1>3. ProcOK(p)'
    BY <1>1, <1>2 DEF IInv, ProcOK, Control, Up, BuildStatements, TxnStatements, TxnView, ViewOK
<1> QED
    BY <1>1, <1>2, <1>3, StepKeeps DEF IInv, TypeOK, RowsHaveStatus

\* A process at a statement of a transaction: what it sees and what that is like.
LEMMA AtTxn ==
    ASSUME IInv, NEW p \in Procs, at[p] \in TxnStatements
    PROVE  /\ at[p] \in BuildStatements /\ txn[p] # None /\ View(p) = txn[p] /\ txn[p] \in Tables
           /\ ViewOK(p, View(p), at[p])
    BY DEF IInv, ProcOK, TypeOK, View, TxnView, BuildStatements

LEMMA DropRowsStep == ASSUME IInv, NEW p \in Procs, DropRows(p) PROVE IInv'
<1>1. at[p] \in TxnStatements
    BY DEF DropRows, TxnStatements
<1> DEFINE d == [View(p) EXCEPT !.rows[job[p]] = None]
<1>2. /\ d \in Tables /\ d.status = View(p).status /\ d.rows[job[p]] = None
      /\ \A q \in Repos \ {job[p]} : d.rows[q] = View(p).rows[q]
    BY <1>1, AtTxn, AtStatement, SetRowsType
<1>3. Statement(p, d, "putRows")
    BY DEF DropRows
<1> HIDE DEF d
<1>4. ViewOK(p, d, "putRows")
    BY <1>1, <1>2, AtTxn DEF ViewOK
<1> QED
    BY <1>1, <1>2, <1>3, <1>4, InTxn DEF TxnStatements

LEMMA PutRowsStep == ASSUME IInv, NEW p \in Procs, PutRows(p) PROVE IInv'
<1>1. at[p] = "putRows" /\ at[p] \in TxnStatements
    BY DEF PutRows, TxnStatements
<1> DEFINE c == Build(p)
           row == [content |-> c.content, sha |-> c.sha, model |-> model[p]]
           d == IF ChunksOf[c.content] = 0 THEN View(p) ELSE [View(p) EXCEPT !.rows[job[p]] = row]
           s == IF kg[p] THEN "dropEdges" ELSE "putStatus"
<1>2. /\ job[p] \in Repos /\ View(p) \in Tables /\ ViewOK(p, View(p), "putRows")
      /\ row \in ChunkRows /\ row.content = c.content /\ row.sha = c.sha
    BY <1>1, AtTxn, AtStatement DEF ChunkRows
<1>3. Statement(p, d, s) /\ s \in {"dropEdges", "putStatus"} /\ s \in TxnStatements
    BY DEF PutRows, TxnStatements
<1> HIDE DEF row, s
<1>4. /\ d \in Tables /\ d.status = View(p).status
      /\ d.rows[job[p]] # None => d.rows[job[p]].content = c.content /\ d.rows[job[p]].sha = c.sha
      /\ \A q \in Repos \ {job[p]} : d.rows[q] = View(p).rows[q]
    <2>1. CASE ChunksOf[c.content] = 0
        BY <1>2, <2>1 DEF ViewOK
    <2>2. CASE ChunksOf[c.content] # 0
        BY <1>2, <2>2, SetRowsType
    <2> QED
        BY <2>1, <2>2
<1> HIDE DEF d
<1>5. ViewOK(p, d, s)
    BY <1>2, <1>3, <1>4 DEF ViewOK, Build
<1> QED
    BY <1>1, <1>3, <1>4, <1>5, InTxn

LEMMA DropEdgesStep == ASSUME IInv, NEW p \in Procs, DropEdges(p) PROVE IInv'
<1>1. at[p] = "dropEdges" /\ at[p] \in TxnStatements
    BY DEF DropEdges, TxnStatements
<1> DEFINE d == [View(p) EXCEPT !.edges[job[p]] = None]
<1>2. d \in Tables /\ d.status = View(p).status /\ d.rows = View(p).rows
    BY <1>1, AtTxn, AtStatement, SetEdgesType
<1>3. Statement(p, d, "putEdges")
    BY DEF DropEdges
<1> HIDE DEF d
<1>4. ViewOK(p, d, "putEdges")
    BY <1>1, <1>2, AtTxn DEF ViewOK
<1> QED
    BY <1>1, <1>2, <1>3, <1>4, InTxn DEF TxnStatements

LEMMA PutEdgesStep == ASSUME IInv, NEW p \in Procs, PutEdges(p) PROVE IInv'
<1>1. at[p] = "putEdges" /\ at[p] \in TxnStatements
    BY DEF PutEdges, TxnStatements
<1> DEFINE c == Build(p)
           row == [content |-> c.content, sha |-> c.sha]
           d == IF EdgesOf[c.content] = 0 THEN View(p) ELSE [View(p) EXCEPT !.edges[job[p]] = row]
<1>2. job[p] \in Repos /\ View(p) \in Tables /\ row \in EdgeRows
    BY <1>1, AtTxn, AtStatement DEF EdgeRows
<1>3. Statement(p, d, "putStatus")
    BY DEF PutEdges
<1> HIDE DEF row
<1>4. d \in Tables /\ d.status = View(p).status /\ d.rows = View(p).rows
    BY <1>2, SetEdgesType
<1> HIDE DEF d
<1>5. ViewOK(p, d, "putStatus")
    BY <1>1, <1>4, AtTxn DEF ViewOK
<1> QED
    BY <1>1, <1>3, <1>4, <1>5, InTxn DEF TxnStatements

LEMMA PutStatusStep == ASSUME IInv, NEW p \in Procs, PutStatus(p) PROVE IInv'
<1>1. at[p] = "putStatus" /\ at[p] \in TxnStatements
    BY DEF PutStatus, TxnStatements
<1> DEFINE c == Build(p)
           n == ChunksOf[c.content]
           e == EdgeCount(p, c)
           d == SetStatus(View(p), job[p], c.sha, n, e)
<1>2. /\ job[p] \in Repos /\ View(p) \in Tables /\ ViewOK(p, View(p), "putStatus")
      /\ c.sha \in Versions /\ c.content \in Contents /\ c.seen \in StatusRows \cup {None}
    BY <1>1, AtTxn, AtStatement
<1>3. n \in Nat /\ e \in Int
    BY <1>2, VersionsAssumption DEF EdgeCount, StatusRows
<1>4. Statement(p, d, "commit")
    BY DEF PutStatus
<1>5. /\ d \in Tables /\ d.rows = View(p).rows
      /\ d.status[job[p]] # None
      /\ d.status[job[p]] = [sha |-> c.sha, chunks |-> n, edges |-> e, fresh |-> TRUE]
      /\ \A q \in Repos \ {job[p]} : d.status[q] = View(p).status[q]
    BY <1>2, <1>3, SetStatusType
<1> HIDE DEF d
<1>6. d.rows[job[p]] # None =>
          /\ d.status[job[p]].sha = d.rows[job[p]].sha
          /\ d.status[job[p]].chunks = ChunksOf[d.rows[job[p]].content]
    BY <1>2, <1>5 DEF ViewOK, Build
<1>7. ViewOK(p, d, "commit")
    BY <1>2, <1>5, <1>6 DEF ViewOK
<1> QED
    BY <1>1, <1>4, <1>5, <1>7, InTxn DEF TxnStatements

\* COMMIT publishes a view in which every repository with chunks has a status.
LEMMA CommitStep == ASSUME IInv, NEW p \in Procs, Commit(p) PROVE IInv'
<1>1. at[p] = "commit" /\ at[p] \in TxnStatements
    BY DEF Commit, TxnStatements
<1>2. /\ txn[p] \in Tables /\ txn[p] # None /\ ViewOK(p, txn[p], "commit")
      /\ job[p] \in Repos /\ at[p] \in BuildStatements
    BY <1>1, AtTxn, AtStatement
<1>3. db' = txn[p] /\ txn' = [txn EXCEPT ![p] = None] /\ CanWrite(p)
      /\ UNCHANGED <<upstream, page, fingerprint, model, kg, listed>>
      /\ strays' \in SUBSET Repos
    BY <1>2 DEF Commit, IInv, TypeOK, OneWriter, CanWrite
<1>4. txn'[p] = None /\ txn' \in [Procs -> Tables \cup {None}]
      /\ \A q \in Procs \ {p} : txn'[q] = txn[q]
    BY <1>3 DEF IInv, TypeOK
<1>5. RowsHaveStatus'
    BY <1>2, <1>3 DEF RowsHaveStatus, ViewOK, IInv
<1>6. CASE Goto(p, "stamp") /\ UNCHANGED <<job, call>>
    <2>1. at'[p] = "stamp" /\ at' \in [Procs -> Statements] /\ \A q \in Procs \ {p} : at'[q] = at[q]
        BY <1>6 DEF Goto, IInv, TypeOK, Statements
    <2>2. TypeOK'
        BY <1>2, <1>3, <1>4, <1>6, <2>1 DEF IInv, TypeOK
    <2>3. ProcOK(p)'
        BY <1>2, <1>3, <1>4, <1>6, <2>1 DEF IInv, ProcOK, Control, Up, BuildStatements, TxnStatements
    <2> QED
        BY <1>3, <1>4, <1>5, <1>6, <2>1, <2>2, <2>3, StepKeeps
<1>7. CASE Finish(p)
    <2>1. /\ ProcOK(p)'
          /\ at' \in [Procs -> Statements] /\ job' \in [Procs -> Repos \cup {None}]
          /\ call' \in [Procs -> [Repos -> Calls]]
          /\ \A q \in Procs \ {p} : at'[q] = at[q] /\ job'[q] = job[q] /\ call'[q] = call[q]
        BY <1>2, <1>3, <1>4, <1>7, FinishOK
    <2>2. TypeOK'
        BY <1>2, <1>3, <1>4, <2>1 DEF IInv, TypeOK
    <2> QED
        BY <1>3, <1>4, <1>5, <2>1, <2>2, StepKeeps
<1> QED
    BY <1>6, <1>7 DEF Commit

LEMMA StampStep == ASSUME IInv, NEW p \in Procs, Stamp(p) PROVE IInv'
<1>1. at[p] \in BuildStatements \ TxnStatements
    BY DEF Stamp, BuildStatements, TxnStatements
<1>2. txn[p] = None /\ job[p] \in Repos /\ model[p] \in Models
    BY <1>1, AtStatement DEF IInv, ProcOK
<1>3. /\ ProcOK(p)'
      /\ at' \in [Procs -> Statements] /\ job' \in [Procs -> Repos \cup {None}]
      /\ call' \in [Procs -> [Repos -> Calls]]
      /\ \A q \in Procs \ {p} : at'[q] = at[q] /\ job'[q] = job[q] /\ call'[q] = call[q]
    BY <1>2, FinishOK DEF Stamp
<1>4. TypeOK'
    BY <1>2, <1>3 DEF Stamp, IInv, TypeOK
<1> QED
    BY <1>2, <1>3, <1>4, StepKeeps DEF Stamp, IInv, RowsHaveStatus

LEMMA ClearRowsStep == ASSUME IInv, NEW p \in Procs, ClearRows(p) PROVE IInv'
<1>1. at[p] \in BuildStatements \ TxnStatements
    BY DEF ClearRows, BuildStatements, TxnStatements
<1> DEFINE d == [View(p) EXCEPT !.rows[job[p]] = None]
<1>2. View(p) \in Tables /\ job[p] \in Repos
    BY <1>1, AtStatement
<1>3. /\ d \in Tables /\ d.status = View(p).status /\ d.rows[job[p]] = None
      /\ \A q \in Repos \ {job[p]} : d.rows[q] = View(p).rows[q]
    BY <1>2, SetRowsType
<1>4. \E s \in {"clearEdges", "clearStatus"} : Statement(p, d, s)
    BY DEF ClearRows
<1> HIDE DEF d
<1>5. View(p) = db
    BY <1>1 DEF IInv, ProcOK, View
<1>6. \A r \in Repos : d.rows[r] # None => d.status[r] # None
    BY <1>3, <1>5 DEF IInv, RowsHaveStatus
<1> QED
    BY <1>1, <1>3, <1>4, <1>6, OutOfTxn

LEMMA ClearEdgesStep == ASSUME IInv, NEW p \in Procs, ClearEdges(p) PROVE IInv'
<1>1. at[p] \in BuildStatements \ TxnStatements
    BY DEF ClearEdges, BuildStatements, TxnStatements
<1> DEFINE d == [View(p) EXCEPT !.edges[job[p]] = None]
<1>2. View(p) = db /\ job[p] \in Repos /\ db \in Tables
    BY <1>1, AtStatement DEF IInv, ProcOK, View
<1>3. d \in Tables /\ d.status = db.status /\ d.rows = db.rows
    BY <1>2, SetEdgesType
<1>4. Statement(p, d, "clearStatus")
    BY DEF ClearEdges
<1> HIDE DEF d
<1> QED
    BY <1>1, <1>3, <1>4, OutOfTxn DEF IInv, RowsHaveStatus

LEMMA ClearStatusStep == ASSUME IInv, NEW p \in Procs, ClearStatus(p) PROVE IInv'
<1>1. at[p] \in BuildStatements \ TxnStatements
    BY DEF ClearStatus, BuildStatements, TxnStatements
<1> DEFINE e == IF kg[p] THEN 0 ELSE -1
           d == SetStatus(View(p), job[p], Build(p).sha, 0, e)
<1>2. View(p) \in Tables /\ job[p] \in Repos /\ Build(p).sha \in Versions
    BY <1>1, AtStatement
<1>3. e \in Int /\ 0 \in Nat
    OBVIOUS
<1>4. Write(p, d) /\ Finish(p) /\ UNCHANGED <<upstream, page, fingerprint, strays, model, kg, listed>>
    BY DEF ClearStatus
<1> HIDE DEF e
<1>5. /\ d \in Tables /\ d.rows = View(p).rows
      /\ d.status[job[p]] # None
      /\ d.status[job[p]] = [sha |-> Build(p).sha, chunks |-> 0, edges |-> e, fresh |-> TRUE]
      /\ \A q \in Repos \ {job[p]} : d.status[q] = View(p).status[q]
    BY <1>2, <1>3, SetStatusType
<1> HIDE DEF d
<1>6. View(p) = db
    BY <1>1 DEF IInv, ProcOK, View
<1>7. \A r \in Repos : d.rows[r] # None => d.status[r] # None
    BY <1>5, <1>6 DEF IInv, RowsHaveStatus
<1> QED
    BY <1>1, <1>4, <1>5, <1>7, LastStatement

LEMMA ThrowsStep == ASSUME IInv, NEW p \in Procs, Throws(p) PROVE IInv'
<1>1. job[p] \in Repos /\ txn'[p] = None /\ txn' \in [Procs -> Tables \cup {None}]
      /\ \A q \in Procs \ {p} : txn'[q] = txn[q]
    BY DEF Throws, IInv, TypeOK
<1>2. /\ ProcOK(p)'
      /\ at' \in [Procs -> Statements] /\ job' \in [Procs -> Repos \cup {None}]
      /\ call' \in [Procs -> [Repos -> Calls]]
      /\ \A q \in Procs \ {p} : at'[q] = at[q] /\ job'[q] = job[q] /\ call'[q] = call[q]
    BY <1>1, FinishOK DEF Throws
<1>3. TypeOK'
    BY <1>1, <1>2 DEF Throws, IInv, TypeOK
<1> QED
    BY <1>1, <1>2, <1>3, StepKeeps DEF Throws, IInv, RowsHaveStatus

-----------------------------------------------------------------------------
(* Startup                                                                 *)

\* A process that serves nobody yet runs no statement of a build.
LEMMA BootKeeps ==
    ASSUME IInv, NEW p \in Procs, at[p] \in {"list", "dropAll", "restamp"},
           NEW s \in {"dropAll", "restamp", "free"}, Goto(p, s),
           UNCHANGED <<model, txn, job, call>>
    PROVE  /\ ProcOK(p)' /\ at' \in [Procs -> Statements]
           /\ \A q \in Procs \ {p} : at'[q] = at[q]
<1>1. at'[p] = s /\ at' \in [Procs -> Statements] /\ \A q \in Procs \ {p} : at'[q] = at[q]
    BY DEF Goto, IInv, TypeOK, Statements
<1> QED
    BY <1>1 DEF IInv, ProcOK, Control, Up, BuildStatements, TxnStatements

\* dropAllChunks(): status and chunks of a repository go together.
LEMMA WithoutType ==
    ASSUME NEW d \in Tables, NEW S \in SUBSET Repos,
           \A r \in Repos : d.rows[r] # None => d.status[r] # None
    PROVE  /\ Without(d, S) \in Tables
           /\ \A r \in Repos : Without(d, S).rows[r] # None => Without(d, S).status[r] # None
<1> DEFINE st == [r \in Repos |-> IF r \in S THEN None ELSE d.status[r]]
           ro == [r \in Repos |-> IF r \in S THEN None ELSE d.rows[r]]
<1>1. st \in [Repos -> StatusRows \cup {None}] /\ ro \in [Repos -> ChunkRows \cup {None}]
    BY DEF Tables
<1>2. \A r \in Repos : ro[r] # None => st[r] # None
    OBVIOUS
<1>3. Without(d, S) = [d EXCEPT !.status = st, !.rows = ro]
    BY DEF Without
<1> HIDE DEF st, ro
<1>4. Without(d, S) \in Tables /\ Without(d, S).status = st /\ Without(d, S).rows = ro
    BY <1>1, <1>3 DEF Tables
<1> QED
    BY <1>2, <1>4

LEMMA BootStep == ASSUME IInv, NEW p \in Procs, Boot(p) PROVE IInv'
<1>1. at[p] \in {"list", "dropAll", "restamp"} /\ txn[p] = None
      /\ UNCHANGED <<upstream, page, txn, model, kg, job, call>>
    BY DEF Boot, ListRepos, DropAll, Restamp, Write, IInv, ProcOK, TxnStatements, store
<1>2. PICK s \in {"dropAll", "restamp", "free"} : Goto(p, s)
    BY DEF Boot, ListRepos, DropAll, Restamp
<1>3. ProcOK(p)' /\ at' \in [Procs -> Statements] /\ \A q \in Procs \ {p} : at'[q] = at[q]
    BY <1>1, <1>2, BootKeeps
<1>4. /\ db' \in Tables /\ RowsHaveStatus' /\ (db' = db \/ CanWrite(p))
      /\ fingerprint' \in Models \cup {Legacy, None} /\ strays' \in SUBSET Repos
      /\ listed' \in [Procs -> SUBSET Repos]
    <2>1. CASE ListRepos(p)
        BY <2>1 DEF ListRepos, store, IInv, TypeOK, RowsHaveStatus
    <2>2. CASE DropAll(p)
        <3>1. View(p) = db /\ db \in Tables /\ listed[p] \in SUBSET Repos
            BY <1>1 DEF View, IInv, TypeOK
        <3>2. db' = Without(db, listed[p]) /\ CanWrite(p)
            BY <1>1, <2>2, <3>1 DEF DropAll, Write
        <3>3. db' \in Tables /\ RowsHaveStatus'
            BY <3>1, <3>2, WithoutType DEF IInv, RowsHaveStatus
        <3> QED
            BY <2>2, <3>2, <3>3 DEF DropAll, IInv, TypeOK
    <2>3. CASE Restamp(p)
        BY <2>3 DEF Restamp, IInv, TypeOK, RowsHaveStatus
    <2> QED
        BY <2>1, <2>2, <2>3 DEF Boot
<1>5. TypeOK'
    BY <1>1, <1>3, <1>4 DEF IInv, TypeOK
<1> QED
    BY <1>1, <1>3, <1>4, <1>5, StepKeeps

-----------------------------------------------------------------------------
(* The theorems                                                            *)

LEMMA SqlStepKeeps == ASSUME IInv, NEW p \in Procs, SqlStep(p) PROVE IInv'
    BY RefreshStep, BeginStep, DropRowsStep, PutRowsStep, DropEdgesStep, PutEdgesStep,
       PutStatusStep, CommitStep, StampStep, ClearRowsStep, ClearEdgesStep, ClearStatusStep
    DEF SqlStep

LEMMA NextIInv == IInv /\ [Next]_vars => IInv'
<1> SUFFICES ASSUME IInv, [Next]_vars PROVE IInv'
    OBVIOUS
<1>1. CASE UNCHANGED vars
    <2>1. TypeOK'
        BY <1>1 DEF vars, store, process, IInv, TypeOK
    <2> QED
        BY <1>1, <2>1, IdleStep DEF vars, store
<1>2. CASE \E r \in Repos : Commits(r) \/ Expires(r)
    BY <1>2, CommitsStep, ExpiresStep
<1>3. ASSUME NEW p \in Procs, Start(p) \/ Crash(p) \/ Throws(p) \/ Boot(p) \/ SqlStep(p)
      PROVE  IInv'
    BY <1>3, StartStep, CrashStep, ThrowsStep, BootStep, SqlStepKeeps
<1>4. ASSUME NEW p \in Procs, NEW r \in Repos, GetPage(p, r) \/ IndexRepo(p, r) \/ BuildStep(p, r)
      PROVE  IInv'
    BY <1>4, EventLoopSteps
<1> QED
    BY <1>1, <1>2, <1>3, <1>4 DEF Next

\* The inductive invariant holds of every process, whatever any of them crashes in.
THEOREM IndexerIInv == Spec => []IInv
<1> QED
    BY InitIInv, NextIInv, PTL DEF Spec

\* Every variable keeps its type.
THEOREM IndexerTypeOK == Spec => []TypeOK
<1>1. IInv => TypeOK
    BY DEF IInv
<1> QED
    BY <1>1, IndexerIInv, PTL

\* Chunks never survive without the status row that dropAllChunks() finds them by.
THEOREM IndexerRowsHaveStatus == Spec => []RowsHaveStatus
<1>1. IInv => RowsHaveStatus
    BY DEF IInv
<1> QED
    BY <1>1, IndexerIInv, PTL

-----------------------------------------------------------------------------
(* Chunks arrive with their status                                         *)

RowsStay == \A r \in Repos : db'.rows[r] = db.rows[r] \/ db'.rows[r] = None

\* Before COMMIT the statements of a transaction are seen by nobody else.
LEMMA TxnIsPrivate ==
    ASSUME IInv, NEW p \in Procs, at[p] \in TxnStatements, NEW d, Write(p, d)
    PROVE  RowsStay
    BY DEF IInv, ProcOK, Write, RowsStay

\* The other writes are of status rows and edges, or remove chunks.
LEMMA OthersWriteNoRows ==
    ASSUME IInv, NEW p \in Procs,
           Start(p) \/ Crash(p) \/ Throws(p) \/ Boot(p) \/ (SqlStep(p) /\ ~Commit(p))
    PROVE  RowsStay
<1>1. db \in Tables /\ View(p) \in Tables
    BY ViewType DEF IInv, TypeOK
<1>2. ASSUME NEW d \in Tables, Write(p, d), at[p] \notin TxnStatements,
             \A r \in Repos : d.rows[r] \in {View(p).rows[r], None}
      PROVE  RowsStay
    BY <1>2 DEF IInv, ProcOK, Write, View, RowsStay
<1>3. CASE UNCHANGED db
    BY <1>3 DEF RowsStay
<1>4. CASE Start(p)
    BY <1>1, <1>4, GraphsUnbuiltType DEF Start, RowsStay
<1>5. CASE DropAll(p)
    <2> DEFINE S == listed[p]
               ro == [r \in Repos |-> IF r \in S THEN None ELSE View(p).rows[r]]
    <2>1. Without(View(p), S).rows = ro
        BY <1>1 DEF Without, Tables
    <2>2. View(p) = db /\ db' = Without(View(p), S)
        BY <1>5 DEF DropAll, Write, IInv, ProcOK, View, TxnStatements
    <2> QED
        BY <2>1, <2>2 DEF RowsStay
<1>6. CASE at[p] \in TxnStatements /\ SqlStep(p) /\ ~Commit(p)
    <2>1. PICK d : Write(p, d)
        BY <1>6 DEF SqlStep, TxnStatements, Statement, Refresh, Begin, DropRows, PutRows,
            DropEdges, PutEdges, PutStatus, Stamp, ClearRows, ClearEdges, ClearStatus
    <2> QED
        BY <1>6, <2>1, TxnIsPrivate
<1>7. CASE Refresh(p)
    <2> DEFINE c == Build(p)
               d == SetStatus(View(p), job[p], c.sha, c.seen.chunks, c.seen.edges)
    <2>1. d.rows = View(p).rows /\ Write(p, d) /\ at[p] \notin TxnStatements
        BY <1>1, <1>7 DEF Refresh, SetStatus, TxnStatements, Tables
    <2> HIDE DEF d
    <2> QED
        BY <2>1 DEF IInv, ProcOK, Write, View, RowsStay
<1>8. CASE ClearRows(p)
    <2> DEFINE d == [View(p) EXCEPT !.rows[job[p]] = None]
    <2>1. at[p] \notin TxnStatements /\ job[p] \in Repos /\ Write(p, d)
        BY <1>8, AtStatement DEF ClearRows, Statement, TxnStatements, BuildStatements
    <2>2. /\ d \in Tables /\ d.rows[job[p]] = None
          /\ \A q \in Repos \ {job[p]} : d.rows[q] = View(p).rows[q]
        BY <1>1, <2>1, SetRowsType
    <2> HIDE DEF d
    <2> QED
        BY <1>2, <2>1, <2>2
<1>9. CASE ClearEdges(p)
    <2> DEFINE d == [View(p) EXCEPT !.edges[job[p]] = None]
    <2>1. d.rows = View(p).rows /\ Write(p, d) /\ at[p] \notin TxnStatements
        BY <1>1, <1>9 DEF ClearEdges, Statement, TxnStatements, Tables
    <2> HIDE DEF d
    <2> QED
        BY <2>1 DEF IInv, ProcOK, Write, View, RowsStay
<1>10. CASE ClearStatus(p)
    <2> DEFINE d == SetStatus(View(p), job[p], Build(p).sha, 0, IF kg[p] THEN 0 ELSE -1)
    <2>1. d.rows = View(p).rows /\ Write(p, d) /\ at[p] \notin TxnStatements
        BY <1>1, <1>10 DEF ClearStatus, SetStatus, TxnStatements, Tables
    <2> HIDE DEF d
    <2> QED
        BY <2>1 DEF IInv, ProcOK, Write, View, RowsStay
<1>11. CASE Crash(p) \/ Throws(p) \/ ListRepos(p) \/ Restamp(p) \/ Begin(p) \/ Stamp(p)
    BY <1>3, <1>11 DEF Crash, Throws, ListRepos, Restamp, Begin, Stamp, store
<1>12. DropRows(p) \/ PutRows(p) \/ DropEdges(p) \/ PutEdges(p) \/ PutStatus(p) => at[p] \in TxnStatements
    BY DEF DropRows, PutRows, DropEdges, PutEdges, PutStatus, TxnStatements
<1> QED
    BY <1>4, <1>5, <1>6, <1>7, <1>8, <1>9, <1>10, <1>11, <1>12 DEF Boot, SqlStep

\* COMMIT brings the chunks of its own build, and their status.
LEMMA CommitBringsBoth ==
    ASSUME IInv, NEW p \in Procs, Commit(p), NEW r \in Repos,
           db'.rows[r] # None, db'.rows[r] # db.rows[r]
    PROVE  /\ db'.status[r] # None
           /\ db'.status[r].sha = db'.rows[r].sha
           /\ db'.status[r].chunks = ChunksOf[db'.rows[r].content]
<1>1. at[p] = "commit" /\ at[p] \in TxnStatements
    BY DEF Commit, TxnStatements
<1>2. txn[p] # None /\ ViewOK(p, txn[p], "commit")
    BY <1>1, AtTxn
<1>3. db' = txn[p]
    BY <1>2 DEF Commit
<1> QED
    BY <1>2, <1>3 DEF ViewOK

\* Readers of the other connections never see chunks without the status row of the
\* build that wrote them: they become visible in one COMMIT of runIndex().
THEOREM IndexerRowsArriveWithStatus == Spec => RowsArriveWithStatus
<1> DEFINE Arrive == \A r \in Repos :
               (db'.rows[r] # None /\ db'.rows[r] # db.rows[r]) =>
                   /\ db'.status[r] # None
                   /\ db'.status[r].sha = db'.rows[r].sha
                   /\ db'.status[r].chunks = ChunksOf[db'.rows[r].content]
<1>1. IInv /\ [Next]_vars => [Arrive]_vars
    <2> SUFFICES ASSUME IInv, Next PROVE Arrive
        OBVIOUS
    <2>1. RowsStay => Arrive
        BY DEF RowsStay
    <2>2. CASE UNCHANGED db
        BY <2>2
    <2>3. CASE \E r \in Repos : Commits(r) \/ Expires(r)
        <3>1. db \in Tables
            BY DEF IInv, TypeOK
        <3>2. db'.rows = db.rows
            BY <2>3, <3>1 DEF Commits, Expires, store, Tables
        <3> QED
            BY <3>2
    <2>4. ASSUME NEW p \in Procs,
                 Start(p) \/ Crash(p) \/ Throws(p) \/ Boot(p) \/ (SqlStep(p) /\ ~Commit(p))
          PROVE  Arrive
        BY <2>1, <2>4, OthersWriteNoRows
    <2>5. ASSUME NEW p \in Procs, Commit(p) PROVE Arrive
        BY <2>5, CommitBringsBoth
    <2>6. ASSUME NEW p \in Procs, NEW r \in Repos, GetPage(p, r) \/ IndexRepo(p, r) \/ BuildStep(p, r)
          PROVE  Arrive
        BY <2>2, <2>6 DEF GetPage, IndexRepo, BuildStep, FetchFails, FetchCached, FetchUpstream,
            FetchShell, FetchAnswered, ReadSha, EmbedFails, Embedded, store
    <2> QED
        BY <2>3, <2>4, <2>5, <2>6 DEF Next
<1>2. Spec => [][Arrive]_vars
    BY <1>1, IndexerIInv, PTL DEF Spec
<1> QED
    BY <1>2 DEF RowsArriveWithStatus

-----------------------------------------------------------------------------
(* One process: what the header of indexer.ts and the startup hook of      *)
(* index.ts promise when no other process uses the cache, about the swap of*)
(* the embedding model and the builds of an unchanged wiki.                *)

\* One process at a time has cache.db open.
OneProcess == \A p, q \in Procs : p = q

BootStatements == {"list", "dropAll", "restamp"}

\* The startup hook of p is over: tools are served, builds run.
Serving(p) == Up(p) /\ at[p] \notin BootStatements

-----------------------------------------------------------------------------
(* The swap of the embedding model                                         *)

OfModel(d, m) == \A r \in Repos : d.rows[r] # None => d.rows[r].model = m

\* Every chunk of d is of model m, or a stray that a process with m takes for its own.
Passes(d, m) ==
    \A r \in Repos : d.rows[r] # None => d.rows[r].model = m \/ (r \in strays /\ m = Legacy)

\* A serving process and all chunks it can see are of one model, the stamped one if
\* there is one; a transaction puts chunks of that model; the hook drops every chunk
\* before it stamps, or adopts what nobody stamped.
SwapOK(p) ==
    /\ job[p] # None => at[p] \in BuildStatements
    /\ Serving(p) =>
          /\ fingerprint \in {None, model[p]}
          /\ Passes(db, model[p])
          /\ fingerprint = None => OfModel(db, model[p])
    /\ txn[p] # None /\ at[p] # "dropRows" /\ txn[p].rows[job[p]] # None =>
          txn[p].rows[job[p]].model = model[p]
    /\ at[p] = "dropAll" =>
          \A r \in Repos : db.rows[r] # None \/ db.status[r] # None => r \in listed[p]
    /\ at[p] = "restamp" =>
          \/ \A r \in Repos : db.rows[r] = None
          \/ fingerprint = None /\ model[p] = Legacy

\* What the hook takes the chunks for; strays that have a fingerprint were adopted.
SwapDb ==
    /\ fingerprint = None => Passes(db, Legacy)
    /\ fingerprint # None => Passes(db, fingerprint)
    /\ \A r \in strays : db.rows[r] # None /\ fingerprint # None => fingerprint = Legacy

\* The inductive invariant of CleanAfterSwap.
SwapInv == SwapDb /\ \A p \in Procs : SwapOK(p)

LEMMA InitSwap == Init => SwapInv
<1> SUFFICES ASSUME Init PROVE SwapInv
    OBVIOUS
<1>1. PICK S \in SUBSET Repos : db = LegacyTables(S)
    BY DEF Init
<1> DEFINE row == IF ChunksOf[1] = 0 THEN None ELSE [content |-> 1, sha |-> 1, model |-> Legacy]
<1>2. row # None => row.model = Legacy
    OBVIOUS
<1> HIDE DEF row
<1>3. \A r \in Repos : db.rows[r] = IF r \in S THEN row ELSE None
    BY <1>1 DEF LegacyTables, row
<1>4. Passes(db, Legacy)
    BY <1>2, <1>3 DEF Passes
<1> QED
    BY <1>4 DEF Init, SwapInv, SwapDb, SwapOK, Serving, Up

\* A step that neither writes nor starts to serve.
Quiet(p) ==
    /\ job'[p] # None => at'[p] \in BuildStatements
    /\ Serving(p)' => Serving(p)
    /\ at'[p] \in {"dropAll", "restamp"} => at'[p] = at[p]

LEMMA SwapQuiet ==
    ASSUME SwapInv, UNCHANGED <<db, fingerprint, strays, model, txn, listed>>,
           \A p \in Procs : Quiet(p) /\ (txn[p] # None => UNCHANGED <<at, job>>)
    PROVE  SwapInv'
<1>1. SwapDb'
    BY DEF SwapInv, SwapDb, Passes
<1>2. ASSUME NEW p \in Procs PROVE SwapOK(p)'
    <2>1. SwapOK(p) /\ Quiet(p) /\ (txn[p] # None => UNCHANGED <<at, job>>)
        BY DEF SwapInv
    <2> QED
        BY <2>1 DEF SwapOK, Passes, OfModel, Quiet
<1> QED
    BY <1>1, <1>2 DEF SwapInv

\* While a build runs its statements everything it sees is of the model it runs with.
LEMMA BuildServes ==
    ASSUME IInv, SwapInv, NEW p \in Procs, at[p] \in BuildStatements
    PROVE  /\ Serving(p) /\ fingerprint \in {None, model[p]} /\ Passes(db, model[p])
           /\ fingerprint = None => OfModel(db, model[p])
<1>1. Serving(p)
    BY DEF IInv, ProcOK, Control, Serving, BootStatements, BuildStatements, TxnStatements
<1> QED
    BY <1>1 DEF SwapInv, SwapOK

\* A build goes to its next statement or ends.
GoesOn(p) ==
    \/ \E s \in BuildStatements : Goto(p, s) /\ UNCHANGED job
    \/ Finish(p)

LEMMA GoesOnTo ==
    ASSUME IInv, NEW p \in Procs, GoesOn(p)
    PROVE  /\ (at'[p] \in BuildStatements /\ UNCHANGED job) \/ (at'[p] = "free" /\ job'[p] = None)
           /\ at'[p] \notin BootStatements
    BY DEF GoesOn, Finish, Goto, IInv, TypeOK, BootStatements, BuildStatements, TxnStatements

\* What a statement of p makes of the chunks: in a transaction, the repository's are of
\* p's model; outside of it they only go.
Mine(p, d) ==
    IF at[p] \in TxnStatements
    THEN d.rows[job[p]] # None => d.rows[job[p]].model = model[p]
    ELSE \A r \in Repos : d.rows[r] \in {None, db.rows[r]}

LEMMA SwapWrite ==
    ASSUME IInv, SwapInv, IInv', OneProcess, NEW p \in Procs, at[p] \in BuildStatements,
           NEW d, Write(p, d), Mine(p, d), GoesOn(p), UNCHANGED <<fingerprint, strays, model>>
    PROVE  SwapInv'
<1>1. /\ (at'[p] \in BuildStatements /\ UNCHANGED job) \/ (at'[p] = "free" /\ job'[p] = None)
      /\ at'[p] \notin BootStatements
    BY GoesOnTo
<1>2. /\ Serving(p) /\ fingerprint \in {None, model[p]} /\ Passes(db, model[p])
      /\ fingerprint = None => OfModel(db, model[p])
      /\ SwapDb
    BY BuildServes DEF SwapInv
<1>3. txn'[p] # None => at'[p] \in TxnStatements
    BY DEF IInv, ProcOK
<1>4. \A r \in Repos : db'.rows[r] \in {None, db.rows[r]}
    <2>1. CASE at[p] \in TxnStatements
        BY <2>1 DEF Write, IInv, ProcOK
    <2>2. CASE at[p] \notin TxnStatements
        BY <2>2 DEF Write, IInv, ProcOK, Mine
    <2> QED
        BY <2>1, <2>2
<1>5. txn'[p] # None => txn'[p] = d /\ at[p] \in TxnStatements
    BY DEF Write, IInv, TypeOK, ProcOK
<1>6. SwapDb'
    <2>1. strays \in SUBSET Repos
        BY DEF IInv, TypeOK
    <2> QED
        BY <1>2, <1>4, <2>1 DEF SwapDb, Passes
<1>7. Passes(db, model[p])' /\ (fingerprint = None => OfModel(db, model[p]))'
    BY <1>2, <1>4 DEF Passes, OfModel
<1>8. ASSUME txn'[p] # None, txn'[p].rows[job'[p]] # None
      PROVE  txn'[p].rows[job'[p]].model = model'[p]
    <2>1. UNCHANGED job
        BY <1>1, <1>3, <1>8 DEF TxnStatements
    <2> QED
        BY <1>5, <1>8, <2>1 DEF Mine
<1>9. SwapOK(p)'
    BY <1>1, <1>2, <1>7, <1>8 DEF SwapOK, BootStatements
<1> QED
    BY <1>6, <1>9 DEF SwapInv, OneProcess

\* The statements of a build put chunks of its own model, or none.
LEMMA SqlWritesOwnModel ==
    ASSUME IInv, SwapInv, NEW p \in Procs, SqlStep(p), ~Begin(p), ~Commit(p), ~Stamp(p)
    PROVE  /\ at[p] \in BuildStatements /\ GoesOn(p) /\ UNCHANGED <<fingerprint, strays, model>>
           /\ \E d : Write(p, d) /\ Mine(p, d)
<1>1. at[p] \in BuildStatements
    BY DEF SqlStep, Refresh, DropRows, PutRows, DropEdges, PutEdges, PutStatus, ClearRows,
       ClearEdges, ClearStatus, BuildStatements, TxnStatements
<1>2. /\ job[p] \in Repos /\ View(p) \in Tables
      /\ Build(p) \in Calls /\ Build(p).content \in Contents /\ Build(p).sha \in Versions /\ model[p] \in Models
    BY <1>1, AtStatement
<1>3. ASSUME NEW d, d.rows = View(p).rows, at[p] # "dropRows" PROVE Mine(p, d)
    <2>1. CASE at[p] \in TxnStatements
        <3>1. txn[p] # None /\ View(p) = txn[p]
            BY <2>1, AtTxn
        <3> QED
            BY <1>3, <2>1, <3>1 DEF SwapInv, SwapOK, Mine
    <2>2. CASE at[p] \notin TxnStatements
        <3>1. View(p) = db
            BY <2>2 DEF IInv, ProcOK, View
        <3> QED
            BY <1>3, <2>2, <3>1 DEF Mine
    <2> QED
        BY <2>1, <2>2
<1>4. ASSUME NEW row \in ChunkRows \cup {None}, row # None => row.model = model[p] /\ at[p] \in TxnStatements
      PROVE  Mine(p, [View(p) EXCEPT !.rows[job[p]] = row])
    <2> DEFINE d == [View(p) EXCEPT !.rows[job[p]] = row]
    <2>0. View(p) \in Tables /\ job[p] \in Repos
        BY <1>2
    <2>1. /\ d \in Tables /\ d.status = View(p).status /\ d.rows[job[p]] = row
          /\ \A q \in Repos \ {job[p]} : d.rows[q] = View(p).rows[q]
        BY <2>0, SetRowsType
    <2> HIDE DEF d
    <2>2. ASSUME at[p] \in TxnStatements PROVE Mine(p, d)
        BY <1>4, <2>1, <2>2 DEF Mine
    <2>3. ASSUME at[p] \notin TxnStatements PROVE Mine(p, d)
        <3>1. View(p) = db
            BY <2>3 DEF IInv, ProcOK, View
        <3> QED
            BY <1>4, <2>1, <2>3, <3>1 DEF Mine
    <2>4. Mine(p, d)
        BY <2>2, <2>3
    <2> QED
        BY <2>4 DEF d
<1>5. ASSUME NEW e PROVE [View(p) EXCEPT !.edges[job[p]] = e].rows = View(p).rows
    BY <1>2 DEF Tables
<1>6. ASSUME NEW sha, NEW n, NEW e PROVE SetStatus(View(p), job[p], sha, n, e).rows = View(p).rows
    BY <1>2 DEF Tables, SetStatus
<1>7. ASSUME NEW d, NEW s, Statement(p, d, s), s \in BuildStatements, Mine(p, d)
      PROVE  /\ GoesOn(p) /\ UNCHANGED <<fingerprint, strays, model>>
             /\ \E e : Write(p, e) /\ Mine(p, e)
    BY <1>7 DEF Statement, GoesOn
<1>8. CASE Refresh(p)
    <2> DEFINE c == Build(p)
               d == SetStatus(View(p), job[p], c.sha, c.seen.chunks, c.seen.edges)
    <2>1. Write(p, d) /\ Finish(p) /\ UNCHANGED <<fingerprint, strays, model>>
        BY <1>8 DEF Refresh
    <2>2. at[p] # "dropRows"
        BY <1>8 DEF Refresh
    <2>3. Mine(p, d)
        BY <1>3, <1>6, <2>2
    <2> HIDE DEF d
    <2> QED
        BY <1>1, <2>1, <2>3 DEF GoesOn
<1>9. CASE DropRows(p) \/ ClearRows(p)
    <2> DEFINE d == [View(p) EXCEPT !.rows[job[p]] = None]
    <2>1. Mine(p, d)
        BY <1>4
    <2>2. \E s \in BuildStatements : Statement(p, d, s)
        BY <1>9 DEF DropRows, ClearRows, BuildStatements, TxnStatements
    <2> HIDE DEF d
    <2> QED
        BY <1>1, <1>7, <2>1, <2>2
<1>10. CASE PutRows(p)
    <2> DEFINE c == Build(p)
               row == [content |-> c.content, sha |-> c.sha, model |-> model[p]]
               d == IF ChunksOf[c.content] = 0 THEN View(p) ELSE [View(p) EXCEPT !.rows[job[p]] = row]
    <2>1. row \in ChunkRows /\ row.model = model[p] /\ at[p] \in TxnStatements /\ at[p] # "dropRows"
        BY <1>2, <1>10 DEF ChunkRows, PutRows, TxnStatements
    <2>2. \E s \in BuildStatements : Statement(p, d, s)
        BY <1>10 DEF PutRows, BuildStatements, TxnStatements
    <2> HIDE DEF row
    <2>3. Mine(p, d)
        BY <1>2, <1>3, <1>4, <2>1
    <2> HIDE DEF d
    <2> QED
        BY <1>1, <1>7, <2>2, <2>3
<1>11. CASE DropEdges(p) \/ ClearEdges(p)
    <2> DEFINE d == [View(p) EXCEPT !.edges[job[p]] = None]
    <2>1. Mine(p, d)
        BY <1>3, <1>5, <1>11 DEF DropEdges, ClearEdges
    <2>2. \E s \in BuildStatements : Statement(p, d, s)
        BY <1>11 DEF DropEdges, ClearEdges, BuildStatements, TxnStatements
    <2> HIDE DEF d
    <2> QED
        BY <1>1, <1>7, <2>1, <2>2
<1>12. CASE PutEdges(p)
    <2> DEFINE c == Build(p)
               row == [content |-> c.content, sha |-> c.sha]
               d == IF EdgesOf[c.content] = 0 THEN View(p) ELSE [View(p) EXCEPT !.edges[job[p]] = row]
    <2>1. \E s \in BuildStatements : Statement(p, d, s)
        BY <1>12 DEF PutEdges, BuildStatements, TxnStatements
    <2> HIDE DEF row
    <2>2. Mine(p, d)
        BY <1>2, <1>3, <1>5, <1>12 DEF PutEdges
    <2> HIDE DEF d
    <2> QED
        BY <1>1, <1>7, <2>1, <2>2
<1>13. CASE PutStatus(p)
    <2> DEFINE c == Build(p)
               d == SetStatus(View(p), job[p], c.sha, ChunksOf[c.content], EdgeCount(p, c))
    <2>1. Mine(p, d)
        BY <1>3, <1>6, <1>13 DEF PutStatus
    <2>2. Statement(p, d, "commit") /\ "commit" \in BuildStatements
        BY <1>13 DEF PutStatus, BuildStatements, TxnStatements
    <2> HIDE DEF d
    <2> QED
        BY <1>1, <1>7, <2>1, <2>2
<1>14. CASE ClearStatus(p)
    <2> DEFINE d == SetStatus(View(p), job[p], Build(p).sha, 0, IF kg[p] THEN 0 ELSE -1)
    <2>1. Write(p, d) /\ Finish(p) /\ UNCHANGED <<fingerprint, strays, model>>
        BY <1>14 DEF ClearStatus
    <2>2. Mine(p, d)
        BY <1>3, <1>6, <1>14 DEF ClearStatus
    <2> HIDE DEF d
    <2> QED
        BY <1>1, <2>1, <2>2 DEF GoesOn
<1> QED
    BY <1>8, <1>9, <1>10, <1>11, <1>12, <1>13, <1>14 DEF SqlStep

LEMMA SqlStepSwap ==
    ASSUME IInv, SwapInv, IInv', OneProcess, NEW p \in Procs, SqlStep(p)
    PROVE  SwapInv'
<1>1. CASE ~Begin(p) /\ ~Commit(p) /\ ~Stamp(p)
    BY <1>1, SqlWritesOwnModel, SwapWrite
<1>2. CASE Begin(p)
    <2>1. /\ at[p] \in BuildStatements /\ at'[p] = "dropRows"
          /\ UNCHANGED <<job, model, fingerprint, strays, db, listed>>
        BY <1>2 DEF Begin, Goto, IInv, TypeOK, BuildStatements, TxnStatements
    <2>2. SwapOK(p) /\ SwapDb /\ Serving(p)
        BY <2>1, BuildServes DEF SwapInv
    <2>3. SwapDb'
        BY <2>1, <2>2 DEF SwapDb, Passes
    <2>4. SwapOK(p)'
        BY <2>1, <2>2 DEF SwapOK, Passes, OfModel, BuildStatements, TxnStatements
    <2> QED
        BY <2>3, <2>4 DEF SwapInv, OneProcess
<1>3. CASE Commit(p)
    <2> DEFINE r == job[p]
    <2>1. at[p] = "commit" /\ at[p] \in BuildStatements /\ at[p] \in TxnStatements /\ "stamp" \in BuildStatements
        BY <1>3 DEF Commit, BuildStatements, TxnStatements
    <2>2. GoesOn(p) /\ UNCHANGED <<model, fingerprint>>
        BY <1>3, <2>1 DEF Commit, GoesOn
    <2>3. /\ db' = txn[p] /\ txn'[p] = None /\ r \in Repos /\ strays \in SUBSET Repos
          /\ \A q \in Repos \ {r} : db'.rows[q] = db.rows[q]
          /\ strays' = IF fingerprint = None THEN strays \cup {r} ELSE strays \ {r}
        BY <1>3, <2>1, AtTxn, AtStatement DEF Commit, IInv, TypeOK, ViewOK
    <2>4. db'.rows[r] # None => db'.rows[r].model = model[p]
        BY <2>1, <2>3, AtTxn DEF SwapInv, SwapOK
    <2>5. /\ Serving(p) /\ fingerprint \in {None, model[p]} /\ Passes(db, model[p])
          /\ fingerprint = None => OfModel(db, model[p])
          /\ SwapDb
        BY <2>1, BuildServes DEF SwapInv
    <2> HIDE DEF r
    <2>6. Passes(db, model[p])' /\ (fingerprint = None => OfModel(db, model[p]))'
        BY <2>2, <2>3, <2>4, <2>5 DEF Passes, OfModel
    <2>7. fingerprint = None => Passes(db, Legacy)'
        BY <2>2, <2>3, <2>4, <2>5 DEF Passes, SwapDb
    <2>8. SwapDb'
        BY <2>2, <2>3, <2>5, <2>6, <2>7 DEF SwapDb
    <2>9. /\ (at'[p] \in BuildStatements /\ UNCHANGED job) \/ (at'[p] = "free" /\ job'[p] = None)
          /\ at'[p] \notin BootStatements
        BY <2>2, GoesOnTo
    <2>10. SwapOK(p)'
        BY <2>2, <2>3, <2>5, <2>6, <2>9 DEF SwapOK, BootStatements
    <2> QED
        BY <2>8, <2>10 DEF SwapInv, OneProcess
<1>4. CASE Stamp(p)
    <2>1. at[p] \in BuildStatements /\ at[p] \notin TxnStatements
        BY <1>4 DEF Stamp, BuildStatements, TxnStatements
    <2>2. /\ GoesOn(p) /\ UNCHANGED <<model, db, txn>> /\ fingerprint' = model[p] /\ txn[p] = None
          /\ strays' = IF fingerprint = None THEN {} ELSE strays
        BY <1>4, <2>1 DEF Stamp, GoesOn, IInv, ProcOK
    <2>3. /\ Serving(p) /\ fingerprint \in {None, model[p]} /\ Passes(db, model[p])
          /\ fingerprint = None => OfModel(db, model[p])
          /\ SwapDb /\ model[p] # None
        BY <2>1, BuildServes DEF SwapInv, Serving, Up
    <2>4. Passes(db, model[p])'
        BY <2>2, <2>3 DEF Passes, OfModel
    <2>5. SwapDb'
        BY <2>2, <2>3, <2>4 DEF SwapDb
    <2>6. /\ (at'[p] \in BuildStatements /\ UNCHANGED job) \/ (at'[p] = "free" /\ job'[p] = None)
          /\ at'[p] \notin BootStatements
        BY <2>2, GoesOnTo
    <2>7. SwapOK(p)'
        BY <2>2, <2>3, <2>4, <2>6 DEF SwapOK, BootStatements
    <2> QED
        BY <2>5, <2>7 DEF SwapInv, OneProcess
<1> QED
    BY <1>1, <1>2, <1>3, <1>4

\* ROLLBACK: what remains is the committed tables.
LEMMA ThrowsSwap ==
    ASSUME IInv, SwapInv, OneProcess, NEW p \in Procs, Throws(p)
    PROVE  SwapInv'
<1>1. at[p] \in BuildStatements
    BY DEF Throws, SwapInv, SwapOK
<1>2. /\ txn'[p] = None /\ at'[p] = "free" /\ job'[p] = None
      /\ UNCHANGED <<db, fingerprint, strays, model>>
    BY DEF Throws, Finish, Goto, IInv, TypeOK
<1>3. SwapDb'
    BY <1>2 DEF SwapInv, SwapDb, Passes
<1>4. SwapOK(p)'
    BY <1>1, <1>2, BuildServes DEF SwapOK, OfModel, Passes
<1> QED
    BY <1>3, <1>4 DEF SwapInv, OneProcess

\* A start on another model's chunks goes to the drop; chunks nobody stamped are taken
\* for the legacy model's.
LEMMA StartSwap ==
    ASSUME IInv, SwapInv, OneProcess, NEW p \in Procs, Start(p)
    PROVE  SwapInv'
<1>1. PICK m \in Models : model' = [model EXCEPT ![p] = m] /\ at' = [at EXCEPT ![p] = BootStatement(m)]
    BY DEF Start, Goto
<1>2. /\ model'[p] = m /\ at'[p] = BootStatement(m) /\ m # None /\ Legacy # None
      /\ at[p] = "free" /\ txn[p] = None
    BY <1>1, NoneAssumption DEF Start, IInv, TypeOK, ProcOK, Control, TxnStatements
<1>3. job[p] = None
    BY <1>2 DEF SwapInv, SwapOK, BuildStatements, TxnStatements
<1>4. db'.rows = db.rows /\ UNCHANGED <<fingerprint, strays, txn, job>>
    BY GraphsUnbuiltType DEF Start, IInv, TypeOK
<1>5. \/ BootStatement(m) = "list"
      \/ BootStatement(m) = "restamp" /\ fingerprint = None /\ m = Legacy
      \/ BootStatement(m) = "free" /\ fingerprint = m
      \/ BootStatement(m) = "free" /\ fingerprint = None /\ \A r \in Repos : db.rows[r] = None
    BY <1>2 DEF BootStatement, EffectiveOld, HasAnyIndex
<1>6. SwapDb'
    BY <1>4 DEF SwapInv, SwapDb, Passes
<1>7. Serving(p)' => /\ fingerprint \in {None, m} /\ Passes(db, m)'
                     /\ fingerprint = None => OfModel(db, m)'
    BY <1>2, <1>4, <1>5 DEF SwapInv, SwapDb, OfModel, Passes, Serving, BootStatements
<1>8. SwapOK(p)'
    BY <1>2, <1>3, <1>4, <1>5, <1>7 DEF SwapOK
<1> QED
    BY <1>6, <1>8 DEF SwapInv, OneProcess

\* dropAllChunks() finds every repository with chunks by its status row.
LEMMA BootSwap ==
    ASSUME IInv, SwapInv, OneProcess, NEW p \in Procs, Boot(p)
    PROVE  SwapInv'
<1>1. /\ at[p] \in BootStatements /\ txn[p] = None /\ UNCHANGED <<strays, txn, model, job>>
      /\ job[p] = None /\ View(p) = db
    BY DEF Boot, ListRepos, DropAll, Restamp, Write, View, BootStatements, IInv, ProcOK, SwapInv,
       SwapOK, BuildStatements, TxnStatements, store
<1>2. CASE ListRepos(p)
    <2>1. listed'[p] = {r \in Repos : db.status[r] # None} /\ at'[p] = "dropAll"
          /\ UNCHANGED <<db, fingerprint>>
        BY <1>2 DEF ListRepos, Goto, IInv, TypeOK, store
    <2>2. \A r \in Repos : db.rows[r] # None \/ db.status[r] # None => r \in listed'[p]
        BY <2>1 DEF IInv, RowsHaveStatus
    <2>3. SwapOK(p)'
        BY <1>1, <2>1, <2>2 DEF SwapOK, Serving, BootStatements
    <2>4. SwapDb'
        BY <1>1, <2>1 DEF SwapInv, SwapDb, Passes
    <2> QED
        BY <2>3, <2>4 DEF SwapInv, OneProcess
<1>3. CASE DropAll(p)
    <2>1. /\ db' = Without(db, listed[p]) /\ at'[p] = "restamp" /\ UNCHANGED fingerprint
          /\ \A r \in Repos : db.rows[r] # None => r \in listed[p]
        BY <1>1, <1>3 DEF DropAll, Write, Goto, IInv, TypeOK, SwapInv, SwapOK
    <2>2. db'.rows = [r \in Repos |-> IF r \in listed[p] THEN None ELSE db.rows[r]]
        BY <2>1 DEF Without, IInv, TypeOK, Tables
    <2>3. \A r \in Repos : db'.rows[r] = None
        BY <2>1, <2>2
    <2>4. SwapOK(p)'
        BY <1>1, <2>1, <2>3 DEF SwapOK, Serving, BootStatements
    <2>5. strays \in SUBSET Repos
        BY DEF IInv, TypeOK
    <2>6. SwapDb'
        BY <1>1, <2>3, <2>5 DEF SwapDb, Passes
    <2> QED
        BY <2>4, <2>6 DEF SwapInv, OneProcess
<1>4. CASE Restamp(p)
    <2>1. /\ fingerprint' = model[p] /\ at'[p] = "free" /\ UNCHANGED db
          /\ \/ \A r \in Repos : db.rows[r] = None
             \/ fingerprint = None /\ model[p] = Legacy /\ Passes(db, Legacy)
        BY <1>4 DEF Restamp, Goto, IInv, TypeOK, SwapInv, SwapOK, SwapDb
    <2>2. model[p] # None /\ strays \in SUBSET Repos
        BY <1>1 DEF IInv, TypeOK, ProcOK, Control, Up, BootStatements
    <2>3. Passes(db, model[p])'
        BY <1>1, <2>1 DEF Passes
    <2>4. SwapOK(p)'
        BY <1>1, <2>1, <2>2, <2>3 DEF SwapOK
    <2>5. SwapDb'
        BY <1>1, <2>1, <2>2, <2>3 DEF SwapDb
    <2> QED
        BY <2>4, <2>5 DEF SwapInv, OneProcess
<1> QED
    BY <1>2, <1>3, <1>4 DEF Boot

\* The steps between the statements leave the tables alone.
LEMMA EventLoopFrame ==
    ASSUME IInv, NEW p \in Procs, NEW r \in Repos, GetPage(p, r) \/ IndexRepo(p, r) \/ BuildStep(p, r)
    PROVE  /\ Free(p) /\ UNCHANGED <<upstream, store, model, kg, listed>>
           /\ \/ UNCHANGED <<at, job>>
              \/ /\ job' = [job EXCEPT ![p] = r]
                 /\ \E s \in {"refresh", "begin", "clearRows"} : Goto(p, s)
    BY DEF GetPage, IndexRepo, BuildStep, FetchFails, FetchCached, FetchUpstream, FetchShell,
       FetchAnswered, Reading, ReadSha, EmbedFails, Embedded, process

LEMMA NextSwap == IInv /\ SwapInv /\ OneProcess /\ [Next]_vars => SwapInv'
<1> SUFFICES ASSUME IInv, SwapInv, OneProcess, [Next]_vars PROVE SwapInv'
    OBVIOUS
<1>0. IInv'
    BY NextIInv
<1>1. CASE UNCHANGED vars \/ \E r \in Repos : Commits(r)
    BY <1>1, SwapQuiet DEF Quiet, vars, store, process, Commits, Serving, Up, SwapInv, SwapOK
<1>2. ASSUME NEW r \in Repos, Expires(r) PROVE SwapInv'
    <2>1. db'.rows = db.rows /\ UNCHANGED <<fingerprint, strays, txn, model, at, job, listed>>
        BY <1>2 DEF Expires, IInv, TypeOK, Tables, process
    <2>0. \A q \in Repos : db'.status[q] # None => db.status[q] # None
        <3>1. db' = [db EXCEPT !.status = [db.status EXCEPT ![r] = [db.status[r] EXCEPT !.fresh = FALSE]]]
              /\ db.status[r] # None /\ db \in Tables
            BY <1>2 DEF Expires, IInv, TypeOK
        <3> QED
            BY <3>1 DEF Tables
    <2>2. \A p \in Procs : SwapOK(p)'
        BY <2>0, <2>1 DEF SwapInv, SwapOK, OfModel, Passes, Serving, Up
    <2>3. SwapDb'
        BY <2>1 DEF SwapInv, SwapDb, Passes
    <2> QED
        BY <2>2, <2>3 DEF SwapInv
<1>3. ASSUME NEW p \in Procs, Crash(p) PROVE SwapInv'
    <2>1. /\ at'[p] = "free" /\ job'[p] = None /\ model'[p] = None /\ txn'[p] = None
          /\ UNCHANGED <<db, fingerprint, strays>>
        BY <1>3 DEF Crash, Goto, IInv, TypeOK
    <2>2. SwapOK(p)'
        BY <2>1 DEF SwapOK, Serving, Up
    <2>3. SwapDb'
        BY <2>1 DEF SwapInv, SwapDb, Passes
    <2> QED
        BY <2>2, <2>3 DEF SwapInv, OneProcess
<1>4. ASSUME NEW p \in Procs, NEW r \in Repos, GetPage(p, r) \/ IndexRepo(p, r) \/ BuildStep(p, r)
      PROVE  SwapInv'
    <2>1. /\ Free(p) /\ UNCHANGED <<upstream, store, model, kg, listed>>
          /\ \/ UNCHANGED <<at, job>>
             \/ /\ job' = [job EXCEPT ![p] = r]
                /\ \E s \in {"refresh", "begin", "clearRows"} : Goto(p, s)
        BY <1>4, EventLoopFrame
    <2>2. \A q \in Procs : Quiet(q)
        <3>1. CASE UNCHANGED <<at, job>>
            BY <2>1, <3>1 DEF Quiet, SwapInv, SwapOK, Serving, Up
        <3>2. CASE \E s \in {"refresh", "begin", "clearRows"} : Goto(p, s)
            <4>1. at'[p] \in {"refresh", "begin", "clearRows"}
                BY <3>2 DEF Goto, IInv, TypeOK
            <4> QED
                BY <2>1, <4>1 DEF Quiet, OneProcess, Free, Serving, BootStatements, Up, BuildStatements
        <3> QED
            BY <2>1, <3>1, <3>2
    <2>3. UNCHANGED <<db, fingerprint, strays, model, txn, listed>>
        BY <2>1 DEF store
    <2>4. txn[p] = None
        BY <2>1 DEF Free, IInv, ProcOK, TxnStatements
    <2> QED
        BY <2>2, <2>3, <2>4, SwapQuiet DEF OneProcess
<1>5. ASSUME NEW p \in Procs, Start(p) \/ Throws(p) \/ Boot(p) \/ SqlStep(p) PROVE SwapInv'
    BY <1>0, <1>5, StartSwap, ThrowsSwap, BootSwap, SqlStepSwap
<1> QED
    BY <1>1, <1>2, <1>3, <1>4, <1>5 DEF Next

\* While one process uses the cache, it serves a request over chunks of another model
\* than the one it embeds queries with only after it was killed between a COMMIT and the
\* first stamp ever, and restarted with the model of the releases before the
\* fingerprint: wherever else it was killed, and whatever models it ran with before.
THEOREM IndexerCleanAfterSwap == ASSUME OneProcess PROVE Spec => []CleanAfterSwap
<1>1. Init => IInv /\ SwapInv
    BY InitIInv, InitSwap
<1>2. IInv /\ SwapInv /\ [Next]_vars => IInv' /\ SwapInv'
    BY NextIInv, NextSwap
<1>3. SwapInv => CleanAfterSwap
    BY DEF SwapInv, SwapOK, CleanAfterSwap, Serving, Free, Passes, BootStatements
<1> QED
    BY <1>1, <1>2, <1>3, PTL DEF Spec

-----------------------------------------------------------------------------
(* The builds of an unchanged wiki                                         *)

\* Two reads of a status row between which at most its TTL passed.
Agree(s, t) ==
    /\ s = None <=> t = None
    /\ s # None => s.sha = t.sha /\ s.chunks = t.chunks /\ s.edges = t.edges

\* The statements of a build that is not just a refresh, but for the stamp.
DueStatements == TxnStatements \cup {"begin", "clearRows", "clearEdges", "clearStatus"}

\* The row runIndex() read before its first await still describes the index until its
\* own build replaces it, so what was decided by that row still holds until the COMMIT.
SeenOK(p, r) ==
    LET c == call[p][r]
    IN  /\ ~Serving(p) => c.step = "idle"
        /\ c.step # "idle" => Agree(c.seen, db.status[r]) \/ (job[p] = r /\ at[p] = "stamp")
        /\ c.step = "embedding" => ~RefreshSuffices(p, c.seen, c.sha)
        /\ job[p] = r /\ at[p] \in DueStatements => ~RefreshSuffices(p, c.seen, c.sha)
        /\ job[p] = r /\ at[p] = "refresh" => RefreshSuffices(p, c.seen, c.sha)

\* The inductive invariant of NoReembed.
SeenInv ==
    \A p \in Procs : /\ job[p] # None => at[p] \in BuildStatements
                     /\ \A r \in Repos : SeenOK(p, r)

LEMMA InitSeen == Init => SeenInv
    BY DEF Init, SeenInv, SeenOK, NoCall, Serving, Up, DueStatements, TxnStatements

\* A step that keeps the calls and what the status rows say.
LEMMA SeenKept ==
    ASSUME SeenInv, UNCHANGED <<kg, call, model, at, job>>,
           \A p \in Procs, r \in Repos :
               call[p][r].step # "idle" /\ Agree(call[p][r].seen, db.status[r])
                   => Agree(call[p][r].seen, db'.status[r])
    PROVE  SeenInv'
<1> SUFFICES ASSUME NEW p \in Procs, NEW r \in Repos PROVE SeenOK(p, r)'
    BY DEF SeenInv
<1>1. SeenOK(p, r)
    BY DEF SeenInv
<1>2. Serving(p)' <=> Serving(p)
    BY DEF Serving, Up
<1> QED
    BY <1>1, <1>2 DEF SeenOK, RefreshSuffices, DueStatements

\* A process without a build.
LEMMA SeenIdle ==
    ASSUME OneProcess, NEW p \in Procs, job'[p] = None, \A r \in Repos : call'[p][r].step = "idle"
    PROVE  SeenInv'
<1>1. \A r \in Repos : r # None
    BY NoneAssumption
<1>2. \A r \in Repos : SeenOK(p, r)'
    BY <1>1 DEF SeenOK
<1> QED
    BY <1>2 DEF SeenInv, OneProcess

\* A build of p settles, and the status rows of the other repositories stay.
LEMMA SeenFinish ==
    ASSUME IInv, SeenInv, OneProcess, NEW p \in Procs, at[p] \in BuildStatements, Finish(p),
           UNCHANGED <<model, kg>>, \A q \in Repos \ {job[p]} : db'.status[q] = db.status[q]
    PROVE  SeenInv'
<1>1. job[p] \in Repos
    BY AtStatement
<1>2. /\ at'[p] = "free" /\ job'[p] = None
      /\ call' = [call EXCEPT ![p] = [call[p] EXCEPT ![job[p]] = NoCall]]
      /\ call \in [Procs -> [Repos -> Calls]] /\ call[p] \in [Repos -> Calls]
    BY DEF Finish, Goto, IInv, TypeOK
<1>3. /\ call'[p][job[p]] = NoCall
      /\ \A q \in Repos \ {job[p]} : call'[p][q] = call[p][q]
    BY <1>1, <1>2
<1>4. Serving(p)
    BY DEF IInv, ProcOK, Control, Serving, BootStatements, BuildStatements, TxnStatements
<1>5. Serving(p)'
    BY <1>2, <1>4 DEF Serving, Up, BootStatements
<1>6. ASSUME NEW r \in Repos \ {job[p]} PROVE SeenOK(p, r)'
    <2>1. SeenOK(p, r)
        BY DEF SeenInv
    <2> QED
        BY <1>2, <1>3, <1>5, <2>1 DEF SeenOK, RefreshSuffices, DueStatements, TxnStatements
<1>7. ASSUME NEW r \in Repos, r = job[p] PROVE SeenOK(p, r)'
    <2>1. r # None
        BY <1>1, NoneAssumption
    <2> QED
        BY <1>2, <1>3, <1>5, <1>7, <2>1 DEF SeenOK, NoCall, DueStatements, TxnStatements
<1>8. \A r \in Repos : SeenOK(p, r)'
    BY <1>1, <1>6, <1>7
<1> QED
    BY <1>2, <1>8 DEF SeenInv, OneProcess

\* A statement that another one of the same build follows.
LEMMA SeenStatement ==
    ASSUME IInv, SeenInv, OneProcess, NEW p \in Procs, at[p] \in BuildStatements,
           NEW s \in BuildStatements \ {"begin", "refresh"}, at[p] # "stamp", Goto(p, s),
           s \in DueStatements => at[p] \in DueStatements,
           UNCHANGED <<model, kg, job, call>>,
           \A q \in Repos : db'.status[q] = db.status[q] \/ (q = job[p] /\ s = "stamp")
    PROVE  SeenInv'
<1>1. at'[p] = s
    BY DEF Goto, IInv, TypeOK
<1>2. Serving(p)
    BY DEF IInv, ProcOK, Control, Serving, BootStatements, BuildStatements, TxnStatements
<1>3. Serving(p)'
    BY <1>1, <1>2 DEF Serving, Up, BootStatements, BuildStatements, TxnStatements
<1>4. ASSUME NEW r \in Repos PROVE SeenOK(p, r)'
    <2>1. SeenOK(p, r)
        BY DEF SeenInv
    <2> QED
        BY <1>1, <1>3, <2>1 DEF SeenOK, RefreshSuffices, DueStatements
<1> QED
    BY <1>1, <1>4 DEF SeenInv, OneProcess

\* A build writes the status row of its own repository, in its last statement or, seen
\* from outside, at COMMIT.
LEMMA SqlStepSeen ==
    ASSUME IInv, SeenInv, OneProcess, NEW p \in Procs, SqlStep(p)
    PROVE  SeenInv'
<1>1. at[p] \in BuildStatements
    BY DEF SqlStep, Refresh, Begin, DropRows, PutRows, DropEdges, PutEdges, PutStatus, Commit, Stamp,
       ClearRows, ClearEdges, ClearStatus, BuildStatements, TxnStatements
<1>2. job[p] \in Repos /\ View(p) \in Tables /\ db \in Tables
    BY <1>1, AtStatement DEF IInv, TypeOK
<1>3. at[p] \in TxnStatements => txn[p] # None /\ ViewOK(p, txn[p], at[p])
    BY AtTxn DEF View
<1>4. at[p] \notin TxnStatements => txn[p] = None /\ View(p) = db
    BY <1>1 DEF IInv, ProcOK, View
<1>5. ASSUME NEW d, NEW s \in TxnStatements, Statement(p, d, s), at[p] \in TxnStatements PROVE SeenInv'
    <2>1. UNCHANGED db /\ at[p] # "stamp"
        BY <1>3, <1>5 DEF Statement, Write, TxnStatements
    <2>2. s \in BuildStatements \ {"begin", "refresh"} /\ s # "stamp"
        BY DEF BuildStatements, TxnStatements
    <2> QED
        BY <1>1, <1>5, <2>1, <2>2, SeenStatement DEF Statement, DueStatements
<1>6. CASE DropRows(p) \/ PutRows(p) \/ DropEdges(p) \/ PutEdges(p) \/ PutStatus(p)
    <2>1. at[p] \in TxnStatements /\ \E s \in TxnStatements : \E d : Statement(p, d, s)
        BY <1>6 DEF DropRows, PutRows, DropEdges, PutEdges, PutStatus, TxnStatements
    <2> QED
        BY <1>5, <2>1
<1>7. CASE Begin(p)
    <2>1. "dropRows" \in BuildStatements \ {"begin", "refresh"}
        BY DEF BuildStatements, TxnStatements
    <2> QED
        BY <1>1, <1>7, <2>1, SeenStatement DEF Begin, DueStatements
<1>8. CASE ClearRows(p) \/ ClearEdges(p)
    <2>1. at[p] \notin TxnStatements /\ at[p] # "stamp"
        BY <1>8 DEF ClearRows, ClearEdges, TxnStatements
    <2>2. PICK s, d : s \in {"clearEdges", "clearStatus"} /\ Statement(p, d, s) /\ d.status = View(p).status
        <3>1. [View(p) EXCEPT !.rows[job[p]] = None].status = View(p).status
              /\ [View(p) EXCEPT !.edges[job[p]] = None].status = View(p).status
            BY <1>2, SetRowsType, SetEdgesType
        <3> QED
            BY <1>8, <3>1 DEF ClearRows, ClearEdges
    <2>3. db'.status = db.status
        BY <1>4, <2>1, <2>2 DEF Statement, Write
    <2>4. s \in BuildStatements \ {"begin", "refresh"} /\ s # "stamp" /\ at[p] \in DueStatements
        BY <1>8, <2>2 DEF BuildStatements, DueStatements, ClearRows, ClearEdges
    <2> QED
        BY <1>1, <2>1, <2>2, <2>3, <2>4, SeenStatement DEF Statement
<1>9. CASE Refresh(p) \/ ClearStatus(p)
    <2>1. at[p] \notin TxnStatements /\ Finish(p) /\ UNCHANGED <<model, kg>>
        BY <1>9 DEF Refresh, ClearStatus, TxnStatements
    <2>2. PICK sha, n, e : Write(p, SetStatus(View(p), job[p], sha, n, e))
        BY <1>9 DEF Refresh, ClearStatus
    <2>3. db' = SetStatus(db, job[p], sha, n, e)
        BY <1>4, <2>1, <2>2 DEF Write
    <2>4. \A q \in Repos \ {job[p]} : db'.status[q] = db.status[q]
        BY <1>2, <2>3 DEF SetStatus, Tables
    <2> QED
        BY <1>1, <2>1, <2>4, SeenFinish
<1>10. CASE Commit(p)
    <2>1. at[p] = "commit" /\ at[p] \in TxnStatements
        BY <1>10 DEF Commit, TxnStatements
    <2>2. db' = txn[p] /\ \A q \in Repos \ {job[p]} : db'.status[q] = db.status[q]
        BY <1>3, <1>10, <2>1 DEF Commit, ViewOK
    <2>3. CASE Goto(p, "stamp") /\ UNCHANGED <<job, call>>
        <3>1. "stamp" \in BuildStatements \ {"begin", "refresh"} /\ at[p] \in DueStatements
            BY <2>1 DEF BuildStatements, DueStatements
        <3> QED
            BY <1>1, <1>10, <2>1, <2>2, <2>3, <3>1, SeenStatement DEF Commit
    <2>4. CASE Finish(p)
        BY <1>1, <1>10, <2>2, <2>4, SeenFinish DEF Commit
    <2> QED
        BY <1>10, <2>3, <2>4 DEF Commit
<1>11. CASE Stamp(p)
    BY <1>1, <1>11, SeenFinish DEF Stamp
<1> QED
    BY <1>6, <1>7, <1>8, <1>9, <1>10, <1>11 DEF SqlStep

\* A step of the event loop that makes the call of r be c.
LEMMA SeenCall ==
    ASSUME IInv, SeenInv, OneProcess, NEW p \in Procs, NEW r \in Repos, NEW c,
           Free(p), call' = [call EXCEPT ![p][r] = c], UNCHANGED <<store, model, kg>>,
           c.step # "idle" => Agree(c.seen, db.status[r]),
           c.step = "embedding" => ~RefreshSuffices(p, c.seen, c.sha),
           \/ UNCHANGED <<at, job>>
           \/ /\ job' = [job EXCEPT ![p] = r]
              /\ \/ Goto(p, "refresh") /\ RefreshSuffices(p, c.seen, c.sha)
                 \/ /\ Goto(p, "begin") \/ Goto(p, "clearRows")
                    /\ ~RefreshSuffices(p, c.seen, c.sha)
    PROVE  SeenInv'
<1>1. /\ call' = [call EXCEPT ![p] = [call[p] EXCEPT ![r] = c]]
      /\ call[p] \in [Repos -> Calls] /\ call \in [Procs -> [Repos -> Calls]]
    BY DEF IInv, TypeOK
<1>2. call'[p][r] = c /\ \A q \in Repos \ {r} : call'[p][q] = call[p][q]
    BY <1>1
<1>3. Serving(p) /\ at[p] = "free" /\ job[p] = None
    BY DEF Free, Serving, BootStatements, SeenInv, BuildStatements, TxnStatements
<1>4. /\ at'[p] = "free" => job'[p] = None
      /\ at'[p] \in {"free", "refresh", "begin", "clearRows"}
      /\ at'[p] # "free" => job'[p] = r
      /\ at'[p] = "refresh" => RefreshSuffices(p, c.seen, c.sha)
      /\ at'[p] \in {"begin", "clearRows"} => ~RefreshSuffices(p, c.seen, c.sha)
    <2>1. at \in [Procs -> Statements] /\ job \in [Procs -> Repos \cup {None}]
        BY DEF IInv, TypeOK
    <2> QED
        BY <1>3, <2>1 DEF Goto
<1>5. Serving(p)'
    BY <1>3, <1>4 DEF Serving, Up, BootStatements
<1>6. ASSUME NEW q \in Repos PROVE SeenOK(p, q)'
    <2>1. UNCHANGED <<db, kg>> /\ q # None
        BY NoneAssumption DEF store
    <2>2. CASE q = r
        BY <1>2, <1>4, <1>5, <2>1, <2>2 DEF SeenOK, RefreshSuffices, DueStatements, TxnStatements
    <2>3. CASE q # r
        <3>1. SeenOK(p, q)
            BY DEF SeenInv
        <3> QED
            BY <1>2, <1>3, <1>4, <1>5, <2>1, <2>3, <3>1 DEF SeenOK, RefreshSuffices, DueStatements, TxnStatements
    <2> QED
        BY <2>2, <2>3
<1>7. (job[p] # None => at[p] \in BuildStatements)'
    BY <1>4 DEF BuildStatements
<1> QED
    BY <1>6, <1>7 DEF SeenInv, OneProcess

LEMMA EventLoopSeen ==
    ASSUME IInv, SeenInv, OneProcess, NEW p \in Procs, NEW r \in Repos,
           GetPage(p, r) \/ IndexRepo(p, r) \/ BuildStep(p, r)
    PROVE  SeenInv'
<1>0. /\ call[p][r] \in Calls /\ Free(p) /\ UNCHANGED <<store, model, kg>>
      /\ call[p][r].step # "idle" => Agree(call[p][r].seen, db.status[r])
    <2>1. Free(p) /\ UNCHANGED <<store, model, kg>> /\ at[p] # "stamp" /\ SeenOK(p, r)
        BY EventLoopFrame DEF Free, SeenInv
    <2> QED
        BY <2>1 DEF SeenOK, IInv, TypeOK
<1>1. CASE GetPage(p, r)
    BY <1>1, SeenKept DEF GetPage, store, process
<1>2. CASE IndexRepo(p, r)
    <2> DEFINE c == [NoCall EXCEPT !.step = "fetching", !.seen = db.status[r]]
    <2>1. c.step = "fetching" /\ Agree(c.seen, db.status[r])
        BY DEF NoCall, Agree
    <2>2. call' = [call EXCEPT ![p][r] = c] /\ UNCHANGED <<at, job>>
        BY <1>2 DEF IndexRepo, process
    <2> HIDE DEF c
    <2> QED
        BY <1>0, <2>1, <2>2, SeenCall
<1>3. CASE FetchFails(p, r) \/ EmbedFails(p, r)
    <2>1. call' = [call EXCEPT ![p][r] = NoCall] /\ UNCHANGED <<at, job>> /\ NoCall.step = "idle"
        BY <1>3 DEF FetchFails, EmbedFails, process, NoCall
    <2> QED
        BY <1>0, <2>1, SeenCall
<1>4. ASSUME NEW row, Reading(p, r, row), UNCHANGED <<at, job>> PROVE SeenInv'
    <2> DEFINE c == [call[p][r] EXCEPT !.step = "reading", !.content = row.content, !.sha = row.sha]
    <2>1. c.step = "reading" /\ Agree(c.seen, db.status[r])
        BY <1>0, <1>4 DEF Calls, Reading
    <2>2. call' = [call EXCEPT ![p][r] = c]
        BY <1>4 DEF Reading, IInv, TypeOK
    <2> HIDE DEF c
    <2> QED
        BY <1>0, <1>4, <2>1, <2>2, SeenCall
<1>5. CASE FetchCached(p, r) \/ FetchUpstream(p, r) \/ FetchShell(p, r)
    BY <1>4, <1>5 DEF FetchCached, FetchUpstream, FetchShell, FetchAnswered, process
<1>6. CASE Embedded(p, r)
    <2> DEFINE c == [call[p][r] EXCEPT !.step = "writing"]
    <2>1. c.step = "writing" /\ c.seen = call[p][r].seen /\ c.sha = call[p][r].sha
        BY <1>0 DEF Calls
    <2>2. /\ call' = [call EXCEPT ![p][r] = c] /\ Goto(p, "begin") /\ job' = [job EXCEPT ![p] = r]
          /\ call[p][r].step = "embedding"
        BY <1>6 DEF Embedded, IInv, TypeOK
    <2>3. ~RefreshSuffices(p, c.seen, c.sha)
        BY <2>1, <2>2 DEF SeenInv, SeenOK
    <2> HIDE DEF c
    <2> QED
        BY <1>0, <2>1, <2>2, <2>3, SeenCall
<1>7. CASE ReadSha(p, r)
    <2> DEFINE sha == IF page[r] = None THEN call[p][r].sha ELSE page[r].sha
               w == [call[p][r] EXCEPT !.step = "writing", !.sha = sha]
               e == [call[p][r] EXCEPT !.step = "embedding", !.sha = sha]
    <2>1. /\ w.step = "writing" /\ w.seen = call[p][r].seen /\ w.sha = sha
          /\ e.step = "embedding" /\ e.seen = call[p][r].seen /\ e.sha = sha
          /\ [w EXCEPT !.step = "embedding"] = e /\ NoCall.step = "idle"
          /\ call[p][r].step # "idle"
        BY <1>0, <1>7 DEF Calls, NoCall, ReadSha
    <2>2. \/ call' = [call EXCEPT ![p][r] = NoCall] /\ UNCHANGED <<at, job>>
          \/ /\ call' = [call EXCEPT ![p][r] = w] /\ job' = [job EXCEPT ![p] = r]
             /\ \/ Goto(p, "refresh") /\ RefreshSuffices(p, w.seen, w.sha)
                \/ Goto(p, "clearRows") /\ ~RefreshSuffices(p, w.seen, w.sha)
          \/ /\ call' = [call EXCEPT ![p][r] = e] /\ UNCHANGED <<at, job>>
             /\ ~RefreshSuffices(p, e.seen, e.sha)
        BY <1>7, <2>1 DEF ReadSha
    <2> HIDE DEF sha, w, e
    <2> QED
        BY <1>0, <2>1, <2>2, SeenCall
<1> QED
    BY <1>1, <1>2, <1>3, <1>5, <1>6, <1>7 DEF BuildStep

LEMMA NextSeen == IInv /\ SeenInv /\ OneProcess /\ [Next]_vars => SeenInv'
<1> SUFFICES ASSUME IInv, SeenInv, OneProcess, [Next]_vars PROVE SeenInv'
    OBVIOUS
<1>1. CASE UNCHANGED vars \/ \E r \in Repos : Commits(r)
    BY <1>1, SeenKept DEF vars, store, process, Commits
<1>2. ASSUME NEW r \in Repos, Expires(r) PROVE SeenInv'
    <2>1. db \in Tables /\ db.status[r] \in StatusRows
        BY <1>2 DEF Expires, IInv, TypeOK, Tables
    <2>2. db'.status = [db.status EXCEPT ![r] = [db.status[r] EXCEPT !.fresh = FALSE]]
        BY <1>2, <2>1 DEF Expires, Tables
    <2>3. [db.status[r] EXCEPT !.fresh = FALSE] # None /\ db.status[r] # None
        <3>1. [db.status[r] EXCEPT !.fresh = FALSE] \in StatusRows
            BY <2>1 DEF StatusRows
        <3> QED
            BY <2>1, <3>1, NoneAssumption
    <2>4. \A p \in Procs, q \in Repos : Agree(call[p][q].seen, db.status[q]) => Agree(call[p][q].seen, db'.status[q])
        BY <2>1, <2>2, <2>3 DEF Agree, Tables, StatusRows
    <2> QED
        BY <1>2, <2>4, SeenKept DEF Expires, process
<1>3. ASSUME NEW p \in Procs, Crash(p) PROVE SeenInv'
    BY <1>3, SeenIdle DEF Crash, NoCall, IInv, TypeOK
<1>4. ASSUME NEW p \in Procs, Start(p) \/ Boot(p) PROVE SeenInv'
    <2>1. ~Serving(p) /\ UNCHANGED <<job, call>>
        BY <1>4 DEF Start, Boot, ListRepos, DropAll, Restamp, Serving, BootStatements
    <2>2. job[p] = None
        BY <1>4 DEF IInv, ProcOK, Control, Start, Boot, ListRepos, DropAll, Restamp, SeenInv,
            BuildStatements, TxnStatements
    <2>3. \A r \in Repos : call[p][r].step = "idle"
        BY <2>1 DEF SeenInv, SeenOK
    <2> QED
        BY <2>1, <2>2, <2>3, SeenIdle
<1>5. ASSUME NEW p \in Procs, Throws(p) PROVE SeenInv'
    BY <1>5, SeenFinish DEF Throws, SeenInv
<1>6. ASSUME NEW p \in Procs, NEW r \in Repos, GetPage(p, r) \/ IndexRepo(p, r) \/ BuildStep(p, r)
      PROVE  SeenInv'
    BY <1>6, EventLoopSeen
<1>7. ASSUME NEW p \in Procs, SqlStep(p) PROVE SeenInv'
    BY <1>7, SqlStepSeen
<1> QED
    BY <1>1, <1>2, <1>3, <1>4, <1>5, <1>6, <1>7 DEF Next

\* While one process uses the cache, chunks of the SHA that upstream still has are
\* embedded anew only to build the graph beside them: the status row read before the
\* first await is not stale at the BEGIN, whatever ran in between.
THEOREM IndexerNoReembed ==
    ASSUME OneProcess
    PROVE  Spec => NoReembed
<1> DEFINE Due == \A p \in Procs, r \in Repos :
               (at[p] = "begin" /\ at'[p] = "dropRows" /\ job[p] = r) =>
                   \/ db.status[r] = None
                   \/ db.status[r].sha # call[p][r].sha
                   \/ db.status[r].edges < 0
<1>1. Init => IInv /\ SeenInv
    BY InitIInv, InitSeen
<1>2. IInv /\ SeenInv /\ [Next]_vars => IInv' /\ SeenInv'
    BY NextIInv, NextSeen
<1>3. IInv /\ SeenInv => Due
    <2> SUFFICES ASSUME IInv, SeenInv, NEW p \in Procs, NEW r \in Repos, at[p] = "begin", job[p] = r
                 PROVE  \/ db.status[r] = None
                        \/ db.status[r].sha # call[p][r].sha
                        \/ db.status[r].edges < 0
        OBVIOUS
    <2>1. call[p][r].step = "writing"
        BY DEF IInv, ProcOK, Control, BuildStatements
    <2>2. SeenOK(p, r)
        BY DEF SeenInv
    <2> QED
        BY <2>1, <2>2 DEF SeenOK, RefreshSuffices, Agree, DueStatements
<1>4. IInv /\ SeenInv /\ [Next]_vars => [Due]_vars
    BY <1>3
<1>5. Spec => [][Due]_vars
    BY <1>1, <1>2, <1>4, PTL DEF Spec
<1> QED
    BY <1>5 DEF NoReembed

-----------------------------------------------------------------------------
(* Versions only move forward                                              *)

\* The SHA of a status row, if there is one, is at most v.
AtMost(s, v) == s # None => s.sha <= v

\* What the pages table and the builds know of a version is at most what upstream
\* serves and, where they know one, at least what the index shows.
PageOK(r) ==
    /\ AtMost(db.status[r], upstream[r])
    /\ page[r] # None => /\ page[r].sha <= upstream[r]
                         /\ page[r].sha # 0 => AtMost(db.status[r], page[r].sha)

FlowOK(p, r) ==
    LET c == call[p][r]
    IN  c.step \in {"reading", "embedding", "writing"} =>
            /\ c.sha <= upstream[r]
            /\ c.sha # 0 => AtMost(db.status[r], c.sha)
            /\ page[r] # None /\ page[r].sha # 0 => c.sha <= page[r].sha

Flow ==
    /\ \A r \in Repos : PageOK(r)
    /\ \A p \in Procs, r \in Repos : FlowOK(p, r)

\* A status row of a later state names the SHA of the earlier one, or of a build.
FromBuild(r) ==
    \/ db'.status[r] = None
    \/ db.status[r] # None /\ db'.status[r].sha = db.status[r].sha
    \/ \E p \in Procs : call[p][r].step = "writing" /\ db'.status[r].sha = call[p][r].sha

\* A step that fetches nothing.
LEMMA FlowKept ==
    ASSUME IInv, Flow, OneProcess, UNCHANGED <<page, upstream>>,
           \A r \in Repos : FromBuild(r),
           \A p \in Procs, r \in Repos : call'[p][r] \in {call[p][r], NoCall}
    PROVE  Flow'
<1>1. ASSUME NEW r \in Repos PROVE PageOK(r)'
    <2>1. PageOK(r) /\ \A p \in Procs : FlowOK(p, r)
        BY DEF Flow
    <2>2. \A p \in Procs : call[p][r].step = "writing" => call[p][r].sha \in Versions
        BY DEF IInv, ProcOK, Control, CallData
    <2>3. \A p \in Procs : call[p][r].step = "writing" => call[p][r].sha # 0
        BY <2>2 DEF Versions
    <2> QED
        BY <2>1, <2>3 DEF PageOK, FlowOK, AtMost, FromBuild
<1>2. ASSUME NEW p \in Procs, NEW r \in Repos PROVE FlowOK(p, r)'
    <2>1. FlowOK(p, r) /\ FromBuild(r) /\ \A q \in Procs : q = p
        BY DEF Flow, OneProcess
    <2>2. CASE call'[p][r] = NoCall
        BY <2>2 DEF FlowOK, NoCall
    <2>3. CASE call'[p][r] = call[p][r]
        <3>1. db'.status[r] # None => \/ db.status[r] # None /\ db'.status[r].sha = db.status[r].sha
                                      \/ call[p][r].step = "writing" /\ db'.status[r].sha = call[p][r].sha
            BY <2>1 DEF FromBuild
        <3>2. call[p][r].step = "writing" => call[p][r].sha <= call[p][r].sha
            <4>1. call[p][r].step = "writing" => call[p][r].sha \in Versions
                BY DEF IInv, ProcOK, Control, CallData
            <4> QED
                BY <4>1 DEF Versions
        <3> QED
            BY <2>1, <2>3, <3>1, <3>2 DEF FlowOK, AtMost
    <2> QED
        BY <2>2, <2>3
<1> QED
    BY <1>1, <1>2 DEF Flow

\* What is fetched is stored under the SHA upstream serves, under the one the row had,
\* or under none.
LEMMA FetchedSha ==
    ASSUME NEW row \in PageRows \cup {None}, NEW u \in Versions, NEW v \in {u} \cup Shells
    PROVE  /\ Fetched(row, v) \in PageRows
           /\ Fetched(row, v).sha \in {0, u} \/ (row # None /\ Fetched(row, v).sha = row.sha)
<1>1. v \in Contents /\ (v \notin Unstamped => v = u) /\ 0 \in Contents
    BY VersionsAssumption DEF Versions, Contents
<1>2. row # None => row \in PageRows /\ row.sha \in Contents
    BY DEF PageRows
<1> QED
    BY <1>1, <1>2 DEF Fetched, PageRows

\* A step of the event loop that makes the call of r be c and the page of r be row.
LEMMA FlowCall ==
    ASSUME IInv, Flow, OneProcess, NEW p \in Procs, NEW r \in Repos, NEW c, NEW row,
           call' = [call EXCEPT ![p][r] = c], page' = [page EXCEPT ![r] = row],
           UNCHANGED <<upstream, db>>,
           row # None => /\ row.sha <= upstream[r]
                         /\ row.sha # 0 => AtMost(db.status[r], row.sha),
           c.step \in {"reading", "embedding", "writing"} =>
               /\ c.sha <= upstream[r]
               /\ c.sha # 0 => AtMost(db.status[r], c.sha)
               /\ row # None /\ row.sha # 0 => c.sha <= row.sha
    PROVE  Flow'
<1>1. /\ call' = [call EXCEPT ![p] = [call[p] EXCEPT ![r] = c]]
      /\ call[p] \in [Repos -> Calls] /\ call \in [Procs -> [Repos -> Calls]]
      /\ page \in [Repos -> PageRows \cup {None}]
    BY DEF IInv, TypeOK
<1>2. /\ call'[p][r] = c /\ \A q \in Repos \ {r} : call'[p][q] = call[p][q]
      /\ page'[r] = row /\ \A q \in Repos \ {r} : page'[q] = page[q]
    BY <1>1
<1>3. ASSUME NEW q \in Repos PROVE PageOK(q)' /\ FlowOK(p, q)'
    <2>1. PageOK(q) /\ FlowOK(p, q)
        BY DEF Flow
    <2>2. CASE q = r
        BY <1>2, <2>1, <2>2 DEF PageOK, FlowOK, AtMost
    <2>3. CASE q # r
        BY <1>2, <2>1, <2>3 DEF PageOK, FlowOK, AtMost
    <2> QED
        BY <2>2, <2>3
<1> QED
    BY <1>3 DEF Flow, OneProcess

\* Fetching moves a page to what upstream serves, which is not behind the index.
LEMMA EventLoopFlow ==
    ASSUME IInv, Flow, OneProcess, NEW p \in Procs, NEW r \in Repos,
           GetPage(p, r) \/ IndexRepo(p, r) \/ BuildStep(p, r)
    PROVE  Flow'
<1> DEFINE c0 == call[p][r]
           Behind(c) == /\ c.sha <= upstream[r]
                        /\ c.sha # 0 => AtMost(db.status[r], c.sha)
<1>0. /\ UNCHANGED <<upstream, db>>
      /\ c0 \in Calls /\ call \in [Procs -> [Repos -> Calls]]
      /\ CallData(c0) /\ FlowOK(p, r)
      /\ page \in [Repos -> PageRows \cup {None}] /\ upstream[r] \in Versions
      /\ AtMost(db.status[r], upstream[r])
    BY EventLoopFrame DEF store, IInv, TypeOK, Flow, PageOK, ProcOK, Control
<1>1. /\ page[r] # None => Behind(page[r]) /\ page[r] \in PageRows
      /\ page = [page EXCEPT ![r] = page[r]] /\ call = [call EXCEPT ![p][r] = c0]
    BY <1>0 DEF PageOK, Flow
<1>2. c0.step \in {"reading", "embedding", "writing"} =>
          /\ Behind(c0)
          /\ page[r] # None /\ page[r].sha # 0 => c0.sha <= page[r].sha
    BY <1>0 DEF FlowOK
<1>3. /\ \A x \in PageRows : x.sha \in Nat /\ x.sha <= x.sha
      /\ upstream[r] \in Nat /\ upstream[r] <= upstream[r] /\ 0 <= upstream[r]
    BY <1>0 DEF PageRows, Contents, Versions
<1>4. ASSUME NEW v \in {upstream[r]} \cup Shells
      PROVE  LET new == Fetched(page[r], v)
             IN  /\ new \in PageRows /\ new # None /\ Behind(new)
                 /\ c0.step \in {"embedding", "writing"} /\ new.sha # 0 => c0.sha <= new.sha
    <2> DEFINE new == Fetched(page[r], v)
    <2>1. /\ new \in PageRows
          /\ new.sha \in {0, upstream[r]} \/ (page[r] # None /\ new.sha = page[r].sha)
        BY <1>0, FetchedSha
    <2> HIDE DEF new
    <2>2. new # None
        BY <2>1, NoneAssumption
    <2>3. new.sha # 0 => \/ new.sha = upstream[r]
                         \/ page[r] # None /\ new.sha = page[r].sha
        BY <2>1
    <2>4. Behind(new)
        BY <1>0, <1>1, <1>3, <2>1
    <2>5. c0.step \in {"embedding", "writing"} /\ new.sha # 0 => c0.sha <= new.sha
        BY <1>2, <2>3
    <2>6. /\ new \in PageRows /\ new # None /\ Behind(new)
          /\ c0.step \in {"embedding", "writing"} /\ new.sha # 0 => c0.sha <= new.sha
        BY <2>1, <2>2, <2>4, <2>5
    <2> QED
        BY <2>6 DEF new
<1>5. ASSUME NEW c, NEW row \in PageRows \cup {None},
             call' = [call EXCEPT ![p][r] = c], page' = [page EXCEPT ![r] = row],
             row # None => Behind(row),
             c.step \in {"reading", "embedding", "writing"} =>
                 Behind(c) /\ (row # None /\ row.sha # 0 => c.sha <= row.sha)
      PROVE  Flow'
    BY <1>0, <1>5, FlowCall
<1> HIDE DEF Behind
<1>6. CASE GetPage(p, r)
    <2>1. PICK v \in {upstream[r]} \cup Shells : page' = [page EXCEPT ![r] = Fetched(page[r], v)]
        BY <1>6 DEF GetPage
    <2>2. call' = call /\ c0.step # "reading"
        BY <1>6 DEF GetPage
    <2> HIDE DEF c0
    <2> DEFINE new == Fetched(page[r], v)
    <2>3. /\ new \in PageRows /\ new # None /\ Behind(new)
          /\ c0.step \in {"embedding", "writing"} /\ new.sha # 0 => c0.sha <= new.sha
        BY <1>4
    <2> HIDE DEF new
    <2>4. page' = [page EXCEPT ![r] = new] /\ call' = [call EXCEPT ![p][r] = c0]
        BY <1>1, <2>1, <2>2 DEF new
    <2> QED
        BY <1>2, <1>5, <2>2, <2>3, <2>4
<1>7. CASE IndexRepo(p, r) \/ FetchFails(p, r) \/ EmbedFails(p, r)
    <2>1. PICK c : /\ call' = [call EXCEPT ![p][r] = c] /\ c.step \in {"idle", "fetching"}
                   /\ page' = page \/ page' = [page EXCEPT ![r] = None]
        <3>1. NoCall.step = "idle" /\ \A s : [NoCall EXCEPT !.step = "fetching", !.seen = s].step = "fetching"
            BY DEF NoCall
        <3> QED
            BY <1>7, <3>1 DEF IndexRepo, FetchFails, EmbedFails
    <2>2. PICK row \in {page[r], None} : page' = [page EXCEPT ![r] = row]
        BY <1>1, <2>1
    <2> QED
        BY <1>0, <1>1, <1>5, <2>1, <2>2
<1>8. ASSUME NEW row \in PageRows, Behind(row), page' = [page EXCEPT ![r] = row], Reading(p, r, row)
      PROVE  Flow'
    <2> DEFINE c == [c0 EXCEPT !.step = "reading", !.content = row.content, !.sha = row.sha]
    <2>1. c.sha = row.sha
        BY <1>0 DEF Calls
    <2>2. call' = [call EXCEPT ![p][r] = c]
        BY <1>8 DEF Reading, IInv, TypeOK
    <2> HIDE DEF c
    <2>3. Behind(c) /\ c.sha <= row.sha
        BY <1>3, <1>8, <2>1 DEF Behind
    <2> QED
        BY <1>5, <1>8, <2>2, <2>3
<1>9. CASE FetchCached(p, r)
    <2>1. page[r] # None /\ Reading(p, r, page[r]) /\ page' = page
        BY <1>9 DEF FetchCached
    <2> QED
        BY <1>1, <1>8, <2>1
<1>10. CASE FetchUpstream(p, r) \/ FetchShell(p, r)
    <2>1. PICK v \in {upstream[r]} \cup Shells : FetchAnswered(p, r, v)
        BY <1>10 DEF FetchUpstream, FetchShell
    <2> DEFINE new == Fetched(page[r], v)
    <2>2. page' = [page EXCEPT ![r] = new] /\ Reading(p, r, page'[r])
        BY <2>1 DEF FetchAnswered
    <2>3. new \in PageRows /\ Behind(new)
        BY <1>4
    <2> HIDE DEF new
    <2>4. page'[r] = new
        BY <1>0, <2>2
    <2> QED
        BY <1>8, <2>2, <2>3, <2>4
<1>11. CASE Embedded(p, r)
    <2> DEFINE c == [c0 EXCEPT !.step = "writing"]
    <2>1. c.sha = c0.sha
        BY <1>0 DEF Calls
    <2>2. /\ call' = [call EXCEPT ![p][r] = c] /\ page' = page /\ c0.step = "embedding"
        BY <1>11 DEF Embedded, IInv, TypeOK
    <2> HIDE DEF c
    <2>3. Behind(c) /\ (page[r] # None /\ page[r].sha # 0 => c.sha <= page[r].sha)
        BY <1>2, <2>1, <2>2 DEF Behind
    <2> QED
        BY <1>0, <1>1, <1>5, <2>2, <2>3
<1>12. CASE ReadSha(p, r)
    <2> DEFINE sha == IF page[r] = None THEN c0.sha ELSE page[r].sha
               w == [c0 EXCEPT !.step = "writing", !.sha = sha]
               e == [c0 EXCEPT !.step = "embedding", !.sha = sha]
    <2>1. /\ w.sha = sha /\ e.sha = sha
          /\ [w EXCEPT !.step = "embedding"] = e /\ NoCall.step = "idle"
        BY <1>0 DEF Calls, NoCall
    <2>2. /\ call' = [call EXCEPT ![p][r] = NoCall] \/ call' = [call EXCEPT ![p][r] = w]
             \/ call' = [call EXCEPT ![p][r] = e]
          /\ page' = page /\ c0.step = "reading"
        BY <1>12, <2>1 DEF ReadSha
    <2>3. /\ sha <= upstream[r]
          /\ sha # 0 => AtMost(db.status[r], sha)
          /\ page[r] # None /\ page[r].sha # 0 => sha <= page[r].sha
        BY <1>1, <1>2, <1>3, <2>2 DEF Behind
    <2> HIDE DEF sha, w, e
    <2>4. PICK c \in {NoCall, w, e} : call' = [call EXCEPT ![p][r] = c]
        BY <2>2
    <2>5. c.step \in {"reading", "embedding", "writing"} =>
              Behind(c) /\ (page[r] # None /\ page[r].sha # 0 => c.sha <= page[r].sha)
        BY <2>1, <2>3, <2>4 DEF Behind
    <2> QED
        BY <1>0, <1>1, <1>5, <2>2, <2>4, <2>5
<1> QED
    BY <1>6, <1>7, <1>9, <1>10, <1>11, <1>12 DEF BuildStep

LEMMA CommitsFlow == ASSUME IInv, Flow, NEW r \in Repos, Commits(r) PROVE Flow'
<1>1. /\ upstream \in [Repos -> Versions]
      /\ upstream' = [upstream EXCEPT ![r] = @ + 1]
      /\ UNCHANGED <<page, db, call>>
    BY DEF Commits, store, process, IInv, TypeOK
<1>2. ASSUME NEW q \in Repos, NEW v \in Int, v <= upstream[q] PROVE v <= upstream'[q]
    BY <1>1, <1>2 DEF Versions
<1>3. \A q \in Repos : db.status[q] # None => db.status[q].sha \in Int
    BY DEF IInv, TypeOK, Tables, StatusRows, Versions
<1>4. \A q \in Repos : page[q] # None => page[q].sha \in Int
    BY DEF IInv, TypeOK, PageRows, Contents
<1>5. ASSUME NEW q \in Repos PROVE PageOK(q)'
    <2>1. PageOK(q)
        BY DEF Flow
    <2> QED
        BY <1>1, <1>2, <1>3, <1>4, <2>1 DEF PageOK, AtMost
<1>6. ASSUME NEW p \in Procs, NEW q \in Repos PROVE FlowOK(p, q)'
    <2>1. FlowOK(p, q) /\ CallData(call[p][q])
        BY DEF Flow, IInv, ProcOK, Control
    <2>2. call[p][q].step \in {"reading", "embedding", "writing"} => call[p][q].sha \in Int
        BY <2>1 DEF CallData, Contents
    <2> QED
        BY <1>1, <1>2, <2>1, <2>2 DEF FlowOK
<1> QED
    BY <1>1, <1>5, <1>6 DEF Flow

\* The calls after a step that fetches nothing.
LEMMA StepCalls ==
    ASSUME IInv, NEW p \in Procs,
           Start(p) \/ Crash(p) \/ Throws(p) \/ Boot(p) \/ SqlStep(p)
    PROVE  /\ UNCHANGED <<page, upstream>>
           /\ \A r \in Repos : call'[p][r] \in {call[p][r], NoCall}
<1>1. call \in [Procs -> [Repos -> Calls]]
    BY DEF IInv, TypeOK
<1>2. Finish(p) => \A r \in Repos : call'[p][r] \in {call[p][r], NoCall}
    BY <1>1 DEF Finish
<1>3. CASE Start(p) \/ Crash(p) \/ Throws(p) \/ Boot(p)
    BY <1>1, <1>2, <1>3 DEF Start, Crash, Throws, Boot, ListRepos, DropAll, Restamp
<1>4. CASE SqlStep(p)
    BY <1>1, <1>2, <1>4 DEF SqlStep, Refresh, Begin, DropRows, PutRows, DropEdges, PutEdges,
       PutStatus, Commit, Stamp, ClearRows, ClearEdges, ClearStatus, Statement
<1> QED
    BY <1>3, <1>4

-----------------------------------------------------------------------------
(* The parts of an index agree                                             *)

\* The chunks and the edges that a build of p puts.
NewRow(p) ==
    LET c == call[p][job[p]]
    IN  IF ChunksOf[c.content] = 0 THEN None
        ELSE [content |-> c.content, sha |-> c.sha, model |-> model[p]]

NewEdges(p) ==
    LET c == call[p][job[p]]
    IN  IF EdgesOf[c.content] = 0 THEN None ELSE [content |-> c.content, sha |-> c.sha]

NewStatus(p) ==
    LET c == call[p][job[p]]
    IN  [sha |-> c.sha, chunks |-> ChunksOf[c.content], edges |-> EdgeCount(p, c), fresh |-> TRUE]

\* A transaction has replaced the parts of its repository up to its statement s, and
\* left the graph if graphs are disabled.
Replaced(p, d, s) ==
    LET r == job[p]
    IN  /\ \A q \in Repos \ {r} : /\ d.rows[q] = db.rows[q] /\ d.status[q] = db.status[q]
                                  /\ d.edges[q] = db.edges[q]
        /\ s = "putRows" => d.rows[r] = None
        /\ s \in {"dropEdges", "putEdges", "putStatus", "commit"} => d.rows[r] = NewRow(p)
        /\ s \in {"dropEdges", "putEdges"} => kg[p]
        /\ s = "putEdges" => d.edges[r] = None
        /\ kg[p] /\ s \in {"putStatus", "commit"} => d.edges[r] = NewEdges(p)
        /\ ~kg[p] => d.edges[r] = db.edges[r]
        /\ s = "commit" => d.status[r] = NewStatus(p)

\* What an emptying build has already removed.
Emptied(p) ==
    /\ at[p] \in {"clearEdges", "clearStatus"} => db.rows[job[p]] = None
    /\ at[p] = "clearStatus" /\ kg[p] => db.edges[job[p]] = None

AgreeInv ==
    /\ \A r \in Repos : Agrees(r)
    /\ \A p \in Procs : Emptied(p) /\ (txn[p] # None => Replaced(p, txn[p], at[p]))

\* Nobody but a build in its transaction changes what the transaction sees.
LEMMA ReplacedKept ==
    ASSUME NEW p \in Procs, txn[p] # None, Replaced(p, txn[p], at[p]),
           UNCHANGED <<db, model, kg, job, call, at, txn>>
    PROVE  Replaced(p, txn[p], at[p])'
    BY DEF Replaced, NewRow, NewEdges, NewStatus, EdgeCount

\* The statements of a transaction replace the parts of its repository one by one.
LEMMA StatementReplaces ==
    ASSUME IInv, AgreeInv, NEW p \in Procs, SqlStep(p), at[p] \in TxnStatements, at[p] # "commit"
    PROVE  Replaced(p, txn[p], at[p])'
<1> DEFINE c == Build(p)
           v == txn[p]
<1>0. /\ at[p] \in BuildStatements /\ v # None /\ View(p) = v
      /\ Replaced(p, v, at[p]) /\ model[p] \in Models
      /\ c.content \in Contents /\ c.sha \in Versions /\ c = call[p][job[p]]
      /\ c.seen \in StatusRows \cup {None}
    BY AtTxn, AtStatement DEF AgreeInv, Build
<1>00. v \in Tables /\ job[p] \in Repos
    BY AtTxn, AtStatement
<1> HIDE DEF c, v
<1>2. ASSUME NEW d, NEW s, Statement(p, d, s), Replaced(p, d, s) PROVE Replaced(p, txn[p], at[p])'
    <2>1. /\ txn'[p] = d /\ at'[p] = s /\ UNCHANGED <<db, model, kg, job, call>>
        BY <1>0, <1>2 DEF Statement, Write, Goto, IInv, TypeOK, v
    <2> QED
        BY <1>2, <2>1 DEF Replaced, NewRow, NewEdges, NewStatus, EdgeCount
<1>3. CASE DropRows(p)
    <2> DEFINE d == [v EXCEPT !.rows[job[p]] = None]
    <2>0. None \in ChunkRows \cup {None}
        OBVIOUS
    <2>1. /\ d.status = v.status /\ d.edges = v.edges /\ d.rows[job[p]] = None
          /\ \A q \in Repos \ {job[p]} : d.rows[q] = v.rows[q]
        BY <1>00, <2>0, SetRowsType
    <2>2. Statement(p, d, "putRows")
        BY <1>0, <1>3 DEF DropRows
    <2> HIDE DEF d
    <2>3. Replaced(p, d, "putRows")
        BY <1>0, <2>1 DEF Replaced
    <2> QED
        BY <1>2, <2>2, <2>3
<1>4. CASE PutRows(p)
    <2> DEFINE row == [content |-> c.content, sha |-> c.sha, model |-> model[p]]
               d == IF ChunksOf[c.content] = 0 THEN v ELSE [v EXCEPT !.rows[job[p]] = row]
               s == IF kg[p] THEN "dropEdges" ELSE "putStatus"
    <2>1. row \in ChunkRows
        BY <1>0 DEF ChunkRows
    <2>2. Statement(p, d, s) /\ at[p] = "putRows"
        BY <1>0, <1>4 DEF PutRows, c
    <2>3. NewRow(p) = IF ChunksOf[c.content] = 0 THEN None ELSE row
        BY <1>0 DEF NewRow
    <2> HIDE DEF row
    <2>4. v.rows[job[p]] = None
        BY <1>0, <2>2 DEF Replaced
    <2>5. /\ d.status = v.status /\ d.edges = v.edges /\ d.rows[job[p]] = NewRow(p)
          /\ \A q \in Repos \ {job[p]} : d.rows[q] = v.rows[q]
        <3>1. CASE ChunksOf[c.content] = 0
            BY <2>3, <2>4, <3>1
        <3>2. CASE ChunksOf[c.content] # 0
            <4> DEFINE u == [v EXCEPT !.rows[job[p]] = row]
            <4>1. /\ u \in Tables /\ u.status = v.status /\ u.edges = v.edges /\ u.rows[job[p]] = row
                  /\ \A q \in Repos \ {job[p]} : u.rows[q] = v.rows[q]
                BY <1>00, <2>1, SetRowsType
            <4> HIDE DEF u
            <4>2. d = u
                BY <3>2 DEF u
            <4> QED
                BY <2>3, <3>2, <4>1, <4>2
        <3> QED
            BY <3>1, <3>2
    <2> HIDE DEF d
    <2>6. Replaced(p, d, s)
        BY <1>0, <2>5 DEF Replaced
    <2> HIDE DEF s
    <2> QED
        BY <1>2, <2>2, <2>6
<1>5. CASE DropEdges(p)
    <2> DEFINE d == [v EXCEPT !.edges[job[p]] = None]
    <2>0. None \in EdgeRows \cup {None}
        OBVIOUS
    <2>1. /\ d.status = v.status /\ d.rows = v.rows /\ d.edges[job[p]] = None
          /\ \A q \in Repos \ {job[p]} : d.edges[q] = v.edges[q]
        BY <1>00, <2>0, SetEdgesType
    <2>2. Statement(p, d, "putEdges") /\ at[p] = "dropEdges"
        BY <1>0, <1>5 DEF DropEdges
    <2> HIDE DEF d
    <2>3. Replaced(p, d, "putEdges")
        BY <1>0, <2>1, <2>2 DEF Replaced
    <2> QED
        BY <1>2, <2>2, <2>3
<1>6. CASE PutEdges(p)
    <2> DEFINE row == [content |-> c.content, sha |-> c.sha]
               d == IF EdgesOf[c.content] = 0 THEN v ELSE [v EXCEPT !.edges[job[p]] = row]
    <2>1. row \in EdgeRows
        BY <1>0 DEF EdgeRows
    <2>2. Statement(p, d, "putStatus") /\ at[p] = "putEdges"
        BY <1>0, <1>6 DEF PutEdges, c
    <2>3. NewEdges(p) = IF EdgesOf[c.content] = 0 THEN None ELSE row
        BY <1>0 DEF NewEdges
    <2> HIDE DEF row
    <2>4. v.edges[job[p]] = None /\ kg[p]
        BY <1>0, <2>2 DEF Replaced
    <2>5. /\ d.status = v.status /\ d.rows = v.rows /\ d.edges[job[p]] = NewEdges(p)
          /\ \A q \in Repos \ {job[p]} : d.edges[q] = v.edges[q]
        <3>1. CASE EdgesOf[c.content] = 0
            BY <2>3, <2>4, <3>1
        <3>2. CASE EdgesOf[c.content] # 0
            <4> DEFINE u == [v EXCEPT !.edges[job[p]] = row]
            <4>1. /\ u \in Tables /\ u.status = v.status /\ u.rows = v.rows /\ u.edges[job[p]] = row
                  /\ \A q \in Repos \ {job[p]} : u.edges[q] = v.edges[q]
                BY <1>00, <2>1, SetEdgesType
            <4> HIDE DEF u
            <4>2. d = u
                BY <3>2 DEF u
            <4> QED
                BY <2>3, <3>2, <4>1, <4>2
        <3> QED
            BY <3>1, <3>2
    <2> HIDE DEF d
    <2>6. Replaced(p, d, "putStatus")
        BY <1>0, <2>2, <2>4, <2>5 DEF Replaced
    <2> QED
        BY <1>2, <2>2, <2>6
<1>7. CASE PutStatus(p)
    <2> DEFINE n == ChunksOf[c.content]
               e == EdgeCount(p, c)
               d == SetStatus(v, job[p], c.sha, n, e)
    <2>1. n \in Nat /\ e \in Int
        <3>1. n \in Nat /\ EdgesOf[c.content] \in Nat
            BY <1>0, VersionsAssumption
        <3>2. c.seen # None => c.seen.edges \in Int
            BY <1>0 DEF StatusRows
        <3> QED
            BY <3>1, <3>2 DEF EdgeCount
    <2>2. Statement(p, d, "commit") /\ at[p] = "putStatus"
        BY <1>0, <1>7 DEF PutStatus, c
    <2>3. NewStatus(p) = [sha |-> c.sha, chunks |-> n, edges |-> e, fresh |-> TRUE]
        BY <1>0 DEF NewStatus
    <2> HIDE DEF n, e
    <2>4. /\ d.rows = v.rows /\ d.edges = v.edges /\ d.status[job[p]] = NewStatus(p)
          /\ \A q \in Repos \ {job[p]} : d.status[q] = v.status[q]
        BY <1>0, <1>00, <2>1, <2>3, SetStatusType
    <2> HIDE DEF d
    <2>5. Replaced(p, d, "commit")
        BY <1>0, <2>2, <2>4 DEF Replaced
    <2> QED
        BY <1>2, <2>2, <2>5
<1> QED
    BY <1>3, <1>4, <1>5, <1>6, <1>7 DEF SqlStep, TxnStatements, Refresh, Begin, Commit, Stamp,
       ClearRows, ClearEdges, ClearStatus

LEMMA NextReplaced ==
    ASSUME IInv, AgreeInv, OneProcess, [Next]_vars, NEW p \in Procs, txn'[p] # None
    PROVE  Replaced(p, txn[p], at[p])'
<1>1. ASSUME UNCHANGED <<db, model, kg, job, call, at, txn>> PROVE Replaced(p, txn[p], at[p])'
    BY <1>1, ReplacedKept DEF AgreeInv
<1>2. txn \in [Procs -> Tables \cup {None}] /\ at \in [Procs -> Statements]
      /\ (txn[p] # None <=> at[p] \in TxnStatements) /\ (~Up(p) => at[p] = "free")
      /\ \A q \in Procs : q = p
    BY DEF IInv, TypeOK, ProcOK, Control, OneProcess
<1>3. CASE UNCHANGED vars \/ \E r \in Repos : Commits(r)
    BY <1>1, <1>3 DEF vars, store, process, Commits
<1>4. CASE \E r \in Repos : Expires(r)
    BY <1>4 DEF Expires
<1>5. CASE Start(p) \/ Crash(p) \/ Throws(p)
    BY <1>2, <1>5 DEF Start, Crash, Throws, TxnStatements
<1>6. CASE Boot(p)
    BY <1>2, <1>6 DEF Boot, ListRepos, DropAll, Restamp, Write, store, TxnStatements
<1>7. CASE \E r \in Repos : GetPage(p, r) \/ IndexRepo(p, r) \/ BuildStep(p, r)
    <2>1. Free(p) /\ UNCHANGED txn
        BY <1>7, EventLoopFrame DEF store
    <2> QED
        BY <1>2, <2>1 DEF Free, TxnStatements
<1>8. CASE SqlStep(p) /\ at[p] \in TxnStatements /\ at[p] # "commit"
    BY <1>8, StatementReplaces
<1>9. CASE SqlStep(p) /\ at[p] = "commit"
    <2>1. Commit(p)
        BY <1>9 DEF SqlStep, Refresh, Begin, DropRows, PutRows, DropEdges, PutEdges, PutStatus, Stamp,
            ClearRows, ClearEdges, ClearStatus
    <2> QED
        BY <1>2, <2>1 DEF Commit, TxnStatements
<1>10. CASE SqlStep(p) /\ at[p] \notin TxnStatements
    <2>1. CASE Begin(p)
        <3>1. txn'[p] = db /\ at'[p] = "dropRows" /\ db' = db
            BY <1>2, <2>1 DEF Begin, Goto
        <3> QED
            BY <3>1 DEF Replaced
    <2>2. CASE ~Begin(p)
        BY <1>2, <1>10, <2>2 DEF SqlStep, TxnStatements, Refresh, DropRows, PutRows, DropEdges, PutEdges,
            PutStatus, Commit, Stamp, ClearRows, ClearEdges, ClearStatus, Statement, Write
    <2> QED
        BY <2>1, <2>2
<1> QED
    BY <1>2, <1>3, <1>4, <1>5, <1>6, <1>7, <1>8, <1>9, <1>10 DEF Next

\* A step that readers of r do not notice.
SameEntry(r) ==
    /\ db'.rows[r] = db.rows[r] /\ db'.edges[r] = db.edges[r]
    /\ Agree(db.status[r], db'.status[r])
    /\ TakenFor(r)' = TakenFor(r)

SameModels == UNCHANGED <<fingerprint, strays>>

\* What a COMMIT brings, and what it was decided by.
LEMMA CommitTables ==
    ASSUME IInv, SeenInv, AgreeInv, NEW p \in Procs, Commit(p)
    PROVE  LET r == job[p]
               c == call[p][r]
           IN  /\ r \in Repos /\ c.step = "writing" /\ c.sha \in Versions /\ c.content \in Contents
               /\ Agree(c.seen, db.status[r]) /\ ~RefreshSuffices(p, c.seen, c.sha)
               /\ db'.status[r] = NewStatus(p) /\ db'.status[r] # None
               /\ db'.rows[r] = NewRow(p)
               /\ db'.edges[r] = IF kg[p] THEN NewEdges(p) ELSE db.edges[r]
               /\ \A q \in Repos \ {r} : SameEntry(q)
               /\ fingerprint' = fingerprint /\ (fingerprint # None => r \notin strays')
<1>1. /\ at[p] = "commit" /\ at[p] \in TxnStatements /\ at[p] \in BuildStatements
      /\ at[p] \in DueStatements
    BY DEF Commit, TxnStatements, BuildStatements, DueStatements
<1>2. /\ job[p] \in Repos /\ Build(p).step = "writing" /\ Build(p).sha \in Versions
      /\ Build(p).content \in Contents /\ txn[p] # None /\ txn[p] \in Tables
    BY <1>1, AtStatement, AtTxn DEF IInv, ProcOK, Control, Build
<1>3. db' = txn[p] /\ Replaced(p, txn[p], "commit")
    BY <1>1, <1>2 DEF Commit, AgreeInv
<1>4. Agree(Build(p).seen, db.status[job[p]]) /\ ~RefreshSuffices(p, Build(p).seen, Build(p).sha)
    <2>1. SeenOK(p, job[p])
        BY <1>2 DEF SeenInv
    <2> QED
        BY <1>1, <1>2, <2>1 DEF SeenOK, Build
<1>5. NewStatus(p) # None
    <2>1. ChunksOf[Build(p).content] \in Nat /\ EdgesOf[Build(p).content] \in Int
        BY <1>2, VersionsAssumption
    <2>2. Build(p).seen # None => Build(p).seen.edges \in Int
        BY <1>1, AtStatement DEF StatusRows
    <2>3. NewStatus(p) \in StatusRows
        BY <1>2, <2>1, <2>2 DEF NewStatus, StatusRows, EdgeCount, Build
    <2> QED
        BY <2>3, NoneAssumption
<1>6. /\ fingerprint' = fingerprint /\ strays \in SUBSET Repos
      /\ strays' = IF fingerprint = None THEN strays \cup {job[p]} ELSE strays \ {job[p]}
    BY DEF Commit, IInv, TypeOK
<1>7. ASSUME NEW q \in Repos \ {job[p]} PROVE SameEntry(q)
    <2>1. /\ db'.rows[q] = db.rows[q] /\ db'.edges[q] = db.edges[q] /\ db'.status[q] = db.status[q]
          /\ q \in strays' <=> q \in strays
        BY <1>3, <1>6 DEF Replaced
    <2>2. TakenFor(q)' = TakenFor(q)
        BY <1>6, <2>1 DEF TakenFor
    <2> QED
        BY <2>1, <2>2 DEF SameEntry, Agree
<1>8. db'.edges[job[p]] = IF kg[p] THEN NewEdges(p) ELSE db.edges[job[p]]
    BY <1>3 DEF Replaced
<1>9. db'.rows[job[p]] = NewRow(p) /\ db'.status[job[p]] = NewStatus(p)
    BY <1>3 DEF Replaced
<1> QED
    BY <1>2, <1>4, <1>5, <1>6, <1>7, <1>8, <1>9 DEF Build

LEMMA RefreshTables ==
    ASSUME IInv, SeenInv, NEW p \in Procs, Refresh(p)
    PROVE  \A r \in Repos : SameEntry(r)
<1>1. at[p] = "refresh" /\ at[p] \in BuildStatements /\ at[p] \notin TxnStatements
    BY DEF Refresh, BuildStatements, TxnStatements
<1> DEFINE c == Build(p)
           n == c.seen.chunks
           e == c.seen.edges
<1>2. /\ job[p] \in Repos /\ View(p) = db /\ db \in Tables /\ c.sha \in Versions
      /\ c.seen \in StatusRows /\ txn[p] = None /\ c.step = "writing"
    BY <1>1, AtStatement DEF IInv, TypeOK, ProcOK, Control, Build, View
<1>3. n \in Nat /\ e \in Int
    BY <1>2 DEF StatusRows
<1>4. Agree(c.seen, db.status[job[p]]) /\ c.seen.sha = c.sha
    <2>1. SeenOK(p, job[p])
        BY <1>2 DEF SeenInv
    <2> QED
        BY <1>1, <1>2, <2>1 DEF SeenOK, Build, RefreshSuffices
<1>5. db' = SetStatus(db, job[p], c.sha, n, e) /\ SameModels
    BY <1>2 DEF Refresh, Write, SameModels
<1> HIDE DEF c, n, e
<1>6. /\ db'.rows = db.rows /\ db'.edges = db.edges
      /\ db'.status[job[p]] = [sha |-> c.sha, chunks |-> n, edges |-> e, fresh |-> TRUE]
      /\ db'.status[job[p]] # None
      /\ \A q \in Repos \ {job[p]} : db'.status[q] = db.status[q]
    BY <1>2, <1>3, <1>5, SetStatusType
<1>7. Agree(db.status[job[p]], db'.status[job[p]])
    BY <1>2, <1>4, <1>6, NoneAssumption DEF Agree, n, e
<1>8. \A r \in Repos : TakenFor(r)' = TakenFor(r)
    BY <1>5, <1>6 DEF TakenFor, SameModels
<1> QED
    BY <1>6, <1>7, <1>8 DEF SameEntry, Agree

LEMMA ExpiresTables ==
    ASSUME IInv, NEW r \in Repos, Expires(r)
    PROVE  \A q \in Repos : SameEntry(q)
<1> DEFINE row == [db.status[r] EXCEPT !.fresh = FALSE]
<1>1. db \in Tables /\ db.status[r] \in StatusRows /\ SameModels
    BY DEF Expires, IInv, TypeOK, Tables, SameModels
<1>2. row \in StatusRows /\ Agree(db.status[r], row)
    BY <1>1, NoneAssumption DEF StatusRows, Agree
<1>3. db' = [db EXCEPT !.status = [db.status EXCEPT ![r] = row]]
    BY DEF Expires
<1> HIDE DEF row
<1>4. /\ db'.rows = db.rows /\ db'.edges = db.edges
      /\ db'.status = [db.status EXCEPT ![r] = row] /\ db.status \in [Repos -> StatusRows \cup {None}]
    BY <1>1, <1>3 DEF Tables
<1>5. ASSUME NEW q \in Repos PROVE Agree(db.status[q], db'.status[q])
    <2>1. CASE q = r
        BY <1>2, <1>4, <2>1
    <2>2. CASE q # r
        BY <1>4, <2>2 DEF Agree
    <2> QED
        BY <2>1, <2>2
<1>6. \A q \in Repos : TakenFor(q)' = TakenFor(q)
    BY <1>1, <1>4 DEF TakenFor, SameModels
<1> QED
    BY <1>4, <1>5, <1>6 DEF SameEntry

LEMMA UnchangedTables ==
    ASSUME db' = db, SameModels
    PROVE  \A r \in Repos : SameEntry(r)
<1>1. \A r \in Repos : TakenFor(r)' = TakenFor(r)
    BY DEF TakenFor, SameModels
<1> QED
    BY <1>1 DEF SameEntry, Agree

\* The stamp behind a COMMIT names the model the chunks are taken for already.
LEMMA StampTables ==
    ASSUME IInv, SwapInv, NEW p \in Procs, Stamp(p)
    PROVE  fingerprint' # None /\ \A r \in Repos : SameEntry(r)
<1>1. /\ at[p] \in BuildStatements /\ db' = db /\ fingerprint' = model[p]
      /\ strays' = IF fingerprint = None THEN {} ELSE strays
    BY DEF Stamp, BuildStatements
<1>2. fingerprint \in {None, model[p]} /\ model[p] # None
    BY <1>1, BuildServes, AtStatement, NoneAssumption
<1>3. \A r \in Repos : TakenFor(r)' = TakenFor(r)
    BY <1>1, <1>2 DEF TakenFor
<1> QED
    BY <1>1, <1>2, <1>3 DEF SameEntry, Agree

\* dropAllChunks() leaves nothing.
LEMMA DropAllTables ==
    ASSUME IInv, SwapInv, NEW p \in Procs, DropAll(p)
    PROVE  SameModels /\ \A r \in Repos : db'.status[r] = None /\ db'.rows[r] = None
<1>1. db' = Without(db, listed[p]) /\ db \in Tables /\ SameModels
    BY DEF DropAll, Write, View, IInv, TypeOK, ProcOK, TxnStatements, SameModels
<1>2. \A r \in Repos : r \notin listed[p] => db.rows[r] = None /\ db.status[r] = None
    BY DEF DropAll, SwapInv, SwapOK
<1>3. /\ db'.status = [r \in Repos |-> IF r \in listed[p] THEN None ELSE db.status[r]]
      /\ db'.rows = [r \in Repos |-> IF r \in listed[p] THEN None ELSE db.rows[r]]
    BY <1>1 DEF Without, Tables
<1> QED
    BY <1>1, <1>2, <1>3

\* The model of the old releases is recorded over chunks nobody recorded one for.
Adoption == db' = db /\ fingerprint = None /\ fingerprint' = Legacy /\ UNCHANGED strays

LEMMA RestampTables ==
    ASSUME IInv, SwapInv, NEW p \in Procs, Restamp(p)
    PROVE  Adoption \/ (fingerprint' # None /\ \A r \in Repos : SameEntry(r))
<1>1. at[p] = "restamp" /\ db' = db /\ fingerprint' = model[p] /\ UNCHANGED strays
    BY DEF Restamp
<1>2. model[p] # None
    BY <1>1 DEF IInv, ProcOK, Control, Up
<1>3. \/ \A r \in Repos : db.rows[r] = None
      \/ fingerprint = None /\ model[p] = Legacy
    BY <1>1 DEF SwapInv, SwapOK
<1>4. CASE \A r \in Repos : db.rows[r] = None
    <2>1. \A r \in Repos : TakenFor(r)' = TakenFor(r)
        BY <1>1, <1>4 DEF TakenFor
    <2> QED
        BY <1>1, <1>2, <2>1 DEF SameEntry, Agree
<1> QED
    BY <1>1, <1>3, <1>4 DEF Adoption

\* The three statements of an emptied wiki.
ClearedRows(r) ==
    /\ db'.rows[r] = None /\ db'.edges[r] = db.edges[r] /\ db'.status[r] = db.status[r]

ClearedEdges(r) ==
    /\ db.rows[r] = None
    /\ db'.rows[r] = None /\ db'.edges[r] = None /\ db'.status[r] = db.status[r]

ClearedStatus(p, r) ==
    /\ db.rows[r] = None /\ (kg[p] => db.edges[r] = None)
    /\ db'.rows[r] = None /\ db'.edges[r] = db.edges[r]
    /\ db'.status[r] = [sha |-> call[p][r].sha, chunks |-> 0, edges |-> IF kg[p] THEN 0 ELSE -1,
                        fresh |-> TRUE]
    /\ db'.status[r] # None

LEMMA ClearTables ==
    ASSUME IInv, SeenInv, AgreeInv, NEW p \in Procs, ClearRows(p) \/ ClearEdges(p) \/ ClearStatus(p)
    PROVE  LET r == job[p]
               c == call[p][r]
           IN  /\ r \in Repos /\ c.step = "writing" /\ c.sha \in Versions
               /\ Agree(c.seen, db.status[r]) /\ ~RefreshSuffices(p, c.seen, c.sha)
               /\ SameModels /\ \A q \in Repos \ {r} : SameEntry(q)
               /\ ClearRows(p) => ClearedRows(r)
               /\ ClearEdges(p) => ClearedEdges(r)
               /\ ClearStatus(p) => ClearedStatus(p, r)
<1>1. /\ at[p] \in {"clearRows", "clearEdges", "clearStatus"} /\ at[p] \notin TxnStatements
      /\ at[p] \in BuildStatements /\ at[p] \in DueStatements /\ SameModels
    BY DEF ClearRows, ClearEdges, ClearStatus, Statement, TxnStatements, BuildStatements,
       DueStatements, SameModels
<1> DEFINE r == job[p]
           c == Build(p)
<1>2. /\ r \in Repos /\ c.step = "writing" /\ c.sha \in Versions /\ db \in Tables
      /\ View(p) = db /\ Emptied(p) /\ txn[p] = None
    BY <1>1, AtStatement DEF IInv, TypeOK, ProcOK, Control, Build, View, AgreeInv
<1>3. Agree(c.seen, db.status[r]) /\ ~RefreshSuffices(p, c.seen, c.sha)
    <2>1. SeenOK(p, r)
        BY <1>2 DEF SeenInv
    <2> QED
        BY <1>1, <1>2, <2>1 DEF SeenOK, Build
<1>4. c = call[p][r]
    BY DEF Build
<1>5. ASSUME \A q \in Repos \ {r} : /\ db'.rows[q] = db.rows[q] /\ db'.edges[q] = db.edges[q]
                                    /\ db'.status[q] = db.status[q]
      PROVE  \A q \in Repos \ {r} : SameEntry(q)
    <2>1. \A q \in Repos \ {r} : TakenFor(q)' = TakenFor(q)
        BY <1>1, <1>5 DEF TakenFor, SameModels
    <2> QED
        BY <1>5, <2>1 DEF SameEntry, Agree
<1>00. db \in Tables /\ r \in Repos /\ None \in ChunkRows \cup {None} /\ None \in EdgeRows \cup {None}
    BY <1>2
<1> HIDE DEF r, c
<1>6. CASE ClearRows(p)
    <2> DEFINE d == [db EXCEPT !.rows[r] = None]
    <2>1. db' = d
        BY <1>2, <1>6 DEF ClearRows, Statement, Write, r
    <2>2. /\ d \in Tables /\ d.status = db.status /\ d.edges = db.edges /\ d.rows[r] = None
          /\ \A q \in Repos \ {r} : d.rows[q] = db.rows[q]
        BY <1>00, SetRowsType
    <2> HIDE DEF d
    <2>3. ClearedRows(r) /\ \A q \in Repos \ {r} : SameEntry(q)
        BY <1>5, <2>1, <2>2 DEF ClearedRows
    <2>4. ~ClearEdges(p) /\ ~ClearStatus(p)
        BY <1>6 DEF ClearRows, ClearEdges, ClearStatus
    <2> QED
        BY <1>1, <1>2, <1>3, <1>4, <2>3, <2>4 DEF r
<1>7. CASE ClearEdges(p)
    <2> DEFINE d == [db EXCEPT !.edges[r] = None]
    <2>1. db' = d /\ at[p] = "clearEdges"
        BY <1>2, <1>7 DEF ClearEdges, Statement, Write, r
    <2>2. /\ d \in Tables /\ d.status = db.status /\ d.rows = db.rows /\ d.edges[r] = None
          /\ \A q \in Repos \ {r} : d.edges[q] = db.edges[q]
        BY <1>00, SetEdgesType
    <2> HIDE DEF d
    <2>3. db.rows[r] = None
        BY <1>2, <2>1 DEF Emptied, r
    <2>4. ClearedEdges(r) /\ \A q \in Repos \ {r} : SameEntry(q)
        BY <1>5, <2>1, <2>2, <2>3 DEF ClearedEdges
    <2>5. ~ClearRows(p) /\ ~ClearStatus(p)
        BY <1>7 DEF ClearRows, ClearEdges, ClearStatus
    <2> QED
        BY <1>1, <1>2, <1>3, <1>4, <2>4, <2>5 DEF r
<1>8. CASE ClearStatus(p)
    <2> DEFINE e == IF kg[p] THEN 0 ELSE -1
               d == SetStatus(db, r, c.sha, 0, e)
    <2>1. db' = d /\ at[p] = "clearStatus"
        BY <1>2, <1>8 DEF ClearStatus, Write, r, c
    <2>2. e \in Int /\ 0 \in Nat /\ e = IF kg[p] THEN 0 ELSE -1
        OBVIOUS
    <2> HIDE DEF e
    <2>3. /\ d.rows = db.rows /\ d.edges = db.edges /\ d.status[r] # None
          /\ d.status[r] = [sha |-> c.sha, chunks |-> 0, edges |-> e, fresh |-> TRUE]
          /\ \A q \in Repos \ {r} : d.status[q] = db.status[q]
        BY <1>2, <1>00, <2>2, SetStatusType
    <2> HIDE DEF d
    <2>4. db.rows[r] = None /\ (kg[p] => db.edges[r] = None)
        BY <1>2, <2>1 DEF Emptied, r
    <2>5. ClearedStatus(p, r) /\ \A q \in Repos \ {r} : SameEntry(q)
        BY <1>4, <1>5, <2>1, <2>2, <2>3, <2>4 DEF ClearedStatus
    <2>6. ~ClearRows(p) /\ ~ClearEdges(p)
        BY <1>8 DEF ClearRows, ClearEdges, ClearStatus
    <2> QED
        BY <1>1, <1>2, <1>3, <1>4, <2>5, <2>6 DEF r
<1> QED
    BY <1>6, <1>7, <1>8

\* The tables change in these ways: unnoticed, by a new version of the extractor, by the
\* drop of everything, by the adoption of what nobody stamped, by a COMMIT, and by the
\* statements that empty a repository.
TablesStep ==
    \/ (\A r \in Repos : SameEntry(r)) /\ (fingerprint' = fingerprint \/ fingerprint' # None)
    \/ db' = GraphsUnbuilt(db) /\ SameModels
    \/ SameModels /\ \A r \in Repos : db'.status[r] = None /\ db'.rows[r] = None
    \/ Adoption
    \/ \E p \in Procs : Commit(p) \/ ClearRows(p) \/ ClearEdges(p) \/ ClearStatus(p)

LEMMA NextTables ==
    ASSUME IInv, SwapInv, SeenInv, [Next]_vars
    PROVE  TablesStep
<1>0. ASSUME db' = db, SameModels PROVE TablesStep
    BY <1>0, UnchangedTables DEF TablesStep, SameModels
<1>1. CASE UNCHANGED vars \/ \E r \in Repos : Commits(r)
    BY <1>0, <1>1 DEF vars, store, Commits, SameModels
<1>2. CASE \E r \in Repos : Expires(r)
    <2>1. (\A r \in Repos : SameEntry(r)) /\ fingerprint' = fingerprint
        BY <1>2, ExpiresTables DEF Expires
    <2> QED
        BY <2>1 DEF TablesStep
<1>3. ASSUME NEW p \in Procs, Start(p) \/ Crash(p) \/ Throws(p) \/ ListRepos(p) PROVE TablesStep
    <2>1. db' \in {db, GraphsUnbuilt(db)} /\ SameModels
        BY <1>3 DEF Start, Crash, Throws, ListRepos, store, SameModels
    <2> QED
        BY <1>0, <2>1 DEF TablesStep
<1>4. ASSUME NEW p \in Procs, DropAll(p) \/ Restamp(p) PROVE TablesStep
    BY <1>4, DropAllTables, RestampTables DEF TablesStep
<1>5. ASSUME NEW p \in Procs, NEW r \in Repos, GetPage(p, r) \/ IndexRepo(p, r) \/ BuildStep(p, r)
      PROVE  TablesStep
    BY <1>0, <1>5, EventLoopFrame DEF store, SameModels
<1>6. ASSUME NEW p \in Procs, SqlStep(p) PROVE TablesStep
    <2>1. CASE DropRows(p) \/ PutRows(p) \/ DropEdges(p) \/ PutEdges(p) \/ PutStatus(p)
        <3>1. at[p] \in TxnStatements /\ (\E d : Write(p, d)) /\ SameModels
            BY <2>1 DEF DropRows, PutRows, DropEdges, PutEdges, PutStatus, Statement, TxnStatements,
                SameModels
        <3>2. db' = db
            BY <3>1, AtTxn DEF Write
        <3> QED
            BY <1>0, <3>1, <3>2
    <2>2. CASE Begin(p)
        BY <1>0, <2>2 DEF Begin, SameModels
    <2>3. CASE Stamp(p)
        BY <2>3, StampTables DEF TablesStep
    <2>4. CASE Refresh(p)
        <3>1. (\A r \in Repos : SameEntry(r)) /\ fingerprint' = fingerprint
            BY <2>4, RefreshTables DEF Refresh
        <3> QED
            BY <3>1 DEF TablesStep
    <2> QED
        BY <1>6, <2>1, <2>2, <2>3, <2>4 DEF SqlStep, TablesStep
<1> QED
    BY <1>1, <1>2, <1>3, <1>4, <1>5, <1>6 DEF Next, Boot

LEMMA GraphsUnbuiltRows ==
    ASSUME NEW d \in Tables, NEW r \in Repos
    PROVE  LET u == GraphsUnbuilt(d)
           IN  /\ u.rows = d.rows /\ u.edges = d.edges
               /\ d.status[r] = None => u.status[r] = None
               /\ d.status[r] # None =>
                     /\ u.status[r] # None /\ u.status[r].sha = d.status[r].sha
                     /\ u.status[r].chunks = d.status[r].chunks /\ u.status[r].edges = -1
<1> DEFINE st == [q \in Repos |-> IF d.status[q] = None THEN None ELSE [d.status[q] EXCEPT !.edges = -1]]
<1>1. /\ GraphsUnbuilt(d).rows = d.rows /\ GraphsUnbuilt(d).edges = d.edges
      /\ GraphsUnbuilt(d).status = st
    BY DEF GraphsUnbuilt, Tables
<1>2. d.status[r] # None => d.status[r] \in StatusRows
    BY DEF Tables
<1>3. d.status[r] # None =>
          /\ [d.status[r] EXCEPT !.edges = -1] \in StatusRows
          /\ [d.status[r] EXCEPT !.edges = -1].sha = d.status[r].sha
          /\ [d.status[r] EXCEPT !.edges = -1].chunks = d.status[r].chunks
          /\ [d.status[r] EXCEPT !.edges = -1].edges = -1
    BY <1>2 DEF StatusRows
<1>4. st[r] = IF d.status[r] = None THEN None ELSE [d.status[r] EXCEPT !.edges = -1]
    OBVIOUS
<1> HIDE DEF st
<1> QED
    BY <1>1, <1>3, <1>4, NoneAssumption

\* The fields of the rows a build puts.
LEMMA NewFields ==
    ASSUME IInv, SeenInv, AgreeInv, NEW p \in Procs, Commit(p)
    PROVE  LET c == call[p][job[p]]
           IN  /\ NewRow(p) # None => /\ NewRow(p).content = c.content /\ NewRow(p).sha = c.sha
                                      /\ NewRow(p).model = model[p]
               /\ NewRow(p) # None <=> ChunksOf[c.content] # 0
               /\ NewEdges(p) # None => NewEdges(p).content = c.content
               /\ NewEdges(p) # None <=> EdgesOf[c.content] # 0
               /\ NewStatus(p).sha = c.sha /\ NewStatus(p).chunks = ChunksOf[c.content]
               /\ NewStatus(p).edges = EdgeCount(p, c)
               /\ ChunksOf[c.content] \in Nat /\ EdgesOf[c.content] \in Nat
<1> DEFINE r == job[p]
           c == call[p][r]
           m == model[p]
           row == [content |-> c.content, sha |-> c.sha, model |-> m]
           edge == [content |-> c.content, sha |-> c.sha]
<1>1. c.sha \in Versions /\ c.content \in Contents /\ m \in Models
    <2>1. at[p] \in BuildStatements
        BY DEF Commit, BuildStatements, TxnStatements
    <2> QED
        BY <2>1, CommitTables, AtStatement
<1>2. row # None /\ edge # None
    <2>1. row \in ChunkRows /\ edge \in EdgeRows
        BY <1>1 DEF ChunkRows, EdgeRows
    <2> QED
        BY <2>1, NoneAssumption
<1>3. /\ row.content = c.content /\ row.sha = c.sha /\ row.model = m /\ edge.content = c.content
      /\ NewRow(p) = IF ChunksOf[c.content] = 0 THEN None ELSE row
      /\ NewEdges(p) = IF EdgesOf[c.content] = 0 THEN None ELSE edge
    BY DEF NewRow, NewEdges
<1>4. /\ NewStatus(p).sha = c.sha /\ NewStatus(p).chunks = ChunksOf[c.content]
      /\ NewStatus(p).edges = EdgeCount(p, c)
    BY DEF NewStatus
<1>5. ChunksOf[c.content] \in Nat /\ EdgesOf[c.content] \in Nat
    BY <1>1, VersionsAssumption
<1> HIDE DEF row, edge
<1> QED
    BY <1>2, <1>3, <1>4, <1>5

\* The parts of an index go on agreeing, and its version only moves on.
LEMMA TablesAgree ==
    ASSUME IInv, SeenInv, AgreeInv, TablesStep, NEW r \in Repos
    PROVE  Agrees(r)' /\ FromBuild(r)
<1>0. Agrees(r) /\ db \in Tables
    BY DEF AgreeInv, IInv, TypeOK
<1>1. SameEntry(r) => Agrees(r)' /\ FromBuild(r)
    BY <1>0 DEF SameEntry, Agree, Agrees, FromBuild
<1>2. CASE db' = GraphsUnbuilt(db)
    <2>1. ~(-1 >= 0)
        OBVIOUS
    <2> QED
        BY <1>0, <1>2, <2>1, GraphsUnbuiltRows DEF Agrees, FromBuild
<1>3. CASE \A q \in Repos : db'.status[q] = None /\ db'.rows[q] = None
    BY <1>3 DEF Agrees, FromBuild
<1>4. CASE Adoption
    BY <1>0, <1>4 DEF Adoption, Agrees, FromBuild
<1>5. ASSUME NEW p \in Procs, Commit(p) PROVE Agrees(r)' /\ FromBuild(r)
    <2>1. CASE r = job[p]
        <3> DEFINE c == call[p][r]
        <3>1. /\ c.step = "writing" /\ Agree(c.seen, db.status[r])
              /\ db'.status[r] = NewStatus(p) /\ db'.status[r] # None
              /\ db'.rows[r] = NewRow(p)
              /\ db'.edges[r] = IF kg[p] THEN NewEdges(p) ELSE db.edges[r]
            BY <1>5, <2>1, CommitTables
        <3>2. /\ NewRow(p) # None => NewRow(p).content = c.content /\ NewRow(p).sha = c.sha
              /\ NewEdges(p) # None => NewEdges(p).content = c.content
              /\ NewStatus(p).sha = c.sha /\ NewStatus(p).chunks = ChunksOf[c.content]
              /\ NewStatus(p).edges = EdgeCount(p, c)
            BY <1>5, <2>1, NewFields
        <3>3. db'.edges[r] # None /\ EdgeCount(p, c) >= 0 => EdgeCount(p, c) = EdgesOf[db'.edges[r].content]
            <4>1. CASE kg[p]
                BY <3>1, <3>2, <4>1 DEF EdgeCount
            <4>2. CASE ~kg[p] /\ c.seen = None
                BY <4>2 DEF EdgeCount
            <4>3. CASE ~kg[p] /\ c.seen # None
                BY <1>0, <3>1, <4>3 DEF EdgeCount, Agree, Agrees
            <4> QED
                BY <4>1, <4>2, <4>3
        <3>4. Agrees(r)'
            BY <3>1, <3>2, <3>3 DEF Agrees
        <3>5. FromBuild(r)
            BY <3>1, <3>2 DEF FromBuild
        <3> QED
            BY <3>4, <3>5
    <2>2. CASE r # job[p]
        BY <1>1, <1>5, <2>2, CommitTables
    <2> QED
        BY <2>1, <2>2
<1>6. ASSUME NEW p \in Procs, ClearRows(p) \/ ClearEdges(p) \/ ClearStatus(p)
      PROVE  Agrees(r)' /\ FromBuild(r)
    <2>1. CASE r = job[p]
        <3>1. /\ ClearedRows(r) \/ ClearedEdges(r) \/ ClearedStatus(p, r)
              /\ call[p][r].step = "writing"
            BY <1>6, <2>1, ClearTables
        <3>2. CASE ClearedRows(r) \/ ClearedEdges(r)
            BY <1>0, <3>2 DEF ClearedRows, ClearedEdges, Agrees, FromBuild
        <3>3. CASE ClearedStatus(p, r)
            <4>1. /\ db'.status[r] # None /\ db'.status[r].sha = call[p][r].sha
                  /\ db'.status[r].edges = (IF kg[p] THEN 0 ELSE -1)
                BY <3>3 DEF ClearedStatus
            <4>2. ~kg[p] => ~(db'.status[r].edges >= 0)
                BY <4>1
            <4> QED
                BY <3>1, <3>3, <4>1, <4>2 DEF ClearedStatus, Agrees, FromBuild
        <3> QED
            BY <3>1, <3>2, <3>3
    <2>2. CASE r # job[p]
        BY <1>1, <1>6, <2>2, ClearTables
    <2> QED
        BY <2>1, <2>2
<1> QED
    BY <1>1, <1>2, <1>3, <1>4, <1>5, <1>6 DEF TablesStep

\* An emptying build goes from one part to the next.
LEMMA NextEmptied ==
    ASSUME IInv, SeenInv, AgreeInv, OneProcess, [Next]_vars, NEW p \in Procs
    PROVE  Emptied(p)'
<1>1. /\ at \in [Procs -> Statements] /\ (~Up(p) => at[p] = "free") /\ Emptied(p)
      /\ txn[p] # None <=> at[p] \in TxnStatements
    BY DEF IInv, TypeOK, ProcOK, Control, AgreeInv
<1>2. CASE UNCHANGED vars \/ \E r \in Repos : Commits(r)
    BY <1>1, <1>2 DEF vars, store, process, Commits, Emptied
<1>3. ASSUME NEW r \in Repos, Expires(r) PROVE Emptied(p)'
    <2>1. db' = [db EXCEPT !.status = [db.status EXCEPT ![r] = [db.status[r] EXCEPT !.fresh = FALSE]]]
        BY <1>3 DEF Expires
    <2>2. db'.rows = db.rows /\ db'.edges = db.edges
        BY <2>1 DEF IInv, TypeOK, Tables
    <2> QED
        BY <1>1, <1>3, <2>2 DEF Expires, process, Emptied
<1>4. ASSUME at'[p] \notin {"clearEdges", "clearStatus"} PROVE Emptied(p)'
    BY <1>4 DEF Emptied
<1>5. ASSUME NEW s, Goto(p, s), s \notin {"clearEdges", "clearStatus"} PROVE Emptied(p)'
    BY <1>1, <1>4, <1>5 DEF Goto
<1>6. CASE Start(p) \/ Crash(p) \/ Throws(p) \/ Boot(p)
    BY <1>5, <1>6 DEF Start, Crash, Throws, Finish, Boot, ListRepos, DropAll, Restamp, BootStatement
<1>7. CASE \E r \in Repos : GetPage(p, r) \/ IndexRepo(p, r) \/ BuildStep(p, r)
    <2>1. /\ Free(p) /\ UNCHANGED <<upstream, store, model, kg, listed>>
          /\ \/ UNCHANGED <<at, job>>
             \/ \E s \in {"refresh", "begin", "clearRows"} : Goto(p, s)
        BY <1>7, EventLoopFrame
    <2> QED
        BY <1>4, <1>5, <2>1 DEF Free
<1>8. CASE Refresh(p) \/ Begin(p) \/ DropRows(p) \/ PutRows(p) \/ DropEdges(p) \/ PutEdges(p)
           \/ PutStatus(p) \/ Commit(p) \/ Stamp(p) \/ ClearStatus(p)
    BY <1>5, <1>8 DEF Refresh, Begin, DropRows, PutRows, DropEdges, PutEdges, PutStatus, Commit, Stamp,
       ClearStatus, Statement, Finish
<1>9. CASE ClearRows(p)
    <2>1. ClearedRows(job[p]) /\ at'[p] = (IF kg[p] THEN "clearEdges" ELSE "clearStatus")
          /\ UNCHANGED <<kg, job>>
        BY <1>1, <1>9, ClearTables DEF ClearRows, Statement, Goto
    <2> QED
        BY <2>1 DEF ClearedRows, Emptied
<1>10. CASE ClearEdges(p)
    <2>1. ClearedEdges(job[p]) /\ UNCHANGED <<kg, job>>
        BY <1>10, ClearTables DEF ClearEdges, Statement
    <2> QED
        BY <2>1 DEF ClearedEdges, Emptied
<1> QED
    BY <1>2, <1>3, <1>6, <1>7, <1>8, <1>9, <1>10 DEF Next, SqlStep, OneProcess

\* The inductive invariant of the refinement.
AtomicInv == IInv /\ SwapInv /\ SeenInv /\ Flow /\ AgreeInv

LEMMA NextAtomicInv ==
    ASSUME OneProcess, AtomicInv, [Next]_vars
    PROVE  AtomicInv' /\ TablesStep
<1>1. IInv /\ SwapInv /\ SeenInv /\ Flow /\ AgreeInv
    BY DEF AtomicInv
<1>2. IInv' /\ SwapInv' /\ SeenInv' /\ TablesStep
    BY <1>1, NextIInv, NextSwap, NextSeen, NextTables
<1>3. \A r \in Repos : Agrees(r)' /\ FromBuild(r)
    BY <1>1, <1>2, TablesAgree
<1>4. \A p \in Procs : Emptied(p)' /\ (txn'[p] # None => Replaced(p, txn[p], at[p])')
    BY <1>1, NextReplaced, NextEmptied
<1>5. AgreeInv'
    BY <1>3, <1>4 DEF AgreeInv
<1>6. Flow'
    <2>1. CASE UNCHANGED vars \/ \E r \in Repos : Expires(r)
        <3>1. UNCHANGED <<page, upstream, call>>
            BY <2>1 DEF vars, process, Expires
        <3> QED
            BY <1>1, <1>3, <3>1, FlowKept
    <2>2. CASE \E r \in Repos : Commits(r)
        BY <1>1, <2>2, CommitsFlow
    <2>3. ASSUME NEW p \in Procs, Start(p) \/ Crash(p) \/ Throws(p) \/ Boot(p) \/ SqlStep(p)
          PROVE  Flow'
        <3>1. /\ UNCHANGED <<page, upstream>>
              /\ \A r \in Repos : call'[p][r] \in {call[p][r], NoCall}
            BY <1>1, <2>3, StepCalls
        <3>2. \A q \in Procs, r \in Repos : call'[q][r] \in {call[q][r], NoCall}
            BY <3>1 DEF OneProcess
        <3> QED
            BY <1>1, <1>3, <3>1, <3>2, FlowKept
    <2>4. ASSUME NEW p \in Procs, NEW r \in Repos, GetPage(p, r) \/ IndexRepo(p, r) \/ BuildStep(p, r)
          PROVE  Flow'
        BY <1>1, <2>4, EventLoopFlow
    <2> QED
        BY <2>1, <2>2, <2>3, <2>4 DEF Next
<1> QED
    BY <1>2, <1>5, <1>6 DEF AtomicInv

LEMMA InitAtomicInv == Init => AtomicInv
<1> SUFFICES ASSUME Init PROVE AtomicInv
    OBVIOUS
<1>1. IInv /\ SwapInv /\ SeenInv
    BY InitIInv, InitSwap, InitSeen
<1>2. PICK S \in SUBSET Repos : db = LegacyTables(S)
    BY DEF Init
<1> DEFINE status == [sha |-> 1, chunks |-> ChunksOf[1], edges |-> -1, fresh |-> TRUE]
           row == IF ChunksOf[1] = 0 THEN None ELSE [content |-> 1, sha |-> 1, model |-> Legacy]
<1>3. 1 \in Versions /\ ChunksOf[1] \in Nat
    <2>1. 1 \in Versions /\ 1 \in Contents
        BY VersionsAssumption DEF Versions, Contents
    <2> QED
        BY <2>1, VersionsAssumption
<1>4. status \in StatusRows
    BY <1>3 DEF StatusRows
<1>5. /\ status.sha = 1 /\ status.chunks = ChunksOf[1]
      /\ row # None => row.content = 1 /\ row.sha = 1
    OBVIOUS
<1> HIDE DEF status, row
<1>6. \A r \in Repos : /\ db.status[r] = IF r \in S THEN status ELSE None
                       /\ db.rows[r] = IF r \in S THEN row ELSE None
                       /\ db.edges[r] = None
    BY <1>2 DEF LegacyTables, status, row
<1>7. \A r \in Repos : Agrees(r)
    BY <1>4, <1>5, <1>6, NoneAssumption DEF Agrees
<1>8. \A r \in Repos : PageOK(r)
    BY <1>5, <1>6 DEF Init, PageOK, AtMost
<1>9. Flow /\ AgreeInv
    BY <1>7, <1>8 DEF Init, Flow, FlowOK, AgreeInv, Emptied, NoCall
<1> QED
    BY <1>1, <1>9 DEF AtomicInv

-----------------------------------------------------------------------------
(* The refinement of AtomicIndex                                           *)

\* Of parts that agree a reader finds an entry, or nothing.
LEMMA EntryNow ==
    ASSUME NEW r \in Repos, Agrees(r)
    PROVE  Entry(r) = IF db.status[r] = None THEN None
                      ELSE [sha |-> db.status[r].sha, chunks |-> ContentOf(db.rows[r]),
                            model |-> TakenFor(r), graph |-> GraphOf(db.status[r], db.edges[r])]
    BY DEF Entry

LEMMA EntryNext ==
    ASSUME NEW r \in Repos, Agrees(r)'
    PROVE  Entry(r)' = IF db'.status[r] = None THEN None
                       ELSE [sha |-> db'.status[r].sha, chunks |-> ContentOf(db'.rows[r]),
                             model |-> TakenFor(r)', graph |-> GraphOf(db'.status[r], db'.edges[r])]
    BY DEF Entry

LEMMA EntryFields ==
    ASSUME NEW s, NEW c, NEW m, NEW g
    PROVE  LET e == [sha |-> s, chunks |-> c, model |-> m, graph |-> g]
           IN  /\ e.sha = s /\ e.chunks = c /\ e.model = m /\ e.graph = g
               /\ \A x : [e EXCEPT !.graph = x] = [sha |-> s, chunks |-> c, model |-> m, graph |-> x]
               /\ \A x : [e EXCEPT !.model = x] = [sha |-> s, chunks |-> c, model |-> x, graph |-> g]
<1> DEFINE e == [sha |-> s, chunks |-> c, model |-> m, graph |-> g]
<1>1. e.sha = s /\ e.chunks = c /\ e.model = m /\ e.graph = g
    OBVIOUS
<1>2. ASSUME NEW x PROVE [e EXCEPT !.graph = x] = [sha |-> s, chunks |-> c, model |-> m, graph |-> x]
    OBVIOUS
<1>3. ASSUME NEW x PROVE [e EXCEPT !.model = x] = [sha |-> s, chunks |-> c, model |-> x, graph |-> g]
    OBVIOUS
<1> QED
    BY <1>1, <1>2, <1>3

LEMMA ContentType ==
    ASSUME NEW row \in ChunkRows \cup EdgeRows \cup {None}
    PROVE  ContentOf(row) \in Contents
<1>1. 0 \in Contents
    BY VersionsAssumption DEF Contents
<1> QED
    BY <1>1 DEF ContentOf, ChunkRows, EdgeRows

\* An entry is not null, and its fields are what the tables say.
LEMMA EntryParts ==
    ASSUME IInv, NEW r \in Repos, Agrees(r), db.status[r] # None
    PROVE  /\ Entry(r) = [sha |-> db.status[r].sha, chunks |-> ContentOf(db.rows[r]),
                          model |-> TakenFor(r), graph |-> GraphOf(db.status[r], db.edges[r])]
           /\ Entry(r) # None
           /\ Entry(r).sha = db.status[r].sha /\ Entry(r).chunks = ContentOf(db.rows[r])
           /\ Entry(r).model = TakenFor(r) /\ Entry(r).graph = GraphOf(db.status[r], db.edges[r])
           /\ db.status[r].sha \in Nat /\ db.status[r].edges \in Int
<1>1. /\ db.status[r] \in StatusRows /\ db.rows[r] \in ChunkRows \cup {None}
      /\ db.edges[r] \in EdgeRows \cup {None}
    BY DEF IInv, TypeOK, Tables
<1>2. db.status[r].sha \in Versions /\ db.status[r].sha \in Nat /\ db.status[r].edges \in Int
    BY <1>1 DEF StatusRows, Versions
<1>3. ContentOf(db.rows[r]) \in Contents
    BY <1>1, ContentType
<1>4. TakenFor(r) \in Models \cup {Legacy, None}
    BY <1>1 DEF TakenFor, ChunkRows
<1>5. GraphOf(db.status[r], db.edges[r]) \in Contents \cup {None}
    BY <1>1, ContentType DEF GraphOf
<1> DEFINE e == [sha |-> db.status[r].sha, chunks |-> ContentOf(db.rows[r]),
                 model |-> TakenFor(r), graph |-> GraphOf(db.status[r], db.edges[r])]
<1>6. Entry(r) = e
    BY EntryNow
<1>7. e \in Atomic!Entries
    BY <1>2, <1>3, <1>4, <1>5 DEF Atomic!Entries
<1> QED
    BY <1>2, <1>6, <1>7, EntriesAssumption

\* An unnoticed step is a stutter.
LEMMA SameEntryStutters ==
    ASSUME NEW r \in Repos, Agrees(r), Agrees(r)', SameEntry(r)
    PROVE  Entry(r)' = Entry(r)
<1>1. GraphOf(db'.status[r], db'.edges[r]) = GraphOf(db.status[r], db.edges[r]) \/ db.status[r] = None
    BY DEF SameEntry, Agree, GraphOf
<1> QED
    BY <1>1, EntryNow, EntryNext DEF SameEntry, Agree

Unnoticed == [r \in Repos |-> Entry(r)]' = [r \in Repos |-> Entry(r)]

\* A step that changes what readers find of one repository.
LEMMA OneEntry ==
    ASSUME NEW r \in Repos, NEW e, Entry(r)' = e,
           \A q \in Repos : Agrees(q) /\ Agrees(q)',
           \A q \in Repos \ {r} : SameEntry(q)
    PROVE  [q \in Repos |-> Entry(q)]' = [[q \in Repos |-> Entry(q)] EXCEPT ![r] = e]
<1>1. \A q \in Repos \ {r} : Entry(q)' = Entry(q)
    BY SameEntryStutters
<1> QED
    BY <1>1

\* A build whose decision still stands is due.
LEMMA BuildIsDue ==
    ASSUME AtomicInv, NEW p \in Procs, NEW r \in Repos, call[p][r].step = "writing",
           Agree(call[p][r].seen, db.status[r]), ~RefreshSuffices(p, call[p][r].seen, call[p][r].sha)
    PROVE  Atomic!Due(r, call[p][r].sha)
<1> DEFINE c == call[p][r]
           i == [q \in Repos |-> Entry(q)]
<1>1. IInv /\ Agrees(r) /\ FlowOK(p, r) /\ c.sha \in Versions
    BY DEF AtomicInv, AgreeInv, Flow, IInv, ProcOK, Control, CallData
<1>2. ASSUME db.status[r] # None PROVE Entry(r).sha < c.sha \/ (Entry(r).sha = c.sha /\ Entry(r).graph = None)
    <2>1. /\ Entry(r).sha = db.status[r].sha /\ Entry(r).graph = GraphOf(db.status[r], db.edges[r])
          /\ db.status[r].sha \in Nat /\ db.status[r].edges \in Int
        BY <1>1, <1>2, EntryParts
    <2>2. db.status[r].sha <= c.sha /\ c.sha \in Nat
        BY <1>1, <1>2 DEF FlowOK, AtMost, Versions
    <2>3. db.status[r].sha = c.sha => db.status[r].edges < 0
        BY <1>2 DEF Agree, RefreshSuffices
    <2>4. db.status[r].edges < 0 => GraphOf(db.status[r], db.edges[r]) = None
        BY <2>1 DEF GraphOf
    <2> QED
        BY <2>1, <2>2, <2>3, <2>4
<1>3. db.status[r] = None => Entry(r) = None
    BY <1>1, EntryNow
<1> HIDE DEF c
<1>4. i[r] = Entry(r)
    OBVIOUS
<1>5. i[r] # None => i[r].sha < c.sha \/ (i[r].sha = c.sha /\ i[r].graph = None)
    BY <1>2, <1>3, <1>4
<1> QED
    BY <1>5 DEF Atomic!Due, c

\* While a process serves, chunks are taken for its model's.
LEMMA TakenForOwn ==
    ASSUME IInv, SwapInv, NEW p \in Procs, at[p] \in BuildStatements, NEW r \in Repos
    PROVE  TakenFor(r) \in {None, model[p]}
<1>1. /\ fingerprint \in {None, model[p]} /\ Passes(db, model[p])
      /\ fingerprint = None => OfModel(db, model[p])
      /\ SwapDb
    BY BuildServes DEF SwapInv
<1>2. CASE fingerprint = None
    BY <1>1, <1>2 DEF TakenFor, OfModel
<1>3. CASE fingerprint # None /\ r \in strays
    BY <1>1, <1>3 DEF TakenFor, SwapDb
<1>4. CASE fingerprint # None /\ r \notin strays
    BY <1>1, <1>4 DEF TakenFor, Passes
<1> QED
    BY <1>2, <1>3, <1>4

\* COMMIT publishes a version that moved on, or one whose graph was missing.
LEMMA CommitPublishes ==
    ASSUME AtomicInv, \A q \in Repos : Agrees(q)', NEW p \in Procs, Commit(p), NEW r, r = job[p]
    PROVE  \E s \in Versions, v \in Contents, m \in Models : r \in Repos /\ Atomic!Publish(r, s, v, m)
<1> DEFINE c == call[p][r]
           s == c.sha
           v == c.content
           m == model[p]
           i == [q \in Repos |-> Entry(q)]
           chunks == ContentOf(NewRow(p))
           g == GraphOf(NewStatus(p), db'.edges[r])
           e == [sha |-> s, chunks |-> chunks, graph |-> g, model |-> IF chunks = 0 THEN None ELSE m]
<1>1. /\ IInv /\ SwapInv /\ SeenInv /\ AgreeInv /\ \A q \in Repos : Agrees(q)
      /\ at[p] \in BuildStatements /\ m \in Models
    <2>1. at[p] \in BuildStatements
        BY DEF Commit, BuildStatements, TxnStatements
    <2> QED
        BY <2>1, AtStatement DEF AtomicInv, AgreeInv
<1>2. /\ r \in Repos /\ c.step = "writing" /\ s \in Versions /\ v \in Contents
      /\ Agree(c.seen, db.status[r]) /\ ~RefreshSuffices(p, c.seen, s)
      /\ db'.status[r] = NewStatus(p) /\ db'.status[r] # None
      /\ db'.rows[r] = NewRow(p)
      /\ db'.edges[r] = IF kg[p] THEN NewEdges(p) ELSE db.edges[r]
      /\ \A q \in Repos \ {r} : SameEntry(q)
      /\ fingerprint' = fingerprint /\ (fingerprint # None => r \notin strays')
    BY <1>1, CommitTables
<1>3. /\ NewRow(p) # None => NewRow(p).content = v /\ NewRow(p).sha = s /\ NewRow(p).model = m
      /\ NewRow(p) # None <=> ChunksOf[v] # 0
      /\ NewEdges(p) # None => NewEdges(p).content = v
      /\ NewEdges(p) # None <=> EdgesOf[v] # 0
      /\ NewStatus(p).sha = s /\ NewStatus(p).edges = EdgeCount(p, c)
      /\ ChunksOf[v] \in Nat /\ EdgesOf[v] \in Nat
    BY <1>1, NewFields
<1>4. Atomic!Due(r, s)
    BY <1>2, BuildIsDue
<1>5. ASSUME NEW q \in Repos, Entry(q) # None PROVE Entry(q).model \in {None, m}
    <2>1. db.status[q] # None
        BY <1>1, <1>5, EntryNow
    <2> QED
        BY <1>1, <2>1, EntryParts, TakenForOwn
<1>6. chunks \in {0, v} /\ (chunks = 0 <=> NewRow(p) = None)
    <2>1. ChunksOf[v] # 0 => v # 0
        BY VersionsAssumption
    <2> QED
        BY <1>3, <2>1 DEF ContentOf
<1>7. TakenFor(r)' = IF chunks = 0 THEN None ELSE m
    BY <1>2, <1>3, <1>6 DEF TakenFor
<1>8. g \in {0, v} \/ (db.status[r] = None /\ g = None) \/ (db.status[r] # None /\ g = GraphOf(db.status[r], db.edges[r]))
    <2>1. CASE kg[p]
        <3>1. NewStatus(p).edges >= 0 /\ db'.edges[r] = NewEdges(p)
            BY <1>2, <1>3, <2>1 DEF EdgeCount
        <3> QED
            BY <1>3, <3>1 DEF GraphOf, ContentOf
    <2>2. CASE ~kg[p] /\ c.seen = None
        <3>1. NewStatus(p).edges = -1 /\ db.status[r] = None
            BY <1>2, <1>3, <2>2 DEF EdgeCount, Agree
        <3>2. ~(NewStatus(p).edges >= 0)
            BY <3>1
        <3> QED
            BY <3>1, <3>2 DEF GraphOf
    <2>3. CASE ~kg[p] /\ c.seen # None
        <3>1. /\ NewStatus(p).edges = db.status[r].edges /\ db.status[r] # None
              /\ db'.edges[r] = db.edges[r]
            BY <1>2, <1>3, <2>3 DEF EdgeCount, Agree
        <3> QED
            BY <3>1 DEF GraphOf
    <2> QED
        BY <2>1, <2>2, <2>3
<1>9. Entry(r)' = e
    <2>1. Entry(r)' = [sha |-> db'.status[r].sha, chunks |-> ContentOf(db'.rows[r]),
                       model |-> TakenFor(r)', graph |-> GraphOf(db'.status[r], db'.edges[r])]
        BY <1>2, EntryNext
    <2> HIDE DEF chunks
    <2> QED
        BY <1>2, <1>3, <1>7, <2>1 DEF chunks
<1>10. g \in {0, v, Atomic!KeptGraph(r)}
    <2>1. i[r] = Entry(r)
        BY <1>2
    <2>2. Atomic!KeptGraph(r) = IF i[r] = None THEN None ELSE i[r].graph
        BY DEF Atomic!KeptGraph
    <2>3. db.status[r] = None => Entry(r) = None
        BY <1>1, <1>2, EntryNow
    <2>4. db.status[r] # None => Entry(r) # None /\ Entry(r).graph = GraphOf(db.status[r], db.edges[r])
        BY <1>1, <1>2, EntryParts
    <2> HIDE DEF g
    <2> QED
        BY <1>8, <2>1, <2>2, <2>3, <2>4
<1> HIDE DEF c, s, v, m, chunks, g
<1>11. [q \in Repos |-> Entry(q)]' = [i EXCEPT ![r] = e]
    BY <1>1, <1>2, <1>9, OneEntry
<1>12. \A q \in Repos : i[q] # None => i[q].model \in {None, m}
    BY <1>5
<1>13. UNCHANGED (fingerprint # None)
    BY <1>2
<1>14. Atomic!Publish(r, s, v, m)
    BY <1>4, <1>6, <1>10, <1>11, <1>12, <1>13 DEF Atomic!Publish
<1> QED
    BY <1>1, <1>2, <1>14


\* An emptied wiki loses its chunks, then its graph, before its version is recorded.
LEMMA ClearRowsDrops ==
    ASSUME AtomicInv, NEW p \in Procs, NEW r \in Repos, Agrees(r)', ClearedRows(r),
           \A q \in Repos : Agrees(q) /\ Agrees(q)', SameModels,
           \A q \in Repos \ {r} : SameEntry(q)
    PROVE  Unnoticed \/ Atomic!DropChunks(r)
<1> DEFINE i == [q \in Repos |-> Entry(q)]
<1>1. IInv /\ i[r] = Entry(r) /\ TakenFor(r)' = None /\ ContentOf(db'.rows[r]) = 0
    BY DEF AtomicInv, TakenFor, ContentOf, ClearedRows
<1>2. CASE db.status[r] = None
    <2>1. Entry(r)' = Entry(r)
        BY <1>2, EntryNow, EntryNext DEF ClearedRows
    <2>2. \A q \in Repos : Entry(q)' = Entry(q)
        BY <2>1, SameEntryStutters
    <2> QED
        BY <2>2 DEF Unnoticed
<1>3. CASE db.status[r] # None
    <2> DEFINE e == [sha |-> i[r].sha, chunks |-> 0, model |-> None, graph |-> i[r].graph]
    <2>1. /\ Entry(r) # None /\ Entry(r).sha = db.status[r].sha
          /\ Entry(r).graph = GraphOf(db.status[r], db.edges[r])
        BY <1>1, <1>3, EntryParts
    <2>2. /\ db'.status[r] = db.status[r] /\ db'.edges[r] = db.edges[r]
        BY DEF ClearedRows
    <2>3. Entry(r)' = e
        BY <1>1, <1>3, <2>1, <2>2, EntryNext
    <2> HIDE DEF e
    <2>4. [q \in Repos |-> Entry(q)]' = [i EXCEPT ![r] = e]
        BY <2>3, OneEntry
    <2>5. UNCHANGED (fingerprint # None)
        BY DEF SameModels
    <2> HIDE DEF i
    <2>6. Atomic!DropChunks(r)
        BY <1>1, <2>1, <2>4, <2>5 DEF Atomic!DropChunks, e, i
    <2> QED
        BY <2>6
<1> QED
    BY <1>2, <1>3

LEMMA ClearEdgesDrops ==
    ASSUME AtomicInv, NEW r \in Repos, ClearedEdges(r),
           \A q \in Repos : Agrees(q) /\ Agrees(q)', SameModels,
           \A q \in Repos \ {r} : SameEntry(q)
    PROVE  Unnoticed \/ Atomic!DropGraph(r)
<1> DEFINE i == [q \in Repos |-> Entry(q)]
<1>1. /\ IInv /\ i[r] = Entry(r) /\ TakenFor(r)' = None /\ TakenFor(r) = None
      /\ ContentOf(db'.rows[r]) = 0 /\ ContentOf(db.rows[r]) = 0
    BY DEF AtomicInv, TakenFor, ContentOf, ClearedEdges
<1>2. CASE db.status[r] = None \/ GraphOf(db.status[r], db.edges[r]) = None
    <2>1. /\ db'.status[r] = db.status[r]
          /\ db.status[r] # None => GraphOf(db'.status[r], db'.edges[r]) = GraphOf(db.status[r], db.edges[r])
        <3>1. None \notin Contents /\ 0 \in Contents
            BY EntriesAssumption, VersionsAssumption
        <3>2. db.edges[r] \in EdgeRows \cup {None}
            BY <1>1 DEF IInv, TypeOK, Tables
        <3>3. ContentOf(db.edges[r]) # None
            BY <3>1, <3>2, ContentType
        <3> QED
            BY <1>2, <3>3 DEF GraphOf, ClearedEdges
    <2>2. Entry(r)' = Entry(r)
        BY <1>1, <2>1, EntryNow, EntryNext
    <2>3. \A q \in Repos : Entry(q)' = Entry(q)
        BY <2>2, SameEntryStutters
    <2> QED
        BY <2>3 DEF Unnoticed
<1>3. CASE db.status[r] # None /\ GraphOf(db.status[r], db.edges[r]) # None
    <2> DEFINE e == [i[r] EXCEPT !.graph = 0]
    <2>1. /\ Entry(r) # None /\ Entry(r).chunks = 0
          /\ Entry(r) = [sha |-> db.status[r].sha, chunks |-> 0, model |-> None,
                         graph |-> GraphOf(db.status[r], db.edges[r])]
        BY <1>1, <1>3, EntryParts
    <2>2. db'.status[r] = db.status[r] /\ GraphOf(db'.status[r], db'.edges[r]) = 0
        BY <1>3 DEF ClearedEdges, GraphOf, ContentOf
    <2>3. e = [sha |-> db.status[r].sha, chunks |-> 0, model |-> None, graph |-> 0]
        BY <1>1, <2>1, EntryFields
    <2>4. Entry(r)' = [sha |-> db.status[r].sha, chunks |-> 0, model |-> None, graph |-> 0]
        BY <1>1, <1>3, <2>2, EntryNext
    <2> HIDE DEF e
    <2>5. [q \in Repos |-> Entry(q)]' = [i EXCEPT ![r] = e]
        BY <2>3, <2>4, OneEntry
    <2>6. UNCHANGED (fingerprint # None)
        BY DEF SameModels
    <2> HIDE DEF i
    <2>7. Atomic!DropGraph(r)
        BY <1>1, <2>1, <2>5, <2>6 DEF Atomic!DropGraph, e, i
    <2> QED
        BY <2>7
<1> QED
    BY <1>2, <1>3

LEMMA ClearStatusEmpties ==
    ASSUME AtomicInv, NEW p \in Procs, NEW r \in Repos, NEW s \in Versions, s = call[p][r].sha,
           ClearedStatus(p, r), \A q \in Repos : Agrees(q) /\ Agrees(q)', SameModels,
           \A q \in Repos \ {r} : SameEntry(q), Atomic!Due(r, s)
    PROVE  Atomic!Empty(r, s)
<1> DEFINE i == [q \in Repos |-> Entry(q)]
           g == GraphOf(db'.status[r], db'.edges[r])
           e == [sha |-> s, chunks |-> 0, graph |-> g, model |-> None]
<1>1. /\ IInv /\ i[r] = Entry(r) /\ TakenFor(r)' = None
      /\ ContentOf(db'.rows[r]) = 0 /\ ContentOf(db.rows[r]) = 0
    BY DEF AtomicInv, TakenFor, ContentOf, ClearedStatus
<1>2. db'.status[r].sha = s /\ db'.status[r].edges = (IF kg[p] THEN 0 ELSE -1) /\ db'.status[r] # None
    BY DEF ClearedStatus
<1>3. g \in {0, None}
    <2>1. CASE kg[p]
        BY <1>2, <2>1 DEF ClearedStatus, GraphOf, ContentOf
    <2>2. CASE ~kg[p]
        <3>1. ~(db'.status[r].edges >= 0)
            BY <1>2, <2>2
        <3> QED
            BY <3>1 DEF GraphOf
    <2> QED
        BY <2>1, <2>2
<1>4. Entry(r)' = e
    BY <1>1, <1>2, EntryNext
<1>5. i[r] # None => i[r].chunks = 0
    <2>1. db.status[r] = None => Entry(r) = None
        BY EntryNow
    <2>2. db.status[r] # None => Entry(r).chunks = 0
        BY <1>1, EntryParts
    <2> QED
        BY <1>1, <2>1, <2>2
<1> HIDE DEF g
<1>6. [q \in Repos |-> Entry(q)]' = [i EXCEPT ![r] = e]
    BY <1>4, OneEntry
<1>7. UNCHANGED (fingerprint # None)
    BY DEF SameModels
<1> QED
    BY <1>3, <1>5, <1>6, <1>7 DEF Atomic!Empty

\* A new version of the extractor takes every graph away.
LEMMA UnbuiltUnbuilds ==
    ASSUME AtomicInv, \A q \in Repos : Agrees(q) /\ Agrees(q)', db' = GraphsUnbuilt(db), SameModels
    PROVE  Atomic!UnbuildGraphs
<1> DEFINE i == [q \in Repos |-> Entry(q)]
           Unbuilt(e) == IF e = None THEN None ELSE [e EXCEPT !.graph = None]
<1>1. IInv /\ db \in Tables
    BY DEF AtomicInv, IInv, TypeOK
<1>2. ASSUME NEW r \in Repos PROVE Entry(r)' = Unbuilt(i[r])
    <2>1. i[r] = Entry(r)
        OBVIOUS
    <2>2. TakenFor(r)' = TakenFor(r) /\ db'.rows = db.rows
        BY <1>1, GraphsUnbuiltRows DEF TakenFor, SameModels
    <2>3. CASE db.status[r] = None
        <3>1. db'.status[r] = None
            BY <1>1, <2>3, GraphsUnbuiltRows
        <3> QED
            BY <2>1, <2>3, <3>1, EntryNow, EntryNext
    <2>4. CASE db.status[r] # None
        <3>1. db'.status[r] # None /\ db'.status[r].sha = db.status[r].sha /\ db'.status[r].edges = -1
            BY <1>1, <2>4, GraphsUnbuiltRows
        <3>2. GraphOf(db'.status[r], db'.edges[r]) = None
            <4>1. ~(-1 >= 0)
                OBVIOUS
            <4> QED
                BY <3>1, <4>1 DEF GraphOf
        <3>3. /\ Entry(r) # None
              /\ Entry(r) = [sha |-> db.status[r].sha, chunks |-> ContentOf(db.rows[r]),
                             model |-> TakenFor(r), graph |-> GraphOf(db.status[r], db.edges[r])]
            BY <1>1, <2>4, EntryParts
        <3>4. [Entry(r) EXCEPT !.graph = None]
                  = [sha |-> db.status[r].sha, chunks |-> ContentOf(db.rows[r]),
                     model |-> TakenFor(r), graph |-> None]
            BY <3>3, EntryFields
        <3> QED
            BY <2>1, <2>2, <3>1, <3>2, <3>3, <3>4, EntryNext
    <2> QED
        BY <2>3, <2>4
<1>3. [q \in Repos |-> Entry(q)]' = [r \in Repos |-> Unbuilt(i[r])]
    BY <1>2
<1>4. UNCHANGED (fingerprint # None)
    BY DEF SameModels
<1> QED
    BY <1>3, <1>4 DEF Atomic!UnbuildGraphs

\* What nobody recorded a model for is taken for the old releases' from now on.
LEMMA AdoptionAdopts ==
    ASSUME AtomicInv, \A q \in Repos : Agrees(q) /\ Agrees(q)', Adoption
    PROVE  Atomic!Adopt
<1> DEFINE i == [q \in Repos |-> Entry(q)]
           Adopted(e) == IF e = None \/ e.model = None THEN e ELSE [e EXCEPT !.model = Legacy]
<1>1. /\ IInv /\ db' = db /\ strays' = strays /\ fingerprint = None /\ fingerprint' = Legacy
      /\ Passes(db, Legacy) /\ Legacy # None
    BY NoneAssumption DEF AtomicInv, SwapInv, SwapDb, Adoption
<1>2. ASSUME NEW r \in Repos PROVE Entry(r)' = Adopted(i[r])
    <2>1. i[r] = Entry(r)
        OBVIOUS
    <2>2. /\ TakenFor(r)' = (IF db.rows[r] = None THEN None ELSE Legacy)
          /\ TakenFor(r) = (IF db.rows[r] = None THEN None ELSE db.rows[r].model)
        BY <1>1 DEF TakenFor, Passes
    <2>3. CASE db.status[r] = None
        BY <1>1, <2>1, <2>3, EntryNow, EntryNext
    <2>4. CASE db.status[r] # None
        <3>1. /\ Entry(r) # None /\ Entry(r).model = TakenFor(r)
              /\ Entry(r) = [sha |-> db.status[r].sha, chunks |-> ContentOf(db.rows[r]),
                             model |-> TakenFor(r), graph |-> GraphOf(db.status[r], db.edges[r])]
            BY <1>1, <2>4, EntryParts
        <3>2. Entry(r)' = [sha |-> db.status[r].sha, chunks |-> ContentOf(db.rows[r]),
                           model |-> TakenFor(r)', graph |-> GraphOf(db.status[r], db.edges[r])]
            BY <1>1, <2>4, EntryNext
        <3>3. [Entry(r) EXCEPT !.model = Legacy]
                  = [sha |-> db.status[r].sha, chunks |-> ContentOf(db.rows[r]),
                     model |-> Legacy, graph |-> GraphOf(db.status[r], db.edges[r])]
            BY <3>1, EntryFields
        <3>4. db.rows[r] # None => TakenFor(r) # None
            BY <1>1, <2>2, NoneAssumption DEF IInv, TypeOK, Tables, ChunkRows
        <3> QED
            BY <2>1, <2>2, <3>1, <3>2, <3>3, <3>4
    <2> QED
        BY <2>3, <2>4
<1>3. [q \in Repos |-> Entry(q)]' = [r \in Repos |-> Adopted(i[r])]
    BY <1>2
<1>4. ~(fingerprint # None) /\ (fingerprint # None)' = TRUE
    BY <1>1
<1> QED
    BY <1>3, <1>4 DEF Atomic!Adopt

LEMMA InitAtomic == Init => Atomic!Init
<1> SUFFICES ASSUME Init PROVE Atomic!Init
    OBVIOUS
<1>1. /\ IInv /\ fingerprint = None /\ \A r \in Repos : Agrees(r)
    BY InitAtomicInv DEF Init, AtomicInv, AgreeInv
<1>2. PICK S \in SUBSET Repos : db = LegacyTables(S)
    BY DEF Init
<1> DEFINE status == [sha |-> 1, chunks |-> ChunksOf[1], edges |-> -1, fresh |-> TRUE]
           row == IF ChunksOf[1] = 0 THEN None ELSE [content |-> 1, sha |-> 1, model |-> Legacy]
           c == IF ChunksOf[1] = 0 THEN 0 ELSE 1
           m == IF ChunksOf[1] = 0 THEN None ELSE Legacy
           e == [sha |-> 1, chunks |-> c, model |-> m, graph |-> None]
<1>3. /\ status.sha = 1 /\ status.edges = -1
      /\ ChunksOf[1] # 0 => row # None /\ row.content = 1 /\ row.model = Legacy
      /\ ChunksOf[1] = 0 => row = None
    <2>1. 1 \in Versions /\ 1 \in Contents
        BY VersionsAssumption DEF Versions, Contents
    <2>2. [content |-> 1, sha |-> 1, model |-> Legacy] \in ChunkRows
        BY <2>1 DEF ChunkRows
    <2> QED
        BY <2>2, NoneAssumption
<1> HIDE DEF status, row
<1>4. \A r \in Repos : /\ db.status[r] = IF r \in S THEN status ELSE None
                       /\ db.rows[r] = IF r \in S THEN row ELSE None
    BY <1>2 DEF LegacyTables, status, row
<1>5. ASSUME NEW r \in Repos PROVE Entry(r) \in {None, e}
    <2>1. CASE db.status[r] = None
        BY <1>1, <2>1, EntryNow
    <2>2. CASE db.status[r] # None
        <3>1. db.status[r] = status /\ db.rows[r] = row
            BY <1>4, <2>2
        <3>2. ContentOf(db.rows[r]) = c /\ TakenFor(r) = m
            BY <1>1, <1>3, <3>1 DEF ContentOf, TakenFor
        <3>3. GraphOf(db.status[r], db.edges[r]) = None
            <4>1. ~(-1 >= 0)
                OBVIOUS
            <4> QED
                BY <1>3, <3>1, <4>1 DEF GraphOf
        <3> HIDE DEF c, m
        <3> QED
            BY <1>1, <1>3, <2>2, <3>1, <3>2, <3>3, EntryNow
    <2> QED
        BY <2>1, <2>2
<1>6. 1 \in Versions /\ c \in {0, 1} /\ m \in {None, Legacy}
    BY VersionsAssumption DEF Versions
<1> HIDE DEF c, m
<1>7. [r \in Repos |-> Entry(r)] \in [Repos -> {None, e}]
    BY <1>5
<1>8. (fingerprint # None) = FALSE
    BY <1>1
<1> QED
    BY <1>6, <1>7, <1>8 DEF Atomic!Init

\* Every step of one process, a crash included, is a step of AtomicIndex or none.
LEMMA NextAtomic ==
    ASSUME OneProcess, AtomicInv, [Next]_vars
    PROVE  Atomic!Next \/ (Unnoticed /\ UNCHANGED (fingerprint # None))
<1>1. TablesStep /\ IInv /\ SwapInv /\ SeenInv /\ AgreeInv
    BY NextAtomicInv DEF AtomicInv
<1>2. \A q \in Repos : Agrees(q) /\ Agrees(q)'
    BY <1>1, NextAtomicInv DEF AgreeInv, AtomicInv
<1>3. ASSUME \A r \in Repos : SameEntry(r), fingerprint' = fingerprint \/ fingerprint' # None
      PROVE  Atomic!Next \/ (Unnoticed /\ UNCHANGED (fingerprint # None))
    <2>1. Unnoticed
        BY <1>2, <1>3, SameEntryStutters DEF Unnoticed
    <2>2. CASE fingerprint' = fingerprint
        BY <2>1, <2>2
    <2>3. CASE fingerprint' # None
        <3>1. (fingerprint # None)' = TRUE
            BY <2>3
        <3>2. Atomic!Stamp
            BY <2>1, <3>1 DEF Atomic!Stamp, Unnoticed
        <3> QED
            BY <3>2 DEF Atomic!Next
    <2> QED
        BY <1>3, <2>2, <2>3
<1>4. CASE db' = GraphsUnbuilt(db) /\ SameModels
    BY <1>2, <1>4, UnbuiltUnbuilds DEF Atomic!Next
<1>5. CASE SameModels /\ \A r \in Repos : db'.status[r] = None /\ db'.rows[r] = None
    <2>1. \A r \in Repos : Entry(r)' = None
        BY <1>2, <1>5, EntryNext
    <2>2. [r \in Repos |-> Entry(r)]' = [r \in Repos |-> None]
        BY <2>1
    <2>3. UNCHANGED (fingerprint # None)
        BY <1>5 DEF SameModels
    <2>4. Atomic!Forget
        BY <2>2, <2>3 DEF Atomic!Forget
    <2> QED
        BY <2>4 DEF Atomic!Next
<1>6. CASE Adoption
    BY <1>2, <1>6, AdoptionAdopts DEF Atomic!Next
<1>7. ASSUME NEW p \in Procs, Commit(p) PROVE Atomic!Next
    <2>1. PICK s \in Versions, v \in Contents, m \in Models :
              job[p] \in Repos /\ Atomic!Publish(job[p], s, v, m)
        BY <1>2, <1>7, CommitPublishes
    <2>2. m \in Models \cup {Legacy}
        OBVIOUS
    <2> QED
        BY <2>1, <2>2 DEF Atomic!Next
<1>8. ASSUME NEW p \in Procs, ClearRows(p) \/ ClearEdges(p) \/ ClearStatus(p)
      PROVE  Atomic!Next \/ (Unnoticed /\ UNCHANGED (fingerprint # None))
    <2>1. PICK r \in Repos : r = job[p]
        BY <1>1, <1>8, ClearTables
    <2>2. /\ call[p][r].step = "writing" /\ call[p][r].sha \in Versions
          /\ Agree(call[p][r].seen, db.status[r]) /\ ~RefreshSuffices(p, call[p][r].seen, call[p][r].sha)
          /\ SameModels /\ \A q \in Repos \ {r} : SameEntry(q)
          /\ ClearRows(p) => ClearedRows(r)
          /\ ClearEdges(p) => ClearedEdges(r)
          /\ ClearStatus(p) => ClearedStatus(p, r)
        BY <1>1, <1>8, <2>1, ClearTables
    <2>3. UNCHANGED (fingerprint # None)
        BY <2>2 DEF SameModels
    <2>4. CASE ClearRows(p)
        <3>1. Unnoticed \/ Atomic!DropChunks(r)
            BY <1>2, <2>2, <2>4, ClearRowsDrops
        <3> QED
            BY <2>3, <3>1 DEF Atomic!Next
    <2>5. CASE ClearEdges(p)
        <3>1. Unnoticed \/ Atomic!DropGraph(r)
            BY <1>2, <2>2, <2>5, ClearEdgesDrops
        <3> QED
            BY <2>3, <3>1 DEF Atomic!Next
    <2>6. CASE ClearStatus(p)
        <3>1. Atomic!Due(r, call[p][r].sha)
            BY <2>2, BuildIsDue
        <3>2. Atomic!Empty(r, call[p][r].sha)
            BY <1>2, <2>2, <2>6, <3>1, ClearStatusEmpties
        <3> QED
            BY <2>2, <3>2 DEF Atomic!Next
    <2> QED
        BY <1>8, <2>4, <2>5, <2>6
<1> QED
    BY <1>1, <1>3, <1>4, <1>5, <1>6, <1>7, <1>8 DEF TablesStep

\* While one process uses the cache, the index is what AtomicIndex promises: a build
\* replaces the chunks and the graph of a repository at once, with a later version or
\* to build its graph, the process is killed in whatever statement, upstream answers
\* with whatever shells and pages without a SHA, graphs are disabled or not, and the
\* default model is the legacy one or not.
THEOREM IndexerImplementsAtomicIndex ==
    ASSUME OneProcess
    PROVE  Spec => AtomicSpec
<1>1. Init => AtomicInv /\ Atomic!Init
    BY InitAtomicInv, InitAtomic
<1>2. AtomicInv /\ [Next]_vars => AtomicInv'
    BY NextAtomicInv
<1>3. AtomicInv /\ [Next]_vars => [Atomic!Next]_<<[r \in Repos |-> Entry(r)], fingerprint # None>>
    <2> SUFFICES ASSUME AtomicInv, [Next]_vars
                 PROVE  Atomic!Next \/ UNCHANGED <<[r \in Repos |-> Entry(r)], fingerprint # None>>
        OBVIOUS
    <2> QED
        BY NextAtomic DEF Unnoticed
<1> QED
    BY <1>1, <1>2, <1>3, PTL DEF Spec, AtomicSpec, Atomic!Spec, Atomic!vars
=============================================================================
