------------------------------ MODULE AtomicIndex ------------------------------
(***************************************************************************)
(* What src/src/services/indexer.ts and the startup hook of                *)
(* src/src/index.ts promise the readers of the index when one process uses *)
(* the cache.  A build replaces the chunks and the graph of a repository   *)
(* at once, and only when the wiki's version moved on or the graph is      *)
(* missing; a wiki that became empty is emptied part by part; all chunks   *)
(* are of one embedding model, where an index whose model was never        *)
(* recorded is taken for the one of the old releases.                      *)
(***************************************************************************)
EXTENDS Naturals

\* Content 0 is the empty one.
CONSTANTS Repos, Versions, Contents, Models, Legacy, None

VARIABLES
    index,    \* index[r]: what readers find of r, None when not indexed
    stamped   \* the model of the index was recorded

vars == <<index, stamped>>

\* `sha` names the version; `chunks` and `graph` are of one content each, and there may
\* be no graph; `model` is that of the chunks.
Entries == [sha : Versions, chunks : Contents, model : Models \cup {None},
            graph : Contents \cup {None}]

\* An old release may have left an index, of its model and without graphs.
Init ==
    /\ \E v \in Versions, m \in {None, Legacy} : \E c \in {0, v} :
          index \in [Repos -> {None, [sha |-> v, chunks |-> c, model |-> m, graph |-> None]}]
    /\ stamped = FALSE

\* A build of version s is due.
Due(r, s) ==
    index[r] # None => \/ index[r].sha < s
                       \/ index[r].sha = s /\ index[r].graph = None

\* The graph of r stays when graphs are disabled.
KeptGraph(r) == IF index[r] = None THEN None ELSE index[r].graph

\* A build of content v becomes visible, with chunks of model m.
Publish(r, s, v, m) ==
    /\ Due(r, s)
    /\ \A q \in Repos : index[q] # None => index[q].model \in {None, m}
    /\ \E c \in {0, v}, g \in {0, v, KeptGraph(r)} :
          index' = [index EXCEPT ![r] = [sha |-> s, chunks |-> c, graph |-> g,
                                         model |-> IF c = 0 THEN None ELSE m]]
    /\ UNCHANGED stamped

\* A wiki became empty: its chunks go, then its graph, then the version is recorded.
DropChunks(r) ==
    /\ index[r] # None
    /\ index' = [index EXCEPT ![r] = [sha |-> @.sha, chunks |-> 0, model |-> None, graph |-> @.graph]]
    /\ UNCHANGED stamped

DropGraph(r) ==
    /\ index[r] # None
    /\ index[r].chunks = 0
    /\ index' = [index EXCEPT ![r] = [@ EXCEPT !.graph = 0]]
    /\ UNCHANGED stamped

Empty(r, s) ==
    /\ Due(r, s)
    /\ index[r] # None => index[r].chunks = 0
    /\ \E g \in {0, None} :
          index' = [index EXCEPT ![r] = [sha |-> s, chunks |-> 0, graph |-> g, model |-> None]]
    /\ UNCHANGED stamped

\* The model of the chunks is recorded.
Stamp ==
    /\ stamped' = TRUE
    /\ UNCHANGED index

\* The old releases' model is recorded, of whichever model the chunks are.
Adopt ==
    /\ ~stamped
    /\ stamped' = TRUE
    /\ index' = [r \in Repos |->
                    IF index[r] = None \/ index[r].model = None THEN index[r]
                    ELSE [index[r] EXCEPT !.model = Legacy]]

\* The extractor's version moved: every graph has to be built again.
UnbuildGraphs ==
    /\ index' = [r \in Repos |->
                    IF index[r] = None THEN None ELSE [index[r] EXCEPT !.graph = None]]
    /\ UNCHANGED stamped

\* The embedding model was swapped.
Forget ==
    /\ index' = [r \in Repos |-> None]
    /\ UNCHANGED stamped

Next ==
    \/ Stamp \/ Adopt \/ UnbuildGraphs \/ Forget
    \/ \E r \in Repos :
          \/ DropChunks(r) \/ DropGraph(r)
          \/ \E s \in Versions :
                \/ Empty(r, s)
                \/ \E v \in Contents, m \in Models : Publish(r, s, v, m)

Spec == Init /\ [][Next]_vars
=============================================================================
