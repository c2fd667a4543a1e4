------------------------------ MODULE MCIndexer ------------------------------
(* Small instances of Indexer for TLC. *)
EXTENDS Indexer, TLC

\* Every content but the empty shell has chunks and edges.
SomeChunks == [v \in Contents |-> IF v = 0 THEN 0 ELSE v]
SomeEdges == [v \in Contents |-> IF v = 0 THEN 0 ELSE 1]

\* The models are told apart by Legacy.
Symmetry == Permutations(Procs) \cup Permutations(Repos)

\* What a reader finds of r: the status row, the chunks it counts, and the graph if the
\* row says it was built.  Tables that disagree with the status row map to an entry
\* that AtomicIndex never makes.
Torn == [sha |-> 0, chunks |-> 0, model |-> None, graph |-> None]

Agrees(r) ==
    LET s == db.status[r]
        c == db.rows[r]
        e == db.edges[r]
    IN  /\ c # None => s # None /\ s.sha = c.sha /\ s.chunks = ChunksOf[c.content]
        /\ s # None /\ e # None /\ s.edges >= 0 => s.edges = EdgesOf[e.content]

\* The model that the chunks of r are taken for: strays that were adopted are taken
\* for the legacy model's.
TakenFor(r) ==
    IF db.rows[r] = None THEN None
    ELSE IF r \in strays /\ fingerprint # None THEN Legacy ELSE db.rows[r].model

ContentOf(row) == IF row = None THEN 0 ELSE row.content

\* The graph that the status row and the edges of r show.
GraphOf(s, e) == IF s.edges >= 0 THEN ContentOf(e) ELSE None

Entry(r) ==
    IF ~Agrees(r) THEN Torn
    ELSE IF db.status[r] = None THEN None
    ELSE [sha    |-> db.status[r].sha,
          chunks |-> ContentOf(db.rows[r]),
          model  |-> TakenFor(r),
          graph  |-> GraphOf(db.status[r], db.edges[r])]

Atomic == INSTANCE AtomicIndex WITH
            Models <- Models \cup {Legacy},
            index <- [r \in Repos |-> Entry(r)],
            stamped <- fingerprint # None

\* null is no entry and no content.
ASSUME EntriesAssumption == None \notin Atomic!Entries /\ None \notin Contents

AtomicSpec == Atomic!Spec
=============================================================================
