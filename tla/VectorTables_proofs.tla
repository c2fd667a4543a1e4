-------------------------- MODULE VectorTables_proofs --------------------------
(***************************************************************************)
(* Theorems about VectorTables, for every set of processes, repositories,  *)
(* sections, texts and models, every number of rowids and every length of  *)
(* a page.  Types, and that nothing is hidden, hold whichever processes    *)
(* share cache.db; the others where all of them write the virtual tables   *)
(* (MixedWriters is FALSE: README, Deviations, says what the code does     *)
(* otherwise).                                                             *)
(***************************************************************************)
EXTENDS VectorTables, WellFoundedInduction, TLAPS

Stamps == [model : Dims, dim : Dims]
Db == [chunks : Table(Chunk), vec : Table(Embedding), fts : Table(Texts), schema : 5..7,
       vecDim : Dims \cup {None}, fingerprint : Stamps \cup {None},
       status : BOOLEAN, adopted : BOOLEAN]

Stamped(dim) == [model |-> dim, dim |-> dim]

\* The model that the rows of a database are taken to be of.
Stamp(d) == IF d.fingerprint = None THEN Stamped(LegacyDim) ELSE d.fingerprint

\* A fingerprint that was adopted, and not changed since by the migration of vec_chunks,
\* says nothing of vec_chunks.
Vouched(d) ==
    \/ d.fingerprint # None /\ (~d.adopted \/ d.fingerprint.model # d.fingerprint.dim)
    \/ ~IsEmpty(d.chunks)

\* All chunks are of that model, and vec_chunks takes what it embeds.
OneModel(d) ==
    /\ \A i \in DOMAIN d.chunks : d.chunks[i].dim = Stamp(d).model
    /\ d.schema >= 6 /\ Vouched(d) => d.vecDim = Stamp(d).dim

\* A row of a virtual table is the chunk's own where there is a chunk.
Matching(d) ==
    \A i \in DOMAIN d.chunks :
        /\ i \in DOMAIN d.vec => d.vec[i] = Embedded(d.chunks[i])
        /\ i \in DOMAIN d.fts => d.fts[i] = d.chunks[i].text

\* The virtual tables have no rows before the migration that fills them.
Unfilled(d) == (d.schema < 6 => IsEmpty(d.vec)) /\ (d.schema < 7 => IsEmpty(d.fts))

\* Behind it they have a row for every chunk, but for torn repositories.
Covered(d, T) ==
    \A i \in DOMAIN d.chunks : d.chunks[i].repo \notin T =>
        /\ d.schema >= 6 => i \in DOMAIN d.vec
        /\ d.schema >= 7 => i \in DOMAIN d.fts

\* A repository has one chunk for a section: the PRIMARY KEY of chunks.
Unique(d) ==
    \A i, j \in DOMAIN d.chunks :
        d.chunks[i].repo = d.chunks[j].repo /\ d.chunks[i].section = d.chunks[j].section => i = j

Sound(d, T) == d \in Db /\ OneModel(d) /\ Matching(d) /\ Unfilled(d) /\ Covered(d, T)

\* The database a process with this model runs on, from the end of its boot.
Serves(d, dim) == IF d.fingerprint = None THEN IsEmpty(d.chunks) ELSE d.fingerprint = Stamped(dim)

Drops == {"drop_fts", "drop_vec", "drop_chunks", "drop_status"}

\* What a process found when it opened the database, and goes on to rely on.
Opener(p) ==
    /\ proc[p].phase # "down" => Serves(db, proc[p].dim)
    /\ proc[p].phase \notin {"down", "booting"} => proc[p].vec /\ proc[p].fts /\ db.schema = 7
    /\ proc[p].phase \in Drops => proc[p].repo \in Repos

OneDim == \A p, q \in Procs :
    proc[p].phase # "down" /\ proc[q].phase # "down" => proc[p].dim = proc[q].dim

\* The inductive invariant: the tables are sound, and every process relies on what
\* still holds.
IInv == TypeOK /\ Sound(db, torn) /\ OneDim /\ \A p \in Procs : Opener(p)

-----------------------------------------------------------------------------
(* Numbers                                                                 *)

LEMMA LeastNatural == ASSUME NEW S \in SUBSET Nat, S # {} PROVE \E n \in S : \A m \in S : n <= m
<1> DEFINE less == OpToRel(<, Nat)
<1>1. IsWellFoundedOn(less, Nat)
    BY NatLessThanWellFounded
<1>2. PICK n \in S : \A m \in S : <<m, n>> \notin less
    <2> HIDE DEF less
    <2> QED
        BY <1>1, WFMin
<1>3. \A m \in S : m < n => <<m, n>> \in less
    BY DEF OpToRel
<1> HIDE DEF less
<1>4. \A m \in S : ~(m < n)
    BY <1>2, <1>3
<1>5. \A m \in S : m \in Nat /\ n \in Nat
    OBVIOUS
<1> QED
    BY <1>4, <1>5

\* Induction, for the set of the numbers that have the property.
LEMMA NaturalsByStep ==
    ASSUME NEW S \in SUBSET Nat, 0 \in S, \A n \in S : n + 1 \in S
    PROVE  S = Nat
<1> DEFINE T == Nat \ S
<1> SUFFICES ASSUME T # {} PROVE FALSE
    OBVIOUS
<1>1. PICK n \in T : \A m \in T : n <= m
    <2>1. T \in SUBSET Nat /\ T # {}
        OBVIOUS
    <2> HIDE DEF T
    <2> QED
        BY <2>1, LeastNatural
<1>2. n \in Nat /\ n # 0 /\ n - 1 \in Nat /\ (n - 1) + 1 = n /\ ~(n <= n - 1)
    BY <1>1
<1>3. n - 1 \in S
    BY <1>1, <1>2
<1> QED
    BY <1>1, <1>2, <1>3

\* Rowids in use have a highest one.
LEMMA HighestRow ==
    ASSUME NEW S \in SUBSET (1..MaxRow), S # {}
    PROVE  \E i \in S : \A j \in S : j <= i
<1> DEFINE bounds == {n \in Nat : \A j \in S : j <= n}
<1>0. MaxRow \in Nat /\ S \subseteq Nat \ {0}
    BY TablesAssumption
<1>1. bounds \in SUBSET Nat /\ MaxRow \in bounds
    BY <1>0
<1>2. PICK n \in bounds : \A m \in bounds : n <= m
    <2> HIDE DEF bounds
    <2> QED
        BY <1>1, LeastNatural
<1>3. n \in S
    <2> SUFFICES ASSUME n \notin S PROVE FALSE
        OBVIOUS
    <2>1. \A j \in S : j \in Nat /\ j # 0 /\ j <= n /\ j # n
        BY <1>0
    <2>2. n \in Nat /\ n # 0
        <3>1. PICK j \in S : TRUE
            OBVIOUS
        <3> QED
            BY <3>1, <2>1, <1>2
    <2>3. n - 1 \in bounds
        BY <2>1, <2>2
    <2> QED
        BY <1>2, <2>2, <2>3
<1> QED
    BY <1>3

-----------------------------------------------------------------------------
(* Tables                                                                  *)

LEMMA TableFacts ==
    ASSUME NEW S, NEW t \in Table(S)
    PROVE  /\ DOMAIN t \in SUBSET (1..MaxRow) /\ t \in [DOMAIN t -> S]
           /\ \A i \in DOMAIN t : t[i] \in S
    BY DEF Table

LEMMA NoRowsTable == ASSUME NEW S PROVE NoRows \in Table(S) /\ IsEmpty(NoRows)
<1>1. NoRows \in [{} -> S] /\ {} \in SUBSET (1..MaxRow)
    BY DEF NoRows
<1> QED
    BY <1>1 DEF Table, IsEmpty, NoRows

LEMMA WithoutTable ==
    ASSUME NEW S, NEW t \in Table(S), NEW rows
    PROVE  /\ Without(t, rows) \in Table(S)
           /\ DOMAIN Without(t, rows) = DOMAIN t \ rows
           /\ \A i \in DOMAIN t \ rows : Without(t, rows)[i] = t[i]
<1>1. Without(t, rows) = [i \in DOMAIN t \ rows |-> t[i]]
    BY DEF Without, Restrict
<1>2. [i \in DOMAIN t \ rows |-> t[i]] \in [DOMAIN t \ rows -> S]
    BY TableFacts
<1>3. DOMAIN t \ rows \in SUBSET (1..MaxRow)
    BY TableFacts
<1> QED
    BY <1>1, <1>2, <1>3 DEF Table

LEMMA PutTable ==
    ASSUME NEW S, NEW t \in Table(S), NEW row \in 1..MaxRow, NEW value \in S
    PROVE  /\ PutAt(t, row, value) \in Table(S)
           /\ DOMAIN PutAt(t, row, value) = DOMAIN t \cup {row}
           /\ PutAt(t, row, value)[row] = value
           /\ \A i \in DOMAIN t : i # row => PutAt(t, row, value)[i] = t[i]
<1> DEFINE put == [i \in DOMAIN t \cup {row} |-> IF i = row THEN value ELSE t[i]]
<1>1. put \in [DOMAIN t \cup {row} -> S]
    BY TableFacts
<1>2. DOMAIN t \cup {row} \in SUBSET (1..MaxRow)
    BY TableFacts
<1>3. PutAt(t, row, value) = put
    BY DEF PutAt
<1> QED
    BY <1>1, <1>2, <1>3 DEF Table

LEMMA DbFacts ==
    ASSUME NEW d \in Db
    PROVE  /\ d.chunks \in Table(Chunk) /\ d.vec \in Table(Embedding) /\ d.fts \in Table(Texts)
           /\ d.schema \in 5..7 /\ d.vecDim \in Dims \cup {None} /\ d.fingerprint \in Stamps \cup {None}
           /\ d.status \in BOOLEAN /\ d.adopted \in BOOLEAN
    BY DEF Db

LEMMA ChunkFacts ==
    ASSUME NEW d \in Db, NEW i \in DOMAIN d.chunks
    PROVE  /\ d.chunks[i] \in Chunk /\ d.chunks[i].repo \in Repos
           /\ d.chunks[i].text \in Texts /\ d.chunks[i].dim \in Dims
           /\ Embedded(d.chunks[i]) \in Embedding
<1>1. d.chunks[i] \in Chunk
    BY DbFacts, TableFacts
<1> QED
    BY <1>1 DEF Chunk, Embedding, Embedded

LEMMA NextRowIsFree ==
    ASSUME NEW d \in Db
    PROVE  NextRow(d) \in Nat \ {0} /\ \A i \in DOMAIN d.chunks : i < NextRow(d)
<1> DEFINE rows == DOMAIN d.chunks
           Highest(i) == \A j \in rows : j <= i
<1>1. rows \in SUBSET (1..MaxRow) /\ MaxRow \in Nat
    BY DbFacts, TableFacts, TablesAssumption
<1>2. CASE rows = {}
    BY <1>2 DEF NextRow, IsEmpty
<1>3. CASE rows # {}
    <2>1. NextRow(d) = 1 + CHOOSE i \in rows : Highest(i)
        BY <1>3 DEF NextRow, IsEmpty
    <2>2. \E i \in rows : Highest(i)
        BY <1>1, <1>3, HighestRow
    <2>3. PICK i \in rows : Highest(i) /\ NextRow(d) = 1 + i
        BY <2>1, <2>2
    <2> QED
        BY <2>3, <1>1
<1> QED
    BY <1>2, <1>3

LEMMA NextRowIsNext ==
    ASSUME NEW d \in Db, NEW i \in DOMAIN d.chunks, \A j \in DOMAIN d.chunks : j <= i
    PROVE  NextRow(d) = i + 1
<1>1. DOMAIN d.chunks \subseteq Nat
    BY DbFacts, TableFacts, TablesAssumption
<1>2. PICK k \in DOMAIN d.chunks : NextRow(d) = 1 + k /\ \A j \in DOMAIN d.chunks : j <= k
    BY DEF NextRow, IsEmpty
<1> QED
    BY <1>1, <1>2

-----------------------------------------------------------------------------
(* Opening: the migrations keep the tables sound                           *)

LEMMA WithVecKeeps ==
    ASSUME NEW d, NEW T, Sound(d, T), NEW dim \in Dims, NEW kind, MigratesVec(d, kind, dim)
    PROVE  LET v == WithVec(d, dim)
           IN  /\ Sound(v, T) /\ v.schema \in {6, 7} /\ v.chunks = d.chunks
               /\ Serves(d, dim) => Serves(v, dim)
<1>1. CASE d.schema >= 6
    BY <1>1, DbFacts DEF WithVec, Sound
<1>2. CASE ~(d.schema >= 6)
    <2> DEFINE rows == [i \in DOMAIN d.chunks |-> Embedded(d.chunks[i])]
               print == IF d.fingerprint = None THEN None ELSE [d.fingerprint EXCEPT !.dim = dim]
               v == WithVec(d, dim)
    <2>1. d \in Db /\ d.schema \in 5..7 /\ d.schema < 6 /\ \A i \in DOMAIN d.chunks : d.chunks[i].dim = dim
        BY <1>2, DbFacts DEF MigratesVec, Sound
    <2>2. rows \in Table(Embedding) /\ DOMAIN rows = DOMAIN d.chunks
        <3>1. rows \in [DOMAIN d.chunks -> Embedding]
            BY <2>1, ChunkFacts
        <3>2. DOMAIN d.chunks \in SUBSET (1..MaxRow)
            BY <2>1, DbFacts, TableFacts
        <3> QED
            BY <3>1, <3>2 DEF Table
    <2>3. /\ print \in Stamps \cup {None}
          /\ (d.fingerprint = None) <=> (print = None)
          /\ print # None => print.model = d.fingerprint.model /\ print.dim = dim
        <3>1. CASE d.fingerprint = None
            BY <3>1
        <3>2. CASE d.fingerprint # None
            <4>1. d.fingerprint \in Stamps
                BY <3>2, <2>1, DbFacts
            <4>2. /\ [d.fingerprint EXCEPT !.dim = dim] \in Stamps
                  /\ [d.fingerprint EXCEPT !.dim = dim].model = d.fingerprint.model
                  /\ [d.fingerprint EXCEPT !.dim = dim].dim = dim
                BY <4>1 DEF Stamps
            <4> QED
                BY <3>2, <4>2, TablesAssumption DEF Stamps
        <3> QED
            BY <3>1, <3>2
    <2>0. v = [d EXCEPT !.vec = rows, !.vecDim = dim, !.schema = 6, !.fingerprint = print]
        BY <1>2, <2>1 DEF WithVec, Db
    <2> HIDE DEF rows, print, v
    <2>4. /\ v \in Db /\ v.chunks = d.chunks /\ v.fts = d.fts /\ v.vec = rows
          /\ v.vecDim = dim /\ v.schema = 6 /\ v.fingerprint = print /\ v.adopted = d.adopted
        <3>1. /\ v.chunks = d.chunks /\ v.fts = d.fts /\ v.vec = rows
              /\ v.vecDim = dim /\ v.schema = 6 /\ v.fingerprint = print /\ v.adopted = d.adopted
            BY <2>0, <2>1 DEF Db
        <3>2. 6 \in 5..7
            OBVIOUS
        <3>3. v \in Db
            BY <2>0, <2>1, <2>2, <2>3, <3>2 DEF Db
        <3> QED
            BY <3>1, <3>3
    <2>5. OneModel(v)
        <3>1. d.fingerprint = None => Stamp(v) = Stamp(d)
            BY <2>3, <2>4 DEF Stamp
        <3>2. d.fingerprint # None => Stamp(v).model = Stamp(d).model /\ Stamp(v).dim = dim
            BY <2>3, <2>4 DEF Stamp
        <3>3. \A i \in DOMAIN v.chunks : v.chunks[i].dim = Stamp(v).model
            BY <3>1, <3>2, <2>4 DEF Sound, OneModel
        <3>4. d.fingerprint = None /\ ~IsEmpty(d.chunks) => Stamp(v).dim = dim
            BY <3>1, <2>1, <2>4 DEF Sound, OneModel, Stamp, IsEmpty, Stamped
        <3> QED
            BY <3>2, <3>3, <3>4, <2>3, <2>4 DEF OneModel, Vouched
    <2>6. Matching(v)
        BY <2>2, <2>4 DEF Sound, Matching, rows
    <2>7. Unfilled(v)
        BY <2>1, <2>4 DEF Sound, Unfilled
    <2>8. Covered(v, T)
        BY <2>2, <2>4 DEF Covered
    <2>9. Serves(d, dim) => Serves(v, dim)
        <3>1. CASE d.fingerprint = None
            BY <3>1, <2>3, <2>4 DEF Serves
        <3>2. CASE d.fingerprint # None
            <4>1. d.fingerprint = Stamped(dim) => print = Stamped(dim)
                BY <3>2 DEF Stamped, print
            <4> QED
                BY <4>1, <3>2, <2>3, <2>4 DEF Serves
        <3> QED
            BY <3>1, <3>2
    <2> QED
        BY <2>4, <2>5, <2>6, <2>7, <2>8, <2>9 DEF Sound, v
<1> QED
    BY <1>1, <1>2

LEMMA WithFtsKeeps ==
    ASSUME NEW d, NEW T, Sound(d, T), d.schema >= 6, NEW skipped, skipped \subseteq DOMAIN d.chunks,
           d.schema = 7 => skipped = {}
    PROVE  LET v == WithFts(d, skipped)
           IN  /\ Sound(v, T \cup ReposAt(d, skipped)) /\ v.schema = 7 /\ v.chunks = d.chunks
               /\ v.vec = d.vec /\ v.fingerprint = d.fingerprint
<1>0. d \in Db /\ d.schema \in {6, 7}
    BY DbFacts DEF Sound
<1>1. CASE d.schema = 7
    <2>1. WithFts(d, skipped) = d /\ ReposAt(d, skipped) = {}
        BY <1>1 DEF WithFts, ReposAt
    <2> QED
        BY <1>1, <2>1 DEF Sound, Covered
<1>2. CASE d.schema = 6
    <2> DEFINE left == DOMAIN d.chunks \ skipped
               rows == [i \in left |-> d.chunks[i].text]
               v == WithFts(d, skipped)
               T2 == T \cup ReposAt(d, skipped)
    <2>1. rows \in Table(Texts) /\ DOMAIN rows = left
        <3>1. rows \in [left -> Texts]
            BY <1>0, ChunkFacts
        <3>2. left \in SUBSET (1..MaxRow)
            BY <1>0, DbFacts, TableFacts
        <3> QED
            BY <3>1, <3>2 DEF Table
    <2>0. v = [d EXCEPT !.fts = rows, !.schema = 7]
        BY <1>0, <1>2 DEF WithFts, Db
    <2>9. \A i \in DOMAIN d.chunks : d.chunks[i].repo \notin T2 => d.chunks[i].repo \notin T /\ i \in left
        BY DEF ReposAt
    <2> HIDE DEF rows, v, T2, left
    <2>2. /\ v \in Db /\ v.chunks = d.chunks /\ v.fts = rows /\ v.vec = d.vec
          /\ v.vecDim = d.vecDim /\ v.schema = 7 /\ v.fingerprint = d.fingerprint /\ v.adopted = d.adopted
        <3>1. /\ v.chunks = d.chunks /\ v.fts = rows /\ v.vec = d.vec
              /\ v.vecDim = d.vecDim /\ v.schema = 7 /\ v.fingerprint = d.fingerprint /\ v.adopted = d.adopted
            BY <1>0, <2>0 DEF Db
        <3>2. 7 \in 5..7
            OBVIOUS
        <3>3. v \in Db
            BY <1>0, <2>0, <2>1, <3>2 DEF Db
        <3> QED
            BY <3>1, <3>3
    <2>3. OneModel(v)
        BY <1>2, <2>2 DEF Sound, OneModel, Stamp, Vouched
    <2>4. Matching(v)
        BY <2>1, <2>2 DEF Sound, Matching, rows
    <2>5. Unfilled(v)
        BY <2>2 DEF Unfilled
    <2>6. Covered(v, T2)
        BY <1>2, <2>1, <2>2, <2>9 DEF Sound, Covered
    <2> QED
        BY <2>2, <2>3, <2>4, <2>5, <2>6 DEF Sound, v, T2
<1> QED
    BY <1>0, <1>1, <1>2

\* Rows are skipped by the migration only, and are rows of chunks.
LEMMA SkippedRows ==
    ASSUME NEW d, NEW kind, NEW dim, NEW skipped \in Skippable(d, kind, dim)
    PROVE  /\ skipped \subseteq DOMAIN d.chunks
           /\ skipped = {} \/ (d.schema < 7 /\ MigratesFts(d, kind, dim))
    BY DEF Skippable

\* A process that loads the extensions migrates all the way, or not at all: behind an
\* embedding of another dimension.
LEMMA OpenedKeeps ==
    ASSUME ~MixedWriters, NEW d, NEW T, Sound(d, T), NEW dim \in Dims, NEW kind \in Kinds,
           NEW skipped \in Skippable(d, kind, dim)
    PROVE  LET v == Opened(d, kind, dim, skipped)
           IN  /\ Sound(v, T \cup ReposAt(d, skipped)) /\ v.chunks = d.chunks
               /\ MigratesFts(d, kind, dim) <=> MigratesVec(d, kind, dim)
               /\ MigratesVec(d, kind, dim) => v.schema = 7 /\ v.vec = WithVec(d, dim).vec
               /\ ~MigratesVec(d, kind, dim) =>
                    v = d /\ d.schema = 5 /\ \E i \in DOMAIN d.chunks : d.chunks[i].dim # dim
               /\ MigratesVec(d, kind, dim) /\ Serves(d, dim) => Serves(v, dim)
<1>1. kind \in {"full", "nobm25"}
    BY DEF Kinds
<1>2. MigratesFts(d, kind, dim) <=> MigratesVec(d, kind, dim)
    BY <1>1 DEF MigratesFts
<1>5. skipped \subseteq DOMAIN d.chunks /\ (skipped = {} \/ (d.schema < 7 /\ MigratesFts(d, kind, dim)))
    BY SkippedRows
<1>6. d \in Db /\ d.schema \in 5..7
    BY DbFacts DEF Sound
<1>3. CASE MigratesVec(d, kind, dim)
    <2> DEFINE v == WithVec(d, dim)
               w == WithFts(v, skipped)
    <2>1. /\ Sound(v, T) /\ v.schema \in {6, 7} /\ v.chunks = d.chunks
          /\ Serves(d, dim) => Serves(v, dim)
        BY <1>3, WithVecKeeps
    <2>2. Opened(d, kind, dim, skipped) = w
        BY <1>2, <1>3 DEF Opened
    <2>3. v.schema = 7 => skipped = {}
        <3>1. CASE d.schema = 7
            BY <1>5, <3>1
        <3>2. CASE d.schema = 6
            BY <3>2 DEF WithVec
        <3>3. CASE d.schema = 5
            <4>1. v.schema = 6
                BY <1>6, <3>3 DEF WithVec, Db
            <4> QED
                BY <4>1
        <3> QED
            BY <1>6, <3>1, <3>2, <3>3
    <2>4. ReposAt(v, skipped) = ReposAt(d, skipped)
        BY <2>1 DEF ReposAt
    <2> HIDE DEF v
    <2>5. /\ Sound(w, T \cup ReposAt(v, skipped)) /\ w.schema = 7 /\ w.chunks = v.chunks
          /\ w.vec = v.vec /\ w.fingerprint = v.fingerprint
        BY <1>5, <2>1, <2>3, WithFtsKeeps
    <2> HIDE DEF w
    <2>6. Serves(d, dim) => Serves(w, dim)
        BY <2>1, <2>5 DEF Serves
    <2> QED
        BY <1>2, <1>3, <2>1, <2>2, <2>4, <2>5, <2>6 DEF v
<1>4. CASE ~MigratesVec(d, kind, dim)
    <2>1. ~(d.schema >= 6)
        BY <1>1, <1>4, DbFacts DEF MigratesVec, Sound
    <2>2. \E i \in DOMAIN d.chunks : d.chunks[i].dim # dim
        BY <1>1, <1>4 DEF MigratesVec
    <2>3. ReposAt(d, skipped) = {} /\ T \cup {} = T
        BY <1>2, <1>4, <1>5 DEF ReposAt
    <2>4. Opened(d, kind, dim, skipped) = d
        BY <1>2, <1>4 DEF Opened
    <2>5. Sound(d, T \cup ReposAt(d, skipped))
        BY <2>3
    <2> QED
        BY <1>2, <1>4, <1>6, <2>1, <2>2, <2>4, <2>5
<1> QED
    BY <1>3, <1>4

-----------------------------------------------------------------------------
(* The swap of the model                                                   *)

\* Without chunks there is little to keep sound.
LEMMA EmptyIsSound ==
    ASSUME NEW d \in Db, IsEmpty(d.chunks), Unfilled(d),
           d.schema >= 6 /\ d.fingerprint # None => d.vecDim = d.fingerprint.dim, NEW T
    PROVE  Sound(d, T)
    BY DEF Sound, OneModel, Vouched, Matching, Covered, IsEmpty, Stamp

LEMMA StampedIsStamp == ASSUME NEW dim \in Dims PROVE Stamped(dim) \in Stamps /\ Stamped(dim) # None
    BY TablesAssumption DEF Stamped, Stamps

\* All chunks and what the virtual tables have for them are dropped, and the table of
\* another dimension is recreated.
Replaced(d, vec, fts, dim) ==
    [(IF Stamp(d).dim # dim /\ vec THEN Recreated(AllDropped(d, vec, fts), dim)
      ELSE AllDropped(d, vec, fts)) EXCEPT !.fingerprint = Stamped(dim)]

LEMMA DroppedForSwap ==
    ASSUME NEW d, NEW T, Sound(d, T), NEW dim \in Dims, NEW b \in BOOLEAN,
           IF b THEN d.schema = 7 ELSE d.schema = 5,
           Stamp(d) # Stamped(dim)
    PROVE  LET w == Replaced(d, b, b, dim)
           IN  Sound(w, {}) /\ Serves(w, dim) /\ w.schema = d.schema /\ IsEmpty(w.chunks)
<1> DEFINE w == Replaced(d, b, b, dim)
           dropped == AllDropped(d, b, b)
           recreated == Recreated(dropped, dim)
           kept(table) == IF b THEN Without(table, DOMAIN d.chunks) ELSE table
<1> SUFFICES Sound(w, {}) /\ Serves(w, dim) /\ w.schema = d.schema /\ IsEmpty(w.chunks)
    OBVIOUS
<1>1. d \in Db /\ d.vec \in Table(Embedding) /\ d.fts \in Table(Texts) /\ d.schema \in 5..7
    BY DbFacts DEF Sound
<1>2. kept(d.vec) \in Table(Embedding) /\ kept(d.fts) \in Table(Texts)
    BY <1>1, WithoutTable
<1>3. /\ dropped = [d EXCEPT !.chunks = NoRows, !.status = FALSE, !.adopted = FALSE,
                             !.vec = kept(d.vec), !.fts = kept(d.fts)]
      /\ NoRows \in Table(Chunk) /\ NoRows \in Table(Embedding) /\ IsEmpty(NoRows)
    BY <1>1, NoRowsTable DEF AllDropped, Db
<1> HIDE DEF kept, dropped, w
<1>4. /\ dropped.chunks = NoRows /\ dropped.vec = kept(d.vec) /\ dropped.fts = kept(d.fts)
      /\ dropped.schema = d.schema /\ dropped.vecDim = d.vecDim
    BY <1>1, <1>3 DEF Db
<1>5. dropped \in Db
    BY <1>1, <1>2, <1>3 DEF Db
<1>6. ~b => IsEmpty(kept(d.vec)) /\ IsEmpty(kept(d.fts))
    BY DEF Sound, Unfilled, kept
<1>7. Stamped(dim) \in Stamps /\ Stamped(dim) # None /\ Stamped(dim).dim = dim
    BY StampedIsStamp DEF Stamped
<1>8. CASE Stamp(d).dim # dim /\ b
    <2>1. recreated = [dropped EXCEPT !.vec = NoRows, !.vecDim = dim]
        BY DEF Recreated
    <2> HIDE DEF recreated
    <2>2. /\ recreated.chunks = NoRows /\ recreated.vecDim = dim /\ recreated.schema = d.schema
        BY <2>1, <1>4, <1>5 DEF Db
    <2>3. recreated \in Db
        BY <2>1, <1>3, <1>5 DEF Db
    <2>4. w = [recreated EXCEPT !.fingerprint = Stamped(dim)]
        BY <1>8 DEF recreated, dropped, w, Replaced
    <2>5. /\ w.chunks = NoRows /\ w.vecDim = dim /\ w.schema = d.schema
          /\ w.fingerprint = Stamped(dim)
        BY <2>2, <2>3, <2>4 DEF Db
    <2>6. w \in Db
        BY <2>3, <2>4, <1>7 DEF Db
    <2>7. Unfilled(w)
        <3>1. w.schema = 7
            BY <1>8, <2>5
        <3> QED
            BY <3>1 DEF Unfilled
    <2> QED
        BY <2>5, <2>6, <2>7, <1>3, <1>7, EmptyIsSound DEF Serves
<1>9. CASE ~(Stamp(d).dim # dim /\ b)
    <2>1. w = [dropped EXCEPT !.fingerprint = Stamped(dim)]
        BY <1>9 DEF dropped, w, Replaced
    <2>2. /\ w.chunks = NoRows /\ w.vecDim = d.vecDim /\ w.schema = d.schema
          /\ w.vec = kept(d.vec) /\ w.fts = kept(d.fts) /\ w.fingerprint = Stamped(dim)
        BY <2>1, <1>4, <1>5 DEF Db
    <2>3. w \in Db
        BY <2>1, <1>5, <1>7 DEF Db
    <2>4. Unfilled(w)
        BY <2>2, <1>6 DEF Unfilled
    <2>5. w.schema >= 6 => w.vecDim = dim
        <3>1. CASE d.fingerprint = None
            BY <1>9, <2>2, <3>1 DEF Stamp, Stamped
        <3>2. CASE d.fingerprint # None
            <4>1. d.fingerprint \in Stamps /\ Stamp(d) = d.fingerprint
                BY <1>1, <3>2, DbFacts DEF Stamp
            <4>2. d.schema >= 6 => d.fingerprint.dim = dim
                BY <1>9, <4>1
            <4>3. d.schema >= 6 => d.fingerprint.model # d.fingerprint.dim
                BY <4>1, <4>2 DEF Stamps, Stamped
            <4> QED
                BY <2>2, <3>2, <4>1, <4>2, <4>3 DEF Sound, OneModel, Vouched
        <3> QED
            BY <3>1, <3>2
    <2> QED
        BY <2>2, <2>3, <2>4, <2>5, <1>3, <1>7, EmptyIsSound DEF Serves
<1> QED
    BY <1>8, <1>9

\* The model that the swap finds, if there is one.
Found(d) ==
    IF d.fingerprint = None /\ (~IsEmpty(d.chunks) \/ d.status) THEN Stamped(LegacyDim) ELSE d.fingerprint

\* What the swap does to the database: nothing, a stamp, or a new index.
Adopts(d) == d.adopted \/ (d.fingerprint = None /\ IsEmpty(d.chunks))
Kept(d, dim) == [d EXCEPT !.fingerprint = Stamped(dim), !.adopted = Adopts(d)]

SwapOutcome(d, dim, vec, fts, w) ==
    \/ d.fingerprint = None /\ IsEmpty(d.chunks) /\ w = d
    \/ Stamp(d) = Stamped(dim) /\ w = Kept(d, dim)
    \/ Stamp(d) # Stamped(dim) /\ w = Replaced(d, vec, fts, dim)

LEMMA SwapCases ==
    ASSUME NEW d \in Db, NEW vec, NEW fts, NEW dim \in Dims
    PROVE  SwapOutcome(d, dim, vec, fts, Swapped(d, vec, fts, dim))
<1> DEFINE old == Found(d)
           w == Swapped(d, vec, fts, dim)
           new == [(IF old.dim # dim /\ vec THEN Recreated(AllDropped(d, vec, fts), dim)
                    ELSE AllDropped(d, vec, fts)) EXCEPT !.fingerprint = Stamped(dim)]
<1>1. Stamped(dim) # None /\ Stamped(LegacyDim) # None
    BY StampedIsStamp, TablesAssumption
<1>2. /\ old = None => d.fingerprint = None /\ IsEmpty(d.chunks)
      /\ old # None => old = Stamp(d)
    BY <1>1 DEF Found, Stamp
<1>3. w = CASE old = None -> d
            [] old = Stamped(dim) -> Kept(d, dim)
            [] OTHER -> new
    <2>1. [d EXCEPT !.fingerprint = Stamped(dim),
                    !.adopted = @ \/ (d.fingerprint = None /\ IsEmpty(d.chunks))] = Kept(d, dim)
        BY DEF Kept, Adopts, Db
    <2> HIDE DEF w
    <2>2. w = CASE old = None -> d
                [] old = Stamped(dim) ->
                     [d EXCEPT !.fingerprint = Stamped(dim),
                               !.adopted = @ \/ (d.fingerprint = None /\ IsEmpty(d.chunks))]
                [] OTHER -> new
        BY DEF w, Swapped, Found, Stamped
    <2> QED
        BY <2>1, <2>2
<1> HIDE DEF w
<1>4. CASE old = None
    <2>1. w = d
        <3> HIDE DEF old, new
        <3> QED
            BY <1>1, <1>3, <1>4
    <2> QED
        BY <1>2, <1>4, <2>1 DEF SwapOutcome, w
<1>5. CASE old # None /\ old = Stamped(dim)
    BY <1>2, <1>3, <1>5 DEF SwapOutcome, w
<1>6. CASE old # None /\ old # Stamped(dim)
    <2>1. w = new
        <3> HIDE DEF new, old
        <3> QED
            BY <1>3, <1>6
    <2>2. new = Replaced(d, vec, fts, dim)
        <3>1. old = Stamp(d)
            BY <1>2, <1>6
        <3> HIDE DEF old
        <3> QED
            BY <3>1 DEF Replaced
    <2> QED
        BY <1>2, <1>6, <2>1, <2>2 DEF SwapOutcome, w
<1> QED
    BY <1>4, <1>5, <1>6 DEF w

LEMMA SwappedKeeps ==
    ASSUME NEW d, NEW T, Sound(d, T), NEW dim \in Dims, NEW b \in BOOLEAN,
           IF b THEN d.schema = 7
           ELSE d.schema = 5 /\ \E i \in DOMAIN d.chunks : d.chunks[i].dim # dim
    PROVE  LET w == Swapped(d, b, b, dim)
           IN  /\ Sound(w, IF IsEmpty(w.chunks) THEN {} ELSE T)
               /\ Serves(w, dim) /\ w.schema = d.schema
<1> DEFINE w == Swapped(d, b, b, dim)
<1>2. Stamped(dim) \in Stamps /\ Stamped(dim) # None /\ Stamped(dim).dim = dim /\ Stamped(dim).model = dim
    BY StampedIsStamp DEF Stamped
<1>3. d \in Db
    BY DEF Sound
<1>7. SwapOutcome(d, dim, b, b, w)
    BY <1>3, SwapCases
<1> HIDE DEF w
<1>4. CASE d.fingerprint = None /\ IsEmpty(d.chunks) /\ w = d
    <2>2. Sound(d, {})
        BY <1>4 DEF Sound, Covered, IsEmpty
    <2> QED
        BY <1>4, <2>2 DEF Serves, w
<1>5. CASE Stamp(d) = Stamped(dim) /\ w = Kept(d, dim)
    <2>1. w = [d EXCEPT !.fingerprint = Stamped(dim), !.adopted = Adopts(d)]
        BY <1>5 DEF Kept
    <2>9. Adopts(d) \in BOOLEAN
        BY <1>3, DbFacts DEF Adopts
    <2>2. /\ w.chunks = d.chunks /\ w.vec = d.vec /\ w.fts = d.fts /\ w.schema = d.schema
          /\ w.vecDim = d.vecDim /\ w.fingerprint = Stamped(dim) /\ w.adopted = Adopts(d)
        BY <2>1, <1>3 DEF Db
    <2>3. w \in Db
        BY <2>1, <2>9, <1>2, <1>3 DEF Db
    <2>4. Stamp(w) = Stamp(d)
        BY <2>2, <1>2, <1>5 DEF Stamp
    <2>5. OneModel(w)
        <3>1. Vouched(w) => Vouched(d)
            BY <2>2, <1>2 DEF Vouched, Adopts
        <3> QED
            BY <2>2, <2>4, <3>1 DEF Sound, OneModel
    <2>6. Sound(w, T)
        BY <2>2, <2>3, <2>5 DEF Sound, Matching, Unfilled, Covered
    <2>7. IsEmpty(w.chunks) => Sound(w, {})
        BY <2>6 DEF Sound, Covered, IsEmpty
    <2> QED
        BY <2>2, <2>6, <2>7, <1>2 DEF Serves, w
<1>6. CASE Stamp(d) # Stamped(dim) /\ w = Replaced(d, b, b, dim)
    <2>1. Sound(w, {}) /\ Serves(w, dim) /\ w.schema = d.schema /\ IsEmpty(w.chunks)
        <3>1. IF b THEN d.schema = 7 ELSE d.schema = 5
            OBVIOUS
        <3> QED
            BY <1>6, <3>1, DroppedForSwap
    <2> QED
        BY <2>1 DEF w
<1> QED
    BY <1>4, <1>5, <1>6, <1>7 DEF SwapOutcome

-----------------------------------------------------------------------------
(* Processes                                                               *)

ProcRecords == [phase : Phases, kind : Kinds, dim : Dims, vec : BOOLEAN, fts : BOOLEAN,
                repo : Repos \cup {None}]

LEMMA TypeOKIff ==
    TypeOK <=> db \in Db /\ proc \in [Procs -> ProcRecords] /\ torn \in SUBSET Repos
    BY DEF TypeOK, Db, ProcRecords, Stamps

LEMMA DownIsProc == Down \in ProcRecords /\ Down.phase = "down" /\ "full" \in Kinds
    BY TablesAssumption DEF Down, ProcRecords, Phases, Kinds

\* The step of one process that leaves the database sound, and served to the others.
LEMMA ProcStep ==
    ASSUME IInv, NEW p \in Procs, NEW x \in ProcRecords, proc' = [proc EXCEPT ![p] = x],
           torn' \in SUBSET Repos, Sound(db', torn'),
           db.schema = 7 => db'.schema = 7,
           \A q \in Procs : proc[q].phase # "down" => Serves(db', proc[q].dim),
           x.phase # "down" => /\ Serves(db', x.dim)
                               /\ \A q \in Procs \ {p} : proc[q].phase # "down" => proc[q].dim = x.dim,
           x.phase \notin {"down", "booting"} => x.vec /\ x.fts /\ db'.schema = 7,
           x.phase \in Drops => x.repo \in Repos
    PROVE  IInv'
<1>1. proc \in [Procs -> ProcRecords] /\ proc' \in [Procs -> ProcRecords] /\ proc'[p] = x
    BY TypeOKIff DEF IInv
<1>2. \A q \in Procs \ {p} : proc'[q] = proc[q]
    BY <1>1
<1>3. TypeOK'
    BY <1>1, TypeOKIff DEF TypeOK, Sound, Db, ProcRecords, Stamps
<1>4. OneDim'
    BY <1>1, <1>2 DEF IInv, OneDim
<1>5. ASSUME NEW q \in Procs PROVE Opener(q)'
    <2>1. CASE q = p
        BY <2>1, <1>1 DEF Opener
    <2>2. CASE q # p
        BY <2>2, <1>2 DEF IInv, Opener
    <2> QED
        BY <2>1, <2>2
<1> QED
    BY <1>3, <1>4, <1>5 DEF IInv

LEMMA SkippedAreTyped ==
    ASSUME IInv, NEW kind, NEW dim, NEW skipped \in Skippable(db, kind, dim)
    PROVE  torn \cup ReposAt(db, skipped) \in SUBSET Repos
<1>1. db \in Db /\ torn \in SUBSET Repos /\ skipped \subseteq DOMAIN db.chunks
    BY TypeOKIff, SkippedRows DEF IInv
<1> QED
    BY <1>1, ChunkFacts DEF ReposAt

BootsAs(p, kind, dim) ==
    /\ MayStart(p, dim)
    /\ \E skipped \in Skippable(db, kind, dim) :
          /\ db' = Swapped(Opened(db, kind, dim, skipped), MigratesVec(db, kind, dim) /\ kind # "purejs",
                           MigratesFts(db, kind, dim), dim)
          /\ torn' = IF IsEmpty(db'.chunks) THEN {} ELSE torn \cup ReposAt(db, skipped)
    /\ proc' = [proc EXCEPT ![p] = [Down EXCEPT !.phase = "booting", !.kind = kind, !.dim = dim]]

LEMMA BootCases ==
    ASSUME NEW p \in Procs, Boot(p) PROVE \E kind \in Kinds, dim \in Dims : BootsAs(p, kind, dim)
    BY DEF Boot, BootsAs

LEMMA BootKeeps == ASSUME ~MixedWriters, IInv, NEW p \in Procs, Boot(p) PROVE IInv'
<1>0. PICK kind \in Kinds, dim \in Dims : BootsAs(p, kind, dim)
    BY BootCases
<1>1. PICK skipped \in Skippable(db, kind, dim) :
          /\ MayStart(p, dim)
          /\ db' = Swapped(Opened(db, kind, dim, skipped), MigratesVec(db, kind, dim) /\ kind # "purejs",
                           MigratesFts(db, kind, dim), dim)
          /\ torn' = IF IsEmpty(db'.chunks) THEN {} ELSE torn \cup ReposAt(db, skipped)
          /\ proc' = [proc EXCEPT ![p] = [Down EXCEPT !.phase = "booting", !.kind = kind, !.dim = dim]]
    BY <1>0 DEF BootsAs
<1> DEFINE b == MigratesVec(db, kind, dim)
           d == Opened(db, kind, dim, skipped)
           T == torn \cup ReposAt(db, skipped)
           x == [Down EXCEPT !.phase = "booting", !.kind = kind, !.dim = dim]
<1>2. /\ Sound(d, T) /\ (MigratesFts(db, kind, dim) <=> b) /\ (b => d.schema = 7)
      /\ ~b => d = db /\ d.schema = 5 /\ \E i \in DOMAIN d.chunks : d.chunks[i].dim # dim
    BY OpenedKeeps DEF IInv
<1>3. /\ b \in BOOLEAN /\ MigratesFts(db, kind, dim) = b
      /\ (MigratesVec(db, kind, dim) /\ kind # "purejs") = b
    BY DEF Kinds, MigratesVec, MigratesFts
<1>4. x \in ProcRecords /\ x.phase = "booting" /\ x.dim = dim
    BY TablesAssumption DEF Down, ProcRecords, Phases
<1>10. T \in SUBSET Repos
    BY SkippedAreTyped
<1> HIDE DEF b, d, x, T
<1>5. db' = Swapped(d, b, b, dim)
    BY <1>1, <1>3 DEF d
<1>6. Sound(db', IF IsEmpty(db'.chunks) THEN {} ELSE T) /\ Serves(db', dim) /\ db'.schema = d.schema
    BY <1>2, <1>3, <1>5, SwappedKeeps
<1>7. torn' \in SUBSET Repos /\ Sound(db', torn') /\ proc' = [proc EXCEPT ![p] = x]
    BY <1>1, <1>6, <1>10 DEF x, T
<1>8. db.schema = 7 => db'.schema = 7
    BY <1>2, <1>3, <1>6
<1>9. \A q \in Procs : proc[q].phase # "down" => proc[q].dim = dim
    BY <1>1 DEF MayStart
<1> QED
    BY <1>4, <1>6, <1>7, <1>8, <1>9, ProcStep DEF Drops

\* What a process is served was embedded by its model.
LEMMA ServedDims ==
    ASSUME NEW d, NEW T, Sound(d, T), NEW dim \in Dims, Serves(d, dim), NEW i \in DOMAIN d.chunks
    PROVE  d.chunks[i].dim = dim
    BY StampedIsStamp DEF Sound, OneModel, Serves, Stamp, IsEmpty, Stamped

LEMMA OpenKeeps == ASSUME ~MixedWriters, IInv, NEW p \in Procs, Open(p) PROVE IInv'
<1> DEFINE kind == proc[p].kind
           dim == proc[p].dim
           x == [proc[p] EXCEPT !.phase = "open", !.vec = MigratesVec(db, kind, dim),
                                !.fts = MigratesFts(db, kind, dim)]
<1>1. /\ proc[p] \in ProcRecords /\ kind \in Kinds /\ dim \in Dims /\ torn \in SUBSET Repos
      /\ proc[p].phase = "booting" /\ Serves(db, dim) /\ Sound(db, torn)
    BY TypeOKIff DEF Open, IInv, Opener, ProcRecords
<1>3. PICK skipped \in Skippable(db, kind, dim) :
          /\ db' = Opened(db, kind, dim, skipped) /\ torn' = torn \cup ReposAt(db, skipped)
          /\ proc' = [proc EXCEPT ![p] = x]
    BY DEF Open
<1>2. MigratesVec(db, kind, dim) /\ MigratesFts(db, kind, dim)
    <2>1. \A i \in DOMAIN db.chunks : db.chunks[i].dim = dim
        BY <1>1, ServedDims
    <2> QED
        BY <1>1, <1>3, <2>1, OpenedKeeps
<1>4. x \in ProcRecords /\ x.phase = "open" /\ x.dim = dim /\ x.vec /\ x.fts
    BY <1>1, <1>2 DEF ProcRecords, Phases
<1> HIDE DEF x
<1>5. Sound(db', torn') /\ Serves(db', dim) /\ db'.schema = 7 /\ torn' \in SUBSET Repos
    BY <1>1, <1>2, <1>3, OpenedKeeps, SkippedAreTyped
<1>6. \A q \in Procs : proc[q].phase # "down" => proc[q].dim = dim
    BY <1>1 DEF IInv, OneDim
<1> HIDE DEF dim
<1> QED
    BY <1>1, <1>3, <1>4, <1>5, <1>6, ProcStep DEF Drops

LEMMA ExitKeeps == ASSUME IInv, NEW p \in Procs, Exit(p) PROVE IInv'
    BY ProcStep, DownIsProc, TypeOKIff DEF Exit, IInv, Opener, Drops

-----------------------------------------------------------------------------
(* Drops                                                                   *)

\* Rows of r are deleted from some of the tables.
Removed(d, r, w) ==
    /\ w \in Db
    /\ w.chunks \in {d.chunks, Without(d.chunks, RowsOf(d, r))}
    /\ w.vec \in {d.vec, Without(d.vec, RowsOf(d, r))}
    /\ w.fts \in {d.fts, Without(d.fts, RowsOf(d, r))}
    /\ w.schema = d.schema /\ w.vecDim = d.vecDim /\ w.fingerprint = d.fingerprint
    /\ w.adopted = d.adopted

\* Chunks that stay behind without them are of a torn repository.
TornBy(d, r, w, T, T2) ==
    \A i \in DOMAIN w.chunks :
        w.chunks[i].repo \notin T2 =>
            /\ w.chunks[i].repo \notin T
            /\ i \notin RowsOf(d, r) \/ (w.vec = d.vec /\ w.fts = d.fts)

LEMMA RemovedCovers ==
    ASSUME NEW d, NEW T, Covered(d, T), NEW r, NEW w, NEW T2,
           Removed(d, r, w), TornBy(d, r, w, T, T2)
    PROVE  Covered(w, T2)
<1>1. w.schema = d.schema
    BY DEF Removed
<1>2. /\ DOMAIN w.chunks \subseteq DOMAIN d.chunks
      /\ \A i \in DOMAIN w.chunks : w.chunks[i] = d.chunks[i]
    BY DEF Removed, Without, Restrict
<1>3. DOMAIN d.vec \ RowsOf(d, r) \subseteq DOMAIN w.vec
    BY DEF Removed, Without, Restrict
<1>4. DOMAIN d.fts \ RowsOf(d, r) \subseteq DOMAIN w.fts
    BY DEF Removed, Without, Restrict
<1>5. ASSUME NEW i \in DOMAIN w.chunks, w.chunks[i].repo \notin T2
      PROVE  (w.schema >= 6 => i \in DOMAIN w.vec) /\ (w.schema >= 7 => i \in DOMAIN w.fts)
    <2>1. (d.schema >= 6 => i \in DOMAIN d.vec) /\ (d.schema >= 7 => i \in DOMAIN d.fts)
        BY <1>2, <1>5 DEF Covered, TornBy
    <2>2. i \notin RowsOf(d, r) \/ (w.vec = d.vec /\ w.fts = d.fts)
        BY <1>5 DEF TornBy
    <2> QED
        BY <1>1, <1>3, <1>4, <2>1, <2>2
<1> QED
    BY <1>5 DEF Covered

LEMMA RowsRemoved ==
    ASSUME NEW d, NEW T, Sound(d, T), NEW r \in Repos, NEW w, NEW T2,
           Removed(d, r, w), TornBy(d, r, w, T, T2)
    PROVE  Sound(w, T2) /\ \A dim \in Dims : Serves(d, dim) => Serves(w, dim)
<1> DEFINE rows == RowsOf(d, r)
<1>1. /\ w.schema = d.schema /\ w.vecDim = d.vecDim /\ w.fingerprint = d.fingerprint
      /\ w \in Db /\ w.adopted = d.adopted
    BY DEF Removed
<1>2. /\ DOMAIN w.chunks \subseteq DOMAIN d.chunks
      /\ \A i \in DOMAIN w.chunks : w.chunks[i] = d.chunks[i]
    BY DEF Removed, Without, Restrict
<1>3. /\ DOMAIN d.vec \ rows \subseteq DOMAIN w.vec /\ DOMAIN w.vec \subseteq DOMAIN d.vec
      /\ \A i \in DOMAIN w.vec : w.vec[i] = d.vec[i]
    BY DEF Removed, Without, Restrict
<1>4. /\ DOMAIN d.fts \ rows \subseteq DOMAIN w.fts /\ DOMAIN w.fts \subseteq DOMAIN d.fts
      /\ \A i \in DOMAIN w.fts : w.fts[i] = d.fts[i]
    BY DEF Removed, Without, Restrict
<1> HIDE DEF rows
<1>5. IsEmpty(d.chunks) => IsEmpty(w.chunks)
    BY <1>2 DEF IsEmpty
<1>6. OneModel(w)
    <2>1. Vouched(w) => Vouched(d)
        BY <1>1, <1>5 DEF Vouched
    <2> QED
        BY <1>1, <1>2, <2>1 DEF Sound, OneModel, Stamp
<1>7. Matching(w)
    BY <1>2, <1>3, <1>4 DEF Sound, Matching
<1>8. Unfilled(w)
    BY <1>1, <1>3, <1>4 DEF Sound, Unfilled, IsEmpty
<1>9. Covered(w, T2)
    BY RemovedCovers DEF Sound
<1> QED
    BY <1>1, <1>5, <1>6, <1>7, <1>8, <1>9 DEF Sound, Serves

\* The database that a step of a drop, or the drop within a build, leaves.
LEMMA RemovedIsDb ==
    ASSUME NEW d \in Db, NEW r \in Repos
    PROVE  /\ Without(d.chunks, RowsOf(d, r)) \in Table(Chunk)
           /\ Without(d.vec, RowsOf(d, r)) \in Table(Embedding)
           /\ Without(d.fts, RowsOf(d, r)) \in Table(Texts)
           /\ \A i \in DOMAIN Without(d.chunks, RowsOf(d, r)) :
                i \in DOMAIN d.chunks /\ Without(d.chunks, RowsOf(d, r))[i].repo # r
                /\ i \notin RowsOf(d, r)
<1>1. d.chunks \in Table(Chunk) /\ d.vec \in Table(Embedding) /\ d.fts \in Table(Texts)
    BY DbFacts
<1>2. /\ DOMAIN Without(d.chunks, RowsOf(d, r)) = DOMAIN d.chunks \ RowsOf(d, r)
      /\ \A i \in DOMAIN d.chunks \ RowsOf(d, r) : Without(d.chunks, RowsOf(d, r))[i] = d.chunks[i]
    BY DEF Without, Restrict
<1>3. \A i \in DOMAIN d.chunks \ RowsOf(d, r) : d.chunks[i].repo # r
    BY DEF RowsOf
<1> QED
    BY <1>1, <1>2, <1>3, WithoutTable

\* One statement of a drop, as seen by the invariants.
DropStep(p, r, x) ==
    /\ proc' = [proc EXCEPT ![p] = x]
    /\ x.vec = proc[p].vec /\ x.fts = proc[p].fts /\ x.dim = proc[p].dim
    /\ proc[p].phase \in Drops \cup {"open"} /\ x.phase \in Drops \cup {"open"}
    /\ x.phase \in Drops => x.repo \in Repos
    /\ torn' \in SUBSET Repos /\ Removed(db, r, db') /\ TornBy(db, r, db', torn, torn')

LEMMA DropSteps ==
    ASSUME TypeOK, NEW p \in Procs, proc[p].phase \in Drops => proc[p].repo \in Repos, Drop(p)
    PROVE  \E r \in Repos, x \in ProcRecords : DropStep(p, r, x)
<1>1. /\ proc[p] \in ProcRecords /\ proc \in [Procs -> ProcRecords] /\ torn \in SUBSET Repos /\ db \in Db
    BY TypeOKIff
<1>2. ASSUME NEW r \in Repos, BeginDrop(p, r) PROVE \E x \in ProcRecords : DropStep(p, r, x)
    <2> DEFINE x == [proc[p] EXCEPT !.phase = "drop_fts", !.repo = r]
    <2>1. /\ x \in ProcRecords /\ x.phase = "drop_fts" /\ x.repo = r /\ x.dim = proc[p].dim
          /\ x.vec = proc[p].vec /\ x.fts = proc[p].fts
        BY <1>1 DEF ProcRecords, Phases
    <2>2. /\ proc[p].phase = "open" /\ proc' = [proc EXCEPT ![p] = x]
          /\ db' = db /\ torn' = torn
        BY <1>1, <1>2 DEF BeginDrop
    <2> HIDE DEF x
    <2>3. Removed(db, r, db') /\ TornBy(db, r, db', torn, torn')
        BY <1>1, <2>2 DEF Removed, TornBy
    <2>4. DropStep(p, r, x)
        BY <1>1, <2>1, <2>2, <2>3 DEF DropStep, Drops
    <2> QED
        BY <2>1, <2>4
<1> DEFINE r == proc[p].repo
<1>3. ASSUME NEW next \in Drops \cup {"open"}, proc[p].phase \in Drops,
             NEW repo \in Repos \cup {None}, next \in Drops => repo = r,
             proc' = [proc EXCEPT ![p] = [@ EXCEPT !.phase = next, !.repo = repo]],
             torn' \in SUBSET Repos, Removed(db, r, db'), TornBy(db, r, db', torn, torn')
      PROVE  \E x \in ProcRecords : DropStep(p, r, x)
    <2> DEFINE x == [proc[p] EXCEPT !.phase = next, !.repo = repo]
    <2>1. /\ x \in ProcRecords /\ x.phase = next /\ x.repo = repo /\ x.dim = proc[p].dim
          /\ x.vec = proc[p].vec /\ x.fts = proc[p].fts
        BY <1>1 DEF ProcRecords, Phases, Drops
    <2>2. proc' = [proc EXCEPT ![p] = x]
        BY <1>1, <1>3
    <2> HIDE DEF x
    <2>3. DropStep(p, r, x)
        BY <1>3, <2>1, <2>2 DEF DropStep
    <2> QED
        BY <2>1, <2>3
<1>4. proc[p].phase \in Drops => r \in Repos
    OBVIOUS
<1>5. r \in Repos => Torn(r) \in SUBSET Repos
    BY <1>1 DEF Torn
<1>6. ASSUME db'.chunks = db.chunks PROVE TornBy(db, r, db', torn, Torn(r))
    BY <1>6 DEF Torn, RowsOf, TornBy
<1>7. CASE DropFts(p)
    <2>1. /\ proc[p].phase = "drop_fts" /\ torn' = Torn(r)
          /\ db' = IF WritesFts(p) THEN [db EXCEPT !.fts = Without(@, RowsOf(db, r))] ELSE db
          /\ proc' = [proc EXCEPT ![p] = [@ EXCEPT !.phase = "drop_vec", !.repo = r]]
        BY <1>1, <1>7 DEF DropFts, ProcRecords
    <2>2. r \in Repos
        BY <1>4, <2>1 DEF Drops
    <2>3. /\ db' \in Db /\ db'.chunks = db.chunks /\ db'.vec = db.vec /\ db'.schema = db.schema
          /\ db'.vecDim = db.vecDim /\ db'.fingerprint = db.fingerprint /\ db'.adopted = db.adopted
          /\ db'.fts \in {db.fts, Without(db.fts, RowsOf(db, r))}
        BY <1>1, <2>1, <2>2, RemovedIsDb DEF Db
    <2>4. Removed(db, r, db') /\ TornBy(db, r, db', torn, torn')
        BY <1>6, <2>1, <2>3 DEF Removed
    <2> QED
        BY <1>3, <1>5, <2>1, <2>2, <2>4 DEF Drops
<1>8. CASE DropVec(p)
    <2>1. /\ proc[p].phase = "drop_vec" /\ torn' = Torn(r)
          /\ db' = IF HasVec(p) THEN [db EXCEPT !.vec = Without(@, RowsOf(db, r))] ELSE db
          /\ proc' = [proc EXCEPT ![p] = [@ EXCEPT !.phase = "drop_chunks", !.repo = r]]
        BY <1>1, <1>8 DEF DropVec, ProcRecords
    <2>2. r \in Repos
        BY <1>4, <2>1 DEF Drops
    <2>3. /\ db' \in Db /\ db'.chunks = db.chunks /\ db'.fts = db.fts /\ db'.schema = db.schema
          /\ db'.vecDim = db.vecDim /\ db'.fingerprint = db.fingerprint /\ db'.adopted = db.adopted
          /\ db'.vec \in {db.vec, Without(db.vec, RowsOf(db, r))}
        BY <1>1, <2>1, <2>2, RemovedIsDb DEF Db
    <2>4. Removed(db, r, db') /\ TornBy(db, r, db', torn, torn')
        BY <1>6, <2>1, <2>3 DEF Removed
    <2> QED
        BY <1>3, <1>5, <2>1, <2>2, <2>4 DEF Drops
<1>9. CASE DropChunks(p)
    <2>1. /\ proc[p].phase = "drop_chunks" /\ torn' = torn \ {r}
          /\ db' = [db EXCEPT !.chunks = Without(@, RowsOf(db, r))]
          /\ proc' = [proc EXCEPT ![p] = [@ EXCEPT !.phase = "drop_status", !.repo = r]]
        BY <1>1, <1>9 DEF DropChunks, ProcRecords
    <2>2. r \in Repos
        BY <1>4, <2>1 DEF Drops
    <2>3. /\ db' \in Db /\ db'.vec = db.vec /\ db'.fts = db.fts /\ db'.schema = db.schema
          /\ db'.vecDim = db.vecDim /\ db'.fingerprint = db.fingerprint /\ db'.adopted = db.adopted
          /\ db'.chunks = Without(db.chunks, RowsOf(db, r))
        BY <1>1, <2>1, <2>2, RemovedIsDb DEF Db
    <2>4. TornBy(db, r, db', torn, torn \ {r}) /\ Removed(db, r, db')
        BY <1>1, <2>2, <2>3, RemovedIsDb DEF TornBy, Removed
    <2> QED
        BY <1>1, <1>3, <2>1, <2>2, <2>4 DEF Drops
<1>10. CASE WriteStatus(p)
    <2>1. /\ proc[p].phase = "drop_status" /\ torn' = torn
          /\ db' = [db EXCEPT !.status = TRUE]
          /\ proc' = [proc EXCEPT ![p] = [@ EXCEPT !.phase = "open", !.repo = None]]
        BY <1>1, <1>10 DEF WriteStatus, ProcRecords
    <2>2. r \in Repos
        BY <1>4, <2>1 DEF Drops
    <2>3. /\ db' \in Db /\ db'.chunks = db.chunks /\ db'.vec = db.vec /\ db'.fts = db.fts
          /\ db'.schema = db.schema /\ db'.vecDim = db.vecDim /\ db'.fingerprint = db.fingerprint
          /\ db'.adopted = db.adopted
        BY <1>1, <2>1 DEF Db
    <2>4. Removed(db, r, db') /\ TornBy(db, r, db', torn, torn')
        BY <2>1, <2>3 DEF Removed, TornBy
    <2> QED
        BY <1>1, <1>3, <2>1, <2>2, <2>4 DEF Drops
<1> QED
    BY <1>2, <1>7, <1>8, <1>9, <1>10, <1>4 DEF Drop, DropFts, DropVec, DropChunks, WriteStatus, Drops

LEMMA DropKeeps == ASSUME IInv, NEW p \in Procs, Drop(p) PROVE IInv'
<1>1. TypeOK /\ (proc[p].phase \in Drops => proc[p].repo \in Repos)
    BY DEF IInv, Opener
<1>2. PICK r \in Repos, x \in ProcRecords : DropStep(p, r, x)
    BY <1>1, DropSteps
<1>3. Sound(db', torn') /\ \A dim \in Dims : Serves(db, dim) => Serves(db', dim)
    BY <1>2, RowsRemoved DEF DropStep, IInv
<1>4. /\ proc[p].vec /\ proc[p].fts /\ db.schema = 7 /\ db'.schema = 7 /\ proc[p].phase # "down"
    BY <1>2 DEF DropStep, Removed, IInv, Opener, Drops
<1>5. \A q \in Procs : proc[q].dim \in Dims
    BY <1>1, TypeOKIff DEF ProcRecords
<1>6. \A q \in Procs : proc[q].phase # "down" => Serves(db', proc[q].dim) /\ proc[q].dim = proc[p].dim
    BY <1>3, <1>4, <1>5 DEF IInv, OneDim, Opener
<1>7. /\ x.vec /\ x.fts /\ x.dim = proc[p].dim /\ Serves(db', x.dim)
      /\ x.phase \in Drops => x.repo \in Repos
      /\ torn' \in SUBSET Repos /\ proc' = [proc EXCEPT ![p] = x]
    BY <1>2, <1>4, <1>6 DEF DropStep
<1> QED
    BY <1>3, <1>4, <1>6, <1>7, ProcStep

-----------------------------------------------------------------------------
(* Builds                                                                  *)

\* A database in the middle of upsertChunks(): all three tables are written.
Filled(d, T, dim) ==
    /\ d \in Db /\ d.schema = 7 /\ d.vecDim = dim
    /\ \A i \in DOMAIN d.chunks : d.chunks[i].dim = dim
    /\ Matching(d) /\ Covered(d, T)

LEMMA UpsertedKeeps ==
    ASSUME NEW p, HasVec(p), WritesFts(p), NEW d, NEW T, NEW dim, Filled(d, T, dim),
           NEW c \in Chunk, c.dim = dim, NextRow(d) \in 1..MaxRow
    PROVE  Filled(Upserted(d, p, c), T, dim) /\ NextRow(Upserted(d, p, c)) = NextRow(d) + 1
<1> DEFINE row == NextRow(d)
           same == {i \in RowsOf(d, c.repo) : d.chunks[i].section = c.section}
           left == Without(d.chunks, same)
           u == Upserted(d, p, c)
<1>0. /\ d \in Db /\ d.chunks \in Table(Chunk) /\ d.vec \in Table(Embedding) /\ d.fts \in Table(Texts)
      /\ Embedded(c) \in Embedding /\ c.text \in Texts
    BY DbFacts DEF Filled, Chunk, Embedding, Embedded
<1>1. left \in Table(Chunk) /\ DOMAIN left \subseteq DOMAIN d.chunks /\ \A i \in DOMAIN left : left[i] = d.chunks[i]
    <2>1. left \in Table(Chunk)
        BY <1>0, WithoutTable
    <2> QED
        BY <2>1 DEF Without, Restrict
<1>2. u = [d EXCEPT !.chunks = PutAt(left, row, c), !.vec = PutAt(@, row, Embedded(c)),
                    !.fts = PutAt(@, row, c.text)]
    BY DEF Upserted
<1>3. \A i \in DOMAIN d.chunks : i < row /\ i # row
    BY <1>0, NextRowIsFree, DbFacts, TableFacts, TablesAssumption
<1> HIDE DEF row, left, u
<1>4. /\ PutAt(left, row, c) \in Table(Chunk) /\ PutAt(d.vec, row, Embedded(c)) \in Table(Embedding)
      /\ PutAt(d.fts, row, c.text) \in Table(Texts)
    BY <1>0, <1>1, PutTable DEF row
<1>5. /\ u.chunks = PutAt(left, row, c) /\ u.vec = PutAt(d.vec, row, Embedded(c))
      /\ u.fts = PutAt(d.fts, row, c.text) /\ u.schema = d.schema /\ u.vecDim = d.vecDim
    BY <1>0, <1>2 DEF Db
<1>6. u \in Db
    BY <1>0, <1>2, <1>4 DEF Db
<1>7. /\ DOMAIN u.chunks = DOMAIN left \cup {row} /\ u.chunks[row] = c
      /\ \A i \in DOMAIN left : i # row /\ u.chunks[i] = d.chunks[i]
    BY <1>1, <1>3, <1>5 DEF PutAt
<1>8. /\ DOMAIN u.vec = DOMAIN d.vec \cup {row} /\ u.vec[row] = Embedded(c)
      /\ \A i \in DOMAIN d.vec : i # row => u.vec[i] = d.vec[i]
    BY <1>5 DEF PutAt
<1>9. /\ DOMAIN u.fts = DOMAIN d.fts \cup {row} /\ u.fts[row] = c.text
      /\ \A i \in DOMAIN d.fts : i # row => u.fts[i] = d.fts[i]
    BY <1>5 DEF PutAt
<1>10. \A i \in DOMAIN u.chunks : u.chunks[i].dim = dim
    BY <1>1, <1>7 DEF Filled
<1>11. Matching(u)
    BY <1>1, <1>7, <1>8, <1>9 DEF Filled, Matching
<1>12. Covered(u, T)
    BY <1>1, <1>5, <1>7, <1>8, <1>9 DEF Filled, Covered
<1>13. NextRow(u) = row + 1
    <2>1. row \in DOMAIN u.chunks /\ row \in Nat
        BY <1>7, TablesAssumption DEF row
    <2>2. \A i \in DOMAIN u.chunks : i <= row
        <3>1. \A i \in DOMAIN d.chunks : i \in Nat
            BY <1>0, TableFacts, TablesAssumption
        <3> QED
            BY <1>1, <1>3, <1>7, <2>1, <3>1
    <2> QED
        BY <1>6, <2>1, <2>2, NextRowIsNext
<1>14. Filled(u, T, dim)
    BY <1>5, <1>6, <1>10, <1>11, <1>12 DEF Filled
<1> QED
    BY <1>13, <1>14 DEF u, row

\* The states of upsertChunks() as it goes through the chunks.
IsRun(g, d, p, c, n) == g = [i \in 0..n |-> IF i = 0 THEN d ELSE Upserted(g[i - 1], p, c[i])]

LEMMA RunExists == ASSUME NEW d, NEW p, NEW c, NEW n \in Nat PROVE \E g : IsRun(g, d, p, c, n)
<1> DEFINE S == {m \in Nat : \E g : IsRun(g, d, p, c, m)}
<1>1. 0 \in S
    <2>1. IsRun([i \in 0..0 |-> d], d, p, c, 0)
        BY DEF IsRun
    <2> QED
        BY <2>1
<1>2. ASSUME NEW m \in S PROVE m + 1 \in S
    <2>1. PICK g : IsRun(g, d, p, c, m)
        OBVIOUS
    <2> DEFINE h == [i \in 0..(m + 1) |-> IF i = m + 1 THEN Upserted(g[m], p, c[m + 1]) ELSE g[i]]
    <2>2. m \in Nat /\ m + 1 \in Nat
        OBVIOUS
    <2>3. \A i \in 0..m : h[i] = g[i] /\ i # m + 1 /\ i \in 0..(m + 1)
        BY <2>2
    <2>4. \A i \in 0..m : g[i] = IF i = 0 THEN d ELSE Upserted(g[i - 1], p, c[i])
        BY <2>1 DEF IsRun
    <2>5. ASSUME NEW i \in 0..(m + 1) PROVE h[i] = IF i = 0 THEN d ELSE Upserted(h[i - 1], p, c[i])
        <3>1. CASE i = m + 1
            <4>1. i # 0 /\ i - 1 = m /\ m \in 0..m
                BY <2>2, <3>1
            <4> QED
                BY <2>3, <3>1, <4>1
        <3>2. CASE i # m + 1
            <4>1. i \in 0..m /\ (i # 0 => i - 1 \in 0..m)
                BY <2>2, <3>2
            <4> QED
                BY <2>3, <2>4, <4>1
        <3> QED
            BY <3>1, <3>2
    <2>6. IsRun(h, d, p, c, m + 1)
        BY <2>5 DEF IsRun
    <2> HIDE DEF h
    <2> QED
        BY <2>2, <2>6
<1>3. S = Nat
    <2>1. S \in SUBSET Nat
        OBVIOUS
    <2> HIDE DEF S
    <2> QED
        BY <1>1, <1>2, <2>1, NaturalsByStep
<1> QED
    BY <1>3

LEMMA UpsertedAllIsRun ==
    ASSUME NEW d, NEW p, NEW c, NEW n \in Nat
    PROVE  \E g : IsRun(g, d, p, c, n) /\ UpsertedAll(d, p, c, n) = g[n]
<1> DEFINE run == CHOOSE g : IsRun(g, d, p, c, n)
<1>1. IsRun(run, d, p, c, n)
    BY RunExists
<1>2. UpsertedAll(d, p, c, n) = run[n]
    BY DEF UpsertedAll, IsRun
<1> QED
    BY <1>1, <1>2

\* However many chunks a page has, and whichever of them share a section.
LEMMA RunIsFilled ==
    ASSUME NEW p, HasVec(p), WritesFts(p), NEW d, NEW T, NEW dim, Filled(d, T, dim),
           NEW n \in Nat, NEW c \in [1..n -> Chunk], \A i \in 1..n : c[i].dim = dim,
           NextRow(d) + n <= MaxRow + 1, NEW g, IsRun(g, d, p, c, n)
    PROVE  \A m \in 0..n : Filled(g[m], T, dim) /\ NextRow(g[m]) = NextRow(d) + m
<1>1. /\ \A i \in 0..n : g[i] = IF i = 0 THEN d ELSE Upserted(g[i - 1], p, c[i])
      /\ NextRow(d) \in Nat \ {0} /\ MaxRow \in Nat
    BY NextRowIsFree, TablesAssumption DEF IsRun, Filled
<1> DEFINE S == {m \in Nat : m <= n => Filled(g[m], T, dim) /\ NextRow(g[m]) = NextRow(d) + m}
<1>2. 0 \in S
    <2>1. g[0] = d
        BY <1>1
    <2> QED
        BY <2>1, <1>1
<1>3. ASSUME NEW m \in S PROVE m + 1 \in S
    <2>1. m \in Nat /\ m + 1 \in Nat
        OBVIOUS
    <2>2. CASE m + 1 <= n
        <3>1. m <= n /\ m + 1 \in 0..n /\ m + 1 \in 1..n /\ m + 1 # 0 /\ (m + 1) - 1 = m
            BY <2>1, <2>2
        <3>2. Filled(g[m], T, dim) /\ NextRow(g[m]) = NextRow(d) + m
            BY <3>1
        <3>3. g[m + 1] = Upserted(g[m], p, c[m + 1])
            BY <3>1, <1>1
        <3>4. NextRow(g[m]) \in 1..MaxRow
            BY <2>1, <2>2, <3>2, <1>1
        <3>5. c[m + 1] \in Chunk /\ c[m + 1].dim = dim
            BY <3>1
        <3>6. Filled(g[m + 1], T, dim) /\ NextRow(g[m + 1]) = NextRow(g[m]) + 1
            BY <3>2, <3>3, <3>4, <3>5, UpsertedKeeps
        <3>7. NextRow(g[m + 1]) = NextRow(d) + (m + 1)
            BY <3>2, <3>6, <2>1, <1>1
        <3> QED
            BY <2>1, <3>6, <3>7
    <2>3. CASE ~(m + 1 <= n)
        BY <2>1, <2>3
    <2> QED
        BY <2>2, <2>3
<1>4. S = Nat
    <2>1. S \in SUBSET Nat
        OBVIOUS
    <2> HIDE DEF S
    <2> QED
        BY <1>2, <1>3, <2>1, NaturalsByStep
<1>5. \A m \in 0..n : m \in S /\ m <= n
    BY <1>4
<1> QED
    BY <1>5

LEMMA UpsertedAllKeeps ==
    ASSUME NEW p, HasVec(p), WritesFts(p), NEW d, NEW T, NEW dim, Filled(d, T, dim),
           NEW n \in Nat, NEW c \in [1..n -> Chunk], \A i \in 1..n : c[i].dim = dim,
           NextRow(d) + n <= MaxRow + 1
    PROVE  Filled(UpsertedAll(d, p, c, n), T, dim)
<1>1. PICK g : IsRun(g, d, p, c, n) /\ UpsertedAll(d, p, c, n) = g[n]
    BY UpsertedAllIsRun
<1>2. n \in 0..n
    OBVIOUS
<1> QED
    BY <1>1, <1>2, RunIsFilled

LEMMA DroppedRemoves ==
    ASSUME NEW p, NEW d \in Db, NEW T, NEW r \in Repos
    PROVE  Removed(d, r, Dropped(d, p, r)) /\ TornBy(d, r, Dropped(d, p, r), T, T \ {r})
<1> DEFINE rows == RowsOf(d, r)
           w == Dropped(d, p, r)
<1>1. w = [d EXCEPT !.chunks = Without(@, rows), !.vec = IF HasVec(p) THEN Without(@, rows) ELSE @,
                    !.fts = IF WritesFts(p) THEN Without(@, rows) ELSE @]
    BY DEF Dropped
<1> HIDE DEF w
<1>2. /\ w.chunks = Without(d.chunks, RowsOf(d, r))
      /\ w.vec \in {d.vec, Without(d.vec, RowsOf(d, r))}
      /\ w.fts \in {d.fts, Without(d.fts, RowsOf(d, r))}
      /\ w.schema = d.schema /\ w.vecDim = d.vecDim /\ w.fingerprint = d.fingerprint
      /\ w.adopted = d.adopted
    BY <1>1 DEF Db
<1>3. w \in Db
    BY <1>1, RemovedIsDb DEF Db
<1>4. Removed(d, r, w) /\ TornBy(d, r, w, T, T \ {r})
    BY <1>2, <1>3, RemovedIsDb DEF Removed, TornBy
<1> QED
    BY <1>4 DEF w

LEMMA DroppedKeeps ==
    ASSUME NEW p, NEW d, NEW T, Sound(d, T), NEW r \in Repos
    PROVE  /\ Sound(Dropped(d, p, r), T \ {r})
           /\ Dropped(d, p, r).schema = d.schema /\ Dropped(d, p, r).vecDim = d.vecDim
           /\ \A dim \in Dims : Serves(d, dim) => Serves(Dropped(d, p, r), dim)
<1> DEFINE w == Dropped(d, p, r)
<1>1. Removed(d, r, w) /\ TornBy(d, r, w, T, T \ {r})
    BY DroppedRemoves DEF Sound
<1> HIDE DEF w
<1>2. Sound(w, T \ {r}) /\ \A dim \in Dims : Serves(d, dim) => Serves(w, dim)
    BY <1>1, RowsRemoved
<1> QED
    BY <1>1, <1>2 DEF Removed, w

LEMMA BuildKeeps ==
    ASSUME ~MixedWriters, IInv, NEW p \in Procs, NEW r \in Repos, Build(p, r)
    PROVE  IInv'
<1> DEFINE dim == proc[p].dim
           d == Dropped(db, p, r)
           T == torn \ {r}
<1>1. /\ proc \in [Procs -> ProcRecords] /\ torn \in SUBSET Repos /\ Sound(db, torn)
      /\ dim \in Dims /\ proc[p].kind \in Kinds /\ proc[p].phase = "open" /\ proc[p] \in ProcRecords
    BY TypeOKIff DEF IInv, ProcRecords, Build
<1>2. proc[p].vec /\ proc[p].fts /\ db.schema = 7 /\ Serves(db, dim)
    BY <1>1 DEF IInv, Opener
<1>3. HasVec(p) /\ WritesFts(p)
    BY <1>1, <1>2 DEF HasVec, WritesFts, Kinds
<1>4. PICK n \in 1..MaxSections : \E page \in [1..n -> Sections \X Texts] :
          LET c == [i \in 1..n |-> [repo |-> r, section |-> page[i][1],
                                    text |-> page[i][2], dim |-> dim]]
          IN  /\ NextRow(d) + n <= MaxRow + 1
              /\ HasVec(p) => db.vecDim = dim
              /\ db' = [UpsertedAll(d, p, c, n) EXCEPT !.fingerprint = Stamped(dim),
                                                         !.status = TRUE, !.adopted = FALSE]
    BY DEF Build, Stamped
<1>5. PICK page \in [1..n -> Sections \X Texts] :
          LET c == [i \in 1..n |-> [repo |-> r, section |-> page[i][1],
                                    text |-> page[i][2], dim |-> dim]]
          IN  /\ NextRow(d) + n <= MaxRow + 1
              /\ HasVec(p) => db.vecDim = dim
              /\ db' = [UpsertedAll(d, p, c, n) EXCEPT !.fingerprint = Stamped(dim),
                                                         !.status = TRUE, !.adopted = FALSE]
    BY <1>4
<1> DEFINE c == [i \in 1..n |-> [repo |-> r, section |-> page[i][1], text |-> page[i][2], dim |-> dim]]
           e == UpsertedAll(d, p, c, n)
<1>6. /\ n \in Nat /\ c \in [1..n -> Chunk] /\ \A i \in 1..n : c[i].dim = dim
    <2>1. n \in Nat
        BY TablesAssumption
    <2>2. \A i \in 1..n : page[i][1] \in Sections /\ page[i][2] \in Texts
        OBVIOUS
    <2>3. \A i \in 1..n : [repo |-> r, section |-> page[i][1], text |-> page[i][2], dim |-> dim] \in Chunk
        BY <1>1, <2>2 DEF Chunk
    <2> QED
        BY <2>1, <2>3
<1>7. /\ NextRow(d) + n <= MaxRow + 1 /\ db.vecDim = dim
      /\ db' = [e EXCEPT !.fingerprint = Stamped(dim), !.status = TRUE, !.adopted = FALSE]
    BY <1>3, <1>5
<1> HIDE DEF c, e, dim, d
<1>8. /\ Sound(d, T) /\ d.schema = 7 /\ d.vecDim = dim /\ Serves(d, dim)
    BY <1>1, <1>2, <1>3, <1>7, DroppedKeeps DEF d
<1>9. Filled(d, T, dim)
    BY <1>1, <1>8, ServedDims DEF Filled, Sound
<1>10. Filled(e, T, dim)
    BY <1>3, <1>6, <1>7, <1>9, UpsertedAllKeeps DEF e
<1>11. Stamped(dim) \in Stamps /\ Stamped(dim) # None /\ Stamped(dim).model = dim /\ Stamped(dim).dim = dim
    BY <1>1, StampedIsStamp DEF Stamped
<1>12. e \in Db
    BY <1>10 DEF Filled
<1>13. /\ db'.chunks = e.chunks /\ db'.vec = e.vec /\ db'.fts = e.fts /\ db'.schema = e.schema
       /\ db'.vecDim = e.vecDim /\ db'.fingerprint = Stamped(dim)
    BY <1>7, <1>12 DEF Db
<1>14. db' \in Db
    BY <1>7, <1>11, <1>12 DEF Db
<1>15. Sound(db', T) /\ db'.schema = 7 /\ Serves(db', dim)
    <2>1. OneModel(db')
        BY <1>10, <1>11, <1>13 DEF Filled, OneModel, Stamp
    <2>2. Unfilled(db')
        BY <1>10, <1>13 DEF Filled, Unfilled
    <2>3. Matching(db') /\ Covered(db', T)
        BY <1>10, <1>13 DEF Filled, Matching, Covered
    <2> QED
        BY <2>1, <2>2, <2>3, <1>10, <1>11, <1>13, <1>14 DEF Sound, Serves, Filled
<1>16. torn' = T /\ proc' = [proc EXCEPT ![p] = proc[p]] /\ T \in SUBSET Repos
    <2>1. WritesAll(p)
        BY <1>3 DEF WritesAll
    <2> QED
        BY <1>1, <2>1 DEF Build, T
<1>17. \A q \in Procs : proc[q].phase # "down" => proc[q].dim = dim
    BY <1>1 DEF IInv, OneDim, dim
<1> QED
    BY <1>1, <1>2, <1>15, <1>16, <1>17, ProcStep DEF Drops, dim

-----------------------------------------------------------------------------
(* The initial states, and every step                                      *)

InitialTables(n, page, d, schema, stamped, status) ==
    [chunks |-> [i \in 1..n |-> [repo |-> page[i][1], section |-> page[i][2], text |-> page[i][3], dim |-> d]],
     vec |-> [i \in 1..(IF schema = 6 THEN n ELSE 0) |-> [text |-> page[i][3], dim |-> d]],
     fts |-> NoRows, schema |-> schema, vecDim |-> IF schema = 6 THEN d ELSE None,
     fingerprint |-> IF stamped THEN Stamped(d) ELSE None, status |-> status, adopted |-> FALSE]

InitPrint(n, page, d, schema, stamped, status) ==
    /\ \A i, j \in 1..n : page[i][1] = page[j][1] /\ page[i][2] = page[j][2] => i = j
    /\ n = 0 => schema = 5 /\ ~stamped
    /\ n > 0 => status /\ (stamped \/ d = LegacyDim)
    /\ db = [chunks |-> [i \in 1..n |-> [repo |-> page[i][1], section |-> page[i][2],
                                        text |-> page[i][3], dim |-> d]],
             vec |-> [i \in 1..(IF schema = 6 THEN n ELSE 0) |-> [text |-> page[i][3], dim |-> d]],
             fts |-> NoRows, schema |-> schema, vecDim |-> IF schema = 6 THEN d ELSE None,
             fingerprint |-> IF stamped THEN [model |-> d, dim |-> d] ELSE None,
             status |-> status, adopted |-> FALSE]

InitPage(n, page) ==
    /\ page \in [1..n -> Repos \X Sections \X Texts]
    /\ \E d \in Dims, schema \in {5, 6}, stamped, status \in BOOLEAN :
          InitPrint(n, page, d, schema, stamped, status)

LEMMA InitIsPage == ASSUME Init PROVE \E n \in 0..MaxSections : \E page : InitPage(n, page)
<1>1. \E n \in 0..MaxSections : \E page \in [1..n -> Repos \X Sections \X Texts] :
          \E d \in Dims, schema \in {5, 6}, stamped, status \in BOOLEAN :
              InitPrint(n, page, d, schema, stamped, status)
    BY DEF Init, InitPrint
<1> QED
    BY <1>1 DEF InitPage

LEMMA InitCases ==
    ASSUME Init
    PROVE  \E n \in 0..MaxSections, d \in Dims, schema \in {5, 6}, stamped, status \in BOOLEAN :
           \E page \in [1..n -> Repos \X Sections \X Texts] :
              /\ \A i, j \in 1..n : page[i][1] = page[j][1] /\ page[i][2] = page[j][2] => i = j
              /\ n = 0 => schema = 5 /\ ~stamped
              /\ n > 0 => stamped \/ d = LegacyDim
              /\ db = InitialTables(n, page, d, schema, stamped, status)
<1>1. PICK n \in 0..MaxSections : \E page : InitPage(n, page)
    BY InitIsPage
<1>9. PICK page : InitPage(n, page)
    BY <1>1
<1>2. PICK d \in Dims, schema \in {5, 6}, stamped \in BOOLEAN, status \in BOOLEAN :
          InitPrint(n, page, d, schema, stamped, status)
    BY <1>9 DEF InitPage
<1>3. /\ n = 0 => schema = 5 /\ ~stamped
      /\ n > 0 => stamped \/ d = LegacyDim
    BY <1>2 DEF InitPrint
<1>4. db = InitialTables(n, page, d, schema, stamped, status)
    BY <1>2, Zenon DEF InitPrint, InitialTables, Stamped
<1>5. page \in [1..n -> Repos \X Sections \X Texts]
    BY <1>9 DEF InitPage
<1>6. \A i, j \in 1..n : page[i][1] = page[j][1] /\ page[i][2] = page[j][2] => i = j
    BY <1>2 DEF InitPrint
<1> QED
    BY <1>3, <1>4, <1>5, <1>6

LEMMA InitSound == ASSUME Init PROVE Sound(db, {}) /\ Unique(db) /\ db.schema \in {5, 6}
<1>1. PICK n \in 0..MaxSections, d \in Dims, schema \in {5, 6}, stamped \in BOOLEAN, status \in BOOLEAN :
           \E page \in [1..n -> Repos \X Sections \X Texts] :
              /\ \A i, j \in 1..n : page[i][1] = page[j][1] /\ page[i][2] = page[j][2] => i = j
              /\ n = 0 => schema = 5 /\ ~stamped
              /\ n > 0 => stamped \/ d = LegacyDim
              /\ db = InitialTables(n, page, d, schema, stamped, status)
    BY InitCases
<1>2. PICK page \in [1..n -> Repos \X Sections \X Texts] :
              /\ \A i, j \in 1..n : page[i][1] = page[j][1] /\ page[i][2] = page[j][2] => i = j
              /\ n = 0 => schema = 5 /\ ~stamped
              /\ n > 0 => stamped \/ d = LegacyDim
              /\ db = InitialTables(n, page, d, schema, stamped, status)
    BY <1>1
<1>0. n \in Nat /\ (n # 0 => n > 0)
    BY TablesAssumption
<1> DEFINE chunk(i) == [repo |-> page[i][1], section |-> page[i][2], text |-> page[i][3], dim |-> d]
           chunks == [i \in 1..n |-> chunk(i)]
           filled == 1..(IF schema = 6 THEN n ELSE 0)
           vec == [i \in filled |-> [text |-> page[i][3], dim |-> d]]
           print == IF stamped THEN Stamped(d) ELSE None
           vecDim == IF schema = 6 THEN d ELSE None
<1>3. \A i \in 1..n : page[i][1] \in Repos /\ page[i][2] \in Sections /\ page[i][3] \in Texts
    OBVIOUS
<1>4. /\ \A i \in 1..n : chunk(i) \in Chunk /\ [text |-> page[i][3], dim |-> d] \in Embedding
      /\ \A i \in 1..n : Embedded(chunk(i)) = [text |-> page[i][3], dim |-> d] /\ chunk(i).dim = d
    BY <1>3 DEF Chunk, Embedding, Embedded
<1>5. filled \subseteq 1..n /\ (schema = 6 => filled = 1..n) /\ (schema # 6 => filled = {})
    BY <1>0
<1>6. 1..n \subseteq 1..MaxRow
    BY TablesAssumption
<1>7. /\ chunks \in Table(Chunk) /\ vec \in Table(Embedding) /\ NoRows \in Table(Texts) /\ IsEmpty(NoRows)
      /\ DOMAIN chunks = 1..n /\ DOMAIN vec = filled
      /\ \A i \in 1..n : chunks[i] = chunk(i)
      /\ \A i \in filled : vec[i] = Embedded(chunks[i])
    <2>1. chunks \in [1..n -> Chunk] /\ 1..n \in SUBSET (1..MaxRow)
        BY <1>4, <1>6
    <2>2. vec \in [filled -> Embedding] /\ filled \in SUBSET (1..MaxRow)
        BY <1>4, <1>5, <1>6
    <2>3. /\ DOMAIN chunks = 1..n /\ DOMAIN vec = filled /\ \A i \in 1..n : chunks[i] = chunk(i)
          /\ \A i \in filled : vec[i] = Embedded(chunks[i])
        BY <1>4, <1>5
    <2> HIDE DEF chunks, vec, chunk, filled
    <2>4. chunks \in Table(Chunk) /\ vec \in Table(Embedding)
        BY <2>1, <2>2 DEF Table
    <2> QED
        BY <2>3, <2>4, NoRowsTable
<1>8. /\ print \in Stamps \cup {None} /\ vecDim \in Dims \cup {None} /\ schema \in 5..7
      /\ (n # 0 => (IF print = None THEN Stamped(LegacyDim) ELSE print) = Stamped(d))
      /\ (print # None => n # 0)
    BY <1>0, <1>2, StampedIsStamp
<1>9. Stamped(d).model = d /\ Stamped(d).dim = d
    BY DEF Stamped
<1> HIDE DEF chunk, chunks, vec, print, vecDim, filled
<1>10. db = [chunks |-> chunks, vec |-> vec, fts |-> NoRows, schema |-> schema, vecDim |-> vecDim,
             fingerprint |-> print, status |-> status, adopted |-> FALSE]
    BY <1>2 DEF InitialTables, chunk, chunks, vec, print, vecDim, filled
<1>11. /\ db.chunks = chunks /\ db.vec = vec /\ db.fts = NoRows /\ db.schema = schema
       /\ db.vecDim = vecDim /\ db.fingerprint = print
    BY <1>10
<1>12. db \in Db
    BY <1>7, <1>8, <1>10 DEF Db
<1>13. \A i \in DOMAIN db.chunks : n # 0 /\ i \in 1..n /\ db.chunks[i] = chunk(i)
    BY <1>0, <1>7, <1>11
<1>14. OneModel(db)
    <2>1. n # 0 => Stamp(db) = Stamped(d)
        BY <1>8, <1>11 DEF Stamp
    <2>2. \A i \in DOMAIN db.chunks : db.chunks[i].dim = Stamp(db).model
        BY <1>4, <1>9, <1>13, <2>1
    <2>3. Vouched(db) => n # 0
        BY <1>8, <1>11, <1>13 DEF Vouched, IsEmpty
    <2>4. db.schema >= 6 => db.vecDim = d
        BY <1>11 DEF vecDim
    <2> QED
        BY <1>9, <2>1, <2>2, <2>3, <2>4 DEF OneModel
<1>15. Matching(db)
    BY <1>7, <1>11 DEF Matching, IsEmpty
<1>16. Unfilled(db)
    <2>1. schema < 6 => filled = {}
        BY <1>5
    <2>2. schema < 6 => IsEmpty(vec)
        BY <1>7, <2>1 DEF IsEmpty
    <2> QED
        BY <1>7, <1>11, <2>2 DEF Unfilled
<1>17. Covered(db, {})
    BY <1>5, <1>7, <1>11 DEF Covered
<1>18. Unique(db)
    <2>1. \A i \in 1..n : chunk(i).repo = page[i][1] /\ chunk(i).section = page[i][2]
        BY DEF chunk
    <2> QED
        BY <1>2, <1>13, <2>1 DEF Unique
<1> QED
    BY <1>11, <1>12, <1>14, <1>15, <1>16, <1>17, <1>18 DEF Sound

LEMMA InitIInv == ASSUME Init PROVE IInv
<1>1. /\ torn = {} /\ proc = [p \in Procs |-> Down]
    BY DEF Init
<1>2. Sound(db, torn)
    BY <1>1, InitSound
<1>3. \A p \in Procs : proc[p] = Down
    BY <1>1
<1>4. TypeOK
    BY <1>1, <1>2, DownIsProc, TypeOKIff DEF Sound
<1>5. OneDim /\ \A p \in Procs : Opener(p)
    BY <1>3, DownIsProc DEF OneDim, Opener, Drops
<1> QED
    BY <1>2, <1>4, <1>5 DEF IInv

LEMMA NextIInv == ASSUME ~MixedWriters, IInv, [Next]_vars PROVE IInv'
<1>1. CASE Next
    BY <1>1, BootKeeps, OpenKeeps, ExitKeeps, DropKeeps, BuildKeeps DEF Next
<1>2. CASE UNCHANGED vars
    BY <1>2 DEF vars, IInv, TypeOK, OneDim, Opener
<1> QED
    BY <1>1, <1>2

THEOREM TablesIInv == ASSUME ~MixedWriters PROVE Spec => []IInv
    BY InitIInv, NextIInv, PTL DEF Spec

-----------------------------------------------------------------------------
(* Whichever processes share cache.db                                      *)

\* What a process found when it opened the database.
Relies(p) ==
    /\ proc[p].phase \notin {"down", "booting"} =>
          (proc[p].vec => db.schema >= 6) /\ (proc[p].fts => db.schema = 7)
    /\ proc[p].phase \in Drops => proc[p].repo \in Repos

\* The inductive invariant with MixedWriters: the processes know which virtual tables
\* there are, and the torn repositories are the only ones that these miss chunks of.
SharedInv == TypeOK /\ Covered(db, torn) /\ \A p \in Procs : Relies(p)

LEMMA SharedStep ==
    ASSUME SharedInv, NEW p \in Procs, NEW x \in ProcRecords, proc' = [proc EXCEPT ![p] = x],
           torn' \in SUBSET Repos, db' \in Db, Covered(db', torn'), db'.schema >= db.schema,
           x.phase \notin {"down", "booting"} => (x.vec => db'.schema >= 6) /\ (x.fts => db'.schema = 7),
           x.phase \in Drops => x.repo \in Repos
    PROVE  SharedInv'
<1>1. proc \in [Procs -> ProcRecords] /\ proc' \in [Procs -> ProcRecords] /\ proc'[p] = x
    BY TypeOKIff DEF SharedInv
<1>2. \A q \in Procs \ {p} : proc'[q] = proc[q]
    BY <1>1
<1>3. TypeOK'
    BY <1>1, TypeOKIff DEF TypeOK, Db, ProcRecords, Stamps
<1>4. db.schema \in 5..7 /\ db'.schema \in 5..7
    BY TypeOKIff, DbFacts DEF SharedInv
<1>5. ASSUME NEW q \in Procs PROVE Relies(q)'
    <2>1. CASE q = p
        BY <2>1, <1>1 DEF Relies
    <2>2. CASE q # p
        <3>1. Relies(q) /\ proc'[q] = proc[q]
            BY <2>2, <1>2 DEF SharedInv
        <3> QED
            BY <1>4, <3>1 DEF Relies
    <2> QED
        BY <2>1, <2>2
<1> QED
    BY <1>3, <1>5 DEF SharedInv

LEMMA WithVecCovers ==
    ASSUME NEW d \in Db, NEW T, Covered(d, T), NEW dim \in Dims
    PROVE  LET v == WithVec(d, dim)
           IN  /\ v \in Db /\ Covered(v, T) /\ v.chunks = d.chunks
               /\ v.schema \in {6, 7} /\ v.schema >= d.schema /\ (v.schema = 7 => d.schema = 7)
<1>0. d.schema \in 5..7
    BY DbFacts
<1>1. CASE d.schema >= 6
    BY <1>0, <1>1 DEF WithVec
<1>2. CASE ~(d.schema >= 6)
    <2> DEFINE rows == [i \in DOMAIN d.chunks |-> Embedded(d.chunks[i])]
               print == IF d.fingerprint = None THEN None ELSE [d.fingerprint EXCEPT !.dim = dim]
               v == WithVec(d, dim)
    <2>1. rows \in Table(Embedding) /\ DOMAIN rows = DOMAIN d.chunks
        <3>1. rows \in [DOMAIN d.chunks -> Embedding]
            BY ChunkFacts
        <3>2. DOMAIN d.chunks \in SUBSET (1..MaxRow)
            BY DbFacts, TableFacts
        <3> QED
            BY <3>1, <3>2 DEF Table
    <2>2. print \in Stamps \cup {None}
        BY DbFacts DEF Stamps
    <2>3. v = [d EXCEPT !.vec = rows, !.vecDim = dim, !.schema = 6, !.fingerprint = print]
        BY <1>2 DEF WithVec, Db
    <2> HIDE DEF rows, print, v
    <2>4. v.chunks = d.chunks /\ v.vec = rows /\ v.schema = 6
        BY <2>3 DEF Db
    <2>5. v \in Db
        <3>1. 6 \in 5..7
            OBVIOUS
        <3> QED
            BY <2>1, <2>2, <2>3, <3>1 DEF Db
    <2>6. Covered(v, T)
        BY <2>1, <2>4 DEF Covered
    <2> QED
        BY <1>0, <1>2, <2>4, <2>5, <2>6 DEF v
<1> QED
    BY <1>1, <1>2

LEMMA WithFtsCovers ==
    ASSUME NEW d \in Db, NEW T, Covered(d, T), d.schema \in {6, 7}, NEW skipped
    PROVE  LET v == WithFts(d, skipped)
           IN  v \in Db /\ Covered(v, T \cup ReposAt(d, skipped)) /\ v.chunks = d.chunks /\ v.schema = 7
<1>1. CASE d.schema = 7
    <2>1. WithFts(d, skipped) = d
        BY <1>1 DEF WithFts
    <2> QED
        BY <1>1, <2>1 DEF Covered
<1>2. CASE d.schema = 6
    <2> DEFINE left == DOMAIN d.chunks \ skipped
               rows == [i \in left |-> d.chunks[i].text]
               v == WithFts(d, skipped)
               T2 == T \cup ReposAt(d, skipped)
    <2>1. rows \in Table(Texts) /\ DOMAIN rows = left
        <3>1. rows \in [left -> Texts]
            BY ChunkFacts
        <3>2. left \in SUBSET (1..MaxRow)
            BY DbFacts, TableFacts
        <3> QED
            BY <3>1, <3>2 DEF Table
    <2>2. v = [d EXCEPT !.fts = rows, !.schema = 7]
        BY <1>2 DEF WithFts, Db
    <2>3. \A i \in DOMAIN d.chunks : d.chunks[i].repo \notin T2 => d.chunks[i].repo \notin T /\ i \in left
        BY DEF ReposAt
    <2> HIDE DEF rows, v, T2, left
    <2>4. v.chunks = d.chunks /\ v.fts = rows /\ v.vec = d.vec /\ v.schema = 7
        BY <2>2 DEF Db
    <2>5. v \in Db
        <3>1. 7 \in 5..7
            OBVIOUS
        <3> QED
            BY <2>1, <2>2, <3>1 DEF Db
    <2>6. Covered(v, T2)
        BY <1>2, <2>1, <2>3, <2>4 DEF Covered
    <2> QED
        BY <2>4, <2>5, <2>6 DEF v, T2
<1> QED
    BY <1>1, <1>2

LEMMA OpenedCovers ==
    ASSUME NEW d \in Db, NEW T, Covered(d, T), NEW dim \in Dims, NEW kind,
           NEW skipped \in Skippable(d, kind, dim)
    PROVE  LET v == Opened(d, kind, dim, skipped)
           IN  /\ v \in Db /\ Covered(v, T \cup ReposAt(d, skipped)) /\ v.schema >= d.schema
               /\ MigratesVec(d, kind, dim) => v.schema >= 6
               /\ MigratesFts(d, kind, dim) => v.schema = 7
<1> DEFINE w == IF MigratesVec(d, kind, dim) THEN WithVec(d, dim) ELSE d
           v == Opened(d, kind, dim, skipped)
           T2 == T \cup ReposAt(d, skipped)
<1>0. d.schema \in 5..7
    BY DbFacts
<1>1. /\ w \in Db /\ Covered(w, T) /\ w.chunks = d.chunks /\ w.schema >= d.schema
      /\ MigratesVec(d, kind, dim) => w.schema \in {6, 7}
    BY <1>0, WithVecCovers
<1>2. v = IF MigratesFts(d, kind, dim) THEN WithFts(w, skipped) ELSE w
    BY DEF Opened
<1>3. ReposAt(w, skipped) = ReposAt(d, skipped)
    BY <1>1 DEF ReposAt
<1> HIDE DEF w, v
<1>4. w.schema \in 5..7
    BY <1>1, DbFacts
<1>5. CASE MigratesFts(d, kind, dim)
    <2>1. w.schema \in {6, 7}
        BY <1>1, <1>5 DEF MigratesFts
    <2>2. v \in Db /\ Covered(v, T2) /\ v.schema = 7
        BY <1>1, <1>2, <1>3, <1>5, <2>1, WithFtsCovers
    <2> QED
        BY <1>0, <2>2 DEF v
<1>6. CASE ~MigratesFts(d, kind, dim)
    <2>1. Covered(w, T2)
        BY <1>1 DEF Covered
    <2> QED
        BY <1>1, <1>2, <1>4, <1>6, <2>1 DEF v
<1> QED
    BY <1>5, <1>6

LEMMA SwappedCovers ==
    ASSUME NEW d \in Db, NEW T, Covered(d, T), NEW vec, NEW fts, NEW dim \in Dims
    PROVE  LET w == Swapped(d, vec, fts, dim) IN w \in Db /\ Covered(w, T) /\ w.schema = d.schema
<1> DEFINE w == Swapped(d, vec, fts, dim)
<1>1. SwapOutcome(d, dim, vec, fts, w)
    BY SwapCases
<1>2. Stamped(dim) \in Stamps
    BY StampedIsStamp
<1> HIDE DEF w
<1>3. CASE w = d
    BY <1>3 DEF w
<1>4. CASE w = Kept(d, dim)
    <2>1. w = [d EXCEPT !.fingerprint = Stamped(dim), !.adopted = Adopts(d)] /\ Adopts(d) \in BOOLEAN
        BY <1>4, DbFacts DEF Kept, Adopts
    <2>2. w.chunks = d.chunks /\ w.vec = d.vec /\ w.fts = d.fts /\ w.schema = d.schema
        BY <2>1 DEF Db
    <2>3. w \in Db
        BY <1>2, <2>1 DEF Db
    <2> QED
        BY <2>2, <2>3 DEF Covered, w
<1>5. CASE w = Replaced(d, vec, fts, dim)
    <2> DEFINE vecs == IF vec THEN Without(d.vec, DOMAIN d.chunks) ELSE d.vec
               words == IF fts THEN Without(d.fts, DOMAIN d.chunks) ELSE d.fts
               dropped == AllDropped(d, vec, fts)
               empty == IF Stamp(d).dim # dim /\ vec THEN Recreated(dropped, dim) ELSE dropped
    <2>1. dropped = [d EXCEPT !.chunks = NoRows, !.status = FALSE, !.adopted = FALSE,
                              !.vec = vecs, !.fts = words]
        BY DEF AllDropped, Db
    <2>2. vecs \in Table(Embedding) /\ words \in Table(Texts) /\ NoRows \in Table(Chunk)
          /\ NoRows \in Table(Embedding)
        BY DbFacts, WithoutTable, NoRowsTable
    <2>3. w = [empty EXCEPT !.fingerprint = Stamped(dim)]
        BY <1>5 DEF Replaced
    <2> HIDE DEF vecs, words, dropped
    <2>4. dropped \in Db /\ dropped.chunks = NoRows /\ dropped.schema = d.schema
        BY <2>1, <2>2 DEF Db
    <2>5. /\ Recreated(dropped, dim) \in Db /\ Recreated(dropped, dim).chunks = NoRows
          /\ Recreated(dropped, dim).schema = d.schema
        BY <2>2, <2>4 DEF Recreated, Db
    <2>6. empty \in Db /\ empty.chunks = NoRows /\ empty.schema = d.schema
        BY <2>4, <2>5
    <2> HIDE DEF empty
    <2>7. w \in Db /\ w.chunks = NoRows /\ w.schema = d.schema
        BY <1>2, <2>3, <2>6 DEF Db
    <2> QED
        BY <2>7 DEF Covered, NoRows, w
<1> QED
    BY <1>1, <1>3, <1>4, <1>5 DEF SwapOutcome

LEMMA BootShares == ASSUME SharedInv, NEW p \in Procs, Boot(p) PROVE SharedInv'
<1>0. PICK kind \in Kinds, dim \in Dims : BootsAs(p, kind, dim)
    BY BootCases
<1>1. PICK skipped \in Skippable(db, kind, dim) :
          /\ db' = Swapped(Opened(db, kind, dim, skipped), MigratesVec(db, kind, dim) /\ kind # "purejs",
                           MigratesFts(db, kind, dim), dim)
          /\ torn' = IF IsEmpty(db'.chunks) THEN {} ELSE torn \cup ReposAt(db, skipped)
    BY <1>0 DEF BootsAs
<1> DEFINE d == Opened(db, kind, dim, skipped)
           T == torn \cup ReposAt(db, skipped)
           x == [Down EXCEPT !.phase = "booting", !.kind = kind, !.dim = dim]
<1>2. d \in Db /\ Covered(d, T) /\ d.schema >= db.schema /\ T \in SUBSET Repos
    <2>1. db \in Db /\ Covered(db, torn) /\ torn \in SUBSET Repos
        BY TypeOKIff DEF SharedInv
    <2>2. T \in SUBSET Repos
        BY <2>1, SkippedRows, ChunkFacts DEF ReposAt
    <2> QED
        BY <2>1, <2>2, OpenedCovers
<1>3. x \in ProcRecords /\ x.phase = "booting" /\ proc' = [proc EXCEPT ![p] = x]
    BY <1>0, TablesAssumption DEF BootsAs, Down, ProcRecords, Phases
<1> HIDE DEF d, T, x
<1>4. db' \in Db /\ Covered(db', T) /\ db'.schema = d.schema
    BY <1>1, <1>2, SwappedCovers DEF d
<1>5. torn' \in SUBSET Repos /\ Covered(db', torn')
    BY <1>1, <1>2, <1>4 DEF T, Covered, IsEmpty
<1> QED
    BY <1>2, <1>3, <1>4, <1>5, SharedStep DEF Drops

LEMMA OpenShares == ASSUME SharedInv, NEW p \in Procs, Open(p) PROVE SharedInv'
<1> DEFINE kind == proc[p].kind
           dim == proc[p].dim
           x == [proc[p] EXCEPT !.phase = "open", !.vec = MigratesVec(db, kind, dim),
                                !.fts = MigratesFts(db, kind, dim)]
<1>1. /\ proc[p] \in ProcRecords /\ dim \in Dims /\ db \in Db /\ torn \in SUBSET Repos
      /\ Covered(db, torn)
    BY TypeOKIff DEF SharedInv, ProcRecords
<1>2. PICK skipped \in Skippable(db, kind, dim) :
          /\ db' = Opened(db, kind, dim, skipped) /\ torn' = torn \cup ReposAt(db, skipped)
          /\ proc' = [proc EXCEPT ![p] = x]
    BY DEF Open
<1>3. MigratesVec(db, kind, dim) \in BOOLEAN /\ MigratesFts(db, kind, dim) \in BOOLEAN
    BY DEF MigratesVec, MigratesFts
<1>4. /\ x \in ProcRecords /\ x.phase = "open"
      /\ x.vec = MigratesVec(db, kind, dim) /\ x.fts = MigratesFts(db, kind, dim)
    BY <1>1, <1>3 DEF ProcRecords, Phases
<1>5. torn' \in SUBSET Repos
    BY <1>1, <1>2, SkippedRows, ChunkFacts DEF ReposAt
<1> HIDE DEF x, kind, dim
<1>6. /\ db' \in Db /\ Covered(db', torn') /\ db'.schema >= db.schema
      /\ MigratesVec(db, kind, dim) => db'.schema >= 6
      /\ MigratesFts(db, kind, dim) => db'.schema = 7
    BY <1>1, <1>2, OpenedCovers
<1> QED
    BY <1>2, <1>4, <1>5, <1>6, SharedStep DEF Drops

LEMMA DropShares == ASSUME SharedInv, NEW p \in Procs, Drop(p) PROVE SharedInv'
<1>1. TypeOK /\ Relies(p) /\ db.schema \in 5..7 /\ Covered(db, torn)
    BY TypeOKIff, DbFacts DEF SharedInv
<1>2. PICK r \in Repos, x \in ProcRecords : DropStep(p, r, x)
    BY <1>1, DropSteps DEF Relies
<1>3. db' \in Db /\ Covered(db', torn') /\ db'.schema = db.schema
    BY <1>1, <1>2, RemovedCovers DEF DropStep, Removed
<1>4. (x.vec => db'.schema >= 6) /\ (x.fts => db'.schema = 7)
    BY <1>1, <1>2, <1>3 DEF Relies, DropStep, Drops
<1>5. /\ proc' = [proc EXCEPT ![p] = x] /\ torn' \in SUBSET Repos
      /\ x.phase \in Drops => x.repo \in Repos
    BY <1>2 DEF DropStep
<1>6. db'.schema >= db.schema
    BY <1>1, <1>3
<1> QED
    BY <1>3, <1>4, <1>5, <1>6, SharedStep

\* A chunk of r that p stores is in every virtual table of the database, or r is torn.
Takes(schema, p, T, r) == r \in T \/ ((schema >= 6 => HasVec(p)) /\ (schema >= 7 => WritesFts(p)))

LEMMA UpsertedCovers ==
    ASSUME NEW p, NEW d \in Db, NEW T, Covered(d, T), NEW c \in Chunk, Takes(d.schema, p, T, c.repo),
           NextRow(d) \in 1..MaxRow
    PROVE  LET u == Upserted(d, p, c)
           IN  u \in Db /\ Covered(u, T) /\ u.schema = d.schema /\ NextRow(u) = NextRow(d) + 1
<1> DEFINE row == NextRow(d)
           same == {i \in RowsOf(d, c.repo) : d.chunks[i].section = c.section}
           left == Without(d.chunks, same)
           vecs == IF HasVec(p) THEN PutAt(d.vec, row, Embedded(c)) ELSE d.vec
           words == IF WritesFts(p) THEN PutAt(d.fts, row, c.text) ELSE d.fts
           u == Upserted(d, p, c)
<1>0. /\ d.chunks \in Table(Chunk) /\ d.vec \in Table(Embedding) /\ d.fts \in Table(Texts)
      /\ Embedded(c) \in Embedding /\ c.text \in Texts
    BY DbFacts DEF Chunk, Embedding, Embedded
<1>1. /\ left \in Table(Chunk) /\ DOMAIN left \subseteq DOMAIN d.chunks
      /\ \A i \in DOMAIN left : left[i] = d.chunks[i]
    <2>1. left \in Table(Chunk)
        BY <1>0, WithoutTable
    <2> QED
        BY <2>1 DEF Without, Restrict
<1>2. u = [d EXCEPT !.chunks = PutAt(left, row, c), !.vec = vecs, !.fts = words]
    BY DEF Upserted, Db
<1>3. \A i \in DOMAIN d.chunks : i < row /\ i # row
    BY <1>0, NextRowIsFree, TableFacts, TablesAssumption
<1>4. /\ HasVec(p) => row \in DOMAIN vecs
      /\ WritesFts(p) => row \in DOMAIN words
      /\ DOMAIN d.vec \subseteq DOMAIN vecs /\ DOMAIN d.fts \subseteq DOMAIN words
    BY DEF PutAt
<1> HIDE DEF row, left, u, same
<1>5. PutAt(left, row, c) \in Table(Chunk) /\ vecs \in Table(Embedding) /\ words \in Table(Texts)
    BY <1>0, <1>1, PutTable DEF row
<1> HIDE DEF vecs, words
<1>6. u \in Db /\ u.schema = d.schema /\ u.chunks = PutAt(left, row, c) /\ u.vec = vecs /\ u.fts = words
    BY <1>2, <1>5 DEF Db
<1>7. /\ DOMAIN u.chunks = DOMAIN left \cup {row} /\ u.chunks[row] = c
      /\ \A i \in DOMAIN left : i # row /\ u.chunks[i] = d.chunks[i]
    BY <1>1, <1>3, <1>6 DEF PutAt
<1>8. ASSUME NEW i \in DOMAIN u.chunks, u.chunks[i].repo \notin T
      PROVE  (u.schema >= 6 => i \in DOMAIN u.vec) /\ (u.schema >= 7 => i \in DOMAIN u.fts)
    <2>1. CASE i = row
        BY <1>4, <1>6, <1>7, <1>8, <2>1 DEF Takes
    <2>2. CASE i # row
        <3>1. i \in DOMAIN d.chunks /\ d.chunks[i].repo \notin T
            BY <1>1, <1>7, <1>8, <2>2
        <3>2. (d.schema >= 6 => i \in DOMAIN d.vec) /\ (d.schema >= 7 => i \in DOMAIN d.fts)
            BY <3>1 DEF Covered
        <3> QED
            BY <1>4, <1>6, <3>2
    <2> QED
        BY <2>1, <2>2
<1>9. NextRow(u) = row + 1
    <2>1. row \in DOMAIN u.chunks /\ row \in Nat
        BY <1>7, TablesAssumption DEF row
    <2>2. \A i \in DOMAIN u.chunks : i <= row
        <3>1. \A i \in DOMAIN d.chunks : i \in Nat
            BY <1>0, TableFacts, TablesAssumption
        <3> QED
            BY <1>1, <1>3, <1>7, <2>1, <3>1
    <2> QED
        BY <1>6, <2>1, <2>2, NextRowIsNext
<1> QED
    BY <1>6, <1>8, <1>9 DEF Covered, u, row

PageOf(c, n, r) == n \in Nat /\ c \in [1..n -> Chunk] /\ \A i \in 1..n : c[i].repo = r

LEMMA RunCovers ==
    ASSUME NEW p, NEW d, d \in Db, NEW T, Covered(d, T), NEW r, Takes(d.schema, p, T, r),
           NEW n, NEW c, PageOf(c, n, r), NextRow(d) + n <= MaxRow + 1
    PROVE  LET e == UpsertedAll(d, p, c, n) IN e \in Db /\ Covered(e, T) /\ e.schema = d.schema
<1> USE DEF PageOf
<1>0. PICK g : IsRun(g, d, p, c, n) /\ UpsertedAll(d, p, c, n) = g[n]
    BY UpsertedAllIsRun
<1>1. /\ \A i \in 0..n : g[i] = IF i = 0 THEN d ELSE Upserted(g[i - 1], p, c[i])
      /\ NextRow(d) \in Nat \ {0} /\ MaxRow \in Nat
    BY <1>0, NextRowIsFree, TablesAssumption DEF IsRun
<1> DEFINE Kept1(u, m) == u \in Db /\ Covered(u, T) /\ u.schema = d.schema /\ NextRow(u) = NextRow(d) + m
           S == {m \in Nat : m <= n => Kept1(g[m], m)}
<1>2. 0 \in S
    <2>1. g[0] = d
        BY <1>1
    <2> QED
        BY <2>1, <1>1
<1>3. ASSUME NEW m \in S PROVE m + 1 \in S
    <2>1. m \in Nat /\ m + 1 \in Nat
        OBVIOUS
    <2>2. CASE m + 1 <= n
        <3>1. m <= n /\ m + 1 \in 0..n /\ m + 1 \in 1..n /\ m + 1 # 0 /\ (m + 1) - 1 = m
            BY <2>1, <2>2
        <3>2. Kept1(g[m], m)
            BY <3>1
        <3>3. g[m + 1] = Upserted(g[m], p, c[m + 1])
            BY <3>1, <1>1
        <3>4. NextRow(g[m]) \in 1..MaxRow
            BY <2>1, <2>2, <3>2, <1>1
        <3>5. c[m + 1] \in Chunk /\ c[m + 1].repo = r
            BY <3>1
        <3> DEFINE u == g[m]
                   v == Upserted(u, p, c[m + 1])
        <3>6. u \in Db /\ Covered(u, T) /\ Takes(u.schema, p, T, c[m + 1].repo)
            BY <3>2, <3>5
        <3> HIDE DEF u
        <3>7. v \in Db /\ Covered(v, T) /\ v.schema = u.schema /\ NextRow(v) = NextRow(u) + 1
            <4>1. NextRow(u) \in 1..MaxRow
                BY <3>4 DEF u
            <4> QED
                BY <3>5, <3>6, <4>1, UpsertedCovers
        <3>8. g[m + 1] = v /\ u.schema = d.schema /\ NextRow(u) = NextRow(d) + m
            BY <3>2, <3>3 DEF u
        <3> HIDE DEF v
        <3>9. NextRow(v) = NextRow(d) + (m + 1)
            BY <3>7, <3>8, <2>1, <1>1
        <3> QED
            BY <2>1, <3>7, <3>8, <3>9
    <2>3. CASE ~(m + 1 <= n)
        BY <2>1, <2>3
    <2> QED
        BY <2>2, <2>3
<1>4. S = Nat
    <2>1. S \in SUBSET Nat
        OBVIOUS
    <2> HIDE DEF S
    <2> QED
        BY <1>2, <1>3, <2>1, NaturalsByStep
<1>5. n \in S /\ n <= n
    BY <1>4
<1> QED
    BY <1>0, <1>5

LEMMA BuildShares == ASSUME SharedInv, NEW p \in Procs, NEW r \in Repos, Build(p, r) PROVE SharedInv'
<1> DEFINE dim == proc[p].dim
           d == Dropped(db, p, r)
           T == IF WritesAll(p) THEN torn \ {r} ELSE torn \cup {r}
<1>1. /\ db \in Db /\ proc \in [Procs -> ProcRecords] /\ proc[p] \in ProcRecords /\ dim \in Dims
      /\ torn \in SUBSET Repos /\ Covered(db, torn) /\ Relies(p) /\ proc[p].phase = "open"
    BY TypeOKIff DEF SharedInv, ProcRecords, Build
<1>2. PICK n \in 1..MaxSections : \E page \in [1..n -> Sections \X Texts] :
          LET c == [i \in 1..n |-> [repo |-> r, section |-> page[i][1],
                                    text |-> page[i][2], dim |-> dim]]
          IN  /\ NextRow(d) + n <= MaxRow + 1
              /\ db' = [UpsertedAll(d, p, c, n) EXCEPT !.fingerprint = Stamped(dim),
                                                       !.status = TRUE, !.adopted = FALSE]
    BY DEF Build, Stamped
<1>3. PICK page \in [1..n -> Sections \X Texts] :
          LET c == [i \in 1..n |-> [repo |-> r, section |-> page[i][1],
                                    text |-> page[i][2], dim |-> dim]]
          IN  /\ NextRow(d) + n <= MaxRow + 1
              /\ db' = [UpsertedAll(d, p, c, n) EXCEPT !.fingerprint = Stamped(dim),
                                                       !.status = TRUE, !.adopted = FALSE]
    BY <1>2
<1> DEFINE c == [i \in 1..n |-> [repo |-> r, section |-> page[i][1], text |-> page[i][2], dim |-> dim]]
           e == UpsertedAll(d, p, c, n)
<1>4. n \in Nat /\ c \in [1..n -> Chunk] /\ \A i \in 1..n : c[i].repo = r
    <2>1. n \in Nat
        BY TablesAssumption
    <2>2. \A i \in 1..n : page[i][1] \in Sections /\ page[i][2] \in Texts
        OBVIOUS
    <2>3. \A i \in 1..n : [repo |-> r, section |-> page[i][1], text |-> page[i][2], dim |-> dim] \in Chunk
        BY <1>1, <2>2 DEF Chunk
    <2> QED
        BY <2>1, <2>3
<1>5. NextRow(d) + n <= MaxRow + 1
    BY <1>3
<1>5a. db' = [e EXCEPT !.fingerprint = Stamped(dim), !.status = TRUE, !.adopted = FALSE]
    BY <1>3
<1>6. Removed(db, r, d) /\ TornBy(db, r, d, torn, torn \ {r})
    BY <1>1, DroppedRemoves
<1> HIDE DEF c, e, d
<1>7. d \in Db /\ d.schema = db.schema /\ Covered(d, torn \ {r})
    BY <1>1, <1>6, RemovedCovers DEF Removed
<1>8. Covered(d, T) /\ Takes(d.schema, p, T, r) /\ T \in SUBSET Repos
    BY <1>1, <1>7 DEF Covered, Takes, WritesAll
<1> HIDE DEF T, dim
<1>9. e \in Db /\ Covered(e, T) /\ e.schema = db.schema
    <2>1. LET u == UpsertedAll(d, p, c, n) IN u \in Db /\ Covered(u, T) /\ u.schema = d.schema
        <3>1. PageOf(c, n, r)
            BY <1>4 DEF PageOf
        <3> QED
            BY <1>5, <1>7, <1>8, <3>1, RunCovers
    <2> QED
        BY <1>7, <2>1 DEF e
<1>10. /\ db' \in Db /\ db'.chunks = e.chunks /\ db'.vec = e.vec /\ db'.fts = e.fts
       /\ db'.schema = db.schema
    BY <1>1, <1>5a, <1>9, StampedIsStamp DEF Db
<1>11. Covered(db', T)
    BY <1>9, <1>10 DEF Covered
<1>12. torn' = T /\ proc' = [proc EXCEPT ![p] = proc[p]]
    BY <1>1 DEF Build, T
<1>13. db'.schema >= db.schema /\ proc[p].phase \notin Drops
    BY <1>1, <1>10, DbFacts DEF Drops
<1>14. (proc[p].vec => db'.schema >= 6) /\ (proc[p].fts => db'.schema = 7)
    BY <1>1, <1>10 DEF Relies
<1> QED
    <2>1. torn' \in SUBSET Repos /\ Covered(db', torn')
        BY <1>8, <1>11, <1>12
    <2> QED
        BY <1>1, <1>10, <1>12, <1>13, <1>14, <2>1, SharedStep

THEOREM TablesSharedInv == Spec => []SharedInv
<1>1. ASSUME Init PROVE SharedInv
    <2>1. torn = {} /\ proc = [p \in Procs |-> Down]
        BY <1>1 DEF Init
    <2>2. TypeOK /\ Covered(db, torn)
        BY <1>1, <2>1, InitIInv DEF IInv, Sound
    <2> QED
        BY <2>1, <2>2, DownIsProc DEF SharedInv, Relies, Drops
<1>2. ASSUME SharedInv, [Next]_vars PROVE SharedInv'
    <2>1. CASE Next
        <3>1. ASSUME NEW p \in Procs, Exit(p) PROVE SharedInv'
            <4>1. /\ proc' = [proc EXCEPT ![p] = Down] /\ db' = db /\ torn' = torn
                  /\ db \in Db /\ torn \in SUBSET Repos /\ Covered(db, torn) /\ db.schema \in 5..7
                BY <1>2, <3>1, TypeOKIff, DbFacts DEF Exit, SharedInv
            <4>2. /\ db' \in Db /\ torn' \in SUBSET Repos /\ Covered(db', torn')
                  /\ db'.schema >= db.schema
                BY <4>1
            <4>3. Down.phase \notin Drops
                BY DownIsProc DEF Drops
            <4> QED
                BY <1>2, <4>1, <4>2, <4>3, DownIsProc, SharedStep
        <3> QED
            BY <1>2, <2>1, <3>1, BootShares, OpenShares, DropShares, BuildShares DEF Next
    <2>2. CASE UNCHANGED vars
        BY <1>2, <2>2 DEF vars, SharedInv, TypeOK, Relies
    <2> QED
        BY <1>2, <2>1, <2>2
<1> QED
    BY <1>1, <1>2, PTL DEF Spec

-----------------------------------------------------------------------------
(* The properties                                                          *)

\* Every variable keeps its type: whatever is inserted, removed or recreated, by whichever
\* processes, the three tables map rowids in use to chunks, embeddings and words.
THEOREM TablesTypeOK == Spec => []TypeOK
    BY TablesSharedInv, PTL DEF SharedInv

\* "INNER JOIN on rowid yields parity": a rowid that has been used before never
\* ranks a chunk by the embedding or the words of another one, or of an old text.
RowsMatch ==
    \A r \in Repos :
        /\ \A i \in NativeRows(r) : db.vec[i] = Embedded(db.chunks[i])
        /\ \A i \in Bm25Rows(r) : db.fts[i] = db.chunks[i].text

\* The joins of queryChunksPagedNative() and queryChunksBM25(): however often SQLite
\* hands out a rowid again, and wherever a drop is interrupted, the row a chunk is
\* joined with was written for this chunk.
THEOREM TablesRowsMatch == ASSUME ~MixedWriters PROVE Spec => []RowsMatch
<1>1. ASSUME IInv PROVE RowsMatch
    <2>1. \A r \in Repos : \A i \in RowsOf(db, r) : i \in DOMAIN db.chunks
        BY DEF RowsOf
    <2> QED
        BY <1>1, <2>1 DEF IInv, Sound, Matching, RowsMatch, NativeRows, Bm25Rows
<1> QED
    BY <1>1, TablesIInv, PTL

\* Neither query misses a chunk behind the migrations v6 and v7 and any number of
\* builds and swaps, by processes with the virtual tables or without them, but of a
\* repository whose drop was interrupted, that the backfill skipped a row of, or that
\* was built without a virtual table that cache.db has.
THEOREM TablesNothingHidden == Spec => []NothingHidden
<1>1. ASSUME SharedInv PROVE NothingHidden
    <2>1. SUFFICES ASSUME NEW p \in Procs, NEW r \in Repos \ torn, proc[p].phase = "open"
                   PROVE  /\ HasVec(p) => NativeRows(r) = RowsOf(db, r)
                          /\ HasBm25(p) => Bm25Rows(r) = RowsOf(db, r)
        BY DEF NothingHidden
    <2>2. (proc[p].vec => db.schema >= 6) /\ (proc[p].fts => db.schema = 7)
        BY <1>1, <2>1 DEF SharedInv, Relies
    <2>3. \A i \in RowsOf(db, r) :
              (db.schema >= 6 => i \in DOMAIN db.vec) /\ (db.schema = 7 => i \in DOMAIN db.fts)
        BY <1>1, <2>1 DEF SharedInv, Covered, RowsOf
    <2> QED
        BY <2>2, <2>3 DEF NativeRows, Bm25Rows, HasVec, HasBm25
<1> QED
    BY <1>1, TablesSharedInv, PTL

\* applyEmbedderAutoReindex(): from the first chunk on, vec_chunks has the dimension
\* of the model that every running process embeds with.
THEOREM TablesSwapRebuildsTable == ASSUME ~MixedWriters PROVE Spec => []SwapRebuildsTable
<1>1. ASSUME IInv PROVE SwapRebuildsTable
    <2>1. SUFFICES ASSUME NEW p \in Procs, proc[p].phase = "open", db.fingerprint # None, ~db.adopted
                   PROVE  db.vecDim = proc[p].dim
        BY DEF SwapRebuildsTable
    <2>2. /\ db.schema = 7 /\ Serves(db, proc[p].dim) /\ OneModel(db)
        BY <1>1, <2>1 DEF IInv, Opener, Sound
    <2>3. db.fingerprint = Stamped(proc[p].dim) /\ Stamp(db) = db.fingerprint
        BY <2>1, <2>2 DEF Serves, Stamp
    <2> QED
        BY <2>1, <2>2, <2>3 DEF OneModel, Vouched, Stamped
<1> QED
    BY <1>1, TablesIInv, PTL

-----------------------------------------------------------------------------
(* The tables implement AtomicTables                                       *)

\* The inductive invariant for the refinement: no drop has begun before the migrations.
PagesInv == IInv /\ Unique(db) /\ (db.schema < 7 => torn = {})

\* Nothing that the queries find of q differs between two databases.
SameRows(d, w, q) ==
    /\ RowsOf(w, q) = RowsOf(d, q)
    /\ \A i \in RowsOf(d, q) :
        /\ w.chunks[i] = d.chunks[i]
        /\ i \in DOMAIN w.vec <=> i \in DOMAIN d.vec
        /\ i \in DOMAIN d.vec => w.vec[i] = d.vec[i]
        /\ i \in DOMAIN w.fts <=> i \in DOMAIN d.fts
        /\ i \in DOMAIN d.fts => w.fts[i] = d.fts[i]

LEMMA SameRowsFindSame ==
    ASSUME NEW d, NEW w, NEW q, SameRows(d, w, q)
    PROVE  Stored(w, q) = Stored(d, q) /\ Near(w, q) = Near(d, q) /\ Words(w, q) = Words(d, q)
<1>1. Stored(w, q) = Stored(d, q)
    BY DEF SameRows, Stored
<1>2. {j \in RowsOf(w, q) : j \in DOMAIN w.vec} = {j \in RowsOf(d, q) : j \in DOMAIN d.vec}
    BY DEF SameRows
<1>3. Near(w, q) = Near(d, q)
    BY <1>2 DEF SameRows, Near
<1>4. {j \in RowsOf(w, q) : j \in DOMAIN w.fts} = {j \in RowsOf(d, q) : j \in DOMAIN d.fts}
    BY DEF SameRows
<1>5. Words(w, q) = Words(d, q)
    BY <1>4 DEF SameRows, Words
<1> QED
    BY <1>1, <1>3, <1>5

LEMMA SameRowsCompose ==
    ASSUME NEW d, NEW v, NEW w, NEW q, SameRows(d, v, q), SameRows(v, w, q)
    PROVE  SameRows(d, w, q)
    BY DEF SameRows

\* What either query finds where the rows are all there, or none of them is.
LEMMA CoveredPages ==
    ASSUME NEW d, NEW T, Matching(d), Covered(d, T), NEW r \in Repos, r \notin T
    PROVE  /\ d.schema >= 6 => Near(d, r) = Stored(d, r)
           /\ d.schema >= 7 => Words(d, r) = Stored(d, r)
<1>1. \A i \in RowsOf(d, r) : i \in DOMAIN d.chunks /\ d.chunks[i].repo \notin T
    BY DEF RowsOf
<1>2. ASSUME d.schema >= 6 PROVE Near(d, r) = Stored(d, r)
    <2>1. {j \in RowsOf(d, r) : j \in DOMAIN d.vec} = RowsOf(d, r)
        BY <1>1, <1>2 DEF Covered
    <2>2. \A i \in RowsOf(d, r) : d.vec[i].text = d.chunks[i].text /\ d.vec[i].dim = d.chunks[i].dim
        <3>1. \A i \in RowsOf(d, r) : d.vec[i] = Embedded(d.chunks[i])
            BY <1>1, <1>2 DEF Covered, Matching
        <3>2. \A x : Embedded(x).text = x.text /\ Embedded(x).dim = x.dim
            BY DEF Embedded
        <3> QED
            BY <3>1, <3>2
    <2> QED
        BY <2>1, <2>2 DEF Near, Stored
<1>3. ASSUME d.schema >= 7 PROVE Words(d, r) = Stored(d, r)
    <2>1. {j \in RowsOf(d, r) : j \in DOMAIN d.fts} = RowsOf(d, r)
        BY <1>1, <1>3 DEF Covered
    <2>2. \A i \in RowsOf(d, r) : d.fts[i] = d.chunks[i].text
        BY <1>1, <1>3 DEF Covered, Matching
    <2> QED
        BY <2>1, <2>2 DEF Words, Stored
<1> QED
    BY <1>2, <1>3

LEMMA NoVectors ==
    ASSUME NEW d, NEW r, \A i \in RowsOf(d, r) : i \notin DOMAIN d.vec
    PROVE  Near(d, r) = {}
    BY DEF Near

LEMMA NoWords ==
    ASSUME NEW d, NEW r, \A i \in RowsOf(d, r) : i \notin DOMAIN d.fts
    PROVE  Words(d, r) = {}
    BY DEF Words

LEMMA NoPage ==
    ASSUME NEW d, NEW r, RowsOf(d, r) = {}
    PROVE  Stored(d, r) = {} /\ Near(d, r) = {} /\ Words(d, r) = {}
    BY DEF Stored, Near, Words

\* What a table of chunks of one model has of a repository is a page, or nothing.
LEMMA StoredIsPage ==
    ASSUME NEW d \in Db, Unique(d), NEW dim, \A i \in DOMAIN d.chunks : d.chunks[i].dim = dim,
           NEW r \in Repos
    PROVE  /\ \A a \in Stored(d, r) : a.dim = dim
           /\ RowsOf(d, r) # {} => Stored(d, r) \in Atomic!Pages
           /\ Stored(d, r) \in Atomic!Pages \cup {{}}
<1>1. \A i \in RowsOf(d, r) : i \in DOMAIN d.chunks /\ d.chunks[i].repo = r
    BY DEF RowsOf
<1>2. \A a \in Stored(d, r) :
          \E i \in RowsOf(d, r) :
              /\ a = [section |-> d.chunks[i].section, text |-> d.chunks[i].text, dim |-> d.chunks[i].dim]
    BY DEF Stored
<1>3. \A a \in Stored(d, r) : a.dim = dim
    BY <1>1, <1>2
<1>4. Stored(d, r) \in SUBSET [section : Sections, text : Texts, dim : Dims]
    <2>1. \A i \in RowsOf(d, r) : d.chunks[i] \in Chunk
        BY <1>1, ChunkFacts
    <2> QED
        BY <1>2, <2>1 DEF Chunk
<1>5. ASSUME NEW a \in Stored(d, r), NEW b \in Stored(d, r), a.section = b.section PROVE a = b
    <2>1. PICK i \in RowsOf(d, r) :
              a = [section |-> d.chunks[i].section, text |-> d.chunks[i].text, dim |-> d.chunks[i].dim]
        BY <1>2
    <2>2. PICK j \in RowsOf(d, r) :
              b = [section |-> d.chunks[j].section, text |-> d.chunks[j].text, dim |-> d.chunks[j].dim]
        BY <1>2
    <2>3. d.chunks[i].section = d.chunks[j].section
        BY <1>5, <2>1, <2>2
    <2>4. i = j
        BY <1>1, <2>3 DEF Unique
    <2> QED
        BY <2>1, <2>2, <2>4
<1>6. RowsOf(d, r) = {} => Stored(d, r) = {}
    BY DEF Stored
<1>7. RowsOf(d, r) # {} => Stored(d, r) # {}
    BY DEF Stored
<1> QED
    BY <1>3, <1>4, <1>5, <1>6, <1>7 DEF Atomic!Pages

\* One INSERT OR REPLACE: the rows of the other repositories stay, the page of this one
\* has one more section, or another chunk for it.
LEMMA UpsertedRows ==
    ASSUME NEW p, HasVec(p), WritesFts(p), NEW d \in Db, NEW c \in Chunk
    PROVE  LET u == Upserted(d, p, c)
               same == {i \in RowsOf(d, c.repo) : d.chunks[i].section = c.section}
           IN  /\ DOMAIN u.chunks = (DOMAIN d.chunks \ same) \cup {NextRow(d)}
               /\ u.chunks[NextRow(d)] = c
               /\ \A i \in DOMAIN d.chunks \ same : i # NextRow(d) /\ u.chunks[i] = d.chunks[i]
               /\ DOMAIN u.vec = DOMAIN d.vec \cup {NextRow(d)}
               /\ \A i \in DOMAIN d.vec : i # NextRow(d) => u.vec[i] = d.vec[i]
               /\ DOMAIN u.fts = DOMAIN d.fts \cup {NextRow(d)}
               /\ \A i \in DOMAIN d.fts : i # NextRow(d) => u.fts[i] = d.fts[i]
<1> DEFINE row == NextRow(d)
           same == {i \in RowsOf(d, c.repo) : d.chunks[i].section = c.section}
           left == Without(d.chunks, same)
           u == Upserted(d, p, c)
<1>1. DOMAIN left = DOMAIN d.chunks \ same /\ \A i \in DOMAIN left : left[i] = d.chunks[i]
    BY DEF Without, Restrict
<1>2. u = [d EXCEPT !.chunks = PutAt(left, row, c), !.vec = PutAt(@, row, Embedded(c)),
                    !.fts = PutAt(@, row, c.text)]
    BY DEF Upserted
<1>3. \A i \in DOMAIN d.chunks : i < row /\ i # row
    BY NextRowIsFree, DbFacts, TableFacts, TablesAssumption
<1> HIDE DEF row, left, u
<1>4. /\ u.chunks = PutAt(left, row, c) /\ u.vec = PutAt(d.vec, row, Embedded(c))
      /\ u.fts = PutAt(d.fts, row, c.text)
    BY <1>2 DEF Db
<1>5. /\ DOMAIN u.chunks = DOMAIN left \cup {row} /\ u.chunks[row] = c
      /\ \A i \in DOMAIN left : i # row /\ u.chunks[i] = d.chunks[i]
    BY <1>1, <1>3, <1>4 DEF PutAt
<1>6. /\ DOMAIN u.vec = DOMAIN d.vec \cup {row}
      /\ \A i \in DOMAIN d.vec : i # row => u.vec[i] = d.vec[i]
    BY <1>4 DEF PutAt
<1>7. /\ DOMAIN u.fts = DOMAIN d.fts \cup {row}
      /\ \A i \in DOMAIN d.fts : i # row => u.fts[i] = d.fts[i]
    BY <1>4 DEF PutAt
<1> QED
    BY <1>1, <1>5, <1>6, <1>7 DEF u, row

LEMMA UpsertedPages ==
    ASSUME NEW p, HasVec(p), WritesFts(p), NEW d \in Db, NEW c \in Chunk, Unique(d)
    PROVE  /\ Unique(Upserted(d, p, c))
           /\ RowsOf(Upserted(d, p, c), c.repo) # {}
           /\ \A q \in Repos \ {c.repo} : SameRows(d, Upserted(d, p, c), q)
<1> DEFINE row == NextRow(d)
           same == {i \in RowsOf(d, c.repo) : d.chunks[i].section = c.section}
           u == Upserted(d, p, c)
<1>1. /\ DOMAIN u.chunks = (DOMAIN d.chunks \ same) \cup {row}
      /\ u.chunks[row] = c
      /\ \A i \in DOMAIN d.chunks \ same : i # row /\ u.chunks[i] = d.chunks[i]
      /\ DOMAIN u.vec = DOMAIN d.vec \cup {row} /\ \A i \in DOMAIN d.vec : i # row => u.vec[i] = d.vec[i]
      /\ DOMAIN u.fts = DOMAIN d.fts \cup {row} /\ \A i \in DOMAIN d.fts : i # row => u.fts[i] = d.fts[i]
    BY UpsertedRows
<1>2. \A i \in DOMAIN d.chunks \ same : ~(d.chunks[i].repo = c.repo /\ d.chunks[i].section = c.section)
    BY DEF RowsOf
<1>3. \A i \in same : d.chunks[i].repo = c.repo
    BY DEF RowsOf
<1> HIDE DEF row, same, u
<1>4. Unique(u)
    BY <1>1, <1>2 DEF Unique
<1>5. row \in RowsOf(u, c.repo)
    BY <1>1 DEF RowsOf
<1>6. ASSUME NEW q \in Repos \ {c.repo} PROVE SameRows(d, u, q)
    <2>1. \A i \in RowsOf(d, q) : i \in DOMAIN d.chunks \ same /\ d.chunks[i].repo = q
        BY <1>3 DEF RowsOf
    <2>2. \A i \in RowsOf(d, q) : i # row /\ i \in DOMAIN u.chunks /\ u.chunks[i] = d.chunks[i]
        BY <1>1, <2>1
    <2>3. RowsOf(u, q) = RowsOf(d, q)
        BY <1>1, <2>1, <2>2 DEF RowsOf
    <2> QED
        BY <1>1, <2>2, <2>3 DEF SameRows
<1> QED
    BY <1>4, <1>5, <1>6 DEF u

\* upsertChunks() of a whole page.
LEMMA UpsertedAllPages ==
    ASSUME NEW p, HasVec(p), WritesFts(p), NEW d, NEW T, NEW dim, Filled(d, T, dim), Unique(d),
           NEW n \in Nat \ {0}, NEW c \in [1..n -> Chunk], NEW r, \A i \in 1..n : c[i].dim = dim /\ c[i].repo = r,
           NextRow(d) + n <= MaxRow + 1
    PROVE  /\ Unique(UpsertedAll(d, p, c, n))
           /\ RowsOf(UpsertedAll(d, p, c, n), r) # {}
           /\ \A q \in Repos \ {r} : SameRows(d, UpsertedAll(d, p, c, n), q)
<1>1. PICK g : IsRun(g, d, p, c, n) /\ UpsertedAll(d, p, c, n) = g[n]
    BY UpsertedAllIsRun
<1>2. \A i \in 0..n : g[i] = IF i = 0 THEN d ELSE Upserted(g[i - 1], p, c[i])
    BY <1>1 DEF IsRun
<1>3. \A m \in 0..n : g[m] \in Db
    BY <1>1, RunIsFilled DEF Filled
<1> DEFINE S == {m \in Nat : m <= n =>
                    Unique(g[m]) /\ (m # 0 => RowsOf(g[m], r) # {}) /\ \A q \in Repos \ {r} : SameRows(d, g[m], q)}
<1>4. 0 \in S
    <2>1. g[0] = d
        BY <1>2
    <2>2. \A q \in Repos : SameRows(d, d, q)
        BY DEF SameRows
    <2> QED
        BY <2>1, <2>2
<1>5. ASSUME NEW m \in S PROVE m + 1 \in S
    <2>1. m \in Nat /\ m + 1 \in Nat
        OBVIOUS
    <2>2. CASE m + 1 <= n
        <3>1. m <= n /\ m \in 0..n /\ m + 1 \in 0..n /\ m + 1 \in 1..n /\ m + 1 # 0 /\ (m + 1) - 1 = m
            BY <2>1, <2>2
        <3>2. g[m] \in Db /\ Unique(g[m]) /\ \A q \in Repos \ {r} : SameRows(d, g[m], q)
            BY <1>3, <3>1
        <3>3. g[m + 1] = Upserted(g[m], p, c[m + 1])
            BY <3>1, <1>2
        <3>4. c[m + 1] \in Chunk /\ c[m + 1].repo = r
            BY <3>1
        <3>5. /\ Unique(g[m + 1]) /\ RowsOf(g[m + 1], r) # {}
              /\ \A q \in Repos \ {r} : SameRows(g[m], g[m + 1], q)
            BY <3>2, <3>3, <3>4, UpsertedPages
        <3>6. \A q \in Repos \ {r} : SameRows(d, g[m + 1], q)
            BY <3>2, <3>5, SameRowsCompose
        <3> QED
            BY <2>1, <3>5, <3>6
    <2>3. CASE ~(m + 1 <= n)
        BY <2>1, <2>3
    <2> QED
        BY <2>2, <2>3
<1>6. S = Nat
    <2>1. S \in SUBSET Nat
        OBVIOUS
    <2> HIDE DEF S
    <2> QED
        BY <1>4, <1>5, <2>1, NaturalsByStep
<1>7. n \in S /\ n <= n /\ n # 0
    BY <1>6
<1> QED
    BY <1>1, <1>7

LEMMA WordsAreStored ==
    ASSUME NEW d, NEW r, Matching(d) PROVE Words(d, r) \subseteq Stored(d, r)
<1>1. \A i \in RowsOf(d, r) : i \in DOMAIN d.fts => d.fts[i] = d.chunks[i].text
    BY DEF Matching, RowsOf
<1> QED
    BY <1>1 DEF Words, Stored

\* The virtual tables are filled, but for words that the backfill skips.
MigratedPages(d, v) ==
    \A r \in Repos :
        /\ Stored(v, r) = Stored(d, r)
        /\ Near(v, r) = Stored(d, r) /\ Words(v, r) \subseteq Stored(d, r)
        /\ Near(d, r) = (IF d.schema < 6 THEN {} ELSE Stored(d, r))
        /\ Words(d, r) = {}

\* The migrations change nothing that is found, or fill both virtual tables.
LEMMA OpenedPages ==
    ASSUME ~MixedWriters, NEW d, NEW T, Sound(d, T), d.schema < 7 => T = {},
           NEW dim \in Dims, NEW kind \in Kinds, NEW skipped \in Skippable(d, kind, dim)
    PROVE  LET v == Opened(d, kind, dim, skipped) IN v = d \/ (v.chunks = d.chunks /\ MigratedPages(d, v))
<1> DEFINE v == Opened(d, kind, dim, skipped)
           w == WithVec(d, dim)
<1>1. d.schema \in 5..7 /\ Unfilled(d) /\ Matching(d) /\ Covered(d, T)
    BY DbFacts DEF Sound
<1>2. CASE ~MigratesVec(d, kind, dim)
    BY <1>2, OpenedKeeps
<1>3. CASE d.schema = 7
    <2>1. WithVec(d, dim) = d /\ WithFts(d, skipped) = d
        BY <1>3 DEF WithVec, WithFts
    <2> QED
        BY <2>1 DEF Opened
<1>4. CASE MigratesVec(d, kind, dim) /\ d.schema < 7
    <2>1. /\ Sound(v, T \cup ReposAt(d, skipped)) /\ v.chunks = d.chunks /\ v.schema = 7 /\ T = {}
          /\ v.vec = w.vec
        BY <1>4, OpenedKeeps
    <2>2. Sound(w, T) /\ w.chunks = d.chunks /\ w.schema >= 6
        BY <1>4, WithVecKeeps
    <2> HIDE DEF v, w
    <2>3. ASSUME NEW r \in Repos
          PROVE  /\ Stored(v, r) = Stored(d, r)
                 /\ Near(v, r) = Stored(d, r) /\ Words(v, r) \subseteq Stored(d, r)
                 /\ Near(d, r) = (IF d.schema < 6 THEN {} ELSE Stored(d, r))
                 /\ Words(d, r) = {}
        <3>1. Stored(v, r) = Stored(d, r) /\ Stored(w, r) = Stored(d, r)
            BY <2>1, <2>2 DEF Stored, RowsOf
        <3>2. Near(v, r) = Near(w, r)
            BY <2>1, <2>2 DEF Near, RowsOf
        <3>3. Near(w, r) = Stored(w, r)
            BY <2>1, <2>2, CoveredPages DEF Sound
        <3>4. Words(v, r) \subseteq Stored(v, r)
            BY <2>1, WordsAreStored DEF Sound
        <3>5. d.schema < 6 => Near(d, r) = {}
            BY <1>1, NoVectors DEF Unfilled, IsEmpty
        <3>6. d.schema >= 6 => Near(d, r) = Stored(d, r)
            BY <1>1, <2>1, CoveredPages
        <3>7. Words(d, r) = {}
            BY <1>1, <1>4, NoWords DEF Unfilled, IsEmpty
        <3> QED
            BY <1>1, <3>1, <3>2, <3>3, <3>4, <3>5, <3>6, <3>7
    <2> QED
        BY <2>1, <2>3 DEF v, MigratedPages
<1> QED
    BY <1>1, <1>2, <1>3, <1>4

\* The swap drops all chunks, or changes the fingerprint only.
LEMMA SwappedPages ==
    ASSUME NEW d \in Db, NEW b \in BOOLEAN, NEW dim \in Dims
    PROVE  LET w == Swapped(d, b, b, dim)
           IN  \/ IsEmpty(w.chunks)
               \/ w.chunks = d.chunks /\ w.vec = d.vec /\ w.fts = d.fts
<1> DEFINE w == Swapped(d, b, b, dim)
<1>4. SwapOutcome(d, dim, b, b, w)
    BY SwapCases
<1> HIDE DEF w
<1>1. CASE w = d
    BY <1>1 DEF w
<1>2. CASE w = Kept(d, dim)
    <2>1. w = [d EXCEPT !.fingerprint = Stamped(dim), !.adopted = Adopts(d)]
        BY <1>2 DEF Kept
    <2>2. w.chunks = d.chunks /\ w.vec = d.vec /\ w.fts = d.fts
        BY <2>1 DEF Db
    <2> QED
        BY <2>2 DEF w
<1>3. CASE w = Replaced(d, b, b, dim)
    <2> DEFINE dropped == AllDropped(d, b, b)
               empty == IF Stamp(d).dim # dim /\ b THEN Recreated(dropped, dim) ELSE dropped
    <2>1. w = [empty EXCEPT !.fingerprint = Stamped(dim)]
        BY <1>3 DEF Replaced
    <2>2. dropped.chunks = NoRows
        BY DEF AllDropped, Db
    <2>3. Recreated(dropped, dim).chunks = dropped.chunks
        BY DEF Recreated, AllDropped, Db
    <2> HIDE DEF dropped
    <2>4. empty.chunks = NoRows
        BY <2>2, <2>3
    <2>5. w.chunks = empty.chunks
        <3> HIDE DEF empty
        <3> QED
            BY <2>1
    <2> QED
        BY <2>4, <2>5 DEF IsEmpty, NoRows, w
<1> QED
    BY <1>1, <1>2, <1>3, <1>4 DEF SwapOutcome

\* Deleting rows of r leaves the other repositories alone.
LEMMA RemovedPages ==
    ASSUME NEW d, NEW r \in Repos, NEW w, Removed(d, r, w), NEW q \in Repos \ {r}
    PROVE  SameRows(d, w, q)
<1>1. RowsOf(d, q) \cap RowsOf(d, r) = {}
    BY DEF RowsOf
<1>2. \A i \in RowsOf(d, q) : i \in DOMAIN d.chunks /\ i \notin RowsOf(d, r)
    BY <1>1 DEF RowsOf
<1>3. /\ DOMAIN w.chunks \subseteq DOMAIN d.chunks /\ DOMAIN d.chunks \ RowsOf(d, r) \subseteq DOMAIN w.chunks
      /\ \A i \in DOMAIN w.chunks : w.chunks[i] = d.chunks[i]
    BY DEF Removed, Without, Restrict
<1>4. /\ DOMAIN d.vec \ RowsOf(d, r) \subseteq DOMAIN w.vec /\ DOMAIN w.vec \subseteq DOMAIN d.vec
      /\ \A i \in DOMAIN w.vec : w.vec[i] = d.vec[i]
    BY DEF Removed, Without, Restrict
<1>5. /\ DOMAIN d.fts \ RowsOf(d, r) \subseteq DOMAIN w.fts /\ DOMAIN w.fts \subseteq DOMAIN d.fts
      /\ \A i \in DOMAIN w.fts : w.fts[i] = d.fts[i]
    BY DEF Removed, Without, Restrict
<1>6. RowsOf(w, q) = RowsOf(d, q)
    BY <1>2, <1>3 DEF RowsOf
<1>7. \A i \in RowsOf(d, q) : w.chunks[i] = d.chunks[i]
    BY <1>2, <1>3
<1>8. \A i \in RowsOf(d, q) : (i \in DOMAIN w.vec <=> i \in DOMAIN d.vec) /\ (i \in DOMAIN d.vec => w.vec[i] = d.vec[i])
    BY <1>2, <1>4
<1>9. \A i \in RowsOf(d, q) : (i \in DOMAIN w.fts <=> i \in DOMAIN d.fts) /\ (i \in DOMAIN d.fts => w.fts[i] = d.fts[i])
    BY <1>2, <1>5
<1> QED
    BY <1>6, <1>7, <1>8, <1>9 DEF SameRows

NothingChanges ==
    \A r \in Repos : Stored(db', r) = Stored(db, r) /\ Near(db', r) = Near(db, r) /\ Words(db', r) = Words(db, r)

\* What a step of a process is to the queries.
PagesStep == Unique(db') /\ (Atomic!Next \/ NothingChanges)

LEMMA EmptyForgets == ASSUME IsEmpty(db'.chunks) PROVE PagesStep
<1>1. \A r \in Repos : RowsOf(db', r) = {}
    BY DEF RowsOf, IsEmpty
<1>2. \A r \in Repos : Stored(db', r) = {} /\ Near(db', r) = {} /\ Words(db', r) = {}
    BY <1>1, NoPage
<1>3. Atomic!Forget
    BY <1>2 DEF Atomic!Forget, Atomic!Nothing
<1>4. Unique(db')
    BY <1>1 DEF Unique, IsEmpty
<1> QED
    BY <1>3, <1>4 DEF PagesStep, Atomic!Next

LEMMA SameTables ==
    ASSUME NEW d, NEW w, w.chunks = d.chunks, w.vec = d.vec, w.fts = d.fts
    PROVE  /\ Unique(d) => Unique(w)
           /\ \A r : Stored(w, r) = Stored(d, r) /\ Near(w, r) = Near(d, r) /\ Words(w, r) = Words(d, r)
<1>1. \A r : RowsOf(w, r) = RowsOf(d, r)
    BY DEF RowsOf
<1> QED
    BY <1>1 DEF Unique, Stored, Near, Words

LEMMA OpeningMigrates ==
    ASSUME ~MixedWriters, PagesInv, NEW dim \in Dims, NEW kind \in Kinds,
           NEW skipped \in Skippable(db, kind, dim),
           db'.chunks = Opened(db, kind, dim, skipped).chunks, db'.vec = Opened(db, kind, dim, skipped).vec,
           db'.fts = Opened(db, kind, dim, skipped).fts
    PROVE  PagesStep
<1> DEFINE v == Opened(db, kind, dim, skipped)
<1>1. Sound(db, torn) /\ Unique(db) /\ (db.schema < 7 => torn = {})
    BY DEF PagesInv, IInv
<1>2. db'.chunks = v.chunks /\ db'.vec = v.vec /\ db'.fts = v.fts
    OBVIOUS
<1>3. v = db \/ (v.chunks = db.chunks /\ MigratedPages(db, v))
    BY <1>1, OpenedPages
<1> HIDE DEF v
<1>4. /\ Unique(v) => Unique(db')
      /\ \A r : Stored(db', r) = Stored(v, r) /\ Near(db', r) = Near(v, r) /\ Words(db', r) = Words(v, r)
    BY <1>2, SameTables
<1>5. CASE v = db
    BY <1>1, <1>4, <1>5 DEF PagesStep, NothingChanges
<1>6. CASE v.chunks = db.chunks /\ MigratedPages(db, v)
    <2>1. Unique(v)
        BY <1>1, <1>6 DEF Unique
    <2>2. Atomic!Migrate
        <3>1. [r \in Repos |-> Words(db, r)] = Atomic!Nothing
            BY <1>6 DEF Atomic!Nothing, MigratedPages
        <3>2. [r \in Repos |-> Near(db, r)] \in {Atomic!Nothing, [r \in Repos |-> Stored(db, r)]}
            BY <1>6 DEF Atomic!Nothing, MigratedPages
        <3>3. /\ [r \in Repos |-> Near(db', r)] = [r \in Repos |-> Stored(db, r)]
              /\ [r \in Repos |-> Stored(db', r)] = [r \in Repos |-> Stored(db, r)]
              /\ \A r \in Repos : Words(db', r) \subseteq Stored(db, r)
            BY <1>4, <1>6 DEF MigratedPages
        <3>4. [r \in Repos |-> Words(db', r)] \in [Repos -> SUBSET UNION {Stored(db, r) : r \in Repos}]
            BY <3>3
        <3> QED
            BY <3>1, <3>2, <3>3, <3>4 DEF Atomic!Migrate
    <2> QED
        BY <1>4, <2>1, <2>2 DEF PagesStep, Atomic!Next
<1> QED
    BY <1>3, <1>5, <1>6

LEMMA BootPages == ASSUME ~MixedWriters, PagesInv, NEW p \in Procs, Boot(p) PROVE PagesStep
<1>0. PICK kind \in Kinds, dim \in Dims : BootsAs(p, kind, dim)
    BY BootCases
<1>1. PICK skipped \in Skippable(db, kind, dim) :
          db' = Swapped(Opened(db, kind, dim, skipped), MigratesVec(db, kind, dim) /\ kind # "purejs",
                        MigratesFts(db, kind, dim), dim)
    BY <1>0 DEF BootsAs
<1> DEFINE b == MigratesVec(db, kind, dim)
           d == Opened(db, kind, dim, skipped)
<1>2. d \in Db /\ (MigratesFts(db, kind, dim) <=> b)
    BY OpenedKeeps DEF PagesInv, IInv, Sound
<1>3. /\ b \in BOOLEAN /\ MigratesFts(db, kind, dim) = b
      /\ (MigratesVec(db, kind, dim) /\ kind # "purejs") = b
    BY <1>2 DEF Kinds, MigratesVec, MigratesFts
<1> HIDE DEF b, d
<1>4. db' = Swapped(d, b, b, dim)
    BY <1>1, <1>3 DEF d
<1>5. \/ IsEmpty(db'.chunks)
      \/ db'.chunks = d.chunks /\ db'.vec = d.vec /\ db'.fts = d.fts
    BY <1>2, <1>3, <1>4, SwappedPages
<1> QED
    BY <1>5, EmptyForgets, OpeningMigrates DEF d

LEMMA OpenPages == ASSUME ~MixedWriters, PagesInv, NEW p \in Procs, Open(p) PROVE PagesStep
<1>1. proc[p].kind \in Kinds /\ proc[p].dim \in Dims
    BY TypeOKIff DEF PagesInv, IInv, ProcRecords
<1>2. PICK skipped \in Skippable(db, proc[p].kind, proc[p].dim) :
          db' = Opened(db, proc[p].kind, proc[p].dim, skipped)
    BY DEF Open
<1> QED
    BY <1>1, <1>2, OpeningMigrates

\* Every process that is open writes both virtual tables.
LEMMA OpenWrites ==
    ASSUME ~MixedWriters, IInv, NEW p \in Procs, proc[p].phase \in Drops \cup {"open"}
    PROVE  HasVec(p) /\ WritesFts(p) /\ db.schema = 7
<1>1. proc[p].kind \in {"full", "nobm25"}
    BY TypeOKIff DEF IInv, ProcRecords, Kinds
<1>2. proc[p].vec /\ proc[p].fts /\ db.schema = 7
    BY DEF IInv, Opener, Drops
<1> QED
    BY <1>1, <1>2 DEF HasVec, WritesFts

LEMMA DropPages == ASSUME ~MixedWriters, PagesInv, NEW p \in Procs, Drop(p) PROVE PagesStep
<1>1. db \in Db /\ Unique(db)
    BY TypeOKIff DEF PagesInv, IInv
<1>2. ASSUME NEW r \in Repos, BeginDrop(p, r) PROVE PagesStep
    BY <1>1, <1>2 DEF BeginDrop, PagesStep, NothingChanges
<1> DEFINE r == proc[p].repo
<1>3. proc[p].phase \in Drops => HasVec(p) /\ WritesFts(p) /\ r \in Repos
    BY OpenWrites DEF PagesInv, IInv, Opener
<1>4. ASSUME r \in Repos, Removed(db, r, db')
      PROVE  /\ Unique(db')
             /\ \A q \in Repos \ {r} : Stored(db', q) = Stored(db, q) /\ Near(db', q) = Near(db, q)
                                       /\ Words(db', q) = Words(db, q)
    <2>1. \A q \in Repos \ {r} : SameRows(db, db', q)
        BY <1>4, RemovedPages
    <2>3. DOMAIN db'.chunks \subseteq DOMAIN db.chunks /\ \A i \in DOMAIN db'.chunks : db'.chunks[i] = db.chunks[i]
        BY <1>4 DEF Removed, Without, Restrict
    <2>4. Unique(db')
        BY <1>1, <2>3 DEF Unique
    <2> QED
        BY <2>1, <2>4, SameRowsFindSame
<1>5. CASE DropFts(p)
    <2>1. proc[p].phase = "drop_fts" /\ db' = [db EXCEPT !.fts = Without(@, RowsOf(db, r))] /\ r \in Repos
        BY <1>3, <1>5 DEF DropFts, Drops
    <2>2. /\ db' \in Db /\ db'.chunks = db.chunks /\ db'.vec = db.vec /\ db'.schema = db.schema
          /\ db'.vecDim = db.vecDim /\ db'.fingerprint = db.fingerprint /\ db'.adopted = db.adopted
          /\ db'.fts = Without(db.fts, RowsOf(db, r))
        BY <1>1, <2>1, RemovedIsDb DEF Db
    <2>3. RowsOf(db', r) = RowsOf(db, r) /\ \A i \in RowsOf(db, r) : i \notin DOMAIN db'.fts
        BY <2>2 DEF RowsOf, Without, Restrict
    <2>4. Removed(db, r, db')
        BY <2>2 DEF Removed
    <2>5. /\ Unique(db')
          /\ \A q \in Repos \ {r} : Stored(db', q) = Stored(db, q) /\ Near(db', q) = Near(db, q)
                                    /\ Words(db', q) = Words(db, q)
        BY <1>4, <2>1, <2>4
    <2>6. Stored(db', r) = Stored(db, r) /\ Near(db', r) = Near(db, r) /\ Words(db', r) = {}
        BY <2>2, <2>3, NoWords DEF Stored, Near
    <2>7. Atomic!LoseWords(r)
        BY <2>5, <2>6 DEF Atomic!LoseWords
    <2> QED
        BY <2>1, <2>5, <2>7 DEF PagesStep, Atomic!Next
<1>6. CASE DropVec(p)
    <2>1. proc[p].phase = "drop_vec" /\ db' = [db EXCEPT !.vec = Without(@, RowsOf(db, r))] /\ r \in Repos
        BY <1>3, <1>6 DEF DropVec, Drops
    <2>2. /\ db' \in Db /\ db'.chunks = db.chunks /\ db'.fts = db.fts /\ db'.schema = db.schema
          /\ db'.vecDim = db.vecDim /\ db'.fingerprint = db.fingerprint /\ db'.adopted = db.adopted
          /\ db'.vec = Without(db.vec, RowsOf(db, r))
        BY <1>1, <2>1, RemovedIsDb DEF Db
    <2>3. RowsOf(db', r) = RowsOf(db, r) /\ \A i \in RowsOf(db, r) : i \notin DOMAIN db'.vec
        BY <2>2 DEF RowsOf, Without, Restrict
    <2>4. Removed(db, r, db')
        BY <2>2 DEF Removed
    <2>5. /\ Unique(db')
          /\ \A q \in Repos \ {r} : Stored(db', q) = Stored(db, q) /\ Near(db', q) = Near(db, q)
                                    /\ Words(db', q) = Words(db, q)
        BY <1>4, <2>1, <2>4
    <2>6. Stored(db', r) = Stored(db, r) /\ Words(db', r) = Words(db, r) /\ Near(db', r) = {}
        BY <2>2, <2>3, NoVectors DEF Stored, Words
    <2>7. Atomic!LoseVectors(r)
        BY <2>5, <2>6 DEF Atomic!LoseVectors
    <2> QED
        BY <2>1, <2>5, <2>7 DEF PagesStep, Atomic!Next
<1>7. CASE DropChunks(p)
    <2>1. proc[p].phase = "drop_chunks" /\ db' = [db EXCEPT !.chunks = Without(@, RowsOf(db, r))] /\ r \in Repos
        BY <1>3, <1>7 DEF DropChunks, Drops
    <2>2. /\ db' \in Db /\ db'.vec = db.vec /\ db'.fts = db.fts /\ db'.schema = db.schema
          /\ db'.vecDim = db.vecDim /\ db'.fingerprint = db.fingerprint /\ db'.adopted = db.adopted
          /\ db'.chunks = Without(db.chunks, RowsOf(db, r))
        BY <1>1, <2>1, RemovedIsDb DEF Db
    <2>3. RowsOf(db', r) = {}
        BY <2>2 DEF RowsOf, Without, Restrict
    <2>4. Removed(db, r, db')
        BY <2>2 DEF Removed
    <2>5. /\ Unique(db')
          /\ \A q \in Repos \ {r} : Stored(db', q) = Stored(db, q) /\ Near(db', q) = Near(db, q)
                                    /\ Words(db', q) = Words(db, q)
        BY <1>4, <2>1, <2>4
    <2>6. Stored(db', r) = {} /\ Near(db', r) = {} /\ Words(db', r) = {}
        BY <2>3, NoPage
    <2>7. Atomic!Remove(r)
        BY <2>5, <2>6 DEF Atomic!Remove
    <2> QED
        BY <2>1, <2>5, <2>7 DEF PagesStep, Atomic!Next
<1>8. CASE WriteStatus(p)
    <2>1. db'.chunks = db.chunks /\ db'.vec = db.vec /\ db'.fts = db.fts
        BY <1>1, <1>8 DEF WriteStatus, Db
    <2> QED
        BY <1>1, <2>1, SameTables DEF PagesStep, NothingChanges
<1> QED
    BY <1>2, <1>5, <1>6, <1>7, <1>8 DEF Drop

\* A build replaces one page, by one that has a chunk.
LEMMA BuildPages ==
    ASSUME ~MixedWriters, PagesInv, NEW p \in Procs, NEW r \in Repos, Build(p, r)
    PROVE  PagesStep
<1> DEFINE dim == proc[p].dim
           d == Dropped(db, p, r)
           T == torn \ {r}
<1>1. /\ proc \in [Procs -> ProcRecords] /\ Sound(db, torn) /\ db \in Db /\ Unique(db)
      /\ dim \in Dims /\ proc[p].phase = "open" /\ Serves(db, dim)
    BY TypeOKIff DEF PagesInv, IInv, ProcRecords, Build, Opener
<1>2. HasVec(p) /\ WritesFts(p) /\ db.schema = 7
    BY <1>1, OpenWrites DEF PagesInv
<1>3. PICK n \in 1..MaxSections : \E page \in [1..n -> Sections \X Texts] :
          LET c == [i \in 1..n |-> [repo |-> r, section |-> page[i][1],
                                    text |-> page[i][2], dim |-> dim]]
          IN  /\ NextRow(d) + n <= MaxRow + 1
              /\ HasVec(p) => db.vecDim = dim
              /\ db' = [UpsertedAll(d, p, c, n) EXCEPT !.fingerprint = Stamped(dim),
                                                         !.status = TRUE, !.adopted = FALSE]
    BY DEF Build, Stamped
<1>4. PICK page \in [1..n -> Sections \X Texts] :
          LET c == [i \in 1..n |-> [repo |-> r, section |-> page[i][1],
                                    text |-> page[i][2], dim |-> dim]]
          IN  /\ NextRow(d) + n <= MaxRow + 1
              /\ HasVec(p) => db.vecDim = dim
              /\ db' = [UpsertedAll(d, p, c, n) EXCEPT !.fingerprint = Stamped(dim),
                                                         !.status = TRUE, !.adopted = FALSE]
    BY <1>3
<1> DEFINE c == [i \in 1..n |-> [repo |-> r, section |-> page[i][1], text |-> page[i][2], dim |-> dim]]
           e == UpsertedAll(d, p, c, n)
<1>5. /\ n \in Nat \ {0} /\ c \in [1..n -> Chunk] /\ \A i \in 1..n : c[i].dim = dim /\ c[i].repo = r
    <2>1. n \in Nat \ {0}
        BY TablesAssumption
    <2>2. \A i \in 1..n : page[i][1] \in Sections /\ page[i][2] \in Texts
        OBVIOUS
    <2>3. \A i \in 1..n : [repo |-> r, section |-> page[i][1], text |-> page[i][2], dim |-> dim] \in Chunk
        BY <1>1, <2>2 DEF Chunk
    <2> QED
        BY <2>1, <2>3
<1>6. /\ NextRow(d) + n <= MaxRow + 1 /\ db.vecDim = dim
      /\ db' = [e EXCEPT !.fingerprint = Stamped(dim), !.status = TRUE, !.adopted = FALSE]
    BY <1>2, <1>4
<1> HIDE DEF c, e, dim, d
<1>7. /\ Sound(d, T) /\ d.schema = 7 /\ d.vecDim = dim /\ Serves(d, dim)
    BY <1>1, <1>2, <1>6, DroppedKeeps DEF d
<1>8. Filled(d, T, dim)
    BY <1>1, <1>7, ServedDims DEF Filled, Sound
<1>9. Removed(db, r, d)
    BY <1>1, DroppedRemoves DEF d
<1>10. Unique(d)
    <2>1. DOMAIN d.chunks \subseteq DOMAIN db.chunks /\ \A i \in DOMAIN d.chunks : d.chunks[i] = db.chunks[i]
        BY <1>9 DEF Removed, Without, Restrict
    <2> QED
        BY <1>1, <2>1 DEF Unique
<1>11. Filled(e, T, dim)
    BY <1>2, <1>5, <1>6, <1>8, UpsertedAllKeeps DEF e
<1>12. /\ Unique(e) /\ RowsOf(e, r) # {}
       /\ \A q \in Repos \ {r} : SameRows(d, e, q)
    BY <1>2, <1>5, <1>6, <1>8, <1>10, UpsertedAllPages DEF e
<1>13. e \in Db
    BY <1>11 DEF Filled
<1>14. db'.chunks = e.chunks /\ db'.vec = e.vec /\ db'.fts = e.fts
    BY <1>6, <1>13 DEF Db
<1>15. /\ Unique(e) => Unique(db')
       /\ \A q : Stored(db', q) = Stored(e, q) /\ Near(db', q) = Near(e, q) /\ Words(db', q) = Words(e, q)
    BY <1>14, SameTables
<1>16. \A q \in Repos \ {r} : SameRows(db, e, q)
    BY <1>9, <1>12, RemovedPages, SameRowsCompose
<1>18. /\ Stored(e, r) \in Atomic!Pages /\ \A a \in Stored(e, r) : a.dim = dim
       /\ Near(e, r) = Stored(e, r) /\ Words(e, r) = Stored(e, r)
    BY <1>11, <1>12, <1>13, StoredIsPage, CoveredPages DEF Filled
<1>19. \A q \in Repos : \A a \in Stored(db, q) : a.dim = dim
    <2>1. \A i \in DOMAIN db.chunks : db.chunks[i].dim = dim
        BY <1>1, ServedDims
    <2> QED
        BY <1>1, <2>1, StoredIsPage
<1>20. \A q \in Repos \ {r} :
           Stored(e, q) = Stored(db, q) /\ Near(e, q) = Near(db, q) /\ Words(e, q) = Words(db, q)
    BY <1>16, SameRowsFindSame
<1>21. Atomic!Store(r)
    BY <1>15, <1>18, <1>19, <1>20 DEF Atomic!Store
<1> QED
    BY <1>12, <1>15, <1>21 DEF PagesStep, Atomic!Next

LEMMA OpensUp ==
    ASSUME ~MixedWriters, NEW d, NEW T, Sound(d, T), NEW dim \in Dims, NEW kind \in Kinds,
           NEW skipped \in Skippable(d, kind, dim), MigratesVec(d, kind, dim)
    PROVE  Opened(d, kind, dim, skipped).schema = 7
<1> DEFINE v == Opened(d, kind, dim, skipped)
<1>1. Sound(v, T \cup ReposAt(d, skipped)) /\ v.schema = 7
    BY OpenedKeeps
<1> QED
    BY <1>1

\* No step takes the schema back.
LEMMA SchemaGrows ==
    ASSUME ~MixedWriters, IInv, NEW p \in Procs, Boot(p) \/ Open(p)
    PROVE  db'.schema = 7 \/ (db.schema = 5 /\ torn' \subseteq torn)
<1>1. Sound(db, torn)
    BY DEF IInv
<1>4. ASSUME NEW kind \in Kinds, NEW dim \in Dims, NEW skipped \in Skippable(db, kind, dim),
             ~MigratesVec(db, kind, dim)
      PROVE  ReposAt(db, skipped) = {}
    BY <1>4, SkippedRows DEF ReposAt, MigratesFts
<1>2. CASE Boot(p)
    <2>0. PICK kind \in Kinds, dim \in Dims : BootsAs(p, kind, dim)
        BY <1>2, BootCases
    <2>1. PICK skipped \in Skippable(db, kind, dim) :
              /\ db' = Swapped(Opened(db, kind, dim, skipped), MigratesVec(db, kind, dim) /\ kind # "purejs",
                               MigratesFts(db, kind, dim), dim)
              /\ torn' = IF IsEmpty(db'.chunks) THEN {} ELSE torn \cup ReposAt(db, skipped)
        BY <2>0 DEF BootsAs
    <2> DEFINE b == MigratesVec(db, kind, dim)
               d == Opened(db, kind, dim, skipped)
               T == torn \cup ReposAt(db, skipped)
    <2>2. /\ Sound(d, T) /\ (MigratesFts(db, kind, dim) <=> b) /\ (b => d.schema = 7)
          /\ ~b => d = db /\ d.schema = 5 /\ \E i \in DOMAIN d.chunks : d.chunks[i].dim # dim
        BY <1>1, OpenedKeeps
    <2>3. /\ b \in BOOLEAN /\ MigratesFts(db, kind, dim) = b
          /\ (MigratesVec(db, kind, dim) /\ kind # "purejs") = b
        BY <2>2 DEF Kinds, MigratesVec, MigratesFts
    <2>6. ~b => torn' \subseteq torn
        BY <1>4, <2>1
    <2> HIDE DEF b, d, T
    <2>4. db' = Swapped(d, b, b, dim)
        BY <2>1, <2>3 DEF d
    <2>5. db'.schema = d.schema
        BY <2>2, <2>3, <2>4, SwappedKeeps
    <2> QED
        BY <2>2, <2>5, <2>6
<1>3. CASE Open(p)
    <2>0. proc[p].kind \in Kinds /\ proc[p].dim \in Dims
        BY TypeOKIff DEF IInv, ProcRecords
    <2>1. PICK skipped \in Skippable(db, proc[p].kind, proc[p].dim) :
              /\ db' = Opened(db, proc[p].kind, proc[p].dim, skipped)
              /\ torn' = torn \cup ReposAt(db, skipped)
        BY <1>3 DEF Open
    <2>2. CASE MigratesVec(db, proc[p].kind, proc[p].dim)
        <3> DEFINE kind == proc[p].kind
                   dim == proc[p].dim
        <3>1. kind \in Kinds /\ dim \in Dims /\ skipped \in Skippable(db, kind, dim) /\ MigratesVec(db, kind, dim)
            BY <2>0, <2>1, <2>2
        <3>3. db' = Opened(db, kind, dim, skipped)
            BY <2>1
        <3> HIDE DEF kind, dim
        <3>2. Opened(db, kind, dim, skipped).schema = 7
            BY <1>1, <3>1, OpensUp
        <3> QED
            BY <3>2, <3>3
    <2>3. CASE ~MigratesVec(db, proc[p].kind, proc[p].dim)
        <3>1. db.schema = 5
            BY <1>1, <2>0, <2>1, <2>3, OpenedKeeps
        <3>2. ReposAt(db, skipped) = {}
            BY <1>4, <2>0, <2>3
        <3> QED
            BY <2>1, <3>1, <3>2
    <2> QED
        BY <2>2, <2>3
<1> QED
    BY <1>2, <1>3

LEMMA NextPages ==
    ASSUME ~MixedWriters, PagesInv, [Next]_vars
    PROVE  PagesStep /\ PagesInv'
<1>1. IInv'
    BY NextIInv DEF PagesInv
<1>2. PagesStep
    <2>1. CASE Next
        <3>1. ASSUME NEW p \in Procs, Exit(p) PROVE PagesStep
            BY <3>1 DEF Exit, PagesInv, PagesStep, NothingChanges
        <3> QED
            BY <2>1, <3>1, BootPages, OpenPages, DropPages, BuildPages DEF Next
    <2>2. CASE UNCHANGED vars
        BY <2>2 DEF vars, PagesInv, PagesStep, NothingChanges
    <2> QED
        BY <2>1, <2>2
<1>3. db'.schema < 7 => torn' = {}
    <2>0. IInv /\ (db.schema < 7 => torn = {})
        BY DEF PagesInv
    <2>1. CASE Next
        <3>1. PICK p \in Procs : Boot(p) \/ Open(p) \/ Exit(p) \/ Drop(p) \/ \E r \in Repos : Build(p, r)
            BY <2>1 DEF Next
        <3>2. CASE Boot(p) \/ Open(p)
            BY <2>0, <3>2, SchemaGrows
        <3>4. CASE Exit(p)
            BY <2>0, <3>4 DEF Exit
        <3>3. CASE Drop(p) \/ \E r \in Repos : Build(p, r)
            <4>1. proc'[p].phase \in Drops \cup {"open"}
                <5>1. proc \in [Procs -> ProcRecords] /\ proc[p] \in ProcRecords
                    BY <2>0, TypeOKIff DEF IInv
                <5>2. CASE \E r \in Repos : BeginDrop(p, r)
                    BY <5>1, <5>2 DEF BeginDrop, ProcRecords, Drops
                <5>3. CASE DropFts(p)
                    BY <5>1, <5>3 DEF DropFts, ProcRecords, Drops
                <5>4. CASE DropVec(p)
                    BY <5>1, <5>4 DEF DropVec, ProcRecords, Drops
                <5>5. CASE DropChunks(p)
                    BY <5>1, <5>5 DEF DropChunks, ProcRecords, Drops
                <5>7. CASE WriteStatus(p)
                    BY <5>1, <5>7 DEF WriteStatus, ProcRecords
                <5>6. CASE \E r \in Repos : Build(p, r)
                    BY <5>6 DEF Build
                <5> QED
                    BY <3>3, <5>2, <5>3, <5>4, <5>5, <5>6, <5>7 DEF Drop
            <4> QED
                BY <1>1, <4>1 DEF IInv, Opener, Drops
        <3> QED
            BY <3>1, <3>2, <3>3, <3>4
    <2>2. CASE UNCHANGED vars
        BY <2>0, <2>2 DEF vars
    <2> QED
        BY <2>1, <2>2
<1> QED
    BY <1>1, <1>2, <1>3 DEF PagesInv, PagesStep

LEMMA InitPages == ASSUME Init PROVE PagesInv /\ Atomic!Init
<1>1. IInv /\ Sound(db, {}) /\ torn = {} /\ db.schema \in {5, 6}
    BY InitIInv, InitSound DEF Init
<1>2. Unique(db)
    BY InitSound
<1>4. /\ db \in Db /\ Matching(db) /\ Covered(db, {}) /\ Unfilled(db)
      /\ \A i \in DOMAIN db.chunks : db.chunks[i].dim = Stamp(db).model
    BY <1>1 DEF Sound, OneModel
<1> DEFINE dim == Stamp(db).model
<1>5. \A r \in Repos : Stored(db, r) \in Atomic!Pages \cup {{}} /\ \A a \in Stored(db, r) : a.dim = dim
    <2> HIDE DEF dim
    <2>1. \A i \in DOMAIN db.chunks : db.chunks[i].dim = dim
        BY <1>4 DEF dim
    <2> QED
        BY <1>2, <1>4, <2>1, StoredIsPage
<1>6. \A r \in Repos : Words(db, r) = {}
    BY <1>1, <1>4, NoWords DEF Unfilled, IsEmpty
<1>7. CASE db.schema = 5
    <2>1. \A r \in Repos : Near(db, r) = {}
        BY <1>4, <1>7, NoVectors DEF Unfilled, IsEmpty
    <2> QED
        BY <1>1, <1>2, <1>5, <1>6, <2>1 DEF PagesInv, Atomic!Init, Atomic!Nothing
<1>8. CASE db.schema = 6
    <2>1. \A r \in Repos : Near(db, r) = Stored(db, r)
        BY <1>4, <1>8, CoveredPages
    <2> QED
        BY <1>1, <1>2, <1>5, <1>6, <2>1 DEF PagesInv, Atomic!Init, Atomic!Nothing
<1> QED
    BY <1>1, <1>7, <1>8

\* Two virtual tables that refer to chunks by rowids SQLite hands out again, written by
\* several processes and statement by statement, are to the queries two whole pages for
\* each repository: vector_store.ts and the migrations implement AtomicTables.
THEOREM TablesImplementAtomicTables == ASSUME ~MixedWriters PROVE Spec => PagesAreAtomic
<1>1. Init => PagesInv /\ Atomic!Init
    BY InitPages
<1>2. PagesInv /\ [Next]_vars => PagesInv'
    BY NextPages
<1>3. PagesInv /\ [Next]_vars =>
          [Atomic!Next]_<<[r \in Repos |-> Stored(db, r)], [r \in Repos |-> Near(db, r)],
                          [r \in Repos |-> Words(db, r)]>>
    BY NextPages DEF PagesStep, NothingChanges
<1> QED
    BY <1>1, <1>2, <1>3, PTL DEF Spec, PagesAreAtomic, Atomic!Spec, Atomic!vars
=============================================================================
