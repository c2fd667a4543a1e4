------------------------------ MODULE AtomicTables ------------------------------
(***************************************************************************)
(* What src/src/services/vector_store.ts and the migrations of             *)
(* src/src/services/cache.ts promise the two queries of a search, where    *)
(* every process writes both virtual tables: each finds the page of a      *)
(* repository as one build stored it, or nothing of it, and what happens   *)
(* to one repository changes nothing that is found of another.  Only the   *)
(* words of the pages an old release left may be incomplete.  There are no *)
(* rowids here.                                                            *)
(***************************************************************************)
CONSTANTS Repos, Sections, Texts, Dims

VARIABLES
    stored,   \* stored[r]: the page that the table of chunks has of r
    near,     \* near[r]: what the vector query finds of r
    words     \* words[r]: what the full-text query finds of r

vars == <<stored, near, words>>

\* A page has at least one chunk, one for each section, all of one model.
Pages ==
    {page \in SUBSET [section : Sections, text : Texts, dim : Dims] :
        /\ page # {}
        /\ \A a, b \in page : a.dim = b.dim /\ (a.section = b.section => a = b)}

Nothing == [r \in Repos |-> {}]

\* An old release left some pages of one model, and maybe their vectors.
Init ==
    /\ stored \in [Repos -> Pages \cup {{}}]
    /\ \A q, r \in Repos : \A a \in stored[q], b \in stored[r] : a.dim = b.dim
    /\ near \in {Nothing, stored}
    /\ words = Nothing

\* A build replaces the page of r, while all others are of its model.
Store(r) ==
    LET page == stored'[r]
    IN  /\ page \in Pages
        /\ \A q \in Repos \ {r} : \A a \in stored[q], b \in page : a.dim = b.dim
        /\ stored' = [stored EXCEPT ![r] = page]
        /\ near' = [near EXCEPT ![r] = page]
        /\ words' = [words EXCEPT ![r] = page]

\* The statements of a drop, one by one.
LoseWords(r) == words' = [words EXCEPT ![r] = {}] /\ UNCHANGED <<stored, near>>
LoseVectors(r) == near' = [near EXCEPT ![r] = {}] /\ UNCHANGED <<stored, words>>
Remove(r) ==
    /\ stored' = [stored EXCEPT ![r] = {}]
    /\ near' = [near EXCEPT ![r] = {}]
    /\ words' = [words EXCEPT ![r] = {}]

\* The migrations fill the virtual tables from the chunks, when they are made; the one
\* of the words may skip some.
Migrate ==
    /\ words = Nothing /\ near \in {Nothing, stored}
    /\ near' = stored
    /\ words' \in [Repos -> SUBSET UNION {stored[r] : r \in Repos}]
    /\ \A r \in Repos : words'[r] \subseteq stored[r]
    /\ UNCHANGED stored

\* The embedding model was swapped.
Forget == stored' = Nothing /\ near' = Nothing /\ words' = Nothing

Next ==
    \/ \E r \in Repos : Store(r) \/ LoseWords(r) \/ LoseVectors(r) \/ Remove(r)
    \/ Migrate
    \/ Forget

Spec == Init /\ [][Next]_vars
=============================================================================
