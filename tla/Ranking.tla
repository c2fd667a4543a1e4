-------------------------------- MODULE Ranking --------------------------------
(***************************************************************************)
(* What one findChunks() call computes from the tables: the two ranked     *)
(* lists per repository, their reciprocal rank fusion, the merge across    *)
(* repositories, the totals and the page.                                  *)
(*                                                                         *)
(* A repository is a record: its chunks are 1..size in the order of their  *)
(* cosine similarity to the query, and `matches` lists the chunks that the *)
(* full-text index finds, best first.                                      *)
(***************************************************************************)
EXTENDS Lists, SequencesExt

CONSTANTS
    RrfK,      \* RRF_K
    TopN       \* RERANK_TOP_N

ASSUME RankingAssumption == RrfK \in Nat /\ TopN \in Nat \ {0}

AtMost(n) == IF n < TopN THEN n ELSE TopN

\* queryChunksPaged(repo, vec, 0, TopN) and queryChunksBM25(repo, words, 0, TopN).
VectorRows(t) == [i \in 1..AtMost(t.size) |-> i]
Bm25Rows(t) == SubSeq(t.matches, 1, AtMost(Len(t.matches)))

\* Scores are exact: multiples of 1 / Scale.  Lists are no longer than TopN.
Scale ==
    LET product[n \in 0..TopN] == IF n = 0 THEN 1 ELSE product[n - 1] * (RrfK + n)
    IN  product[TopN]
Contribution(rank) == Scale \div (RrfK + rank)

RankIn(s, x) == CHOOSE i \in DOMAIN s : s[i] = x

\* existing.rrfScore += contribution
RrfScore(v, b, x) ==
    (IF x \in ToSet(v) THEN Contribution(RankIn(v, x)) ELSE 0)
      + (IF x \in ToSet(b) THEN Contribution(RankIn(b, x)) ELSE 0)

\* The map `merged`, in the order of its insertions.
Merged(v, b) ==
    LET merged[n \in 0..Len(b)] ==
            IF n = 0 THEN v ELSE IF b[n] \in ToSet(v) THEN merged[n - 1] ELSE Append(merged[n - 1], b[n])
    IN  merged[Len(b)]

\* reciprocalRankFusion() of the lists of repository r, table t.
Fused(r, t) ==
    LET v == VectorRows(t)
        b == Bm25Rows(t)
        merged == Merged(v, b)
        sorted == StablySorted(merged, [i \in DOMAIN merged |-> RrfScore(v, b, merged[i])])
    IN  [i \in 1..AtMost(Len(sorted)) |->
            [repo |-> r, chunk |-> sorted[i], score |-> RrfScore(v, b, sorted[i])]]

AllFused(tables) == FlattenSeq([r \in DOMAIN tables |-> Fused(r, tables[r])])

\* The merge across repositories: what the reranker is given.
Candidates(tables) ==
    LET fused == AllFused(tables)
        sorted == StablySorted(fused, [i \in DOMAIN fused |-> fused[i].score])
    IN  SubSeq(sorted, 1, AtMost(Len(sorted)))

Truncated(tables) ==
    \/ \E r \in DOMAIN tables : tables[r].size > TopN
    \/ Len(AllFused(tables)) > TopN

\* Mutant: every full-text match counts, the overlap is not subtracted.
EveryMatch(t) == Len(t.matches)

\* The matches beyond the vector list, as far as the returned rows tell.
Bm25Only(t) ==
    LET b == Bm25Rows(t)
        overlap == Cardinality({i \in DOMAIN b : b[i] \in ToSet(VectorRows(t))})
    IN  IF Len(t.matches) > overlap THEN Len(t.matches) - overlap ELSE 0

RepoTotal(tables) == SumOf([r \in DOMAIN tables |-> tables[r].size + Bm25Only(tables[r])])
Total(tables) == AtMost(RepoTotal(tables))

\* The slice of the response; the reranker has permuted the candidates.
PageOf(tables, offset, k) ==
    LET c == Candidates(tables)
        last == IF offset + k < Len(c) THEN offset + k ELSE Len(c)
    IN  IF offset >= Len(c) THEN <<>> ELSE SubSeq(c, offset + 1, last)

-----------------------------------------------------------------------------
(* What is promised, stated on the tables                                  *)

\* Reference of the fusion: the score is summed over the lists a chunk is in, and
\* no chunk that is left out, or placed behind, has a higher one.
IsFusion(t, f) ==
    LET lists == <<VectorRows(t), Bm25Rows(t)>>
        all == UNION {ToSet(lists[l]) : l \in {1, 2}}
        Score(x) == SumOf([l \in {1, 2} |-> IF x \in ToSet(lists[l]) THEN Contribution(RankIn(lists[l], x)) ELSE 0])
        in == {f[i].chunk : i \in DOMAIN f}
    IN  /\ in \subseteq all
        /\ Len(f) = AtMost(Cardinality(all)) /\ Cardinality(in) = Len(f)
        /\ \A x \in all \ in, y \in in : Score(x) <= Score(y)
        /\ \A i, j \in DOMAIN f : i < j => Score(f[i].chunk) >= Score(f[j].chunk)

\* A client that walks offset 0, k, 2k, ... up to `total` gets every candidate once.
WalkIsComplete(tables, k) ==
    LET pages == (Total(tables) + k - 1) \div k
        walk == FlattenSeq([p \in 1..pages |-> PageOf(tables, (p - 1) * k, k)])
    IN  walk = Candidates(tables) /\ Len(walk) = Total(tables)

\* Without the flag `truncated`, no chunk of the repositories is out of reach.
FlagIsHonest(tables) ==
    ~Truncated(tables) =>
        \A r \in DOMAIN tables : \A x \in 1..tables[r].size :
            \E i \in DOMAIN Candidates(tables) :
                Candidates(tables)[i].repo = r /\ Candidates(tables)[i].chunk = x
=============================================================================
