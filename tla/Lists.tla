--------------------------------- MODULE Lists ---------------------------------
(* What the server computes from lists: sums, and JavaScript's stable sort. *)
EXTENDS Naturals, Sequences, FiniteSets

SumOf(s) ==
    LET sum[n \in 0..Len(s)] == IF n = 0 THEN 0 ELSE sum[n - 1] + s[n]
    IN  sum[Len(s)]

\* The positions that are sorted before position i.
Ahead(keys, i) == {j \in DOMAIN keys : keys[j] > keys[i] \/ (keys[j] = keys[i] /\ j < i)}

\* s.sort((a, b) => b.key - a.key): descending and stable.
StablySorted(s, keys) ==
    [n \in DOMAIN s |-> s[CHOOSE i \in DOMAIN s : Cardinality(Ahead(keys, i)) = n - 1]]
=============================================================================
