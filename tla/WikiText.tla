-------------------------------- MODULE WikiText --------------------------------
(***************************************************************************)
(* The canonical tree of a wiki page: parents of headings, the subtree that *)
(* get_page returns for a section, and the chunks of a long section.       *)
(*                                                                         *)
(* A slug is the sequence of its hyphen-separated parts.  A text is the    *)
(* sequence of the lengths of its paragraphs, of `blanks` empty ones besides, *)
(* and `tokens` the sequence of what each paragraph is estimated at.       *)
(***************************************************************************)
EXTENDS Lists, SequencesExt

\* estimateTokens(): Math.ceil(text.length / 4).
Estimate(length) == (length + 3) \div 4

Estimates(text) == [p \in 1..Len(text) |-> Estimate(text[p])]

Tokens(tokens) == SumOf(tokens)

\* The length of a text with '\n\n' between its paragraphs.
TextLength(text, blanks) ==
    LET paragraphs == Len(text) + blanks
    IN  SumOf(text) + IF paragraphs = 0 THEN 0 ELSE 2 * (paragraphs - 1)

\* `slug.startsWith(candidate + '-')`
IsAncestor(a, s) == Len(a) < Len(s) /\ SubSeq(s, 1, Len(a)) = a

\* inferParentSlug(): the longest heading slug that is a prefix; <<>> is null.
InferParent(slug, slugs) ==
    LET above == {a \in slugs : IsAncestor(a, slug)}
    IN  IF above = {} THEN <<>> ELSE CHOOSE a \in above : \A b \in above : Len(a) >= Len(b)

\* isInSubtree(): walk up the parents until the target or the top.
Reaches(slug, target, slugs) ==
    LET up[s \in slugs \cup {slug}] ==
            \/ s = target
            \/ /\ s \in slugs /\ InferParent(s, slugs) # <<>>
               /\ up[InferParent(s, slugs)]
    IN  up[slug]

\* The nodes of the sections S.
Within(nodes, S) == SelectSeq(nodes, LAMBDA s : s \in S)

\* subtreeFor(): the headings are `slugs`, the nodes name their section.
SubtreeFor(slugs, nodes, target) ==
    IF target \notin slugs THEN <<>> ELSE Within(nodes, {s \in ToSet(nodes) : Reaches(s, target, slugs)})

\* The trailing paragraphs of a window that fit the overlap.
Carry(buf, overlap) ==
    LET fits == {n \in 0..Len(buf) : Tokens(SubSeq(buf, Len(buf) - n + 1, Len(buf))) <= overlap}
        most == CHOOSE n \in fits : \A m \in fits : m <= n
    IN  most

\* Mutant: the window is flushed without the paragraph that did not fit.
AddFlushing(w, p, tokens, max, overlap) ==
    LET buf == SubSeq(tokens, w.first, w.last)
    IN  IF buf # <<>> /\ Tokens(buf) + tokens[p] > max
        THEN [closed |-> Append(w.closed, <<w.first, w.last>>), first |-> p + 1, last |-> p]
        ELSE [w EXCEPT !.last = p]

\* One paragraph of splitWithOverlap(): w is the open window, as the interval of
\* its paragraphs, behind the windows that are closed.  `bufTokens` adds up what the
\* paragraphs are estimated at, without what joins them.
AddParagraph(w, p, tokens, max, overlap) ==
    LET buf == SubSeq(tokens, w.first, w.last)
    IN  IF buf # <<>> /\ Tokens(buf) + tokens[p] > max
        THEN [closed |-> Append(w.closed, <<w.first, w.last>>),
              first |-> w.last + 1 - Carry(buf, overlap), last |-> p]
        ELSE [w EXCEPT !.last = p]

\* The windows of a text, as intervals of paragraphs.
SplitWithOverlap(tokens, max, overlap) ==
    LET open[p \in 0..Len(tokens)] ==
            IF p = 0 THEN [closed |-> <<>>, first |-> 1, last |-> 0]
            ELSE AddParagraph(open[p - 1], p, tokens, max, overlap)
        w == open[Len(tokens)]
    IN  Append(w.closed, <<w.first, w.last>>)

\* chunkPage() for one section: whole when it fits as it is rendered, else in windows.
SectionChunks(text, blanks, max, overlap) ==
    IF Estimate(TextLength(text, blanks)) <= max THEN <<<<1, Len(text)>>>>
    ELSE SplitWithOverlap(Estimates(text), max, overlap)

-----------------------------------------------------------------------------
(* What is promised                                                        *)

\* A section's subtree is every node whose slug extends the section's.
IsSubtree(slugs, nodes, target) ==
    SubtreeFor(slugs, nodes, target) =
        IF target \notin slugs THEN <<>>
        ELSE Within(nodes, {s \in ToSet(nodes) : s = target \/ (s \in slugs /\ IsAncestor(target, s))})

\* The chunks of a section cover its text in order, each goes beyond the one before
\* it and repeats at most the overlap.  One that adds more than a single paragraph to
\* its overlap is estimated, as it is emitted, at no more than maxTokens and a token for
\* every two paragraphs, for what joins them is not counted; a section that is not split
\* is at most maxTokens.
ChunksCover(text, blanks, max, overlap) ==
    LET w == SectionChunks(text, blanks, max, overlap)
        Shared(i) == IF i = 1 THEN 0 ELSE w[i - 1][2] + 1 - w[i][1]
        Chunk(i) == SubSeq(text, w[i][1], w[i][2])
        New(i) == w[i][2] - w[i][1] + 1 - Shared(i)
    IN  /\ w[1][1] = 1 /\ w[Len(w)][2] = Len(text)
        /\ \A i \in 2..Len(w) : w[i][1] <= w[i - 1][2] + 1 /\ w[i - 1][2] < w[i][2]
        /\ \A i \in DOMAIN w :
              /\ Tokens(SubSeq(Estimates(text), w[i][1], w[i][1] + Shared(i) - 1)) <= overlap
              /\ \/ New(i) = 1
                 \/ Estimate(TextLength(Chunk(i), 0)) <= max + Len(Chunk(i)) \div 2
=============================================================================
