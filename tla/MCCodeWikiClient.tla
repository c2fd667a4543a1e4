--------------------------- MODULE MCCodeWikiClient ---------------------------
(* A small instance of CodeWikiClient for TLC. *)
EXTENDS CodeWikiClient

\* A probe, the pages, and their subsections: several keys share a pages row.
SmallKeys ==
    [repo : Repos, slug : {None}, section : {None}]
        \cup [repo : Repos, slug : Slugs, section : Sections \cup {None}]
=============================================================================
