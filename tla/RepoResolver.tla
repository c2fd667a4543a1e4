------------------------------ MODULE RepoResolver ------------------------------
(***************************************************************************)
(* resolveRepo(): from a package to the repository its registry names.     *)
(*                                                                         *)
(* A registry answers "missing" (404), "down" (another error, a timeout, a *)
(* body that is no JSON), or a document: its links, in the order the code  *)
(* reads them, each with the repository it names, or NoRepo, and whether it*)
(* is a source link (`high`) or a home page.  A second request, where there*)
(* is one, has an answer of its own.                                       *)
(***************************************************************************)
EXTENDS Sequences, SequencesExt, FiniteSetsExt

CONSTANTS
    NoRepo,
    GuessOf        \* the repository fuzzyFallback() makes up for a name, or NoRepo

Resolved(repo, confidence) == [repo |-> repo, confidence |-> confidence]
Unresolved == Resolved(NoRepo, "none")

fuzzyFallback(name) ==
    IF GuessOf[name] = NoRepo THEN Unresolved ELSE Resolved(GuessOf[name], "low")

\* Mutant: the links are taken in the order of the document.
FirstLink(links, K) == Min(K)

\* pickGithubFromFields(), of the links at the positions K: source links first, each kind
\* in the order of the document.
Primary(links, K) ==
    LET high == {k \in K : links[k].high}
    IN  IF high # {} THEN Min(high) ELSE Min(K)

Lookup(answer, ifDown, ifUnlinked) ==
    LET linked == {k \in DOMAIN answer.links : answer.links[k].repo # NoRepo}
        best   == answer.links[Primary(answer.links, linked)]
    IN  CASE answer.status = "missing" -> Unresolved
          [] answer.status = "down" -> ifDown
          [] answer.status = "found" /\ linked = {} -> ifUnlinked
          [] OTHER -> Resolved(best.repo, IF best.high THEN "high" ELSE "medium")

resolveNpm(name, first)       == Lookup(first, fuzzyFallback(name), Unresolved)
resolvePyPI(name, first)      == Lookup(first, fuzzyFallback(name), Unresolved)
resolveRubyGems(name, first)  == Lookup(first, fuzzyFallback(name), Unresolved)
resolveCargo(name, first)     == Lookup(first, fuzzyFallback(name), fuzzyFallback(name))
resolveComposer(name, first)  == Lookup(first, fuzzyFallback(name), fuzzyFallback(name))
\* The path of a module names its repository: there is nothing to guess.
resolveGo(first)              == Lookup(first, Unresolved, Unresolved)
\* The first answer lists the versions; its links are not read.
resolveMaven(first, second) ==
    IF first.status = "found" THEN Lookup(second, Unresolved, Unresolved) ELSE Unresolved
resolveNuGet(name, first, second) ==
    CASE first.status = "down" -> fuzzyFallback(name)
      [] first.status = "missing" -> Unresolved
      [] OTHER -> Lookup(second, Unresolved, Unresolved)

Ecosystems == {"npm", "pypi", "go", "cargo", "composer", "maven", "gem", "nuget"}
resolveRepo(name, ecosystem, first, second) ==
    CASE ecosystem = "npm" -> resolveNpm(name, first)
      [] ecosystem = "pypi" -> resolvePyPI(name, first)
      [] ecosystem = "go" -> resolveGo(first)
      [] ecosystem = "cargo" -> resolveCargo(name, first)
      [] ecosystem = "composer" -> resolveComposer(name, first)
      [] ecosystem = "maven" -> resolveMaven(first, second)
      [] ecosystem = "gem" -> resolveRubyGems(name, first)
      [] ecosystem = "nuget" -> resolveNuGet(name, first, second)

\* What a resolution may rest on: a guess on a first request that failed or, for a crate
\* and a Composer package, on a document without a repository; never on a 404.  A link
\* that is taken is the best there is.
IsSourced(name, ecosystem, first, second) ==
    LET result == resolveRepo(name, ecosystem, first, second)
        read   == IF ecosystem \in {"maven", "nuget"} THEN second ELSE first
        links  == {l \in ToSet(read.links) : l.repo # NoRepo}
    IN  /\ result.confidence = "low" =>
              /\ first.status # "missing"
              /\ first.status = "down" \/ (ecosystem \in {"cargo", "composer"} /\ links = {})
        /\ result.confidence \in {"medium", "high"} =>
              /\ [high |-> result.confidence = "high", repo |-> result.repo] \in links
              /\ result.confidence = "medium" => \A l \in links : ~l.high
        /\ first.status = "found" /\ read.status = "found" /\ links # {} => result.repo # NoRepo
=============================================================================
