---------------------------- MODULE CodeWikiClient ----------------------------
(***************************************************************************)
(* CodeWikiClient of src/src/services/codewiki_client.ts: probe() and      *)
(* getPage() over the wiki_status and pages tables, the single-flight map, *)
(* and the rate limit before a page load.                                  *)
(*                                                                         *)
(* A call is one execution of a single-flight function.  It runs from await *)
(* to await; callers that join it, or that a fresh row answers, change     *)
(* nothing and are not modelled.                                           *)
(***************************************************************************)
EXTENDS Naturals, FiniteSets

CONSTANTS
    Calls,       \* identities of executions
    Keys,        \* single-flight keys: repo, page slug and subsection
    Repos,
    Slugs,       \* page slugs; __root__ is one of them
    Sections,    \* subsections
    LastVersion, \* bound: upstream publishes versions 1..LastVersion
    Bare,        \* the versions whose text links to no commit
    Shells,      \* {0} if upstream may answer with an empty SPA shell, else {}
    Interval,    \* RATE_LIMIT_INTERVAL_MS, in ticks
    Gone,        \* the answer notFound
    None         \* JavaScript null

\* The links of version v name SHA v.  An empty shell is content 0; SHA 0 is the
\* empty string in a row and null in an answer.
Contents == 0..LastVersion
Pages == [content : Contents, sha : Contents]
PageRows == [content : Contents, sha : Contents, fresh : BOOLEAN]

ASSUME KeysAssumption ==
    Keys \subseteq [repo : Repos, slug : Slugs \cup {None}, section : Sections \cup {None}]
ASSUME BoundsAssumption ==
    /\ LastVersion \in Nat \ {0} /\ Interval \in Nat \ {0}
    /\ Bare \subseteq 1..LastVersion /\ Shells \subseteq {0}
ASSUME NoneAssumption ==
    /\ None \notin Calls /\ None \notin Slugs /\ None \notin Keys
    /\ None \notin Pages \cup PageRows
    /\ Gone \notin Contents \cup Pages \cup {None}

VARIABLES
    upstream,   \* upstream[r]: the version CodeWiki serves, or Gone
    latest,     \* latest[r]: the newest version CodeWiki has served
    wiki,       \* wiki[r]: the wiki_status row, or None
    page,       \* page[r][s]: the pages row, or None
    storer,     \* history: the key whose execution wrote page[r][s] last
    inflight,   \* inflight[k]: the call that this.inflight holds, or None
    call,       \* call[c]: where execution c is suspended
    cooldown    \* max(0, this.nextAllowedAt - now)

tables == <<wiki, page, storer>>
vars == <<upstream, latest, tables, inflight, call, cooldown>>

WikiRows == [has : BOOLEAN, fresh : BOOLEAN]
Answers == Pages \cup {Gone, None}

\* `cached` is the pages row read before the first await, `answer` what was
\* extracted from the loaded page.  A "hung" call waits for a promise of the
\* browser that never settles.
CallStates ==
    [step : {"idle", "pacing", "loading", "returning", "hung"}, key : Keys \cup {None},
     cached : PageRows \cup {None}, sleep : 0..Interval, answer : Answers]
Idle == [step |-> "idle", key |-> None, cached |-> None, sleep |-> 0, answer |-> None]

TypeOK ==
    /\ upstream \in [Repos -> 1..LastVersion \cup {Gone}]
    /\ latest \in [Repos -> 1..LastVersion]
    /\ wiki \in [Repos -> WikiRows \cup {None}]
    /\ page \in [Repos -> [Slugs -> PageRows \cup {None}]]
    /\ storer \in [Repos -> [Slugs -> Keys \cup {None}]]
    /\ inflight \in [Keys -> Calls \cup {None}]
    /\ call \in [Calls -> CallStates]
    /\ cooldown \in 0..Interval

Init ==
    /\ upstream \in [Repos -> {1, Gone}]
    /\ latest = [r \in Repos |-> 1]
    /\ wiki = [r \in Repos |-> None]
    /\ page = [r \in Repos |-> [s \in Slugs |-> None]]
    /\ storer = [r \in Repos |-> [s \in Slugs |-> None]]
    /\ inflight = [k \in Keys |-> None]
    /\ call = [c \in Calls |-> Idle]
    /\ cooldown = 0

-----------------------------------------------------------------------------
(* The environment: upstream and time                                      *)

Publishes(r) ==
    /\ latest[r] < LastVersion
    /\ latest' = [latest EXCEPT ![r] = @ + 1]
    /\ upstream' = [upstream EXCEPT ![r] = latest[r] + 1]
    /\ UNCHANGED <<tables, inflight, call, cooldown>>

Withdraws(r) ==
    /\ upstream[r] # Gone
    /\ upstream' = [upstream EXCEPT ![r] = Gone]
    /\ UNCHANGED <<latest, tables, inflight, call, cooldown>>

\* PAGE_TTL_MS and WIKI_STATUS_TTL_MS pass.
PageExpires(r, s) ==
    /\ page[r][s] # None
    /\ page[r][s].fresh
    /\ page' = [page EXCEPT ![r][s].fresh = FALSE]
    /\ UNCHANGED <<upstream, latest, wiki, storer, inflight, call, cooldown>>

WikiExpires(r) ==
    /\ wiki[r] # None
    /\ wiki[r].fresh
    /\ wiki' = [wiki EXCEPT ![r].fresh = FALSE]
    /\ UNCHANGED <<upstream, latest, page, storer, inflight, call, cooldown>>

Down(n) == IF n = 0 THEN 0 ELSE n - 1

Tick ==
    /\ cooldown > 0 \/ \E c \in Calls : call[c].sleep > 0
    /\ cooldown' = Down(cooldown)
    /\ call' = [c \in Calls |-> [call[c] EXCEPT !.sleep = Down(@)]]
    /\ UNCHANGED <<upstream, latest, tables, inflight>>

-----------------------------------------------------------------------------
(* probe(), getPage(), singleFlight() and respectRateLimit()               *)

IsProbe(k) == k.slug = None
CachedPage(k) == IF IsProbe(k) THEN None ELSE page[k.repo][k.slug]

\* A row within its TTL answers without a fetch.
Answered(k) ==
    IF IsProbe(k) THEN wiki[k.repo] # None /\ wiki[k.repo].fresh
    ELSE CachedPage(k) # None /\ CachedPage(k).fresh

\* Mutant: `if (existing) return existing` is dropped.
JoinNever(k) == FALSE
Joins(k) == inflight[k] # None

\* The call runs up to its first await: the sleep of respectRateLimit(), or the
\* load of the page when the origin may be visited at once.
Request(c, k) ==
    /\ call[c].step = "idle"
    /\ ~Joins(k)
    /\ ~Answered(k)
    /\ inflight' = [inflight EXCEPT ![k] = c]
    /\ call' = [call EXCEPT ![c] =
          [Idle EXCEPT !.key = k, !.cached = CachedPage(k), !.sleep = cooldown,
                       !.step = IF cooldown > 0 THEN "pacing" ELSE "loading"]]
    /\ cooldown' = IF cooldown > 0 THEN cooldown ELSE Interval
    /\ UNCHANGED <<upstream, latest, tables>>

\* Mutant: `nextAllowedAt += RATE_LIMIT_INTERVAL_MS`, whatever is left of it.
WakeAccumulates(c) ==
    /\ call[c].step = "pacing"
    /\ call[c].sleep = 0
    /\ call' = [call EXCEPT ![c].step = "loading"]
    /\ cooldown' = cooldown + Interval
    /\ UNCHANGED <<upstream, latest, tables, inflight>>

\* The timer fires.  The sleeper does not look at nextAllowedAt again.
Wake(c) ==
    /\ call[c].step = "pacing"
    /\ call[c].sleep = 0
    /\ call' = [call EXCEPT ![c].step = "loading"]
    /\ cooldown' = Interval
    /\ UNCHANGED <<upstream, latest, tables, inflight>>

\* firstCommitSha is null on a page without a link to a commit.
Shown(v) ==
    IF v = Gone THEN Gone ELSE [content |-> v, sha |-> IF v \in Bare THEN 0 ELSE v]

\* extractFromPage(); the page is closed (an await) before the call goes on.
Extract(c) ==
    /\ call[c].step = "loading"
    /\ \E v \in {upstream[call[c].key.repo]} \cup Shells :
          call' = [call EXCEPT ![c].step = "returning", ![c].answer = Shown(v)]
    /\ UNCHANGED <<upstream, latest, tables, inflight, cooldown>>

\* PAGE_LOAD_TIMEOUT_MS bounds page.goto() and no other call of the browser.
Hangs(c) ==
    /\ call[c].step = "loading"
    /\ call' = [call EXCEPT ![c].step = "hung"]
    /\ UNCHANGED <<upstream, latest, tables, inflight, cooldown>>

\* Mutant: the key is freed by .then(), so that a failure leaves it taken.
ForgottenOnSuccess(c, failed) ==
    IF failed THEN inflight ELSE [inflight EXCEPT ![call[c].key] = None]

\* .finally(() => this.inflight.delete(key)), failed or not.
Forgotten(c, failed) == [inflight EXCEPT ![call[c].key] = None]

Ends(c, failed) ==
    /\ inflight' = Forgotten(c, failed)
    /\ call' = [call EXCEPT ![c] = Idle]

\* The install gate, the launch, the navigation or the extraction fails.
LoadFails(c) ==
    /\ call[c].step = "loading"
    /\ Ends(c, TRUE)
    /\ UNCHANGED <<upstream, latest, tables, cooldown>>

IsShell(a) == a # Gone /\ a.content = 0

ProbeReturns(c) ==
    LET r == call[c].key.repo
        a == call[c].answer
    IN  /\ call[c].step = "returning"
        /\ IsProbe(call[c].key)
        /\ Ends(c, IsShell(a))
        /\ wiki' = IF IsShell(a) THEN wiki
                   ELSE [wiki EXCEPT ![r] = [has |-> a # Gone, fresh |-> TRUE]]
        /\ UNCHANGED <<upstream, latest, page, storer, cooldown>>

\* Mutant: the new body is stored under the SHA of the old one.
OldSha(cached, a) == IF cached # None THEN cached.sha ELSE a.sha

\* firstCommitSha ?? cached.commitSha, or ?? '' without a cached row.
StoredSha(cached, a) == IF a.sha = 0 /\ cached # None THEN cached.sha ELSE a.sha

\* upstream.firstCommitSha === cached.commitSha: null is not the empty string.
Unchanged(cached, a) == cached # None /\ a.sha # 0 /\ a.sha = cached.sha

\* The row after getPage() took answer a.  A timestamp refresh updates no row if
\* the row was deleted meanwhile.
RowAfter(cached, row, a) ==
    CASE a = Gone -> IF cached # None THEN None ELSE row
      [] a # Gone /\ Unchanged(cached, a) ->
             IF row = None THEN None ELSE [row EXCEPT !.fresh = TRUE]
      [] OTHER -> [content |-> a.content, sha |-> StoredSha(cached, a), fresh |-> TRUE]

PageReturns(c) ==
    LET r == call[c].key.repo
        s == call[c].key.slug
        a == call[c].answer
    IN  /\ call[c].step = "returning"
        /\ ~IsProbe(call[c].key)
        /\ Ends(c, FALSE)
        /\ page' = [page EXCEPT ![r][s] = RowAfter(call[c].cached, @, a)]
        /\ storer' = [storer EXCEPT ![r][s] = call[c].key]
        /\ wiki' = IF a = Gone THEN [wiki EXCEPT ![r] = [has |-> FALSE, fresh |-> TRUE]]
                   ELSE wiki
        /\ UNCHANGED <<upstream, latest, cooldown>>

-----------------------------------------------------------------------------
Returns(c) == ProbeReturns(c) \/ PageReturns(c)

Next ==
    \/ Tick
    \/ \E r \in Repos : Publishes(r) \/ Withdraws(r) \/ WikiExpires(r)
    \/ \E r \in Repos, s \in Slugs : PageExpires(r, s)
    \/ \E c \in Calls, k \in Keys : Request(c, k)
    \/ \E c \in Calls : Wake(c) \/ Extract(c) \/ Hangs(c) \/ LoadFails(c) \/ Returns(c)

Spec == Init /\ [][Next]_vars

\* Timers fire, a settled promise resumes its function, and a load succeeds, fails
\* or is one that never settles.
Fairness ==
    /\ WF_vars(Tick)
    /\ \A c \in Calls :
          /\ WF_vars(Wake(c)) /\ WF_vars(Returns(c))
          /\ WF_vars(Extract(c) \/ LoadFails(c) \/ Hangs(c))

FairSpec == Spec /\ Fairness

-----------------------------------------------------------------------------
(* Properties                                                              *)

\* Single-flight: the map names exactly the executions that have not settled, so
\* no key has two of them and no key is taken for good by one that is over.
SingleFlight ==
    /\ \A k \in Keys : inflight[k] # None =>
          call[inflight[k]].step # "idle" /\ call[inflight[k]].key = k
    /\ \A c \in Calls : call[c].step # "idle" =>
          call[c].key \in Keys /\ inflight[call[c].key] = c

\* Every key is free again at some time, however its executions end and whatever
\* loads of other keys hang; only a hung load of its own keeps it.
KeyFreed ==
    \A k \in Keys : (inflight[k] # None) ~>
        (inflight[k] = None \/ call[inflight[k]].step = "hung")

\* The body and the SHA of a pages row, which citations are made of, are of one
\* version, whichever calls wrote the row from whichever snapshot of it.  Only a
\* body that links to no commit may keep an older SHA or none; an empty shell has
\* no version.
ShaOfItsBody(row) ==
    \/ row.content = 0
    \/ row.sha = row.content
    \/ row.content \in Bare /\ row.sha < row.content

RowIsOneVersion ==
    \A r \in Repos, s \in Slugs : page[r][s] # None => ShaOfItsBody(page[r][s])

\* A load overwrites the row of a newer version only when a key of another
\* subsection wrote that row while the load was under way; an empty shell
\* overwrites any row.
OnlyOvertakenRegresses ==
    [][\A r \in Repos, s \in Slugs :
          (/\ page[r][s] # None /\ page'[r][s] # None
           /\ 0 < page'[r][s].content /\ page'[r][s].content < page[r][s].content) =>
              /\ storer[r][s] # storer'[r][s]
              /\ inflight[storer'[r][s]] # None
              /\ call[inflight[storer'[r][s]]].cached # page[r][s]]_vars
=============================================================================
