-------------------------------- MODULE Search --------------------------------
(***************************************************************************)
(* The tools of one process that wait for an index: find_chunks, which is  *)
(* Retriever.findChunks(), get_page(prepareOnly) and find_neighbors, over  *)
(* the background build of the index, the lazily loaded Embedder and the   *)
(* lazily loaded Reranker with its download timeout and circuit breaker.   *)
(*                                                                         *)
(* An action is the code between two awaits.  The promises that calls share *)
(* (a build, a model load) settle in one event; the microtasks of the calls *)
(* that await it run before the next event, and are part of the action.    *)
(***************************************************************************)
EXTENDS Naturals

CONSTANTS
    Calls,        \* tool calls in progress at once
    Repos,
    Window,       \* RERANKER_CIRCUIT_BREAKER_MS, in ticks
    MaxOutages,   \* bound: how often the network may go down
    OldRepos      \* bound: the repositories with rows of an old release

ASSUME WindowAssumption == Window \in Nat \ {0}
ASSUME OutagesAssumption == MaxOutages \in Nat

VARIABLES
    network,     \* is the model hub reachable, in time?
    outages,     \* how often it may still go down
    index,       \* index[r]: rows and status of r in the cache ("unstamped": fresh
                 \* rows of an old release, which stored chunks without a SHA;
                 \* "ungraphed": rows of any age whose edge_count is the sentinel)
    build,       \* build[r]: the build in Indexer.inflight
    encoder,     \* Embedder.encoderPromise
    scorer,      \* Reranker.loadPromise
    breaker,     \* what is left of the skip-load window of lastFailureAt
    sinceFailure,\* the environment's clock: ticks since a download last failed
    call,        \* call[c]: its tool, the await at which it is suspended, its
                 \* repositories, and whether all chunks it has read carry a SHA
    answer       \* answer[c]: what the latest call of c returned

tableVars == <<index, build>>
modelVars == <<encoder, scorer, breaker, sinceFailure>>
callVars == <<call, answer>>
vars == <<network, outages, tableVars, modelVars, callVars>>

Promises == {"none", "loading", "loaded", "rejected"}
Steps == {"idle", "racing", "encoding", "loading", "scoring"}
Tools == {"chunks", "prepare", "neighbors", "ranked_neighbors"}
Indexes == {"none", "fresh", "stale", "unstamped", "ungraphed"}
Failures == {"no_docs", "rate_limited", "retry", "threw"}
Answers == Failures \cup {"none", "index_building", "ready", "neighbors",
                         "ranked", "degraded", "degraded_retry", "empty"}

TypeOK ==
    /\ network \in {"up", "down"}
    /\ outages \in 0..MaxOutages
    /\ index \in [Repos -> Indexes]
    /\ build \in [Repos -> {"none", "fetching", "embedding"}]
    /\ encoder \in Promises
    /\ scorer \in Promises
    /\ breaker \in 0..Window
    /\ sinceFailure \in 0..Window
    /\ call \in [Calls -> [tool : Tools, step : Steps, repos : SUBSET Repos, cited : BOOLEAN]]
    /\ answer \in [Calls -> Answers]

Idle == [tool |-> "chunks", step |-> "idle", repos |-> {}, cited |-> TRUE]

Init ==
    /\ network \in {"up", "down"}
    /\ outages = MaxOutages
    /\ index \in [Repos -> {"none", "unstamped", "ungraphed"}]
    /\ \A r \in Repos \ OldRepos : index[r] = "none"
    /\ build = [r \in Repos |-> "none"]
    /\ encoder = "none"
    /\ scorer = "none"
    /\ breaker = 0
    /\ sinceFailure = Window
    /\ call = [c \in Calls |-> Idle]
    /\ answer = [c \in Calls |-> "none"]

At(step) == {c \in Calls : call[c].step = step}

\* The calls of S return with answer a.
Answered(S, a) ==
    /\ call' = [c \in Calls |-> IF c \in S THEN Idle ELSE call[c]]
    /\ answer' = [c \in Calls |-> IF c \in S THEN a ELSE answer[c]]

\* The same with the guard before the citations: a chunk without a SHA is not
\* returned, whatever its rank.
Ranked(S, a) ==
    /\ call' = [c \in Calls |-> IF c \in S THEN Idle ELSE call[c]]
    /\ answer' = [c \in Calls |->
          IF c \notin S THEN answer[c] ELSE IF call[c].cited THEN a ELSE "retry"]

\* The calls of S go on to the next await.
Moved(S, step) == call' = [c \in Calls |-> IF c \in S THEN [call[c] EXCEPT !.step = step] ELSE call[c]]

-----------------------------------------------------------------------------
(* The environment                                                         *)

NetworkFails ==
    /\ network = "up"
    /\ outages > 0
    /\ network' = "down"
    /\ outages' = outages - 1
    /\ UNCHANGED <<tableVars, modelVars, callVars>>

NetworkRecovers ==
    /\ network = "down"
    /\ network' = "up"
    /\ UNCHANGED <<outages, tableVars, modelVars, callVars>>

\* INDEX_TTL_MS passes, or another process drops the index.
IndexAges(r) ==
    /\ \/ index[r] \in {"fresh", "unstamped"} /\ index' = [index EXCEPT ![r] = "stale"]
       \/ index[r] # "none" /\ index' = [index EXCEPT ![r] = "none"]
    /\ UNCHANGED <<network, outages, build, modelVars, callVars>>

Tick ==
    /\ breaker > 0 \/ sinceFailure < Window
    /\ breaker' = IF breaker > 0 THEN breaker - 1 ELSE 0
    /\ sinceFailure' = IF sinceFailure < Window THEN sinceFailure + 1 ELSE Window
    /\ UNCHANGED <<network, outages, tableVars, encoder, scorer, callVars>>

-----------------------------------------------------------------------------
(* The index: resolveTargetRepos() and the build it races                  *)

\* Embedder.resolveEncoder(): the first use starts the load.
EncoderUsed == IF encoder = "none" THEN "loading" ELSE encoder

\* The status row of r is within its TTL.
Indexed(r) == index[r] \in {"fresh", "unstamped"}

\* A fresh index answers indexRepo() at once, unless its graph is not built or a build is
\* in flight; to ensureIndexed() any index with a graph will do, whatever its age.
Ready(tool, r) ==
    IF tool \in {"neighbors", "ranked_neighbors"} THEN index[r] \notin {"none", "ungraphed"}
    ELSE Indexed(r) /\ build[r] = "none"

\* What needs a model goes on to encode the query, the rest is answered.
NeedsModel(tool) == tool \in {"chunks", "ranked_neighbors"}
Served(S, asked) ==
    /\ call' = [c \in Calls |-> IF c \notin S THEN call[c]
                 ELSE IF NeedsModel(asked[c].tool) THEN [asked[c] EXCEPT !.step = "encoding"] ELSE Idle]
    /\ answer' = [c \in Calls |-> IF c \notin S THEN answer[c]
                   ELSE CASE asked[c].tool = "prepare" -> "ready"
                          [] asked[c].tool = "neighbors" -> "neighbors"
                          [] OTHER -> "none"]
    /\ encoder' = IF \E c \in S : NeedsModel(asked[c].tool) THEN EncoderUsed ELSE encoder

\* A tool is called with a repository.
Ask(c, tool, r) ==
    LET asked == [Idle EXCEPT !.tool = tool, !.step = "racing", !.repos = {r}]
    IN  /\ call[c].step = "idle"
        /\ IF Ready(tool, r)
           THEN Served({c}, [d \in {c} |-> asked]) /\ UNCHANGED build
           ELSE /\ call' = [call EXCEPT ![c] = asked]
                /\ answer' = [answer EXCEPT ![c] = "none"]
                /\ build' = [build EXCEPT ![r] = IF @ = "none" THEN "fetching" ELSE @]
                /\ UNCHANGED encoder
        /\ UNCHANGED <<network, outages, index, scorer, breaker, sinceFailure>>

\* find_chunks without one: what is indexed and within its TTL, at this moment, with or
\* without a graph.
AskAll(c) == \E lapsed \in SUBSET {r \in Repos : index[r] = "ungraphed"} :
    LET fresh == {r \in Repos : Indexed(r) \/ index[r] = "ungraphed"} \ lapsed
    IN  /\ call[c].step = "idle"
        /\ IF fresh = {}
           THEN Answered({c}, "empty") /\ UNCHANGED encoder
           ELSE /\ call' = [call EXCEPT ![c] = [Idle EXCEPT !.step = "encoding", !.repos = fresh]]
                /\ answer' = [answer EXCEPT ![c] = "none"]
                /\ encoder' = EncoderUsed
        /\ UNCHANGED <<network, outages, tableVars, scorer, breaker, sinceFailure>>

\* Mutant: get_page(prepareOnly) does not hear of the end of a build.
RacingForChunks(r) == {c \in At("racing") : r \in call[c].repos /\ call[c].tool # "prepare"}

Racing(r) == {c \in At("racing") : r \in call[c].repos}

\* What a tool makes of a build that ends with a: an EmbedderError is "retry" except
\* to find_neighbors, which passes it on, and get_page catches everything.
AnswerFor(tool, a) ==
    CASE a = "embedder_error" -> IF tool \in {"chunks", "prepare"} THEN "retry" ELSE "threw"
      [] a = "threw" /\ tool = "prepare" -> "retry"
      [] OTHER -> a

\* The build of r fails or finds no wiki: every call that races it says so.
BuildEnds(r, a) ==
    /\ build' = [build EXCEPT ![r] = "none"]
    /\ call' = [c \in Calls |-> IF c \in Racing(r) THEN Idle ELSE call[c]]
    /\ answer' = [c \in Calls |-> IF c \in Racing(r) THEN AnswerFor(call[c].tool, a) ELSE answer[c]]
    /\ UNCHANGED <<network, outages, index, modelVars>>

\* The build of r is stored, and the calls that race it are served.
BuildStored(r) ==
    /\ build' = [build EXCEPT ![r] = "none"]
    /\ index' = [index EXCEPT ![r] = "fresh"]
    /\ Served(Racing(r), call)
    /\ UNCHANGED <<network, outages, scorer, breaker, sinceFailure>>

\* The page of r arrives: unchanged, with chunks to embed, or not at all.
BuildFetches(r) ==
    /\ build[r] = "fetching"
    /\ \/ index[r] = "stale" /\ BuildStored(r)
       \/ /\ build' = [build EXCEPT ![r] = "embedding"]
          /\ encoder' = EncoderUsed
          /\ UNCHANGED <<network, outages, index, scorer, breaker, sinceFailure, callVars>>
       \/ \E a \in Failures : BuildEnds(r, a)

BuildEmbeds(r) ==
    /\ build[r] = "embedding"
    /\ \/ encoder = "loaded" /\ BuildStored(r)
       \/ encoder \in {"loaded", "rejected"} /\ BuildEnds(r, "embedder_error")

\* Mutant: a timeout is not mapped to a status of the tool.
RaceUnmapped(c) ==
    /\ call[c].step = "racing"
    /\ Answered({c}, "timeout")
    /\ UNCHANGED <<network, outages, tableVars, modelVars>>

\* Mutant: the timer of the race is never started.
RaceUnbounded(c) == FALSE /\ UNCHANGED vars

\* INDEX_BUILD_TIMEOUT_MS passes; the build goes on without the call.
RaceTimesOut(c) ==
    /\ call[c].step = "racing"
    /\ Answered({c}, "index_building")
    /\ UNCHANGED <<network, outages, tableVars, modelVars>>

-----------------------------------------------------------------------------
(* The embedder.  Its promise is kept when the load rejects.               *)

EncoderSettles ==
    /\ encoder = "loading"
    /\ encoder' = IF network = "up" THEN "loaded" ELSE "rejected"
    /\ UNCHANGED <<network, outages, tableVars, scorer, breaker, sinceFailure, callVars>>

EncodeFails(c) ==
    /\ call[c].step = "encoding"
    /\ encoder \in {"loaded", "rejected"}
    /\ Answered({c}, "retry")
    /\ UNCHANGED <<network, outages, tableVars, modelVars>>

-----------------------------------------------------------------------------
(* The reranker                                                            *)

\* Mutant: only download_failed trips the breaker, a timeout does not.
TripOnFailure(kind) == IF kind = "failed" THEN Window ELSE 0

\* lastFailureAt = Date.now(), set by every call that awaited the failed load.
Tripped(kind) == Window

\* Mutant: the rejected load stays in loadPromise.
KeepRejected == "rejected"

\* loadPromise.catch(() => { this.loadPromise = null })
AfterRejection == "none"

\* applySemanticRank(): the query and the neighbors' sections are encoded.
NeighborsRanked(c) ==
    /\ call[c].step = "encoding" /\ call[c].tool = "ranked_neighbors"
    /\ encoder = "loaded"
    /\ Answered({c}, "neighbors")
    /\ UNCHANGED <<network, outages, tableVars, modelVars>>

\* findChunks() has encoded the query: the tables are read and reranker.score()
\* runs up to its first await.  Without candidates nothing is loaded.
Encoded(c) ==
    LET found == {r \in call[c].repos : index[r] # "none"}
        cited == \A r \in found : index[r] # "unstamped"
    IN  /\ call[c].step = "encoding" /\ call[c].tool = "chunks"
        /\ encoder = "loaded"
        /\ CASE found = {} -> Answered({c}, "empty") /\ UNCHANGED <<scorer, breaker>>
             [] found # {} /\ (breaker > 0 \/ scorer = "rejected") ->
                  /\ Answered({c}, IF cited THEN "degraded_retry" ELSE "retry")
                  /\ breaker' = IF breaker > 0 THEN breaker ELSE Tripped("failed")
                  /\ UNCHANGED scorer
             [] OTHER ->
                  /\ call' = [call EXCEPT ![c].step = IF scorer = "loaded" THEN "scoring" ELSE "loading",
                                          ![c].cited = cited]
                  /\ scorer' = IF scorer = "none" THEN "loading" ELSE scorer
                  /\ UNCHANGED <<breaker, answer>>
        /\ UNCHANGED <<network, outages, tableVars, encoder, sinceFailure>>

ScorerLoads ==
    /\ scorer = "loading"
    /\ network = "up"
    /\ scorer' = "loaded"
    /\ Moved(At("loading"), "scoring")
    /\ UNCHANGED <<network, outages, tableVars, encoder, breaker, sinceFailure, answer>>

\* The load rejects, or RERANK_DOWNLOAD_TIMEOUT_MS wins the race against it (what
\* it goes on to download is dropped).
ScorerFails ==
    /\ scorer = "loading"
    /\ network = "down"
    /\ \E kind \in {"failed", "timeout"} : breaker' = Tripped(kind)
    /\ scorer' = AfterRejection
    /\ sinceFailure' = 0
    /\ Ranked(At("loading"), "degraded_retry")
    /\ UNCHANGED <<network, outages, tableVars, encoder>>

\* The candidates are scored, or keep the order of the fusion.
Scored(c) ==
    /\ call[c].step = "scoring"
    /\ \E a \in {"ranked", "degraded"} : Ranked({c}, a)
    /\ UNCHANGED <<network, outages, tableVars, modelVars>>

-----------------------------------------------------------------------------
BuildStep(r) == BuildFetches(r) \/ BuildEmbeds(r)
Resume(c) == RaceTimesOut(c) \/ EncodeFails(c) \/ NeighborsRanked(c) \/ Encoded(c) \/ Scored(c)
Request(c) == AskAll(c) \/ \E tool \in Tools, r \in Repos : Ask(c, tool, r)

Next ==
    \/ NetworkFails \/ NetworkRecovers \/ Tick
    \/ EncoderSettles \/ ScorerLoads \/ ScorerFails
    \/ \E r \in Repos : IndexAges(r) \/ BuildStep(r)
    \/ \E c \in Calls : Request(c) \/ Resume(c)

Spec == Init /\ [][Next]_vars

\* Timers fire, a model load and an inference end.  Nothing is assumed of builds:
\* a call must return even if the build it races hangs.
Fairness ==
    /\ WF_vars(Tick) /\ WF_vars(EncoderSettles) /\ WF_vars(ScorerLoads \/ ScorerFails)
    /\ \A c \in Calls : WF_vars(Resume(c))

FairSpec == Spec /\ Fairness

-----------------------------------------------------------------------------
(* Properties                                                              *)

\* Circuit breaker of Reranker.score(): after a download failed, by error or by
\* timeout, no call starts another one before the window has passed.
NoHerd == [][scorer' = "loading" /\ scorer # "loading" => sinceFailure = Window]_vars

\* Race contract of findChunks(): every call returns, whatever becomes of the
\* build it asked for, which may hang, and however a load of a model or an inference
\* ends.  That they end is assumed: loading and encoding have no timeout.
CallReturns == \A c \in Calls : (call[c].step # "idle") ~> (call[c].step = "idle")

\* The promises behind it: no call is left at an await that nothing will settle, the
\* race with a build that has ended or a model load that was forgotten, whichever of
\* the calls that shared it failed, timed out or went on.
NobodyStranded == \A c \in Calls :
    /\ call[c].step = "racing" => call[c].repos # {} /\ \A r \in call[c].repos : build[r] # "none"
    /\ call[c].step = "encoding" => encoder # "none"
    /\ call[c].step = "loading" => scorer = "loading"
    /\ call[c].step = "scoring" => scorer = "loaded"

\* A call has candidates to rank.
Ranks(c) == call[c].step \in {"loading", "scoring"} \/ answer[c] \in {"degraded_retry", "ranked"}

\* Once the network stays up, the reranker is loaded if calls keep needing it: no
\* earlier failure keeps answers degraded for good.
RerankerRecovers ==
    (<>[](network = "up") /\ \A c \in Calls : []<>Ranks(c) /\ []<>~Ranks(c)) => <>(scorer = "loaded")
=============================================================================
