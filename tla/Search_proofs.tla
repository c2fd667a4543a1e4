---------------------------- MODULE Search_proofs ----------------------------
(***************************************************************************)
(* Theorems about Search, for every set of calls and repositories, every   *)
(* window of the circuit breaker and every number of outages.              *)
(***************************************************************************)
EXTENDS Search, TLAPS

\* The breaker runs down no faster than the clock that counts from the last failure,
\* and a load that rejected is not kept.
BreakerHolds == breaker + sinceFailure >= Window /\ scorer # "rejected"

\* The inductive invariant: the breaker keeps the time, and who awaits a load can
\* only be told by what the load is.
IInv == TypeOK /\ NobodyStranded /\ BreakerHolds

CallRecords == [tool : Tools, step : Steps, repos : SUBSET Repos, cited : BOOLEAN]

LEMMA IdleIsCall == Idle \in CallRecords /\ Idle.step = "idle"
    BY DEF Idle, CallRecords, Tools, Steps

LEMMA InitIInv == Init => IInv
    BY IdleIsCall, WindowAssumption, OutagesAssumption
    DEF Init, Indexes, IInv, TypeOK, NobodyStranded, BreakerHolds, CallRecords, Promises, Answers

\* The promises as a step leaves them, and a call as it leaves it.
Awaits(x) ==
    /\ x.step = "racing" => x.repos # {} /\ \A r \in x.repos : build[r] # "none"
    /\ x.step = "encoding" => encoder # "none"
    /\ x.step = "loading" => scorer = "loading"
    /\ x.step = "scoring" => scorer = "loaded"

LEMMA StrandedIff == NobodyStranded <=> \A c \in Calls : Awaits(call[c])
    BY DEF NobodyStranded, Awaits

\* A step after which every call is idle, at an await that goes on, or at a new one.
LEMMA CallsKept ==
    ASSUME IInv, call' \in [Calls -> CallRecords], answer' \in [Calls -> Answers],
           build' \in [Repos -> {"none", "fetching", "embedding"}],
           index' \in [Repos -> Indexes],
           encoder' \in Promises, scorer' \in Promises,
           \A c \in Calls : Awaits(call[c]) => Awaits(call[c])' \/ call'[c] = Idle,
           UNCHANGED <<network, outages, sinceFailure>>,
           breaker' \in {breaker, Window}, scorer' # "rejected"
    PROVE  IInv'
<1>1. TypeOK'
    BY WindowAssumption DEF IInv, TypeOK, CallRecords
<1>2. \A c \in Calls : Awaits(call[c])'
    <2> SUFFICES ASSUME NEW c \in Calls PROVE Awaits(call[c])'
        OBVIOUS
    <2>1. Awaits(call[c])
        BY StrandedIff DEF IInv
    <2>2. call'[c] = Idle => Awaits(call[c])'
        BY IdleIsCall DEF Awaits
    <2> QED
        BY <2>1, <2>2
<1>3. NobodyStranded'
    BY <1>2 DEF NobodyStranded, Awaits
<1>4. BreakerHolds'
    <2>1. /\ Window \in Nat /\ breaker \in Nat /\ sinceFailure \in Nat
          /\ breaker' = breaker \/ breaker' = Window
          /\ sinceFailure' = sinceFailure /\ breaker + sinceFailure >= Window
        BY WindowAssumption DEF IInv, BreakerHolds, TypeOK
    <2>2. CASE breaker' = breaker
        BY <2>1, <2>2 DEF BreakerHolds
    <2>3. CASE breaker' = Window
        BY <2>1, <2>3 DEF BreakerHolds
    <2> QED
        BY <2>1, <2>2, <2>3
<1> QED
    BY <1>1, <1>3, <1>4 DEF IInv

-----------------------------------------------------------------------------
(* The environment, and the time                                           *)

LEMMA EnvironmentKeeps ==
    ASSUME IInv, NetworkFails \/ NetworkRecovers
    PROVE  IInv'
<1> USE DEF tableVars, modelVars, callVars
<1>1. TypeOK'
    BY OutagesAssumption DEF NetworkFails, NetworkRecovers, IInv, TypeOK
<1> QED
    BY <1>1 DEF NetworkFails, NetworkRecovers, IInv, NobodyStranded, BreakerHolds

LEMMA TickKeeps == ASSUME IInv, Tick PROVE IInv'
<1>1. /\ Window \in Nat /\ breaker \in 0..Window /\ sinceFailure \in 0..Window
      /\ breaker + sinceFailure >= Window
      /\ breaker' = IF breaker > 0 THEN breaker - 1 ELSE 0
      /\ sinceFailure' = IF sinceFailure < Window THEN sinceFailure + 1 ELSE Window
    BY WindowAssumption DEF Tick, IInv, TypeOK, BreakerHolds
<1>2. /\ breaker' \in 0..Window /\ sinceFailure' \in 0..Window
      /\ breaker' + sinceFailure' >= Window
    BY <1>1
<1> QED
    BY <1>2 DEF Tick, IInv, TypeOK, NobodyStranded, BreakerHolds, tableVars, callVars

\* A step of a call alone.
LEMMA CallStep ==
    ASSUME IInv, NEW S \in SUBSET Calls, NEW a \in Answers, NEW b \in Answers,
           \/ Answered(S, a)
           \/ Ranked(S, a) /\ b = "retry",
           UNCHANGED <<network, outages, tableVars, encoder, scorer, sinceFailure>>,
           breaker' \in {breaker, Window}
    PROVE  IInv'
<1> USE DEF tableVars
<1>1. /\ call' \in [Calls -> CallRecords] /\ answer' \in [Calls -> Answers]
      /\ \A c \in Calls : call'[c] = call[c] \/ call'[c] = Idle
    BY IdleIsCall DEF Answered, Ranked, IInv, TypeOK, CallRecords
<1>2. ASSUME NEW c \in Calls, Awaits(call[c]) PROVE Awaits(call[c])' \/ call'[c] = Idle
    BY <1>1, <1>2 DEF Awaits
<1> QED
    BY <1>1, <1>2, CallsKept DEF IInv, TypeOK, BreakerHolds

-----------------------------------------------------------------------------
(* Requests and builds                                                     *)

LEMMA UsedIsPromise == ASSUME IInv PROVE EncoderUsed \in Promises \ {"none"}
    BY DEF EncoderUsed, IInv, TypeOK, Promises

\* The calls that are served are answered, or encode with an encoder that is there.
LEMMA ServedCalls ==
    ASSUME IInv, NEW S \in SUBSET Calls, NEW asked,
           \A c \in S : asked[c] \in CallRecords, Served(S, asked)
    PROVE  /\ call' \in [Calls -> CallRecords] /\ answer' \in [Calls -> Answers]
           /\ encoder' \in Promises /\ (encoder # "none" => encoder' = encoder)
           /\ \A c \in Calls \ S : call'[c] = call[c]
           /\ \A c \in S : call'[c] = Idle \/ (call'[c].step = "encoding" /\ encoder' # "none")
<1>1. \A c \in S : [asked[c] EXCEPT !.step = "encoding"] \in CallRecords
    BY DEF CallRecords, Steps
<1>2. /\ call \in [Calls -> CallRecords] /\ answer \in [Calls -> Answers]
      /\ encoder \in Promises
    BY DEF IInv, TypeOK, CallRecords
<1>3. call' \in [Calls -> CallRecords]
    BY <1>1, <1>2, IdleIsCall DEF Served
<1>4. answer' \in [Calls -> Answers]
    BY <1>2 DEF Served, Answers
<1>5. encoder' \in Promises /\ (encoder # "none" => encoder' = encoder)
    BY <1>2, UsedIsPromise DEF Served, EncoderUsed
<1>6. ASSUME NEW c \in S
      PROVE  call'[c] = Idle \/ (call'[c].step = "encoding" /\ encoder' # "none")
    <2>1. CASE NeedsModel(asked[c].tool)
        <3>1. call'[c] = [asked[c] EXCEPT !.step = "encoding"]
            BY <2>1 DEF Served
        <3>2. call'[c].step = "encoding"
            BY <3>1, <1>1 DEF CallRecords
        <3>3. encoder' # "none"
            BY <2>1, UsedIsPromise DEF Served
        <3> QED
            BY <3>2, <3>3
    <2>2. CASE ~NeedsModel(asked[c].tool)
        BY <2>2 DEF Served
    <2> QED
        BY <2>1, <2>2
<1> QED
    BY <1>3, <1>4, <1>5, <1>6 DEF Served

LEMMA AskKeeps ==
    ASSUME IInv, NEW c \in Calls, NEW tool \in Tools, NEW r \in Repos, Ask(c, tool, r)
    PROVE  IInv'
<1> DEFINE asked == [Idle EXCEPT !.tool = tool, !.step = "racing", !.repos = {r}]
<1>1. asked \in CallRecords /\ asked.step = "racing" /\ asked.repos = {r}
    BY DEF Idle, CallRecords, Steps
<1> HIDE DEF asked
<1>2. /\ UNCHANGED <<network, outages, index, scorer, breaker, sinceFailure>>
      /\ index' \in [Repos -> Indexes]
      /\ scorer' \in Promises /\ scorer' # "rejected"
      /\ call \in [Calls -> CallRecords] /\ answer \in [Calls -> Answers]
      /\ build \in [Repos -> {"none", "fetching", "embedding"}] /\ encoder \in Promises
    BY DEF Ask, IInv, TypeOK, BreakerHolds, CallRecords
<1>3. CASE Ready(tool, r)
    <2> DEFINE S == {c}
               f == [d \in S |-> asked]
    <2>1. Served(S, f) /\ UNCHANGED build
        BY <1>3 DEF Ask, asked
    <2>2. S \in SUBSET Calls /\ c \in S /\ \A d \in S : f[d] \in CallRecords
        BY <1>1
    <2>c. Calls \ S = Calls \ {c}
        OBVIOUS
    <2> HIDE DEF S, f
    <2>3. /\ call' \in [Calls -> CallRecords] /\ answer' \in [Calls -> Answers]
          /\ encoder' \in Promises /\ (encoder # "none" => encoder' = encoder)
          /\ \A d \in Calls \ {c} : call'[d] = call[d]
          /\ call'[c] = Idle \/ (call'[c].step = "encoding" /\ encoder' # "none")
        BY <2>1, <2>2, <2>c, ServedCalls
    <2>4. ASSUME NEW d \in Calls, Awaits(call[d]) PROVE Awaits(call[d])' \/ call'[d] = Idle
        BY <2>1, <2>3, <2>4, <1>2 DEF Awaits
    <2> QED
        BY <2>1, <2>3, <2>4, <1>2, CallsKept
<1>4. CASE ~Ready(tool, r)
    <2>1. /\ call' = [call EXCEPT ![c] = asked]
          /\ answer' = [answer EXCEPT ![c] = "none"]
          /\ build' = [build EXCEPT ![r] = IF @ = "none" THEN "fetching" ELSE @]
          /\ UNCHANGED encoder
        BY <1>4 DEF Ask, asked
    <2>2. /\ call' \in [Calls -> CallRecords] /\ answer' \in [Calls -> Answers]
          /\ build' \in [Repos -> {"none", "fetching", "embedding"}] /\ encoder' \in Promises
        BY <2>1, <1>1, <1>2 DEF Answers
    <2>3. \A q \in Repos : (build[q] # "none" => build'[q] # "none")
        BY <2>1, <1>2
    <2>4. build'[r] # "none" /\ call'[c] = asked
        BY <2>1, <1>2
    <2>5. ASSUME NEW d \in Calls, Awaits(call[d]) PROVE Awaits(call[d])'
        <3>1. CASE d = c
            BY <3>1, <2>4, <1>1 DEF Awaits
        <3>2. CASE d # c
            <4>1. call'[d] = call[d] /\ call[d].repos \subseteq Repos
                BY <3>2, <2>1, <1>2 DEF CallRecords
            <4> QED
                BY <4>1, <2>1, <2>3, <2>5, <1>2 DEF Awaits
        <3> QED
            BY <3>1, <3>2
    <2> QED
        BY <2>2, <2>5, <1>2, CallsKept
<1> QED
    BY <1>3, <1>4

LEMMA AskAllKeeps == ASSUME IInv, NEW c \in Calls, AskAll(c) PROVE IInv'
<1>0. PICK lapsed \in SUBSET {r \in Repos : index[r] = "ungraphed"} :
        LET fresh == {r \in Repos : Indexed(r) \/ index[r] = "ungraphed"} \ lapsed
        IN  /\ IF fresh = {}
               THEN Answered({c}, "empty") /\ UNCHANGED encoder
               ELSE /\ call' = [call EXCEPT ![c] = [Idle EXCEPT !.step = "encoding", !.repos = fresh]]
                    /\ answer' = [answer EXCEPT ![c] = "none"]
                    /\ encoder' = EncoderUsed
            /\ UNCHANGED <<network, outages, tableVars, scorer, breaker, sinceFailure>>
    BY DEF AskAll
<1> DEFINE fresh == {r \in Repos : Indexed(r) \/ index[r] = "ungraphed"} \ lapsed
<1>1. CASE fresh = {}
    BY <1>0, <1>1, CallStep DEF Answers, tableVars
<1>2. CASE fresh # {}
    <2> DEFINE asked == [Idle EXCEPT !.step = "encoding", !.repos = fresh]
    <2>1. asked \in CallRecords /\ asked.step = "encoding"
        BY DEF Idle, CallRecords, Steps, Tools
    <2>2. /\ call' = [call EXCEPT ![c] = asked] /\ answer' = [answer EXCEPT ![c] = "none"]
          /\ encoder' = EncoderUsed
          /\ UNCHANGED <<network, outages, index, build, scorer, breaker, sinceFailure>>
        BY <1>0, <1>2 DEF tableVars
    <2> HIDE DEF asked
    <2>3. /\ index' \in [Repos -> Indexes]
          /\ build' \in [Repos -> {"none", "fetching", "embedding"}]
          /\ scorer' \in Promises /\ scorer' # "rejected"
          /\ call \in [Calls -> CallRecords] /\ answer \in [Calls -> Answers]
        BY <2>2 DEF IInv, TypeOK, BreakerHolds, CallRecords
    <2>4. /\ call' \in [Calls -> CallRecords] /\ answer' \in [Calls -> Answers]
          /\ encoder' \in Promises /\ encoder' # "none"
        BY <2>1, <2>2, <2>3, UsedIsPromise DEF Answers
    <2>5. ASSUME NEW d \in Calls, Awaits(call[d]) PROVE Awaits(call[d])'
        <3>1. call'[d] = call[d] \/ call'[d].step = "encoding"
            BY <2>1, <2>2, <2>3
        <3> QED
            BY <3>1, <2>2, <2>4, <2>5 DEF Awaits
    <2> QED
        BY <2>2, <2>3, <2>4, <2>5, CallsKept
<1> QED
    BY <1>1, <1>2

\* A call that does not race the build of r hears nothing of its end.
LEMMA OthersAwait ==
    ASSUME IInv, NEW r \in Repos, NEW d \in Calls \ Racing(r), Awaits(call[d]), call'[d] = call[d],
           build' = [build EXCEPT ![r] = "none"], encoder # "none" => encoder' = encoder,
           UNCHANGED scorer
    PROVE  Awaits(call[d])'
<1>1. call[d] \in CallRecords /\ build \in [Repos -> {"none", "fetching", "embedding"}]
    BY DEF IInv, TypeOK, CallRecords
<1>2. call[d].repos \subseteq Repos /\ (call[d].step = "racing" => r \notin call[d].repos)
    BY <1>1 DEF Racing, At, CallRecords
<1>3. \A q \in call[d].repos : call[d].step = "racing" => build'[q] = build[q]
    BY <1>1, <1>2
<1> QED
    BY <1>3 DEF Awaits

LEMMA BuildEndsKeeps ==
    ASSUME IInv, NEW r \in Repos, NEW a \in Failures \cup {"embedder_error"}, BuildEnds(r, a)
    PROVE  IInv'
<1>1. /\ UNCHANGED <<network, outages, index, encoder, scorer, breaker, sinceFailure>>
      /\ build' = [build EXCEPT ![r] = "none"]
    BY DEF BuildEnds, modelVars
<1>2. /\ index' \in [Repos -> Indexes]
      /\ build' \in [Repos -> {"none", "fetching", "embedding"}]
      /\ scorer' \in Promises /\ scorer' # "rejected" /\ encoder' \in Promises
      /\ call \in [Calls -> CallRecords] /\ answer \in [Calls -> Answers]
    BY <1>1 DEF IInv, TypeOK, BreakerHolds, CallRecords
<1>3. \A tool \in Tools : AnswerFor(tool, a) \in Answers
    BY DEF AnswerFor, Answers, Failures
<1>4. \A d \in Calls : call[d].tool \in Tools
    BY <1>2 DEF CallRecords
<1>5. call' \in [Calls -> CallRecords]
    BY <1>2, IdleIsCall DEF BuildEnds
<1>6. answer' \in [Calls -> Answers]
    BY <1>2, <1>3, <1>4 DEF BuildEnds
<1>7. ASSUME NEW d \in Calls, Awaits(call[d]) PROVE Awaits(call[d])' \/ call'[d] = Idle
    <2>1. CASE d \in Racing(r)
        BY <2>1 DEF BuildEnds
    <2>2. CASE d \notin Racing(r)
        <3>1. call'[d] = call[d]
            BY <2>2 DEF BuildEnds
        <3> QED
            BY <3>1, <2>2, <1>1, <1>7, OthersAwait
    <2> QED
        BY <2>1, <2>2
<1> QED
    BY <1>1, <1>2, <1>5, <1>6, <1>7, CallsKept

LEMMA BuildStoredKeeps == ASSUME IInv, NEW r \in Repos, BuildStored(r) PROVE IInv'
<1>1. /\ UNCHANGED <<network, outages, scorer, breaker, sinceFailure>>
      /\ build' = [build EXCEPT ![r] = "none"] /\ index' = [index EXCEPT ![r] = "fresh"]
      /\ Served(Racing(r), call)
    BY DEF BuildStored
<1>2. /\ index' \in [Repos -> Indexes]
      /\ build' \in [Repos -> {"none", "fetching", "embedding"}]
      /\ scorer' \in Promises /\ scorer' # "rejected"
      /\ call \in [Calls -> CallRecords] /\ Racing(r) \in SUBSET Calls
    BY <1>1 DEF Indexes, IInv, TypeOK, BreakerHolds, CallRecords, Racing, At
<1>3. /\ call' \in [Calls -> CallRecords] /\ answer' \in [Calls -> Answers]
      /\ encoder' \in Promises /\ (encoder # "none" => encoder' = encoder)
      /\ \A d \in Calls \ Racing(r) : call'[d] = call[d]
      /\ \A d \in Racing(r) : call'[d] = Idle \/ (call'[d].step = "encoding" /\ encoder' # "none")
    BY <1>1, <1>2, ServedCalls
<1>4. ASSUME NEW d \in Calls, Awaits(call[d]) PROVE Awaits(call[d])' \/ call'[d] = Idle
    <2>1. CASE d \in Racing(r)
        BY <2>1, <1>3 DEF Awaits
    <2>2. CASE d \notin Racing(r)
        BY <2>2, <1>1, <1>3, <1>4, OthersAwait
    <2> QED
        BY <2>1, <2>2
<1> QED
    BY <1>1, <1>2, <1>3, <1>4, CallsKept

LEMMA BuildKeeps == ASSUME IInv, NEW r \in Repos, BuildStep(r) PROVE IInv'
<1> DEFINE Embeds ==
        /\ build' = [build EXCEPT ![r] = "embedding"]
        /\ encoder' = EncoderUsed
        /\ UNCHANGED <<network, outages, index, scorer, breaker, sinceFailure, callVars>>
<1>1. ASSUME Embeds PROVE IInv'
    <2>1. /\ index' \in [Repos -> Indexes]
          /\ build' \in [Repos -> {"none", "fetching", "embedding"}]
          /\ scorer' \in Promises /\ scorer' # "rejected"
          /\ encoder' \in Promises /\ encoder' # "none"
          /\ call' \in [Calls -> CallRecords] /\ answer' \in [Calls -> Answers]
          /\ build \in [Repos -> {"none", "fetching", "embedding"}]
          /\ UNCHANGED <<network, outages, index, scorer, breaker, sinceFailure, call, answer>>
        BY <1>1, UsedIsPromise DEF IInv, TypeOK, BreakerHolds, CallRecords, callVars
    <2>2. \A q \in Repos : build[q] # "none" => build'[q] # "none"
        BY <1>1, <2>1
    <2>3. ASSUME NEW d \in Calls, Awaits(call[d]) PROVE Awaits(call[d])'
        <3>1. call'[d] = call[d] /\ call[d].repos \subseteq Repos
            BY <2>1 DEF CallRecords
        <3> QED
            BY <3>1, <2>1, <2>2, <2>3 DEF Awaits
    <2> QED
        BY <2>1, <2>3, CallsKept
<1>2. BuildStored(r) \/ Embeds \/ \E a \in Failures \cup {"embedder_error"} : BuildEnds(r, a)
    BY DEF BuildStep, BuildFetches, BuildEmbeds
<1> QED
    BY <1>1, <1>2, BuildStoredKeeps, BuildEndsKeeps

LEMMA IndexAgesKeeps == ASSUME IInv, NEW r \in Repos, IndexAges(r) PROVE IInv'
    BY DEF IndexAges, Indexes, IInv, TypeOK, NobodyStranded, BreakerHolds, modelVars, callVars

LEMMA EncoderSettlesKeeps == ASSUME IInv, EncoderSettles PROVE IInv'
    BY DEF EncoderSettles, IInv, TypeOK, NobodyStranded, BreakerHolds, tableVars, callVars, Promises

-----------------------------------------------------------------------------
(* The calls and the reranker                                              *)

LEMMA ResumeKeeps == ASSUME IInv, NEW c \in Calls, Resume(c) PROVE IInv'
<1> USE DEF tableVars, modelVars
<1>1. CASE RaceTimesOut(c)
    BY <1>1, CallStep DEF RaceTimesOut, Answers
<1>2. CASE EncodeFails(c)
    BY <1>2, CallStep DEF EncodeFails, Answers, Failures
<1>3. CASE NeighborsRanked(c)
    BY <1>3, CallStep DEF NeighborsRanked, Answers
<1>4. CASE Scored(c)
    <2>1. PICK a \in {"ranked", "degraded"} : Ranked({c}, a)
        BY <1>4 DEF Scored
    <2>2. a \in Answers /\ "retry" \in Answers
        BY DEF Answers, Failures
    <2> QED
        BY <1>4, <2>1, <2>2, CallStep DEF Scored
<1>5. CASE Encoded(c)
    <2> DEFINE found == {r \in call[c].repos : index[r] # "none"}
               cited == \A r \in found : index[r] # "unstamped"
               step == IF scorer = "loaded" THEN "scoring" ELSE "loading"
    <2>1. UNCHANGED <<network, outages, index, build, encoder, sinceFailure>>
        BY <1>5 DEF Encoded
    <2>2. CASE found = {}
        BY <1>5, <2>1, <2>2, CallStep DEF Encoded, Answers
    <2>3. CASE found # {} /\ (breaker > 0 \/ scorer = "rejected")
        <3>1. /\ Answered({c}, IF cited THEN "degraded_retry" ELSE "retry")
              /\ breaker' \in {breaker, Window} /\ UNCHANGED scorer
            BY <1>5, <2>3 DEF Encoded, Tripped
        <3>2. (IF cited THEN "degraded_retry" ELSE "retry") \in Answers
            BY DEF Answers, Failures
        <3> QED
            BY <3>1, <3>2, <2>1, CallStep
    <2>4. CASE found # {} /\ ~(breaker > 0 \/ scorer = "rejected")
        <3> HIDE DEF found, cited
        <3>1. /\ call' = [call EXCEPT ![c].step = step, ![c].cited = cited]
              /\ scorer' = IF scorer = "none" THEN "loading" ELSE scorer
              /\ UNCHANGED <<breaker, answer>>
            BY <1>5, <2>4 DEF Encoded, found, cited
        <3>2. cited \in BOOLEAN /\ step \in Steps
            BY DEF cited, Steps
        <3> HIDE DEF step
        <3>3. /\ call \in [Calls -> CallRecords] /\ answer' \in [Calls -> Answers]
              /\ index' \in [Repos -> Indexes]
              /\ build' \in [Repos -> {"none", "fetching", "embedding"}]
              /\ encoder' \in Promises /\ scorer \in Promises /\ scorer # "rejected"
            BY <2>1, <3>1 DEF IInv, TypeOK, BreakerHolds, CallRecords
        <3>4. call' \in [Calls -> CallRecords] /\ call'[c].step = step
            BY <3>1, <3>2, <3>3 DEF CallRecords
        <3>5. /\ scorer' \in Promises /\ scorer' # "rejected"
              /\ (scorer \in {"loading", "loaded"} => scorer' = scorer)
              /\ (scorer = "loaded" => step = "scoring" /\ scorer' = "loaded")
              /\ (scorer # "loaded" => step = "loading" /\ scorer' = "loading")
            BY <3>1, <3>3 DEF Promises, step
        <3>6. ASSUME NEW d \in Calls, Awaits(call[d]) PROVE Awaits(call[d])'
            <4>1. CASE d = c
                BY <4>1, <3>4, <3>5 DEF Awaits
            <4>2. CASE d # c
                <5>1. call'[d] = call[d]
                    BY <4>2, <3>1, <3>3
                <5> QED
                    BY <5>1, <3>5, <3>6, <2>1 DEF Awaits
            <4> QED
                BY <4>1, <4>2
        <3> QED
            BY <2>1, <3>1, <3>3, <3>4, <3>5, <3>6, CallsKept
    <2> QED
        BY <2>2, <2>3, <2>4
<1> QED
    BY <1>1, <1>2, <1>3, <1>4, <1>5 DEF Resume

LEMMA ScorerLoadsKeeps == ASSUME IInv, ScorerLoads PROVE IInv'
<1>1. /\ scorer = "loading" /\ scorer' = "loaded" /\ Moved(At("loading"), "scoring")
      /\ UNCHANGED <<network, outages, index, build, encoder, breaker, sinceFailure, answer>>
    BY DEF ScorerLoads, tableVars
<1>2. /\ call \in [Calls -> CallRecords] /\ answer' \in [Calls -> Answers]
      /\ index' \in [Repos -> Indexes]
      /\ build' \in [Repos -> {"none", "fetching", "embedding"}]
      /\ encoder' \in Promises /\ scorer' \in Promises
    BY <1>1 DEF IInv, TypeOK, CallRecords, Promises
<1>3. \A c \in Calls : LET moved == [call[c] EXCEPT !.step = "scoring"]
                       IN  moved \in CallRecords /\ moved.step = "scoring"
    BY <1>2 DEF CallRecords, Steps
<1>4. \A c \in Calls : \/ call[c].step = "loading" /\ call'[c].step = "scoring"
                       \/ call[c].step # "loading" /\ call'[c] = call[c]
    BY <1>1, <1>3 DEF Moved, At
<1>5. call' \in [Calls -> CallRecords]
    BY <1>1, <1>2, <1>3 DEF Moved
<1>6. ASSUME NEW c \in Calls, Awaits(call[c]) PROVE Awaits(call[c])'
    BY <1>1, <1>4, <1>6 DEF Awaits
<1> QED
    BY <1>1, <1>2, <1>5, <1>6, CallsKept

\* Whoever awaited the load that failed has returned, so nobody awaits one; the
\* breaker is wound up in the step that sets the clock back.
LEMMA ScorerFailsKeeps == ASSUME IInv, ScorerFails PROVE IInv'
<1>1. /\ scorer = "loading" /\ scorer' = "none" /\ breaker' = Window /\ sinceFailure' = 0
      /\ Ranked(At("loading"), "degraded_retry")
      /\ UNCHANGED <<network, outages, index, build, encoder>>
    BY DEF ScorerFails, AfterRejection, Tripped, tableVars
<1>2. call \in [Calls -> CallRecords] /\ answer \in [Calls -> Answers]
    BY DEF IInv, TypeOK, CallRecords
<1>3. call' \in [Calls -> CallRecords] /\ answer' \in [Calls -> Answers]
    BY <1>1, <1>2, IdleIsCall DEF Ranked, Answers, Failures
<1>4. ASSUME NEW c \in Calls PROVE Awaits(call[c])'
    <2>1. Awaits(call[c])
        BY StrandedIff DEF IInv
    <2>2. CASE call[c].step = "loading"
        <3>1. call'[c] = Idle
            BY <1>1, <2>2 DEF Ranked, At
        <3> QED
            BY <3>1, IdleIsCall DEF Awaits
    <2>3. CASE call[c].step # "loading"
        <3>1. call'[c] = call[c]
            BY <1>1, <2>3 DEF Ranked, At
        <3> QED
            BY <3>1, <1>1, <2>1, <2>3 DEF Awaits
    <2> QED
        BY <2>2, <2>3
<1>5. TypeOK'
    BY <1>1, <1>3, WindowAssumption DEF IInv, TypeOK, CallRecords, Promises
<1>6. NobodyStranded'
    BY <1>4 DEF NobodyStranded, Awaits
<1>7. BreakerHolds'
    BY <1>1, WindowAssumption DEF BreakerHolds
<1> QED
    BY <1>5, <1>6, <1>7 DEF IInv

LEMMA NextIInv == ASSUME IInv, [Next]_vars PROVE IInv'
<1>1. CASE NetworkFails \/ NetworkRecovers
    BY <1>1, EnvironmentKeeps
<1>2. CASE Tick
    BY <1>2, TickKeeps
<1>3. CASE EncoderSettles
    BY <1>3, EncoderSettlesKeeps
<1>4. CASE ScorerLoads
    BY <1>4, ScorerLoadsKeeps
<1>5. CASE ScorerFails
    BY <1>5, ScorerFailsKeeps
<1>6. CASE \E r \in Repos : IndexAges(r) \/ BuildStep(r)
    BY <1>6, IndexAgesKeeps, BuildKeeps
<1>7. CASE \E c \in Calls : Request(c) \/ Resume(c)
    BY <1>7, AskKeeps, AskAllKeeps, ResumeKeeps DEF Request
<1>8. CASE UNCHANGED vars
    BY <1>8 DEF vars, tableVars, modelVars, callVars, IInv, TypeOK, NobodyStranded, BreakerHolds
<1> QED
    BY <1>1, <1>2, <1>3, <1>4, <1>5, <1>6, <1>7, <1>8 DEF Next

THEOREM SearchIInv == Spec => []IInv
    BY InitIInv, NextIInv, PTL DEF Spec

-----------------------------------------------------------------------------
(* The properties                                                          *)

\* Every variable keeps its type: a call, a build and the two model loads are only
\* ever at an await the code has, and a tool returns one of its statuses.
THEOREM SearchTypeOK == Spec => []TypeOK
    BY SearchIInv, PTL DEF IInv

\* The promises behind Retriever.findChunks(), get_page(prepareOnly) and
\* find_neighbors: no call is left at the race with a build that has ended or at a
\* model load that was forgotten, for any number of calls, repositories and failures.
THEOREM SearchNobodyStranded == Spec => []NobodyStranded
    BY SearchIInv, PTL DEF IInv

\* Only a call with candidates starts a download, and only with the breaker run down.
LEMMA DownloadStarts ==
    ASSUME IInv, [Next]_vars, scorer' = "loading", scorer # "loading"
    PROVE  breaker = 0
<1> USE DEF tableVars, modelVars, callVars
<1>1. PICK c \in Calls : Encoded(c)
    BY DEF vars, Next, NetworkFails, NetworkRecovers, Tick, EncoderSettles, ScorerLoads, ScorerFails,
           AfterRejection, IndexAges, BuildStep, BuildFetches, BuildEmbeds, BuildStored, BuildEnds,
           Request, Ask, AskAll, Resume, RaceTimesOut, EncodeFails, NeighborsRanked, Scored
<1>2. breaker \in 0..Window /\ Window \in Nat
    BY WindowAssumption DEF IInv, TypeOK
<1>3. ~(breaker > 0)
    BY <1>1 DEF Encoded
<1> QED
    BY <1>2, <1>3

\* Circuit breaker of Reranker.score(): however many calls rank at once, none starts
\* a download of the model before the window since the last failed one has passed.
THEOREM SearchNoHerd == Spec => NoHerd
<1>1. ASSUME IInv, [Next]_vars
      PROVE  scorer' = "loading" /\ scorer # "loading" => sinceFailure = Window
    <2>1. /\ Window \in Nat /\ sinceFailure \in 0..Window
          /\ breaker + sinceFailure >= Window
        BY <1>1, WindowAssumption DEF IInv, TypeOK, BreakerHolds
    <2> QED
        BY <1>1, <2>1, DownloadStarts
<1> QED
    BY <1>1, SearchIInv, PTL DEF Spec, NoHerd
=============================================================================
