------------------------ MODULE CodeWikiClient_proofs ------------------------
(***************************************************************************)
(* Theorems about CodeWikiClient, for every set of calls, repositories,    *)
(* slugs and keys.                                                         *)
(***************************************************************************)
EXTENDS CodeWikiClient, TLAPS

\* A call returns with an answer, never with null.
Answering ==
    \A c \in Calls : call[c].step = "returning" => call[c].answer \in Pages \cup {Gone}

\* The inductive invariant: a call that runs has a key of Keys, which types the
\* row it writes, and its key is its own, which SingleFlight says.
IInv == TypeOK /\ SingleFlight /\ Answering


LEMMA InitIInv == Init => IInv
<1> SUFFICES ASSUME Init PROVE IInv
    OBVIOUS
<1>2. Idle \in CallStates
    BY BoundsAssumption DEF Idle, CallStates, Answers
<1>3. TypeOK
    <2>1. 1 \in 1..LastVersion /\ 0 \in 0..Interval
        BY BoundsAssumption
    <2> QED
        BY <1>2, <2>1 DEF Init, TypeOK
<1>4. SingleFlight /\ Answering
    BY DEF Init, SingleFlight, Answering, Idle
<1> QED
    BY <1>3, <1>4 DEF IInv

\* getPage() writes a row of the right type, or none.
LEMMA RowAfterType ==
    ASSUME NEW cached \in PageRows \cup {None}, NEW row \in PageRows \cup {None},
           NEW a \in Pages \cup {Gone}
    PROVE  RowAfter(cached, row, a) \in PageRows \cup {None}
<1>1. CASE a = Gone
    BY <1>1 DEF RowAfter
<1>2. CASE a # Gone /\ Unchanged(cached, a)
    <2>1. RowAfter(cached, row, a) = IF row = None THEN None ELSE [row EXCEPT !.fresh = TRUE]
        BY <1>2 DEF RowAfter
    <2> QED
        BY <2>1 DEF PageRows
<1>3. CASE a # Gone /\ ~Unchanged(cached, a)
    <2>1. RowAfter(cached, row, a) =
              [content |-> a.content, sha |-> StoredSha(cached, a), fresh |-> TRUE]
        BY <1>3 DEF RowAfter
    <2>2. StoredSha(cached, a) \in Contents /\ a.content \in Contents
        BY <1>3 DEF StoredSha, PageRows, Pages
    <2> QED
        BY <2>1, <2>2 DEF PageRows
<1> QED
    BY <1>1, <1>2, <1>3

\* What a page shows: its version, with its SHA or without one.
LEMMA ShownType ==
    ASSUME NEW v \in Contents \cup {Gone}
    PROVE  /\ Shown(v) \in Pages \cup {Gone}
           /\ Shown(v) = Gone <=> v = Gone
           /\ v # Gone => /\ Shown(v).content = v
                         /\ Shown(v).sha = IF v \in Bare THEN 0 ELSE v
<1>1. 0 \in Contents
    BY BoundsAssumption DEF Contents
<1> QED
    BY <1>1, NoneAssumption DEF Shown, Pages

\* The parts of a key of a call that runs.
LEMMA KeyParts ==
    ASSUME NEW k \in Keys
    PROVE  k.repo \in Repos /\ k.slug \in Slugs \cup {None} /\ k # None
    BY KeysAssumption, NoneAssumption

LEMMA NextIInv == IInv /\ [Next]_vars => IInv'
<1> SUFFICES ASSUME IInv, [Next]_vars PROVE IInv'
    OBVIOUS
<1> USE DEF IInv
<1>1. CASE Tick
    <2>1. \A n \in 0..Interval : Down(n) \in 0..Interval
        BY BoundsAssumption DEF Down
    <2>2. \A c \in Calls : call'[c] = [call[c] EXCEPT !.sleep = Down(@)]
        BY <1>1 DEF Tick
    <2>3. ASSUME NEW c \in Calls PROVE call'[c] \in CallStates
        <3>1. call[c] \in CallStates /\ Down(call[c].sleep) \in 0..Interval
            BY <2>1 DEF TypeOK, CallStates
        <3> QED
            BY <2>2, <3>1 DEF CallStates
    <2>4. TypeOK'
        BY <1>1, <2>1, <2>3 DEF Tick, TypeOK, tables
    <2>5. \A c \in Calls : /\ call'[c].step = call[c].step /\ call'[c].key = call[c].key
                           /\ call'[c].answer = call[c].answer
        BY <2>2 DEF TypeOK, CallStates
    <2>6. SingleFlight' /\ Answering'
        <3>1. \A k \in Keys : inflight[k] # None => inflight[k] \in Calls
            BY DEF TypeOK
        <3> QED
            BY <1>1, <2>5, <3>1 DEF Tick, SingleFlight, Answering
    <2> QED
        BY <2>4, <2>6
<1>2. CASE \E r \in Repos : Publishes(r) \/ Withdraws(r) \/ WikiExpires(r)
    <2>1. UNCHANGED <<inflight, call>>
        BY <1>2 DEF Publishes, Withdraws, WikiExpires
    <2>2. TypeOK'
        <3>1. CASE \E r \in Repos : Publishes(r)
            BY <3>1, BoundsAssumption DEF Publishes, TypeOK, tables
        <3>2. CASE \E r \in Repos : Withdraws(r)
            BY <3>2 DEF Withdraws, TypeOK, tables
        <3>3. CASE \E r \in Repos : WikiExpires(r)
            BY <3>3 DEF WikiExpires, TypeOK, WikiRows
        <3> QED
            BY <1>2, <3>1, <3>2, <3>3
    <2> QED
        BY <2>1, <2>2 DEF SingleFlight, Answering
<1>3. CASE \E r \in Repos, s \in Slugs : PageExpires(r, s)
    <2>1. PICK r \in Repos, s \in Slugs : PageExpires(r, s)
        BY <1>3
    <2>2. [page[r][s] EXCEPT !.fresh = FALSE] \in PageRows
        <3>1. page[r][s] \in PageRows
            BY <2>1 DEF PageExpires, TypeOK
        <3> QED
            BY <3>1 DEF PageRows
    <2>3. page' = [page EXCEPT ![r] = [page[r] EXCEPT ![s] = [page[r][s] EXCEPT !.fresh = FALSE]]]
        BY <2>1 DEF PageExpires
    <2>4. page' \in [Repos -> [Slugs -> PageRows \cup {None}]]
        BY <2>2, <2>3 DEF TypeOK
    <2>5. TypeOK'
        BY <2>1, <2>4 DEF PageExpires, TypeOK
    <2> QED
        BY <2>1, <2>5 DEF PageExpires, SingleFlight, Answering
<1>4. ASSUME NEW c \in Calls, NEW k \in Keys, Request(c, k) PROVE IInv'
    <2> DEFINE new == [Idle EXCEPT !.key = k, !.cached = CachedPage(k), !.sleep = cooldown,
                                   !.step = IF cooldown > 0 THEN "pacing" ELSE "loading"]
    <2>1. CachedPage(k) \in PageRows \cup {None}
        BY KeyParts DEF CachedPage, IsProbe, TypeOK
    <2>2. new \in CallStates /\ new.key = k /\ new.step # "idle" /\ new.step # "returning"
        BY <2>1 DEF TypeOK, CallStates, Idle, Answers
    <2>3. call' = [call EXCEPT ![c] = new] /\ inflight' = [inflight EXCEPT ![k] = c]
        BY <1>4 DEF Request
    <2>4. TypeOK'
        BY <1>4, <2>2, <2>3, BoundsAssumption DEF Request, TypeOK, tables
    <2>5. c # None /\ call[c].step = "idle" /\ inflight[k] = None
        BY <1>4, NoneAssumption DEF Request, Joins
    <2>6. SingleFlight'
        <3>1. call'[c] = new /\ inflight'[k] = c
            BY <2>3 DEF TypeOK
        <3>2. \A d \in Calls \ {c} : call'[d] = call[d]
            BY <2>3 DEF TypeOK
        <3>3. \A j \in Keys \ {k} : inflight'[j] = inflight[j] /\ inflight[j] # c
            BY <2>3, <2>5 DEF TypeOK, SingleFlight
        <3>4. \A j \in Keys \ {k} : inflight[j] # None => inflight[j] \in Calls \ {c}
            BY <3>3 DEF TypeOK
        <3>5. \A d \in Calls \ {c} : call[d].step # "idle" => call[d].key \in Keys \ {k}
            BY <2>5, NoneAssumption DEF SingleFlight
        <3> HIDE DEF new
        <3> QED
            BY <2>2, <3>1, <3>2, <3>3, <3>4, <3>5 DEF SingleFlight
    <2>7. Answering'
        BY <2>2, <2>3 DEF Answering, TypeOK
    <2> QED
        BY <2>4, <2>6, <2>7
<1>5. ASSUME NEW c \in Calls, Wake(c) PROVE IInv'
    <2>1. call' = [call EXCEPT ![c] = [call[c] EXCEPT !.step = "loading"]]
        BY <1>5 DEF Wake
    <2>2. [call[c] EXCEPT !.step = "loading"] \in CallStates
        BY DEF TypeOK, CallStates
    <2>3. Interval \in 0..Interval
        BY BoundsAssumption
    <2>4. TypeOK'
        BY <1>5, <2>1, <2>2, <2>3 DEF Wake, TypeOK, tables
    <2>5. SingleFlight' /\ Answering'
        BY <1>5, <2>1 DEF Wake, TypeOK, CallStates, SingleFlight, Answering
    <2> QED
        BY <2>4, <2>5
<1>12. ASSUME NEW c \in Calls, Hangs(c) PROVE IInv'
    <2>1. call' = [call EXCEPT ![c] = [call[c] EXCEPT !.step = "hung"]]
        BY <1>12 DEF Hangs
    <2>2. [call[c] EXCEPT !.step = "hung"] \in CallStates
        BY DEF TypeOK, CallStates
    <2>3. TypeOK'
        BY <1>12, <2>1, <2>2 DEF Hangs, TypeOK, tables
    <2>4. SingleFlight' /\ Answering'
        BY <1>12, <2>1 DEF Hangs, TypeOK, CallStates, SingleFlight, Answering
    <2> QED
        BY <2>3, <2>4
<1>6. ASSUME NEW c \in Calls, Extract(c) PROVE IInv'
    <2>1. call[c].step = "loading" /\ call[c].key \in Keys
        BY <1>6 DEF Extract, SingleFlight
    <2>2. PICK v \in {upstream[call[c].key.repo]} \cup Shells :
              call' = [call EXCEPT ![c] = [call[c] EXCEPT !.step = "returning", !.answer = Shown(v)]]
        BY <1>6 DEF Extract
    <2> DEFINE a == Shown(v)
    <2>3. a \in Pages \cup {Gone}
        <3>1. call[c].key.repo \in Repos
            BY <2>1, KeyParts
        <3>2. upstream[call[c].key.repo] \in 1..LastVersion \cup {Gone}
            BY <3>1 DEF TypeOK
        <3>3. v \in Contents \cup {Gone}
            BY <2>2, <3>2, BoundsAssumption DEF Contents
        <3> QED
            BY <3>3, ShownType
    <2> HIDE DEF a
    <2>10. call' = [call EXCEPT ![c] = [call[c] EXCEPT !.step = "returning", !.answer = a]]
        BY <2>2 DEF a
    <2>4. TypeOK'
        BY <1>6, <2>10, <2>3 DEF Extract, TypeOK, tables, CallStates, Answers
    <2>5. SingleFlight' /\ Answering'
        <3>1. /\ call'[c].step = "returning" /\ call'[c].answer = a
              /\ call'[c].key = call[c].key
            BY <2>10 DEF TypeOK, CallStates
        <3>2. \A d \in Calls \ {c} : call'[d] = call[d]
            BY <2>10 DEF TypeOK
        <3>3. \A d \in Calls : call'[d].key = call[d].key
                              /\ (call'[d].step = "idle" <=> call[d].step = "idle")
            BY <2>1, <3>1, <3>2
        <3>4. \A k \in Keys : inflight[k] # None => inflight[k] \in Calls
            BY DEF TypeOK
        <3>5. SingleFlight'
            BY <1>6, <3>3, <3>4 DEF Extract, SingleFlight
        <3>6. Answering'
            BY <2>3, <3>1, <3>2 DEF Answering
        <3> QED
            BY <3>5, <3>6
    <2> QED
        BY <2>4, <2>5
<1>7. ASSUME NEW c \in Calls, call[c].step \in {"loading", "returning"},
             NEW f \in BOOLEAN, Ends(c, f)
      PROVE  /\ SingleFlight' /\ Answering'
             /\ inflight' \in [Keys -> Calls \cup {None}] /\ call' \in [Calls -> CallStates]
    <2>1. call[c].key \in Keys /\ inflight[call[c].key] = c
        BY <1>7 DEF SingleFlight
    <2>2. call' = [call EXCEPT ![c] = Idle] /\ inflight' = [inflight EXCEPT ![call[c].key] = None]
        BY <1>7 DEF Ends, Forgotten
    <2>3. Idle \in CallStates
        BY BoundsAssumption DEF Idle, CallStates, Answers
    <2>4. Idle.step = "idle"
        BY DEF Idle
    <2> QED
        BY <2>1, <2>2, <2>3, <2>4, NoneAssumption DEF SingleFlight, Answering, TypeOK
<1>8. ASSUME NEW c \in Calls, LoadFails(c) PROVE IInv'
    BY <1>7, <1>8 DEF LoadFails, TypeOK, tables
<1>9. ASSUME NEW c \in Calls, ProbeReturns(c) PROVE IInv'
    <2>1. call[c].step = "returning" /\ Ends(c, IsShell(call[c].answer))
        BY <1>9 DEF ProbeReturns
    <2>2. call[c].key.repo \in Repos
        BY <2>1, KeyParts DEF SingleFlight
    <2>3. wiki' \in [Repos -> WikiRows \cup {None}]
        BY <1>9, <2>2 DEF ProbeReturns, TypeOK, WikiRows
    <2>4. IsShell(call[c].answer) \in BOOLEAN
        BY DEF IsShell
    <2> QED
        BY <1>7, <1>9, <2>1, <2>3, <2>4 DEF ProbeReturns, TypeOK
<1>10. ASSUME NEW c \in Calls, PageReturns(c) PROVE IInv'
    <2>1. call[c].step = "returning" /\ Ends(c, FALSE)
        BY <1>10 DEF PageReturns
    <2>2. call[c].key.repo \in Repos /\ call[c].key.slug \in Slugs
        BY <1>10, <2>1, KeyParts DEF SingleFlight, PageReturns, IsProbe
    <2>3. RowAfter(call[c].cached, page[call[c].key.repo][call[c].key.slug], call[c].answer)
              \in PageRows \cup {None}
        <3>1. call[c].cached \in PageRows \cup {None} /\ call[c].answer \in Pages \cup {Gone}
            BY <2>1 DEF Answering, TypeOK, CallStates
        <3>2. page[call[c].key.repo][call[c].key.slug] \in PageRows \cup {None}
            BY <2>2 DEF TypeOK
        <3> QED
            BY <3>1, <3>2, RowAfterType
    <2>4. page' \in [Repos -> [Slugs -> PageRows \cup {None}]]
        BY <1>10, <2>2, <2>3 DEF PageReturns, TypeOK
    <2>5. wiki' \in [Repos -> WikiRows \cup {None}]
        BY <1>10, <2>2 DEF PageReturns, TypeOK, WikiRows
    <2>6. storer' \in [Repos -> [Slugs -> Keys \cup {None}]]
        BY <1>10, <2>1, <2>2 DEF PageReturns, TypeOK, SingleFlight
    <2> QED
        BY <1>7, <1>10, <2>1, <2>4, <2>5, <2>6 DEF PageReturns, TypeOK
<1>11. CASE UNCHANGED vars
    BY <1>11 DEF vars, tables, TypeOK, SingleFlight, Answering
<1> QED
    BY <1>1, <1>2, <1>3, <1>4, <1>5, <1>6, <1>8, <1>9, <1>10, <1>11, <1>12 DEF Next, Returns

\* The invariant holds in every state of every behaviour.
THEOREM ClientIInv == Spec => []IInv
    BY InitIInv, NextIInv, PTL DEF Spec

\* The state of the client, of its rows and of its calls keeps its type.
THEOREM ClientTypeOK == Spec => []TypeOK
<1>1. IInv => TypeOK
    BY DEF IInv
<1> QED
    BY <1>1, ClientIInv, PTL

\* The single-flight map names exactly the executions that have not settled,
\* whatever the loads answer and however they fail.
THEOREM ClientSingleFlight == Spec => []SingleFlight
<1>1. IInv => SingleFlight
    BY DEF IInv
<1> QED
    BY <1>1, ClientIInv, PTL

-----------------------------------------------------------------------------
(* The rows                                                                *)

\* The same body under the same SHA; only the time stamp may differ.
SameBody(p, q) ==
    /\ p = None <=> q = None
    /\ p # None => p.content = q.content /\ p.sha = q.sha

\* A row, or a snapshot of one, when the newest version served so far is n.
RowOk(row, n) ==
    row.content <= n /\ row.sha <= n /\ row.sha \notin Bare /\ ShaOfItsBody(row)

\* What a call is about to store is no older than what it read.
AnswerOk(cached, a, n) ==
    /\ a.sha = IF a.content \in Bare THEN 0 ELSE a.content
    /\ a.content <= n
    /\ a.content # 0 /\ cached # None => cached.content <= a.content /\ cached.sha <= a.content

\* The row is still the one the call read, or another key's execution wrote it.
OwnOrOvertaken(c) ==
    \A s \in Slugs : call[c].key.slug = s =>
        \/ storer[call[c].key.repo][s] # call[c].key
        \/ SameBody(call[c].cached, page[call[c].key.repo][s])

CallOk(c) ==
    /\ call[c].cached # None => RowOk(call[c].cached, latest[call[c].key.repo])
    /\ call[c].step = "returning" /\ call[c].answer # Gone =>
           AnswerOk(call[c].cached, call[c].answer, latest[call[c].key.repo])
    /\ OwnOrOvertaken(c)

\* What relates the rows, the calls under way and upstream: the strengthening
\* that carries RowIsOneVersion and OnlyOvertakenRegresses.
Versions ==
    /\ \A r \in Repos : upstream[r] # Gone => upstream[r] = latest[r]
    /\ \A r \in Repos, s \in Slugs : page[r][s] # None => RowOk(page[r][s], latest[r])
    /\ \A c \in Calls : call[c].step # "idle" => CallOk(c)

RowsKept ==
    /\ \A r \in Repos, s \in Slugs : SameBody(page[r][s], page'[r][s])
    /\ storer' = storer
Served ==
    \A r \in Repos : /\ latest[r] <= latest'[r]
                     /\ upstream'[r] # Gone => upstream'[r] = latest'[r]
\* Call c goes on with what it read and, when it returns, with its answer.
CallKept(c) ==
    call'[c].step # "idle" =>
        /\ call[c].step # "idle"
        /\ call'[c].key = call[c].key /\ call'[c].cached = call[c].cached
        /\ call'[c].step = "returning" =>
              call[c].step = "returning" /\ call'[c].answer = call[c].answer

LEMMA SameRowOk ==
    ASSUME NEW p \in PageRows, NEW q \in PageRows, NEW m \in Nat, NEW n \in Nat,
           SameBody(p, q), p # None, m <= n, RowOk(p, m)
    PROVE  RowOk(q, n)
    BY BoundsAssumption DEF SameBody, RowOk, ShaOfItsBody, PageRows, Contents

LEMMA AnswerStays ==
    ASSUME NEW a \in Pages, NEW cached, NEW m \in Nat, NEW n \in Nat, m <= n,
           AnswerOk(cached, a, m)
    PROVE  AnswerOk(cached, a, n)
    BY BoundsAssumption DEF AnswerOk, Pages, Contents

\* What the types say of a call that runs.
LEMMA Running ==
    ASSUME IInv, NEW c \in Calls, call[c].step # "idle"
    PROVE  /\ call[c].key \in Keys /\ call[c].key.repo \in Repos
           /\ call[c].cached \in PageRows \cup {None}
           /\ latest[call[c].key.repo] \in Nat
           /\ call[c].step = "returning" => call[c].answer \in Pages \cup {Gone}
<1>1. call[c].key \in Keys
    BY DEF IInv, SingleFlight
<1>2. call[c].key.repo \in Repos
    BY <1>1, KeyParts
<1> QED
    BY <1>1, <1>2, BoundsAssumption DEF IInv, TypeOK, CallStates, Answering

LEMMA CallStaysOk ==
    ASSUME IInv, IInv', Versions, RowsKept, Served, NEW c \in Calls, CallKept(c),
           call'[c].step # "idle"
    PROVE  CallOk(c)'
<1>1. /\ call[c].step # "idle" /\ call'[c].key = call[c].key /\ call'[c].cached = call[c].cached
      /\ call'[c].step = "returning" =>
              call[c].step = "returning" /\ call'[c].answer = call[c].answer
    BY DEF CallKept
<1>2. CallOk(c)
    BY <1>1 DEF Versions
<1> DEFINE r == call[c].key.repo
<1>3. /\ r \in Repos /\ call[c].cached \in PageRows \cup {None}
      /\ latest[r] \in Nat /\ latest'[r] \in Nat /\ latest[r] <= latest'[r]
      /\ call[c].step = "returning" => call[c].answer \in Pages \cup {Gone}
    BY <1>1, Running, BoundsAssumption DEF Served, IInv, TypeOK
<1>4. call[c].cached # None => RowOk(call[c].cached, latest'[r])
    <2>1. SameBody(call[c].cached, call[c].cached)
        BY DEF SameBody
    <2> QED
        BY <1>2, <1>3, <2>1, SameRowOk DEF CallOk
<1>5. call'[c].step = "returning" /\ call'[c].answer # Gone =>
          AnswerOk(call[c].cached, call[c].answer, latest'[r])
    BY <1>1, <1>2, <1>3, AnswerStays DEF CallOk
<1>6. OwnOrOvertaken(c)'
    <2> SUFFICES ASSUME NEW s \in Slugs, call[c].key.slug = s, storer[r][s] = call[c].key
                 PROVE  SameBody(call[c].cached, page'[r][s])
        BY <1>1 DEF OwnOrOvertaken, RowsKept
    <2>1. SameBody(call[c].cached, page[r][s]) /\ SameBody(page[r][s], page'[r][s])
        BY <1>2, <1>3 DEF CallOk, OwnOrOvertaken, RowsKept
    <2> QED
        BY <2>1 DEF SameBody
<1> QED
    BY <1>1, <1>4, <1>5, <1>6 DEF CallOk

LEMMA RowsStayOk ==
    ASSUME IInv, IInv', Versions, RowsKept, Served
    PROVE  \A r \in Repos, s \in Slugs : page'[r][s] # None => RowOk(page'[r][s], latest'[r])
<1> SUFFICES ASSUME NEW r \in Repos, NEW s \in Slugs, page'[r][s] # None
             PROVE  RowOk(page'[r][s], latest'[r])
    OBVIOUS
<1>1. SameBody(page[r][s], page'[r][s]) /\ page[r][s] # None
    BY DEF RowsKept, SameBody
<1>2. /\ page[r][s] \in PageRows /\ page'[r][s] \in PageRows
      /\ latest[r] \in Nat /\ latest'[r] \in Nat
    BY <1>1, BoundsAssumption DEF IInv, TypeOK
<1> QED
    BY <1>1, <1>2, SameRowOk DEF Versions, Served

\* The steps that neither start, answer nor end an execution of getPage().
LEMMA StepKeeps ==
    ASSUME IInv, IInv', Versions, RowsKept, Served, \A c \in Calls : CallKept(c)
    PROVE  Versions'
    BY CallStaysOk, RowsStayOk DEF Versions, Served

\* Only the end of a getPage() writes the body of a row.
LEMMA OnlyReturnsStore ==
    ASSUME IInv, [Next]_vars, \A c \in Calls : ~PageReturns(c) PROVE RowsKept
<1>1. CASE \E r \in Repos, s \in Slugs : PageExpires(r, s)
    <2>1. PICK r \in Repos, s \in Slugs : PageExpires(r, s)
        BY <1>1
    <2>2. page[r][s] \in PageRows
        BY <2>1 DEF PageExpires, IInv, TypeOK
    <2>3. page' = [page EXCEPT ![r] = [page[r] EXCEPT ![s] = [page[r][s] EXCEPT !.fresh = FALSE]]]
        BY <2>1 DEF PageExpires
    <2>4. page'[r][s] = [page[r][s] EXCEPT !.fresh = FALSE]
        BY <2>3 DEF IInv, TypeOK
    <2>5. \A q \in Repos, t \in Slugs : (q = r /\ t = s) \/ page'[q][t] = page[q][t]
        BY <2>3 DEF IInv, TypeOK
    <2>6. page'[r][s] \in PageRows /\ page'[r][s].content = page[r][s].content
              /\ page'[r][s].sha = page[r][s].sha
        BY <2>2, <2>4 DEF PageRows
    <2>7. page'[r][s] # None
        BY <2>6, NoneAssumption
    <2> QED
        BY <2>1, <2>5, <2>6, <2>7 DEF RowsKept, SameBody, PageExpires
<1>2. CASE ~\E r \in Repos, s \in Slugs : PageExpires(r, s)
    <2>1. page' = page /\ storer' = storer
        BY <1>2 DEF Next, Returns, vars, tables, Tick, Publishes, Withdraws, WikiExpires,
            Request, Wake, Extract, Hangs, LoadFails, ProbeReturns
    <2> QED
        BY <2>1 DEF RowsKept, SameBody
<1> QED
    BY <1>1, <1>2

\* A call keeps what it read and answers only by Extract.
LEMMA OthersKept ==
    ASSUME IInv, [Next]_vars, \A c \in Calls : ~Extract(c),
           \A c \in Calls, k \in Keys : ~Request(c, k)
    PROVE  \A c \in Calls : CallKept(c)
<1>1. CASE Tick
    BY <1>1 DEF Tick, IInv, TypeOK, CallStates, CallKept
<1>2. CASE \E c \in Calls : Wake(c) \/ Hangs(c)
    <2>1. PICK d \in Calls : Wake(d) \/ Hangs(d)
        BY <1>2
    <2>2. call[d] \in CallStates /\ call[d].step # "idle"
        BY <2>1 DEF IInv, TypeOK, Wake, Hangs
    <2>3. /\ call'[d].step # "returning" /\ call'[d].key = call[d].key
          /\ call'[d].cached = call[d].cached
        BY <2>1, <2>2 DEF Wake, Hangs, IInv, TypeOK, CallStates
    <2>4. \A c \in Calls \ {d} : call'[c] = call[c]
        BY <2>1 DEF Wake, Hangs, IInv, TypeOK
    <2> QED
        BY <2>2, <2>3, <2>4 DEF CallKept
<1>3. CASE \E c \in Calls, f \in BOOLEAN : Ends(c, f)
    BY <1>3 DEF Ends, Idle, IInv, TypeOK, CallKept
<1>4. CASE UNCHANGED call
    BY <1>4 DEF CallKept
<1>5. ASSUME NEW c \in Calls, ProbeReturns(c) PROVE \E f \in BOOLEAN : Ends(c, f)
    BY <1>5 DEF ProbeReturns, IsShell
<1> QED
    <2>1. CASE \E r \in Repos : Publishes(r) \/ Withdraws(r) \/ WikiExpires(r)
        BY <1>4, <2>1 DEF Publishes, Withdraws, WikiExpires
    <2>2. CASE \E r \in Repos, s \in Slugs : PageExpires(r, s)
        BY <1>4, <2>2 DEF PageExpires
    <2>3. CASE \E c \in Calls : LoadFails(c) \/ PageReturns(c)
        BY <1>3, <2>3 DEF LoadFails, PageReturns
    <2>4. CASE UNCHANGED vars
        BY <1>4, <2>4 DEF vars
    <2> QED
        BY <1>1, <1>2, <1>3, <1>5, <2>1, <2>2, <2>3, <2>4 DEF Next, Returns

\* Where a row is extracted, stored or read, upstream serves its newest version.
LEMMA RequestVersions ==
    ASSUME IInv, IInv', Versions, NEW c \in Calls, NEW k \in Keys, Request(c, k)
    PROVE  Versions'
<1>1. /\ call' = [call EXCEPT ![c] =
          [Idle EXCEPT !.key = k, !.cached = CachedPage(k), !.sleep = cooldown,
                       !.step = IF cooldown > 0 THEN "pacing" ELSE "loading"]]
      /\ UNCHANGED <<upstream, latest, page, storer>>
    BY DEF Request, tables
<1>2. /\ call'[c].key = k /\ call'[c].cached = CachedPage(k) /\ call'[c].step # "returning"
      /\ \A d \in Calls \ {c} : call'[d] = call[d]
    BY <1>1 DEF Idle, IInv, TypeOK
<1>3. RowsKept /\ Served
    BY <1>1, BoundsAssumption DEF RowsKept, SameBody, Served, Versions, IInv, TypeOK
<1>4. \A d \in Calls \ {c} : CallKept(d)
    BY <1>2 DEF CallKept
<1>5. CallOk(c)'
    <2>1. k.repo \in Repos /\ k.slug \in Slugs \cup {None}
        BY KeyParts
    <2>2. CachedPage(k) # None => RowOk(CachedPage(k), latest[k.repo])
        BY <2>1 DEF CachedPage, IsProbe, Versions
    <2>3. \A s \in Slugs : k.slug = s => SameBody(CachedPage(k), page[k.repo][s])
        BY NoneAssumption DEF CachedPage, IsProbe, SameBody
    <2> QED
        BY <1>1, <1>2, <2>2, <2>3 DEF CallOk, OwnOrOvertaken
<1> QED
    BY <1>3, <1>4, <1>5, CallStaysOk, RowsStayOk DEF Versions, Served

LEMMA ExtractVersions ==
    ASSUME IInv, IInv', Versions, NEW c \in Calls, Extract(c)
    PROVE  Versions'
<1> DEFINE r == call[c].key.repo
<1>1. /\ call[c].step = "loading" /\ r \in Repos /\ call[c].cached \in PageRows \cup {None}
      /\ latest[r] \in Nat
    BY Running DEF Extract
<1>2. PICK v \in {upstream[r]} \cup Shells :
          call' = [call EXCEPT ![c] = [call[c] EXCEPT !.step = "returning", !.answer = Shown(v)]]
    BY DEF Extract
<1>3. UNCHANGED <<upstream, latest, page, storer>>
    BY DEF Extract, tables
<1>4. /\ call'[c].key = call[c].key /\ call'[c].cached = call[c].cached
      /\ call'[c].answer = Shown(v)
      /\ \A d \in Calls \ {c} : call'[d] = call[d]
    BY <1>2 DEF IInv, TypeOK, CallStates
<1>5. RowsKept /\ Served
    BY <1>3, BoundsAssumption DEF RowsKept, SameBody, Served, Versions, IInv, TypeOK
<1>6. \A d \in Calls \ {c} : CallKept(d)
    BY <1>4 DEF CallKept
<1>7. CallOk(c)
    BY <1>1 DEF Versions
<1>8. v # Gone => v \in Contents /\ (v = 0 \/ v = latest[r])
    BY <1>1, <1>2, BoundsAssumption DEF Versions, IInv, TypeOK, Contents
<1>9. Shown(v) # Gone => AnswerOk(call[c].cached, Shown(v), latest[r])
    <2> SUFFICES ASSUME v # Gone PROVE AnswerOk(call[c].cached, Shown(v), latest[r])
        BY <1>8, ShownType
    <2>1. Shown(v).content = v /\ Shown(v).sha = IF v \in Bare THEN 0 ELSE v
        BY <1>8, ShownType
    <2>2. call[c].cached # None => call[c].cached.content <= latest[r] /\ call[c].cached.sha <= latest[r]
        BY <1>7 DEF CallOk, RowOk
    <2> QED
        BY <1>1, <1>8, <2>1, <2>2 DEF AnswerOk
<1>10. CallOk(c)'
    BY <1>3, <1>4, <1>7, <1>9 DEF CallOk, OwnOrOvertaken
<1> QED
    BY <1>5, <1>6, <1>10, CallStaysOk, RowsStayOk DEF Versions, Served

\* The row that the end of a getPage() writes, and the rows it leaves alone.
LEMMA ReturnStores ==
    ASSUME IInv, NEW c \in Calls, PageReturns(c)
    PROVE  /\ call[c].step = "returning" /\ call[c].key \in Keys
           /\ call[c].key.repo \in Repos /\ call[c].key.slug \in Slugs
           /\ page'[call[c].key.repo][call[c].key.slug] =
                  RowAfter(call[c].cached, page[call[c].key.repo][call[c].key.slug], call[c].answer)
           /\ storer'[call[c].key.repo][call[c].key.slug] = call[c].key
           /\ \A r \in Repos, s \in Slugs :
                  \/ r = call[c].key.repo /\ s = call[c].key.slug
                  \/ page'[r][s] = page[r][s] /\ storer'[r][s] = storer[r][s]
<1>1. call[c].step = "returning" /\ call[c].key \in Keys
    BY DEF PageReturns, IInv, SingleFlight
<1>3. call[c].key.repo \in Repos /\ call[c].key.slug \in Slugs
    BY <1>1, KeyParts DEF PageReturns, IsProbe
<1> DEFINE r == call[c].key.repo
           s == call[c].key.slug
           row == RowAfter(call[c].cached, page[r][s], call[c].answer)
<1>4. page' = [page EXCEPT ![r] = [page[r] EXCEPT ![s] = row]]
    BY DEF PageReturns
<1>5. storer' = [storer EXCEPT ![r] = [storer[r] EXCEPT ![s] = call[c].key]]
    BY DEF PageReturns
<1> HIDE DEF row
<1>6. page'[r][s] = row /\ \A q \in Repos, t \in Slugs : (q = r /\ t = s) \/ page'[q][t] = page[q][t]
    BY <1>3, <1>4 DEF IInv, TypeOK
<1>7. /\ storer'[r][s] = call[c].key
      /\ \A q \in Repos, t \in Slugs : (q = r /\ t = s) \/ storer'[q][t] = storer[q][t]
    BY <1>3, <1>5 DEF IInv, TypeOK
<1> QED
    BY <1>1, <1>3, <1>6, <1>7 DEF row

\* What getPage() leaves in a row that is not deleted: the row with its body and
\* its SHA, or the body of the answer.
LEMMA RowAfterContent ==
    ASSUME NEW cached \in PageRows \cup {None}, NEW row \in PageRows \cup {None},
           NEW a \in Pages \cup {Gone}, RowAfter(cached, row, a) # None
    PROVE  \/ /\ row # None
              /\ RowAfter(cached, row, a).content = row.content
              /\ RowAfter(cached, row, a).sha = row.sha
           \/ /\ a # Gone
              /\ RowAfter(cached, row, a).content = a.content
              /\ RowAfter(cached, row, a).sha = StoredSha(cached, a)
<1>1. CASE a = Gone
    BY <1>1 DEF RowAfter
<1>2. CASE a # Gone /\ Unchanged(cached, a)
    <2>1. RowAfter(cached, row, a) = IF row = None THEN None ELSE [row EXCEPT !.fresh = TRUE]
        BY <1>2 DEF RowAfter
    <2> QED
        BY <2>1 DEF PageRows
<1>3. CASE a # Gone /\ ~Unchanged(cached, a)
    <2>1. RowAfter(cached, row, a) =
              [content |-> a.content, sha |-> StoredSha(cached, a), fresh |-> TRUE]
        BY <1>3 DEF RowAfter
    <2> QED
        BY <1>3, <2>1
<1> QED
    BY <1>1, <1>2, <1>3

\* The body of an answer under its stored SHA makes a row of one version.
LEMMA AnswerRowOk ==
    ASSUME NEW cached \in PageRows \cup {None}, NEW a \in Pages, NEW n \in Nat, NEW row \in PageRows,
           AnswerOk(cached, a, n), cached # None => RowOk(cached, n),
           row.content = a.content, row.sha = StoredSha(cached, a)
    PROVE  RowOk(row, n)
<1>1. a.content \in Nat /\ a.sha \in Nat /\ 0 \notin Bare
    BY BoundsAssumption DEF Pages, Contents
<1>2. CASE a.sha = 0 /\ cached # None
    <2>1. row.sha = cached.sha /\ cached.sha \in Nat
        BY <1>2, BoundsAssumption DEF StoredSha, PageRows, Contents
    <2>2. a.content = 0 \/ (a.content \in Bare /\ cached.sha <= a.content)
        BY <1>2 DEF AnswerOk
    <2> QED
        BY <1>1, <1>2, <2>1, <2>2 DEF RowOk, ShaOfItsBody, AnswerOk
<1>3. CASE ~(a.sha = 0 /\ cached # None)
    <2>1. row.sha = a.sha
        BY <1>3 DEF StoredSha
    <2> QED
        BY <1>1, <1>3, <2>1 DEF RowOk, ShaOfItsBody, AnswerOk
<1> QED
    BY <1>2, <1>3

LEMMA ReturnVersions ==
    ASSUME IInv, IInv', Versions, NEW c \in Calls, PageReturns(c)
    PROVE  Versions'
<1> DEFINE r == call[c].key.repo
           s == call[c].key.slug
<1>1. /\ call[c].step = "returning" /\ call[c].key \in Keys
      /\ r \in Repos /\ s \in Slugs
      /\ page[r][s] \in PageRows \cup {None} /\ page'[r][s] \in PageRows \cup {None}
      /\ call[c].cached \in PageRows \cup {None} /\ call[c].answer \in Pages \cup {Gone}
      /\ latest[r] \in Nat
    BY ReturnStores, Running DEF IInv, TypeOK
<1>2. UNCHANGED <<upstream, latest>> /\ call'[c].step = "idle"
          /\ \A d \in Calls \ {c} : call'[d] = call[d]
    BY DEF PageReturns, Ends, Idle, IInv, TypeOK
<1>3. CallOk(c)
    BY <1>1 DEF Versions
<1>4. page'[r][s] # None => RowOk(page'[r][s], latest[r])
    <2> SUFFICES ASSUME page'[r][s] # None PROVE RowOk(page'[r][s], latest[r])
        OBVIOUS
    <2>1. page'[r][s] = RowAfter(call[c].cached, page[r][s], call[c].answer)
        BY ReturnStores
    <2>2. \/ /\ page[r][s] # None
             /\ page'[r][s].content = page[r][s].content /\ page'[r][s].sha = page[r][s].sha
          \/ /\ call[c].answer # Gone
             /\ page'[r][s].content = call[c].answer.content
             /\ page'[r][s].sha = StoredSha(call[c].cached, call[c].answer)
        BY <1>1, <2>1, RowAfterContent
    <2>3. CASE /\ page[r][s] # None
               /\ page'[r][s].content = page[r][s].content /\ page'[r][s].sha = page[r][s].sha
        <3>1. SameBody(page[r][s], page'[r][s])
            BY <2>3 DEF SameBody
        <3> QED
            BY <1>1, <2>3, <3>1, SameRowOk DEF Versions
    <2>4. CASE /\ call[c].answer # Gone
               /\ page'[r][s].content = call[c].answer.content
               /\ page'[r][s].sha = StoredSha(call[c].cached, call[c].answer)
        <3>1. AnswerOk(call[c].cached, call[c].answer, latest[r])
            BY <1>1, <1>3, <2>4 DEF CallOk
        <3> QED
            BY <1>1, <1>3, <2>4, <3>1, AnswerRowOk DEF CallOk
    <2> QED
        BY <2>2, <2>3, <2>4
<1>5. \A q \in Repos, t \in Slugs : page'[q][t] # None => RowOk(page'[q][t], latest'[q])
    BY <1>2, <1>4, ReturnStores DEF Versions
<1>6. ASSUME NEW d \in Calls, call'[d].step # "idle" PROVE CallOk(d)'
    <2>1. d # c /\ call'[d] = call[d] /\ call[d].step # "idle" /\ CallOk(d)
        BY <1>2, <1>6 DEF Versions
    <2>2. /\ call[d].key \in Keys /\ call[d].key.repo \in Repos
          /\ inflight[call[d].key] = d /\ inflight[call[c].key] = c
        BY <1>1, <2>1, Running DEF IInv, SingleFlight
    <2>3. OwnOrOvertaken(d)'
        <3> SUFFICES ASSUME NEW t \in Slugs, call[d].key.slug = t,
                            storer'[call[d].key.repo][t] = call[d].key
                     PROVE  SameBody(call[d].cached, page'[call[d].key.repo][t])
            BY <2>1 DEF OwnOrOvertaken
        <3>1. ~(call[d].key.repo = r /\ t = s)
            BY <2>1, <2>2, ReturnStores
        <3>2. page'[call[d].key.repo][t] = page[call[d].key.repo][t]
                  /\ storer'[call[d].key.repo][t] = storer[call[d].key.repo][t]
            BY <2>2, <3>1, ReturnStores
        <3> QED
            BY <2>1, <3>2 DEF CallOk, OwnOrOvertaken
    <2> QED
        BY <1>2, <2>1, <2>3 DEF CallOk
<1> QED
    BY <1>2, <1>5, <1>6 DEF Versions

LEMMA NextVersions == IInv /\ IInv' /\ Versions /\ [Next]_vars => Versions'
<1> SUFFICES ASSUME IInv, IInv', Versions, [Next]_vars PROVE Versions'
    OBVIOUS
<1>1. CASE \E c \in Calls, k \in Keys : Request(c, k)
    BY <1>1, RequestVersions
<1>2. CASE \E c \in Calls : Extract(c)
    BY <1>2, ExtractVersions
<1>3. CASE \E c \in Calls : PageReturns(c)
    BY <1>3, ReturnVersions
<1>4. CASE /\ \A c \in Calls, k \in Keys : ~Request(c, k)
           /\ \A c \in Calls : ~Extract(c) /\ ~PageReturns(c)
    <2>1. RowsKept /\ \A c \in Calls : CallKept(c)
        BY <1>4, OnlyReturnsStore, OthersKept
    <2>2. \A q \in Repos : latest[q] \in Nat
        BY BoundsAssumption DEF IInv, TypeOK
    <2>3. Served
        <3>1. CASE \E r \in Repos : Publishes(r)
            BY <2>2, <3>1 DEF Publishes, Served, Versions, IInv, TypeOK
        <3>2. CASE \E r \in Repos : Withdraws(r)
            BY <2>2, <3>2 DEF Withdraws, Served, Versions, IInv, TypeOK
        <3>3. CASE UNCHANGED <<upstream, latest>>
            BY <2>2, <3>3 DEF Served, Versions
        <3> QED
            BY <1>4, <3>1, <3>2, <3>3 DEF Next, Returns, vars, Tick, WikiExpires,
                PageExpires, Request, Wake, Extract, Hangs, LoadFails, ProbeReturns
    <2> QED
        BY <2>1, <2>3, StepKeeps
<1> QED
    BY <1>1, <1>2, <1>3, <1>4

LEMMA InitVersions == Init => Versions
    BY DEF Init, Versions, Idle

\* The body and the SHA of a pages row are of one version, whichever calls wrote
\* it, under however many keys and whatever empty shells upstream answers with;
\* only a body that links to no commit keeps an older SHA or none.
THEOREM ClientRowIsOneVersion == Spec => []RowIsOneVersion
<1>1. Versions => RowIsOneVersion
    BY DEF Versions, RowIsOneVersion, RowOk
<1> QED
    BY <1>1, InitVersions, NextVersions, ClientIInv, PTL DEF Spec

\* No load overwrites the row of a newer version, however long it took and however
\* many keys share the row, unless another key wrote the row while it was under
\* way.
THEOREM ClientOnlyOvertakenRegresses == Spec => OnlyOvertakenRegresses
<1> DEFINE Allowed == \A r \in Repos, s \in Slugs :
          (/\ page[r][s] # None /\ page'[r][s] # None
           /\ 0 < page'[r][s].content /\ page'[r][s].content < page[r][s].content) =>
              /\ storer[r][s] # storer'[r][s]
              /\ inflight[storer'[r][s]] # None
              /\ call[inflight[storer'[r][s]]].cached # page[r][s]
<1>1. ASSUME IInv, Versions, [Next]_vars PROVE Allowed
    <2> SUFFICES ASSUME NEW r \in Repos, NEW s \in Slugs, page[r][s] # None, page'[r][s] # None,
                        0 < page'[r][s].content, page'[r][s].content < page[r][s].content
                 PROVE  /\ storer[r][s] # storer'[r][s]
                        /\ inflight[storer'[r][s]] # None
                        /\ call[inflight[storer'[r][s]]].cached # page[r][s]
        OBVIOUS
    <2>0. page[r][s].content \in Nat
        BY <1>1, BoundsAssumption DEF IInv, TypeOK, PageRows, Contents
    <2>1. PICK c \in Calls : PageReturns(c)
        BY <1>1, <2>0, OnlyReturnsStore DEF RowsKept, SameBody
    <2>2. r = call[c].key.repo /\ s = call[c].key.slug
        BY <1>1, <2>0, <2>1, ReturnStores
    <2>3. /\ call[c].step = "returning" /\ call[c].key \in Keys
          /\ call[c].cached \in PageRows \cup {None} /\ call[c].answer \in Pages \cup {Gone}
          /\ page[r][s] \in PageRows
        BY <1>1, <2>1, ReturnStores, Running DEF IInv, TypeOK
    <2>4. page'[r][s] = RowAfter(call[c].cached, page[r][s], call[c].answer)
              /\ storer'[r][s] = call[c].key
        BY <1>1, <2>1, <2>2, ReturnStores
    <2>5. call[c].answer # Gone /\ page'[r][s].content = call[c].answer.content
        BY <2>0, <2>3, <2>4, RowAfterContent
    <2>6. CallOk(c)
        BY <1>1, <2>3 DEF Versions
    <2>7. call[c].cached # None => call[c].cached.content <= call[c].answer.content
        BY <2>3, <2>5, <2>6 DEF CallOk, AnswerOk
    <2>8. call[c].cached # None => call[c].cached.content \in Nat
        BY <2>3, BoundsAssumption DEF PageRows, Contents
    <2>9. call[c].answer.content \in Nat
        BY <2>3, <2>5, BoundsAssumption DEF Pages, Contents
    <2>10. call[c].cached # None => call[c].cached.content # page[r][s].content
        BY <2>0, <2>5, <2>7, <2>8, <2>9
    <2>11. storer[r][s] # call[c].key
        BY <2>2, <2>6, <2>10 DEF CallOk, OwnOrOvertaken, SameBody
    <2>12. inflight[call[c].key] = c /\ c # None
        BY <1>1, <2>3, NoneAssumption DEF IInv, SingleFlight
    <2> QED
        BY <2>4, <2>10, <2>11, <2>12
<1>2. IInv /\ Versions /\ [Next]_vars => [Allowed]_vars
    BY <1>1
<1> QED
    BY <1>2, InitVersions, NextVersions, ClientIInv, PTL DEF Spec, OnlyOvertakenRegresses
=============================================================================
