--------------------------- MODULE PlaywrightDriver ---------------------------
(***************************************************************************)
(* The Chromium driver of src/src/adapters/playwright_driver.ts: one       *)
(* lazily launched browser with one shared context, a bounded number of    *)
(* open pages with a FIFO queue of callers, and close().                   *)
(*                                                                         *)
(* A caller is a client that invokes withPage() again and again.           *)
(* JavaScript runs one callback at a time, so every action below is the    *)
(* code between two awaits.  A call whose await has already settled is a   *)
(* microtask: it resumes before the event loop takes the next event.       *)
(***************************************************************************)
EXTENDS Naturals, Sequences, FiniteSets

CONSTANTS
    Callers,    \* the clients of withPage()
    Closers,    \* the close() invocations of the signal handlers
    Launches,   \* identities of doLaunch() runs, and of the browsers they start
    MaxPages,   \* maxConcurrentPages
    None        \* JavaScript null

ASSUME PagesAssumption == MaxPages \in Nat \ {0}
ASSUME CallersAssumption == IsFiniteSet(Callers)
ASSUME NoneAssumption == None \notin Launches

VARIABLES
    ready,          \* readyPromise: is chromium-headless-shell installed?
    browser,        \* this.browser, named by the launch that started it
    context,        \* this.context, named by the launch that created it
    launchPromise,  \* this.launchPromise
    launch,         \* launch[l]: how far doLaunch() run l has come
    running,        \* the browsers whose process is running
    slots,          \* this.slotsAvailable
    waiters,        \* this.waiters, oldest first
    pc,             \* pc[c]: where the withPage() invocation c is suspended
    joined,         \* joined[c]: the launchPromise that c awaits
    outcome,        \* outcome[c]: how the latest withPage() of c ended
    closing,        \* closing[k]: where the close() invocation k is suspended
    target          \* target[k]: the browser whose closing k awaits

driverVars == <<ready, browser, context, launchPromise, launch, running>>
slotVars == <<slots, waiters>>
callerVars == <<pc, joined, outcome>>
closerVars == <<closing, target>>
vars == <<driverVars, slotVars, callerVars, closerVars>>

CallerSteps == {"idle", "gate", "lead", "follow", "acquire", "waiting",
                "holding", "opening", "using"}
Outcomes == {"none", "ok", "threw", "unavailable", "typeError"}
LaunchSteps == {"unused", "launching", "contexting", "scripting", "done", "failed"}
InProgress == {"launching", "contexting", "scripting"}

\* The callers that own a slot of the semaphore.
Holders == {c \in Callers : pc[c] \in {"holding", "opening", "using"}}

TypeOK ==
    /\ ready \in {"pending", "ready", "failed"}
    /\ browser \in Launches \cup {None}
    /\ context \in Launches \cup {None}
    /\ launchPromise \in Launches \cup {None}
    /\ launch \in [Launches -> LaunchSteps]
    /\ running \subseteq Launches
    /\ slots \in 0..MaxPages
    /\ waiters \in Seq(Callers)
    /\ pc \in [Callers -> CallerSteps]
    /\ joined \in [Callers -> Launches \cup {None}]
    /\ outcome \in [Callers -> Outcomes]
    /\ closing \in [Closers -> {"idle", "context", "browser", "closed"}]
    /\ target \in [Closers -> Launches \cup {None}]

Init ==
    /\ ready = "pending"
    /\ browser = None
    /\ context = None
    /\ launchPromise = None
    /\ launch = [l \in Launches |-> "unused"]
    /\ running = {}
    /\ slots = MaxPages
    /\ waiters = <<>>
    /\ pc = [c \in Callers |-> "idle"]
    /\ joined = [c \in Callers |-> None]
    /\ outcome = [c \in Callers |-> "none"]
    /\ closing = [k \in Closers |-> "idle"]
    /\ target = [k \in Closers |-> None]

-----------------------------------------------------------------------------
Settled(l) == launch[l] \in {"done", "failed"}

\* The await at which c is suspended has settled.
Microtask(c) ==
    \/ pc[c] = "gate" /\ ready # "pending"
    \/ pc[c] \in {"lead", "follow"} /\ Settled(joined[c])
    \/ pc[c] \in {"acquire", "holding"}

\* The event loop takes an event only when no microtask is left.
Quiet == \A c \in Callers : ~Microtask(c)

(* The environment: the installer behind readyPromise, and the browser     *)
(* process, which may die under the driver (no handler listens for that).  *)

InstallSettles ==
    /\ Quiet
    /\ ready = "pending"
    /\ ready' \in {"ready", "failed"}
    /\ UNCHANGED <<browser, context, launchPromise, launch, running,
                   slotVars, callerVars, closerVars>>

BrowserDies(l) ==
    /\ Quiet
    /\ l \in running
    /\ running' = running \ {l}
    /\ UNCHANGED <<ready, browser, context, launchPromise, launch,
                   slotVars, callerVars, closerVars>>

-----------------------------------------------------------------------------
(* ensureLaunched() and doLaunch()                                         *)

\* A launch identity that nothing refers to any more names the next launch.
Unreferenced(l) ==
    /\ launch[l] \notin InProgress
    /\ l \notin running
    /\ l \notin {browser, context, launchPromise}
    /\ \A c \in Callers : joined[c] # l
    /\ \A k \in Closers : target[k] # l

\* An event (a request, a timer) makes the calls of a set of clients enter
\* ensureLaunched(), as the probes of one list_project_dependencies do: a browser
\* that is set is taken as ready.  (Bound: some launch identity is left to use.)
Enter(S) ==
    /\ Quiet
    /\ \E l \in Launches : Unreferenced(l)
    /\ \A c \in S : pc[c] = "idle"
    /\ pc' = [c \in Callers |->
                 IF c \notin S THEN pc[c] ELSE IF browser = None THEN "gate" ELSE "acquire"]
    /\ outcome' = [c \in Callers |-> IF c \in S THEN "none" ELSE outcome[c]]
    /\ UNCHANGED <<driverVars, slotVars, joined, closerVars>>

\* The readyPromise rejected: PlaywrightUnavailableError.
GateRejects(c) ==
    /\ pc[c] = "gate"
    /\ ready = "failed"
    /\ pc' = [pc EXCEPT ![c] = "idle"]
    /\ outcome' = [outcome EXCEPT ![c] = "unavailable"]
    /\ UNCHANGED <<driverVars, slotVars, joined, closerVars>>

JoinNever == FALSE     \* Mutant: `if (this.launchPromise)` is dropped.
JoinGuard == launchPromise # None

JoinLaunch(c) ==
    /\ pc[c] = "gate"
    /\ ready = "ready"
    /\ JoinGuard
    /\ pc' = [pc EXCEPT ![c] = "follow"]
    /\ joined' = [joined EXCEPT ![c] = launchPromise]
    /\ UNCHANGED <<driverVars, slotVars, outcome, closerVars>>

StartLaunch(c) ==
    /\ pc[c] = "gate"
    /\ ready = "ready"
    /\ ~JoinGuard
    /\ \E l \in Launches :
          /\ Unreferenced(l)
          /\ launch' = [launch EXCEPT ![l] = "launching"]
          /\ launchPromise' = l
          /\ joined' = [joined EXCEPT ![c] = l]
    /\ pc' = [pc EXCEPT ![c] = "lead"]
    /\ UNCHANGED <<ready, browser, context, running, slotVars, outcome, closerVars>>

\* chromium.launch() settles; this.browser is set before the context exists.
BrowserLaunched(l) ==
    /\ Quiet
    /\ launch[l] = "launching"
    /\ browser' = l
    /\ running' = running \cup {l}
    /\ launch' = [launch EXCEPT ![l] = "contexting"]
    /\ UNCHANGED <<ready, context, launchPromise, slotVars, callerVars, closerVars>>

\* browser.newContext() settles.
ContextCreated(l) ==
    /\ Quiet
    /\ launch[l] = "contexting"
    /\ l \in running
    /\ context' = l
    /\ launch' = [launch EXCEPT ![l] = "scripting"]
    /\ UNCHANGED <<ready, browser, launchPromise, running, slotVars, callerVars, closerVars>>

\* context.addInitScript() settles: the stealth script is installed.
ScriptInstalled(l) ==
    /\ Quiet
    /\ launch[l] = "scripting"
    /\ l \in running
    /\ launch' = [launch EXCEPT ![l] = "done"]
    /\ UNCHANGED <<ready, browser, context, launchPromise, running,
                   slotVars, callerVars, closerVars>>

\* Any of the three awaits of doLaunch() may reject, and none of them undoes
\* the assignments made before it.
LaunchRejects(l) ==
    /\ Quiet
    /\ launch[l] \in InProgress
    /\ launch' = [launch EXCEPT ![l] = "failed"]
    /\ UNCHANGED <<ready, browser, context, launchPromise, running,
                   slotVars, callerVars, closerVars>>

\* Mutant: launchPromise is cleared after a success only.
ClearOnSuccess(l) == IF launch[l] = "done" THEN None ELSE launchPromise

\* `finally { this.launchPromise = null }`, whichever way launch l ended.
ClearedPromise(l) == None

\* The await of launchPromise ends for its leader or for one that joined it.
LaunchAwaited(c) ==
    /\ pc[c] \in {"lead", "follow"}
    /\ Settled(joined[c])
    /\ launchPromise' = IF pc[c] = "lead" THEN ClearedPromise(joined[c]) ELSE launchPromise
    /\ joined' = [joined EXCEPT ![c] = None]
    /\ IF launch[joined[c]] = "done"
       THEN /\ pc' = [pc EXCEPT ![c] = "acquire"]
            /\ UNCHANGED outcome
       ELSE /\ pc' = [pc EXCEPT ![c] = "idle"]
            /\ outcome' = [outcome EXCEPT ![c] = "threw"]
    /\ UNCHANGED <<ready, browser, context, launch, running, slotVars, closerVars>>

-----------------------------------------------------------------------------
(* The semaphore and the page                                              *)

AcquireSlot(c) ==
    /\ pc[c] = "acquire"
    /\ IF slots > 0
       THEN /\ slots' = slots - 1
            /\ pc' = [pc EXCEPT ![c] = "holding"]
            /\ UNCHANGED waiters
       ELSE /\ waiters' = Append(waiters, c)
            /\ pc' = [pc EXCEPT ![c] = "waiting"]
            /\ UNCHANGED slots
    /\ UNCHANGED <<driverVars, joined, outcome, closerVars>>

\* The call of c ends with result r; the oldest waiter, if any, gets the slot.
EndCall(c, r) ==
    /\ outcome' = [outcome EXCEPT ![c] = r]
    /\ pc' = IF waiters = <<>>
             THEN [pc EXCEPT ![c] = "idle"]
             ELSE [pc EXCEPT ![c] = "idle", ![Head(waiters)] = "holding"]

Shifted == IF waiters = <<>> THEN <<>> ELSE Tail(waiters)
SlotsAfterRelease == IF waiters = <<>> THEN slots + 1 ELSE slots

\* Mutant: the waiter's callback forgets `this.slotsAvailable--`.
ReleaseTwice(c, r) == EndCall(c, r) /\ waiters' = Shifted /\ slots' = slots + 1

\* Mutant: the slot is returned and nobody is woken.
ReleaseSilent(c, r) ==
    /\ outcome' = [outcome EXCEPT ![c] = r]
    /\ pc' = [pc EXCEPT ![c] = "idle"]
    /\ slots' = slots + 1
    /\ UNCHANGED waiters

\* releaseSlot(): slots goes up, and the waiter shifted off takes it down again.
ReleaseSlot(c, r) == EndCall(c, r) /\ waiters' = Shifted /\ slots' = SlotsAfterRelease

\* `this.context!.newPage()`: on a null context the call itself throws.
NewPage(c) ==
    /\ pc[c] = "holding"
    /\ context # None
    /\ pc' = [pc EXCEPT ![c] = "opening"]
    /\ UNCHANGED <<driverVars, slotVars, joined, outcome, closerVars>>

NullContext(c) ==
    /\ pc[c] = "holding"
    /\ context = None
    /\ ReleaseSlot(c, "typeError")
    /\ UNCHANGED <<driverVars, joined, closerVars>>

PageOpens(c) ==
    /\ Quiet
    /\ pc[c] = "opening"
    /\ context \in running
    /\ pc' = [pc EXCEPT ![c] = "using"]
    /\ UNCHANGED <<driverVars, slotVars, joined, outcome, closerVars>>

PageFails(c) ==
    /\ Quiet
    /\ pc[c] = "opening"
    /\ ReleaseSlot(c, "threw")
    /\ UNCHANGED <<driverVars, joined, closerVars>>

\* fn(page) settled and page.close() settled, its error ignored.
PageDone(c) ==
    /\ Quiet
    /\ pc[c] = "using"
    /\ \E r \in {"ok", "threw"} : ReleaseSlot(c, r)
    /\ UNCHANGED <<driverVars, joined, closerVars>>

-----------------------------------------------------------------------------
(* close()                                                                 *)

\* The code after the context is dealt with: close the browser if there is one.
ToBrowser(k) ==
    IF browser # None
    THEN /\ closing' = [closing EXCEPT ![k] = "browser"]
         /\ target' = [target EXCEPT ![k] = browser]
         /\ UNCHANGED launchPromise
    ELSE /\ closing' = [closing EXCEPT ![k] = "closed"]
         /\ target' = [target EXCEPT ![k] = None]
         /\ launchPromise' = None

Close(k) ==
    /\ Quiet
    /\ closing[k] = "idle"
    /\ IF context # None
       THEN /\ closing' = [closing EXCEPT ![k] = "context"]
            /\ UNCHANGED <<target, launchPromise>>
       ELSE ToBrowser(k)
    /\ UNCHANGED <<ready, browser, context, launch, running, slotVars, callerVars>>

ContextClosed(k) ==
    /\ Quiet
    /\ closing[k] = "context"
    /\ context' = None
    /\ ToBrowser(k)
    /\ UNCHANGED <<ready, browser, launch, running, slotVars, callerVars>>

BrowserClosed(k) ==
    /\ Quiet
    /\ closing[k] = "browser"
    /\ running' = running \ {target[k]}
    /\ browser' = None
    /\ launchPromise' = None
    /\ closing' = [closing EXCEPT ![k] = "closed"]
    /\ target' = [target EXCEPT ![k] = None]
    /\ UNCHANGED <<ready, context, launch, slotVars, callerVars>>

-----------------------------------------------------------------------------
LaunchSettles(l) ==
    BrowserLaunched(l) \/ ContextCreated(l) \/ ScriptInstalled(l) \/ LaunchRejects(l)

PageSettles(c) == PageOpens(c) \/ PageFails(c) \/ PageDone(c)

\* The microtasks of a call that has entered withPage().
Resume(c) ==
    \/ GateRejects(c) \/ JoinLaunch(c) \/ StartLaunch(c) \/ LaunchAwaited(c)
    \/ AcquireSlot(c) \/ NewPage(c) \/ NullContext(c)

CloserStep(k) == Close(k) \/ ContextClosed(k) \/ BrowserClosed(k)

Next ==
    \/ InstallSettles
    \/ \E l \in Launches : BrowserDies(l) \/ LaunchSettles(l)
    \/ \E S \in (SUBSET Callers) \ {{}} : Enter(S)
    \/ \E c \in Callers : Resume(c) \/ PageSettles(c)
    \/ \E k \in Closers : CloserStep(k)

Spec == Init /\ [][Next]_vars

\* A microtask runs, and PLAYWRIGHT_INSTALL_TIMEOUT_MS ends the install.
\* Microtasks delay an event, they do not cancel it, hence strong fairness for it.
Fairness == SF_vars(InstallSettles) /\ \A c \in Callers : WF_vars(Resume(c))

FairSpec == Spec /\ Fairness

-----------------------------------------------------------------------------
(* Properties                                                              *)

\* Semaphore accounting (acquireSlot, releaseSlot): a slot is free or held by
\* exactly one call on every path out of withPage, and nobody queues while a
\* slot is free.  A lost slot would stall every later page fetch for good.
SlotAccounting ==
    /\ slots + Cardinality(Holders) = MaxPages
    /\ waiters # <<>> => slots = 0

\* A queued call is queued once, and only calls suspended in acquireSlot() are
\* in the queue: no resolve() callback is left behind or called twice.
QueueIsWaiting ==
    /\ \A c \in Callers : pc[c] = "waiting" <=> \E i \in DOMAIN waiters : waiters[i] = c
    /\ \A i, j \in DOMAIN waiters : waiters[i] = waiters[j] => i = j

\* FIFO: a call that never queued does not overtake the calls that did.
NoBarging ==
    [][\A c \in Callers : (pc[c] = "acquire" /\ pc'[c] = "holding") => waiters = <<>>]_vars

\* A launchPromise that is set is awaited by the call that will clear it, so a
\* rejected launch can never be the one every later call joins.
PromiseHasLeader ==
    launchPromise # None =>
        \E c \in Callers : pc[c] = "lead" /\ joined[c] = launchPromise

\* Header of the file: "One Chromium browser, one shared BrowserContext".  A close()
\* forgets the launch in flight, so this is said of the time before the first one.
OneBrowser ==
    (\A k \in Closers : closing[k] = "idle") =>
        Cardinality(running \cup {l \in Launches : launch[l] = "launching"}) <= 1

\* `this.context!` in withPage(): the context is never null when it is used.
ContextIsSet == \A c \in Callers : outcome[c] # "typeError"

\* Playwright's own timeout ends chromium.launch(), PAGE_LOAD_TIMEOUT_MS page.goto();
\* newContext(), addInitScript(), newPage(), page.content() and page.close() have
\* none.  That they do not hang is a premise, and no promise of the code.
NothingHangs ==
    /\ \A l \in Launches : SF_vars(LaunchSettles(l))
    /\ \A c \in Callers : SF_vars(PageSettles(c))

\* While the browser answers, every withPage() call settles, whatever fails under
\* it, dies or is closed.
EveryCallReturns ==
    NothingHangs => \A c \in Callers : (pc[c] # "idle") ~> (pc[c] = "idle")
=============================================================================
