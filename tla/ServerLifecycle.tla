---------------------------- MODULE ServerLifecycle ----------------------------
(***************************************************************************)
(* Boot and shutdown of the server process: main() and its closer of       *)
(* src/src/index.ts, the driver singleton that buildServer() creates, the  *)
(* Chromium install that runs beside the boot, and the heap-cap wrapper of *)
(* src/src/heap_cap.ts, which is the parent of the process and forwards    *)
(* signals to it.                                                          *)
(*                                                                         *)
(* main() runs from await to await; a signal, a message or a settled       *)
(* promise is handled between two of its steps.                            *)
(***************************************************************************)
EXTENDS Naturals, FiniteSets

CONSTANTS
    Signals,    \* those the client sends, of SIGTERM, SIGINT and SIGHUP
    MaxSignals, \* bound: how many signals the client sends
    None        \* JavaScript null

ASSUME SignalsAssumption == Signals \subseteq {"SIGTERM", "SIGINT", "SIGHUP"}
ASSUME BoundAssumption == MaxSignals \in Nat

VARIABLES
    windows,  \* TRUE on win32
    main,     \* the await of main() that is pending, or "serving" after the last
    driver,   \* None, or whether the singleton was made with playwrightReady
    install,  \* playwrightReady
    browser,  \* TRUE once a tool call has started Chromium
    record,   \* TRUE while instances/<pid>.json is there
    watcher,  \* the manifest watcher
    cache,    \* built.cache
    closers,  \* the executions of closer(), by the await that is pending
    exit,     \* None, or how the process ended
    stdin,    \* TRUE until the client closes its end of the pipe
    pending,  \* signals the kernel holds for the process
    ipc,      \* shutdown messages the process has not received
    grace,    \* TRUE while the force-kill timer of the wrapper runs
    sent,     \* signals the client has sent
    wrapper   \* None, or the exit code of the wrapper

boot == <<main, driver, install, browser>>
resources == <<record, watcher, cache>>
channel == <<stdin, pending, ipc, grace, sent, windows>>
vars == <<boot, resources, closers, exit, channel, wrapper>>

Ends == {"closed", "threw", "drained", "rejected", "unhandled", "killed"} \cup Signals

ASSUME NoneAssumption ==
    None \notin Ends \cup {"gated", "ungated"} /\ None \notin {0, 1, 129, 130, 143}

TypeOK ==
    /\ main \in {"opening", "building", "connected", "serving"}
    /\ driver \in {None, "gated", "ungated"}
    /\ install \in {"probing", "installing", "ready", "failed"}
    /\ windows \in BOOLEAN
    /\ browser \in BOOLEAN /\ record \in BOOLEAN
    /\ grace \in BOOLEAN /\ stdin \in BOOLEAN
    /\ watcher \in {"none", "watching"}
    /\ cache \in {"none", "open", "closed"}
    /\ closers \in [{"watcher", "driver"} -> 0..MaxSignals]
    /\ exit \in Ends \cup {None}
    /\ pending \subseteq Signals
    /\ ipc \in 0..MaxSignals
    /\ sent \in 0..MaxSignals
    /\ wrapper \in {None, 0, 1, 129, 130, 143}

Init ==
    /\ windows \in BOOLEAN
    /\ main = "opening"
    /\ driver = None
    /\ install = "probing"
    /\ browser = FALSE
    /\ record = FALSE
    /\ watcher = "none"
    /\ cache = "none"
    /\ closers = [await \in {"watcher", "driver"} |-> 0]
    /\ exit = None
    /\ stdin = TRUE
    /\ pending = {}
    /\ ipc = 0
    /\ grace = FALSE
    /\ sent = 0
    /\ wrapper = None

Running == exit = None

-----------------------------------------------------------------------------
(* main(): ensurePlaywright() beside the boot                              *)

\* The sentinel matches or Chromium starts, at once or after the install.
InstallSucceeds ==
    /\ Running
    /\ install \in {"probing", "installing"}
    /\ install' = "ready"
    /\ UNCHANGED <<main, driver, browser, resources, closers, exit, channel, wrapper>>

ProbeFails ==
    /\ Running
    /\ install = "probing"
    /\ install' = "installing"
    /\ UNCHANGED <<main, driver, browser, resources, closers, exit, channel, wrapper>>

\* npx fails or overruns its time, or Chromium does not start after it.  The
\* .catch() of main() logs the error and throws it again, and Node ends the
\* process on a rejection that nobody observes.
InstallFails ==
    /\ Running
    /\ install = "installing"
    /\ install' = "failed"
    /\ exit' = IF driver = "gated" THEN exit ELSE "unhandled"
    /\ UNCHANGED <<main, driver, browser, resources, closers, channel, wrapper>>

-----------------------------------------------------------------------------
(* main(): the boot                                                        *)

\* getPlaywrightDriver(readyPromise): the argument counts on the first call only.
Singleton(d, gated) ==
    IF d # None THEN d ELSE IF gated THEN "gated" ELSE "ungated"

\* Auto-reindex, Cache.open(), and getCodeWikiClient() in buildServer().
ClientMade ==
    /\ Running
    /\ main = "opening"
    /\ main' = "building"
    /\ driver' = Singleton(driver, FALSE)
    /\ cache' = "open"
    /\ UNCHANGED <<install, browser, record, watcher, closers, exit, channel, wrapper>>

\* server.connect(), registerInstance() and the heartbeat.
Connected ==
    /\ Running
    /\ main = "building"
    /\ main' = "connected"
    /\ driver' = Singleton(driver, TRUE)
    /\ record' \in BOOLEAN \* the cache directory may not be writable
    /\ UNCHANGED <<install, browser, watcher, cache, closers, exit, channel, wrapper>>

\* The modules are imported, the project is scanned, the watcher starts if there
\* is a manifest, and closer() is installed as the handler of SIGINT and SIGTERM.
Serves ==
    /\ Running
    /\ main = "connected"
    /\ main' = "serving"
    /\ watcher' \in {"none", "watching"}
    /\ UNCHANGED <<driver, install, browser, record, cache, closers, exit, channel, wrapper>>

\* main().catch(): exit code 1.
MainRejects ==
    /\ Running
    /\ main \in {"opening", "building"}
    /\ exit' = "rejected"
    /\ UNCHANGED <<boot, resources, closers, channel, wrapper>>

\* A tool call reaches withPage(): ensureLaunched() waits for the promise the
\* driver was made with.
ToolCallLaunches ==
    /\ Running
    /\ main \in {"connected", "serving"}
    /\ ~browser
    /\ driver = "gated" => install = "ready"
    /\ browser' = TRUE
    /\ UNCHANGED <<main, driver, install, resources, closers, exit, channel, wrapper>>

-----------------------------------------------------------------------------
(* closer()                                                                *)

\* Mutant: the cache is torn down with the heartbeat and the instance record.
CloserStartsWithCache ==
    /\ record' = FALSE
    /\ cache' = "closed"
    /\ closers' = [closers EXCEPT ![IF watcher = "watching" THEN "watcher" ELSE "driver"] = @ + 1]
    /\ UNCHANGED watcher

\* Up to the first await: the heartbeat stops, the instance record is unlinked.
CloserStarts ==
    /\ record' = FALSE
    /\ closers' = [closers EXCEPT ![IF watcher = "watching" THEN "watcher" ELSE "driver"] = @ + 1]
    /\ UNCHANGED <<watcher, cache>>

WatcherStops ==
    /\ Running
    /\ closers["watcher"] > 0
    /\ watcher' = "none"
    /\ closers' = [closers EXCEPT !["watcher"] = @ - 1, !["driver"] = @ + 1]
    /\ UNCHANGED <<boot, record, cache, exit, channel, wrapper>>

\* driver.close() resolves; cache.close() and process.exit(0) follow at once.
DriverCloses ==
    /\ Running
    /\ closers["driver"] > 0
    /\ cache' = "closed"
    /\ exit' = "closed"
    /\ UNCHANGED <<boot, record, watcher, closers, channel, wrapper>>

\* watcher.stop(), driver.close() or cache.close() throws: the finally of closer()
\* still calls process.exit(0), and what comes after the throw is skipped.
CloserThrows ==
    /\ Running
    /\ closers["watcher"] > 0 \/ closers["driver"] > 0
    /\ exit' = "threw"
    /\ UNCHANGED <<boot, resources, closers, channel, wrapper>>

\* The process takes a signal.  Without a handler it ends there.  The driver
\* singleton installs one that closes the browser, if that does not hang; main()
\* installs closer() at its end.  Nothing handles SIGHUP.
TakesSignal(s) ==
    /\ Running
    /\ s \in pending
    /\ pending' = pending \ {s}
    /\ IF s = "SIGHUP" \/ driver = None
       THEN exit' = s /\ UNCHANGED <<browser, resources, closers>>
       ELSE /\ UNCHANGED exit
            /\ browser' \in {browser, FALSE}
            /\ IF main = "serving" THEN CloserStarts ELSE UNCHANGED <<resources, closers>>
    /\ UNCHANGED <<main, driver, install, stdin, ipc, grace, sent, windows, wrapper>>

\* process.on('message').  Messages wait until main() has installed the listener.
TakesMessage ==
    /\ Running
    /\ main = "serving"
    /\ ipc > 0
    /\ ipc' = ipc - 1
    /\ CloserStarts
    /\ UNCHANGED <<boot, exit, stdin, pending, grace, sent, windows, wrapper>>

-----------------------------------------------------------------------------
(* The natural end                                                         *)

\* The client disconnects without a signal.  Nothing reacts to the end of stdin.
ClientLeaves ==
    /\ wrapper = None
    /\ stdin
    /\ stdin' = FALSE
    /\ UNCHANGED <<boot, resources, closers, exit, pending, ipc, grace, sent, windows, wrapper>>

\* What holds the event loop: stdin, main(), the install, Chromium, the persistent
\* watch of chokidar, a closer(), and on Windows the listener for messages.  The
\* heartbeat is unref'd.
Busy ==
    \/ stdin \/ main # "serving" \/ windows
    \/ install \in {"probing", "installing"} \/ browser
    \/ watcher = "watching"
    \/ \E await \in {"watcher", "driver"} : closers[await] > 0

\* Nothing is left to wait for.  The beforeExit handler of the driver finds no
\* browser, and the process ends without closer(): the cache is open, the record there.
LoopDrains ==
    /\ Running
    /\ ~Busy
    /\ exit' = "drained"
    /\ UNCHANGED <<boot, resources, closers, channel, wrapper>>

-----------------------------------------------------------------------------
(* reexecWithHeapCap()                                                     *)

\* Mutant: the message is sent without the timer that kills after ipcGraceMs.
ForwardsWithoutGrace(s) ==
    IF windows THEN ipc' = ipc + 1 /\ UNCHANGED <<pending, grace>>
    ELSE pending' = pending \cup {s} /\ UNCHANGED <<ipc, grace>>

\* child.send() and the timer on Windows, child.kill(sig) elsewhere.
Forwards(s) ==
    IF windows THEN ipc' = ipc + 1 /\ grace' = TRUE /\ UNCHANGED pending
    ELSE pending' = pending \cup {s} /\ UNCHANGED <<ipc, grace>>

\* There is no SIGHUP on Windows.
ClientSignals(s) ==
    /\ wrapper = None
    /\ windows => s # "SIGHUP"
    /\ sent < MaxSignals
    /\ sent' = sent + 1
    /\ Forwards(s)
    /\ UNCHANGED <<boot, resources, closers, exit, stdin, windows, wrapper>>

\* child.kill() ends a process on Windows at once.
GraceElapses ==
    /\ Running
    /\ grace
    /\ grace' = FALSE
    /\ exit' = "killed"
    /\ UNCHANGED <<boot, resources, closers, stdin, pending, ipc, sent, windows, wrapper>>

\* Mutant: `exitFn(code ?? 0)` also when the child was killed.
CodeOnly(e) == IF e \in {"rejected", "unhandled"} THEN 1 ELSE 0

\* Mutant: the number of the signal without the 128.
SignalNumber(e) ==
    CASE e \in {"closed", "threw", "drained"} -> 0
      [] e \in {"rejected", "unhandled", "SIGHUP"} -> 1
      [] e = "SIGINT" -> 2
      [] OTHER -> 15

\* signalToExitCode(), or the code of the child.
ExitCode(e) ==
    CASE e \in {"closed", "threw", "drained"} -> 0
      [] e \in {"rejected", "unhandled"} -> 1
      [] e = "SIGHUP" -> 129
      [] e = "SIGINT" -> 130
      [] OTHER -> 143

WrapperExits ==
    /\ wrapper = None
    /\ ~Running
    /\ wrapper' = ExitCode(exit)
    /\ UNCHANGED <<boot, resources, closers, exit, channel>>

-----------------------------------------------------------------------------
Boot == ClientMade \/ Connected \/ Serves \/ MainRejects

Next ==
    \/ InstallSucceeds \/ ProbeFails \/ InstallFails
    \/ Boot
    \/ ToolCallLaunches
    \/ WatcherStops \/ DriverCloses \/ CloserThrows
    \/ ClientLeaves \/ LoopDrains
    \/ \E s \in Signals : ClientSignals(s) \/ TakesSignal(s)
    \/ TakesMessage
    \/ GraceElapses
    \/ WrapperExits

Spec == Init /\ [][Next]_vars

\* A timer fires and the exit of a child arrives.  Nothing else is assumed: the
\* boot may hang, and so may watcher.stop() and driver.close().
Fairness == WF_vars(GraceElapses) /\ WF_vars(WrapperExits)

FairSpec == Spec /\ Fairness

-----------------------------------------------------------------------------
(* Properties                                                              *)

\* Comment over closer(): "cache.close (sync) tears down SQLite last, against a
\* quiescent handle".  However many closers race, the watcher, whose events
\* write to the cache, is stopped when the cache is closed.  The watcher is the one
\* writer this looks at: closer() does not wait for the tool calls in flight.
QuiescentClose == cache = "closed" => watcher = "none" /\ ~Running

\* Exit code 0 of the wrapper tells a client that nothing cut the server off.  It
\* has three causes: an orderly shutdown that released everything; a closer() that
\* threw on its way, which has removed the instance record but may leave the cache
\* open; and a client that left a served process with nothing running that writes.
ZeroMeansEnded ==
    wrapper = 0 =>
        /\ main = "serving"
        /\ \/ ~record /\ watcher = "none" /\ cache = "closed"
           \/ ~record /\ exit = "threw"
           \/ ~stdin /\ ~browser /\ watcher = "none"

\* The wrapper forwards signals because otherwise "the child holds the MCP stdio
\* pipe open after a client disconnect" (heap_cap.ts).  On Windows a signal ends
\* the server even when its boot or its closer() hangs.
SignalEnds == (windows /\ sent > 0) ~> (wrapper # None)
=============================================================================
