------------------------- MODULE ServerLifecycle_proofs -------------------------
(***************************************************************************)
(* Theorems about ServerLifecycle, for every number of signals, on POSIX   *)
(* and on Windows.                                                         *)
(***************************************************************************)
EXTENDS ServerLifecycle, FiniteSetTheorems, TLAPS

\* Every closer() is the work of a signal or message, and none is created twice.
Counted ==
    /\ closers \in [{"watcher", "driver"} -> Nat]
    /\ ipc \in Nat /\ sent \in 0..MaxSignals
    /\ pending \subseteq Signals
    /\ closers["watcher"] + closers["driver"] + ipc + Cardinality(pending) <= sent

\* TypeOK without the numbers, the Booleans apart.
Flags ==
    /\ windows \in BOOLEAN
    /\ browser \in BOOLEAN /\ record \in BOOLEAN
    /\ grace \in BOOLEAN /\ stdin \in BOOLEAN

Typed ==
    /\ Flags
    /\ main \in {"opening", "building", "connected", "serving"}
    /\ driver \in {None, "gated", "ungated"}
    /\ install \in {"probing", "installing", "ready", "failed"}
    /\ watcher \in {"none", "watching"}
    /\ cache \in {"none", "open", "closed"}
    /\ exit \in Ends \cup {None}
    /\ wrapper \in {None, 0, 1, 129, 130, 143}

\* A closer runs only after the whole boot, without the instance record, and waits
\* for the driver only when the watcher has stopped; nothing starts it again.  What
\* each end with exit code 0 leaves behind stays as it is.
Shutdown ==
    /\ closers["watcher"] > 0 \/ closers["driver"] > 0 => main = "serving" /\ ~record
    /\ closers["driver"] > 0 => watcher = "none"
    /\ cache = "closed" => exit = "closed"
    /\ exit = "closed" => main = "serving" /\ ~record /\ watcher = "none" /\ cache = "closed"
    /\ exit = "threw" => main = "serving" /\ ~record
    /\ exit = "drained" => main = "serving" /\ ~stdin /\ ~browser /\ watcher = "none"
    /\ wrapper # None => exit # None /\ wrapper = ExitCode(exit)

IInv == Typed /\ Counted /\ Shutdown

-----------------------------------------------------------------------------
LEMMA SignalsFinite == \A S \in SUBSET Signals : IsFiniteSet(S) /\ Cardinality(S) \in Nat
<1>1. IsFiniteSet({"SIGTERM"} \cup {"SIGINT"} \cup {"SIGHUP"})
    BY FS_EmptySet, FS_Singleton, FS_Union
<1>2. Signals \subseteq {"SIGTERM"} \cup {"SIGINT"} \cup {"SIGHUP"}
    BY SignalsAssumption
<1> QED
    BY <1>1, <1>2, FS_Subset, FS_CardinalityType

LEMMA CodeType == \A e \in Ends : ExitCode(e) \in {0, 1, 129, 130, 143}
    BY DEF ExitCode

LEMMA InitIInv == Init => IInv
<1> SUFFICES ASSUME Init PROVE IInv
    OBVIOUS
<1>1. Cardinality(pending) = 0
    BY FS_EmptySet DEF Init
<1>2. Typed
    <2>1. Flags
        BY DEF Init, Flags
    <2> QED
        BY <2>1 DEF Init, Typed
<1>3. Counted
    <2>1. closers["watcher"] = 0 /\ closers["driver"] = 0 /\ closers \in [{"watcher", "driver"} -> Nat]
        BY DEF Init
    <2> QED
        BY <1>1, <2>1, BoundAssumption DEF Init, Counted
<1>4. Shutdown
    BY NoneAssumption DEF Init, Shutdown, Ends
<1> QED
    BY <1>2, <1>3, <1>4 DEF IInv

-----------------------------------------------------------------------------
(* The steps                                                               *)

\* CloserStarts adds one closer, where the watcher is.
LEMMA CloserStartsKeeps ==
    ASSUME IInv, main = "serving", Running, CloserStarts, UNCHANGED <<main, exit, wrapper>>
    PROVE  /\ Typed' => Shutdown'
           /\ closers' \in [{"watcher", "driver"} -> Nat]
           /\ closers'["watcher"] + closers'["driver"] = closers["watcher"] + closers["driver"] + 1
<1> DEFINE w == IF watcher = "watching" THEN "watcher" ELSE "driver"
<1>1. /\ w \in {"watcher", "driver"}
      /\ closers' = [closers EXCEPT ![w] = @ + 1] /\ ~record'
      /\ UNCHANGED <<main, watcher, cache>>
    BY DEF CloserStarts
<1>2. closers \in [{"watcher", "driver"} -> Nat]
    BY DEF IInv, Counted
<1>3. w = "driver" => watcher = "none"
    BY DEF IInv, Typed
<1> HIDE DEF w
<1>4. /\ closers' \in [{"watcher", "driver"} -> Nat]
      /\ closers'["watcher"] + closers'["driver"] = closers["watcher"] + closers["driver"] + 1
      /\ closers'["driver"] > 0 => closers["driver"] > 0 \/ w = "driver"
    BY <1>1, <1>2
<1>5. Shutdown'
    <2>1. exit' \notin {"closed", "threw", "drained"} /\ cache' # "closed"
        BY <1>1, NoneAssumption DEF Running, Ends, IInv, Shutdown
    <2> QED
        BY <1>1, <1>3, <1>4, <2>1 DEF Running, IInv, Shutdown
<1> QED
    BY <1>4, <1>5

LEMMA BootSteps ==
    ASSUME IInv, InstallSucceeds \/ ProbeFails \/ InstallFails \/ Boot \/ ToolCallLaunches
    PROVE  IInv'
<1>1. Running /\ UNCHANGED <<closers, channel, wrapper>>
    BY DEF InstallSucceeds, ProbeFails, InstallFails, Boot, ClientMade, Connected, Serves,
        MainRejects, ToolCallLaunches
<1>2. Flags'
    BY DEF IInv, Typed, Flags, InstallSucceeds, ProbeFails, InstallFails, Boot, ClientMade,
        Connected, Serves, MainRejects, ToolCallLaunches, boot, resources, channel
<1>3. Typed'
    BY <1>2
    DEF IInv, Typed, InstallSucceeds, ProbeFails, InstallFails, Boot, ClientMade, Connected,
        Serves, MainRejects, ToolCallLaunches, Singleton, Ends, resources, channel, boot
<1>4. Counted'
    BY <1>1 DEF IInv, Counted, channel
<1>5. wrapper = None
    BY <1>1 DEF IInv, Shutdown, Running
<1>6. Shutdown'
    <2>1. CASE InstallSucceeds \/ ProbeFails \/ InstallFails \/ MainRejects \/ ToolCallLaunches
        <3>1. UNCHANGED <<main, resources>> /\ exit' \in {exit, "rejected", "unhandled"}
            BY <2>1 DEF InstallSucceeds, ProbeFails, InstallFails, MainRejects, ToolCallLaunches, boot
        <3>2. exit' \notin {"closed", "threw", "drained"} /\ cache # "closed"
            BY <1>1, <3>1, NoneAssumption DEF IInv, Shutdown, Running, Ends
        <3> QED
            BY <1>1, <1>5, <3>1, <3>2 DEF IInv, Shutdown, resources
    <2>2. CASE ClientMade \/ Connected \/ Serves
        <3>1. exit' = exit /\ main # "serving" /\ cache' \in {cache, "open"}
            BY <2>2 DEF ClientMade, Connected, Serves
        <3>2. ~(closers["watcher"] > 0) /\ ~(closers["driver"] > 0)
            BY <3>1 DEF IInv, Shutdown
        <3> QED
            BY <1>1, <1>5, <3>1, <3>2, NoneAssumption DEF IInv, Shutdown, Running, Ends
    <2> QED
        BY <2>1, <2>2 DEF Boot
<1> QED
    BY <1>3, <1>4, <1>6 DEF IInv

LEMMA CloserSteps ==
    ASSUME IInv, WatcherStops \/ DriverCloses \/ CloserThrows
    PROVE  IInv'
<1>1. Running /\ UNCHANGED <<boot, record, channel, wrapper>> /\ wrapper = None
    BY DEF WatcherStops, DriverCloses, CloserThrows, resources, IInv, Shutdown, Running
<1>2. closers \in [{"watcher", "driver"} -> Nat]
    BY DEF IInv, Counted
<1>3. CASE WatcherStops
    <2>1. /\ closers["watcher"] > 0 /\ UNCHANGED <<cache, exit>> /\ watcher' = "none"
          /\ closers' = [closers EXCEPT !["watcher"] = closers["watcher"] - 1,
                                        !["driver"] = closers["driver"] + 1]
        BY <1>3 DEF WatcherStops
    <2>2. /\ closers' \in [{"watcher", "driver"} -> Nat]
          /\ closers'["watcher"] + closers'["driver"] = closers["watcher"] + closers["driver"]
        BY <1>2, <2>1
    <2>3. Counted'
        BY <1>1, <1>2, <2>2, SignalsFinite DEF IInv, Counted, channel
    <2>4. Typed' /\ Shutdown'
        BY <1>1, <2>1 DEF IInv, Typed, Flags, Shutdown, boot, channel, Running
    <2> QED
        BY <2>3, <2>4 DEF IInv
<1>4. CASE DriverCloses
    <2>1. closers["driver"] > 0 /\ cache' = "closed" /\ exit' = "closed" /\ UNCHANGED <<watcher, closers>>
        BY <1>4 DEF DriverCloses
    <2> QED
        BY <1>1, <2>1 DEF IInv, Typed, Flags, Counted, Shutdown, boot, channel, Ends
<1>5. CASE CloserThrows
    <2>1. /\ closers["watcher"] > 0 \/ closers["driver"] > 0
          /\ exit' = "threw" /\ UNCHANGED <<resources, closers>> /\ cache # "closed"
        BY <1>1, <1>5, NoneAssumption DEF CloserThrows, IInv, Shutdown, Running, Ends
    <2> QED
        BY <1>1, <2>1
        DEF IInv, Typed, Flags, Counted, Shutdown, boot, channel, resources, Ends
<1> QED
    BY <1>3, <1>4, <1>5

\* The loop drains only when no closer waits.
LEMMA DrainStep ==
    ASSUME IInv, LoopDrains
    PROVE  IInv'
<1>1. /\ Running /\ exit' = "drained" /\ wrapper = None
      /\ UNCHANGED <<boot, resources, closers, channel, wrapper>>
      /\ main = "serving" /\ ~stdin /\ ~browser /\ watcher # "watching"
    BY DEF LoopDrains, Busy, IInv, Shutdown, Running
<1>2. cache # "closed" /\ watcher = "none"
    BY <1>1, NoneAssumption DEF IInv, Typed, Shutdown, Running, Ends
<1> QED
    BY <1>1, <1>2 DEF IInv, Typed, Flags, Counted, Shutdown, boot, channel, resources, Ends

LEMMA TakesSignalStep ==
    ASSUME IInv, NEW s \in Signals, TakesSignal(s)
    PROVE  IInv'
<1>1. /\ Running /\ s \in pending /\ pending' = pending \ {s} /\ pending' \subseteq Signals
      /\ UNCHANGED <<main, driver, install, stdin, ipc, grace, sent, windows, wrapper>>
      /\ wrapper = None /\ browser' \in {browser, FALSE}
    BY DEF TakesSignal, IInv, Counted, Shutdown, Running
<1>2. Cardinality(pending') = Cardinality(pending) - 1 /\ Cardinality(pending) \in Nat
    BY <1>1, SignalsFinite, FS_RemoveElement DEF IInv, Counted
<1>3. CASE exit' = s /\ UNCHANGED <<resources, closers>>
    <2>1. s \notin {"closed", "threw", "drained"} /\ s \in Ends
        BY SignalsAssumption DEF Ends
    <2>2. cache # "closed"
        BY <1>1, NoneAssumption DEF IInv, Shutdown, Running, Ends
    <2>3. Typed'
        <3>1. Flags'
            BY <1>1, <1>3 DEF IInv, Typed, Flags, resources
        <3> QED
            BY <1>1, <1>3, <2>1, <3>1 DEF IInv, Typed, resources
    <2>4. Counted'
        BY <1>1, <1>2, <1>3 DEF IInv, Counted
    <2>5. Shutdown'
        BY <1>1, <1>3, <2>1, <2>2 DEF IInv, Shutdown, resources
    <2> QED
        BY <2>3, <2>4, <2>5 DEF IInv
<1>4. CASE UNCHANGED exit /\ UNCHANGED <<resources, closers>>
    <2>1. exit' \notin {"closed", "threw", "drained"}
        BY <1>1, <1>4, NoneAssumption DEF Running, Ends
    <2>2. Typed'
        <3>1. Flags'
            BY <1>1, <1>4 DEF IInv, Typed, Flags, resources
        <3> QED
            BY <1>1, <1>4, <3>1 DEF IInv, Typed, resources
    <2>3. Counted'
        BY <1>1, <1>2, <1>4 DEF IInv, Counted
    <2>4. Shutdown'
        BY <1>1, <1>4, <2>1 DEF IInv, Shutdown, resources
    <2> QED
        BY <2>2, <2>3, <2>4 DEF IInv
<1>5. CASE UNCHANGED exit /\ main = "serving" /\ CloserStarts
    <2>1. Flags'
        BY <1>1, <1>5 DEF CloserStarts, IInv, Typed, Flags
    <2>2. Typed'
        BY <1>1, <1>5, <2>1 DEF CloserStarts, IInv, Typed
    <2> QED
        BY <1>1, <1>2, <1>5, <2>2, CloserStartsKeeps DEF IInv, Counted
<1> QED
    BY <1>3, <1>4, <1>5 DEF TakesSignal

LEMMA WrapperSteps ==
    ASSUME IInv, TakesMessage \/ GraceElapses \/ WrapperExits \/ ClientLeaves
                 \/ \E s \in Signals : ClientSignals(s)
    PROVE  IInv'
<1>0. Cardinality(pending) \in Nat
    BY SignalsFinite DEF IInv, Counted
<1>1. CASE TakesMessage
    <2>1. /\ Running /\ main = "serving" /\ CloserStarts /\ ipc > 0 /\ ipc' = ipc - 1
          /\ UNCHANGED <<boot, exit, stdin, pending, grace, sent, windows, wrapper>>
        BY <1>1 DEF TakesMessage
    <2>2. Flags'
        BY <2>1 DEF CloserStarts, IInv, Typed, Flags, boot
    <2>3. Typed'
        BY <2>1, <2>2 DEF CloserStarts, IInv, Typed, boot
    <2> QED
        BY <1>0, <2>1, <2>3, CloserStartsKeeps DEF IInv, Counted, boot
<1>2. CASE GraceElapses
    <2>1. /\ exit' = "killed" /\ grace' = FALSE /\ Running
          /\ UNCHANGED <<boot, resources, closers, stdin, pending, ipc, sent, windows, wrapper>>
        BY <1>2 DEF GraceElapses
    <2>2. Flags'
        BY <2>1 DEF IInv, Typed, Flags, boot, resources
    <2>3. Typed' /\ Counted'
        BY <2>1, <2>2 DEF IInv, Typed, Counted, boot, resources, Ends
    <2>4. cache # "closed" /\ wrapper = None
        BY <2>1, NoneAssumption DEF IInv, Shutdown, Running, Ends
    <2>5. Shutdown'
        BY <2>1, <2>4 DEF IInv, Shutdown, boot, resources
    <2> QED
        BY <2>3, <2>5 DEF IInv
<1>3. CASE WrapperExits
    <2>1. exit \in Ends /\ wrapper' = ExitCode(exit) /\ UNCHANGED <<boot, resources, closers, exit, channel>>
        BY <1>3 DEF WrapperExits, Running, IInv, Typed
    <2> QED
        BY <1>3, <2>1, CodeType
        DEF IInv, Typed, Flags, Counted, Shutdown, boot, resources, channel, WrapperExits, Running
<1>4. ASSUME NEW s \in Signals, ClientSignals(s) PROVE IInv'
    <2>1. sent < MaxSignals /\ sent' = sent + 1 /\ UNCHANGED <<boot, resources, closers, exit, stdin, windows, wrapper>>
        BY <1>4 DEF ClientSignals
    <2>2. grace' \in BOOLEAN
        BY <1>4 DEF ClientSignals, Forwards, IInv, Typed, Flags
    <2>3. /\ ipc' \in Nat /\ pending' \subseteq Signals
          /\ ipc' + Cardinality(pending') <= ipc + Cardinality(pending) + 1
        <3>1. CASE windows
            BY <1>0, <1>4, <3>1 DEF ClientSignals, Forwards, IInv, Counted
        <3>2. CASE ~windows
            <4>1. pending' = pending \cup {s} /\ ipc' = ipc /\ IsFiniteSet(pending)
                BY <1>4, <3>2, SignalsFinite DEF ClientSignals, Forwards, IInv, Counted
            <4>2. Cardinality(pending \cup {s}) \in {Cardinality(pending), Cardinality(pending) + 1}
                BY <4>1, FS_AddElement
            <4> QED
                BY <1>0, <4>1, <4>2 DEF IInv, Counted
        <3> QED
            BY <3>1, <3>2
    <2>4. Cardinality(pending') \in Nat
        BY <2>3, SignalsFinite
    <2>5. Counted'
        BY <1>0, <2>1, <2>3, <2>4, BoundAssumption DEF IInv, Counted
    <2>6. Typed' /\ Shutdown'
        BY <2>1, <2>2 DEF IInv, Typed, Flags, Shutdown, boot, resources
    <2> QED
        BY <2>5, <2>6 DEF IInv
<1>5. CASE ClientLeaves
    <2>1. stdin' = FALSE /\ UNCHANGED <<boot, resources, closers, exit, pending, ipc, grace, sent,
                                       windows, wrapper>>
        BY <1>5 DEF ClientLeaves
    <2>2. Typed'
        <3>1. Flags'
            BY <2>1 DEF IInv, Typed, Flags, boot, resources
        <3> QED
            BY <2>1, <3>1 DEF IInv, Typed, boot, resources
    <2>3. Counted'
        BY <2>1 DEF IInv, Counted
    <2>4. Shutdown'
        BY <2>1 DEF IInv, Shutdown, boot, resources
    <2> QED
        BY <2>2, <2>3, <2>4 DEF IInv
<1> QED
    BY <1>1, <1>2, <1>3, <1>4, <1>5

-----------------------------------------------------------------------------
(* The theorems                                                            *)

LEMMA NextIInv == IInv /\ [Next]_vars => IInv'
<1> SUFFICES ASSUME IInv, [Next]_vars PROVE IInv'
    OBVIOUS
<1>1. CASE UNCHANGED vars
    BY <1>1 DEF vars, boot, resources, channel, IInv, Typed, Flags, Counted, Shutdown
<1> QED
    BY <1>1, BootSteps, CloserSteps, DrainStep, TakesSignalStep, WrapperSteps DEF Next

\* The inductive invariant holds of every boot, service and shutdown.
THEOREM LifecycleIInv == Spec => []IInv
    BY InitIInv, NextIInv, PTL DEF Spec

\* Every variable keeps its type: never are there more closers than signals sent.
THEOREM LifecycleTypeOK == Spec => []TypeOK
<1>1. IInv => TypeOK
    <2> SUFFICES ASSUME IInv PROVE TypeOK
        OBVIOUS
    <2>1. Cardinality(pending) \in Nat
        BY SignalsFinite DEF IInv, Counted
    <2>2. /\ closers["watcher"] \in 0..MaxSignals /\ closers["driver"] \in 0..MaxSignals
          /\ ipc \in 0..MaxSignals
        BY <2>1, BoundAssumption DEF IInv, Counted
    <2> QED
        BY <2>2 DEF IInv, Typed, Flags, Counted, TypeOK
<1> QED
    BY <1>1, LifecycleIInv, PTL

\* However many closers race, the watcher has stopped when cache.close() runs.
THEOREM LifecycleQuiescentClose == Spec => []QuiescentClose
<1>1. IInv => QuiescentClose
    BY NoneAssumption DEF IInv, Shutdown, QuiescentClose, Running, Ends
<1> QED
    BY <1>1, LifecycleIInv, PTL

\* The wrapper's exit code 0 means that nothing cut the server off, whatever signals
\* came when: everything was released, a closer() threw after removing the record,
\* or the client left and nothing that writes ran.
THEOREM LifecycleZeroMeansEnded == Spec => []ZeroMeansEnded
<1>1. IInv => ZeroMeansEnded
    <2> SUFFICES ASSUME IInv, wrapper = 0 PROVE ZeroMeansEnded
        BY DEF ZeroMeansEnded
    <2>1. exit \in {"closed", "threw", "drained"}
        BY NoneAssumption DEF IInv, Typed, Shutdown, ExitCode, Ends
    <2> QED
        BY <2>1 DEF IInv, Shutdown, ZeroMeansEnded
<1> QED
    BY <1>1, LifecycleIInv, PTL
=============================================================================
