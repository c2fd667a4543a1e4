------------------------ MODULE PlaywrightDriver_proofs ------------------------
(***************************************************************************)
(* Theorems about PlaywrightDriver, for every finite set of clients, every *)
(* set of launches and of close() calls, and every number of pages.        *)
(***************************************************************************)
EXTENDS PlaywrightDriver, FiniteSetTheorems, SequenceTheorems, TLAPS

HolderSteps == {"holding", "opening", "using"}

\* The inductive invariant: the number of free slots stays in its range because
\* slots are accounted for, and the queue is accounted for because a call is in
\* it once, exactly while it is suspended in acquireSlot().
IInv == TypeOK /\ SlotAccounting /\ QueueIsWaiting

LEMMA HoldersFinite ==
    /\ IsFiniteSet(Holders) /\ Cardinality(Holders) \in Nat
    BY CallersAssumption, FS_Subset, FS_CardinalityType DEF Holders

LEMMA InitIInv == Init => IInv
<1> SUFFICES ASSUME Init PROVE IInv
    OBVIOUS
<1>1. Holders = {}
    BY DEF Init, Holders
<1>2. TypeOK
    BY PagesAssumption, EmptySeq DEF Init, TypeOK, CallerSteps, Outcomes, LaunchSteps
<1>3. SlotAccounting
    BY <1>1, PagesAssumption, FS_EmptySet DEF Init, SlotAccounting
<1>4. QueueIsWaiting
    BY DEF Init, QueueIsWaiting
<1> QED
    BY <1>2, <1>3, <1>4 DEF IInv

-----------------------------------------------------------------------------
(* The semaphore                                                           *)

\* A step that neither takes nor returns a slot.
LEMMA SlotFrame ==
    ASSUME IInv, UNCHANGED slotVars, pc' \in [Callers -> CallerSteps],
           \A c \in Callers : pc[c] \in HolderSteps <=> pc'[c] \in HolderSteps,
           \A c \in Callers : pc[c] = "waiting" <=> pc'[c] = "waiting"
    PROVE  SlotAccounting' /\ QueueIsWaiting'
<1>1. Holders' = Holders
    BY DEF Holders, HolderSteps
<1> QED
    BY <1>1 DEF IInv, SlotAccounting, QueueIsWaiting, slotVars

\* The oldest waiter.
LEMMA HeadWaits ==
    ASSUME IInv, waiters # <<>>
    PROVE  /\ Head(waiters) \in Callers /\ pc[Head(waiters)] = "waiting"
           /\ Len(waiters) \in Nat \ {0} /\ DOMAIN waiters = 1..Len(waiters)
           /\ waiters[1] = Head(waiters)
<1>1. waiters \in Seq(Callers)
    BY DEF IInv, TypeOK
<1>2. Len(waiters) \in Nat \ {0} /\ DOMAIN waiters = 1..Len(waiters)
    BY <1>1, EmptySeq, LenProperties
<1>3. Head(waiters) = waiters[1] /\ 1 \in DOMAIN waiters
    BY <1>2
<1>4. Head(waiters) \in Callers
    BY <1>1, HeadTailProperties
<1> QED
    BY <1>2, <1>3, <1>4 DEF IInv, QueueIsWaiting

\* A call returns its slot, to nobody or to the oldest waiter.
LEMMA ReleaseKeeps ==
    ASSUME IInv, NEW c \in Callers, pc[c] \in HolderSteps, NEW r \in Outcomes,
           ReleaseSlot(c, r)
    PROVE  /\ slots' \in 0..MaxPages /\ waiters' \in Seq(Callers)
           /\ pc' \in [Callers -> CallerSteps] /\ outcome' \in [Callers -> Outcomes]
           /\ SlotAccounting' /\ QueueIsWaiting'
<1>0. /\ pc \in [Callers -> CallerSteps] /\ outcome \in [Callers -> Outcomes]
      /\ waiters \in Seq(Callers) /\ slots \in 0..MaxPages
    BY DEF IInv, TypeOK
<1>1. outcome' \in [Callers -> Outcomes]
    BY <1>0 DEF ReleaseSlot, EndCall
<1>2. /\ c \in Holders /\ Cardinality(Holders \ {c}) = Cardinality(Holders) - 1
      /\ Cardinality(Holders \ {c}) \in Nat
    <2>1. c \in Holders /\ IsFiniteSet(Holders \ {c})
        BY HoldersFinite, FS_RemoveElement DEF Holders, HolderSteps
    <2> QED
        BY <2>1, HoldersFinite, FS_RemoveElement, FS_CardinalityType
<1>3. slots + Cardinality(Holders) = MaxPages /\ Cardinality(Holders) \in Nat
    BY HoldersFinite DEF IInv, SlotAccounting
<1>4. CASE waiters = <<>>
    <2>1. pc' = [pc EXCEPT ![c] = "idle"] /\ waiters' = <<>> /\ slots' = slots + 1
        BY <1>4 DEF ReleaseSlot, EndCall, Shifted, SlotsAfterRelease
    <2>2. pc' \in [Callers -> CallerSteps]
        BY <1>0, <2>1 DEF CallerSteps
    <2>3. Holders' = Holders \ {c}
        BY <1>0, <2>1 DEF Holders
    <2>4. SlotAccounting' /\ slots' \in 0..MaxPages
        <3>1. slots' + Cardinality(Holders') = MaxPages
            BY <1>0, <1>2, <1>3, <2>1, <2>3
        <3> QED
            BY <1>0, <1>2, <2>1, <2>3, <3>1, PagesAssumption DEF SlotAccounting
    <2>5. QueueIsWaiting'
        BY <1>0, <1>4, <2>1 DEF IInv, QueueIsWaiting, HolderSteps
    <2> QED
        BY <1>1, <2>1, <2>2, <2>4, <2>5, EmptySeq
<1>5. CASE waiters # <<>>
    <2> DEFINE h == Head(waiters)
    <2>1. /\ h \in Callers /\ pc[h] = "waiting" /\ h # c
          /\ Len(waiters) \in Nat \ {0} /\ DOMAIN waiters = 1..Len(waiters) /\ waiters[1] = h
        BY <1>5, HeadWaits DEF HolderSteps
    <2>2. /\ pc' = [pc EXCEPT ![c] = "idle", ![h] = "holding"]
          /\ waiters' = Tail(waiters) /\ slots' = slots
        BY <1>5 DEF ReleaseSlot, EndCall, Shifted, SlotsAfterRelease
    <2>3. /\ waiters' \in Seq(Callers) /\ Len(waiters') = Len(waiters) - 1
          /\ \A i \in 1..Len(waiters') : waiters'[i] = waiters[i + 1]
        BY <1>0, <1>5, <2>2, HeadTailProperties
    <2>4. DOMAIN waiters' = 1..(Len(waiters) - 1)
        BY <2>3, LenProperties
    <2> HIDE DEF h
    <2>5. /\ pc' \in [Callers -> CallerSteps] /\ pc'[c] = "idle" /\ pc'[h] = "holding"
          /\ \A d \in Callers \ {c, h} : pc'[d] = pc[d]
        BY <1>0, <2>1, <2>2 DEF CallerSteps
    <2>6. h \notin Holders /\ Holders' = (Holders \ {c}) \cup {h}
        BY <1>0, <2>1, <2>5 DEF Holders
    <2>7. IsFiniteSet(Holders \ {c}) /\ h \notin Holders \ {c}
        BY <2>6, HoldersFinite, FS_RemoveElement
    <2>8. Cardinality(Holders') = Cardinality(Holders)
        BY <1>2, <1>3, <2>6, <2>7, FS_AddElement
    <2>9. SlotAccounting'
        BY <1>5, <2>2, <2>8 DEF IInv, SlotAccounting
    <2>10. \A i, j \in DOMAIN waiters' : waiters'[i] = waiters'[j] => i = j
        <3>1. SUFFICES ASSUME NEW i \in DOMAIN waiters', NEW j \in DOMAIN waiters',
                              waiters'[i] = waiters'[j]
                       PROVE  i = j
            OBVIOUS
        <3>2. i + 1 \in DOMAIN waiters /\ j + 1 \in DOMAIN waiters /\ waiters[i + 1] = waiters[j + 1]
            BY <2>1, <2>3, <2>4, <3>1
        <3>3. i + 1 = j + 1
            BY <3>2 DEF IInv, QueueIsWaiting
        <3> QED
            BY <2>1, <2>4, <3>3
    <2>11. ASSUME NEW d \in Callers
           PROVE  pc'[d] = "waiting" <=> \E i \in DOMAIN waiters' : waiters'[i] = d
        <3>1. ASSUME pc'[d] = "waiting" PROVE \E i \in DOMAIN waiters' : waiters'[i] = d
            <4>1. d # h /\ pc[d] = "waiting"
                BY <2>5, <3>1
            <4>2. PICK i \in DOMAIN waiters : waiters[i] = d
                BY <4>1 DEF IInv, QueueIsWaiting
            <4>3. i - 1 \in DOMAIN waiters' /\ (i - 1) + 1 = i
                BY <2>1, <2>4, <4>1, <4>2
            <4>4. waiters'[i - 1] = d
                BY <2>3, <2>4, <4>2, <4>3
            <4> QED
                BY <4>3, <4>4
        <3>2. ASSUME NEW i \in DOMAIN waiters', waiters'[i] = d PROVE pc'[d] = "waiting"
            <4>1. i + 1 \in DOMAIN waiters /\ waiters[i + 1] = d /\ i + 1 # 1
                BY <2>1, <2>3, <2>4, <3>2
            <4>2. pc[d] = "waiting"
                BY <4>1 DEF IInv, QueueIsWaiting
            <4>3. 1 \in DOMAIN waiters
                BY <2>1
            <4>4. d # h
                BY <2>1, <4>1, <4>3 DEF IInv, QueueIsWaiting
            <4> QED
                BY <2>5, <4>2, <4>4 DEF HolderSteps
        <3> QED
            BY <3>1, <3>2
    <2>12. QueueIsWaiting'
        BY <2>10, <2>11 DEF QueueIsWaiting
    <2> QED
        BY <1>0, <1>1, <2>2, <2>3, <2>5, <2>9, <2>12
<1> QED
    BY <1>4, <1>5

\* A call takes a free slot, or queues.
LEMMA AcquireKeeps ==
    ASSUME IInv, NEW c \in Callers, AcquireSlot(c)
    PROVE  /\ slots' \in 0..MaxPages /\ waiters' \in Seq(Callers)
           /\ pc' \in [Callers -> CallerSteps]
           /\ SlotAccounting' /\ QueueIsWaiting'
<1>0. /\ pc \in [Callers -> CallerSteps] /\ waiters \in Seq(Callers) /\ slots \in 0..MaxPages
      /\ pc[c] = "acquire" /\ slots \in Nat
    BY PagesAssumption DEF IInv, TypeOK, AcquireSlot
<1>1. c \notin Holders
    BY <1>0 DEF Holders
<1>2. CASE slots > 0
    <2>1. pc' = [pc EXCEPT ![c] = "holding"] /\ waiters' = waiters /\ slots' = slots - 1
        BY <1>2 DEF AcquireSlot
    <2>2. waiters = <<>>
        BY <1>2 DEF IInv, SlotAccounting
    <2>3. pc' \in [Callers -> CallerSteps] /\ Holders' = Holders \cup {c}
        BY <1>0, <2>1 DEF Holders, CallerSteps
    <2>4. Cardinality(Holders') = Cardinality(Holders) + 1
        BY <1>1, <2>3, HoldersFinite, FS_AddElement
    <2>5. SlotAccounting' /\ slots' \in 0..MaxPages
        BY <1>0, <1>2, <2>1, <2>2, <2>4, PagesAssumption, HoldersFinite DEF IInv, SlotAccounting
    <2>6. QueueIsWaiting'
        BY <1>0, <2>1, <2>2 DEF IInv, QueueIsWaiting
    <2> QED
        BY <1>0, <2>1, <2>3, <2>5, <2>6
<1>3. CASE ~(slots > 0)
    <2>1. pc' = [pc EXCEPT ![c] = "waiting"] /\ waiters' = Append(waiters, c) /\ slots' = slots
        BY <1>3 DEF AcquireSlot
    <2>2. /\ waiters' \in Seq(Callers) /\ Len(waiters') = Len(waiters) + 1 /\ Len(waiters) \in Nat
          /\ \A i \in 1..Len(waiters) : waiters'[i] = waiters[i]
          /\ waiters'[Len(waiters) + 1] = c
        BY <1>0, <2>1, AppendProperties, LenProperties
    <2>3. DOMAIN waiters = 1..Len(waiters) /\ DOMAIN waiters' = 1..(Len(waiters) + 1)
        BY <1>0, <2>2, LenProperties
    <2>4. pc' \in [Callers -> CallerSteps] /\ Holders' = Holders
        BY <1>0, <2>1 DEF Holders, CallerSteps
    <2>5. SlotAccounting'
        BY <1>0, <1>3, <2>1, <2>4 DEF IInv, SlotAccounting
    <2>6. \A i \in DOMAIN waiters : waiters[i] # c
        BY <1>0 DEF IInv, QueueIsWaiting
    <2>7. \A i, j \in DOMAIN waiters' : waiters'[i] = waiters'[j] => i = j
        <3>1. ASSUME NEW i \in DOMAIN waiters', NEW j \in DOMAIN waiters', waiters'[i] = waiters'[j]
              PROVE  i = j
            <4>1. CASE i \in DOMAIN waiters /\ j \in DOMAIN waiters
                BY <2>2, <2>3, <3>1, <4>1 DEF IInv, QueueIsWaiting
            <4>2. CASE i = Len(waiters) + 1 \/ j = Len(waiters) + 1
                BY <2>2, <2>3, <2>6, <3>1, <4>2
            <4> QED
                BY <2>2, <2>3, <4>1, <4>2
        <3> QED
            BY <3>1
    <2>8. ASSUME NEW d \in Callers
          PROVE  pc'[d] = "waiting" <=> \E i \in DOMAIN waiters' : waiters'[i] = d
        <3>1. CASE d = c
            <4>1. Len(waiters) + 1 \in DOMAIN waiters'
                BY <2>2, <2>3
            <4> QED
                BY <1>0, <2>1, <2>2, <3>1, <4>1
        <3>2. CASE d # c
            <4>1. pc'[d] = pc[d]
                BY <1>0, <2>1, <3>2
            <4>2. (\E i \in DOMAIN waiters' : waiters'[i] = d) <=> \E i \in DOMAIN waiters : waiters[i] = d
                BY <2>2, <2>3, <3>2
            <4> QED
                BY <4>1, <4>2 DEF IInv, QueueIsWaiting
        <3> QED
            BY <3>1, <3>2
    <2>9. QueueIsWaiting'
        BY <2>7, <2>8 DEF QueueIsWaiting
    <2> QED
        BY <1>0, <2>1, <2>2, <2>4, <2>5, <2>9
<1> QED
    BY <1>2, <1>3

-----------------------------------------------------------------------------
(* Every step                                                              *)

LEMMA NextIInv == IInv /\ [Next]_vars => IInv'
<1> SUFFICES ASSUME IInv, [Next]_vars PROVE IInv'
    OBVIOUS
<1> USE DEF driverVars, slotVars, callerVars, closerVars
\* The steps of the environment, of a launch and of close() move no call.
<1>1. ASSUME UNCHANGED <<slotVars, pc>>, TypeOK' PROVE IInv'
    BY <1>1, SlotFrame DEF IInv, TypeOK
<1>2. CASE InstallSettles
    BY <1>1, <1>2 DEF InstallSettles, IInv, TypeOK
<1>3. ASSUME NEW l \in Launches, BrowserDies(l) \/ LaunchSettles(l) PROVE IInv'
    <2>1. TypeOK'
        BY <1>3 DEF BrowserDies, LaunchSettles, BrowserLaunched, ContextCreated,
            ScriptInstalled, LaunchRejects, IInv, TypeOK, LaunchSteps
    <2> QED
        BY <1>1, <1>3, <2>1 DEF BrowserDies, LaunchSettles, BrowserLaunched, ContextCreated,
            ScriptInstalled, LaunchRejects
<1>4. ASSUME NEW S \in (SUBSET Callers) \ {{}}, Enter(S) PROVE IInv'
    <2>1. pc' \in [Callers -> CallerSteps] /\ outcome' \in [Callers -> Outcomes]
        BY <1>4 DEF Enter, IInv, TypeOK, CallerSteps, Outcomes
    <2>2. \A c \in Callers : /\ pc[c] \in HolderSteps <=> pc'[c] \in HolderSteps
                             /\ pc[c] = "waiting" <=> pc'[c] = "waiting"
        BY <1>4 DEF Enter, HolderSteps
    <2> QED
        BY <1>4, <2>1, <2>2, SlotFrame DEF Enter, IInv, TypeOK
<1>5. ASSUME NEW c \in Callers, GateRejects(c) \/ JoinLaunch(c) \/ StartLaunch(c) \/ LaunchAwaited(c)
      PROVE  IInv'
    <2>1. pc' \in [Callers -> CallerSteps] /\ outcome' \in [Callers -> Outcomes]
        BY <1>5 DEF GateRejects, JoinLaunch, StartLaunch, LaunchAwaited, IInv, TypeOK,
            CallerSteps, Outcomes
    <2>2. \A d \in Callers : /\ pc[d] \in HolderSteps <=> pc'[d] \in HolderSteps
                             /\ pc[d] = "waiting" <=> pc'[d] = "waiting"
        BY <1>5 DEF GateRejects, JoinLaunch, StartLaunch, LaunchAwaited, IInv, TypeOK, HolderSteps
    <2>3. /\ joined' \in [Callers -> Launches \cup {None}]
          /\ launch' \in [Launches -> LaunchSteps]
          /\ launchPromise' \in Launches \cup {None}
        BY <1>5 DEF GateRejects, JoinLaunch, StartLaunch, LaunchAwaited, JoinGuard,
            ClearedPromise, IInv, TypeOK, LaunchSteps
    <2>4. UNCHANGED <<ready, browser, context, running, slotVars, closerVars>>
        BY <1>5 DEF GateRejects, JoinLaunch, StartLaunch, LaunchAwaited
    <2> QED
        BY <2>1, <2>2, <2>3, <2>4, SlotFrame DEF IInv, TypeOK
<1>6. ASSUME NEW c \in Callers, AcquireSlot(c) PROVE IInv'
    BY <1>6, AcquireKeeps DEF AcquireSlot, IInv, TypeOK
<1>7. ASSUME NEW c \in Callers, NewPage(c) \/ PageOpens(c) PROVE IInv'
    <2>1. /\ pc' \in [Callers -> CallerSteps]
          /\ \A d \in Callers : /\ pc[d] \in HolderSteps <=> pc'[d] \in HolderSteps
                                /\ pc[d] = "waiting" <=> pc'[d] = "waiting"
        BY <1>7 DEF NewPage, PageOpens, IInv, TypeOK, CallerSteps, HolderSteps
    <2> QED
        BY <1>7, <2>1, SlotFrame DEF NewPage, PageOpens, IInv, TypeOK
<1>8. ASSUME NEW c \in Callers, NullContext(c) \/ PageFails(c) \/ PageDone(c) PROVE IInv'
    <2>1. PICK r \in Outcomes : ReleaseSlot(c, r)
        BY <1>8 DEF NullContext, PageFails, PageDone, Outcomes
    <2>2. pc[c] \in HolderSteps /\ UNCHANGED <<driverVars, joined, closerVars>>
        BY <1>8 DEF NullContext, PageFails, PageDone, HolderSteps
    <2> QED
        BY <2>1, <2>2, ReleaseKeeps DEF IInv, TypeOK
<1>9. ASSUME NEW k \in Closers, CloserStep(k) PROVE IInv'
    <2>1. TypeOK'
        BY <1>9 DEF CloserStep, Close, ContextClosed, BrowserClosed, ToBrowser, IInv, TypeOK
    <2> QED
        BY <1>1, <1>9, <2>1 DEF CloserStep, Close, ContextClosed, BrowserClosed, ToBrowser
<1>10. CASE UNCHANGED vars
    BY <1>1, <1>10 DEF vars, IInv, TypeOK
<1> QED
    BY <1>2, <1>3, <1>4, <1>5, <1>6, <1>7, <1>8, <1>9, <1>10 DEF Next, Resume, PageSettles

\* The inductive invariant holds in every state of every behaviour.
THEOREM DriverIInv == Spec => []IInv
    BY InitIInv, NextIInv, PTL DEF Spec

\* The state of the driver and of the calls under way keeps its type; the number
\* of free slots stays between none and maxConcurrentPages.
THEOREM DriverTypeOK == Spec => []TypeOK
<1>1. IInv => TypeOK
    BY DEF IInv
<1> QED
    BY <1>1, DriverIInv, PTL

\* No path through withPage(), failing or not, loses a slot or returns it twice.
THEOREM DriverSlotAccounting == Spec => []SlotAccounting
<1>1. IInv => SlotAccounting
    BY DEF IInv
<1> QED
    BY <1>1, DriverIInv, PTL

\* The queue holds the calls suspended in acquireSlot(), each of them once.
THEOREM DriverQueueIsWaiting == Spec => []QueueIsWaiting
<1>1. IInv => QueueIsWaiting
    BY DEF IInv
<1> QED
    BY <1>1, DriverIInv, PTL

-----------------------------------------------------------------------------
(* Order, and the launch promise                                           *)

\* A call that finds a free slot overtakes nobody: a slot is free only while the
\* queue is empty, and a returned slot goes to a call that has queued.
THEOREM DriverNoBarging == Spec => NoBarging
<1>1. ASSUME IInv, [Next]_vars, NEW c \in Callers, pc[c] = "acquire", pc'[c] = "holding"
      PROVE  waiters = <<>>
    <2>1. CASE AcquireSlot(c)
        <3>1. slots > 0
            BY <1>1, <2>1 DEF AcquireSlot, IInv, TypeOK
        <3> QED
            BY <1>1, <3>1 DEF IInv, SlotAccounting
    <2>2. ASSUME NEW d \in Callers, NEW r \in Outcomes, ReleaseSlot(d, r), waiters # <<>> PROVE FALSE
        <3>1. pc' = [pc EXCEPT ![d] = "idle", ![Head(waiters)] = "holding"]
            BY <2>2 DEF ReleaseSlot, EndCall
        <3>2. Head(waiters) # c /\ Head(waiters) \in Callers
            BY <1>1, <2>2, HeadWaits
        <3> QED
            BY <1>1, <3>1, <3>2 DEF IInv, TypeOK
    <2>3. CASE \E d \in Callers : NullContext(d) \/ PageFails(d) \/ PageDone(d)
        BY <2>2, <2>3 DEF NullContext, PageFails, PageDone, Outcomes
    <2>4. CASE \E d \in Callers : \/ GateRejects(d) \/ JoinLaunch(d) \/ StartLaunch(d) \/ LaunchAwaited(d)
                                  \/ d # c /\ AcquireSlot(d)
                                  \/ NewPage(d) \/ PageOpens(d)
        BY <1>1, <2>4 DEF GateRejects, JoinLaunch, StartLaunch, LaunchAwaited, AcquireSlot,
            NewPage, PageOpens, IInv, TypeOK
    <2>5. CASE \E S \in (SUBSET Callers) \ {{}} : Enter(S)
        BY <1>1, <2>5 DEF Enter
    <2>6. CASE UNCHANGED pc
        BY <1>1, <2>6
    <2> QED
        BY <1>1, <2>1, <2>3, <2>4, <2>5, <2>6 DEF Next, Resume, PageSettles, InstallSettles,
            BrowserDies, LaunchSettles, BrowserLaunched, ContextCreated, ScriptInstalled,
            LaunchRejects, CloserStep, Close, ContextClosed, BrowserClosed, vars, callerVars
<1>2. IInv /\ [Next]_vars =>
          [\A c \in Callers : (pc[c] = "acquire" /\ pc'[c] = "holding") => waiters = <<>>]_vars
    BY <1>1
<1> QED
    BY <1>2, DriverIInv, PTL DEF Spec, NoBarging

\* The promise of a launch is never left behind by the call that started it: it
\* is cleared when the launch ends, well or badly, and by close().
THEOREM DriverPromiseHasLeader == Spec => []PromiseHasLeader
<1>1. Init => PromiseHasLeader
    BY DEF Init, PromiseHasLeader
<1>2. ASSUME IInv, PromiseHasLeader, [Next]_vars PROVE PromiseHasLeader'
    <2> USE DEF driverVars, slotVars, callerVars, closerVars
    <2>1. ASSUME launchPromise' = launchPromise,
                 \A c \in Callers : pc[c] = "lead" => pc'[c] = "lead" /\ joined'[c] = joined[c]
          PROVE  PromiseHasLeader'
        BY <1>2, <2>1 DEF PromiseHasLeader
    <2>2. ASSUME launchPromise' = None PROVE PromiseHasLeader'
        BY <2>2 DEF PromiseHasLeader
    <2>3. CASE \E c \in Callers : StartLaunch(c)
        BY <1>2, <2>3 DEF StartLaunch, IInv, TypeOK, PromiseHasLeader
    <2>4. CASE \E c \in Callers : LaunchAwaited(c)
        <3>1. PICK c \in Callers : LaunchAwaited(c)
            BY <2>4
        <3>2. CASE pc[c] = "lead"
            BY <2>2, <3>1, <3>2 DEF LaunchAwaited, ClearedPromise
        <3>3. CASE pc[c] # "lead"
            BY <1>2, <2>1, <3>1, <3>3 DEF LaunchAwaited, IInv, TypeOK
        <3> QED
            BY <3>2, <3>3
    <2>5. CASE \E c \in Callers : \/ GateRejects(c) \/ JoinLaunch(c) \/ AcquireSlot(c)
                                  \/ NewPage(c) \/ PageOpens(c)
        BY <1>2, <2>1, <2>5 DEF GateRejects, JoinLaunch, AcquireSlot, NewPage, PageOpens, IInv, TypeOK
    <2>6. CASE \E c \in Callers : NullContext(c) \/ PageFails(c) \/ PageDone(c)
        <3>1. PICK c \in Callers, r \in Outcomes : ReleaseSlot(c, r) /\ pc[c] \in HolderSteps
            BY <2>6 DEF NullContext, PageFails, PageDone, Outcomes, HolderSteps
        <3>2. UNCHANGED <<launchPromise, joined>>
            BY <2>6 DEF NullContext, PageFails, PageDone
        <3>3. waiters # <<>> => Head(waiters) \in Callers /\ pc[Head(waiters)] = "waiting"
            BY <1>2, HeadWaits
        <3>4. \A d \in Callers : pc[d] = "lead" => pc'[d] = "lead"
            BY <1>2, <3>1, <3>3 DEF ReleaseSlot, EndCall, HolderSteps, IInv, TypeOK
        <3> QED
            BY <2>1, <3>2, <3>4
    <2>7. CASE \E S \in (SUBSET Callers) \ {{}} : Enter(S)
        BY <2>1, <2>7 DEF Enter
    <2>8. CASE \E k \in Closers : CloserStep(k)
        <3>1. launchPromise' \in {launchPromise, None} /\ UNCHANGED <<pc, joined>>
            BY <2>8 DEF CloserStep, Close, ContextClosed, BrowserClosed, ToBrowser
        <3> QED
            BY <2>1, <2>2, <3>1
    <2>9. CASE InstallSettles \/ (\E l \in Launches : BrowserDies(l) \/ LaunchSettles(l)) \/ UNCHANGED vars
        BY <2>1, <2>9 DEF InstallSettles, BrowserDies, LaunchSettles, BrowserLaunched,
            ContextCreated, ScriptInstalled, LaunchRejects, vars
    <2> QED
        BY <1>2, <2>3, <2>4, <2>5, <2>6, <2>7, <2>8, <2>9 DEF Next, Resume, PageSettles
<1> QED
    BY <1>1, <1>2, DriverIInv, PTL DEF Spec

-----------------------------------------------------------------------------
(* One Chromium                                                            *)

NoClose == \A k \in Closers : closing[k] = "idle"

\* Before the first close(), a Chromium that is being started is the one of the launch
\* promise, which one call leads; it was asked for when there was no browser, and while
\* there is one nobody stands at the gate behind which the next is started.
OneLaunch ==
    /\ \A l \in Launches : launch[l] = "launching" =>
          launchPromise = l /\ ready = "ready" /\ browser = None
    /\ running \subseteq {browser}
    /\ browser # None => \A c \in Callers : pc[c] # "gate"
    /\ \A c \in Callers : pc[c] = "lead" => launchPromise # None /\ joined[c] = launchPromise
    /\ \A c, d \in Callers : pc[c] = "lead" /\ pc[d] = "lead" => c = d

\* A step that starts no launch and no browser.
LEMMA LaunchFrame ==
    ASSUME IInv, OneLaunch, UNCHANGED <<browser, launchPromise, launch, ready>>,
           running' \subseteq running,
           \A c \in Callers : pc'[c] = "lead" => pc[c] = "lead" /\ joined'[c] = joined[c],
           \A c \in Callers : pc'[c] = "gate" => pc[c] = "gate" \/ browser = None
    PROVE  OneLaunch'
    BY DEF OneLaunch

LEMMA NextOneLaunch ==
    ASSUME IInv, NoClose => OneLaunch, [Next]_vars, NoClose'
    PROVE  OneLaunch'
<1> USE DEF driverVars, slotVars, callerVars, closerVars
<1>1. CASE \E k \in Closers : CloserStep(k)
    <2>1. PICK k \in Closers : CloserStep(k)
        BY <1>1
    <2>2. closing'[k] # "idle"
        BY <2>1 DEF CloserStep, Close, ContextClosed, BrowserClosed, ToBrowser, IInv, TypeOK
    <2> QED
        BY <2>2 DEF NoClose
<1>2. CASE ~ \E k \in Closers : CloserStep(k)
    <2>1. UNCHANGED closing
        BY <1>2 DEF Next, Resume, PageSettles, InstallSettles, BrowserDies, LaunchSettles,
            BrowserLaunched, ContextCreated, ScriptInstalled, LaunchRejects, Enter, GateRejects,
            JoinLaunch, StartLaunch, LaunchAwaited, AcquireSlot, NewPage, NullContext, PageOpens,
            PageFails, PageDone, vars
    <2>2. OneLaunch
        BY <2>1 DEF NoClose
    <2>3. CASE InstallSettles
        BY <2>2, <2>3 DEF InstallSettles, OneLaunch
    <2>4. CASE \E l \in Launches : BrowserDies(l)
        BY <2>2, <2>4, LaunchFrame DEF BrowserDies
    \* The event loop takes the event of a launch when no call is at an open gate.
    <2>5. ASSUME NEW l \in Launches, BrowserLaunched(l) PROVE OneLaunch'
        <3>1. browser = None /\ ready = "ready" /\ launchPromise = l /\ running = {}
            BY <2>2, <2>5, NoneAssumption DEF BrowserLaunched, OneLaunch, IInv, TypeOK
        <3>2. \A c \in Callers : pc[c] # "gate"
            BY <2>5, <3>1 DEF BrowserLaunched, Quiet, Microtask
        <3>3. /\ browser' = l /\ running' = {l} /\ UNCHANGED <<launchPromise, ready, pc, joined>>
              /\ launch' = [launch EXCEPT ![l] = "contexting"]
            BY <2>5, <3>1 DEF BrowserLaunched
        <3>4. \A k \in Launches : launch'[k] # "launching"
            BY <2>2, <3>1, <3>3 DEF OneLaunch, IInv, TypeOK
        <3> QED
            BY <2>2, <3>2, <3>3, <3>4 DEF OneLaunch
    <2>6. CASE \E l \in Launches : ContextCreated(l) \/ ScriptInstalled(l) \/ LaunchRejects(l)
        <3>1. \A l \in Launches : launch'[l] = "launching" => launch[l] = "launching"
            BY <2>6 DEF ContextCreated, ScriptInstalled, LaunchRejects, IInv, TypeOK
        <3>2. UNCHANGED <<ready, browser, launchPromise, running, pc, joined>>
            BY <2>6 DEF ContextCreated, ScriptInstalled, LaunchRejects
        <3> QED
            BY <2>2, <3>1, <3>2 DEF OneLaunch
    <2>7. CASE \E S \in (SUBSET Callers) \ {{}} : Enter(S)
        BY <2>2, <2>7, LaunchFrame DEF Enter
    <2>8. ASSUME NEW c \in Callers, StartLaunch(c) PROVE OneLaunch'
        <3>1. browser = None /\ launchPromise = None
            BY <2>2, <2>8 DEF StartLaunch, JoinGuard, OneLaunch
        <3>2. PICK l \in Launches : /\ launch' = [launch EXCEPT ![l] = "launching"]
                                    /\ launchPromise' = l
                                    /\ joined' = [joined EXCEPT ![c] = l]
            BY <2>8 DEF StartLaunch
        <3>3. \A k \in Launches : launch'[k] = "launching" => k = l
            BY <2>2, <3>1, <3>2, NoneAssumption DEF OneLaunch, IInv, TypeOK
        <3>4. \A d \in Callers : pc'[d] = "lead" => d = c
            BY <2>2, <2>8, <3>1 DEF StartLaunch, OneLaunch, IInv, TypeOK
        <3>5. joined'[c] = l /\ l # None
            BY <3>2, NoneAssumption DEF IInv, TypeOK
        <3>6. UNCHANGED <<browser, ready, running>> /\ ready = "ready"
            BY <2>8 DEF StartLaunch
        <3> QED
            BY <2>2, <3>1, <3>2, <3>3, <3>4, <3>5, <3>6 DEF OneLaunch
    <2>9. ASSUME NEW c \in Callers, LaunchAwaited(c) PROVE OneLaunch'
        <3>1. /\ UNCHANGED <<browser, launch, ready, running>>
              /\ \A d \in Callers : pc'[d] = "lead" => d # c /\ pc[d] = "lead" /\ joined'[d] = joined[d]
              /\ \A d \in Callers : pc'[d] = "gate" => pc[d] = "gate"
            BY <2>9 DEF LaunchAwaited, IInv, TypeOK
        <3>2. CASE pc[c] = "lead"
            <4>1. launchPromise' = None /\ launchPromise = joined[c] /\ Settled(joined[c])
                BY <2>2, <2>9, <3>2 DEF LaunchAwaited, ClearedPromise, OneLaunch
            <4>2. \A l \in Launches : launch[l] # "launching"
                BY <2>2, <4>1 DEF OneLaunch, Settled
            <4>3. \A d \in Callers : pc'[d] # "lead"
                BY <2>2, <3>1, <3>2 DEF OneLaunch
            <4> QED
                BY <2>2, <3>1, <4>2, <4>3 DEF OneLaunch
        <3>3. CASE pc[c] # "lead"
            <4>1. launchPromise' = launchPromise
                BY <2>9, <3>3 DEF LaunchAwaited
            <4> QED
                BY <2>2, <3>1, <4>1, LaunchFrame
        <3> QED
            BY <3>2, <3>3
    <2>10. CASE \E c \in Callers : \/ GateRejects(c) \/ JoinLaunch(c) \/ AcquireSlot(c)
                                   \/ NewPage(c) \/ PageOpens(c)
        <3>1. /\ UNCHANGED <<browser, launchPromise, launch, ready, running>>
              /\ \A d \in Callers : pc'[d] = "lead" => pc[d] = "lead" /\ joined'[d] = joined[d]
              /\ \A d \in Callers : pc'[d] = "gate" => pc[d] = "gate"
            BY <2>10 DEF GateRejects, JoinLaunch, AcquireSlot, NewPage, PageOpens, IInv, TypeOK
        <3> QED
            BY <2>2, <3>1, LaunchFrame
    <2>11. CASE \E c \in Callers : NullContext(c) \/ PageFails(c) \/ PageDone(c)
        <3>1. PICK c \in Callers, r \in Outcomes : ReleaseSlot(c, r)
            BY <2>11 DEF NullContext, PageFails, PageDone, Outcomes
        <3>2. UNCHANGED <<browser, launchPromise, launch, ready, running, joined>>
            BY <2>11 DEF NullContext, PageFails, PageDone
        <3>3. \A d \in Callers : pc'[d] \in {"lead", "gate"} => pc'[d] = pc[d]
            BY <3>1, HeadWaits DEF ReleaseSlot, EndCall, IInv, TypeOK
        <3> QED
            BY <2>2, <3>2, <3>3, LaunchFrame
    <2>12. CASE UNCHANGED vars
        BY <2>2, <2>12, LaunchFrame DEF vars
    <2> QED
        BY <1>2, <2>3, <2>4, <2>5, <2>6, <2>7, <2>8, <2>9, <2>10, <2>11, <2>12
        DEF Next, LaunchSettles, Resume, PageSettles
<1> QED
    BY <1>1, <1>2

\* Until a close() interferes no two Chromium processes run or are being started, however
\* many clients ask while a launch is under way, fails or leaves a dead browser behind.
THEOREM DriverOneBrowser == Spec => []OneBrowser
<1>1. Init => (NoClose => OneLaunch)
    BY DEF Init, OneLaunch
<1>2. IInv /\ (NoClose => OneLaunch) /\ [Next]_vars => (NoClose => OneLaunch)'
    BY NextOneLaunch
<1>3. ASSUME IInv, NoClose => OneLaunch PROVE OneBrowser
    <2> DEFINE chromium == running \cup {l \in Launches : launch[l] = "launching"}
    <2>0. SUFFICES ASSUME NoClose PROVE Cardinality(chromium) <= 1
        BY DEF OneBrowser, NoClose
    <2>1. PICK l : chromium \subseteq {l}
        <3>1. CASE browser = None
            <4>1. chromium \subseteq {launchPromise}
                BY <1>3, <2>0, <3>1, NoneAssumption DEF OneLaunch, IInv, TypeOK
            <4> QED
                BY <4>1
        <3>2. CASE browser # None
            <4>1. chromium \subseteq {browser}
                BY <1>3, <2>0, <3>2 DEF OneLaunch
            <4> QED
                BY <4>1
        <3> QED
            BY <3>1, <3>2
    <2>2. IsFiniteSet({l}) /\ Cardinality({l}) = 1
        BY FS_Singleton
    <2>3. Cardinality(chromium) <= Cardinality({l})
        BY <2>1, <2>2, FS_Subset
    <2> QED
        BY <2>2, <2>3
<1> QED
    BY <1>1, <1>2, <1>3, DriverIInv, PTL DEF Spec
=============================================================================
