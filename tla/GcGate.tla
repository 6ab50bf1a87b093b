------------------------------- MODULE GcGate -------------------------------
(***************************************************************************)
(* TaskflowGcGate and TaskflowGcRegion: the stop-the-world handshake       *)
(* between the threads of the parallel scheduler and the collector.  One   *)
(* action per access to shared state: the atomics active and               *)
(* stopRequested_, the two mutexes, and the allocator's slow-path flag.    *)
(* Times (the cap after a collection, the backoff after a give-up, the     *)
(* collector's patience) are two flags that an environment action clears   *)
(* and a deadline that may pass while some thread stays in its region.     *)
(***************************************************************************)
EXTENDS Naturals, FiniteSets

CONSTANTS Threads,        \* the threads that ever use the gate
          None,           \* no owner of a mutex
          MaxDepth,       \* bound: region objects a thread holds at once
          MaxNesting,     \* bound: nested blocking waits of a thread
          MaxGiveUps,     \* bound: the give-up counter saturates here
          Paced,          \* collectionsPaced_ (gc_stress=false)
          BlockingLeaves  \* the option blocking_leaves

ASSUME GateConstants ==
  /\ None \notin Threads
  /\ MaxDepth \in Nat \ {0}
  /\ MaxNesting \in Nat
  /\ MaxGiveUps \in Nat \ {0}
  /\ Paced \in BOOLEAN
  /\ BlockingLeaves \in BOOLEAN

VARIABLES pc,                 \* what each thread does next
          threads,            \* threads_: the registered threads
          active,             \* ThreadState::active
          depth,              \* ThreadState::depth
          held,               \* region objects of the thread with held_ set
          nesting,            \* blockingWaitNesting
          savedDepth,         \* blockingSavedDepth
          stopRequested,      \* stopRequested_
          collectorMutex,     \* owner of collectorMutex_
          registryMutex,      \* owner of registryMutex_
          unchecked,          \* threads the collector's scan has still to read
          slowPath,           \* autoSpaceSafepointSlowPath
          capped,             \* now < capUntilNs_
          backingOff,         \* now < retryAfterNs_
          consecutiveGiveUps  \* consecutiveGiveUps_

threadVars == <<active, depth, held, nesting, savedDepth>>
lockVars   == <<stopRequested, collectorMutex, registryMutex>>
paceVars   == <<capped, backingOff, consecutiveGiveUps>>
gateVars == <<pc, threads, threadVars, lockVars, unchecked, slowPath, paceVars>>

States == {"run", "store", "check", "retract", "wait", "poll", "paced",
           "lock", "recheck", "stop", "register", "scan", "collect",
           "giveup", "resume", "unlock"}

GateTypeOK ==
  /\ pc \in [Threads -> States]
  /\ threads \subseteq Threads
  /\ active \in [Threads -> BOOLEAN]
  /\ depth \in [Threads -> Nat]
  /\ held \in [Threads -> Nat]
  /\ nesting \in [Threads -> Nat]
  /\ savedDepth \in [Threads -> Nat]
  /\ stopRequested \in BOOLEAN
  /\ collectorMutex \in Threads \union {None}
  /\ registryMutex \in Threads \union {None}
  /\ unchecked \subseteq Threads
  /\ slowPath \in BOOLEAN
  /\ capped \in BOOLEAN
  /\ backingOff \in BOOLEAN
  /\ consecutiveGiveUps \in 0 .. MaxGiveUps

GateInit ==
  /\ pc = [t \in Threads |-> "run"]
  /\ threads = {}
  /\ active = [t \in Threads |-> FALSE]
  /\ depth = [t \in Threads |-> 0]
  /\ held = [t \in Threads |-> 0]
  /\ nesting = [t \in Threads |-> 0]
  /\ savedDepth = [t \in Threads |-> 0]
  /\ stopRequested = FALSE
  /\ collectorMutex = None
  /\ registryMutex = None
  /\ unchecked = {}
  /\ slowPath = FALSE
  /\ capped = FALSE
  /\ backingOff = FALSE
  /\ consecutiveGiveUps = 0

Goto(t, s) == pc' = [pc EXCEPT ![t] = s]

(* The thread runs between two operations of the gate. *)
Working(t) == pc[t] = "run" /\ t \in threads

(* The thread does work that may hold a value no root reaches: it holds a  *)
(* region and no wait it announced has left that region.                   *)
Inside(t) == Working(t) /\ held[t] > 0 /\ (BlockingLeaves => nesting[t] = 0)

-----------------------------------------------------------------------------
(* self(): the first use of the gate on a thread registers it. *)
Register(t) ==
  /\ pc[t] = "run"
  /\ t \notin threads
  /\ registryMutex = None
  /\ threads' = threads \union {t}
  /\ UNCHANGED <<pc, threadVars, lockVars, unchecked, slowPath, paceVars>>

(* TaskflowGcRegion::enter on a region that is not held.  Only the         *)
(* outermost one has to be let in.                                         *)
Enter(t) ==
  /\ Working(t)
  /\ nesting[t] = 0
  /\ held[t] < MaxDepth
  /\ held' = [held EXCEPT ![t] = @ + 1]
  /\ depth' = [depth EXCEPT ![t] = @ + 1]
  /\ IF depth[t] # 0 THEN UNCHANGED pc ELSE Goto(t, "store")
  /\ UNCHANGED <<threads, active, nesting, savedDepth, lockVars, unchecked,
                 slowPath, paceVars>>

EnterStore(t) ==
  /\ pc[t] = "store"
  /\ active' = [active EXCEPT ![t] = TRUE]
  /\ Goto(t, "check")
  /\ UNCHANGED <<threads, depth, held, nesting, savedDepth, lockVars,
                 unchecked, slowPath, paceVars>>

EnterCheck(t) ==
  /\ pc[t] = "check"
  /\ Goto(t, IF stopRequested THEN "retract" ELSE "run")
  /\ UNCHANGED <<threads, threadVars, lockVars, unchecked, slowPath, paceVars>>

EnterRetract(t) ==
  /\ pc[t] = "retract"
  /\ active' = [active EXCEPT ![t] = FALSE]
  /\ Goto(t, "wait")
  /\ UNCHANGED <<threads, depth, held, nesting, savedDepth, lockVars,
                 unchecked, slowPath, paceVars>>

(* waitForCollector(): locks and unlocks the mutex the collector holds for *)
(* as long as it keeps the world stopped; then the entry starts over.      *)
WaitForCollector(t) ==
  /\ pc[t] = "wait"
  /\ collectorMutex = None
  /\ Goto(t, "store")
  /\ UNCHANGED <<threads, threadVars, lockVars, unchecked, slowPath, paceVars>>

(* gate.leave on one region. *)
LeaveOne(t) ==
  /\ held' = [held EXCEPT ![t] = @ - 1]
  /\ depth' = [depth EXCEPT ![t] = @ - 1]
  /\ active' = [active EXCEPT ![t] = @ /\ depth[t] # 1]

(* TaskflowGcRegion::leave, or its destructor. *)
Leave(t) ==
  /\ Working(t)
  /\ nesting[t] = 0
  /\ held[t] > 0
  /\ LeaveOne(t)
  /\ UNCHANGED <<pc, threads, nesting, savedDepth, lockVars, unchecked,
                 slowPath, paceVars>>

(* TaskflowGcRegion::safepoint on a held region: left when a collector     *)
(* wants in, and polled when that was the outermost one.                   *)
RegionSafepoint(t) ==
  /\ Working(t)
  /\ nesting[t] = 0
  /\ held[t] > 0
  /\ stopRequested \/ slowPath
  /\ LeaveOne(t)
  /\ Goto(t, IF depth[t] = 1 THEN "poll" ELSE "run")
  /\ UNCHANGED <<threads, nesting, savedDepth, lockVars, unchecked, slowPath,
                 paceVars>>

(* BlockingWaitScope enters: the hook leaves every region of the thread.   *)
BlockingWaitEnter(t) ==
  /\ Working(t)
  /\ nesting[t] < MaxNesting
  /\ nesting' = [nesting EXCEPT ![t] = @ + 1]
  /\ IF BlockingLeaves /\ nesting[t] = 0
     THEN /\ savedDepth' = [savedDepth EXCEPT ![t] = depth[t]]
          /\ depth' = [depth EXCEPT ![t] = 0]
          /\ active' = [active EXCEPT ![t] = @ /\ depth[t] = 0]
     ELSE UNCHANGED <<savedDepth, depth, active>>
  /\ UNCHANGED <<pc, threads, held, lockVars, unchecked, slowPath, paceVars>>

(* Mutant: the hook puts back a single level. *)
BlockingWaitLeaveOnce(t) ==
  /\ Working(t)
  /\ nesting[t] > 0
  /\ nesting' = [nesting EXCEPT ![t] = @ - 1]
  /\ IF BlockingLeaves /\ nesting[t] = 1
     THEN /\ depth' = [depth EXCEPT ![t] = IF savedDepth[t] > 0 THEN 1 ELSE 0]
          /\ savedDepth' = [savedDepth EXCEPT ![t] = 0]
          /\ Goto(t, IF savedDepth[t] > 0 THEN "store" ELSE "run")
     ELSE UNCHANGED <<depth, savedDepth, pc>>
  /\ UNCHANGED <<threads, active, held, lockVars, unchecked, slowPath,
                 paceVars>>

(* BlockingWaitScope leaves: the hook enters as many regions again, the    *)
(* first of them through the whole entry protocol.                         *)
BlockingWaitLeave(t) ==
  /\ Working(t)
  /\ nesting[t] > 0
  /\ nesting' = [nesting EXCEPT ![t] = @ - 1]
  /\ IF BlockingLeaves /\ nesting[t] = 1
     THEN /\ depth' = [depth EXCEPT ![t] = savedDepth[t]]
          /\ savedDepth' = [savedDepth EXCEPT ![t] = 0]
          /\ Goto(t, IF savedDepth[t] > 0 THEN "store" ELSE "run")
     ELSE UNCHANGED <<depth, savedDepth, pc>>
  /\ UNCHANGED <<threads, active, held, lockVars, unchecked, slowPath,
                 paceVars>>

(* An allocation inside a region asks for a collection. *)
RequestCollection(t) ==
  /\ Inside(t)
  /\ slowPath' = TRUE
  /\ UNCHANGED <<pc, threads, threadVars, lockVars, unchecked, paceVars>>

-----------------------------------------------------------------------------
(* poll(): the thread is outside every region. *)
Poll(t) ==
  /\ \/ pc[t] = "poll"
     \/ Working(t) /\ held[t] = 0 /\ depth[t] = 0 /\ nesting[t] = 0
  /\ Goto(t, IF slowPath THEN "paced" ELSE "run")
  /\ UNCHANGED <<threads, threadVars, lockVars, unchecked, slowPath, paceVars>>

TooSoon == (Paced /\ capped) \/ backingOff

(* collect(): the first tooSoon() is asked without the mutex. *)
CollectPaced(t) ==
  /\ pc[t] = "paced"
  /\ Goto(t, IF TooSoon THEN "run" ELSE "lock")
  /\ UNCHANGED <<threads, threadVars, lockVars, unchecked, slowPath, paceVars>>

CollectLock(t) ==
  /\ pc[t] = "lock"
  /\ collectorMutex = None
  /\ collectorMutex' = t
  /\ Goto(t, "recheck")
  /\ UNCHANGED <<threads, threadVars, stopRequested, registryMutex, unchecked,
                 slowPath, paceVars>>

(* Mutant: the recheck returns when the request is still there. *)
CollectRecheckInverted(t) ==
  /\ pc[t] = "recheck"
  /\ Goto(t, IF slowPath \/ TooSoon THEN "unlock" ELSE "stop")
  /\ UNCHANGED <<threads, threadVars, lockVars, unchecked, slowPath, paceVars>>

(* Another thread collected, or gave up, while this one waited. *)
CollectRecheck(t) ==
  /\ pc[t] = "recheck"
  /\ Goto(t, IF ~slowPath \/ TooSoon THEN "unlock" ELSE "stop")
  /\ UNCHANGED <<threads, threadVars, lockVars, unchecked, slowPath, paceVars>>

CollectStop(t) ==
  /\ pc[t] = "stop"
  /\ stopRequested' = TRUE
  /\ Goto(t, "register")
  /\ UNCHANGED <<threads, threadVars, collectorMutex, registryMutex, unchecked,
                 slowPath, paceVars>>

CollectRegistry(t) ==
  /\ pc[t] = "register"
  /\ registryMutex = None
  /\ registryMutex' = t
  /\ unchecked' = threads \ {t}
  /\ Goto(t, "scan")
  /\ UNCHANGED <<threads, threadVars, stopRequested, collectorMutex, slowPath,
                 paceVars>>

(* The scan reads one thread that is outside its region ... *)
ScanThread(t) ==
  /\ pc[t] = "scan"
  /\ \E u \in unchecked :
        /\ ~active[u]
        /\ unchecked' = unchecked \ {u}
  /\ UNCHANGED <<pc, threads, threadVars, lockVars, slowPath, paceVars>>

(* ... or one that is inside: the scan starts over ... *)
ScanAgain(t) ==
  /\ pc[t] = "scan"
  /\ \E u \in unchecked : active[u]
  /\ unchecked' = threads \ {t}
  /\ UNCHANGED <<pc, threads, threadVars, lockVars, slowPath, paceVars>>

(* Mutant: the collector has no deadline. *)
ScanNoDeadline(t) ==
  /\ pc[t] = "scan"
  /\ \E u \in unchecked : active[u]
  /\ UNCHANGED gateVars

(* Mutant: the collector collects after its patience whoever is inside. *)
ScanDeadlineCollects(t) ==
  /\ pc[t] = "scan"
  /\ \E u \in unchecked : active[u]
  /\ registryMutex' = None
  /\ unchecked' = {}
  /\ Goto(t, "collect")
  /\ UNCHANGED <<threads, threadVars, stopRequested, collectorMutex, slowPath,
                 paceVars>>

(* ... unless the patience has run out. *)
ScanDeadline(t) ==
  /\ pc[t] = "scan"
  /\ \E u \in unchecked : active[u]
  /\ registryMutex' = None
  /\ unchecked' = {}
  /\ Goto(t, "giveup")
  /\ UNCHANGED <<threads, threadVars, stopRequested, collectorMutex, slowPath,
                 paceVars>>

ScanQuiet(t) ==
  /\ pc[t] = "scan"
  /\ unchecked = {}
  /\ registryMutex' = None
  /\ Goto(t, "collect")
  /\ UNCHANGED <<threads, threadVars, stopRequested, collectorMutex, unchecked,
                 slowPath, paceVars>>

(* mm::safepoint returned.  The flag stays up when collection is inhibited *)
(* or the collection asked for another one.                                *)
CollectDone(t) ==
  /\ pc[t] = "collect"
  /\ slowPath' \in BOOLEAN
  /\ capped' = (capped \/ Paced)
  /\ consecutiveGiveUps' = 0
  /\ Goto(t, "resume")
  /\ UNCHANGED <<threads, threadVars, lockVars, unchecked, backingOff>>

(* mm::safepoint threw (MemoryExhausted): the flag stays up, the pacing is *)
(* left as it was, and the exception passes through the thread.            *)
CollectThrows(t) ==
  /\ pc[t] = "collect"
  /\ slowPath' = TRUE
  /\ Goto(t, "resume")
  /\ UNCHANGED <<threads, threadVars, lockVars, unchecked, paceVars>>

(* How often it gives up in a row only decides which line it logs. *)
GiveUp(t) ==
  /\ pc[t] = "giveup"
  /\ backingOff' = TRUE
  /\ consecutiveGiveUps' = IF consecutiveGiveUps < MaxGiveUps
                           THEN consecutiveGiveUps + 1 ELSE consecutiveGiveUps
  /\ Goto(t, "resume")
  /\ UNCHANGED <<threads, threadVars, lockVars, unchecked, slowPath, capped>>

CollectResume(t) ==
  /\ pc[t] = "resume"
  /\ stopRequested' = FALSE
  /\ Goto(t, "unlock")
  /\ UNCHANGED <<threads, threadVars, collectorMutex, registryMutex, unchecked,
                 slowPath, paceVars>>

CollectUnlock(t) ==
  /\ pc[t] = "unlock"
  /\ collectorMutex' = None
  /\ Goto(t, "run")
  /\ UNCHANGED <<threads, threadVars, stopRequested, registryMutex, unchecked,
                 slowPath, paceVars>>

-----------------------------------------------------------------------------
(* The steady clock passes capUntilNs_ or retryAfterNs_. *)
CapPasses ==
  /\ capped
  /\ capped' = FALSE
  /\ UNCHANGED <<pc, threads, threadVars, lockVars, unchecked, slowPath,
                 backingOff, consecutiveGiveUps>>

BackoffPasses ==
  /\ backingOff
  /\ backingOff' = FALSE
  /\ UNCHANGED <<pc, threads, threadVars, lockVars, unchecked, slowPath,
                 capped, consecutiveGiveUps>>

(* One step of the entry or of the collection a thread is in. *)
GateStep(t) ==
  \/ EnterStore(t) \/ EnterCheck(t) \/ EnterRetract(t) \/ WaitForCollector(t)
  \/ CollectPaced(t) \/ CollectLock(t) \/ CollectRecheck(t) \/ CollectStop(t)
  \/ CollectRegistry(t) \/ ScanThread(t) \/ ScanAgain(t) \/ ScanDeadline(t)
  \/ ScanQuiet(t) \/ CollectDone(t) \/ CollectThrows(t) \/ GiveUp(t)
  \/ CollectResume(t) \/ CollectUnlock(t)

(* What the work of a thread makes it do. *)
WorkStep(t) ==
  \/ Register(t) \/ Enter(t) \/ Leave(t) \/ RegionSafepoint(t) \/ Poll(t)
  \/ BlockingWaitEnter(t) \/ BlockingWaitLeave(t) \/ RequestCollection(t)

GateNext ==
  \/ \E t \in Threads : GateStep(t) \/ WorkStep(t)
  \/ CapPasses
  \/ BackoffPasses

GateSpec == GateInit /\ [][GateNext]_gateVars
-----------------------------------------------------------------------------
(* The collector's own steps and the entry protocol are straight-line code *)
(* of a running thread; the patience and the two pauses end with time; a   *)
(* mutex that is free over and over is taken.  A thread that stays in its  *)
(* region is not assumed to leave it unless it reaches safepoints.         *)
GateFairness ==
  /\ \A t \in Threads :
        /\ WF_gateVars(EnterStore(t)) /\ WF_gateVars(EnterCheck(t))
        /\ WF_gateVars(EnterRetract(t)) /\ SF_gateVars(WaitForCollector(t))
        /\ WF_gateVars(CollectPaced(t)) /\ SF_gateVars(CollectLock(t))
        /\ WF_gateVars(CollectRecheck(t)) /\ WF_gateVars(CollectStop(t))
        /\ WF_gateVars(CollectRegistry(t)) /\ WF_gateVars(ScanThread(t))
        /\ WF_gateVars(ScanDeadline(t)) /\ WF_gateVars(ScanQuiet(t))
        /\ WF_gateVars(CollectDone(t) \/ CollectThrows(t)) /\ WF_gateVars(GiveUp(t))
        /\ WF_gateVars(CollectResume(t)) /\ WF_gateVars(CollectUnlock(t))
  /\ WF_gateVars(CapPasses) /\ WF_gateVars(BackoffPasses)

GateFairSpec == GateSpec /\ GateFairness

(* Every thread ends its inner regions and its waits, brings its outermost *)
(* region to a safepoint, and polls between two pieces of work: evalGraph  *)
(* polls at every graph boundary and runItems at every branch, and both    *)
(* leave their region before work that calls graphs from a region of its   *)
(* own.                                                                    *)
Safepoints ==
  \A t \in Threads :
     /\ SF_gateVars(held[t] > 1 /\ Leave(t)) /\ SF_gateVars(held[t] = 1 /\ RegionSafepoint(t))
     /\ WF_gateVars(BlockingWaitLeave(t)) /\ SF_gateVars(nesting[t] = 1 /\ BlockingWaitLeave(t))
     /\ SF_gateVars(Poll(t))

(* A collection runs only while no other thread is inside a region: the    *)
(* comment of TaskflowGcGate (taskflow.h), for the handshake of enter(),   *)
(* collect() and the re-entry after a blocking wait.                       *)
CollectorAlone ==
  \A c, t \in Threads : pc[c] = "collect" /\ c # t => ~Inside(t)

(* A thread is as deep in its regions after a blocking wait as before it,  *)
(* and counted as active exactly then: the depth the hooks put back is the *)
(* number of region objects that believe they hold the region.             *)
DepthRestored ==
  \A t \in threads :
     Working(t) /\ (BlockingLeaves => nesting[t] = 0)
       => /\ depth[t] = held[t]
          /\ active[t] = (held[t] > 0)

(* While some thread keeps the world stopped it owns the collector mutex,  *)
(* so that a thread turned away in enter() has something to wait for.      *)
StopHasOwner ==
  stopRequested =>
     \E c \in Threads : collectorMutex = c /\ pc[c] \in
        {"register", "scan", "collect", "giveup", "resume"}

(* The world is let go again, even when a thread never leaves its region:  *)
(* collect() gives up after its patience.                                  *)
StopIsWithdrawn == stopRequested ~> ~stopRequested

(* A pending request is served by a collection if every thread comes to    *)
(* its safepoints and, from some time on, does so within the patience: no  *)
(* request is lost to the pacing or to the recheck.                        *)
PendingIsServed ==
  Safepoints /\ <>[](\A t \in Threads : pc[t] # "giveup")
    => (slowPath ~> \E t \in Threads : pc[t] = "collect")

(* The threads inside a region, and the one that runs mm::safepoint. *)
InsideThreads == {t \in Threads : Inside(t)}
Collector == IF \E c \in Threads : pc[c] = "collect"
             THEN CHOOSE c \in Threads : pc[c] = "collect"
             ELSE None

STW == INSTANCE StopTheWorld WITH inside <- InsideThreads,
                                  collector <- Collector

(* The gate implements the abstract stop-the-world specification: every    *)
(* step of enter(), leave(), collect() and the wait hooks is an entry, an  *)
(* exit, the start or the end of a collection, or invisible.               *)
ImplementsStopTheWorld == STW!Spec
=============================================================================
