--------------------------- MODULE SafepointProofs ---------------------------
(***************************************************************************)
(* Who may collect, and when one is owed.  The handshake of GcGate is safe *)
(* for every set of threads, every nesting of regions and waits, and both  *)
(* settings of its options.  For every heap, limit and budget HeapPacing   *)
(* loses no request for a collection, always calls in credit over the heap *)
(* limit, has a major collection pending when a budget is used up, and     *)
(* counts in the large-object space what is in it.                         *)
(***************************************************************************)
EXTENDS GcGate, HeapPacing, TLAPS

-----------------------------------------------------------------------------
(* GcGate *)


Entering == {"store", "check", "retract", "wait"}
Stopping == {"register", "scan", "collect", "giveup", "resume"}
Locking  == Stopping \union {"recheck", "stop", "unlock"}

(* The collector mutex is owned by the thread between lock and unlock, the *)
(* registry mutex by the thread that scans.                                *)
LockInv ==
  \A t \in Threads : /\ pc[t] \in Locking <=> collectorMutex = t
                     /\ pc[t] = "scan" <=> registryMutex = t

(* The stop flag is up exactly while the owner keeps the world stopped.    *)
StopInv ==
  /\ \A t \in Threads : pc[t] \in Stopping => stopRequested
  /\ StopHasOwner

(* What a thread's own counters say in each of its states. *)
ThreadInv(t) ==
  /\ t \notin threads =>
       /\ pc[t] = "run" /\ held[t] = 0 /\ depth[t] = 0 /\ nesting[t] = 0
       /\ savedDepth[t] = 0 /\ ~active[t]
  /\ pc[t] # "run" => nesting[t] = 0
  /\ IF BlockingLeaves /\ nesting[t] > 0
     THEN depth[t] = 0 /\ savedDepth[t] = held[t]
     ELSE depth[t] = held[t] /\ savedDepth[t] = 0
  /\ pc[t] = "run" => (active[t] <=> depth[t] > 0)
  /\ pc[t] \in Entering =>
       depth[t] > 0 /\ (active[t] <=> pc[t] \in {"check", "retract"})
  /\ pc[t] \notin Entering \union {"run"} => depth[t] = 0 /\ ~active[t]

(* What the scan has read stays true: a thread it saw outside its region   *)
(* has not come in since.                                                  *)
ScanInv ==
  \A c \in Threads :
     /\ pc[c] \in {"scan", "collect"} =>
          \A t \in Threads \ (unchecked \union {c}) : ~Inside(t)
     /\ pc[c] = "collect" => unchecked = {}

IInv == GateTypeOK /\ LockInv /\ StopInv /\ (\A t \in Threads : ThreadInv(t)) /\ ScanInv

(* Before the first thread registers, nobody is inside and no lock is held. *)
LEMMA InitIInv == GateInit => IInv
<1> SUFFICES ASSUME GateInit PROVE IInv
  BY Zenon
<1> USE GateConstants DEF GateInit
<1>1. GateTypeOK
  <2>1. /\ active \in [Threads -> BOOLEAN] /\ stopRequested \in BOOLEAN
        /\ slowPath \in BOOLEAN /\ capped \in BOOLEAN /\ backingOff \in BOOLEAN
    BY Zenon
  <2> QED
    BY <2>1 DEF GateTypeOK, States
<1>2. LockInv /\ StopInv
  BY Zenon DEF LockInv, StopInv, StopHasOwner, Locking, Stopping
<1>3. \A t \in Threads : ThreadInv(t)
  BY DEF ThreadInv, Entering
<1>4. ScanInv
  BY Zenon DEF ScanInv, Inside, Working
<1> QED
  BY Zenon, <1>1, <1>2, <1>3, <1>4 DEF IInv

(* Every step of every thread, and the passing of time, preserves it.       *)
LEMMA StepIInv == IInv /\ [GateNext]_gateVars => IInv'
<1> SUFFICES ASSUME IInv, [GateNext]_gateVars PROVE IInv'
  BY Zenon
<1> USE GateConstants DEF IInv, GateTypeOK, LockInv, StopInv, StopHasOwner,
     ThreadInv, ScanInv, Locking, Stopping, Entering, States, Inside, Working,
     Goto, threadVars, lockVars, paceVars
<1>1. ASSUME NEW t \in Threads, Register(t) PROVE IInv'
  BY <1>1 DEF Register
<1>2. ASSUME NEW t \in Threads, Enter(t) PROVE IInv'
  BY <1>2 DEF Enter
<1>3. ASSUME NEW t \in Threads, EnterStore(t) PROVE IInv'
  BY <1>3 DEF EnterStore
<1>4. ASSUME NEW t \in Threads, EnterCheck(t) PROVE IInv'
  BY <1>4 DEF EnterCheck
<1>5. ASSUME NEW t \in Threads, EnterRetract(t) PROVE IInv'
  BY <1>5 DEF EnterRetract
<1>6. ASSUME NEW t \in Threads, WaitForCollector(t) PROVE IInv'
  BY <1>6 DEF WaitForCollector
<1>7. ASSUME NEW t \in Threads, Leave(t) PROVE IInv'
  BY <1>7 DEF Leave, LeaveOne
<1>8. ASSUME NEW t \in Threads, RegionSafepoint(t) PROVE IInv'
  BY <1>8 DEF RegionSafepoint, LeaveOne
<1>9. ASSUME NEW t \in Threads, BlockingWaitEnter(t) PROVE IInv'
  BY <1>9 DEF BlockingWaitEnter
<1>10. ASSUME NEW t \in Threads, BlockingWaitLeave(t) PROVE IInv'
  BY <1>10 DEF BlockingWaitLeave
<1>11. ASSUME NEW t \in Threads, RequestCollection(t) PROVE IInv'
  BY <1>11 DEF RequestCollection
<1>12. ASSUME NEW t \in Threads, Poll(t) PROVE IInv'
  BY <1>12 DEF Poll
<1>13. ASSUME NEW t \in Threads, CollectPaced(t) PROVE IInv'
  BY <1>13 DEF CollectPaced
<1>14. ASSUME NEW t \in Threads, CollectLock(t) PROVE IInv'
  BY <1>14 DEF CollectLock
<1>15. ASSUME NEW t \in Threads, CollectRecheck(t) PROVE IInv'
  BY <1>15 DEF CollectRecheck
<1>16. ASSUME NEW t \in Threads, CollectStop(t) PROVE IInv'
  BY <1>16 DEF CollectStop
<1>17. ASSUME NEW t \in Threads, CollectRegistry(t) PROVE IInv'
  BY <1>17 DEF CollectRegistry
<1>18. ASSUME NEW t \in Threads, ScanThread(t) PROVE IInv'
  BY <1>18 DEF ScanThread
<1>19. ASSUME NEW t \in Threads, ScanAgain(t) PROVE IInv'
  BY <1>19 DEF ScanAgain
<1>20. ASSUME NEW t \in Threads, ScanDeadline(t) PROVE IInv'
  BY <1>20 DEF ScanDeadline
<1>21. ASSUME NEW t \in Threads, ScanQuiet(t) PROVE IInv'
  BY <1>21 DEF ScanQuiet
<1>22. ASSUME NEW t \in Threads, CollectDone(t) PROVE IInv'
  BY <1>22 DEF CollectDone
<1>23. ASSUME NEW t \in Threads, CollectThrows(t) PROVE IInv'
  BY <1>23 DEF CollectThrows
<1>24. ASSUME NEW t \in Threads, GiveUp(t) PROVE IInv'
  BY <1>24 DEF GiveUp
<1>25. ASSUME NEW t \in Threads, CollectResume(t) PROVE IInv'
  <2>1. \A c \in Threads \ {t} : pc[c] \notin Locking
    BY <1>25 DEF CollectResume
  <2>0. stopRequested' \in BOOLEAN
    BY Zenon, <1>25 DEF CollectResume
  <2>2. GateTypeOK' /\ LockInv' /\ (\A u \in Threads : ThreadInv(u)')
    BY <1>25, <2>0 DEF CollectResume
  <2>3. StopInv' /\ ScanInv'
    BY <1>25, <2>1 DEF CollectResume
  <2> QED
    BY Zenon, <2>2, <2>3
<1>26. ASSUME NEW t \in Threads, CollectUnlock(t) PROVE IInv'
  BY <1>26 DEF CollectUnlock
<1>27. ASSUME CapPasses PROVE IInv'
  <2>1. capped' \in BOOLEAN
    BY Zenon, <1>27 DEF CapPasses
  <2> QED
    BY <1>27, <2>1 DEF CapPasses
<1>28. ASSUME BackoffPasses PROVE IInv'
  <2>1. backingOff' \in BOOLEAN
    BY Zenon, <1>28 DEF BackoffPasses
  <2> QED
    BY <1>28, <2>1 DEF BackoffPasses
<1>29. CASE UNCHANGED gateVars
  BY <1>29 DEF gateVars
<1> QED
  BY Zenon, <1>1, <1>2, <1>3, <1>4, <1>5, <1>6, <1>7, <1>8, <1>9, <1>10, <1>11,
     <1>12, <1>13, <1>14, <1>15, <1>16, <1>17, <1>18, <1>19, <1>20, <1>21,
     <1>22, <1>23, <1>24, <1>25, <1>26, <1>27, <1>28, <1>29
     DEF GateNext, GateStep, WorkStep

(* The strengthening is an invariant of the gate. *)
THEOREM GateInvariant == GateSpec => []IInv
  BY InitIInv, StepIInv, PTL DEF GateSpec

(* The gate's variables keep their types: in particular no region depth    *)
(* and no wait nesting of ThreadState falls below zero.                    *)
THEOREM GateTypeCorrect == GateSpec => []GateTypeOK
<1>1. IInv => GateTypeOK
  BY Zenon DEF IInv
<1> QED
  BY <1>1, GateInvariant, PTL

(* collect() calls mm::safepoint only while no other thread is inside a    *)
(* region, whatever the threads, their nesting and the options are.        *)
THEOREM GateCollectorAlone == GateSpec => []CollectorAlone
<1>1. IInv => CollectorAlone
  BY Zenon DEF IInv, ScanInv, CollectorAlone
<1> QED
  BY <1>1, GateInvariant, PTL

(* The hooks of a blocking wait put the depth of the thread back exactly.  *)
THEOREM GateDepthRestored == GateSpec => []DepthRestored
<1>1. IInv => DepthRestored
  <2> SUFFICES ASSUME IInv, NEW t \in threads, Working(t),
                      BlockingLeaves => nesting[t] = 0
               PROVE  depth[t] = held[t] /\ active[t] = (held[t] > 0)
    BY Zenon DEF DepthRestored
  <2>1. t \in Threads /\ ThreadInv(t)
    BY Zenon DEF IInv, GateTypeOK
  <2>2. depth[t] = held[t] /\ (active[t] <=> held[t] > 0)
    BY <2>1, GateConstants DEF ThreadInv, Working, IInv, GateTypeOK
  <2>3. active[t] \in BOOLEAN
    BY Zenon, <2>1 DEF IInv, GateTypeOK
  <2> QED
    BY <2>2, <2>3
<1> QED
  BY <1>1, GateInvariant, PTL

(* stopRequested_ is never left set by a thread that has given the         *)
(* collector mutex back, not even when mm::safepoint throws.               *)
THEOREM GateStopHasOwner == GateSpec => []StopHasOwner
<1>1. IInv => StopHasOwner
  BY Zenon DEF IInv, StopInv
<1> QED
  BY <1>1, GateInvariant, PTL

-----------------------------------------------------------------------------
(* At most one thread collects, so Collector names it. *)
LEMMA CollectorIs ==
  ASSUME IInv
  PROVE  /\ \A c \in Threads : pc[c] = "collect" => Collector = c
         /\ (\A c \in Threads : pc[c] # "collect") => Collector = None
<1>1. \A c, d \in Threads : pc[c] = "collect" /\ pc[d] = "collect" => c = d
  BY Zenon DEF IInv, LockInv, Locking, Stopping
<1> QED
  BY Zenon, <1>1 DEF Collector

(* The same of the state after a step. *)
LEMMA CollectorIsNext ==
  ASSUME IInv'
  PROVE  /\ \A c \in Threads : pc'[c] = "collect" => Collector' = c
         /\ (\A c \in Threads : pc'[c] # "collect") => Collector' = None
<1>1. \A c, d \in Threads : pc'[c] = "collect" /\ pc'[d] = "collect" => c = d
  BY Zenon DEF IInv, LockInv, Locking, Stopping
<1> QED
  BY Zenon, <1>1 DEF Collector

(* A step that moves no thread into or out of "collect" keeps Collector. *)
LEMMA CollectorSame ==
  ASSUME \A c \in Threads : pc'[c] = "collect" <=> pc[c] = "collect"
  PROVE  Collector' = Collector
<1>1. (\E c \in Threads : pc[c] = "collect")' <=> \E c \in Threads : pc[c] = "collect"
  BY Zenon
<1>2. (CHOOSE c \in Threads : pc[c] = "collect")' = CHOOSE c \in Threads : pc[c] = "collect"
  BY Zenon
<1> QED
  BY Zenon, <1>1, <1>2 DEF Collector

(* A step that lets nobody in or out and neither starts nor ends a         *)
(* collection is a stuttering step of StopTheWorld.                        *)
LEMMA Invisible ==
  ASSUME \A t \in Threads : Inside(t)' <=> Inside(t),
         \A c \in Threads : pc'[c] = "collect" <=> pc[c] = "collect"
  PROVE  UNCHANGED STW!vars
  BY Zenon, CollectorSame DEF STW!vars, InsideThreads

(* Leaving the outermost region is LeaveRegion of StopTheWorld. *)
LEMMA LeavesOne ==
  ASSUME NEW t \in Threads, ~Inside(t)',
         \A u \in Threads \ {t} : Inside(u)' <=> Inside(u),
         \A c \in Threads : pc'[c] = "collect" <=> pc[c] = "collect"
  PROVE  [STW!Next]_STW!vars
<1>1. CASE Inside(t)
  <2>1. STW!LeaveRegion(t)
    BY Zenon, <1>1, CollectorSame DEF STW!LeaveRegion, InsideThreads
  <2> QED
    BY Zenon, <2>1 DEF STW!Next
<1>2. CASE ~Inside(t)
  BY Zenon, <1>2, Invisible
<1> QED
  BY Zenon, <1>1, <1>2

(* Every step of the gate is a step of StopTheWorld or invisible to it. *)
LEMMA StepRefines == IInv /\ IInv' /\ [GateNext]_gateVars => [STW!Next]_STW!vars
<1> SUFFICES ASSUME IInv, IInv', [GateNext]_gateVars PROVE [STW!Next]_STW!vars
  BY Zenon
<1> USE GateConstants DEF IInv, GateTypeOK, ThreadInv, Entering, Inside, Working,
     Goto, threadVars, lockVars, paceVars
<1>1. ASSUME NEW t \in Threads, Register(t) PROVE UNCHANGED STW!vars
  <2>1. /\ \A u \in Threads : Inside(u)' <=> Inside(u)
        /\ \A c \in Threads : pc'[c] = "collect" <=> pc[c] = "collect"
    BY <1>1 DEF Register
  <2> QED
    BY Zenon, <2>1, Invisible
<1>2. ASSUME NEW t \in Threads, EnterStore(t) PROVE UNCHANGED STW!vars
  <2>1. /\ \A u \in Threads : Inside(u)' <=> Inside(u)
        /\ \A c \in Threads : pc'[c] = "collect" <=> pc[c] = "collect"
    BY <1>2 DEF EnterStore
  <2> QED
    BY Zenon, <2>1, Invisible
<1>3. ASSUME NEW t \in Threads, EnterRetract(t) PROVE UNCHANGED STW!vars
  <2>1. /\ \A u \in Threads : Inside(u)' <=> Inside(u)
        /\ \A c \in Threads : pc'[c] = "collect" <=> pc[c] = "collect"
    BY <1>3 DEF EnterRetract
  <2> QED
    BY Zenon, <2>1, Invisible
<1>4. ASSUME NEW t \in Threads, WaitForCollector(t) PROVE UNCHANGED STW!vars
  <2>1. /\ \A u \in Threads : Inside(u)' <=> Inside(u)
        /\ \A c \in Threads : pc'[c] = "collect" <=> pc[c] = "collect"
    BY <1>4 DEF WaitForCollector
  <2> QED
    BY Zenon, <2>1, Invisible
<1>5. ASSUME NEW t \in Threads, CollectPaced(t) PROVE UNCHANGED STW!vars
  <2>1. /\ \A u \in Threads : Inside(u)' <=> Inside(u)
        /\ \A c \in Threads : pc'[c] = "collect" <=> pc[c] = "collect"
    BY <1>5 DEF CollectPaced
  <2> QED
    BY Zenon, <2>1, Invisible
<1>6. ASSUME NEW t \in Threads, CollectLock(t) PROVE UNCHANGED STW!vars
  <2>1. /\ \A u \in Threads : Inside(u)' <=> Inside(u)
        /\ \A c \in Threads : pc'[c] = "collect" <=> pc[c] = "collect"
    BY <1>6 DEF CollectLock
  <2> QED
    BY Zenon, <2>1, Invisible
<1>7. ASSUME NEW t \in Threads, CollectRecheck(t) PROVE UNCHANGED STW!vars
  <2>1. /\ \A u \in Threads : Inside(u)' <=> Inside(u)
        /\ \A c \in Threads : pc'[c] = "collect" <=> pc[c] = "collect"
    BY <1>7 DEF CollectRecheck
  <2> QED
    BY Zenon, <2>1, Invisible
<1>8. ASSUME NEW t \in Threads, CollectStop(t) PROVE UNCHANGED STW!vars
  <2>1. /\ \A u \in Threads : Inside(u)' <=> Inside(u)
        /\ \A c \in Threads : pc'[c] = "collect" <=> pc[c] = "collect"
    BY <1>8 DEF CollectStop
  <2> QED
    BY Zenon, <2>1, Invisible
<1>9. ASSUME NEW t \in Threads, CollectRegistry(t) PROVE UNCHANGED STW!vars
  <2>1. /\ \A u \in Threads : Inside(u)' <=> Inside(u)
        /\ \A c \in Threads : pc'[c] = "collect" <=> pc[c] = "collect"
    BY <1>9 DEF CollectRegistry
  <2> QED
    BY Zenon, <2>1, Invisible
<1>10. ASSUME NEW t \in Threads, ScanThread(t) PROVE UNCHANGED STW!vars
  <2>1. /\ \A u \in Threads : Inside(u)' <=> Inside(u)
        /\ \A c \in Threads : pc'[c] = "collect" <=> pc[c] = "collect"
    BY Zenon, <1>10 DEF ScanThread
  <2> QED
    BY Zenon, <2>1, Invisible
<1>11. ASSUME NEW t \in Threads, ScanAgain(t) PROVE UNCHANGED STW!vars
  <2>1. /\ \A u \in Threads : Inside(u)' <=> Inside(u)
        /\ \A c \in Threads : pc'[c] = "collect" <=> pc[c] = "collect"
    BY Zenon, <1>11 DEF ScanAgain
  <2> QED
    BY Zenon, <2>1, Invisible
<1>12. ASSUME NEW t \in Threads, ScanDeadline(t) PROVE UNCHANGED STW!vars
  <2>1. /\ \A u \in Threads : Inside(u)' <=> Inside(u)
        /\ \A c \in Threads : pc'[c] = "collect" <=> pc[c] = "collect"
    BY <1>12 DEF ScanDeadline
  <2> QED
    BY Zenon, <2>1, Invisible
<1>13. ASSUME NEW t \in Threads, GiveUp(t) PROVE UNCHANGED STW!vars
  <2>1. /\ \A u \in Threads : Inside(u)' <=> Inside(u)
        /\ \A c \in Threads : pc'[c] = "collect" <=> pc[c] = "collect"
    BY <1>13 DEF GiveUp
  <2> QED
    BY Zenon, <2>1, Invisible
<1>14. ASSUME NEW t \in Threads, CollectResume(t) PROVE UNCHANGED STW!vars
  <2>1. /\ \A u \in Threads : Inside(u)' <=> Inside(u)
        /\ \A c \in Threads : pc'[c] = "collect" <=> pc[c] = "collect"
    BY <1>14 DEF CollectResume
  <2> QED
    BY Zenon, <2>1, Invisible
<1>15. ASSUME NEW t \in Threads, CollectUnlock(t) PROVE UNCHANGED STW!vars
  <2>1. /\ \A u \in Threads : Inside(u)' <=> Inside(u)
        /\ \A c \in Threads : pc'[c] = "collect" <=> pc[c] = "collect"
    BY <1>15 DEF CollectUnlock
  <2> QED
    BY Zenon, <2>1, Invisible
<1>16. ASSUME NEW t \in Threads, RequestCollection(t) PROVE UNCHANGED STW!vars
  <2>1. /\ \A u \in Threads : Inside(u)' <=> Inside(u)
        /\ \A c \in Threads : pc'[c] = "collect" <=> pc[c] = "collect"
    BY Zenon, <1>16 DEF RequestCollection
  <2> QED
    BY Zenon, <2>1, Invisible
<1>17. ASSUME NEW t \in Threads, Poll(t) PROVE UNCHANGED STW!vars
  <2>1. /\ \A u \in Threads : Inside(u)' <=> Inside(u)
        /\ \A c \in Threads : pc'[c] = "collect" <=> pc[c] = "collect"
    BY <1>17 DEF Poll
  <2> QED
    BY Zenon, <2>1, Invisible
<1>18. ASSUME NEW t \in Threads, Enter(t) PROVE UNCHANGED STW!vars
  <2>1. /\ \A u \in Threads : Inside(u)' <=> Inside(u)
        /\ \A c \in Threads : pc'[c] = "collect" <=> pc[c] = "collect"
    BY <1>18 DEF Enter
  <2> QED
    BY Zenon, <2>1, Invisible
<1>19. ASSUME NEW t \in Threads, BlockingWaitLeave(t) PROVE UNCHANGED STW!vars
  <2>1. /\ \A u \in Threads : Inside(u)' <=> Inside(u)
        /\ \A c \in Threads : pc'[c] = "collect" <=> pc[c] = "collect"
    BY <1>19 DEF BlockingWaitLeave
  <2> QED
    BY Zenon, <2>1, Invisible
<1>20. ASSUME NEW t \in Threads, Leave(t) PROVE [STW!Next]_STW!vars
  <2>1. /\ \A u \in Threads \ {t} : Inside(u)' <=> Inside(u)
        /\ \A c \in Threads : pc'[c] = "collect" <=> pc[c] = "collect"
    BY <1>20 DEF Leave, LeaveOne
  <2>2. CASE Inside(t)'
    <3>1. \A u \in Threads : Inside(u)' <=> Inside(u)
      BY Zenon, <1>20, <2>1, <2>2 DEF Leave, LeaveOne
    <3> QED
      BY Zenon, <2>1, <3>1, Invisible
  <2>3. CASE ~Inside(t)'
    BY Zenon, <2>1, <2>3, LeavesOne
  <2> QED
    BY Zenon, <2>2, <2>3
<1>21. ASSUME NEW t \in Threads, RegionSafepoint(t) PROVE [STW!Next]_STW!vars
  <2>1. /\ \A u \in Threads \ {t} : Inside(u)' <=> Inside(u)
        /\ \A c \in Threads : pc'[c] = "collect" <=> pc[c] = "collect"
    BY SMTT(30), <1>21 DEF RegionSafepoint, LeaveOne
  <2>2. CASE Inside(t)'
    <3>1. \A u \in Threads : Inside(u)' <=> Inside(u)
      BY Zenon, <1>21, <2>1, <2>2 DEF RegionSafepoint, LeaveOne
    <3> QED
      BY Zenon, <2>1, <3>1, Invisible
  <2>3. CASE ~Inside(t)'
    BY Zenon, <2>1, <2>3, LeavesOne
  <2> QED
    BY Zenon, <2>2, <2>3
<1>22. ASSUME NEW t \in Threads, BlockingWaitEnter(t) PROVE [STW!Next]_STW!vars
  <2>1. /\ \A u \in Threads \ {t} : Inside(u)' <=> Inside(u)
        /\ \A c \in Threads : pc'[c] = "collect" <=> pc[c] = "collect"
    BY <1>22 DEF BlockingWaitEnter
  <2>2. CASE Inside(t)'
    <3>1. \A u \in Threads : Inside(u)' <=> Inside(u)
      BY <1>22, <2>1, <2>2 DEF BlockingWaitEnter
    <3> QED
      BY Zenon, <2>1, <3>1, Invisible
  <2>3. CASE ~Inside(t)'
    BY Zenon, <2>1, <2>3, LeavesOne
  <2> QED
    BY Zenon, <2>2, <2>3
<1>23. ASSUME NEW t \in Threads, EnterCheck(t) PROVE [STW!Next]_STW!vars
  <2>1. /\ \A u \in Threads \ {t} : Inside(u)' <=> Inside(u)
        /\ \A c \in Threads : pc'[c] = "collect" <=> pc[c] = "collect"
        /\ ~Inside(t)
    BY <1>23 DEF EnterCheck
  <2>2. CASE stopRequested
    <3>1. ~Inside(t)'
      BY Zenon, <1>23, <2>2 DEF EnterCheck
    <3> QED
      BY <2>1, <3>1, Invisible
  <2>3. CASE ~stopRequested
    <3>1. Inside(t)'
      BY <1>23, <2>3 DEF EnterCheck
    <3>2. Collector = None
      BY Zenon, <2>3, CollectorIs DEF StopInv, Stopping
    <3>3. STW!EnterRegion(t)
      BY <2>1, <3>1, <3>2, CollectorSame DEF STW!EnterRegion, InsideThreads
    <3> QED
      BY Zenon, <3>3 DEF STW!Next
  <2> QED
    BY Zenon, <2>2, <2>3
<1>24. ASSUME NEW t \in Threads, ScanQuiet(t) PROVE [STW!Next]_STW!vars
  <2>1. \A c \in Threads : pc[c] # "collect"
    BY SMTT(30), <1>24 DEF ScanQuiet, LockInv, Locking, Stopping
  <2>2. Collector = None /\ Collector' = t
    BY ZenonT(40), <1>24, <2>1, CollectorIs, CollectorIsNext DEF ScanQuiet
  <2>3. \A u \in Threads : ~Inside(u) /\ ~Inside(u)'
    BY <1>24 DEF ScanQuiet, ScanInv
  <2>4. STW!StartCollection(t)
    BY Zenon, <2>2, <2>3 DEF STW!StartCollection, InsideThreads
  <2> QED
    BY Zenon, <2>4 DEF STW!Next
<1>25. ASSUME NEW t \in Threads, CollectDone(t) PROVE [STW!Next]_STW!vars
  <2>1. \A u \in Threads : Inside(u)' <=> Inside(u)
    BY <1>25 DEF CollectDone
  <2>2. \A c \in Threads : pc'[c] # "collect"
    BY SMTT(30), <1>25 DEF CollectDone, LockInv, Locking, Stopping
  <2>3. Collector = t /\ Collector' = None
    BY Zenon, <1>25, <2>2, CollectorIs, CollectorIsNext DEF CollectDone
  <2>4. STW!EndCollection
    BY SMTT(30), <2>1, <2>3 DEF STW!EndCollection, InsideThreads
  <2> QED
    BY Zenon, <2>4 DEF STW!Next
<1>26. ASSUME NEW t \in Threads, CollectThrows(t) PROVE [STW!Next]_STW!vars
  <2>1. \A u \in Threads : Inside(u)' <=> Inside(u)
    BY <1>26 DEF CollectThrows
  <2>2. \A c \in Threads : pc'[c] # "collect"
    BY SMTT(30), <1>26 DEF CollectThrows, LockInv, Locking, Stopping
  <2>3. Collector = t /\ Collector' = None
    BY Zenon, <1>26, <2>2, CollectorIs, CollectorIsNext DEF CollectThrows
  <2>4. STW!EndCollection
    BY Zenon, <2>1, <2>3 DEF STW!EndCollection, InsideThreads
  <2> QED
    BY Zenon, <2>4 DEF STW!Next
<1>27. CASE CapPasses \/ BackoffPasses \/ UNCHANGED gateVars
  <2>1. /\ \A u \in Threads : Inside(u)' <=> Inside(u)
        /\ \A c \in Threads : pc'[c] = "collect" <=> pc[c] = "collect"
    BY Zenon, <1>27 DEF CapPasses, BackoffPasses, gateVars
  <2> QED
    BY Zenon, <2>1, Invisible
<1> QED
  BY Zenon, <1>1, <1>2, <1>3, <1>4, <1>5, <1>6, <1>7, <1>8, <1>9, <1>10, <1>11,
     <1>12, <1>13, <1>14, <1>15, <1>16, <1>17, <1>18, <1>19, <1>20, <1>21,
     <1>22, <1>23, <1>24, <1>25, <1>26, <1>27
     DEF GateNext, GateStep, WorkStep

(* The gate implements StopTheWorld, for every set of threads. *)
THEOREM GateImplementsStopTheWorld == GateSpec => ImplementsStopTheWorld
<1>1. GateInit => STW!Init
  <2> SUFFICES ASSUME GateInit PROVE STW!Init
    BY Zenon
  <2>1. InsideThreads = {}
    BY Zenon DEF GateInit, InsideThreads, Inside, Working
  <2>2. Collector = None
    BY Zenon, InitIInv, CollectorIs DEF GateInit
  <2> QED
    BY Zenon, <2>1, <2>2 DEF STW!Init
<1> QED
  BY <1>1, GateInvariant, StepRefines, PTL DEF GateSpec, ImplementsStopTheWorld, STW!Spec

-----------------------------------------------------------------------------
(* HeapPacing *)

INSTANCE FiniteSetTheorems


Fields == {"pending", "slowPath", "exceeded", "elderSince", "elderBudget",
           "largeSince", "largeLive", "largeBudget", "blockSince",
           "blockBudget", "blockBase", "owed"}

(* The allocator's record, whatever its volumes are. *)
Shape(g) ==
  /\ DOMAIN g = Fields
  /\ g = [f \in Fields |-> g[f]]
  /\ g.pending \in Kinds

(* What requests leave true of it: the inductive part of NoRequestLost. *)
Kept(g) ==
  /\ Shape(g)
  /\ g.owed \subseteq Parts(g.pending)
  /\ g.pending # "None" => g.slowPath

(* The inductive invariant.  Credit is only ever given under a limit. *)
Sound(g) == Kept(g) /\ (g.exceeded => MajorPending(g) /\ HeapLimit # 0)

(* What the accounting of one allocation or promotion does to a record. *)
Follows(g, h) ==
  /\ Kept(h)
  /\ MajorPending(g) => MajorPending(h)
  /\ h.exceeded = g.exceeded

LEMMA PartsCombine ==
  \A a, b \in Kinds : /\ Combine(a, b) \in Kinds
                      /\ Parts(Combine(a, b)) = Parts(a) \union Parts(b)
                      /\ b # "None" => Combine(a, b) # "None"
BY DEF Kinds, Combine, Parts

LEMMA FollowsTwice ==
  ASSUME NEW g, NEW h, NEW k, Follows(g, h), Follows(h, k)
  PROVE  Follows(g, k)
BY Zenon DEF Follows

LEMMA FollowsSound ==
  ASSUME NEW g, NEW h, Sound(g), Follows(g, h)
  PROVE  Sound(h)
BY Zenon DEF Follows, Sound

LEMMA RequestKeeps ==
  ASSUME NEW g, Kept(g), NEW kind \in {"Minor", "Major"}
  PROVE  /\ Follows(g, Request(g, kind))
         /\ kind = "Major" => MajorPending(Request(g, kind))
<1>1. kind \in Kinds /\ kind # "None"
  BY Zenon DEF Kinds
<1>2. DOMAIN Request(g, kind) = Fields
  BY Zenon DEF Request, Kept, Shape
<1>3. Request(g, kind) = [f \in Fields |-> Request(g, kind)[f]]
  BY Zenon DEF Request, Kept, Shape
<1>4. /\ Request(g, kind).pending = Combine(g.pending, kind)
      /\ Request(g, kind).slowPath = TRUE
      /\ Request(g, kind).owed = g.owed \union Parts(kind)
      /\ Request(g, kind).exceeded = g.exceeded
  BY Zenon DEF Request, Kept, Shape, Fields
<1>5. Kept(Request(g, kind))
  BY <1>1, <1>2, <1>3, <1>4, PartsCombine DEF Kept, Shape
<1>6. /\ MajorPending(g) => MajorPending(Request(g, kind))
      /\ kind = "Major" => MajorPending(Request(g, kind))
  BY Zenon, <1>4 DEF MajorPending, Combine, Kept, Shape, Kinds
<1> QED
  BY Zenon, <1>4, <1>5, <1>6 DEF Follows

LEMMA RequestIfKeeps ==
  ASSUME NEW g, Kept(g), NEW kind \in {"Minor", "Major"}, NEW condition
  PROVE  Follows(g, RequestIf(g, kind, condition))
BY Zenon, RequestKeeps DEF RequestIf, Follows

(* A field the invariant does not read may be set to anything. *)
LEMMA VolumesAreFree ==
  ASSUME NEW g, NEW h, Kept(g), DOMAIN h = Fields, h = [f \in Fields |-> h[f]],
         h.pending = g.pending, h.slowPath = g.slowPath,
         h.exceeded = g.exceeded, h.owed = g.owed
  PROVE  Follows(g, h)
BY Zenon DEF Follows, Kept, Shape, MajorPending

(* Credit comes with the request that calls it in. *)
LEMMA GiveCredit ==
  ASSUME NEW g, Kept(g), HeapLimit # 0
  PROVE  Sound(Request([g EXCEPT !.exceeded = TRUE], "Major"))
<1> DEFINE h == [g EXCEPT !.exceeded = TRUE]
<1>1. /\ DOMAIN h = Fields /\ h = [f \in Fields |-> h[f]]
      /\ h.pending = g.pending /\ h.slowPath = g.slowPath /\ h.owed = g.owed
  BY Zenon DEF Kept, Shape, Fields
<1>2. Kept(h)
  BY Zenon, <1>1 DEF Kept, Shape
<1> QED
  BY Zenon, <1>2, RequestKeeps DEF Sound, Follows

LEMMA CheckHeapLimitKeeps ==
  ASSUME NEW g, Sound(g), NEW request
  PROVE  Sound(CheckHeapLimit(g, request))
BY Zenon, GiveCredit DEF CheckHeapLimit, Sound

LEMMA TakeElderKeeps ==
  ASSUME NEW g, Kept(g), NEW bytes
  PROVE  Follows(g, TakeElder(g, bytes))
<1> DEFINE h == [g EXCEPT !.elderSince = @ + bytes]
<1>1. /\ DOMAIN h = Fields /\ h = [f \in Fields |-> h[f]]
      /\ h.pending = g.pending /\ h.slowPath = g.slowPath
      /\ h.exceeded = g.exceeded /\ h.owed = g.owed
  BY Zenon DEF Kept, Shape, Fields
<1>2. Follows(g, h)
  BY Zenon, <1>1, VolumesAreFree
<1> DEFINE asks == /\ h.elderSince + BlockGrowth(g, BlockBytesLive) >= g.elderBudget
                   /\ ~ MajorPending(g)
<1>3. Follows(h, RequestIf(h, "Major", asks))
  <2> HIDE DEF h, asks
  <2> QED  BY Zenon, <1>2, RequestIfKeeps DEF Follows
<1>4. Follows(g, RequestIf(h, "Major", asks))
  <2> HIDE DEF h, asks
  <2> QED  BY Zenon, <1>2, <1>3, FollowsTwice
<1> QED
  BY Zenon, <1>4 DEF TakeElder

LEMMA TakeLargeKeeps ==
  ASSUME NEW g, Kept(g), NEW bytes
  PROVE  Follows(g, TakeLarge(g, bytes))
<1> DEFINE h == [g EXCEPT !.largeSince = @ + bytes]
<1>1. /\ DOMAIN h = Fields /\ h = [f \in Fields |-> h[f]]
      /\ h.pending = g.pending /\ h.slowPath = g.slowPath
      /\ h.exceeded = g.exceeded /\ h.owed = g.owed
  BY Zenon DEF Kept, Shape, Fields
<1>2. Follows(g, h)
  BY Zenon, <1>1, VolumesAreFree
<1> DEFINE asks == h.largeSince + BlockGrowth(g, BlockBytesLive) >= g.largeBudget
<1>3. Follows(h, RequestIf(h, "Major", asks))
  <2> HIDE DEF h, asks
  <2> QED  BY Zenon, <1>2, RequestIfKeeps DEF Follows
<1>4. Follows(g, RequestIf(h, "Major", asks))
  <2> HIDE DEF h, asks
  <2> QED  BY Zenon, <1>2, <1>3, FollowsTwice
<1> QED
  BY Zenon, <1>4 DEF TakeLarge

LEMMA TakeElderBlockKeeps ==
  ASSUME NEW g, Kept(g), NEW added
  PROVE  Follows(g, TakeElderBlock(g, added))
<1> DEFINE h == [g EXCEPT !.blockSince = @ + added]
<1>1. /\ DOMAIN h = Fields /\ h = [f \in Fields |-> h[f]]
      /\ h.pending = g.pending /\ h.slowPath = g.slowPath
      /\ h.exceeded = g.exceeded /\ h.owed = g.owed
  BY Zenon DEF Kept, Shape, Fields
<1>2. Follows(g, h)
  BY Zenon, <1>1, VolumesAreFree
<1> DEFINE asks == added # 0 /\ h.blockSince >= g.blockBudget /\ ~ MajorPending(g)
<1>3. Follows(h, RequestIf(h, "Major", asks))
  <2> HIDE DEF h, asks
  <2> QED  BY Zenon, <1>2, RequestIfKeeps DEF Follows
<1>4. Follows(g, RequestIf(h, "Major", asks))
  <2> HIDE DEF h, asks
  <2> QED  BY Zenon, <1>2, <1>3, FollowsTwice
<1> QED
  BY Zenon, <1>4 DEF TakeElderBlock

LEMMA SweepKeeps ==
  ASSUME NEW g, Kept(g), NEW a, NEW b, NEW c
  PROVE  Follows(g, Sweep(g, a, b, c))
<1> DEFINE h == Sweep(g, a, b, c)
<1>1. /\ DOMAIN h = Fields /\ h = [f \in Fields |-> h[f]]
      /\ h.pending = g.pending /\ h.slowPath = g.slowPath
      /\ h.exceeded = g.exceeded /\ h.owed = g.owed
  BY Zenon DEF Kept, Shape, Fields, Sweep
<1> QED
  BY Zenon, <1>1, VolumesAreFree

LEMMA PromoteKeeps ==
  ASSUME NEW g, Kept(g), NEW P
  PROVE  Follows(g, Promote(g, P))
<1>1. CASE P = {}
  BY Zenon, <1>1 DEF Promote, Follows
<1>2. CASE P # {}
  <2> DEFINE h == TakeElder(g, Volume(size, P))
             added == Volume([o \in P |-> block[o] - paced[o]], P)
  <2>1. Follows(g, h)
    BY Zenon, TakeElderKeeps
  <2>2. Follows(h, TakeElderBlock(h, added))
    BY Zenon, <2>1, TakeElderBlockKeeps DEF Follows
  <2> QED
    BY Zenon, <1>2, <2>1, <2>2, FollowsTwice DEF Promote
<1> QED
  BY Zenon, <1>1, <1>2

(* Taking the request settles it; only what a collection of both spaces    *)
(* will settle may then be outstanding credit.                             *)
LEMMA TakeRequestKeeps ==
  ASSUME NEW g, Sound(g)
  PROVE  /\ Kept(TakeRequest(g))
         /\ TakeRequest(g).exceeded => g.pending \notin {"None", "Minor"}
         /\ TakeRequest(g).exceeded => HeapLimit # 0
         /\ g.pending \in Kinds
<1> DEFINE h == TakeRequest(g)
<1>1. /\ DOMAIN h = Fields /\ h = [f \in Fields |-> h[f]]
      /\ h.pending = "None" /\ h.slowPath = g.slowPath
      /\ h.exceeded = g.exceeded /\ h.owed = g.owed \ Parts(g.pending)
  BY Zenon DEF TakeRequest, Sound, Kept, Shape, Fields
<1>2. h.owed = {}
  BY Zenon, <1>1 DEF Sound, Kept
<1>3. Kept(h)
  BY Zenon, <1>1, <1>2 DEF Kept, Shape, Kinds
<1> QED
  BY Zenon, <1>1, <1>3 DEF Sound, Kept, Shape, MajorPending

(* The limit check after a collection leaves no credit without a request. *)
LEMMA LimitAfterKeeps ==
  ASSUME NEW g, Kept(g), NEW kind \in Kinds, NEW inUse,
         g.exceeded => kind \notin {"None", "Minor"} /\ HeapLimit # 0
  PROVE  Sound(LimitAfter(g, kind, inUse))
<1>1. CASE HeapLimit = 0 \/ kind = "None"
  BY Zenon, <1>1 DEF LimitAfter, Sound
<1>2. CASE HeapLimit # 0 /\ kind \in {"Major", "MinorAndMajor"}
  <2> DEFINE h == [g EXCEPT !.exceeded = FALSE]
  <2>1. /\ DOMAIN h = Fields /\ h = [f \in Fields |-> h[f]]
        /\ h.pending = g.pending /\ h.slowPath = g.slowPath
        /\ h.exceeded = FALSE /\ h.owed = g.owed
    BY Zenon DEF Kept, Shape, Fields
  <2>2. Sound(h)
    BY Zenon, <2>1 DEF Sound, Kept, Shape
  <2> QED
    BY Zenon, <1>2, <2>2 DEF LimitAfter
<1>3. CASE HeapLimit # 0 /\ kind = "Minor"
  BY Zenon, <1>3, GiveCredit DEF LimitAfter, Sound
<1> QED
  BY Zenon, <1>1, <1>2, <1>3 DEF Kinds

LEMMA PublishKeeps ==
  ASSUME NEW g, Sound(g), NEW throws
  PROVE  Sound(Publish(g, throws))
<1> DEFINE h == [g EXCEPT !.slowPath = g.pending # "None"]
<1>1. /\ DOMAIN h = Fields /\ h = [f \in Fields |-> h[f]]
      /\ h.pending = g.pending /\ h.slowPath = (g.pending # "None")
      /\ h.exceeded = g.exceeded /\ h.owed = g.owed
  BY Zenon DEF Sound, Kept, Shape, Fields
<1>2. Sound(h)
  BY Zenon, <1>1 DEF Sound, Kept, Shape, MajorPending
<1> QED
  BY Zenon, <1>2 DEF Publish

LEMMA NoteBaseKeeps ==
  ASSUME NEW g, Sound(g), NEW kind, NEW throws, NEW live
  PROVE  Sound(NoteBase(g, kind, throws, live))
<1> DEFINE h == [g EXCEPT !.blockBase = live]
<1>1. /\ DOMAIN h = Fields /\ h = [f \in Fields |-> h[f]]
      /\ h.pending = g.pending /\ h.slowPath = g.slowPath
      /\ h.exceeded = g.exceeded /\ h.owed = g.owed
  BY Zenon DEF Sound, Kept, Shape, Fields
<1>2. Sound(h)
  BY Zenon, <1>1, VolumesAreFree, FollowsSound DEF Sound
<1> QED
  BY Zenon, <1>2 DEF NoteBase

(* A collection that serves a request leaves the allocator sound, whatever *)
(* it keeps and promotes, and whether or not its safepoint throws.         *)
LEMMA CollectKeeps ==
  ASSUME NEW g, Sound(g), NEW S, NEW P,
         Collect(TakeRequest(g), g.pending, S, P)
  PROVE  Sound(gc')
<1> DEFINE t == TakeRequest(g)
           kind == g.pending
           p == Promote(t, P)
<1>1. /\ Kept(t) /\ kind \in Kinds
      /\ t.exceeded => kind \notin {"None", "Minor"} /\ HeapLimit # 0
  BY Zenon, TakeRequestKeeps
<1>2. Follows(t, p)
  BY Zenon, <1>1, PromoteKeeps
<1>3. \A a, b, c : Follows(t, Sweep(p, a, b, c))
  BY <1>2, SweepKeeps, FollowsTwice DEF Follows
<1>4. \A k, inUse : Follows(t, k) => Sound(LimitAfter(k, kind, inUse))
  BY Zenon, <1>1, LimitAfterKeeps DEF Follows
<1> HIDE DEF t, kind, p
<1>5. PICK k, inUse, throws, live :
        /\ k = p \/ \E a, b, c : k = Sweep(p, a, b, c)
        /\ gc' = NoteBase(Publish(LimitAfter(k, kind, inUse), throws), kind, throws, live)
  <2>1. Collect(t, kind, S, P) /\ p = Promote(t, P)
    BY Zenon DEF t, kind, p
  <2> QED
    BY ONLY ZenonT(40), <2>1 DEF Collect
<1>6. Follows(t, k)
  BY Zenon, <1>2, <1>3, <1>5
<1> QED
  BY Zenon, <1>4, <1>5, <1>6, PublishKeeps, NoteBaseKeeps

-----------------------------------------------------------------------------

LEMMA InitSound == Init => Sound(gc)
<1> SUFFICES ASSUME Init PROVE Sound(gc)
  BY Zenon
<1>1. /\ DOMAIN gc = Fields
      /\ gc = [f \in Fields |-> gc[f]]
      /\ gc.pending = "None" /\ gc.owed = {} /\ gc.exceeded = FALSE
  BY Zenon DEF Init, Fields
<1> QED
  BY Zenon, <1>1 DEF Sound, Kept, Shape, Kinds

LEMMA NextSound == Sound(gc) /\ [Next]_vars => Sound(gc')
<1> SUFFICES ASSUME Sound(gc), [Next]_vars PROVE Sound(gc')
  BY Zenon
<1>0. Kept(gc)
  BY Zenon DEF Sound
<1>1. ASSUME NEW o, NEW n, AllocYoung(o, n) PROVE Sound(gc')
  <2>1. PICK condition : gc' = RequestIf(gc, "Minor", condition)
    BY Zenon, <1>1 DEF AllocYoung
  <2> QED
    BY Zenon, <1>0, <2>1, RequestIfKeeps, FollowsSound
<1>2. ASSUME NEW o, NEW n, AllocElder(o, n) PROVE Sound(gc')
  <2> DEFINE asked == RequestIf(gc, "Minor", Copying /\ ~ MinorPending(gc))
  <2>1. gc' = TakeElder(CheckHeapLimit(asked, n), n)
    BY Zenon, <1>2 DEF AllocElder
  <2>2. Sound(asked)
    BY Zenon, <1>0, RequestIfKeeps, FollowsSound
  <2> HIDE DEF asked
  <2>3. Sound(CheckHeapLimit(asked, n))
    BY Zenon, <2>2, CheckHeapLimitKeeps
  <2> QED
    BY Zenon, <2>1, <2>3, TakeElderKeeps, FollowsSound DEF Sound
<1>3. ASSUME NEW o, NEW n, AllocElderRefused(o, n) PROVE Sound(gc')
  BY Zenon, <1>0, <1>3, RequestIfKeeps, FollowsSound DEF AllocElderRefused
<1>4. ASSUME NEW o, NEW n, AllocLarge(o, n) PROVE Sound(gc')
  <2>1. gc' = TakeLarge(CheckHeapLimit(gc, n), n)
    BY Zenon, <1>4 DEF AllocLarge
  <2>2. Sound(CheckHeapLimit(gc, n))
    BY Zenon, CheckHeapLimitKeeps
  <2> QED
    BY Zenon, <2>1, <2>2, TakeLargeKeeps, FollowsSound DEF Sound
<1>5. ASSUME NEW o, NEW bytes, HoldBlock(o, bytes) PROVE Sound(gc')
  <2> DEFINE checked == CheckHeapLimit(gc, bytes - block[o])
  <2>1. gc' = checked \/ gc' = TakeElderBlock(checked, bytes - paced[o])
    BY Zenon, <1>5 DEF HoldBlock
  <2>2. Sound(checked)
    BY Zenon, CheckHeapLimitKeeps
  <2> HIDE DEF checked
  <2> QED
    BY Zenon, <2>1, <2>2, TakeElderBlockKeeps, FollowsSound DEF Sound
<1>6. ASSUME NEW o, NEW bytes, AdoptBlock(o, bytes) PROVE Sound(gc')
  <2>1. gc' = gc \/ gc' = TakeElderBlock(gc, bytes)
    BY Zenon, <1>6 DEF AdoptBlock
  <2> QED
    BY Zenon, <1>0, <2>1, TakeElderBlockKeeps, FollowsSound
<1>7. ASSUME Safepoint PROVE Sound(gc')
  BY Zenon, <1>7, CollectKeeps DEF Safepoint, CollectSome
<1>8. ASSUME NEW kind \in {"Minor", "Major"}, ManualGC(kind) PROVE Sound(gc')
  <2>1. Sound(Request(gc, kind))
    BY Zenon, <1>0, RequestKeeps, FollowsSound
  <2>2. PICK S, P : Collect(TakeRequest(Request(gc, kind)), Request(gc, kind).pending, S, P)
    BY Zenon, <1>8 DEF ManualGC, CollectSome
  <2> QED
    BY Zenon, <2>1, <2>2, CollectKeeps
<1>9. ASSUME UNCHANGED gc PROVE Sound(gc')
  BY Zenon, <1>9
<1>10. (\E o \in Objects : Drop(o)) \/ OpenScope \/ CloseScope
         \/ DestroyContext \/ UNCHANGED vars => UNCHANGED gc
  BY Zenon DEF Drop, OpenScope, CloseScope, DestroyContext, vars
<1> QED
  BY Zenon, <1>1, <1>2, <1>3, <1>4, <1>5, <1>6, <1>7, <1>8, <1>9, <1>10 DEF Next

PacingInv == Sound(gc)

LEMMA AlwaysSound == Spec => []PacingInv
<1>1. Init => PacingInv
  BY Zenon, InitSound DEF PacingInv
<1>2. PacingInv /\ [Next]_vars => PacingInv'
  BY Zenon, NextSound DEF PacingInv
<1> QED
  BY <1>1, <1>2, PTL DEF Spec

(* For every heap, budget and limit: what an allocation, a promotion or    *)
(* the limit asked for stays pending, and polled for, until a collection   *)
(* has run it.                                                             *)
THEOREM RequestsAreKept == Spec => []NoRequestLost
<1>1. PacingInv => NoRequestLost
  BY Zenon DEF PacingInv, Sound, Kept, NoRequestLost
<1> QED
  BY <1>1, AlwaysSound, PTL

(* For every heap and limit: whoever is over the limit on credit has a     *)
(* major collection coming.  A safepoint takes the request before it runs  *)
(* it, so the claim rests on credit being cleared by the same collection.  *)
THEOREM CreditIsAlwaysCalled == Spec => []CreditIsCalled
<1>1. PacingInv => CreditIsCalled
  BY Zenon DEF PacingInv, Sound, CreditIsCalled
<1> QED
  BY <1>1, AlwaysSound, PTL

-----------------------------------------------------------------------------
(* Volumes of finitely many objects can be added up. *)
LEMMA UnitsFinite ==
  ASSUME NEW S, IsFiniteSet(S), NEW f, \A o \in S : f[o] \in Int
  PROVE  IsFiniteSet(Units(f, S)) /\ Volume(f, S) \in Nat
<1> DEFINE part == [o \in S |-> {o} \X (1 .. f[o])]
           T == {{o} \X (1 .. f[o]) : o \in S}
<1>1. part \in Surjection(S, T)
  BY Zenon DEF Surjection
<1>2. IsFiniteSet(T)
  BY Zenon, <1>1, FS_Surjection
<1>3. ASSUME NEW o \in S PROVE IsFiniteSet({o} \X (1 .. f[o]))
  <2>1. IsFiniteSet(1 .. f[o])
    BY FS_Interval
  <2>2. IsFiniteSet({o})
    BY Zenon, FS_Singleton
  <2> QED
    BY Zenon, <2>1, <2>2, FS_Product
<1>4. IsFiniteSet(UNION T)
  BY Zenon, <1>2, <1>3, FS_UNION
<1>5. IsFiniteSet(Units(f, S))
  BY Zenon, <1>4 DEF Units
<1> QED
  BY Zenon, <1>5, FS_CardinalityType DEF Volume

(* Only what f says of the objects counted matters. *)
LEMMA SameVolume ==
  ASSUME NEW S, NEW f, NEW g, \A o \in S : f[o] = g[o]
  PROVE  Volume(f, S) = Volume(g, S)
BY Zenon DEF Volume, Units

(* One more object adds its volume. *)
LEMMA AddVolume ==
  ASSUME NEW S, IsFiniteSet(S), NEW f, \A p \in S : f[p] \in Int,
         NEW o, o \notin S, f[o] \in Nat
  PROVE  Volume(f, S \union {o}) = Volume(f, S) + f[o]
<1> DEFINE A == Units(f, S)
           B == {o} \X (1 .. f[o])
<1>1. IsFiniteSet(A) /\ Cardinality(A) \in Nat
  BY Zenon, UnitsFinite, FS_CardinalityType
<1>2. IsFiniteSet(1 .. f[o]) /\ Cardinality(1 .. f[o]) = f[o]
  BY SMTT(30), FS_Interval
<1>3. IsFiniteSet({o}) /\ Cardinality({o}) = 1
  BY Zenon, FS_Singleton
<1>4. IsFiniteSet(B) /\ Cardinality(B) = f[o]
  <2>1. IsFiniteSet(B) /\ Cardinality(B) = Cardinality({o}) * Cardinality(1 .. f[o])
    BY Zenon, <1>2, <1>3, FS_Product
  <2> QED
    BY <1>2, <1>3, <2>1
<1>5. A \intersect B = {}
  BY DEF Units
<1>6. Units(f, S \union {o}) = A \union B
  BY Zenon DEF Units
<1>7. Cardinality(A \intersect B) = 0
  BY Zenon, <1>5, FS_EmptySet
<1> HIDE DEF A, B
<1>8. Cardinality(A \union B) = Cardinality(A) + Cardinality(B) - Cardinality(A \intersect B)
  BY Zenon, <1>1, <1>4, FS_Union
<1>9. Cardinality(A \union B) = Cardinality(A) + f[o]
  BY <1>1, <1>4, <1>7, <1>8
<1> QED
  BY Zenon, <1>6, <1>9 DEF Volume, A

-----------------------------------------------------------------------------
(* The records the allocator's fields are drawn from (TypeOK). *)
Records ==
  [pending : Kinds, slowPath : BOOLEAN, exceeded : BOOLEAN,
   elderSince : Nat, elderBudget : Nat,
   largeSince : Nat, largeLive : Nat, largeBudget : Nat,
   blockSince : Nat, blockBudget : Nat, blockBase : Nat,
   owed : SUBSET {"Minor", "Major"}]

(* What the large objects are counted at. *)
LargeOf(g) == g.largeLive + g.largeSince

(* VolumeIsPaced, of any record. *)
Below(g) ==
  /\ g.elderSince < g.elderBudget
  /\ g.largeSince < g.largeBudget
  /\ g.blockSince < g.blockBudget

PacedRecord(g) == MajorPending(g) \/ Below(g)

(* A step of the accounting that leaves the large objects alone. *)
Counts(g, h) ==
  /\ h \in Records
  /\ PacedRecord(g) => PacedRecord(h)
  /\ LargeOf(h) = LargeOf(g)

LEMMA CountsTwice ==
  ASSUME NEW g, NEW h, NEW k, Counts(g, h), Counts(h, k)
  PROVE  Counts(g, k)
BY Zenon DEF Counts

LEMMA PartsAreKinds == \A kind \in Kinds : Parts(kind) \subseteq {"Minor", "Major"}
BY Zenon DEF Kinds, Parts

LEMMA RequestCounts ==
  ASSUME NEW g \in Records, NEW kind \in {"Minor", "Major"}
  PROVE  /\ Counts(g, Request(g, kind))
         /\ kind = "Major" => MajorPending(Request(g, kind))
<1>1. kind \in Kinds
  BY Zenon DEF Kinds
<1>2. Combine(g.pending, kind) \in Kinds /\ g.owed \union Parts(kind) \subseteq {"Minor", "Major"}
  BY Zenon, <1>1, PartsCombine, PartsAreKinds DEF Records
<1>3. /\ MajorPending(g) => Combine(g.pending, kind) \in {"Major", "MinorAndMajor"}
      /\ kind = "Major" => Combine(g.pending, kind) \in {"Major", "MinorAndMajor"}
  BY Zenon DEF Records, Kinds, Combine, MajorPending
<1>4. Request(g, kind) \in Records
  BY Zenon, <1>2 DEF Request, Records
<1>5. /\ Request(g, kind).pending = Combine(g.pending, kind)
      /\ Request(g, kind).elderSince = g.elderSince
      /\ Request(g, kind).elderBudget = g.elderBudget
      /\ Request(g, kind).largeSince = g.largeSince
      /\ Request(g, kind).largeBudget = g.largeBudget
      /\ Request(g, kind).blockSince = g.blockSince
      /\ Request(g, kind).blockBudget = g.blockBudget
      /\ Request(g, kind).largeLive = g.largeLive
  BY Zenon DEF Request, Records
<1> QED
  BY Zenon, <1>3, <1>4, <1>5 DEF Counts, PacedRecord, Below, LargeOf, MajorPending

LEMMA RequestIfCounts ==
  ASSUME NEW g \in Records, NEW kind \in {"Minor", "Major"}, NEW condition
  PROVE  /\ Counts(g, RequestIf(g, kind, condition))
         /\ kind = "Major" /\ condition => MajorPending(RequestIf(g, kind, condition))
<1>1. Counts(g, g)
  BY Zenon DEF Counts
<1> QED
  BY Zenon, <1>1, RequestCounts DEF RequestIf

(* The fields that neither the budgets nor the large objects' count read. *)
LEMMA OtherFieldsCount ==
  ASSUME NEW g \in Records, NEW h \in Records, h.pending = g.pending,
         h.elderSince = g.elderSince, h.elderBudget = g.elderBudget,
         h.largeSince = g.largeSince, h.largeBudget = g.largeBudget,
         h.blockSince = g.blockSince, h.blockBudget = g.blockBudget,
         h.largeLive = g.largeLive
  PROVE  Counts(g, h)
BY Zenon DEF Counts, PacedRecord, Below, LargeOf, MajorPending

LEMMA SetExceeded ==
  ASSUME NEW g \in Records, NEW b \in BOOLEAN
  PROVE  Counts(g, [g EXCEPT !.exceeded = b])
<1> DEFINE h == [g EXCEPT !.exceeded = b]
<1>1. /\ h \in Records /\ h.pending = g.pending
      /\ h.elderSince = g.elderSince /\ h.elderBudget = g.elderBudget
      /\ h.largeSince = g.largeSince /\ h.largeBudget = g.largeBudget
      /\ h.blockSince = g.blockSince /\ h.blockBudget = g.blockBudget
      /\ h.largeLive = g.largeLive
  BY Zenon DEF Records
<1> HIDE DEF h
<1>2. Counts(g, h)
  BY Zenon, <1>1, OtherFieldsCount
<1> QED
  BY Zenon, <1>2 DEF h

LEMMA CreditCounts ==
  ASSUME NEW g \in Records
  PROVE  Counts(g, Request([g EXCEPT !.exceeded = TRUE], "Major"))
<1> DEFINE h == [g EXCEPT !.exceeded = TRUE]
<1>1. Counts(g, h)
  BY Zenon, SetExceeded
<1> HIDE DEF h
<1>2. Counts(h, Request(h, "Major"))
  BY Zenon, <1>1, RequestCounts DEF Counts
<1>3. Counts(g, Request(h, "Major"))
  BY Zenon, <1>1, <1>2, CountsTwice
<1> QED
  BY Zenon, <1>3 DEF h

LEMMA CheckHeapLimitCounts ==
  ASSUME NEW g \in Records, NEW request
  PROVE  Counts(g, CheckHeapLimit(g, request))
<1>1. Counts(g, g)
  BY Zenon DEF Counts
<1> QED
  BY Zenon, <1>1, CreditCounts DEF CheckHeapLimit

LEMMA GrowthType == ASSUME NEW g \in Records, NEW live \in Nat PROVE BlockGrowth(g, live) \in Nat
BY DEF BlockGrowth, Records

(* Bytes for the elder space: over its budget, a major collection is       *)
(* pending.                                                                *)
LEMMA TakeElderCounts ==
  ASSUME NEW g \in Records, NEW bytes \in Nat, BlockBytesLive \in Nat
  PROVE  Counts(g, TakeElder(g, bytes))
<1> DEFINE h == [g EXCEPT !.elderSince = @ + bytes]
           asks == /\ h.elderSince + BlockGrowth(g, BlockBytesLive) >= g.elderBudget
                   /\ ~ MajorPending(g)
<1>1. /\ h \in Records /\ h.pending = g.pending
      /\ h.elderSince = g.elderSince + bytes /\ h.elderBudget = g.elderBudget
      /\ h.largeSince = g.largeSince /\ h.largeBudget = g.largeBudget
      /\ h.blockSince = g.blockSince /\ h.blockBudget = g.blockBudget
      /\ h.largeLive = g.largeLive
  BY DEF Records
<1>2. BlockGrowth(g, BlockBytesLive) \in Nat /\ g.elderSince \in Nat /\ g.elderBudget \in Nat
  BY Zenon, GrowthType DEF Records
<1>3. TakeElder(g, bytes) = RequestIf(h, "Major", asks)
  BY Zenon DEF TakeElder
<1>4. ~ asks /\ PacedRecord(g) => PacedRecord(h)
  <2> HIDE DEF h
  <2> QED BY <1>1, <1>2 DEF PacedRecord, Below, MajorPending
<1> HIDE DEF h, asks
<1>5. /\ Counts(h, RequestIf(h, "Major", asks))
      /\ asks => MajorPending(RequestIf(h, "Major", asks))
  BY Zenon, <1>1, RequestIfCounts
<1> QED
  BY Zenon, <1>1, <1>3, <1>4, <1>5 DEF Counts, LargeOf, PacedRecord

LEMMA TakeElderBlockCounts ==
  ASSUME NEW g \in Records, NEW added \in Nat
  PROVE  Counts(g, TakeElderBlock(g, added))
<1> DEFINE h == [g EXCEPT !.blockSince = @ + added]
           asks == added # 0 /\ h.blockSince >= g.blockBudget /\ ~ MajorPending(g)
<1>1. /\ h \in Records /\ h.pending = g.pending
      /\ h.elderSince = g.elderSince /\ h.elderBudget = g.elderBudget
      /\ h.largeSince = g.largeSince /\ h.largeBudget = g.largeBudget
      /\ h.blockSince = g.blockSince + added /\ h.blockBudget = g.blockBudget
      /\ h.largeLive = g.largeLive
  BY DEF Records
<1>2. g.blockSince \in Nat /\ g.blockBudget \in Nat
  BY Zenon DEF Records
<1>3. TakeElderBlock(g, added) = RequestIf(h, "Major", asks)
  BY Zenon DEF TakeElderBlock
<1>4. ~ asks /\ PacedRecord(g) => PacedRecord(h)
  <2> HIDE DEF h
  <2> QED BY <1>1, <1>2 DEF PacedRecord, Below, MajorPending
<1> HIDE DEF h, asks
<1>5. /\ Counts(h, RequestIf(h, "Major", asks))
      /\ asks => MajorPending(RequestIf(h, "Major", asks))
  BY Zenon, <1>1, RequestIfCounts
<1> QED
  BY Zenon, <1>1, <1>3, <1>4, <1>5 DEF Counts, LargeOf, PacedRecord

(* A large object is counted once, and over the budget a major collection  *)
(* is pending.                                                             *)
LEMMA TakeLargeCounts ==
  ASSUME NEW g \in Records, NEW bytes \in Nat, BlockBytesLive \in Nat
  PROVE  /\ TakeLarge(g, bytes) \in Records
         /\ PacedRecord(g) => PacedRecord(TakeLarge(g, bytes))
         /\ LargeOf(TakeLarge(g, bytes)) = LargeOf(g) + bytes
<1> DEFINE h == [g EXCEPT !.largeSince = @ + bytes]
           asks == h.largeSince + BlockGrowth(g, BlockBytesLive) >= g.largeBudget
<1>1. /\ h \in Records /\ h.pending = g.pending
      /\ h.elderSince = g.elderSince /\ h.elderBudget = g.elderBudget
      /\ h.largeSince = g.largeSince + bytes /\ h.largeBudget = g.largeBudget
      /\ h.blockSince = g.blockSince /\ h.blockBudget = g.blockBudget
      /\ h.largeLive = g.largeLive
  BY DEF Records
<1>2. /\ BlockGrowth(g, BlockBytesLive) \in Nat /\ g.largeSince \in Nat
      /\ g.largeBudget \in Nat /\ g.largeLive \in Nat
  BY Zenon, GrowthType DEF Records
<1>3. TakeLarge(g, bytes) = RequestIf(h, "Major", asks)
  BY Zenon DEF TakeLarge
<1>4. ~ asks /\ PacedRecord(g) => PacedRecord(h)
  <2> HIDE DEF h
  <2> QED BY <1>1, <1>2 DEF PacedRecord, Below, MajorPending
<1>6. LargeOf(h) = LargeOf(g) + bytes
  <2> HIDE DEF h
  <2> QED BY <1>1, <1>2 DEF LargeOf
<1> HIDE DEF h, asks
<1>5. /\ Counts(h, RequestIf(h, "Major", asks))
      /\ asks => MajorPending(RequestIf(h, "Major", asks))
  BY Zenon, <1>1, RequestIfCounts
<1> QED
  BY Zenon, <1>3, <1>4, <1>5, <1>6 DEF Counts, PacedRecord

(* A budget is never zero. *)
LEMMA BudgetType ==
  ASSUME NEW floor \in Nat, floor > 0, NEW live \in Nat
  PROVE  Budget(floor, live) \in Nat /\ Budget(floor, live) > 0
<1>1. live \div 100 \in Nat /\ live % 100 \in Nat /\ GrowthPercent \in Nat
  BY PacingConstants
<1>2. ASSUME NEW a \in Nat, NEW b \in Nat PROVE a * b \in Nat
  OBVIOUS
<1>3. (live \div 100) * GrowthPercent \in Nat /\ (live % 100) * GrowthPercent \in Nat
  BY Zenon, <1>1, <1>2
<1>4. ((live % 100) * GrowthPercent) \div 100 \in Nat
  BY <1>3
<1>5. Growth(live) \in Nat
  BY <1>3, <1>4 DEF Growth
<1> QED
  BY <1>5 DEF Budget

(* A sweep starts every budget over, and counts the large objects it left. *)
LEMMA SweepCounts ==
  ASSUME NEW g \in Records, NEW a \in Nat, NEW b \in Nat, NEW c \in Nat
  PROVE  /\ Sweep(g, a, b, c) \in Records
         /\ PacedRecord(Sweep(g, a, b, c))
         /\ LargeOf(Sweep(g, a, b, c)) = c
<1>1. ElderFloor \in Nat /\ LargeFloor \in Nat /\ ElderFloor > 0 /\ LargeFloor > 0
  BY Zenon, PacingConstants
<1>2. /\ Budget(ElderFloor, a) \in Nat /\ Budget(ElderFloor, a) > 0
      /\ Budget(LargeFloor, b) \in Nat /\ Budget(LargeFloor, b) > 0
      /\ Budget(LargeFloor, c) \in Nat /\ Budget(LargeFloor, c) > 0
  BY Zenon, <1>1, BudgetType
<1> DEFINE h == Sweep(g, a, b, c)
<1>3. h \in Records
  BY ZenonT(40), <1>2 DEF Sweep, Records
<1>4. /\ h.elderSince = 0 /\ h.elderBudget = Budget(ElderFloor, a)
      /\ h.largeSince = 0 /\ h.largeBudget = Budget(LargeFloor, c)
      /\ h.blockSince = 0 /\ h.blockBudget = Budget(LargeFloor, b)
      /\ h.largeLive = c
  BY Zenon DEF Sweep, Records
<1> HIDE DEF h
<1>5. PacedRecord(h) /\ LargeOf(h) = c
  BY <1>2, <1>4 DEF PacedRecord, Below, LargeOf
<1> QED
  BY Zenon, <1>3, <1>5 DEF h

LEMMA PromoteCounts ==
  ASSUME NEW g \in Records, NEW P, IsFiniteSet(P), BlockBytesLive \in Nat,
         \A o \in P : size[o] \in Nat /\ block[o] \in Nat /\ paced[o] \in Nat
  PROVE  Counts(g, Promote(g, P))
<1>0. Counts(g, g)
  BY Zenon DEF Counts
<1>1. CASE P = {}
  BY Zenon, <1>0, <1>1 DEF Promote
<1>2. CASE P # {}
  <2> DEFINE f == [o \in P |-> block[o] - paced[o]]
             h == TakeElder(g, Volume(size, P))
             added == Volume(f, P)
  <2>1. Volume(size, P) \in Nat
    BY UnitsFinite
  <2>2. \A o \in P : f[o] \in Int
    OBVIOUS
  <2>3. added \in Nat
    <3> HIDE DEF f
    <3> QED BY Zenon, <2>2, UnitsFinite
  <2>4. Counts(g, h)
    BY Zenon, <2>1, TakeElderCounts
  <2> HIDE DEF h, added
  <2>5. Counts(h, TakeElderBlock(h, added))
    BY Zenon, <2>3, <2>4, TakeElderBlockCounts DEF Counts
  <2>6. Counts(g, TakeElderBlock(h, added))
    BY Zenon, <2>4, <2>5, CountsTwice
  <2> QED
    BY Zenon, <1>2, <2>6 DEF Promote, h, added
<1> QED
  BY Zenon, <1>1, <1>2

(* Taking a request for the young space only leaves the budgets as they    *)
(* were; a request for the old one may leave them used up, until the sweep.*)
LEMMA TakeRequestCounts ==
  ASSUME NEW g \in Records
  PROVE  /\ TakeRequest(g) \in Records
         /\ PacedRecord(g) /\ "Major" \notin Parts(g.pending) => PacedRecord(TakeRequest(g))
         /\ LargeOf(TakeRequest(g)) = LargeOf(g)
<1> DEFINE h == TakeRequest(g)
<1>1. /\ h \in Records /\ h.pending = "None"
      /\ h.elderSince = g.elderSince /\ h.elderBudget = g.elderBudget
      /\ h.largeSince = g.largeSince /\ h.largeBudget = g.largeBudget
      /\ h.blockSince = g.blockSince /\ h.blockBudget = g.blockBudget
      /\ h.largeLive = g.largeLive
  BY Zenon DEF TakeRequest, Records, Kinds
<1>2. g.pending \in Kinds
  BY Zenon DEF Records
<1> HIDE DEF h
<1>3. LargeOf(h) = LargeOf(g)
  BY Zenon, <1>1 DEF LargeOf
<1>4. "Major" \notin Parts(g.pending) => ~ MajorPending(g)
  BY Zenon DEF Parts, MajorPending
<1>5. PacedRecord(g) /\ "Major" \notin Parts(g.pending) => PacedRecord(h)
  BY Zenon, <1>1, <1>4 DEF PacedRecord, Below
<1> QED
  BY Zenon, <1>1, <1>3, <1>5 DEF h

LEMMA LimitAfterCounts ==
  ASSUME NEW g \in Records, NEW kind \in Kinds, NEW inUse
  PROVE  Counts(g, LimitAfter(g, kind, inUse))
<1>0. Counts(g, g)
  BY Zenon DEF Counts
<1>1. Counts(g, [g EXCEPT !.exceeded = FALSE])
  BY Zenon, SetExceeded
<1>2. Counts(g, Request([g EXCEPT !.exceeded = TRUE], "Major"))
  BY Zenon, CreditCounts
<1> QED
  BY Zenon, <1>0, <1>1, <1>2 DEF LimitAfter, Kinds

LEMMA PublishCounts ==
  ASSUME NEW g \in Records, NEW throws
  PROVE  Counts(g, Publish(g, throws))
<1> DEFINE h == [g EXCEPT !.slowPath = g.pending # "None"]
<1>0. Counts(g, g)
  BY Zenon DEF Counts
<1>1. /\ h \in Records /\ h.pending = g.pending
      /\ h.elderSince = g.elderSince /\ h.elderBudget = g.elderBudget
      /\ h.largeSince = g.largeSince /\ h.largeBudget = g.largeBudget
      /\ h.blockSince = g.blockSince /\ h.blockBudget = g.blockBudget
      /\ h.largeLive = g.largeLive
  BY Zenon DEF Records
<1> HIDE DEF h
<1>2. Counts(g, h)
  BY Zenon, <1>1, OtherFieldsCount
<1> QED
  BY Zenon, <1>0, <1>2 DEF Publish, h

LEMMA NoteBaseCounts ==
  ASSUME NEW g \in Records, NEW kind, NEW throws, NEW live \in Nat
  PROVE  Counts(g, NoteBase(g, kind, throws, live))
<1> DEFINE h == [g EXCEPT !.blockBase = live]
<1>0. Counts(g, g)
  BY Zenon DEF Counts
<1>1. /\ h \in Records /\ h.pending = g.pending
      /\ h.elderSince = g.elderSince /\ h.elderBudget = g.elderBudget
      /\ h.largeSince = g.largeSince /\ h.largeBudget = g.largeBudget
      /\ h.blockSince = g.blockSince /\ h.blockBudget = g.blockBudget
      /\ h.largeLive = g.largeLive
  BY Zenon DEF Records
<1> HIDE DEF h
<1>2. Counts(g, h)
  BY Zenon, <1>1, OtherFieldsCount
<1> QED
  BY Zenon, <1>0, <1>2 DEF NoteBase, h

-----------------------------------------------------------------------------
(* The objects of the state, apart from the allocator's record. *)
HeapType ==
  /\ where \in [Objects -> {"none", "birth", "haven", "elder", "large"}]
  /\ size \in [Objects -> Sizes \union {0}]
  /\ block \in [Objects -> Nat]
  /\ paced \in [Objects -> Nat]
  /\ reachable \subseteq Objects
  /\ queued \in Nat
  /\ inhibit \in Nat
  /\ refused \subseteq Nat

(* The inductive invariant: the budgets and the count of large objects     *)
(* hold together with the types the sums need.                             *)
CountInv ==
  /\ gc \in Records
  /\ HeapType
  /\ PacedRecord(gc)
  /\ LargeOf(gc) = Volume(size, In({"large"}))

LEMMA HeapVolumes ==
  ASSUME HeapType, NEW S \in SUBSET Objects
  PROVE  /\ IsFiniteSet(S)
         /\ Volume(size, S) \in Nat /\ Volume(block, S) \in Nat
         /\ BlockBytesLive \in Nat
         /\ \A o \in S : size[o] \in Nat /\ block[o] \in Nat /\ paced[o] \in Nat
<1>1. IsFiniteSet(S) /\ IsFiniteSet(Objects)
  BY Zenon, PacingConstants, FS_Subset
<1>2. \A o \in Objects : size[o] \in Nat /\ block[o] \in Nat /\ paced[o] \in Nat
  <2>1. Sizes \union {0} \subseteq Nat
    BY PacingConstants
  <2>2. \A o \in Objects : size[o] \in Sizes \union {0}
    BY Zenon DEF HeapType
  <2>3. \A o \in Objects : block[o] \in Nat /\ paced[o] \in Nat
    BY Zenon DEF HeapType
  <2> QED
    BY Zenon, <2>1, <2>2, <2>3
<1>3. /\ \A o \in S : size[o] \in Int
      /\ \A o \in S : block[o] \in Int
      /\ \A o \in Objects : block[o] \in Int
  BY <1>2
<1>4. Volume(size, S) \in Nat
  BY Zenon, <1>1, <1>3, UnitsFinite
<1>5. Volume(block, S) \in Nat
  BY Zenon, <1>1, <1>3, UnitsFinite
<1>6. Volume(block, Objects) \in Nat
  BY Zenon, <1>1, <1>3, UnitsFinite
<1> QED
  BY <1>1, <1>2, <1>4, <1>5, <1>6 DEF BlockBytesLive, HeapType
(* A collection, whatever young objects it keeps and promotes. *)
LEMMA CollectCounts ==
  ASSUME NEW g \in Records, HeapType, PacedRecord(g),
         LargeOf(g) = Volume(size, In({"large"})),
         NEW S \in SUBSET Young, NEW P \in SUBSET S,
         Collect(TakeRequest(g), g.pending, S, P)
  PROVE  CountInv'
<1> DEFINE kind == g.pending
           major == "Major" \in Parts(kind)
           t == TakeRequest(g)
           p == Promote(t, P)
           dead == (Young \ S) \union
                     (IF major THEN (OldObjects \union P) \ reachable ELSE {})
           rest == Objects \ dead
           elder == (In({"elder"}) \union P) \ dead
           large == In({"large"}) \ dead
           swept == IF major
                    THEN Sweep(p, Volume(size, elder), Volume(block, elder), Volume(size, large))
                    ELSE p
           blocksLeft == Volume(block, rest)
           waiting == queued + Volume(block, dead)
           inUse == Volume(size, elder) + swept.largeLive + swept.largeSince
                     + blocksLeft + waiting
           throws == HeapLimit # 0 /\ major /\ inUse > HeapLimit
           limited == LimitAfter(swept, kind, inUse)
           served == Publish(limited, throws)
<1>1. /\ Young \subseteq Objects /\ OldObjects \subseteq Objects /\ P \subseteq Objects
      /\ dead \subseteq Objects /\ rest \subseteq Objects /\ elder \subseteq Objects
      /\ large \subseteq Objects
  BY Zenon DEF Young, OldObjects, In
<1>2. /\ gc' = NoteBase(served, kind, throws, blocksLeft)
      /\ where' = [o \in Objects |-> CASE o \in dead -> "none"
                                       [] o \in P \ dead -> "elder"
                                       [] o \in S \ P -> "haven"
                                       [] OTHER -> where[o]]
      /\ size' = [o \in Objects |-> IF o \in dead THEN 0 ELSE size[o]]
      /\ block' = [o \in Objects |-> IF o \in dead THEN 0 ELSE block[o]]
      /\ paced' = [o \in Objects |-> CASE o \in dead -> 0
                                       [] o \in P \ dead -> block[o]
                                       [] OTHER -> paced[o]]
      /\ queued' = IF throws THEN waiting ELSE 0
      /\ refused' = IF throws THEN refused \union {inUse - waiting} ELSE refused
      /\ UNCHANGED <<reachable, inhibit>>
  BY Zenon DEF Collect
<1>3. kind \in Kinds
  BY Zenon DEF Records
<1>4. /\ t \in Records
      /\ ~ major => PacedRecord(t)
      /\ LargeOf(t) = LargeOf(g)
  BY Zenon, TakeRequestCounts
<1> HIDE DEF t
<1>5. /\ IsFiniteSet(P) /\ BlockBytesLive \in Nat
      /\ \A o \in P : size[o] \in Nat /\ block[o] \in Nat /\ paced[o] \in Nat
  BY ZenonT(40), <1>1, HeapVolumes
<1>6. Counts(t, p)
  BY ZenonT(40), <1>4, <1>5, PromoteCounts
<1> HIDE DEF p, dead
<1>7. /\ Volume(size, elder) \in Nat /\ Volume(block, elder) \in Nat
      /\ Volume(size, large) \in Nat /\ blocksLeft \in Nat /\ Volume(block, dead) \in Nat
  BY Zenon, <1>1, HeapVolumes
<1> HIDE DEF elder, large, blocksLeft
<1>8. /\ swept \in Records
      /\ PacedRecord(swept)
      /\ LargeOf(swept) = IF major THEN Volume(size, large) ELSE LargeOf(g)
  <2>1. p \in Records /\ (~ major => PacedRecord(p)) /\ LargeOf(p) = LargeOf(g)
    BY Zenon, <1>4, <1>6 DEF Counts
  <2>2. CASE major
    <3>1. swept = Sweep(p, Volume(size, elder), Volume(block, elder), Volume(size, large))
      BY Zenon, <2>2
    <3> QED
      BY <1>7, <2>1, <2>2, <3>1, SweepCounts
  <2>3. CASE ~ major
    BY Zenon, <2>1, <2>3
  <2> QED
    BY Zenon, <2>2, <2>3
<1> HIDE DEF swept
<1>9. Counts(swept, limited)
  BY Zenon, <1>3, <1>8, LimitAfterCounts
<1> HIDE DEF limited
<1>10. Counts(limited, served)
  BY Zenon, <1>9, PublishCounts DEF Counts
<1> HIDE DEF served
<1>11. Counts(served, gc')
  BY <1>2, <1>7, <1>10, NoteBaseCounts DEF Counts
<1>12. /\ gc' \in Records
       /\ PacedRecord(gc')
       /\ LargeOf(gc') = IF major THEN Volume(size, large) ELSE LargeOf(g)
  BY Zenon, <1>8, <1>9, <1>10, <1>11 DEF Counts
<1>13. In({"large"})' = large
  <2>1. \A o \in Objects : o \in S => where[o] # "large"
    BY Zenon DEF Young, In
  <2>2. \A o \in Objects : where'[o] = "large" <=> o \notin dead /\ where[o] = "large"
    BY Zenon, <1>2, <2>1
  <2> QED
    BY Zenon, <2>2 DEF In, large
<1>14. ~ major => large = In({"large"})
  BY Zenon DEF large, dead, Young, In
<1>15. Volume(size', large) = Volume(size, large)
  <2>1. \A o \in large : size'[o] = size[o]
    BY Zenon, <1>1, <1>2 DEF large
  <2> QED
    BY Zenon, <2>1, SameVolume
<1>16. LargeOf(gc') = Volume(size', In({"large"})')
  BY Zenon, <1>12, <1>13, <1>14, <1>15
<1>17. HeapType'
  <2>1. /\ where' \in [Objects -> {"none", "birth", "haven", "elder", "large"}]
        /\ size' \in [Objects -> Sizes \union {0}]
        /\ block' \in [Objects -> Nat]
        /\ paced' \in [Objects -> Nat]
        /\ reachable' \subseteq Objects
        /\ inhibit' \in Nat
    BY Zenon, <1>2 DEF HeapType
  <2>2. swept.largeLive \in Nat /\ swept.largeSince \in Nat
    BY Zenon, <1>8 DEF Records
  <2>3. waiting \in Nat /\ inUse - waiting \in Nat
    BY <1>7, <2>2 DEF HeapType
  <2> HIDE DEF waiting, inUse, throws
  <2>4. queued' \in Nat /\ refused' \subseteq Nat
    BY Zenon, <1>2, <2>3 DEF HeapType
  <2> QED
    BY Zenon, <2>1, <2>4 DEF HeapType
<1> QED
  BY Zenon, <1>12, <1>16, <1>17 DEF CountInv

(* What a new object does to the count of the large ones. *)
LEMMA BornCounts ==
  ASSUME CountInv, NEW o \in Objects, NEW n \in Sizes,
         NEW space \in {"birth", "elder", "large"}, Born(o, n, space)
  PROVE  /\ HeapType'
         /\ Volume(size', In({"large"})') =
              Volume(size, In({"large"})) + (IF space = "large" THEN n ELSE 0)
<1> DEFINE L == In({"large"})
<1>0. HeapType /\ n \in Nat
  BY Zenon, PacingConstants DEF CountInv
<1>1. /\ where[o] = "none" /\ where' = [where EXCEPT ![o] = space]
      /\ size' = [size EXCEPT ![o] = n]
      /\ reachable' = reachable \union {o}
      /\ UNCHANGED <<block, paced, queued, inhibit, refused>>
  BY Zenon DEF Born
<1>2. HeapType'
  BY Zenon, <1>0, <1>1 DEF HeapType
<1>3. o \notin L /\ L \subseteq Objects
  BY Zenon, <1>1 DEF In
<1>4. IsFiniteSet(L) /\ Volume(size, L) \in Nat
  BY Zenon, <1>0, <1>3, HeapVolumes
<1>5. In({"large"})' = IF space = "large" THEN L \union {o} ELSE L
  BY Zenon, <1>0, <1>1 DEF In, HeapType
<1>6. size'[o] = n /\ \A p \in L : size'[p] = size[p]
  BY Zenon, <1>0, <1>1, <1>3 DEF HeapType
<1>7. Volume(size', L) = Volume(size, L)
  BY Zenon, <1>6, SameVolume
<1>8. \A p \in L : size'[p] \in Int
  BY SMTT(30), <1>0, <1>3, <1>6, HeapVolumes
<1> HIDE DEF L
<1>9. Volume(size', L \union {o}) = Volume(size', L) + n
  BY <1>0, <1>3, <1>4, <1>6, <1>8, AddVolume
<1>10. Volume(size', In({"large"})') =
         Volume(size, L) + (IF space = "large" THEN n ELSE 0)
  BY <1>4, <1>5, <1>7, <1>9
<1> QED
  BY Zenon, <1>2, <1>10 DEF L

LEMMA InitCounts == Init => CountInv
<1> SUFFICES ASSUME Init PROVE CountInv
  BY Zenon
<1>0. ElderFloor \in Nat /\ LargeFloor \in Nat /\ ElderFloor > 0 /\ LargeFloor > 0
  BY Zenon, PacingConstants
<1>1. gc \in Records
  BY ZenonT(40), <1>0 DEF Init, Records, Kinds
<1>2. HeapType
  BY Zenon DEF Init, HeapType
<1>3. PacedRecord(gc) /\ LargeOf(gc) = 0
  BY SMTT(30), <1>0 DEF Init, PacedRecord, Below, LargeOf
<1>4. Units(size, In({"large"})) = {}
  BY Zenon DEF Init, In, Units
<1>5. Volume(size, In({"large"})) = 0
  BY Zenon, <1>4, FS_EmptySet DEF Volume
<1> QED
  BY Zenon, <1>1, <1>2, <1>3, <1>5 DEF CountInv

(* Steps that leave the heap's spaces alone need only count. *)
LEMMA SameSpaces ==
  ASSUME CountInv, UNCHANGED <<where, size>>, HeapType', Counts(gc, gc')
  PROVE  CountInv'
<1>1. In({"large"})' = In({"large"})
  BY Zenon DEF In
<1> QED
  BY Zenon, <1>1 DEF CountInv, Counts

(* An allocation that counts what it takes. *)
LEMMA BornInv ==
  ASSUME CountInv, NEW o \in Objects, NEW n \in Sizes,
         NEW space \in {"birth", "elder", "large"}, Born(o, n, space),
         gc' \in Records, PacedRecord(gc'),
         LargeOf(gc') = LargeOf(gc) + (IF space = "large" THEN n ELSE 0)
  PROVE  CountInv'
BY Zenon, BornCounts DEF CountInv

LEMMA SurvivorsAreYoung ==
  ASSUME NEW kind, NEW S \in (IF kind = "None" THEN {Young} ELSE Survivors),
         NEW P \in (IF kind = "None" THEN {{}} ELSE SUBSET S)
  PROVE  S \subseteq Young /\ P \subseteq S
BY Zenon DEF Survivors

LEMMA NextCounts == CountInv /\ [Next]_vars => CountInv'
<1> SUFFICES ASSUME CountInv, [Next]_vars PROVE CountInv'
  BY Zenon
<1>0. /\ gc \in Records /\ HeapType /\ PacedRecord(gc)
      /\ BlockBytesLive \in Nat /\ LargeOf(gc) \in Nat
  <2>1. BlockBytesLive \in Nat
    BY Zenon, HeapVolumes DEF CountInv
  <2>2. LargeOf(gc) \in Nat
    BY DEF CountInv, LargeOf, Records
  <2> QED
    BY Zenon, <2>1, <2>2 DEF CountInv
<1>s. Sizes \subseteq Nat
  BY Zenon, PacingConstants
<1>1. ASSUME NEW o \in Objects, NEW n \in Sizes, AllocYoung(o, n) PROVE CountInv'
  <2>1. PICK condition : gc' = RequestIf(gc, "Minor", condition)
    BY Zenon, <1>1 DEF AllocYoung
  <2>2. Counts(gc, gc')
    BY Zenon, <1>0, <2>1, RequestIfCounts
  <2>3. Born(o, n, "birth")
    BY Zenon, <1>1 DEF AllocYoung
  <2> QED
    BY <1>0, <2>2, <2>3, BornInv DEF Counts
<1>2. ASSUME NEW o \in Objects, NEW n \in Sizes, AllocElder(o, n) PROVE CountInv'
  <2> DEFINE asked == RequestIf(gc, "Minor", Copying /\ ~ MinorPending(gc))
             checked == CheckHeapLimit(asked, n)
  <2>1. gc' = TakeElder(checked, n) /\ Born(o, n, "elder")
    BY Zenon, <1>2 DEF AllocElder
  <2>2. Counts(gc, asked)
    BY Zenon, <1>0, RequestIfCounts
  <2> HIDE DEF asked
  <2>3. Counts(asked, checked)
    BY Zenon, <2>2, CheckHeapLimitCounts DEF Counts
  <2> HIDE DEF checked
  <2>4. Counts(checked, gc')
    BY Zenon, <1>0, <1>s, <2>1, <2>3, TakeElderCounts DEF Counts
  <2>5. Counts(gc, gc')
    BY Zenon, <2>2, <2>3, <2>4, CountsTwice
  <2> QED
    BY <1>0, <2>1, <2>5, BornInv DEF Counts
<1>3. ASSUME NEW o \in Objects, NEW n \in Sizes, AllocElderRefused(o, n) PROVE CountInv'
  <2>1. Counts(gc, gc')
    BY Zenon, <1>0, <1>3, RequestIfCounts DEF AllocElderRefused
  <2>2. UNCHANGED <<where, size>> /\ HeapType'
    BY Zenon, <1>0, <1>3 DEF AllocElderRefused, heapVars, HeapType
  <2> QED
    BY Zenon, <2>1, <2>2, SameSpaces
<1>4. ASSUME NEW o \in Objects, NEW n \in Sizes, AllocLarge(o, n) PROVE CountInv'
  <2> DEFINE checked == CheckHeapLimit(gc, n)
  <2>1. gc' = TakeLarge(checked, n) /\ Born(o, n, "large")
    BY Zenon, <1>4 DEF AllocLarge
  <2>2. Counts(gc, checked)
    BY Zenon, <1>0, CheckHeapLimitCounts
  <2> HIDE DEF checked
  <2>3. gc' \in Records /\ PacedRecord(gc') /\ LargeOf(gc') = LargeOf(gc) + n
    BY Zenon, <1>0, <1>s, <2>1, <2>2, TakeLargeCounts DEF Counts
  <2> QED
    BY Zenon, <2>1, <2>3, BornInv
<1>5. ASSUME NEW o \in Objects, NEW bytes \in 1 .. MaxBlock, HoldBlock(o, bytes)
      PROVE  CountInv'
  <2> DEFINE checked == CheckHeapLimit(gc, bytes - block[o])
  <2>1. Counts(gc, checked)
    BY Zenon, <1>0, CheckHeapLimitCounts
  <2>2. /\ gc' = checked \/ (bytes > paced[o] /\ gc' = TakeElderBlock(checked, bytes - paced[o]))
        /\ UNCHANGED <<where, size, reachable, queued, inhibit, refused>>
        /\ block' = [block EXCEPT ![o] = bytes]
        /\ paced' = paced \/ paced' = [paced EXCEPT ![o] = bytes]
    BY Zenon, <1>5 DEF HoldBlock
  <2> HIDE DEF checked
  <2>3. bytes \in Nat /\ paced[o] \in Nat
    BY <1>0 DEF HeapType
  <2>4. bytes > paced[o] => Counts(checked, TakeElderBlock(checked, bytes - paced[o]))
    BY <2>1, <2>3, TakeElderBlockCounts DEF Counts
  <2>5. Counts(gc, gc')
    BY SMTT(30), <2>1, <2>2, <2>4, CountsTwice
  <2>6. HeapType'
    BY Zenon, <1>0, <2>2, <2>3 DEF HeapType
  <2> QED
    BY Zenon, <2>2, <2>5, <2>6, SameSpaces
<1>6. ASSUME NEW o \in Objects, NEW bytes \in 1 .. MaxBlock, AdoptBlock(o, bytes)
      PROVE  CountInv'
  <2>1. /\ gc' = gc \/ gc' = TakeElderBlock(gc, bytes)
        /\ UNCHANGED <<where, size, reachable, queued, inhibit, refused>>
        /\ block' = [block EXCEPT ![o] = bytes]
        /\ paced' = paced \/ paced' = [paced EXCEPT ![o] = bytes]
    BY Zenon, <1>6 DEF AdoptBlock
  <2>2. bytes \in Nat
    OBVIOUS
  <2>3. Counts(gc, gc) /\ Counts(gc, TakeElderBlock(gc, bytes))
    BY Zenon, <1>0, <2>2, TakeElderBlockCounts DEF Counts
  <2>4. HeapType'
    BY Zenon, <1>0, <2>1, <2>2 DEF HeapType
  <2> QED
    BY Zenon, <2>1, <2>3, <2>4, SameSpaces
<1>7. ASSUME Safepoint PROVE CountInv'
  <2>1. PICK S \in (IF gc.pending = "None" THEN {Young} ELSE Survivors) :
          \E P \in (IF gc.pending = "None" THEN {{}} ELSE SUBSET S) :
            Collect(TakeRequest(gc), gc.pending, S, P)
    BY Zenon, <1>7 DEF Safepoint, CollectSome
  <2>2. PICK P \in (IF gc.pending = "None" THEN {{}} ELSE SUBSET S) :
          Collect(TakeRequest(gc), gc.pending, S, P)
    BY Zenon, <2>1
  <2>3. S \in SUBSET Young /\ P \in SUBSET S
    BY Zenon, SurvivorsAreYoung
  <2> QED
    BY Zenon, <1>0, <2>2, <2>3, CollectCounts DEF CountInv
<1>8. ASSUME NEW kind \in {"Minor", "Major"}, ManualGC(kind) PROVE CountInv'
  <2> DEFINE g == Request(gc, kind)
  <2>1. Counts(gc, g)
    BY Zenon, <1>0, RequestCounts
  <2>2. CollectSome(TakeRequest(g), g.pending)
    BY Zenon, <1>8 DEF ManualGC
  <2> HIDE DEF g
  <2>3. PICK S \in (IF g.pending = "None" THEN {Young} ELSE Survivors) :
          \E P \in (IF g.pending = "None" THEN {{}} ELSE SUBSET S) :
            Collect(TakeRequest(g), g.pending, S, P)
    BY Zenon, <2>2 DEF CollectSome
  <2>4. PICK P \in (IF g.pending = "None" THEN {{}} ELSE SUBSET S) :
          Collect(TakeRequest(g), g.pending, S, P)
    BY Zenon, <2>3
  <2>5. S \in SUBSET Young /\ P \in SUBSET S
    BY Zenon, SurvivorsAreYoung
  <2>6. g \in Records /\ PacedRecord(g) /\ LargeOf(g) = Volume(size, In({"large"}))
    BY Zenon, <1>0, <2>1 DEF Counts, CountInv
  <2> QED
    BY Zenon, <1>0, <2>4, <2>5, <2>6, CollectCounts
<1>9. ASSUME UNCHANGED <<gc, where, size, block, paced>>,
             reachable' \subseteq Objects, queued' \in Nat, inhibit' \in Nat, refused' \subseteq Nat
      PROVE  CountInv'
  <2>1. Counts(gc, gc')
    BY Zenon, <1>0, <1>9 DEF Counts
  <2>2. HeapType'
    BY Zenon, <1>0, <1>9 DEF HeapType
  <2> QED
    BY Zenon, <1>9, <2>1, <2>2, SameSpaces
<1>10. ASSUME (\E o \in Objects : Drop(o)) \/ OpenScope \/ CloseScope
                \/ DestroyContext \/ UNCHANGED vars
       PROVE  CountInv'
  <2>0. /\ reachable \subseteq Objects /\ queued \in Nat /\ inhibit \in Nat
        /\ refused \subseteq Nat
    BY Zenon, <1>0 DEF HeapType
  <2> DEFINE others == /\ UNCHANGED <<gc, where, size, block, paced>>
                       /\ reachable' \subseteq Objects /\ queued' \in Nat
                       /\ inhibit' \in Nat /\ refused' \subseteq Nat
  <2>2. ASSUME NEW o \in Objects, Drop(o) PROVE others
    BY Zenon, <2>0, <2>2 DEF Drop
  <2>3. ASSUME OpenScope PROVE others
    BY <2>0, <2>3 DEF OpenScope, heapVars
  <2>5. ASSUME CloseScope PROVE others
    BY <2>0, <2>5 DEF CloseScope, heapVars
  <2>6. ASSUME DestroyContext PROVE others
    BY Zenon, <2>0, <2>6 DEF DestroyContext
  <2>4. ASSUME UNCHANGED vars PROVE others
    BY Zenon, <2>0, <2>4 DEF vars, heapVars
  <2>1. others
    BY SMTT(30), <1>10, <2>2, <2>3, <2>4, <2>5, <2>6
  <2> QED
    BY Zenon, <1>9, <2>1
<1> QED
  BY SMTT(30), <1>1, <1>2, <1>3, <1>4, <1>5, <1>6, <1>7, <1>8, <1>10 DEF Next

LEMMA AlwaysCounts == Spec => []CountInv
<1> QED
  BY InitCounts, NextCounts, PTL DEF Spec

(* Every field and every volume stays a natural number of its kind. *)
THEOREM PacingTypes == Spec => []TypeOK
<1>1. CountInv => TypeOK
  BY Zenon DEF CountInv, HeapType, Records, TypeOK
<1> QED
  BY <1>1, AlwaysCounts, PTL

(* For every heap and every budget: a budget that is used up has a major   *)
(* collection pending, whichever of allocation, promotion, block or limit  *)
(* used it up and whatever collections ran in between.                     *)
THEOREM BudgetsAreKept == Spec => []VolumeIsPaced
<1>1. CountInv => VolumeIsPaced
  BY Zenon DEF CountInv, PacedRecord, Below, VolumeIsPaced
<1> QED
  BY <1>1, AlwaysCounts, PTL

(* For every heap: the two counters of the large-object space, which stand *)
(* for it in the limit check, always agree with the objects in it.         *)
THEOREM HeapCountsLarge == Spec => []LargeIsCounted
<1>1. CountInv => LargeIsCounted
  BY Zenon DEF CountInv, LargeOf, LargeIsCounted
<1> QED
  BY <1>1, AlwaysCounts, PTL
=============================================================================
