# Camel: formal models of the run-time system

TLA+ models of the parts of Camel where steps of several threads, faults, or long
sequences of legal calls decide whether a program stays correct: the
stop-the-world handshake of the parallel scheduler, the generational heap and its
pacing, array storage, deferred releases and foreign resources, and the frames,
calls, element operators and fault boundaries of the parallel scheduler. Paths
below are relative to the repository root (`src/core/mm/gen.cpp` and so on).

- Model checking: `tlc -config <cfg> <module>`; the runs are listed below and in
  `PROJECT.json`.
- Proofs: `tlapm` on the eight modules whose names end in `Proofs`.
- `PROJECT.json` maps every definition to the lines it models, and lists the
  hazards with the properties that watch them.

## The system and its parts

A Camel program is parsed, compiled to a graph IR, rewritten by passes, and run
by a scheduler: a node interpreter, a bytecode VM with a JIT, or the parallel
scheduler built on Taskflow. Values live in one generational heap per process.

| Part | Where | Modelled |
|---|---|---|
| Stop-the-world gate | `src/passes/sched/taskflow/taskflow.{h,cpp}`: `TaskflowGcGate`, `TaskflowGcRegion`, wait hooks | `GcGate`, `StopTheWorld` |
| Generational heap | `src/core/mm/gen.cpp`, `include/camel/core/mm/gen.h` | `GenHeap`, `ObjectGraph` (partly) |
| Collection pacing, heap limit | `gen.cpp` | `HeapPacing` |
| Array storage and blocks | `src/core/rtdata/array.cpp`, `src/core/mm/block.cpp`, the variable operators | `ArraySharing` (partly) |
| Deferred releases | `src/core/mm/deferred.cpp` | `DeferredQueue` |
| Foreign resources | `src/core/rtdata/foreign.cpp`, the end of a run | `ForeignResources` (partly) |
| Element operators | `taskflow.cpp`: `runElements`, `ElementFaults`, `mark_unordered_reduce_arr` | `RunElements`, `UnorderedReduce` (partly) |
| Frame pool | `taskflow_frame_pool.cpp` | `FramePool`, `FrameLending` |
| Calls and tail-call frames | `taskflow.cpp`: `callGraph`, `evalGraph` | `TailFrames` (partly) |
| Fault isolation | `taskflow.cpp`: `runScope`, `runOnExecutor`, `executeIsolateNode`, `apply` | `FaultIsolation` (partly) |

How the modelled parts meet:

- A thread of the parallel scheduler holds unrooted values only inside a *region*
  of the gate. An allocation that wants a collection raises the slow-path flag
  (`HeapPacing` says when). A thread that polls outside every region becomes the
  collector: it stops the world through the gate and calls `mm::safepoint`, which
  runs the collection that `GenHeap` models step by step. `GenHeap` may therefore
  take the program as stopped, because the gate provides it
  (`ImplementsStopTheWorld`).
- The finalizers of a collection queue releases of blocks and resources. They are
  run when it is over (`DeferredQueue`). `ForeignResources` extends the queue and
  composes it with the control blocks; `HeapPacing` and `ArraySharing` keep
  the queue as a count of bytes and of references.
- `TailFrames` takes its frames from a pool that does what `FrameLending`
  promises, and `FramePool` implements `FrameLending`. The obligation of the
  callers there, to give back only what they hold, is what `TailFrames` shows
  (`TableIsWhatIsHeld`).
- `FaultIsolation` runs trees of calls over the same executor as `RunElements`;
  it takes of `ElementFaults` that the smallest fault is kept, which `RunElements`
  and `UnorderedReduce` establish from single accesses.

## Modules

### GcGate, StopTheWorld

`GcGate` has one action per access to shared state: the atomics `active` and
`stopRequested_`, the mutexes `collectorMutex_` and `registryMutex_`, and the
allocator's slow-path flag. `pc` names the access a thread makes next.

| State | Code |
|---|---|
| `threads`, `registryMutex` | `threads_`, `registryMutex_` |
| `active`, `depth`, `nesting`, `savedDepth` | fields of `ThreadState` and the wait hooks' thread-locals |
| `held` | region objects of the thread with `held_` set |
| `stopRequested`, `collectorMutex` | `stopRequested_`, `collectorMutex_` |
| `slowPath` | `autoSpaceSafepointSlowPath` |
| `capped`, `backingOff` | `now < capUntilNs_`, `now < retryAfterNs_` |
| `consecutiveGiveUps` | `consecutiveGiveUps_` |

`Enter`, `EnterStore`, `EnterCheck`, `EnterRetract` and `WaitForCollector` are
`enter()`; `Leave`, `RegionSafepoint` and the two `BlockingWait` actions end or
interrupt a region; `Poll` to `CollectUnlock` are `poll()` and `collect()` in
the order of the code, with the scan of the threads one read at a time.
The atomics are sequentially consistent in the code, and so in the model. Times
are abstract: the two pauses are flags that the environment clears, and the
patience of the collector may run out while a thread is inside.
What `mm::safepoint` does is left open: it serves the request, leaves one
pending (a scope that inhibits collection, or a collection that asks for
another), or throws.

`StopTheWorld` is what the gate promises: threads enter and leave, and a
collection starts only when nobody is inside and excludes entries until it ends.

### GenHeap, ObjectGraph

An object is an address of one of five spaces (birth, two survivor spaces,
elder, large) with slots that hold references. All registered roots (root sets,
tracers, handles) are the slots of one object `Root`. The program allocates
(`AllocYoung`, `AllocOld`), fills what it creates with plain stores (`Fill`),
stores with the write barrier (`Store`), loads and drops. A collection stops it
and takes one step per visited reference: `BeginMinor`; `KeepRef`, `ScanFresh`,
`ScanUntyped`, `FollowForward`, `CopyToHaven` and `Promote` are the cases of
`forwardYoungRef` and `forward`; `FinishMinor` rebuilds the remembered set,
finalizes and resets; `StartMark`, `MarkObject` and `Sweep` are the major part.

| State | Code |
|---|---|
| `copying` | whether young copying is on, for the whole run |
| `haven` | which survivor space is `havenSpace_` |
| `alive`, `heap`, `age`, `forwarded`, `marked` | the spaces and the object headers |
| `remembered`, `freshOld`, `finalizables` | `rememberedSet_`, `freshOld_`, `youngFinalizables_` |
| `gray`, `scanned` | the slots left to visit, `relocationScan_` |
| `markStack` | the stack of `markObject` |
| `id`, `lost` | history: which object an address holds; garbage whose slots are not kept up |

Abstractions, and why they are sound for the properties:

- Visits happen in any order after the roots, the code uses one order; marking
  likewise.
- Marks are cleared by `Sweep`; the code clears them at the next mark phase, and
  nothing reads them in between.
- A reference that gives no layout scans an old object without taking it off
  `freshOld_` (`ScanUntyped`). The root sets have such references, and so has a rule
  of the rewrite module (`RuleObject::updateRefs`, `Rules`). A rule refers to
  functions, never to another rule, and its fields are set when it is made (`Fill`,
  `Store`). The other references without a layout lead to graph carriers, which are
  in the graph space, neither young nor fresh; placeholder types are resolved
  before a program runs.
- `MinorAndMajor` is a minor collection and then a major one, which is also what
  a major one does first when copying is on. Which kind is requested when is left
  open: any collection may start at any time.
- Run-time graph carriers are part of `Root`. Those reached only through a
  Function are not modelled (listed as a hazard).
- Poisoning, the verifier and statistics are left out; budgets are in `HeapPacing`.
- A threshold above 15, which the constructor refuses, is allowed; ages do not
  saturate below the threshold.

`ObjectGraph` is the program's view: objects with identities, edges, and the
right to forget what nothing that stays refers to.

### RunElements

The calling thread of an operator and the executor's workers run `drain`: read
the chunk size, advance the shared counter, test, run the chunk's elements
through `ElementFaults::run`, and store a new chunk size. Each of these is an
action of its own, so that the size can change between the read and the claim
and a fault can be recorded between the test and the call. How long a chunk
takes is open: the next size is any value the clamp allows, and a probing caller
asks for help or goes on. `faulty` is the set of elements whose call faults;
`ran` counts the starts of each call (history). The acquire/release accesses
to `lowest` are taken as sequentially consistent: a test that reads an older
value only runs an element it could have skipped, as a test made earlier does.

### UnorderedReduce

The chunk arithmetic of `mark_unordered_reduce_arr`, one task per chunk, the kept
fault, the join, and the fold of the partial results. The value of a fold is the
run of elements it covers, so that leaving one out, folding one twice or putting
chunks together in the wrong order gives another value. The chunk size is rounded
up, so the last chunks can start past the end of the array and have no partial.

### HeapPacing

The allocator's record (`pending`, `slowPath`, the limit's credit, and for the
elder space, the large objects and the blocks: volume since the last sweep,
budget, base) and the objects with their sizes, spaces and blocks. Allocation,
promotion, block growth and the limit ask for collections; requests are folded;
`Safepoint` is the whole of `safepoint()`: it returns inside a
`NoCollectionScope`, otherwise it collects, checks the limit, publishes the flag,
runs the queue and takes the new base, in the order of the code, and the limit's
exception leaves the rest out. `owed` is a history of the collections asked for
and not run. Volumes are small naturals.

### ArraySharing

Arrays keep their elements in the object or in a counted block. The state is the
binding of names to arrays, the arrays with their kind, block and window, the
blocks with their count and capacity, the releases queued, and the live bytes;
`means` is a history: the value a name had when it was bound. `VarNew`, `Assn`,
`VarGet`, `View`, `SetIndex` and `AppendTo` are the statements that share or
write storage; `SetIndex` and `AppendTo` may or may not take their in-place form,
as the memory plan decides that; `Collect` finalizes any part of the dead arrays
(a minor collection does not find old ones), `RunReleases` is the drain.

### DeferredQueue, ForeignResources

`DeferredQueue` has one action per access to the mutex, the vector and the flag of
`deferRelease` and `runDeferredReleases`; the flag is read without the mutex. The
release in place when there is no memory for an entry is `PushFails`. A release
that waits is in one of three places, which `NothingLost` counts: the vector
(`Queued`), the argument of a thread in `deferRelease` (`Asking`), and the vectors
swapped out by calls that have not come to it (`Swapped`).

`ForeignResources` adds the control blocks (count, `disposed_`, resource,
registration), the wrappers, and per thread a stack of the calls it is in, since a
deleter can come to a safepoint, whose collection queues and runs releases in turn.
A program's thread creates, clones, disposes and loses wrappers and collects; then
the run ends: the registry is gathered and every block retained, the resources are
deleted newest first, the references dropped, and the context drains the queue.
The sorted vector of `disposeAllForeignResources` is the set `held` of what its loop
has still to come to; `NextHeld` is the one its sort puts next.

- Allocations do not collect, only safepoints do; so `Create` and `Clone` are
  single steps. The allocation of the wrapper may throw after the reference was
  taken (`Wrap`): `createWithControlBlock` releases it if `alloc` returns null, but
  `alloc` throws, and the reference stays until the end of the run. `unmade` holds
  these wrappers; no program has them and no collection finds them.
- A release in place happens under the allocator's lock, so its deleter is
  taken not to come to a safepoint.
- Two threads may collect at the same time here. The code's collections exclude
  each other; the model has more behaviours.
- A collection that throws over the heap limit leaves its entries queued
  (`CollectionThrows`).
- The exchange of `disposed_` and the null resource each prevent a second call of
  the deleter on their own; the model keeps both.

### FramePool, FrameLending

The arenas of a pool, and per thread a small table of free lists which graphs and
pools share by a hash and which outlives the pools. `acquire` and `release` are
split at every lock: the look at the thread's table, the eviction of another
graph's list with its two locks, the refill, the chunk, the overflow. Pools are
created, warmed up and destroyed, threads end. Lists are sets. What is done under
an arena's mutex is one step, so the order in which that mutex and the one of the
live pools are taken is not checked. That there is no memory for a chunk is
modelled; that there is none for an arena or for a longer list is not. In
`localArena` the new key is written before `getOrCreateArena` is called, so that a
throw there would leave the entry with the arena of the graph before.
`FrameLending` is the promise: who asks gets a frame made for their pool and graph
that nobody holds, or there is no memory; a pool is closed when all are back.

### TailFrames

One activation, from `callGraph` to its return. `CallGraph` acquires the frame or
throws, and `FillCallee` fills it and enters `evalGraph`. The first fill is outside
the `try` of `callGraph`: when it throws (`FillCalleeThrows`), nothing gives the
frame back, and it is `stranded`. Then `TailCall`, and `SelfCall` (the
frame is refilled in place), `Found`, `HandOff` (a serial target), or
`TakeEntry` with, in a full table, the search (`TryAgain`, `Evict`), then `Acquire`
and `Fill`. The plan, the frame and the fill of a tail call may throw
(`TailCallThrows`). The destructor of the table (`Unwind`) and the
release in `callGraph` (`Leave`) end it, after faults as well. Other activations
take and give frames at any time, and overwrite what they take. Bodies compute
nothing: an argument is a parameter of the frame the call is made in, which is
enough to tell a lost, exchanged or overwritten argument from the right one;
`want` is a history of what the running call should see. What is left in a frame
that is not in use is `Stale`.

### FaultIsolation

A program is a tree of calls (`ok`, a fault that can be isolated, one that cannot,
a sequence, an isolated call, element calls, parallel and dependent chains),
chosen in `Init`. Threads have stacks of calls; a flow has its tasks, the domain of
the thread that started it and the failure kept. A thread that waits for its flow
takes tasks, also of other flows, as Taskflow's `corun` does, with the domain and
count of the task and its own back afterwards. A boundary opens a domain, which
lives on its frame, and turns a fault of its own into a value. `Results` is the
reference: what a linear back end can answer for a tree, where the order of
parallel chains is left open.

## Runs

| Run | Configuration | Checks | Size |
|---|---|---|---|
| `gate` | `MCGcGate.cfg` | `DepthRestored`, `ImplementsStopTheWorld`, `StopIsWithdrawn`, `PendingIsServed` | 2 threads, depth 2, waits nested 2 |
| `heap` | `MCGenHeap.cfg` | `NoDangling`, `RememberedComplete`, `WrappersListed`, `MajorIsPrecise`, `CollectorIsInvisible`, `CollectionAdvances` | 2 objects with 2 fields, one of them a rule, all five spaces |
| `pacing` | `MCHeapPacing.cfg` | `NoRequestLost`, `VolumeIsPaced`, `CreditIsSettled` | 2 objects with blocks, limit 3 |
| `limit_counts_queued` | `MCHeapPacingLimit.cfg` | `LimitJudgesLive`, violated | 3 objects |
| `arrays` | `MCArraySharing.cfg` | `CountsHolders`, `BytesAreLive`, `UncountedNamesKeepTheirValues`, `WritesStayInOneArray` | 3 names, 3 arrays, 2 blocks, all kinds of storage |
| `names_kept` | `MCArraySharingNames.cfg` | `NamesKeepTheirValues`, violated | 3 names, 3 arrays, 2 blocks |
| `foreign` | `MCForeignResources.cfg` | `NothingLost`, `CountsReferences`, `DeletedOnce`, `ReachableIsUsable`, `NewerDeletedFirst`, `ResourcesAreReleased` | 2 threads, 2 blocks, 2 wrappers, calls 3 deep |
| `elements` | `MCRunElements.cfg` | `SmallestFaultReported`, `RunsAsLoop`, `OperatorReturns` | 0 to 5 elements, 2 workers |
| `reduce` | `MCUnorderedReduce.cfg` | `ReducesAsLoop` | 0 to 9 elements, 1 to 4 workers |
| `frames` | `MCFramePool.cfg` | `OnePlace`, `RootsAreHeld`, `GoneIsUntouched`, `LendsFrames`, `OperationsAdvance` | 2 threads, 2 pools, 2 graphs, 4 frames |
| `tail_frames` | `MCTailFrames.cfg` | `TableIsWhatIsHeld`, `ReturnsLastCall`, `SearchEnds` | 4 task graphs and a serial one, 3 entries |
| `fault_isolation` | `MCFaultIsolation.cfg` | `NothingOutlivesItsBoundary`, `AnswersAsLinear`, `DomainsFit`, `StartsAfterItsInputs`, `RunEnds` | 624 trees, 3 threads, 3 flows |

A property that a theorem states and that another checked property implies or
subsumes (`TypeOK`, `CollectorAlone`, `CalleeFits`, `LargeIsCounted` and others) is
proved and not checked again by a run.

What they show:

- **Gate.** The collector is alone, for every interleaving of entries, nested
  regions, nested announced waits, registrations during a scan, give-ups and
  exceptions. A stop is always withdrawn; a pending request is served once the
  threads come to their safepoints.
- **Heap.** No sequence of allocations, stores and collections loses a reachable
  object or leaves a reference at an address that moved; the remembered set
  misses no reference that the next minor collection needs; each wrapper is on
  the finalizer list exactly while it is young and allocated; a major collection
  leaves no garbage in the old spaces; every step of a collection brings it nearer
  its end, though a root or a rule can have an old object scanned again. To the
  program the heap is a graph of objects that never move.
- **Pacing.** No request is lost, whether it is folded into another, met by a
  safepoint inside a scope, made by the collection that serves an earlier one, or
  passed by when a safepoint throws. Memory taken over the limit on credit always
  has its major collection coming, and with safepoints it comes. No budget is
  overrun without a major collection pending.
- **Arrays.** The count of a block is its holders and its queued releases, and the
  bytes that pace the collector are those of the live blocks. A write reaches one
  array. The names of arrays whose storage no count protects keep their values.
- **Releases and resources.** Nothing queued is lost or run twice. A control block
  counts its references, the one of a wrapper that could not be allocated included;
  its deleter runs once and before the block is freed, on whichever of the three
  ways; at the end of the run newer resources go first, and none remains.
- **Elements.** The operators report the fault that a loop in order would meet
  first, run or fold every element below it once and in its place, keep dependent
  calls in order, and return.
- **Frames.** A frame is in one place, fits the call that holds it, and is a root
  exactly while it is held; destroyed pools are left alone; every step of an
  operation brings it nearer its end. Chains of tail calls
  give every frame back once and return the value of the last call; the search for a
  victim ends. The one frame that does not come back is that of a call whose first
  fill threw.
- **Faults.** A boundary answers what a linear back end can answer, waits for all
  that started inside it, and leaves the thread's domain and count as they were;
  a chain starts only after the chains whose values it uses. No run hangs, because
  a waiting worker works.

### Disagreements found

- `limit_counts_queued`: the check of the heap limit after a major collection
  (`gen.cpp:890`) counts the blocks of the arrays that collection found dead; they
  are only queued then. A program whose live data fit can be ended. The comment
  three lines above says that what is held "is alive".
- `names_kept`: `shareForSecondName` (`array.cpp:1156`) hands an array out as it is
  when its block is shared already. When the other holders are collected, two names
  are one array with a count of one, and an update through one is seen through the
  other. `array.h:356` says that the only reference "means 'no other name'".

Three more are visible in the models; they have no run of their own.

- `docs/technical/06_runtime_and_execution.md:458` says that a fault leaves "frames
  released". A throw of the first fill in `callGraph` (`taskflow.cpp:1806`) leaves the
  frame taken (`FillCalleeThrows`).
- `docs/technical/23_gc_runtime_lifetime.md:294` lists a release "after an allocation
  failure". `alloc` throws past that release (`foreign.cpp:191`, `Wrap`).
- `docs/technical/06_runtime_and_execution.md:437` calls it "not defined" which of
  several faults is reported. `RunElements` and `FaultIsolation` follow the code,
  which keeps the smallest, as `33_fault_isolation.md` describes.

### Bounds

- *Gate*: two threads give a collector and a thread inside, entering, waiting or
  registering. Depth 2 and nesting 2 give inner and outer regions and a wait inside
  a wait. The give-up counter saturates at `MaxGiveUps`.
- *Heap*: one birth cell, one cell per survivor space (so that the To space
  fills up), two elder cells, one large cell. An object can be born young,
  survive, be promoted by age or by lack of room, or be born old. `ElderHasRoom`
  is the bound that stands for the elder space growing. Threshold 2 gives one
  survival before promotion. `Fields` is the part of `Slots` that objects have. One
  of the two objects is a rule, which can refer to the other and be referred to by it.
- *Pacing*: the budgets' floors, the limit and the sizes are so close that
  each threshold is met, passed and met exactly. `MaxAdopted` bounds the bytes taken
  on credit, `MaxBlock` a block, `MaxScopes` the nesting of scopes.
- *Arrays*: three names are needed for a block shared by two arrays one of which has
  two names. `InlineLen` 1 and `MaxLen` 2 give inline, block and grown storage.
- *Foreign*: depth 3 is a collection in a deleter in a collection. Deadlock
  is not checked: the run ends.
- *Elements, reduce*: `Share` is 8 in the code; with 1, chunks of several elements
  occur with five elements already. Nine elements and four workers give chunks
  past the end of the array. The operators return and stop: no deadlock check.
- *Frames*: `MinChunk` 2 and `FullChunk` 1 make room for a second chunk only
  after the first is used up; `LocalMax` 1 makes the overflow happen. The two
  graphs share a place of the thread's table.
- *Tail calls*: three entries is the smallest table of the size the code allows
  (more than two); four graphs and a serial one fill it. Every passing of two
  arguments is a sequence of the exchange and the copy in `MCPassing`. `MaxAway` 1:
  one frame at a time is with another activation or stranded, and each graph has two.
- *Faults*: all trees of a boundary around two steps of which the first is a leaf or a
  parallel, dependent or element construct, with faults of both kinds at each place;
  three threads and three flows.

### Fairness

- *Gate* (`GateFairness`): steps of a thread that runs straight-line code happen;
  time passes; a mutex that is free again and again is taken. `StopIsWithdrawn`
  needs nothing of threads inside regions. `PendingIsServed` has as premise
  that threads come to their safepoints, as `evalGraph` and `runItems` do at
  every graph boundary and branch.
- *Pacing*: polls keep coming outside of scopes, scopes are closed, and the context of
  a program that failed is destroyed.
- *Foreign*: deleters return, a begun call goes on, a lock that is free again and
  again is got; not every collection throws.
- *Elements*: the executor runs every task, and a body that starts ends.
- *Tail calls*: only the search for an entry, which waits for nobody.
- *Faults*: each thread takes its steps; a thread that waits takes tasks.
- The heap, the frame pool and the reduction need none: what is checked of the
  reduction is what it has computed when it returns, and every step of a collection
  (`CollectionAdvances`) and of a thread in a pool operation
  (`OperationsAdvance`) decreases a rank.

## Proofs

All theorems hold for every value of the constants allowed by the named
assumptions: `GateConstants`, `HeapConstants`, `ElementConstants`,
`PacingConstants`, `ReduceConstants`, `PoolConstants`, `TailFramesConstants`,
`NoneIsNoThread`, `NoneIsNoEntry`, `ForeignConstants`. Three of them say more than
which sets are apart. `HeapIsFinite` (the addresses and slots are finitely many) is used by `HeapCollectionAdvances` only.
`PacingConstants` has positive floors for the elder and the large-object budgets: the
elder space has 32 MB and `largeObjectBudget` is never zero. `PoolConstants` has
finitely many threads and frames and `LocalRefill` of at most `LocalMax + 1`: the code
refills 16 frames into a list of at most 64.

- `SafepointProofs`, the gate. The inductive invariant adds to `GateTypeOK`: the owner of the
  collector mutex is the only thread between `lock` and `unlock`; a raised flag
  implies such an owner past `stop`; a thread's depth, held regions and saved
  depth agree at each program point (`ThreadInv`); and, the central part
  (`ScanInv`), what the scan has read stays true: while a thread scans or
  collects, every other thread that is not left to be checked is outside its
  region, and a collection has none left to check. A thread outside can come in
  only through the check of the flag, which the collector holds raised.
  `GateCollectorAlone` is not inductive: it says nothing of the reads before the
  last one, which `ScanInv` keeps. The same invariant gives
  `GateTypeCorrect`, `GateDepthRestored`, `GateStopHasOwner` and the refinement
  `GateImplementsStopTheWorld`, with one step per action.
- `SafepointProofs`, the pacing. The allocator's record keeps: what is owed is part of what
  is pending, and something pending has the slow path up (`Kept`); credit is only
  given under a limit and with a major collection pending (`Sound`). The lemmas say
  what each accounting step does to a record; a safepoint is their composition.
  `BudgetsAreKept` (`VolumeIsPaced`) adds to the record that a volume which reached
  its budget has its request (`PacedRecord`) and that budgets are positive, so that
  the reset by a sweep is below them. `HeapCountsLarge` needs what the objects are
  (`HeapType`): volumes are cardinalities of sets of units, and an allocation or
  sweep adds or takes away the units of its objects (`CountInv`).
- `GenHeapProofs`. The invariant speaks of the addresses that are kept up
  (`alive \ lost`), a set that contains what is reachable and does not need
  reachability to be stated: their references are allocated (`RefsOK`), old ones
  that refer to young or fresh objects are remembered or fresh themselves
  (`BarrierOK`), during a minor collection every slot that still refers to the
  From spaces or to an unscanned fresh object is gray (`MinorOK`), forwarding
  pointers lead to final addresses (`ForwardOK`), and the marked objects' referents
  are marked or on the stack (`MarkOK`). `ReachableKept` connects the two sets
  once, and `HeapNoDangling`, `HeapRememberedComplete`, `HeapWrappersListed` and
  `HeapMajorIsPrecise` follow.
  `HeapCollectorIsInvisible` is the refinement of `ObjectGraph`. It needs one more
  invariant, `IdsOK`: the kept addresses that did not move hold different objects.
  `EdgeIff` reads the graph's edges off the slots. A step of the program is the graph's
  step of that name (`GraphBorn`, `GraphStores`, `GraphLoad`, `GraphDrop`); a visit
  changes slots and copies but no edge (`SameGraph`, `GraphFollowForward`,
  `GraphMove`); the ends of the two collections are `Forget` (`GraphForget`), because
  what stays refers only to what stays: `MinorOK` with nothing gray, `MarkOK` with an
  empty stack.
  `HeapCollectionAdvances` counts: a visit takes one slot off `gray` and adds the
  fields of at most one object, which then has moved, is no longer fresh, or was
  found without a layout (`VisitAdvances`, `VisitsFall`). The last case repeats, so
  the count has two levels: a visit of a rule's slot weighs as much as the fields of
  an object, and the visit of a root slot, of an object to move or of a fresh one as
  much as those of a rule. It comes down because a rule's slot never leads to a rule
  (`RulesOK`), which is read off the edges of the graph and kept by each step
  (`HeapRules`), and because root slots are not visited again. Marking
  pushes the slots of an object that is marked with it (`MarkAdvances`).
- `RunElementsProofs`. The invariant says that the chunks held by the threads are
  disjoint and below `next` (`ChunksOK`), and that every element below `next`
  has run, is held by a thread that has still to come to it, or lies above the
  smallest fault (`RanOK`). With `StageOK` (who works in which stage, and that
  a thread leaves only when nothing is left for it) this gives
  `ElementsSmallestFault`, `ElementsRunOnce` and `ElementsDependentInOrder`.
- `TaskflowProofs`, the reduction. `ChunksCutTheArray` is the arithmetic: the chunks of
  the rounded-up size follow one another and cover the array. The invariant
  says what each task has folded (`Folding`, `Partials`), that a done chunk has a
  partial unless it faulted or a lower one did (`Done`), whose fault is kept
  (`Kept`), and what the final fold has put together (`Final`).
- `TaskflowProofs`, the tail calls. The frame in use stays in the table and unchanged
  until the arguments are read from it (`CurrentOK`), and the search hands on what it
  established (`TargetOK`). `TakenIsGivenBack` says whose the taken frames are: the
  table's, the one to be filled for the first time, and the stranded ones, which are
  apart from the table's because `acquire` gives no frame that is taken
  (`TakenOrStranded`).
- `FramePoolProofs`. `OnePlace` needs that lists hold frames of their pool and graph
  (`ListsFit`), that no two places share a frame (`Apart`), that none is lost
  (`Somewhere`), and what a thread in the middle of an operation relies on (`OpOK`).
  The refinement `PoolLends` maps a frame in any list to a free one.
  `ChunksAreMadeWhenNeeded` counts the frames other threads' lists can keep back,
  from the bound on a list and the place a pool and graph have in it (`Seated`).
  `MutexIsAlwaysLeft` rests on what the owner of the mutex is about to do (`Busy`),
  and `OperationsComeToTheirEnd` on the rank of each place in an operation, in which
  the lists a thread that ends has still to give are counted.
- `ForeignBlocksProofs`, `ForeignCallsProofs`, `ForeignResourcesProofs`: the queue and
  the resources, in the order in which they extend each other.
  *The queue.* `FlagIsReliable` needs that one thread is inside the mutex, and that a
  thread about to clear the flag has left nothing in the queue. `NoReleaseIsLost`
  counts: `QueueInv` says that each of the three places where a release of `e` waits is
  finite and that they add up to `owed[e]`, and each step moves one element from one
  place to another, or moves the whole vector, with as many entries (`WaitOK`).
  `UsesTheQueue` is the composition: what `ForeignResources` does with the queue is
  what its own specification allows, so that both results hold there too
  (`DeferredReleasesArrive`).
  *The resources.* `CountsReferences`, `DeletedOnce`, `ReachableIsUsable` and
  `NewerDeletedFirst` are not inductive, alone or together. The invariant
  `ResourceInv` joins three parts. `ForeignInv` says what the calls on the threads'
  stacks are (`FramesOK`, `StagesOK`) and what each has established of its block
  (`CallsOK`): one call at most is past the exchange of `disposed_`, one at most has
  found the count at zero, a block under either is live, and a claimed resource is in
  the hands of some call until its deleter has returned (`BlocksOK`); while the
  program runs only operators dispose what is referred to (`UsableOK`); ids are
  different (`IdsOK`), and what the loop at the end has let go of is deleted and newer
  than what it holds (`EndOK`). `CountOK` is the count. `QueueInv` is the queue's
  invariant. They need each other: that a call may touch its block rests on the
  count, since its wrapper, its release or the loop is a reference (`Referred`); the
  count rests on there being one last release; and a release that leaves the queue
  needs the queue's count to be one of those owed. There is one lemma per action for
  `ForeignInv` and one for what it does to the references (`OneDropped` and its
  like); `StepResourceInv` puts them together.
  A stack of calls is used through its pairs of thread and depth (`Calls`, `Frame`):
  depths are counted from the far end, so that a call keeps its name while others
  come and go above it (`Pushed`, `Changed`, `Popped`).
  The facts about cardinalities which the lemmas use are their hypotheses
  `Counting`, `CountingUnions` and `CountingImages`; `CountingHolds` proves these once,
  from the library.

Only model-checked:

- The liveness properties `StopIsWithdrawn`, `PendingIsServed`, `CreditIsSettled`,
  `ResourcesAreReleased`, `OperatorReturns`, `SearchEnds` and `RunEnds`: fairness is
  out of reach of the proof system. The ranks of `CollectionAdvances` and
  `OperationsAdvance` are proved instead where the code needs no fairness; that a
  collection or an operation always has a next step is `ENABLED`, and is what the
  deadlock check of the runs shows.
- `FaultIsolation`: its reference `Results` is a recursive operator, so the
  module is out of the proof system's reach.
- `ArraySharing`: `BytesAreLive` is a sum and `RunReleases` a fold over the blocks; that
  these change by what one step changes needs induction over data.

## Not modelled

- Parser, formatter, compiler, types, graph construction, rewriting passes and code
  generation: pure algorithms over large structures, which small instances would
  not show; no module defines the semantics of the graphs they rewrite.
- The node VM, FastVM and the JIT as interpreters: sequential and without
  shared state. What they must agree on with the parallel scheduler after a fault is
  the reference `Results` in `FaultIsolation`. The bytecode hand-off of serial
  graphs is one image built before the run and one interpreter per thread.
- How a plan is built from a graph; the graph IR with its drafts: one thread.
- The allocator's spaces (bump pointer, free list, segments): address arithmetic
  under the allocator's lock. `GenHeap` takes an address as free or handed out.
  The graph space: `GenHeap` treats graph roots as roots.
- Contexts, modules, diagnostics, source maps, built-in operators, standard
  modules, profiler, debugger, language server and command line: I/O, tables and
  value functions.
