----------------------------- MODULE FramePool -------------------------------
(***************************************************************************)
(* TaskflowFramePool: the frames of the graphs' calls.  A pool has a list  *)
(* of free frames per graph (its arena); every thread has a small table    *)
(* with lists of its own, which graphs and pools share by a hash of the    *)
(* graph's address, and which outlive the pools.  A list is a set here:    *)
(* which of its frames is taken makes no difference.                       *)
(***************************************************************************)
EXTENDS Naturals, FiniteSets

CONSTANTS Threads,
          Pools,       \* ids of the pools
          Graphs,      \* addresses of the graphs, the same for all the pools
          Frames,      \* bound: the frames there is memory for
          SlotOf,      \* the place of a graph in a thread's table
          LocalRefill, \* kLocalRefill (16)
          LocalMax,    \* kLocalMax (64)
          MinChunk,    \* minChunkFrames_
          FullChunk,   \* chunkBytes_ over the size of a frame
          None

ASSUME PoolConstants ==
  /\ LocalMax \in Nat /\ LocalRefill \in 1 .. LocalMax + 1
  /\ MinChunk \in Nat \ {0} /\ FullChunk \in Nat
  /\ IsFiniteSet(Threads) /\ IsFiniteSet(Frames)
  /\ None \notin Threads \union Pools \union Graphs \union Frames \union (Pools \X Graphs)

LargerOf(a, b)  == IF a < b THEN b ELSE a
SmallerOf(a, b) == IF a < b THEN a ELSE b

(* chunkFrames, the frames of a full chunk *)
LargestChunk == LargerOf(MinChunk, FullChunk)

Slots  == {SlotOf[g] : g \in Graphs}
Arenas == Pools \X Graphs

VARIABLES pool,      \* per pool: its life
          owner,     \* the arena whose chunk a frame is in
          arena,     \* per arena: freeFrames
          nextChunk, \* per arena: nextChunkFrames, 0 before its first chunk
          active,    \* the frames that are marked in next_
          local,     \* per thread and place: LocalArena
          pc, op,    \* per thread: its place in an operation, and its arguments
          liveMutex, \* the thread that holds livePools().mutex
          held       \* the calls that hold a frame, as acquire was asked for it

vars == <<pool, owner, arena, nextChunk, active, local, pc, op, liveMutex, held>>

Entry(p, g, free) == [pool |-> p, key |-> g, free |-> free]
Op(kind, p, g, f, s) == [kind |-> kind, pool |-> p, graph |-> g, frame |-> f, slot |-> s]
Call(f, p, g) == [frame |-> f, pool |-> p, graph |-> g]

NoEntry == Entry(None, None, {})
NoOp    == Op("none", None, None, None, None)

TypeOK ==
  /\ pool \in [Pools -> {"unborn", "live", "erased", "freed"}]
  /\ owner \in [Frames -> Arenas \union {None}]
  /\ arena \in [Arenas -> SUBSET Frames]
  /\ nextChunk \in [Arenas -> 0 .. LargestChunk]
  /\ active \subseteq Frames
  /\ local \in [Threads -> [Slots -> [pool : Pools \union {None}, key : Graphs \union {None},
                                      free : SUBSET Frames]]]
  /\ pc \in [Threads -> {"idle", "lookup", "give", "insert", "drop", "bind", "ready",
                     "ending"}]
  /\ op \in [Threads -> [kind : {"none", "acquire", "release", "end"}, pool : Pools \union {None},
                         graph : Graphs \union {None}, frame : Frames \union {None},
                         slot : Slots \union {None}]]
  /\ liveMutex \in Threads \union {None}
  /\ held \subseteq [frame : Frames, pool : Pools, graph : Graphs]

Init ==
  /\ pool = [p \in Pools |-> "unborn"]
  /\ owner = [f \in Frames |-> None]
  /\ arena = [a \in Arenas |-> {}]
  /\ nextChunk = [a \in Arenas |-> 0]
  /\ active = {}
  /\ local = [t \in Threads |-> [s \in Slots |-> NoEntry]]
  /\ pc = [t \in Threads |-> "idle"] /\ op = [t \in Threads |-> NoOp]
  /\ liveMutex = None
  /\ held = {}

-----------------------------------------------------------------------------
Goto(t, l) == pc' = [pc EXCEPT ![t] = l]

Mine(t) == local[t][op[t].slot]
SetMine(t, e) == local' = [local EXCEPT ![t][op[t].slot] = e]
Target(t) == <<op[t].pool, op[t].graph>>

(* The constructor. *)
Create(p) ==
  /\ pool[p] = "unborn" /\ liveMutex = None
  /\ pool' = [pool EXCEPT ![p] = "live"]
  /\ UNCHANGED <<owner, arena, nextChunk, active, local, pc, op, liveMutex, held>>

StartAcquire(t, p, g) ==
  /\ pc[t] = "idle" /\ pool[p] = "live"
  /\ Goto(t, "lookup")
  /\ op' = [op EXCEPT ![t] = Op("acquire", p, g, None, SlotOf[g])]
  /\ UNCHANGED <<pool, owner, arena, nextChunk, active, local, liveMutex, held>>

(* The call that holds the frame returns, on whichever thread it ends. *)
StartRelease(t, h) ==
  /\ pc[t] = "idle"
  /\ \A u \in Threads : op[u].frame # h.frame
  /\ Goto(t, "lookup")
  /\ op' = [op EXCEPT ![t] = Op("release", h.pool, h.graph, h.frame, SlotOf[h.graph])]
  /\ UNCHANGED <<pool, owner, arena, nextChunk, active, local, liveMutex, held>>

(* localArena finds the graph of this pool in its place. *)
Hit(t) ==
  /\ pc[t] = "lookup"
  /\ Mine(t).pool = op[t].pool /\ Mine(t).key = op[t].graph
  /\ Goto(t, "ready")
  /\ UNCHANGED <<pool, owner, arena, nextChunk, active, local, op, liveMutex, held>>

(* Mutant: the frames of the other graph are left in the list. *)
EvictOwnKept(t) ==
  /\ pc[t] = "lookup"
  /\ Mine(t).pool = op[t].pool /\ Mine(t).key # op[t].graph
  /\ arena' = [arena EXCEPT ![<<Mine(t).pool, Mine(t).key>>] = @ \union Mine(t).free]
  /\ Goto(t, "bind")
  /\ UNCHANGED <<pool, owner, nextChunk, active, local, op, liveMutex, held>>

(* Another graph of the same pool is there: its frames go back. *)
EvictOwn(t) ==
  /\ pc[t] = "lookup"
  /\ Mine(t).pool = op[t].pool /\ Mine(t).key # op[t].graph
  /\ arena' = [arena EXCEPT ![<<Mine(t).pool, Mine(t).key>>] = @ \union Mine(t).free]
  /\ SetMine(t, [Mine(t) EXCEPT !.free = {}])
  /\ Goto(t, "bind")
  /\ UNCHANGED <<pool, owner, nextChunk, active, op, liveMutex, held>>

(* The place is another pool's, or nobody's. *)
EvictOther(t) ==
  /\ pc[t] = "lookup"
  /\ Mine(t).pool # op[t].pool
  /\ Goto(t, "give")
  /\ UNCHANGED <<pool, owner, arena, nextChunk, active, local, op, liveMutex, held>>

AfterGive(t) == IF op[t].kind = "end" THEN "ending" ELSE "bind"

(* giveBack of an empty list. *)
GiveNothing(t) ==
  /\ pc[t] = "give" /\ Mine(t).free = {}
  /\ Goto(t, AfterGive(t))
  /\ UNCHANGED <<pool, owner, arena, nextChunk, active, local, op, liveMutex, held>>

(* Mutant: the pool is not asked for. *)
GiveLockAlways(t) ==
  /\ pc[t] = "give" /\ Mine(t).free # {}
  /\ liveMutex = None
  /\ liveMutex' = t
  /\ Goto(t, "insert")
  /\ UNCHANGED <<pool, owner, arena, nextChunk, active, local, op, held>>

(* Does the pool exist?  The mutex is held until the frames are given. *)
GiveLock(t) ==
  /\ pc[t] = "give" /\ Mine(t).free # {}
  /\ liveMutex = None
  /\ liveMutex' = t
  /\ Goto(t, IF pool[Mine(t).pool] = "live" THEN "insert" ELSE "drop")
  /\ UNCHANGED <<pool, owner, arena, nextChunk, active, local, op, held>>

(* Mutant: the list of a thread that ends is given, and kept. *)
GiveInsertKept(t) ==
  /\ pc[t] = "insert"
  /\ arena' = [arena EXCEPT ![<<Mine(t).pool, Mine(t).key>>] = @ \union Mine(t).free]
  /\ liveMutex' = None
  /\ Goto(t, AfterGive(t))
  /\ UNCHANGED <<pool, owner, nextChunk, active, local, op, held>>

GiveInsert(t) ==
  /\ pc[t] = "insert"
  /\ arena' = [arena EXCEPT ![<<Mine(t).pool, Mine(t).key>>] = @ \union Mine(t).free]
  /\ SetMine(t, [Mine(t) EXCEPT !.free = {}])
  /\ liveMutex' = None
  /\ Goto(t, AfterGive(t))
  /\ UNCHANGED <<pool, owner, nextChunk, active, op, held>>

(* The pool is gone, its memory with it. *)
GiveDrop(t) ==
  /\ pc[t] = "drop"
  /\ SetMine(t, [Mine(t) EXCEPT !.free = {}])
  /\ liveMutex' = None
  /\ Goto(t, AfterGive(t))
  /\ UNCHANGED <<pool, owner, arena, nextChunk, active, op, held>>

(* The place is the graph's of this pool from now on. *)
Bind(t) ==
  /\ pc[t] = "bind"
  /\ SetMine(t, Entry(op[t].pool, op[t].graph, Mine(t).free))
  /\ Goto(t, "ready")
  /\ UNCHANGED <<pool, owner, arena, nextChunk, active, op, liveMutex, held>>

-----------------------------------------------------------------------------
Unborn == {f \in Frames : owner[f] = None}

(* The frames of the next chunk; each call of allocateChunk asks for one. *)
ChunkFrames(a) == IF nextChunk[a] = 0 THEN MinChunk ELSE nextChunk[a]

(* nextChunkFrames is doubled before the memory is asked for. *)
Doubled(a) ==
  nextChunk' = [nextChunk EXCEPT ![a] = SmallerOf(LargestChunk, ChunkFrames(a) * 2)]

(* allocateChunk: the frames new become frames of the arena. *)
AllocateChunk(a, new) ==
  /\ Cardinality(new) = ChunkFrames(a)
  /\ owner' = [f \in Frames |-> IF f \in new THEN a ELSE owner[f]]
  /\ Doubled(a)

NoMemory(a) == Cardinality(Unborn) < ChunkFrames(a)

(* A frame is marked and handed to the call. *)
HandOut(t, f) ==
  /\ active' = active \union {f}
  /\ held' = held \union {Call(f, op[t].pool, op[t].graph)}
  /\ Goto(t, "idle")
  /\ op' = [op EXCEPT ![t] = NoOp]

(* acquire: a frame of the thread's own list. *)
TakeLocal(t) ==
  /\ pc[t] = "ready" /\ op[t].kind = "acquire"
  /\ \E f \in Mine(t).free :
       /\ SetMine(t, [Mine(t) EXCEPT !.free = @ \ {f}])
       /\ HandOut(t, f)
  /\ UNCHANGED <<pool, owner, arena, nextChunk, liveMutex>>

(* Mutant: the frames taken over stay in the shared list. *)
RefillCopied(t, avail) ==
  \E taken \in SUBSET avail : \E f \in taken :
    /\ Cardinality(taken) = SmallerOf(Cardinality(avail), LocalRefill)
    /\ SetMine(t, [Mine(t) EXCEPT !.free = taken \ {f}])
    /\ arena' = [arena EXCEPT ![Target(t)] = avail]
    /\ HandOut(t, f)

(* The list is filled from the frames avail of the arena, and one is taken. *)
Refill(t, avail) ==
  \E taken \in SUBSET avail : \E f \in taken :
    /\ Cardinality(taken) = SmallerOf(Cardinality(avail), LocalRefill)
    /\ SetMine(t, [Mine(t) EXCEPT !.free = taken \ {f}])
    /\ arena' = [arena EXCEPT ![Target(t)] = avail \ taken]
    /\ HandOut(t, f)

TakeShared(t) ==
  /\ pc[t] = "ready" /\ op[t].kind = "acquire"
  /\ Mine(t).free = {} /\ arena[Target(t)] # {}
  /\ Refill(t, arena[Target(t)])
  /\ UNCHANGED <<pool, owner, nextChunk, liveMutex>>

TakeNew(t) ==
  /\ pc[t] = "ready" /\ op[t].kind = "acquire"
  /\ Mine(t).free = {} /\ arena[Target(t)] = {}
  /\ \E new \in SUBSET Unborn : AllocateChunk(Target(t), new) /\ Refill(t, new)
  /\ UNCHANGED <<pool, liveMutex>>

(* malloc fails: acquire throws. *)
TakeFails(t) ==
  /\ pc[t] = "ready" /\ op[t].kind = "acquire"
  /\ Mine(t).free = {} /\ arena[Target(t)] = {}
  /\ NoMemory(Target(t))
  /\ Doubled(Target(t))
  /\ Goto(t, "idle") /\ op' = [op EXCEPT ![t] = NoOp]
  /\ UNCHANGED <<pool, owner, arena, active, local, liveMutex, held>>

(* Above kLocalMax half of the list goes to the arena. *)
Spill(t, free) ==
  IF Cardinality(free) <= LocalMax
  THEN SetMine(t, [Mine(t) EXCEPT !.free = free]) /\ UNCHANGED arena
  ELSE \E kept \in SUBSET free :
         /\ Cardinality(kept) = LocalMax \div 2
         /\ SetMine(t, [Mine(t) EXCEPT !.free = kept])
         /\ arena' = [arena EXCEPT ![Target(t)] = @ \union (free \ kept)]

(* Mutant: the mark stays. *)
PutMarked(t) ==
  /\ pc[t] = "ready" /\ op[t].kind = "release"
  /\ Spill(t, Mine(t).free \union {op[t].frame})
  /\ held' = held \ {Call(op[t].frame, op[t].pool, op[t].graph)}
  /\ Goto(t, "idle") /\ op' = [op EXCEPT ![t] = NoOp]
  /\ UNCHANGED <<pool, owner, nextChunk, active, liveMutex>>

(* release: the frame is unmarked and put into the thread's list. *)
Put(t) ==
  /\ pc[t] = "ready" /\ op[t].kind = "release"
  /\ active' = active \ {op[t].frame}
  /\ Spill(t, Mine(t).free \union {op[t].frame})
  /\ held' = held \ {Call(op[t].frame, op[t].pool, op[t].graph)}
  /\ Goto(t, "idle") /\ op' = [op EXCEPT ![t] = NoOp]
  /\ UNCHANGED <<pool, owner, nextChunk, liveMutex>>

(* warmup(graph, 1), when a plan of the graph is made. *)
Warmup(t, p, g) ==
  /\ pc[t] = "idle" /\ pool[p] = "live"
  /\ arena[<<p, g>>] = {}
  /\ \/ \E new \in SUBSET Unborn :
          /\ AllocateChunk(<<p, g>>, new)
          /\ arena' = [arena EXCEPT ![<<p, g>>] = new]
     \/ NoMemory(<<p, g>>) /\ Doubled(<<p, g>>) /\ UNCHANGED <<owner, arena>>
  /\ UNCHANGED <<pool, active, local, pc, op, liveMutex, held>>

-----------------------------------------------------------------------------
(* A thread ends: ~ThreadCache gives every list back; another thread takes *)
(* its place, with a table of its own.                                     *)
StartEnd(t) ==
  /\ pc[t] = "idle"
  /\ Goto(t, "ending")
  /\ op' = [op EXCEPT ![t] = Op("end", None, None, None, None)]
  /\ UNCHANGED <<pool, owner, arena, nextChunk, active, local, liveMutex, held>>

EndSlot(t) ==
  /\ pc[t] = "ending"
  /\ \E s \in Slots : local[t][s].free # {} /\ op' = [op EXCEPT ![t].slot = s]
  /\ Goto(t, "give")
  /\ UNCHANGED <<pool, owner, arena, nextChunk, active, local, liveMutex, held>>

End(t) ==
  /\ pc[t] = "ending" /\ \A s \in Slots : local[t][s].free = {}
  /\ local' = [local EXCEPT ![t] = [s \in Slots |-> NoEntry]]
  /\ Goto(t, "idle") /\ op' = [op EXCEPT ![t] = NoOp]
  /\ UNCHANGED <<pool, owner, arena, nextChunk, active, liveMutex, held>>

(* The destructor of a pool that no call uses any more. *)
Unused(p) ==
  /\ \A h \in held : h.pool # p
  /\ \A t \in Threads : op[t].pool # p

Erase(p) ==
  /\ pool[p] = "live" /\ Unused(p)
  /\ liveMutex = None
  /\ pool' = [pool EXCEPT ![p] = "erased"]
  /\ UNCHANGED <<owner, arena, nextChunk, active, local, pc, op, liveMutex, held>>

FreeChunks(p) ==
  /\ pool[p] = "erased"
  /\ pool' = [pool EXCEPT ![p] = "freed"]
  /\ UNCHANGED <<owner, arena, nextChunk, active, local, pc, op, liveMutex, held>>

Step(t) ==
  \/ Hit(t) \/ EvictOwn(t) \/ EvictOther(t) \/ GiveNothing(t) \/ GiveLock(t)
  \/ GiveInsert(t) \/ GiveDrop(t) \/ Bind(t) \/ TakeLocal(t) \/ TakeShared(t) \/ TakeNew(t)
  \/ TakeFails(t) \/ Put(t) \/ EndSlot(t) \/ End(t)

Start(t) ==
  \/ \E p \in Pools, g \in Graphs : StartAcquire(t, p, g) \/ Warmup(t, p, g)
  \/ \E h \in held : StartRelease(t, h)
  \/ StartEnd(t)

Life(p) == Create(p) \/ Erase(p) \/ FreeChunks(p)

Next == (\E t \in Threads : Step(t) \/ Start(t)) \/ (\E p \in Pools : Life(p))

Spec == Init /\ [][Next]_vars

-----------------------------------------------------------------------------
(* Where a frame is. *)
Places(f) ==
  {<<"arena", a[1], a[2]>> : a \in {a \in Arenas : f \in arena[a]}}
    \union {<<"thread", ts[1], ts[2]>> :
              ts \in {ts \in Threads \X Slots : f \in local[ts[1]][ts[2]].free}}
    \union {<<"call", h.pool, h.graph>> : h \in {h \in held : h.frame = f}}

(* A frame of a pool that exists is in one place: held by one call, in one *)
(* thread's list or in one arena's.  No frame is handed out twice, and     *)
(* none is lost when its place in a thread's table goes to another graph,  *)
(* when its thread ends or when a list is too long.                        *)
OnePlace ==
  \A f \in Frames : owner[f] # None /\ pool[owner[f][1]] = "live" =>
    \E x \in Places(f) : Places(f) = {x}

(* A call gets a frame of the pool and the graph it asked for, though      *)
(* pools come and go under the same graphs and graphs share a place; and   *)
(* the frame's memory is there.                                            *)
CalleeFits ==
  \A h \in held : owner[h.frame] = <<h.pool, h.graph>> /\ pool[h.pool] = "live"

(* traceActiveFrames: the frames whose slots are roots. *)
Roots == {f \in Frames : owner[f] # None /\ pool[owner[f][1]] = "live" /\ f \in active}

(* The collector sees the frames of the calls that run, and no other: what *)
(* a frame that is free still has in its slots is neither kept alive nor   *)
(* followed.                                                               *)
RootsAreHeld == Roots = {h.frame : h \in held}

(* Nothing is given back to a pool whose memory is gone. *)
GoneIsUntouched ==
  [][\A p \in Pools, g \in Graphs :
       pool[p] \in {"erased", "freed"} => arena'[<<p, g>>] = arena[<<p, g>>]]_vars

Idle(a) == {f \in Frames : owner[f] = a /\ \A h \in held : h.frame # f}

(* A call that finds no free frame has a new chunk made while the other    *)
(* threads keep back at most kLocalMax free frames each.                   *)
ChunksAreNeeded ==
  [][held' # held =>
       \A a \in Arenas : \A f \in Unborn : owner'[f] = a =>
         Cardinality(Idle(a)) <= (Cardinality(Threads) - 1) * LocalMax]_vars

(* A pool is closed from the moment its id is erased. *)
StatusOf ==
  [p \in Pools |-> CASE pool[p] = "unborn" -> "unborn"
                     [] pool[p] = "live"   -> "open"
                     [] OTHER              -> "closed"]

AsksOf == [t \in Threads |-> IF op[t].kind = "acquire" THEN Target(t) ELSE None]

FullChunks == {c \in SUBSET Frames : Cardinality(c) = LargestChunk}

Lending == INSTANCE FrameLending WITH
  status <- StatusOf, madeFor <- owner, asks <- AsksOf, lent <- held

(* The pools with the threads' lists do what FrameLending promises. *)
LendsFrames == Lending!Spec

(* The lists a thread still has to give back when it ends. *)
Lists(t) == {s \in Slots : local[t][s].free # {}}

(* How many steps an operation has left, but for the lists of an end. *)
StepsLeft(l) ==
  CASE l = "idle" -> 0
    [] l = "ready" -> 1
    [] l = "bind" -> 2
    [] l \in {"insert", "drop"} -> 3
    [] l = "give" -> 4
    [] OTHER -> 5

Advances(t) ==
  \/ op[t].kind # "end" /\ StepsLeft(pc'[t]) < StepsLeft(pc[t])
  \/ op[t].kind = "end" /\ Lists(t)' \subseteq Lists(t)
       /\ (Lists(t)' = Lists(t) => StepsLeft(pc'[t]) < StepsLeft(pc[t]))

Waits(t) == pc'[t] = pc[t] /\ op'[t] = op[t] /\ local'[t] = local[t]

AllAdvance == \A t \in Threads : pc[t] # "idle" => Advances(t) \/ Waits(t)

(* An acquire, a release or the end of a thread is brought nearer to its   *)
(* end by each of its steps, and no step of another thread sets it back.   *)
OperationsAdvance == [][AllAdvance]_vars

(* The mutex of the pools is held only by a thread that can leave it: one  *)
(* that waits for it waits for a step that nothing else can hold up.       *)
MutexIsLeft ==
  \A t \in Threads : liveMutex = t => pc[t] \in {"insert", "drop"} /\ Mine(t).free # {}
=============================================================================
