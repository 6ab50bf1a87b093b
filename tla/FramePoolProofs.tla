--------------------------- MODULE FramePoolProofs ---------------------------
(* That every frame is in one place, that the pools with the threads'      *)
(* lists do what FrameLending promises, that chunks are made only when     *)
(* they are needed and that operations come to their end, for any number   *)
(* of threads, pools, graphs and frames and any sharing of the places.     *)
EXTENDS FramePool, TLAPS

(* A frame in a list is of the list's pool and graph. *)
ListsFit ==
  /\ \A a \in Arenas : \A f \in arena[a] : owner[f] = a
  /\ \A t \in Threads, s \in Slots : \A f \in local[t][s].free :
       owner[f] = <<local[t][s].pool, local[t][s].key>>

(* A place in a thread's table that was filled is that of a pool that was  *)
(* made.                                                                   *)
EntriesMade ==
  \A t \in Threads, s \in Slots :
    IF local[t][s].pool = None THEN local[t][s].free = {}
    ELSE /\ local[t][s].key \in Graphs
         /\ pool[local[t][s].pool] # "unborn"

(* A frame is of a pool that was made. *)
OwnersMade ==
  \A f \in Frames : owner[f] # None => pool[owner[f][1]] # "unborn"

(* No frame is in two places. *)
Apart ==
  /\ \A h \in held : \A a \in Arenas : h.frame \notin arena[a]
  /\ \A h \in held : \A t \in Threads, s \in Slots : h.frame \notin local[t][s].free
  /\ \A t \in Threads, s \in Slots : \A f \in local[t][s].free :
       /\ \A a \in Arenas : f \notin arena[a]
       /\ \A u \in Threads, r \in Slots : f \in local[u][r].free => u = t /\ r = s

(* No frame of a pool that exists is lost. *)
Somewhere ==
  \A f \in Frames : owner[f] # None /\ pool[owner[f][1]] = "live" =>
    \/ f \in arena[owner[f]]
    \/ \E t \in Threads, s \in Slots : f \in local[t][s].free
    \/ \E h \in held : h.frame = f

Marked == active = {h.frame : h \in held}

InFrames ==
  ListsFit /\ EntriesMade /\ OwnersMade /\ Apart /\ Somewhere /\ Marked /\ CalleeFits

(* What a thread in an operation relies on. *)
OpOK(t) ==
  /\ pc[t] = "idle" <=> op[t].kind = "none"
  /\ pc[t] \in {"lookup", "bind", "ready"} => op[t].kind \in {"acquire", "release"}
  /\ pc[t] = "ending" => op[t].kind = "end"
  /\ pc[t] \in {"give", "insert", "drop"} => op[t].slot \in Slots
  /\ op[t].kind \in {"acquire", "release"} =>
       /\ op[t].pool \in Pools /\ pool[op[t].pool] = "live"
       /\ op[t].graph \in Graphs /\ op[t].slot = SlotOf[op[t].graph]
  /\ IF op[t].kind = "release"
     THEN op[t].frame \in Frames /\ Call(op[t].frame, op[t].pool, op[t].graph) \in held
     ELSE op[t].frame = None
  /\ pc[t] = "ready" => Mine(t).pool = op[t].pool /\ Mine(t).key = op[t].graph
  /\ pc[t] = "bind" => Mine(t).free = {}
  /\ pc[t] = "insert" => liveMutex = t /\ Mine(t).pool \in Pools /\ pool[Mine(t).pool] = "live"
  /\ pc[t] = "drop" => /\ liveMutex = t /\ Mine(t).pool \in Pools
                       /\ pool[Mine(t).pool] \in {"erased", "freed"}

(* No two threads release one frame. *)
ReleasesApart ==
  \A t, u \in Threads : op[t].frame # None /\ op[t].frame = op[u].frame => t = u

Inductive == TypeOK /\ InFrames /\ (\A t \in Threads : OpOK(t)) /\ ReleasesApart

LEMMA InitInductive == Init => Inductive
<1> SUFFICES ASSUME Init PROVE Inductive
  BY Zenon
<1>1. TypeOK
  BY PoolConstants DEF Init, TypeOK, NoEntry, Entry, NoOp, Op, LargestChunk, LargerOf
<1>2. InFrames
  <2>1. ListsFit /\ EntriesMade /\ Apart
    BY Zenon DEF Init, ListsFit, EntriesMade, Apart, NoEntry, Entry
  <2>2. OwnersMade /\ Somewhere /\ Marked /\ CalleeFits
    BY Zenon DEF Init, OwnersMade, Somewhere, Marked, CalleeFits
  <2> QED
    BY Zenon, <2>1, <2>2 DEF InFrames
<1>3. (\A t \in Threads : OpOK(t)) /\ ReleasesApart
  BY Zenon DEF Init, OpOK, ReleasesApart, NoOp, Op
<1> QED
  BY Zenon, <1>1, <1>2, <1>3 DEF Inductive

(* The threads that do not move. *)
LEMMA OthersKeep ==
  ASSUME Inductive, NEW t \in Threads, pool' = pool,
         \A u \in Threads \ {t} : /\ pc'[u] = pc[u] /\ op'[u] = op[u] /\ local'[u] = local[u]
                                  /\ liveMutex = u => liveMutex' = u,
         \A h \in held : h.frame # op[t].frame => h \in held'
  PROVE  \A u \in Threads \ {t} : OpOK(u)'
<1> SUFFICES ASSUME NEW u \in Threads \ {t} PROVE OpOK(u)'
  BY Zenon
<1>1. OpOK(u) /\ pc'[u] = pc[u] /\ op'[u] = op[u] /\ local'[u] = local[u]
  BY Zenon DEF Inductive
<1>2. Mine(u)' = Mine(u)
  BY Zenon, <1>1 DEF Mine
<1>3. op[u].kind = "release" => Call(op[u].frame, op[u].pool, op[u].graph) \in held'
  <2> SUFFICES ASSUME op[u].kind = "release"
               PROVE  Call(op[u].frame, op[u].pool, op[u].graph) \in held'
    BY Zenon
  <2>1. op[u].frame # op[t].frame
    BY <1>1, PoolConstants DEF OpOK, Inductive, ReleasesApart
  <2> QED
    BY Zenon, <1>1, <2>1 DEF OpOK, Call
<1> QED
  BY <1>1, <1>2, <1>3 DEF OpOK

LEMMA FramesKept ==
  ASSUME InFrames, UNCHANGED <<pool, owner, arena, active, local, held>>
  PROVE  InFrames'
BY DEF InFrames, ListsFit, EntriesMade, OwnersMade, Apart, Somewhere, Marked, CalleeFits

(* A step of t that only moves on in its operation. *)
LEMMA MoveKeeps ==
  ASSUME Inductive, NEW t \in Threads, TypeOK', OpOK(t)',
         UNCHANGED <<pool, owner, arena, active, local, held>>,
         \A u \in Threads \ {t} : /\ pc'[u] = pc[u] /\ op'[u] = op[u]
                                  /\ liveMutex = u => liveMutex' = u,
         op'[t].frame = None \/ \A u \in Threads \ {t} : op'[t].frame # op[u].frame
  PROVE  Inductive'
<1>1. InFrames'
  BY Zenon, FramesKept DEF Inductive
<1>2. \A u \in Threads \ {t} : OpOK(u)'
  BY Zenon, OthersKeep
<1>3. ReleasesApart'
  BY DEF Inductive, ReleasesApart
<1> QED
  BY Zenon, <1>1, <1>2, <1>3 DEF Inductive

LEMMA StartAcquireKeeps ==
  ASSUME Inductive, NEW t \in Threads, NEW p \in Pools, NEW g \in Graphs, StartAcquire(t, p, g)
  PROVE  Inductive'
<1>0. TypeOK /\ SlotOf[g] \in Slots
  BY Zenon DEF Inductive, Slots
<1>1. TypeOK'
  BY Zenon, <1>0 DEF TypeOK, StartAcquire, Goto, Op
<1>2. OpOK(t)'
  BY Zenon, <1>0 DEF TypeOK, StartAcquire, Goto, Op, OpOK
<1>3. /\ \A u \in Threads \ {t} : pc'[u] = pc[u] /\ op'[u] = op[u]
      /\ op'[t].frame = None
  BY Zenon, <1>0 DEF TypeOK, StartAcquire, Goto, Op
<1>4. UNCHANGED <<pool, owner, arena, active, local, held, liveMutex>>
  BY Zenon DEF StartAcquire
<1> QED
  BY Zenon, <1>1, <1>2, <1>3, <1>4, MoveKeeps

LEMMA StartReleaseKeeps ==
  ASSUME Inductive, NEW t \in Threads, NEW h \in held, StartRelease(t, h)
  PROVE  Inductive'
<1>0. /\ TypeOK /\ h.frame \in Frames /\ h.pool \in Pools /\ h.graph \in Graphs
      /\ SlotOf[h.graph] \in Slots /\ pool[h.pool] = "live" /\ h = Call(h.frame, h.pool, h.graph)
  BY Zenon DEF Inductive, Slots, TypeOK, InFrames, CalleeFits, Call
<1>1. TypeOK'
  BY Zenon, <1>0 DEF TypeOK, StartRelease, Goto, Op
<1>2. OpOK(t)'
  BY <1>0 DEF TypeOK, StartRelease, Goto, Op, OpOK
<1> QED
  BY ZenonT(40), <1>0, <1>1, <1>2, MoveKeeps DEF TypeOK, StartRelease, Goto, Op

LEMMA HitKeeps ==
  ASSUME Inductive, NEW t \in Threads, Hit(t)
  PROVE  Inductive'
<1>0. TypeOK /\ OpOK(t)
  BY Zenon DEF Inductive
<1>1. TypeOK'
  BY Zenon, <1>0 DEF TypeOK, Hit, Goto
<1>2. OpOK(t)'
  BY Zenon, <1>0 DEF TypeOK, Hit, Goto, OpOK, Mine
<1>3. op[t].frame = None \/ \A u \in Threads \ {t} : op[t].frame # op[u].frame
  BY Zenon DEF Inductive, ReleasesApart
<1> QED
  BY Zenon, <1>0, <1>1, <1>2, <1>3, MoveKeeps DEF TypeOK, Hit, Goto

LEMMA EvictOtherKeeps ==
  ASSUME Inductive, NEW t \in Threads, EvictOther(t)
  PROVE  Inductive'
<1>0. TypeOK /\ OpOK(t)
  BY Zenon DEF Inductive
<1>1. TypeOK'
  BY Zenon, <1>0 DEF TypeOK, EvictOther, Goto
<1>2. OpOK(t)'
  BY <1>0 DEF TypeOK, EvictOther, Goto, OpOK, Mine, Slots
<1>3. op[t].frame = None \/ \A u \in Threads \ {t} : op[t].frame # op[u].frame
  BY Zenon DEF Inductive, ReleasesApart
<1> QED
  BY Zenon, <1>0, <1>1, <1>2, <1>3, MoveKeeps DEF TypeOK, EvictOther, Goto

LEMMA GiveNothingKeeps ==
  ASSUME Inductive, NEW t \in Threads, GiveNothing(t)
  PROVE  Inductive'
<1>0. TypeOK /\ OpOK(t)
  BY Zenon DEF Inductive
<1>1. TypeOK'
  BY Zenon, <1>0 DEF TypeOK, GiveNothing, Goto, AfterGive
<1>2. OpOK(t)'
  BY <1>0 DEF TypeOK, GiveNothing, Goto, AfterGive, OpOK, Mine
<1>3. op[t].frame = None \/ \A u \in Threads \ {t} : op[t].frame # op[u].frame
  BY Zenon DEF Inductive, ReleasesApart
<1> QED
  BY Zenon, <1>0, <1>1, <1>2, <1>3, MoveKeeps DEF TypeOK, GiveNothing, Goto

LEMMA GiveLockKeeps ==
  ASSUME Inductive, NEW t \in Threads, GiveLock(t)
  PROVE  Inductive'
<1>0. TypeOK /\ OpOK(t) /\ op[t].slot \in Slots
  BY Zenon DEF Inductive, OpOK, GiveLock
<1>1. TypeOK'
  BY Zenon, <1>0 DEF TypeOK, GiveLock, Goto
<1>2. Mine(t).pool \in Pools /\ pool[Mine(t).pool] \in {"live", "erased", "freed"}
  BY <1>0 DEF TypeOK, Inductive, InFrames, EntriesMade, GiveLock, Mine
<1>3. OpOK(t)'
  BY Zenon, <1>0, <1>2 DEF TypeOK, GiveLock, Goto, OpOK, Mine
<1>4. op[t].frame = None \/ \A u \in Threads \ {t} : op[t].frame # op[u].frame
  BY Zenon DEF Inductive, ReleasesApart
<1>5. /\ UNCHANGED <<pool, owner, arena, active, local, held>> /\ op' = op
      /\ \A u \in Threads \ {t} : pc'[u] = pc[u]
      /\ \A u \in Threads \ {t} : liveMutex # u
  BY Zenon, <1>0, PoolConstants DEF TypeOK, GiveLock, Goto
<1> QED
  BY Zenon, <1>1, <1>3, <1>4, <1>5, MoveKeeps

LEMMA DoubledTyped ==
  ASSUME TypeOK, NEW a, Doubled(a)
  PROVE  nextChunk' \in [Arenas -> 0 .. LargestChunk]
<1>1. LargestChunk \in Nat /\ LargestChunk >= MinChunk /\ MinChunk \in Nat
  BY PoolConstants DEF LargestChunk, LargerOf
<1>2. CASE a \in Arenas
  <2>1. ChunkFrames(a) \in Nat
    BY <1>1, <1>2 DEF TypeOK, ChunkFrames
  <2>2. SmallerOf(LargestChunk, ChunkFrames(a) * 2) \in 0 .. LargestChunk
    BY <1>1, <2>1 DEF SmallerOf
  <2> QED
    BY Zenon, <2>2 DEF TypeOK, Doubled
<1>3. CASE a \notin Arenas
  BY Zenon, <1>3 DEF TypeOK, Doubled
<1> QED
  BY Zenon, <1>2, <1>3

LEMMA TakeFailsKeeps ==
  ASSUME Inductive, NEW t \in Threads, TakeFails(t)
  PROVE  Inductive'
<1>0. TypeOK /\ OpOK(t)
  BY Zenon DEF Inductive
<1>1. nextChunk' \in [Arenas -> 0 .. LargestChunk]
  BY Zenon, <1>0, DoubledTyped DEF TakeFails
<1>2. TypeOK'
  BY Zenon, <1>0, <1>1 DEF TypeOK, TakeFails, Goto, NoOp, Op
<1>3. OpOK(t)'
  BY Zenon, <1>0 DEF TypeOK, TakeFails, Goto, OpOK, NoOp, Op
<1>4. /\ UNCHANGED <<pool, owner, arena, active, local, held>> /\ liveMutex' = liveMutex
      /\ \A u \in Threads \ {t} : pc'[u] = pc[u] /\ op'[u] = op[u]
      /\ op'[t].frame = None
  BY <1>0 DEF TypeOK, TakeFails, Goto, NoOp, Op
<1> QED
  BY Zenon, <1>2, <1>3, <1>4, MoveKeeps

LEMMA StartEndKeeps ==
  ASSUME Inductive, NEW t \in Threads, StartEnd(t)
  PROVE  Inductive'
<1>0. TypeOK /\ OpOK(t)
  BY Zenon DEF Inductive
<1>1. TypeOK'
  BY Zenon, <1>0 DEF TypeOK, StartEnd, Goto, Op
<1>2. OpOK(t)'
  BY Zenon, <1>0 DEF TypeOK, StartEnd, Goto, OpOK, Op
<1>3. /\ UNCHANGED <<pool, owner, arena, active, local, held>> /\ liveMutex' = liveMutex
      /\ \A u \in Threads \ {t} : pc'[u] = pc[u] /\ op'[u] = op[u]
      /\ op'[t].frame = None
  BY Zenon, <1>0 DEF TypeOK, StartEnd, Goto, Op
<1> QED
  BY Zenon, <1>1, <1>2, <1>3, MoveKeeps

LEMMA EndSlotKeeps ==
  ASSUME Inductive, NEW t \in Threads, EndSlot(t)
  PROVE  Inductive'
<1>0. TypeOK /\ OpOK(t)
  BY Zenon DEF Inductive
<1>1. PICK s \in Slots : op' = [op EXCEPT ![t].slot = s]
  BY Zenon DEF EndSlot
<1>2. TypeOK'
  <2>1. op' = [op EXCEPT ![t] = [op[t] EXCEPT !.slot = s]]
    BY Zenon, <1>1
  <2>2. [op[t] EXCEPT !.slot = s] \in
          [kind : {"none", "acquire", "release", "end"}, pool : Pools \union {None},
           graph : Graphs \union {None}, frame : Frames \union {None},
           slot : Slots \union {None}]
    BY ZenonT(40), <1>0 DEF TypeOK
  <2> QED
    BY Zenon, <1>0, <2>1, <2>2 DEF TypeOK, EndSlot, Goto
<1>3. OpOK(t)'
  BY <1>0, <1>1 DEF TypeOK, EndSlot, Goto, OpOK
<1>4. op'[t].frame = None
  BY <1>0, <1>1 DEF TypeOK, EndSlot, OpOK
<1> QED
  BY Zenon, <1>0, <1>1, <1>2, <1>3, <1>4, MoveKeeps DEF TypeOK, EndSlot, Goto
-----------------------------------------------------------------------------
EntryType == [pool : Pools \union {None}, key : Graphs \union {None}, free : SUBSET Frames]

LEMMA SetMineEffect ==
  ASSUME TypeOK, NEW t \in Threads, op[t].slot \in Slots, NEW e \in EntryType, SetMine(t, e)
  PROVE  /\ local'[t][op[t].slot] = e
         /\ \A r \in Slots : r # op[t].slot => local'[t][r] = local[t][r]
         /\ \A u \in Threads \ {t} : local'[u] = local[u]
         /\ local' \in [Threads -> [Slots -> EntryType]]
<1>1. local' = [local EXCEPT ![t] = [local[t] EXCEPT ![op[t].slot] = e]]
  BY Zenon DEF SetMine
<1>2. local \in [Threads -> [Slots -> EntryType]]
  BY Zenon DEF TypeOK, EntryType
<1> QED
  BY Zenon, <1>1, <1>2

LEMMA MineTyped ==
  ASSUME TypeOK, NEW t \in Threads, op[t].slot \in Slots
  PROVE  /\ Mine(t) \in EntryType
         /\ \A free \in SUBSET Frames :
              /\ [Mine(t) EXCEPT !.free = free] \in EntryType
              /\ [Mine(t) EXCEPT !.free = free].free = free
              /\ [Mine(t) EXCEPT !.free = free].pool = Mine(t).pool
              /\ [Mine(t) EXCEPT !.free = free].key = Mine(t).key
<1>1. Mine(t) \in EntryType
  BY DEF TypeOK, Mine, EntryType
<1>2. ASSUME NEW free \in SUBSET Frames, NEW e \in EntryType
      PROVE  /\ [e EXCEPT !.free = free] \in EntryType
             /\ [e EXCEPT !.free = free].free = free
             /\ [e EXCEPT !.free = free].pool = e.pool
             /\ [e EXCEPT !.free = free].key = e.key
  BY Zenon DEF EntryType
<1> QED
  BY Zenon, <1>1, <1>2

(* The list in a thread's place goes to its arena. *)
LEMMA ListGoesBack ==
  ASSUME Inductive, NEW t \in Threads, op[t].slot \in Slots,
         Mine(t).pool \in Pools,
         arena' = [arena EXCEPT ![<<Mine(t).pool, Mine(t).key>>] = @ \union Mine(t).free],
         SetMine(t, [Mine(t) EXCEPT !.free = {}]),
         UNCHANGED <<pool, owner, active, held>>
  PROVE  /\ InFrames' /\ arena' \in [Arenas -> SUBSET Frames]
         /\ local' \in [Threads -> [Slots -> EntryType]]
         /\ local'[t][op[t].slot].free = {}
         /\ \A u \in Threads \ {t} : local'[u] = local[u]
<1> DEFINE s == op[t].slot
           F == local[t][s].free
           b == <<Mine(t).pool, Mine(t).key>>
<1>0. TypeOK /\ InFrames
  BY Zenon DEF Inductive
<1>1. /\ local'[t][s].free = {} /\ local'[t][s].pool = local[t][s].pool
      /\ local'[t][s].key = local[t][s].key
      /\ \A r \in Slots : r # s => local'[t][r] = local[t][r]
      /\ \A u \in Threads \ {t} : local'[u] = local[u]
      /\ local' \in [Threads -> [Slots -> EntryType]]
  <2> DEFINE e == [Mine(t) EXCEPT !.free = {}]
  <2>1. e \in EntryType /\ e.free = {} /\ e.pool = Mine(t).pool /\ e.key = Mine(t).key
    BY Zenon, <1>0, MineTyped
  <2>2. SetMine(t, e)
    BY Zenon
  <2> HIDE DEF e
  <2> QED
    BY Zenon, <1>0, <2>1, <2>2, SetMineEffect DEF Mine
<1>2. b \in Arenas /\ b = <<local[t][s].pool, local[t][s].key>> /\ F \subseteq Frames
  BY <1>0, PoolConstants DEF InFrames, EntriesMade, Mine, Arenas, TypeOK
<1>3. /\ arena' \in [Arenas -> SUBSET Frames]
      /\ arena'[b] = arena[b] \union F
      /\ \A a \in Arenas : a # b => arena'[a] = arena[a]
  BY Zenon, <1>0, <1>2 DEF TypeOK, Mine
<1>4. \A u \in Threads, r \in Slots : local'[u][r].free =
         IF u = t /\ r = s THEN {} ELSE local[u][r].free
  BY Zenon, <1>1
<1>5. \A u \in Threads, r \in Slots : /\ local'[u][r].pool = local[u][r].pool
                                      /\ local'[u][r].key = local[u][r].key
  BY Zenon, <1>1
<1>6. ListsFit'
  <2>0. /\ \A a \in Arenas : \A f \in arena[a] : owner[f] = a
        /\ \A f \in F : owner[f] = <<local[t][s].pool, local[t][s].key>>
    BY Zenon, <1>0 DEF InFrames, ListsFit
  <2>1. \A f \in F : owner[f] = b
    BY Zenon, <1>2, <2>0
  <2>2. \A a \in Arenas : \A f \in arena'[a] : owner[f] = a
    BY Zenon, <1>3, <2>0, <2>1
  <2>3. \A u \in Threads, r \in Slots : \A f \in local'[u][r].free :
          owner[f] = <<local'[u][r].pool, local'[u][r].key>>
    BY <1>0, <1>4, <1>5 DEF InFrames, ListsFit
  <2> QED
    BY <2>2, <2>3 DEF ListsFit
<1>7. EntriesMade'
  BY <1>0, <1>4, <1>5 DEF InFrames, EntriesMade
<1>8. Apart'
  <2>1. \A h \in held : \A a \in Arenas : h.frame \notin arena'[a]
    BY <1>0, <1>3 DEF InFrames, Apart
  <2>2. \A h \in held : \A u \in Threads, r \in Slots : h.frame \notin local'[u][r].free
    BY <1>0, <1>4 DEF InFrames, Apart
  <2>3. ASSUME NEW u \in Threads, NEW r \in Slots, NEW f \in local'[u][r].free
        PROVE  /\ \A a \in Arenas : f \notin arena'[a]
               /\ \A v \in Threads, q \in Slots : f \in local'[v][q].free => v = u /\ q = r
    <3>1. f \in local[u][r].free /\ ~ (u = t /\ r = s)
      BY Zenon, <1>4
    <3>2. f \notin F
      BY <1>0, <3>1 DEF InFrames, Apart
    <3>3. \A a \in Arenas : f \notin arena'[a]
      BY <1>0, <1>3, <3>1, <3>2 DEF InFrames, Apart
    <3>4. \A v \in Threads, q \in Slots : f \in local'[v][q].free => v = u /\ q = r
      BY <1>0, <1>4, <3>1 DEF InFrames, Apart
    <3> QED
      BY Zenon, <3>3, <3>4
  <2> QED
    BY Zenon, <2>1, <2>2, <2>3 DEF Apart
<1>9. Somewhere'
  <2> SUFFICES ASSUME NEW f \in Frames, owner[f] # None, pool[owner[f][1]] = "live"
               PROVE  \/ f \in arena'[owner[f]]
                      \/ \E u \in Threads, r \in Slots : f \in local'[u][r].free
                      \/ \E h \in held : h.frame = f
    BY Zenon DEF Somewhere
  <2>1. CASE f \in arena[owner[f]]
    <3>1. owner[f] \in Arenas
      BY Zenon, <1>0 DEF TypeOK
    <3> QED
      BY Zenon, <1>3, <2>1, <3>1
  <2>2. CASE f \in F
    <3>1. \A g \in F : owner[g] = <<local[t][s].pool, local[t][s].key>>
      BY Zenon, <1>0 DEF InFrames, ListsFit
    <3>2. owner[f] = b
      BY Zenon, <1>2, <2>2, <3>1
    <3> QED
      BY Zenon, <1>3, <2>2, <3>2
  <2>3. CASE f \notin arena[owner[f]] /\ f \notin F
    BY <1>0, <1>4, <2>3 DEF InFrames, Somewhere
  <2> QED
    BY Zenon, <2>1, <2>2, <2>3
<1>10. OwnersMade' /\ Marked' /\ CalleeFits'
  BY Zenon, <1>0 DEF InFrames, OwnersMade, Marked, CalleeFits
<1> QED
  BY Zenon, <1>1, <1>3, <1>6, <1>7, <1>8, <1>9, <1>10 DEF InFrames

LEMMA EvictOwnKeeps ==
  ASSUME Inductive, NEW t \in Threads, EvictOwn(t)
  PROVE  Inductive'
<1>0. /\ TypeOK /\ OpOK(t) /\ op[t].slot \in Slots /\ Mine(t).pool \in Pools
      /\ op[t].kind \in {"acquire", "release"}
  BY DEF Inductive, OpOK, EvictOwn, Slots
<1>1. /\ InFrames' /\ arena' \in [Arenas -> SUBSET Frames]
      /\ local' \in [Threads -> [Slots -> EntryType]]
      /\ local'[t][op[t].slot].free = {}
      /\ \A u \in Threads \ {t} : local'[u] = local[u]
  BY Zenon, <1>0, ListGoesBack DEF EvictOwn
<1>2. TypeOK'
  BY Zenon, <1>0, <1>1 DEF TypeOK, EvictOwn, Goto, EntryType
<1>3. OpOK(t)'
  BY Zenon, <1>0, <1>1 DEF TypeOK, EvictOwn, Goto, OpOK, Mine
<1>4. \A u \in Threads \ {t} : OpOK(u)'
  BY Zenon, <1>0, <1>1, OthersKeep DEF TypeOK, EvictOwn, Goto
<1>5. ReleasesApart'
  BY Zenon DEF Inductive, ReleasesApart, EvictOwn
<1> QED
  BY Zenon, <1>1, <1>2, <1>3, <1>4, <1>5 DEF Inductive

LEMMA GiveInsertKeeps ==
  ASSUME Inductive, NEW t \in Threads, GiveInsert(t)
  PROVE  Inductive'
<1>0. /\ TypeOK /\ OpOK(t) /\ op[t].slot \in Slots /\ Mine(t).pool \in Pools
      /\ op[t].kind # "none" /\ liveMutex = t
  BY Zenon DEF Inductive, OpOK, GiveInsert
<1>1. /\ InFrames' /\ arena' \in [Arenas -> SUBSET Frames]
      /\ local' \in [Threads -> [Slots -> EntryType]]
      /\ local'[t][op[t].slot].free = {}
      /\ \A u \in Threads \ {t} : local'[u] = local[u]
  BY Zenon, <1>0, ListGoesBack DEF GiveInsert
<1>2. TypeOK'
  BY Zenon, <1>0, <1>1 DEF TypeOK, GiveInsert, Goto, EntryType, AfterGive
<1>3. OpOK(t)'
  BY Zenon, <1>0, <1>1 DEF TypeOK, GiveInsert, Goto, OpOK, Mine, AfterGive
<1>4. \A u \in Threads \ {t} : OpOK(u)'
  BY Zenon, <1>0, <1>1, OthersKeep DEF TypeOK, GiveInsert, Goto
<1>5. ReleasesApart'
  BY Zenon DEF Inductive, ReleasesApart, GiveInsert
<1> QED
  BY Zenon, <1>1, <1>2, <1>3, <1>4, <1>5 DEF Inductive
(* A step of t on its place and the arena of the place: the frames of the  *)
(* list and the arena, the new ones N and the returned ones R become the   *)
(* list L, the arena's A and the ones handed out H.                        *)
Repartitions(t, p, g, N, R, L, A, H) ==
  /\ op[t].slot \in Slots /\ p \in Pools /\ g \in Graphs /\ pool[p] = "live"
  /\ Mine(t).pool = p /\ Mine(t).key = g
  /\ N \in SUBSET Frames /\ R \in SUBSET Frames
  /\ \A f \in N : owner[f] = None
  /\ \A f \in R : Call(f, p, g) \in held
  /\ L \union A \union H = Mine(t).free \union arena[<<p, g>>] \union N \union R
  /\ L \intersect A = {} /\ L \intersect H = {} /\ A \intersect H = {}
  /\ owner' = [f \in Frames |-> IF f \in N THEN <<p, g>> ELSE owner[f]]
  /\ SetMine(t, [Mine(t) EXCEPT !.free = L])
  /\ arena' = [arena EXCEPT ![<<p, g>>] = A]
  /\ held' = (held \ {Call(f, p, g) : f \in R}) \union {Call(f, p, g) : f \in H}
  /\ active' = (active \ R) \union H
  /\ pool' = pool

LEMMA Repartition ==
  ASSUME Inductive, NEW t \in Threads, NEW p, NEW g, NEW N, NEW R, NEW L, NEW A, NEW H,
         Repartitions(t, p, g, N, R, L, A, H)
  PROVE  /\ InFrames' /\ arena' \in [Arenas -> SUBSET Frames]
         /\ local' \in [Threads -> [Slots -> EntryType]]
         /\ owner' \in [Frames -> Arenas \union {None}]
         /\ active' \subseteq Frames
         /\ held' \subseteq [frame : Frames, pool : Pools, graph : Graphs]
         /\ \A u \in Threads \ {t} : local'[u] = local[u]
<1> DEFINE s == op[t].slot
           F == local[t][s].free
           b == <<p, g>>
           O == F \union arena[b] \union N \union R
<1> USE DEF Repartitions
<1>0. TypeOK /\ InFrames /\ b \in Arenas /\ b # None
  BY PoolConstants DEF Inductive, Arenas
<1>1. /\ F \subseteq Frames /\ arena[b] \subseteq Frames
      /\ L \subseteq Frames /\ A \subseteq Frames /\ H \subseteq Frames
      /\ O \subseteq Frames /\ L \union A \union H = O
  <2>1. F \subseteq Frames /\ arena[b] \subseteq Frames /\ Mine(t).free = F
    BY <1>0 DEF TypeOK, Mine
  <2> QED
    BY Zenon, <2>1
<1>2. /\ local'[t][s].free = L /\ local'[t][s].pool = p /\ local'[t][s].key = g
      /\ local[t][s].pool = p /\ local[t][s].key = g
      /\ \A r \in Slots : r # s => local'[t][r] = local[t][r]
      /\ \A u \in Threads \ {t} : local'[u] = local[u]
      /\ local' \in [Threads -> [Slots -> EntryType]]
  <2> DEFINE e == [Mine(t) EXCEPT !.free = L]
  <2>1. e \in EntryType /\ e.free = L /\ e.pool = Mine(t).pool /\ e.key = Mine(t).key
    BY Zenon, <1>0, <1>1, MineTyped
  <2>2. SetMine(t, e)
    BY Zenon
  <2> HIDE DEF e
  <2> QED
    BY Zenon, <1>0, <2>1, <2>2, SetMineEffect DEF Mine
<1>3. /\ arena' \in [Arenas -> SUBSET Frames] /\ arena'[b] = A
      /\ \A a \in Arenas : a # b => arena'[a] = arena[a]
  BY Zenon, <1>0, <1>1 DEF TypeOK
<1>4. \A u \in Threads, r \in Slots : local'[u][r].free =
         IF u = t /\ r = s THEN L ELSE local[u][r].free
  BY Zenon, <1>2
<1>5. \A u \in Threads, r \in Slots : /\ local'[u][r].pool = local[u][r].pool
                                      /\ local'[u][r].key = local[u][r].key
  BY Zenon, <1>2
<1>6. \A f \in Frames : owner'[f] = IF f \in N THEN b ELSE owner[f]
  BY Zenon
<1>7. \A f \in O : owner'[f] = b
  <2>1. \A f \in F : owner[f] = b
    BY <1>0, <1>2 DEF InFrames, ListsFit
  <2>2. \A f \in arena[b] : owner[f] = b
    BY Zenon, <1>0 DEF InFrames, ListsFit
  <2>3. \A f \in R : owner[f] = b
    BY Zenon, <1>0 DEF InFrames, CalleeFits, Call
  <2> QED
    BY Zenon, <1>1, <1>6, <2>1, <2>2, <2>3
<1>8. \A f \in O : \A u \in Threads, r \in Slots : f \in local[u][r].free => u = t /\ r = s
  <2> SUFFICES ASSUME NEW f \in O, NEW u \in Threads, NEW r \in Slots, f \in local[u][r].free
               PROVE  u = t /\ r = s
    BY Zenon
  <2>1. CASE f \in F
    BY <1>0, <2>1 DEF InFrames, Apart
  <2>2. CASE f \in arena[b]
    BY <1>0, <2>2 DEF InFrames, Apart
  <2>3. CASE f \in N
    <3>1. owner[f] = <<local[u][r].pool, local[u][r].key>> /\ owner[f] = None
      BY <1>0, <2>3 DEF InFrames, ListsFit
    <3>2. local[u][r].pool \in Pools /\ local[u][r].key \in Graphs
      BY <1>0 DEF InFrames, EntriesMade, TypeOK
    <3> QED
      BY <3>1, <3>2, PoolConstants
  <2>4. CASE f \in R
    <3>1. Call(f, p, g) \in held /\ Call(f, p, g).frame = f
      BY Zenon, <2>4 DEF Call
    <3> QED
      BY <1>0, <3>1 DEF InFrames, Apart
  <2> QED
    BY Zenon, <2>1, <2>2, <2>3, <2>4
<1>9. \A h \in held : h.frame \in O => h.frame \in R /\ h = Call(h.frame, p, g)
  <2> SUFFICES ASSUME NEW h \in held, h.frame \in O
               PROVE  h.frame \in R /\ h = Call(h.frame, p, g)
    BY Zenon
  <2>0. h \in [frame : Frames, pool : Pools, graph : Graphs] /\ owner[h.frame] = <<h.pool, h.graph>>
    BY Zenon, <1>0 DEF TypeOK, InFrames, CalleeFits
  <2>1. h.frame \notin F /\ h.frame \notin arena[b]
    BY <1>0 DEF InFrames, Apart
  <2>2. h.frame \notin N
    BY <2>0, PoolConstants
  <2>3. h.frame \in R
    BY Zenon, <2>1, <2>2
  <2>4. h.pool = p /\ h.graph = g
    BY <1>6, <1>7, <2>0, <2>2
  <2> QED
    BY Zenon, <2>0, <2>3, <2>4 DEF Call
<1>10. \A a \in Arenas : \A f \in arena[a] : f \in O => a = b
  <2> SUFFICES ASSUME NEW a \in Arenas, NEW f \in arena[a], f \in O
               PROVE  a = b
    BY Zenon
  <2>1. owner[f] = a /\ f \in Frames
    BY Zenon, <1>0, <1>1 DEF InFrames, ListsFit
  <2>2. f \notin N
    BY Zenon, <2>1, PoolConstants DEF Arenas
  <2> QED
    BY Zenon, <1>6, <1>7, <2>1, <2>2
<1>11. /\ \A h \in held' : \/ h \in held /\ h.frame \notin O
                           \/ h.frame \in H /\ h = Call(h.frame, p, g)
       /\ \A h \in held : h.frame \notin O => h \in held'
       /\ \A f \in H : Call(f, p, g) \in held' /\ Call(f, p, g).frame = f
  BY <1>9 DEF Call
<1>12. ListsFit'
  <2>1. \A a \in Arenas : \A f \in arena'[a] : owner'[f] = a
    <3> SUFFICES ASSUME NEW a \in Arenas, NEW f \in arena'[a] PROVE owner'[f] = a
      BY Zenon
    <3>1. CASE a = b
      BY Zenon, <1>1, <1>3, <1>7, <3>1
    <3>2. CASE a # b
      <4>1. f \in arena[a] /\ f \in Frames /\ owner[f] = a
        BY <1>0, <1>3, <3>2 DEF InFrames, ListsFit, TypeOK
      <4>2. f \notin N
        BY Zenon, <4>1, <1>10, <3>2
      <4> QED
        BY Zenon, <1>6, <4>1, <4>2
    <3> QED
      BY Zenon, <3>1, <3>2
  <2>2. \A u \in Threads, r \in Slots : \A f \in local'[u][r].free :
          owner'[f] = <<local'[u][r].pool, local'[u][r].key>>
    <3> SUFFICES ASSUME NEW u \in Threads, NEW r \in Slots, NEW f \in local'[u][r].free
                 PROVE  owner'[f] = <<local'[u][r].pool, local'[u][r].key>>
      BY Zenon
    <3>1. CASE u = t /\ r = s
      BY Zenon, <1>1, <1>2, <1>7, <3>1
    <3>2. CASE ~ (u = t /\ r = s)
      <4>1. /\ f \in local[u][r].free /\ f \in Frames
            /\ owner[f] = <<local[u][r].pool, local[u][r].key>>
        BY <1>0, <1>4, <3>2 DEF InFrames, ListsFit, TypeOK
      <4>2. f \notin N
        BY <4>1, <1>8, <3>2
      <4> QED
        BY Zenon, <1>5, <1>6, <4>1, <4>2
    <3> QED
      BY Zenon, <3>1, <3>2
  <2> QED
    BY Zenon, <2>1, <2>2 DEF ListsFit
<1>13. EntriesMade'
  <2> SUFFICES ASSUME NEW u \in Threads, NEW r \in Slots
               PROVE  IF local'[u][r].pool = None THEN local'[u][r].free = {}
                      ELSE local'[u][r].key \in Graphs /\ pool[local'[u][r].pool] # "unborn"
    BY Zenon DEF EntriesMade
  <2>1. CASE u = t /\ r = s
    BY <1>2, <2>1, PoolConstants
  <2>2. CASE ~ (u = t /\ r = s)
    BY <1>0, <1>4, <1>5, <2>2 DEF InFrames, EntriesMade
  <2> QED
    BY Zenon, <2>1, <2>2
<1>14. Apart'
  <2>1. \A h \in held' : \A a \in Arenas : h.frame \notin arena'[a]
    <3> SUFFICES ASSUME NEW h \in held', NEW a \in Arenas, h.frame \in arena'[a] PROVE FALSE
      BY Zenon
    <3>1. CASE h \in held /\ h.frame \notin O
      BY Zenon, <1>0, <1>1, <1>3, <3>1 DEF InFrames, Apart
    <3>2. CASE h.frame \in H
      BY Zenon, <1>1, <1>3, <1>10, <3>2
    <3> QED
      BY Zenon, <1>11, <3>1, <3>2
  <2>2. \A h \in held' : \A u \in Threads, r \in Slots : h.frame \notin local'[u][r].free
    <3> SUFFICES ASSUME NEW h \in held', NEW u \in Threads, NEW r \in Slots,
                        h.frame \in local'[u][r].free
                 PROVE  FALSE
      BY Zenon
    <3>1. CASE h \in held /\ h.frame \notin O
      BY <1>0, <1>1, <1>4, <3>1 DEF InFrames, Apart
    <3>2. CASE h.frame \in H
      BY <1>1, <1>4, <1>8, <3>2
    <3> QED
      BY Zenon, <1>11, <3>1, <3>2
  <2>3. ASSUME NEW u \in Threads, NEW r \in Slots, NEW f \in local'[u][r].free
        PROVE  /\ \A a \in Arenas : f \notin arena'[a]
               /\ \A v \in Threads, q \in Slots : f \in local'[v][q].free => v = u /\ q = r
    <3>1. CASE u = t /\ r = s
      <4>1. f \in L /\ f \in O
        BY <1>1, <1>4, <3>1
      <4> QED
        BY <1>3, <1>4, <1>8, <1>10, <3>1, <4>1
    <3>2. CASE ~ (u = t /\ r = s)
      <4>1. f \in local[u][r].free
        BY Zenon, <1>4, <3>2
      <4>2. f \notin O
        BY Zenon, <1>8, <3>2, <4>1
      <4>3. \A a \in Arenas : f \notin arena'[a]
        BY <1>0, <1>1, <1>3, <4>1, <4>2 DEF InFrames, Apart
      <4>4. \A v \in Threads, q \in Slots : f \in local'[v][q].free => v = u /\ q = r
        BY <1>0, <1>1, <1>4, <4>1, <4>2 DEF InFrames, Apart
      <4> QED
        BY Zenon, <4>3, <4>4
    <3> QED
      BY Zenon, <3>1, <3>2
  <2> QED
    BY Zenon, <2>1, <2>2, <2>3 DEF Apart
<1>15. Somewhere'
  <2> SUFFICES ASSUME NEW f \in Frames, owner'[f] # None, pool[owner'[f][1]] = "live"
               PROVE  \/ f \in arena'[owner'[f]]
                      \/ \E u \in Threads, r \in Slots : f \in local'[u][r].free
                      \/ \E h \in held' : h.frame = f
    BY Zenon DEF Somewhere
  <2>1. CASE f \in L
    BY <1>4, <2>1
  <2>2. CASE f \in A
    BY Zenon, <1>1, <1>3, <1>7, <2>2
  <2>3. CASE f \in H
    BY Zenon, <1>11, <2>3
  <2>4. CASE f \notin O
    <3>1. owner'[f] = owner[f] /\ owner[f] \in Arenas
      BY <1>0, <1>6, <2>4 DEF TypeOK
    <3>2. CASE f \in arena[owner[f]]
      <4>1. owner[f] # b
        BY Zenon, <2>4, <3>2
      <4> QED
        BY Zenon, <1>3, <3>1, <3>2, <4>1
    <3>3. CASE \E u \in Threads, r \in Slots : f \in local[u][r].free
      <4>1. PICK u \in Threads, r \in Slots : f \in local[u][r].free
        BY Zenon, <3>3
      <4>2. ~ (u = t /\ r = s)
        BY Zenon, <2>4, <4>1
      <4> QED
        BY <1>4, <4>1, <4>2
    <3>4. CASE \E h \in held : h.frame = f
      BY <1>11, <2>4, <3>4
    <3> QED
      BY Zenon, <1>0, <3>1, <3>2, <3>3, <3>4 DEF InFrames, Somewhere
  <2> QED
    BY Zenon, <1>1, <2>1, <2>2, <2>3, <2>4
<1>16. Marked'
  <2>1. ASSUME NEW x \in active' PROVE \E h \in held' : h.frame = x
    <3>1. CASE x \in H
      BY Zenon, <1>11, <3>1
    <3>2. CASE x \in active /\ x \notin R
      <4>1. PICK h \in held : h.frame = x
        BY Zenon, <1>0, <3>2 DEF InFrames, Marked
      <4> QED
        BY Zenon, <1>9, <1>11, <3>2, <4>1
    <3> QED
      BY Zenon, <3>1, <3>2
  <2>2. ASSUME NEW h \in held' PROVE h.frame \in active'
    <3>1. CASE h \in held /\ h.frame \notin O
      BY Zenon, <1>0, <3>1 DEF InFrames, Marked
    <3>2. CASE h.frame \in H
      BY Zenon, <3>2
    <3> QED
      BY Zenon, <1>11, <3>1, <3>2
  <2> QED
    BY <2>1, <2>2 DEF Marked
<1>17. CalleeFits' /\ held' \subseteq [frame : Frames, pool : Pools, graph : Graphs]
  <2> SUFFICES ASSUME NEW h \in held'
               PROVE  /\ owner'[h.frame] = <<h.pool, h.graph>> /\ pool[h.pool] = "live"
                      /\ h \in [frame : Frames, pool : Pools, graph : Graphs]
    BY Zenon DEF CalleeFits
  <2>1. CASE h \in held /\ h.frame \notin O
    <3>1. /\ h \in [frame : Frames, pool : Pools, graph : Graphs]
          /\ owner[h.frame] = <<h.pool, h.graph>> /\ pool[h.pool] = "live"
      BY Zenon, <1>0, <2>1 DEF InFrames, CalleeFits, TypeOK
    <3> QED
      BY Zenon, <1>6, <2>1, <3>1
  <2>2. CASE h.frame \in H /\ h = Call(h.frame, p, g)
    <3>1. h.pool = p /\ h.graph = g /\ h \in [frame : Frames, pool : Pools, graph : Graphs]
      BY <1>1, <2>2 DEF Call
    <3> QED
      BY Zenon, <1>1, <1>7, <2>2, <3>1
  <2> QED
    BY Zenon, <1>11, <2>1, <2>2
<1>18. owner' \in [Frames -> Arenas \union {None}] /\ active' \subseteq Frames
  BY Zenon, <1>0, <1>1 DEF TypeOK
<1>19. OwnersMade'
  BY Zenon, <1>0, <1>6 DEF InFrames, OwnersMade
<1> QED
  BY Zenon, <1>2, <1>3, <1>12, <1>13, <1>14, <1>15, <1>16, <1>17, <1>18, <1>19 DEF InFrames

LEMMA ReadyFacts ==
  ASSUME Inductive, NEW t \in Threads, pc[t] = "ready"
  PROVE  /\ TypeOK /\ InFrames /\ OpOK(t) /\ op[t].slot \in Slots
         /\ op[t].pool \in Pools /\ op[t].graph \in Graphs /\ pool[op[t].pool] = "live"
         /\ Mine(t).pool = op[t].pool /\ Mine(t).key = op[t].graph
         /\ Target(t) = <<op[t].pool, op[t].graph>> /\ Target(t) \in Arenas
         /\ Mine(t).free \subseteq Frames /\ arena[Target(t)] \subseteq Frames
         /\ Mine(t).free \intersect arena[Target(t)] = {}
<1>1. /\ TypeOK /\ InFrames /\ OpOK(t) /\ op[t].slot \in Slots
      /\ op[t].pool \in Pools /\ op[t].graph \in Graphs /\ pool[op[t].pool] = "live"
      /\ Mine(t).pool = op[t].pool /\ Mine(t).key = op[t].graph
  BY DEF Inductive, OpOK, Slots
<1>2. Target(t) = <<op[t].pool, op[t].graph>> /\ Target(t) \in Arenas
  BY Zenon, <1>1 DEF Target, Arenas
<1>3. Mine(t).free \subseteq Frames /\ arena[Target(t)] \subseteq Frames
  BY <1>1, <1>2 DEF TypeOK, Mine
<1>4. Mine(t).free \intersect arena[Target(t)] = {}
  BY <1>1, <1>2 DEF InFrames, Apart, Mine
<1> QED
  BY Zenon, <1>1, <1>2, <1>3, <1>4

(* The end of an operation of t that changed the frames as Repartition has *)
(* it.                                                                     *)
LEMMA OperationEnds ==
  ASSUME Inductive, NEW t \in Threads,
         InFrames', arena' \in [Arenas -> SUBSET Frames],
         local' \in [Threads -> [Slots -> EntryType]],
         owner' \in [Frames -> Arenas \union {None}],
         active' \subseteq Frames, nextChunk' \in [Arenas -> 0 .. LargestChunk],
         held' \subseteq [frame : Frames, pool : Pools, graph : Graphs],
         \A u \in Threads \ {t} : local'[u] = local[u],
         \A h \in held : h.frame # op[t].frame => h \in held',
         pool' = pool, liveMutex' = liveMutex,
         Goto(t, "idle"), op' = [op EXCEPT ![t] = NoOp]
  PROVE  Inductive'
<1>0. TypeOK
  BY Zenon DEF Inductive
<1>1. NoOp \in [kind : {"none", "acquire", "release", "end"}, pool : Pools \union {None},
                graph : Graphs \union {None}, frame : Frames \union {None},
                slot : Slots \union {None}]
      /\ NoOp.kind = "none" /\ NoOp.frame = None
  BY Zenon DEF NoOp, Op
<1>2. /\ pc'[t] = "idle" /\ op'[t] = NoOp
      /\ \A u \in Threads \ {t} : pc'[u] = pc[u] /\ op'[u] = op[u]
  BY Zenon, <1>0 DEF TypeOK, Goto
<1>3. TypeOK'
  <2>1. pc' \in [Threads -> {"idle", "lookup", "give", "insert", "drop", "bind", "ready", "ending"}]
    BY Zenon, <1>0 DEF TypeOK, Goto
  <2>2. op' \in [Threads -> [kind : {"none", "acquire", "release", "end"}, pool : Pools \union {None},
                            graph : Graphs \union {None}, frame : Frames \union {None},
                            slot : Slots \union {None}]]
    BY Zenon, <1>0, <1>1 DEF TypeOK
  <2> QED
    BY Zenon, <1>0, <2>1, <2>2 DEF TypeOK, EntryType
<1>4. OpOK(t)'
  BY Zenon, <1>1, <1>2 DEF OpOK
<1>5. \A u \in Threads \ {t} : OpOK(u)'
  BY Zenon, <1>2, OthersKeep
<1>6. ReleasesApart'
  BY <1>1, <1>2 DEF Inductive, ReleasesApart
<1> QED
  BY Zenon, <1>3, <1>4, <1>5, <1>6 DEF Inductive

LEMMA TakeLocalKeeps ==
  ASSUME Inductive, NEW t \in Threads, TakeLocal(t)
  PROVE  Inductive'
<1> DEFINE p == op[t].pool
           g == op[t].graph
<1>0. pc[t] = "ready" /\ UNCHANGED <<pool, owner, arena, nextChunk, liveMutex>>
  BY Zenon DEF TakeLocal
<1>1. PICK f \in Mine(t).free :
        /\ SetMine(t, [Mine(t) EXCEPT !.free = Mine(t).free \ {f}])
        /\ HandOut(t, f)
  BY Zenon DEF TakeLocal
<1>2. /\ active' = active \union {f} /\ held' = held \union {Call(f, p, g)}
      /\ Goto(t, "idle") /\ op' = [op EXCEPT ![t] = NoOp]
  BY Zenon, <1>1 DEF HandOut
<1>3. /\ TypeOK /\ op[t].slot \in Slots /\ p \in Pools /\ g \in Graphs /\ pool[p] = "live"
      /\ Mine(t).pool = p /\ Mine(t).key = g /\ Target(t) = <<p, g>> /\ <<p, g>> \in Arenas
      /\ Mine(t).free \subseteq Frames /\ Mine(t).free \intersect arena[<<p, g>>] = {}
  BY Zenon, <1>0, ReadyFacts
<1>4. /\ owner' = [x \in Frames |-> IF x \in {} THEN <<p, g>> ELSE owner[x]]
      /\ arena' = [arena EXCEPT ![<<p, g>>] = arena[<<p, g>>]]
  BY Zenon, <1>0, <1>3 DEF TypeOK
<1>5. /\ held' = (held \ {Call(x, p, g) : x \in {}}) \union {Call(x, p, g) : x \in {f}}
      /\ active' = (active \ {}) \union {f}
  BY Zenon, <1>2
<1> DEFINE L == Mine(t).free \ {f}
           A == arena[<<p, g>>]
           H == {f}
<1>6. /\ L \union A \union H = Mine(t).free \union arena[<<p, g>>] \union {} \union {}
      /\ L \intersect A = {} /\ L \intersect H = {} /\ A \intersect H = {}
  BY Zenon, <1>1, <1>3
<1>7. /\ InFrames' /\ arena' \in [Arenas -> SUBSET Frames]
      /\ local' \in [Threads -> [Slots -> EntryType]]
      /\ owner' \in [Frames -> Arenas \union {None}]
      /\ active' \subseteq Frames
      /\ held' \subseteq [frame : Frames, pool : Pools, graph : Graphs]
      /\ \A u \in Threads \ {t} : local'[u] = local[u]
  <2> HIDE DEF p, g, L, A, H
  <2>1. SetMine(t, [Mine(t) EXCEPT !.free = L])
    BY Zenon, <1>1 DEF L
  <2>2. Repartitions(t, p, g, {}, {}, L, A, H)
    BY Zenon, <1>0, <1>3, <1>4, <1>5, <1>6, <2>1 DEF A, H, Repartitions
  <2> QED
    BY Zenon, <2>2, Repartition
<1> QED
  BY Zenon, <1>0, <1>2, <1>3, <1>7, OperationEnds DEF TypeOK

LEMMA RefillKeeps ==
  ASSUME Inductive, NEW t \in Threads, pc[t] = "ready", Mine(t).free = {},
         NEW N \in SUBSET Unborn, NEW avail, avail = arena[Target(t)] \union N,
         Refill(t, avail), nextChunk' \in [Arenas -> 0 .. LargestChunk],
         owner' = [f \in Frames |-> IF f \in N THEN Target(t) ELSE owner[f]],
         pool' = pool, liveMutex' = liveMutex
  PROVE  Inductive'
<1> DEFINE p == op[t].pool
           g == op[t].graph
<1>0. PICK taken \in SUBSET avail : \E f \in taken :
        /\ SetMine(t, [Mine(t) EXCEPT !.free = taken \ {f}])
        /\ arena' = [arena EXCEPT ![Target(t)] = avail \ taken]
        /\ HandOut(t, f)
  BY Zenon DEF Refill
<1>1. PICK f \in taken :
        /\ SetMine(t, [Mine(t) EXCEPT !.free = taken \ {f}])
        /\ arena' = [arena EXCEPT ![Target(t)] = avail \ taken]
        /\ HandOut(t, f)
  BY Zenon, <1>0
<1>2. /\ active' = active \union {f} /\ held' = held \union {Call(f, p, g)}
      /\ Goto(t, "idle") /\ op' = [op EXCEPT ![t] = NoOp]
  BY Zenon, <1>1 DEF HandOut
<1>3. /\ op[t].slot \in Slots /\ p \in Pools /\ g \in Graphs /\ pool[p] = "live"
      /\ Mine(t).pool = p /\ Mine(t).key = g /\ Target(t) = <<p, g>>
  BY Zenon, ReadyFacts
<1>4. /\ held' = (held \ {Call(x, p, g) : x \in {}}) \union {Call(x, p, g) : x \in {f}}
      /\ active' = (active \ {}) \union {f}
  BY Zenon, <1>2
<1> DEFINE L == taken \ {f}
           A == avail \ taken
           H == {f}
<1>5. /\ L \union A \union H = Mine(t).free \union arena[<<p, g>>] \union N \union {}
      /\ L \intersect A = {} /\ L \intersect H = {} /\ A \intersect H = {}
  BY Zenon, <1>1, <1>3
<1>6. N \in SUBSET Frames /\ \A x \in N : owner[x] = None
  BY Zenon DEF Unborn
<1>7. /\ InFrames' /\ arena' \in [Arenas -> SUBSET Frames]
      /\ local' \in [Threads -> [Slots -> EntryType]]
      /\ owner' \in [Frames -> Arenas \union {None}]
      /\ active' \subseteq Frames
      /\ held' \subseteq [frame : Frames, pool : Pools, graph : Graphs]
      /\ \A u \in Threads \ {t} : local'[u] = local[u]
  <2> HIDE DEF p, g, L, A, H
  <2>1. /\ SetMine(t, [Mine(t) EXCEPT !.free = L])
        /\ arena' = [arena EXCEPT ![<<p, g>>] = A]
        /\ owner' = [x \in Frames |-> IF x \in N THEN <<p, g>> ELSE owner[x]]
    BY Zenon, <1>1, <1>3 DEF L, A
  <2>2. Repartitions(t, p, g, N, {}, L, A, H)
    BY Zenon, <1>3, <1>4, <1>5, <1>6, <2>1 DEF H, Repartitions
  <2> QED
    BY Zenon, <2>2, Repartition
<1> QED
  BY Zenon, <1>2, <1>7, OperationEnds

LEMMA TakeSharedKeeps ==
  ASSUME Inductive, NEW t \in Threads, TakeShared(t)
  PROVE  Inductive'
<1>0. /\ pc[t] = "ready" /\ Mine(t).free = {} /\ Refill(t, arena[Target(t)])
      /\ UNCHANGED <<pool, owner, nextChunk, liveMutex>>
  BY Zenon DEF TakeShared
<1>1. /\ nextChunk' \in [Arenas -> 0 .. LargestChunk]
      /\ owner' = [f \in Frames |-> IF f \in {} THEN Target(t) ELSE owner[f]]
  BY Zenon, <1>0 DEF Inductive, TypeOK
<1>2. arena[Target(t)] = arena[Target(t)] \union {} /\ {} \in SUBSET Unborn
  BY Zenon
<1> QED
  BY Zenon, <1>0, <1>1, <1>2, RefillKeeps

LEMMA TakeNewKeeps ==
  ASSUME Inductive, NEW t \in Threads, TakeNew(t)
  PROVE  Inductive'
<1>0. /\ pc[t] = "ready" /\ Mine(t).free = {} /\ arena[Target(t)] = {}
      /\ UNCHANGED <<pool, liveMutex>>
  BY Zenon DEF TakeNew
<1>1. PICK new \in SUBSET Unborn : AllocateChunk(Target(t), new) /\ Refill(t, new)
  BY Zenon DEF TakeNew
<1>2. /\ nextChunk' \in [Arenas -> 0 .. LargestChunk]
      /\ owner' = [f \in Frames |-> IF f \in new THEN Target(t) ELSE owner[f]]
  BY Zenon, <1>1, DoubledTyped DEF Inductive, AllocateChunk
<1>3. new = arena[Target(t)] \union new
  BY Zenon, <1>0
<1> QED
  BY Zenon, <1>0, <1>1, <1>2, <1>3, RefillKeeps

LEMMA PutKeeps ==
  ASSUME Inductive, NEW t \in Threads, Put(t)
  PROVE  Inductive'
<1> DEFINE p == op[t].pool
           g == op[t].graph
           r == op[t].frame
           free == Mine(t).free \union {r}
<1>0. /\ pc[t] = "ready" /\ op[t].kind = "release" /\ active' = active \ {r}
      /\ Spill(t, free) /\ held' = held \ {Call(r, p, g)}
      /\ Goto(t, "idle") /\ op' = [op EXCEPT ![t] = NoOp]
      /\ UNCHANGED <<pool, owner, nextChunk, liveMutex>>
  BY Zenon DEF Put
<1>1. /\ TypeOK /\ InFrames /\ OpOK(t) /\ op[t].slot \in Slots
      /\ p \in Pools /\ g \in Graphs /\ pool[p] = "live"
      /\ Mine(t).pool = p /\ Mine(t).key = g /\ Target(t) = <<p, g>> /\ <<p, g>> \in Arenas
      /\ Mine(t).free \intersect arena[<<p, g>>] = {}
  BY Zenon, <1>0, ReadyFacts
<1>2. r \in Frames /\ Call(r, p, g) \in held /\ Call(r, p, g).frame = r
  BY Zenon, <1>0, <1>1 DEF OpOK, Call
<1>3. r \notin arena[<<p, g>>]
  BY Zenon, <1>1, <1>2 DEF InFrames, Apart
<1>4. PICK L \in SUBSET free :
        /\ SetMine(t, [Mine(t) EXCEPT !.free = L])
        /\ arena' = [arena EXCEPT ![<<p, g>>] = @ \union (free \ L)]
  <2>1. CASE Cardinality(free) <= LocalMax
    <3>1. SetMine(t, [Mine(t) EXCEPT !.free = free]) /\ arena' = arena
      BY Zenon, <1>0, <2>1 DEF Spill
    <3>2. arena' = [arena EXCEPT ![<<p, g>>] = @ \union (free \ free)]
      BY Zenon, <1>1, <3>1 DEF TypeOK
    <3> QED
      BY Zenon, <3>1, <3>2
  <2>2. CASE ~ (Cardinality(free) <= LocalMax)
    BY Zenon, <1>0, <1>1, <2>2 DEF Spill
  <2> QED
    BY Zenon, <2>1, <2>2
<1> DEFINE A == arena[<<p, g>>] \union (free \ L)
<1>5. /\ L \union A \union {} = Mine(t).free \union arena[<<p, g>>] \union {} \union {r}
      /\ L \intersect A = {} /\ L \intersect {} = {} /\ A \intersect {} = {}
  BY Zenon, <1>1, <1>3, <1>4
<1>6. /\ owner' = [x \in Frames |-> IF x \in {} THEN <<p, g>> ELSE owner[x]]
      /\ nextChunk' \in [Arenas -> 0 .. LargestChunk]
  BY Zenon, <1>0, <1>1 DEF TypeOK
<1>7. /\ held' = (held \ {Call(x, p, g) : x \in {r}}) \union {Call(x, p, g) : x \in {}}
      /\ active' = (active \ {r}) \union {}
  BY Zenon, <1>0
<1>8. /\ InFrames' /\ arena' \in [Arenas -> SUBSET Frames]
      /\ local' \in [Threads -> [Slots -> EntryType]]
      /\ owner' \in [Frames -> Arenas \union {None}]
      /\ active' \subseteq Frames
      /\ held' \subseteq [frame : Frames, pool : Pools, graph : Graphs]
      /\ \A u \in Threads \ {t} : local'[u] = local[u]
  <2>1. arena' = [arena EXCEPT ![<<p, g>>] = A]
    BY Zenon, <1>4
  <2> HIDE DEF p, g, A, r, free
  <2>2. Repartitions(t, p, g, {}, {r}, L, A, {})
    BY Zenon, <1>0, <1>1, <1>2, <1>4, <1>5, <1>6, <1>7, <2>1 DEF Repartitions
  <2> QED
    BY Zenon, <2>2, Repartition
<1>9. \A h \in held : h.frame # op[t].frame => h \in held'
  BY Zenon, <1>0, <1>2
<1> QED
  BY Zenon, <1>0, <1>6, <1>8, <1>9, OperationEnds
-----------------------------------------------------------------------------
(* Places of a table change that have no list, or lose one of a pool that  *)
(* is gone.                                                                *)
LEMMA TableChange ==
  ASSUME Inductive, UNCHANGED <<pool, owner, arena, active, held>>,
         \A u \in Threads, r \in Slots :
           \/ local'[u][r] = local[u][r]
           \/ /\ local'[u][r].free = {}
              /\ \/ local'[u][r].pool = None
                 \/ local'[u][r].key \in Graphs /\ pool[local'[u][r].pool] # "unborn"
              /\ local[u][r].free = {} \/ pool[local[u][r].pool] # "live"
  PROVE  InFrames'
<1>0. TypeOK /\ InFrames
  BY Zenon DEF Inductive
<1>1. \A u \in Threads, r \in Slots : \/ local'[u][r] = local[u][r]
                                      \/ local'[u][r].free = {}
  BY Zenon
<1>2. ListsFit' /\ OwnersMade' /\ Marked' /\ CalleeFits'
  <2>1. ListsFit
    BY Zenon, <1>0 DEF InFrames
  <2>2. ListsFit'
    BY <1>1, <2>1 DEF ListsFit
  <2>3. OwnersMade' /\ Marked' /\ CalleeFits'
    BY Zenon, <1>0 DEF InFrames, OwnersMade, Marked, CalleeFits
  <2> QED
    BY Zenon, <2>2, <2>3
<1>3. EntriesMade'
  BY <1>0 DEF InFrames, EntriesMade
<1>4. Apart'
  <2>1. \A u \in Threads, r \in Slots : local'[u][r].free \subseteq local[u][r].free
    BY Zenon, <1>1
  <2> QED
    BY <1>0, <2>1 DEF InFrames, Apart
<1>5. Somewhere'
  <2> SUFFICES ASSUME NEW f \in Frames, owner[f] # None, pool[owner[f][1]] = "live"
               PROVE  \/ f \in arena[owner[f]]
                      \/ \E u \in Threads, r \in Slots : f \in local'[u][r].free
                      \/ \E h \in held : h.frame = f
    BY Zenon DEF Somewhere
  <2>1. ASSUME NEW u \in Threads, NEW r \in Slots, f \in local[u][r].free
        PROVE  f \in local'[u][r].free
    <3>1. owner[f][1] = local[u][r].pool
      BY <1>0, <2>1 DEF InFrames, ListsFit
    <3> QED
      BY <2>1, <3>1
  <2> QED
    BY Zenon, <1>0, <2>1 DEF InFrames, Somewhere
<1> QED
  BY Zenon, <1>2, <1>3, <1>4, <1>5 DEF InFrames

LEMMA GiveDropKeeps ==
  ASSUME Inductive, NEW t \in Threads, GiveDrop(t)
  PROVE  Inductive'
<1> DEFINE e == [Mine(t) EXCEPT !.free = {}]
<1>0. /\ TypeOK /\ InFrames /\ OpOK(t) /\ op[t].slot \in Slots /\ op[t].kind # "none"
      /\ Mine(t).pool \in Pools /\ pool[Mine(t).pool] \in {"erased", "freed"} /\ liveMutex = t
      /\ SetMine(t, e)
  BY Zenon DEF Inductive, OpOK, GiveDrop
<1>1. e \in EntryType /\ e.free = {} /\ e.pool = Mine(t).pool /\ e.key = Mine(t).key
  BY Zenon, <1>0, MineTyped
<1> HIDE DEF e
<1>2. /\ local'[t][op[t].slot] = e
      /\ \A r \in Slots : r # op[t].slot => local'[t][r] = local[t][r]
      /\ \A u \in Threads \ {t} : local'[u] = local[u]
      /\ local' \in [Threads -> [Slots -> EntryType]]
  BY Zenon, <1>0, <1>1, SetMineEffect
<1>3. InFrames'
  <2>1. Mine(t).key \in Graphs /\ Mine(t) = local[t][op[t].slot]
    BY Zenon, <1>0, PoolConstants DEF InFrames, EntriesMade, Mine
  <2>2. \A u \in Threads, r \in Slots :
           \/ local'[u][r] = local[u][r]
           \/ /\ local'[u][r].free = {}
              /\ \/ local'[u][r].pool = None
                 \/ local'[u][r].key \in Graphs /\ pool[local'[u][r].pool] # "unborn"
              /\ local[u][r].free = {} \/ pool[local[u][r].pool] # "live"
    BY Zenon, <1>0, <1>1, <1>2, <2>1
  <2> QED
    BY Zenon, <2>2, TableChange DEF GiveDrop
<1>4. TypeOK'
  BY Zenon, <1>0, <1>2 DEF TypeOK, GiveDrop, Goto, EntryType, AfterGive
<1>5. OpOK(t)'
  BY <1>0, <1>1, <1>2 DEF TypeOK, GiveDrop, Goto, OpOK, Mine, AfterGive
<1>6. \A u \in Threads \ {t} : OpOK(u)'
  BY Zenon, <1>0, <1>2, OthersKeep DEF TypeOK, GiveDrop, Goto
<1>7. ReleasesApart'
  BY Zenon DEF Inductive, ReleasesApart, GiveDrop
<1> QED
  BY Zenon, <1>3, <1>4, <1>5, <1>6, <1>7 DEF Inductive

LEMMA BindKeeps ==
  ASSUME Inductive, NEW t \in Threads, Bind(t)
  PROVE  Inductive'
<1> DEFINE e == Entry(op[t].pool, op[t].graph, Mine(t).free)
<1>0. /\ TypeOK /\ InFrames /\ OpOK(t) /\ op[t].slot \in Slots
      /\ op[t].kind \in {"acquire", "release"} /\ Mine(t).free = {}
      /\ op[t].pool \in Pools /\ op[t].graph \in Graphs /\ pool[op[t].pool] = "live"
      /\ SetMine(t, e)
  BY DEF Inductive, OpOK, Bind, Slots
<1>1. e \in EntryType /\ e.free = {} /\ e.pool = op[t].pool /\ e.key = op[t].graph
  BY Zenon, <1>0 DEF Entry, EntryType
<1> HIDE DEF e
<1>2. /\ local'[t][op[t].slot] = e
      /\ \A r \in Slots : r # op[t].slot => local'[t][r] = local[t][r]
      /\ \A u \in Threads \ {t} : local'[u] = local[u]
      /\ local' \in [Threads -> [Slots -> EntryType]]
  BY Zenon, <1>0, <1>1, SetMineEffect
<1>3. InFrames'
  <2>1. local[t][op[t].slot].free = {}
    BY Zenon, <1>0 DEF Mine
  <2>2. \A u \in Threads, r \in Slots :
           \/ local'[u][r] = local[u][r]
           \/ /\ local'[u][r].free = {}
              /\ \/ local'[u][r].pool = None
                 \/ local'[u][r].key \in Graphs /\ pool[local'[u][r].pool] # "unborn"
              /\ local[u][r].free = {} \/ pool[local[u][r].pool] # "live"
    BY <1>0, <1>1, <1>2, <2>1
  <2> QED
    BY Zenon, <2>2, TableChange DEF Bind
<1>4. TypeOK'
  BY Zenon, <1>0, <1>2 DEF TypeOK, Bind, Goto, EntryType
<1>5. OpOK(t)'
  BY Zenon, <1>0, <1>1, <1>2 DEF TypeOK, Bind, Goto, OpOK, Mine
<1>6. \A u \in Threads \ {t} : OpOK(u)'
  BY Zenon, <1>0, <1>2, OthersKeep DEF TypeOK, Bind, Goto
<1>7. ReleasesApart'
  BY Zenon DEF Inductive, ReleasesApart, Bind
<1> QED
  BY Zenon, <1>3, <1>4, <1>5, <1>6, <1>7 DEF Inductive

LEMMA EndKeeps ==
  ASSUME Inductive, NEW t \in Threads, End(t)
  PROVE  Inductive'
<1>0. /\ TypeOK /\ \A s \in Slots : local[t][s].free = {}
      /\ local' = [local EXCEPT ![t] = [s \in Slots |-> NoEntry]]
      /\ Goto(t, "idle") /\ op' = [op EXCEPT ![t] = NoOp]
      /\ UNCHANGED <<pool, owner, arena, nextChunk, active, liveMutex, held>>
  BY Zenon DEF Inductive, End
<1>1. NoEntry \in EntryType /\ NoEntry.free = {} /\ NoEntry.pool = None
  BY Zenon DEF NoEntry, Entry, EntryType
<1>2. /\ \A s \in Slots : local'[t][s] = NoEntry
      /\ \A u \in Threads \ {t} : local'[u] = local[u]
      /\ local' \in [Threads -> [Slots -> EntryType]]
  <2>1. local \in [Threads -> [Slots -> EntryType]]
    BY Zenon, <1>0 DEF TypeOK, EntryType
  <2> QED
    BY Zenon, <1>0, <1>1, <2>1
<1>3. InFrames'
  <2>1. \A u \in Threads, r \in Slots :
           \/ local'[u][r] = local[u][r]
           \/ /\ local'[u][r].free = {}
              /\ \/ local'[u][r].pool = None
                 \/ local'[u][r].key \in Graphs /\ pool[local'[u][r].pool] # "unborn"
              /\ local[u][r].free = {} \/ pool[local[u][r].pool] # "live"
    BY Zenon, <1>0, <1>1, <1>2
  <2> QED
    BY Zenon, <1>0, <2>1, TableChange
<1> QED
  BY Zenon, <1>0, <1>2, <1>3, OperationEnds DEF TypeOK

LEMMA WarmupKeeps ==
  ASSUME Inductive, NEW t \in Threads, NEW p \in Pools, NEW g \in Graphs, Warmup(t, p, g)
  PROVE  Inductive'
<1> DEFINE b == <<p, g>>
<1>0. /\ TypeOK /\ InFrames /\ b \in Arenas /\ pool[p] = "live" /\ arena[b] = {}
      /\ UNCHANGED <<pool, active, local, pc, op, liveMutex, held>>
  BY Zenon DEF Inductive, Warmup, Arenas
<1>1. (\A u \in Threads : OpOK(u)') /\ ReleasesApart'
  <2>1. \A u \in Threads : Mine(u)' = Mine(u)
    BY Zenon, <1>0 DEF Mine
  <2>2. ASSUME NEW u \in Threads PROVE OpOK(u)'
    <3>1. OpOK(u)
      BY Zenon DEF Inductive
    <3> QED
      BY Zenon, <1>0, <2>1, <3>1 DEF OpOK
  <2>3. ReleasesApart'
    BY Zenon, <1>0 DEF Inductive, ReleasesApart
  <2> QED
    BY Zenon, <2>2, <2>3
<1>2. CASE NoMemory(b) /\ Doubled(b) /\ UNCHANGED <<owner, arena>>
  <2>1. nextChunk' \in [Arenas -> 0 .. LargestChunk]
    BY Zenon, <1>0, <1>2, DoubledTyped
  <2>2. TypeOK'
    BY Zenon, <1>0, <1>2, <2>1 DEF TypeOK
  <2> QED
    BY Zenon, <1>0, <1>1, <1>2, <2>2, FramesKept DEF Inductive
<1>3. ASSUME NEW new \in SUBSET Unborn, AllocateChunk(b, new),
             arena' = [arena EXCEPT ![b] = new]
      PROVE  Inductive'
  <2>1. /\ nextChunk' \in [Arenas -> 0 .. LargestChunk]
        /\ owner' = [f \in Frames |-> IF f \in new THEN b ELSE owner[f]]
        /\ new \subseteq Frames /\ \A f \in new : owner[f] = None
    BY Zenon, <1>0, <1>3, DoubledTyped DEF AllocateChunk, Unborn
  <2>2. /\ arena' \in [Arenas -> SUBSET Frames] /\ arena'[b] = new
        /\ \A a \in Arenas : a # b => arena'[a] = arena[a]
    BY Zenon, <1>0, <1>3, <2>1 DEF TypeOK
  <2>3. TypeOK'
    <3>1. owner' \in [Frames -> Arenas \union {None}]
      BY Zenon, <1>0, <2>1 DEF TypeOK
    <3> QED
      BY Zenon, <1>0, <2>1, <2>2, <3>1 DEF TypeOK
  <2>4. \A f \in Frames : owner[f] # None => owner'[f] = owner[f]
    BY Zenon, <2>1
  <2>5. /\ \A a \in Arenas : \A f \in arena[a] : owner[f] = a /\ f \in Frames /\ owner[f] # None
        /\ \A u \in Threads, r \in Slots : \A f \in local[u][r].free :
             /\ owner[f] = <<local[u][r].pool, local[u][r].key>>
             /\ f \in Frames /\ owner[f] # None
        /\ \A h \in held : owner[h.frame] = <<h.pool, h.graph>> /\ h.frame \in Frames
                           /\ owner[h.frame] # None /\ pool[h.pool] = "live"
    <3>1. ListsFit /\ EntriesMade /\ CalleeFits
      BY Zenon, <1>0 DEF InFrames
    <3>2. \A a \in Arenas : \A f \in arena[a] : owner[f] = a /\ f \in Frames /\ owner[f] # None
      BY <1>0, <3>1, PoolConstants DEF TypeOK, ListsFit, Arenas
    <3>3. ASSUME NEW u \in Threads, NEW r \in Slots, NEW f \in local[u][r].free
          PROVE  /\ owner[f] = <<local[u][r].pool, local[u][r].key>>
                 /\ f \in Frames /\ owner[f] # None
      <4>1. local[u][r].pool \in Pools /\ local[u][r].key \in Graphs /\ f \in Frames
        BY <1>0, <3>1 DEF TypeOK, EntriesMade
      <4>2. owner[f] = <<local[u][r].pool, local[u][r].key>>
        BY Zenon, <3>1 DEF ListsFit
      <4> QED
        BY <4>1, <4>2, PoolConstants
    <3>4. ASSUME NEW h \in held
          PROVE  /\ owner[h.frame] = <<h.pool, h.graph>> /\ h.frame \in Frames
                 /\ owner[h.frame] # None /\ pool[h.pool] = "live"
      <4>1. h \in [frame : Frames, pool : Pools, graph : Graphs]
        BY Zenon, <1>0 DEF TypeOK
      <4>2. owner[h.frame] = <<h.pool, h.graph>> /\ pool[h.pool] = "live"
        BY Zenon, <3>1 DEF CalleeFits
      <4> QED
        BY <4>1, <4>2, PoolConstants
    <3> QED
      BY Zenon, <3>2, <3>3, <3>4
  <2>6. ListsFit' /\ EntriesMade' /\ CalleeFits' /\ Marked'
    <3>1. ListsFit'
      BY <1>0, <2>1, <2>2, <2>4, <2>5 DEF ListsFit
    <3>2. EntriesMade' /\ Marked'
      BY Zenon, <1>0 DEF InFrames, EntriesMade, Marked
    <3>3. \A h \in held : owner'[h.frame] = <<h.pool, h.graph>> /\ pool'[h.pool] = "live"
      BY Zenon, <1>0, <2>4, <2>5
    <3>4. CalleeFits'
      BY Zenon, <1>0, <3>3 DEF CalleeFits
    <3> QED
      BY Zenon, <3>1, <3>2, <3>4
  <2>7. OwnersMade'
    BY Zenon, <1>0, <2>1 DEF InFrames, OwnersMade
  <2>8. Apart'
    <3>1. Apart
      BY Zenon, <1>0 DEF InFrames
    <3>2. \A a \in Arenas : \A f \in arena'[a] : f \in arena[a] \/ owner[f] = None
      BY Zenon, <2>1, <2>2
    <3> QED
      BY <1>0, <2>5, <3>1, <3>2 DEF Apart
  <2>9. Somewhere'
    <3> SUFFICES ASSUME NEW f \in Frames, owner'[f] # None, pool[owner'[f][1]] = "live"
                 PROVE  \/ f \in arena'[owner'[f]]
                        \/ \E u \in Threads, r \in Slots : f \in local[u][r].free
                        \/ \E h \in held : h.frame = f
      BY Zenon, <1>0 DEF Somewhere
    <3>1. CASE f \in new
      BY Zenon, <2>1, <2>2, <3>1
    <3>2. CASE f \notin new
      <4>1. owner'[f] = owner[f] /\ owner[f] \in Arenas
        BY <1>0, <2>1, <3>2 DEF TypeOK
      <4>2. f \in arena[owner[f]] => f \in arena'[owner[f]]
        BY Zenon, <1>0, <2>2, <4>1
      <4> QED
        BY Zenon, <1>0, <4>1, <4>2 DEF InFrames, Somewhere
    <3> QED
      BY Zenon, <3>1, <3>2
  <2> QED
    BY Zenon, <1>1, <2>3, <2>6, <2>7, <2>8, <2>9 DEF Inductive, InFrames
<1> QED
  BY Zenon, <1>2, <1>3 DEF Warmup

(* The steps of a pool's life. *)
LEMMA LifeKeeps ==
  ASSUME Inductive, NEW p \in Pools, Life(p)
  PROVE  Inductive'
<1>0. /\ TypeOK /\ InFrames /\ ReleasesApart
      /\ UNCHANGED <<owner, arena, nextChunk, active, local, pc, op, liveMutex, held>>
      /\ \A q \in Pools \ {p} : pool'[q] = pool[q]
      /\ \/ pool[p] = "unborn" /\ pool'[p] = "live"
         \/ pool[p] = "live" /\ pool'[p] = "erased" /\ Unused(p) /\ liveMutex = None
         \/ pool[p] = "erased" /\ pool'[p] = "freed"
  BY Zenon DEF Inductive, TypeOK, Life, Create, Erase, FreeChunks
<1>1. TypeOK'
  BY <1>0 DEF TypeOK, Life, Create, Erase, FreeChunks
<1>2. \A q \in Pools : /\ pool[q] # "unborn" => pool'[q] # "unborn"
                       /\ pool[q] \in {"erased", "freed"} => pool'[q] \in {"erased", "freed"}
                       /\ pool[q] = "live" => pool'[q] = "live" \/ (Unused(q) /\ liveMutex = None)
                       /\ pool'[q] = "live" => pool[q] = "live" \/ pool[q] = "unborn"
  <2> SUFFICES ASSUME NEW q \in Pools
               PROVE  /\ pool[q] # "unborn" => pool'[q] # "unborn"
                      /\ pool[q] \in {"erased", "freed"} => pool'[q] \in {"erased", "freed"}
                      /\ pool[q] = "live" => pool'[q] = "live" \/ (Unused(q) /\ liveMutex = None)
                      /\ pool'[q] = "live" => pool[q] = "live" \/ pool[q] = "unborn"
    BY Zenon
  <2>1. CASE q = p
    BY Zenon, <1>0, <2>1
  <2>2. CASE q # p
    <3>1. pool'[q] = pool[q]
      BY Zenon, <1>0, <2>2
    <3> QED
      BY Zenon, <3>1
  <2> QED
    BY Zenon, <2>1, <2>2
<1>3. InFrames'
  <2>1. ListsFit' /\ Apart' /\ Marked'
    BY <1>0 DEF InFrames, ListsFit, Apart, Marked
  <2>2. EntriesMade'
    BY <1>0, <1>2 DEF InFrames, EntriesMade, TypeOK
  <2>3. OwnersMade'
    <3>1. \A f \in Frames : owner[f] # None => owner[f][1] \in Pools
      BY Zenon, <1>0 DEF TypeOK, Arenas
    <3> QED
      BY Zenon, <1>0, <1>2, <3>1 DEF InFrames, OwnersMade
  <2>4. Somewhere'
    <3>1. \A f \in Frames : owner[f] # None => owner[f][1] \in Pools
      BY Zenon, <1>0 DEF TypeOK, Arenas
    <3> QED
      BY Zenon, <1>0, <1>2, <3>1 DEF InFrames, OwnersMade, Somewhere
  <2>5. CalleeFits'
    BY <1>0, <1>2 DEF InFrames, CalleeFits, Unused, TypeOK
  <2> QED
    BY Zenon, <2>1, <2>2, <2>3, <2>4, <2>5 DEF InFrames
<1>4. ASSUME NEW t \in Threads PROVE OpOK(t)'
  <2>1. OpOK(t) /\ Mine(t)' = Mine(t)
    BY Zenon, <1>0 DEF Inductive, Mine
  <2>2. ASSUME op[t].kind \in {"acquire", "release"} PROVE pool'[op[t].pool] = "live"
    <3>1. op[t].pool \in Pools /\ pool[op[t].pool] = "live"
      BY Zenon, <2>1, <2>2 DEF OpOK
    <3> QED
      BY Zenon, <1>2, <3>1 DEF Unused
  <2>3. ASSUME pc[t] = "insert" PROVE pool'[Mine(t).pool] = "live"
    <3>1. liveMutex = t /\ Mine(t).pool \in Pools /\ pool[Mine(t).pool] = "live"
      BY Zenon, <2>1, <2>3 DEF OpOK
    <3> QED
      BY Zenon, <1>2, <3>1, PoolConstants
  <2>4. ASSUME pc[t] = "drop" PROVE pool'[Mine(t).pool] \in {"erased", "freed"}
    <3>1. Mine(t).pool \in Pools /\ pool[Mine(t).pool] \in {"erased", "freed"}
      BY Zenon, <2>1, <2>4 DEF OpOK
    <3> QED
      BY Zenon, <1>2, <3>1
  <2> QED
    BY Zenon, <1>0, <2>1, <2>2, <2>3, <2>4 DEF OpOK
<1> QED
  BY Zenon, <1>0, <1>1, <1>3, <1>4 DEF Inductive, ReleasesApart

LEMMA StutterKeeps ==
  ASSUME Inductive, UNCHANGED vars
  PROVE  Inductive'
<1>1. UNCHANGED <<pool, owner, arena, nextChunk, active, local, pc, op, liveMutex, held>>
  BY Zenon DEF vars
<1>2. TypeOK' /\ ReleasesApart'
  BY Zenon, <1>1 DEF Inductive, TypeOK, ReleasesApart
<1>3. ASSUME NEW t \in Threads PROVE OpOK(t)'
  <2>1. OpOK(t) /\ Mine(t)' = Mine(t)
    BY Zenon, <1>1 DEF Inductive, Mine
  <2> QED
    BY Zenon, <1>1, <2>1 DEF OpOK
<1> QED
  BY Zenon, <1>1, <1>2, <1>3, FramesKept DEF Inductive

LEMMA NextInductive == Inductive /\ [Next]_vars => Inductive'
<1> SUFFICES ASSUME Inductive, [Next]_vars PROVE Inductive'
  BY Zenon
<1>1. ASSUME NEW t \in Threads, Step(t) PROVE Inductive'
  BY Zenon, <1>1, HitKeeps, EvictOwnKeeps, EvictOtherKeeps, GiveNothingKeeps, GiveLockKeeps,
     GiveInsertKeeps, GiveDropKeeps, BindKeeps, TakeLocalKeeps, TakeSharedKeeps,
     TakeNewKeeps, TakeFailsKeeps, PutKeeps, EndSlotKeeps, EndKeeps DEF Step
<1>2. ASSUME NEW t \in Threads, Start(t) PROVE Inductive'
  BY Zenon, <1>2, StartAcquireKeeps, WarmupKeeps, StartReleaseKeeps, StartEndKeeps DEF Start
<1> QED
  BY Zenon, <1>1, <1>2, LifeKeeps, StutterKeeps DEF Next

LEMMA AlwaysInductive == Spec => []Inductive
BY InitInductive, NextInductive, PTL DEF Spec
-----------------------------------------------------------------------------

LEMMA PlacesOf ==
  ASSUME NEW f, NEW y \in Places(f)
  PROVE  \/ \E a \in Arenas : f \in arena[a] /\ y = <<"arena", a[1], a[2]>>
         \/ \E t \in Threads, s \in Slots : f \in local[t][s].free /\ y = <<"thread", t, s>>
         \/ \E h \in held : h.frame = f /\ y = <<"call", h.pool, h.graph>>
BY Zenon DEF Places

LEMMA InductiveOnePlace == Inductive => OnePlace
<1> SUFFICES ASSUME Inductive, NEW f \in Frames, owner[f] # None, pool[owner[f][1]] = "live"
             PROVE  \E x \in Places(f) : Places(f) = {x}
  BY Zenon DEF OnePlace
<1>0. TypeOK /\ ListsFit /\ Apart /\ Somewhere /\ CalleeFits /\ owner[f] \in Arenas
  BY Zenon DEF Inductive, InFrames, TypeOK
<1>1. CASE f \in arena[owner[f]]
  <2> DEFINE x == <<"arena", owner[f][1], owner[f][2]>>
  <2>1. x \in Places(f)
    BY Zenon, <1>0, <1>1 DEF Places
  <2>2. ASSUME NEW y \in Places(f) PROVE y = x
    <3>1. \A a \in Arenas : f \in arena[a] => a = owner[f]
      BY Zenon, <1>0 DEF ListsFit
    <3>2. \A t \in Threads, s \in Slots : f \notin local[t][s].free
      BY <1>0, <1>1 DEF Apart
    <3>3. \A h \in held : h.frame # f
      BY <1>0, <1>1 DEF Apart
    <3> QED
      BY <3>1, <3>2, <3>3, PlacesOf
  <2> QED
    BY Zenon, <2>1, <2>2
<1>2. CASE \E t \in Threads, s \in Slots : f \in local[t][s].free
  <2>1. PICK t \in Threads, s \in Slots : f \in local[t][s].free
    BY Zenon, <1>2
  <2> DEFINE x == <<"thread", t, s>>
  <2>2. x \in Places(f)
    <3>1. <<t, s>> \in {ts \in Threads \X Slots : f \in local[ts[1]][ts[2]].free}
      BY Zenon, <2>1
    <3> QED
      BY <3>1 DEF Places
  <2>3. ASSUME NEW y \in Places(f) PROVE y = x
    <3>1. \A a \in Arenas : f \notin arena[a]
      BY Zenon, <1>0, <2>1 DEF Apart
    <3>2. \A u \in Threads, r \in Slots : f \in local[u][r].free => u = t /\ r = s
      BY Zenon, <1>0, <2>1 DEF Apart
    <3>3. \A h \in held : h.frame # f
      BY <1>0, <2>1 DEF Apart
    <3> QED
      BY <3>1, <3>2, <3>3, PlacesOf
  <2> QED
    BY Zenon, <2>2, <2>3
<1>3. CASE \E h \in held : h.frame = f
  <2>1. PICK h \in held : h.frame = f
    BY Zenon, <1>3
  <2> DEFINE x == <<"call", h.pool, h.graph>>
  <2>2. x \in Places(f)
    BY Zenon, <2>1 DEF Places
  <2>3. ASSUME NEW y \in Places(f) PROVE y = x
    <3>1. \A a \in Arenas : f \notin arena[a]
      BY Zenon, <1>0, <2>1 DEF Apart
    <3>2. \A u \in Threads, r \in Slots : f \notin local[u][r].free
      BY Zenon, <1>0, <2>1 DEF Apart
    <3>3. \A k \in held : k.frame = f => k.pool = h.pool /\ k.graph = h.graph
      BY <1>0, <2>1 DEF CalleeFits
    <3> QED
      BY <3>1, <3>2, <3>3, PlacesOf
  <2> QED
    BY Zenon, <2>2, <2>3
<1> QED
  BY Zenon, <1>0, <1>1, <1>2, <1>3 DEF Somewhere

(* For any number of threads, pools, graphs and frames: a frame is held by *)
(* one call, or is in one free list of a thread or an arena, whatever the  *)
(* order of acquire, release, warmup, the ends of threads and of pools.    *)
THEOREM FramesAreInOnePlace == Spec => []OnePlace
BY InductiveOnePlace, AlwaysInductive, PTL

(* acquire gives a frame of the pool and the graph it was asked for, and   *)
(* the pool outlives the call.                                             *)
THEOREM CalleesFit == Spec => []CalleeFits
<1>1. Inductive => CalleeFits
  BY Zenon DEF Inductive, InFrames
<1> QED
  BY <1>1, AlwaysInductive, PTL

(* traceActiveFrames visits the frames that calls hold and no other. *)
THEOREM RootsAreTheHeld == Spec => []RootsAreHeld
<1>1. Inductive => RootsAreHeld
  <2> SUFFICES ASSUME Inductive PROVE RootsAreHeld
    BY Zenon
  <2>0. TypeOK /\ Marked /\ CalleeFits
    BY Zenon DEF Inductive, InFrames
  <2>1. ASSUME NEW h \in held PROVE h.frame \in Roots
    <3>1. /\ h \in [frame : Frames, pool : Pools, graph : Graphs]
          /\ owner[h.frame] = <<h.pool, h.graph>> /\ pool[h.pool] = "live"
      BY Zenon, <2>0 DEF TypeOK, CalleeFits
    <3>2. owner[h.frame] # None /\ owner[h.frame][1] = h.pool
      BY <3>1, PoolConstants
    <3> QED
      BY Zenon, <2>0, <3>1, <3>2 DEF Roots, Marked
  <2>2. ASSUME NEW f \in Roots PROVE f \in {h.frame : h \in held}
    BY Zenon, <2>0 DEF Roots, Marked
  <2> QED
    BY Zenon, <2>1, <2>2 DEF RootsAreHeld
<1> QED
  BY <1>1, AlwaysInductive, PTL

(* No free list of a pool changes once the pool is being destroyed. *)
THEOREM GoneStaysUntouched == Spec => GoneIsUntouched
<1> DEFINE Untouched ==
      \A p \in Pools, g \in Graphs :
        pool[p] \in {"erased", "freed"} => arena'[<<p, g>>] = arena[<<p, g>>]
<1>1. ASSUME Inductive, [Next]_vars PROVE Untouched
  <2>0. TypeOK /\ \A t \in Threads : OpOK(t)
    BY Zenon, <1>1 DEF Inductive
  <2>1. CASE arena' = arena
    BY Zenon, <2>1
  <2>2. ASSUME NEW q \in Pools, NEW k, NEW A, pool[q] = "live",
               arena' = [arena EXCEPT ![<<q, k>>] = A]
        PROVE  Untouched
    BY Zenon, <2>0, <2>2 DEF TypeOK, Arenas
  <2>3. ASSUME NEW t \in Threads, pc[t] = "ready" PROVE
          /\ op[t].pool \in Pools /\ pool[op[t].pool] = "live"
          /\ Target(t) = <<op[t].pool, op[t].graph>>
    BY Zenon, <2>0, <2>3 DEF OpOK, Target
  <2>4. ASSUME NEW t \in Threads, Step(t) PROVE Untouched
    <3>1. CASE EvictOwn(t)
      <4>1. Mine(t).pool \in Pools /\ pool[Mine(t).pool] = "live"
        BY <2>0, <3>1 DEF EvictOwn, OpOK
      <4>2. \E A : arena' = [arena EXCEPT ![<<Mine(t).pool, Mine(t).key>>] = A]
        BY Zenon, <3>1 DEF EvictOwn
      <4> QED
        BY Zenon, <2>2, <4>1, <4>2
    <3>2. CASE GiveInsert(t)
      <4>1. Mine(t).pool \in Pools /\ pool[Mine(t).pool] = "live"
        BY Zenon, <2>0, <3>2 DEF GiveInsert, OpOK
      <4>2. \E A : arena' = [arena EXCEPT ![<<Mine(t).pool, Mine(t).key>>] = A]
        BY Zenon, <3>2 DEF GiveInsert
      <4> QED
        BY Zenon, <2>2, <4>1, <4>2
    <3>3. CASE TakeShared(t) \/ TakeNew(t)
      <4>1. pc[t] = "ready" /\ \E A : arena' = [arena EXCEPT ![Target(t)] = A]
        BY Zenon, <3>3 DEF TakeShared, TakeNew, Refill
      <4> QED
        BY <2>2, <2>3, <4>1
    <3>4. CASE Put(t)
      <4>1. pc[t] = "ready" /\ (arena' = arena \/ \E A : arena' = [arena EXCEPT ![Target(t)] = A])
        BY Zenon, <3>4 DEF Put, Spill
      <4>2. CASE \E A : arena' = [arena EXCEPT ![Target(t)] = A]
        BY <2>2, <2>3, <4>1, <4>2
      <4> QED
        BY Zenon, <2>1, <4>1, <4>2
    <3>5. CASE Hit(t) \/ EvictOther(t) \/ GiveNothing(t) \/ GiveLock(t) \/ GiveDrop(t)
                 \/ Bind(t) \/ TakeLocal(t) \/ TakeFails(t) \/ EndSlot(t) \/ End(t)
      BY Zenon, <2>1, <3>5 DEF Hit, EvictOther, GiveNothing, GiveLock, GiveDrop, Bind, TakeLocal,
         TakeFails, EndSlot, End
    <3> QED
      BY Zenon, <2>4, <3>1, <3>2, <3>3, <3>4, <3>5 DEF Step
  <2>5. ASSUME NEW t \in Threads, Start(t) PROVE Untouched
    <3>1. ASSUME NEW p \in Pools, NEW g \in Graphs, Warmup(t, p, g) PROVE Untouched
      <4>1. pool[p] = "live" /\ (arena' = arena \/ \E A : arena' = [arena EXCEPT ![<<p, g>>] = A])
        BY Zenon, <3>1 DEF Warmup
      <4> QED
        BY Zenon, <2>1, <2>2, <4>1
    <3> QED
      BY Zenon, <2>1, <2>5, <3>1 DEF Start, StartAcquire, StartRelease, StartEnd
  <2> QED
    BY Zenon, <1>1, <2>1, <2>4, <2>5 DEF Next, Life, Create, Erase, FreeChunks, vars
<1>2. ASSUME Inductive, [Next]_vars PROVE [Untouched]_vars
  BY Zenon, <1>1, <1>2
<1> QED
  BY <1>2, AlwaysInductive, PTL DEF Spec, GoneIsUntouched
-----------------------------------------------------------------------------
(* Whose requests a step leaves alone. *)
LEMMA AsksStay ==
  ASSUME NEW t \in Threads, NEW o, op' = [op EXCEPT ![t] = o], TypeOK,
         o.kind # "acquire", op[t].kind # "acquire"
  PROVE  AsksOf' = AsksOf
<1>1. \A u \in Threads : u # t => op'[u] = op[u]
  BY Zenon DEF TypeOK
<1>2. op'[t] = o
  BY Zenon DEF TypeOK
<1> QED
  BY <1>1, <1>2 DEF AsksOf, Target

LEMMA AskEnds ==
  ASSUME NEW t \in Threads, op' = [op EXCEPT ![t] = NoOp], TypeOK, op[t].kind = "acquire"
  PROVE  AsksOf[t] = Target(t) /\ AsksOf' = [AsksOf EXCEPT ![t] = None]
<1>1. \A u \in Threads : u # t => op'[u] = op[u]
  BY Zenon DEF TypeOK
<1>2. op'[t] = NoOp /\ op'[t].kind # "acquire"
  BY Zenon DEF TypeOK, NoOp, Op
<1>3. \A u \in Threads : u # t => AsksOf'[u] = AsksOf[u]
  BY <1>1 DEF AsksOf, Target
<1>4. AsksOf[t] = Target(t) /\ AsksOf'[t] = None
  BY Zenon, <1>2 DEF AsksOf
<1>5. AsksOf' = [u \in Threads |-> AsksOf'[u]] /\ DOMAIN AsksOf = Threads
  BY Zenon DEF AsksOf
<1> QED
  BY Zenon, <1>3, <1>4, <1>5

(* A frame handed out by t is one that FrameLending may lend. *)
LEMMA HandOutLends ==
  ASSUME Inductive, NEW t \in Threads, pc[t] = "ready", op[t].kind = "acquire",
         NEW N \in SUBSET Unborn,
         owner' = [x \in Frames |-> IF x \in N THEN Target(t) ELSE owner[x]],
         NEW f \in Frames, HandOut(t, f), pool' = pool,
         f \in Mine(t).free \union arena[Target(t)] \union N
  PROVE  Lending!Next
<1> DEFINE p == op[t].pool
           g == op[t].graph
<1>1. /\ TypeOK /\ InFrames /\ op[t].slot \in Slots /\ p \in Pools /\ g \in Graphs
      /\ pool[p] = "live" /\ Mine(t).pool = p /\ Mine(t).key = g
      /\ Target(t) = <<p, g>> /\ Target(t) \in Arenas
  BY Zenon, ReadyFacts
<1>2. StatusOf' = StatusOf
  BY Zenon, <1>1 DEF StatusOf
<1>3. Lending!Make(p, g)
  BY Zenon, <1>1 DEF Lending!Make, Lending!Unmade, Unborn
<1>4. owner'[f] = <<p, g>>
  BY <1>1 DEF InFrames, ListsFit, Mine
<1>5. \A h \in held : h.frame # f
  <2> SUFFICES ASSUME NEW h \in held, h.frame = f PROVE FALSE
    BY Zenon
  <2>1. f \notin Mine(t).free /\ f \notin arena[Target(t)]
    BY Zenon, <1>1 DEF InFrames, Apart, Mine
  <2>2. owner[f] = <<h.pool, h.graph>> /\ h.pool \in Pools /\ h.graph \in Graphs
    BY Zenon, <1>1 DEF InFrames, CalleeFits, TypeOK
  <2>3. owner[f] # None
    BY <2>2, PoolConstants
  <2> QED
    BY Zenon, <2>1, <2>3 DEF Unborn
<1>6. held' = held \union {[frame |-> f, pool |-> p, graph |-> g]}
  BY Zenon DEF HandOut, Call
<1>7. AsksOf[t] = <<p, g>> /\ AsksOf' = [AsksOf EXCEPT ![t] = None]
  BY Zenon, <1>1, AskEnds DEF HandOut
<1>8. Lending!Lend(t, p, g)
  BY Zenon, <1>2, <1>3, <1>4, <1>5, <1>6, <1>7 DEF Lending!Lend
<1> QED
  BY Zenon, <1>1, <1>8 DEF Lending!Next

LEMMA TakeLends ==
  ASSUME Inductive, NEW t \in Threads, TakeLocal(t) \/ TakeShared(t) \/ TakeNew(t)
  PROVE  Lending!Next
<1>0. pc[t] = "ready" /\ op[t].kind = "acquire" /\ pool' = pool
  BY Zenon DEF TakeLocal, TakeShared, TakeNew
<1>1. CASE TakeLocal(t)
  <2>1. TypeOK /\ Mine(t).free \subseteq Frames /\ owner' = owner
    BY Zenon, <1>0, <1>1, ReadyFacts DEF TakeLocal
  <2>2. PICK f \in Mine(t).free : HandOut(t, f)
    BY Zenon, <1>1 DEF TakeLocal
  <2>3. owner' = [x \in Frames |-> IF x \in {} THEN Target(t) ELSE owner[x]]
    BY Zenon, <2>1 DEF TypeOK
  <2>4. {} \in SUBSET Unborn /\ f \in Frames /\ f \in Mine(t).free \union arena[Target(t)] \union {}
    BY Zenon, <2>1
  <2> QED
    BY Zenon, <1>0, <2>2, <2>3, <2>4, HandOutLends
<1>2. CASE TakeShared(t)
  <2>1. TypeOK /\ arena[Target(t)] \subseteq Frames /\ owner' = owner
    BY Zenon, <1>0, <1>2, ReadyFacts DEF TakeShared
  <2>2. PICK f \in arena[Target(t)] : HandOut(t, f)
    BY Zenon, <1>2 DEF TakeShared, Refill
  <2>3. owner' = [x \in Frames |-> IF x \in {} THEN Target(t) ELSE owner[x]]
    BY Zenon, <2>1 DEF TypeOK
  <2>4. {} \in SUBSET Unborn /\ f \in Frames /\ f \in Mine(t).free \union arena[Target(t)] \union {}
    BY Zenon, <2>1
  <2> QED
    BY Zenon, <1>0, <2>2, <2>3, <2>4, HandOutLends
<1>3. CASE TakeNew(t)
  <2>1. PICK new \in SUBSET Unborn : AllocateChunk(Target(t), new) /\ Refill(t, new)
    BY Zenon, <1>3 DEF TakeNew
  <2>2. PICK f \in new : HandOut(t, f)
    BY Zenon, <2>1 DEF Refill
  <2>3. owner' = [x \in Frames |-> IF x \in new THEN Target(t) ELSE owner[x]]
    BY Zenon, <2>1 DEF AllocateChunk
  <2>4. f \in Frames /\ f \in Mine(t).free \union arena[Target(t)] \union new
    BY Zenon, <2>2 DEF Unborn
  <2> QED
    BY Zenon, <1>0, <2>2, <2>3, <2>4, HandOutLends
<1> QED
  BY Zenon, <1>1, <1>2, <1>3

INSTANCE FiniteSetTheorems

(* A call is refused only where the largest chunk has no memory either. *)
LEMMA RefusalIsAllowed ==
  ASSUME Inductive, NEW t \in Threads, TakeFails(t)
  PROVE  Lending!Next
<1> DEFINE a == Target(t)
<1>1. /\ TypeOK /\ op[t].kind = "acquire" /\ op' = [op EXCEPT ![t] = NoOp]
      /\ UNCHANGED <<pool, owner, held>> /\ NoMemory(a) /\ a \in Arenas
  BY Zenon, ReadyFacts DEF TakeFails
<1>2. ChunkFrames(a) \in Nat /\ ChunkFrames(a) <= LargestChunk /\ LargestChunk \in Nat
  BY <1>1, PoolConstants DEF ChunkFrames, TypeOK, LargestChunk, LargerOf
<1>3. Cardinality(Unborn) \in Nat
  BY Zenon, PoolConstants, FS_Subset, FS_CardinalityType DEF Unborn
<1>4. ASSUME NEW c \in FullChunks PROVE ~(c \subseteq Lending!Unmade)
  <2>1. SUFFICES ASSUME c \subseteq Unborn PROVE FALSE
    BY Zenon DEF Lending!Unmade, Unborn
  <2>2. IsFiniteSet(Unborn)
    BY Zenon, PoolConstants, FS_Subset DEF Unborn
  <2>3. Cardinality(c) <= Cardinality(Unborn) /\ Cardinality(c) = LargestChunk
    BY <2>1, <2>2, FS_Subset DEF FullChunks
  <2> QED
    BY <1>1, <1>2, <1>3, <2>3 DEF NoMemory
<1>5. AsksOf[t] = a /\ AsksOf' = [AsksOf EXCEPT ![t] = None]
  BY Zenon, <1>1, AskEnds
<1>6. a # None
  BY <1>1, PoolConstants DEF Arenas
<1>7. StatusOf' = StatusOf
  BY Zenon, <1>1 DEF StatusOf
<1>8. UNCHANGED <<StatusOf, owner, held>> /\ AsksOf[t] # None
  BY <1>1, <1>5, <1>6, <1>7
<1>9. Lending!Refuse(t)
  BY Zenon, <1>4, <1>5, <1>8 DEF Lending!Refuse
<1> QED
  BY Zenon, <1>9 DEF Lending!Next

LEMMA PoolLifeLends ==
  ASSUME Inductive, NEW p \in Pools, Life(p)
  PROVE  Lending!Next \/ UNCHANGED Lending!lendingVars
<1>0. TypeOK /\ UNCHANGED <<owner, held>> /\ AsksOf' = AsksOf
  BY Zenon DEF Inductive, Life, Create, Erase, FreeChunks, AsksOf, Target
<1>1. CASE Create(p)
  <2>1. StatusOf[p] = "unborn" /\ StatusOf' = [StatusOf EXCEPT ![p] = "open"]
    BY Zenon, <1>0, <1>1 DEF Create, StatusOf, TypeOK
  <2> QED
    BY Zenon, <1>0, <2>1 DEF Lending!Next, Lending!Open
<1>2. CASE Erase(p)
  <2>1. StatusOf[p] = "open" /\ StatusOf' = [StatusOf EXCEPT ![p] = "closed"]
    BY Zenon, <1>0, <1>2 DEF Erase, StatusOf, TypeOK
  <2>2. \A t \in Threads, g \in Graphs : AsksOf[t] # <<p, g>>
    <3> SUFFICES ASSUME NEW t \in Threads, NEW g \in Graphs, AsksOf[t] = <<p, g>> PROVE FALSE
      BY Zenon
    <3>1. op[t].pool # p
      BY Zenon, <1>2 DEF Erase, Unused
    <3>2. <<p, g>> # None
      BY PoolConstants
    <3> QED
      BY Zenon, <3>1, <3>2 DEF AsksOf, Target
  <2> QED
    BY Zenon, <1>0, <1>2, <2>1, <2>2 DEF Lending!Next, Lending!Close, Erase, Unused
<1>3. CASE FreeChunks(p)
  <2>1. StatusOf' = StatusOf
    BY Zenon, <1>0, <1>3 DEF FreeChunks, StatusOf, TypeOK
  <2> QED
    BY <1>0, <2>1 DEF Lending!lendingVars
<1> QED
  BY <1>1, <1>2, <1>3 DEF Life

LEMMA StepLends ==
  ASSUME Inductive, [Next]_vars
  PROVE  [Lending!Next]_(Lending!lendingVars)
<1>T. TypeOK
  BY Zenon DEF Inductive
<1>0. ASSUME UNCHANGED <<pool, owner, held>>, AsksOf' = AsksOf
      PROVE  UNCHANGED Lending!lendingVars
  BY Zenon, <1>0 DEF Lending!lendingVars, StatusOf
<1>1. ASSUME NEW t \in Threads, Put(t) PROVE Lending!Next
  <2> DEFINE h == Call(op[t].frame, op[t].pool, op[t].graph)
  <2>1. h \in held /\ held' = held \ {h} /\ UNCHANGED <<pool, owner>>
    BY Zenon, <1>1 DEF Inductive, OpOK, Put
  <2>2. StatusOf' = StatusOf
    BY Zenon, <2>1 DEF StatusOf
  <2>3. NoOp.kind # "acquire" /\ op[t].kind # "acquire" /\ op' = [op EXCEPT ![t] = NoOp]
    BY Zenon, <1>1 DEF Put, NoOp, Op
  <2>4. AsksOf' = AsksOf
    BY Zenon, <1>T, <2>3, AsksStay
  <2> HIDE DEF h
  <2> QED
    BY <2>1, <2>2, <2>4 DEF Lending!Next, Lending!TakeBack
<1>2. ASSUME NEW t \in Threads, NEW p \in Pools, NEW g \in Graphs, Warmup(t, p, g)
      PROVE  Lending!Next \/ UNCHANGED Lending!lendingVars
  <2>1. pool[p] = "live" /\ UNCHANGED <<pool, held>> /\ AsksOf' = AsksOf
    BY Zenon, <1>2 DEF Warmup, AsksOf, Target
  <2>2. StatusOf[p] = "open" /\ StatusOf' = StatusOf
    BY Zenon, <2>1 DEF StatusOf
  <2>3. CASE owner' = owner
    BY Zenon, <1>0, <2>1, <2>3
  <2>4. ASSUME NEW new \in SUBSET Unborn, AllocateChunk(<<p, g>>, new) PROVE Lending!Next
    <3>1. Lending!Make(p, g)
      BY Zenon, <2>4 DEF Lending!Make, Lending!Unmade, Unborn, AllocateChunk
    <3> QED
      BY Zenon, <2>1, <2>2, <3>1 DEF Lending!Next, Lending!MakeAhead
  <2> QED
    BY <1>2, <2>3, <2>4 DEF Warmup
<1>3. ASSUME NEW t \in Threads, NEW p \in Pools, NEW g \in Graphs, StartAcquire(t, p, g)
      PROVE  Lending!Next
  <2>1. /\ pool[p] = "live" /\ UNCHANGED <<pool, owner, held>> /\ pc[t] = "idle"
        /\ op' = [op EXCEPT ![t] = Op("acquire", p, g, None, SlotOf[g])]
    BY Zenon, <1>3 DEF StartAcquire
  <2>2. StatusOf[p] = "open" /\ StatusOf' = StatusOf
    BY Zenon, <2>1 DEF StatusOf
  <2>3. op[t].kind # "acquire"
    BY Zenon, <2>1 DEF Inductive, OpOK, NoOp, Op
  <2>4. AsksOf[t] = None /\ AsksOf' = [AsksOf EXCEPT ![t] = <<p, g>>]
    <3>1. \A u \in Threads : u # t => op'[u] = op[u]
      BY Zenon, <1>T, <2>1 DEF TypeOK
    <3>2. op'[t].kind = "acquire" /\ op'[t].pool = p /\ op'[t].graph = g
      BY Zenon, <1>T, <2>1 DEF TypeOK, Op
    <3> QED
      BY Zenon, <2>3, <3>1, <3>2 DEF AsksOf, Target
  <2> QED
    BY Zenon, <2>1, <2>2, <2>4 DEF Lending!Next, Lending!Ask
<1>4. ASSUME NEW t \in Threads,
             Hit(t) \/ EvictOwn(t) \/ EvictOther(t) \/ GiveNothing(t) \/ GiveLock(t)
               \/ GiveInsert(t) \/ GiveDrop(t) \/ Bind(t)
      PROVE  UNCHANGED Lending!lendingVars
  <2>1. UNCHANGED <<pool, owner, op, held>>
    BY Zenon, <1>4 DEF Hit, EvictOwn, EvictOther, GiveNothing, GiveLock, GiveInsert, GiveDrop, Bind
  <2>2. AsksOf' = AsksOf
    BY Zenon, <2>1 DEF AsksOf, Target
  <2> QED
    BY Zenon, <1>0, <2>1, <2>2
<1>5. ASSUME NEW t \in Threads, StartEnd(t) \/ EndSlot(t) \/ End(t)
      PROVE  UNCHANGED Lending!lendingVars
  <2>1. UNCHANGED <<pool, owner, held>> /\ op[t].kind # "acquire"
    BY Zenon, <1>5 DEF StartEnd, EndSlot, End, Inductive, OpOK, NoOp, Op
  <2>2. \A u \in Threads : u # t => op'[u] = op[u]
    BY Zenon, <1>T, <1>5 DEF StartEnd, EndSlot, End, TypeOK
  <2>3. op'[t].kind # "acquire"
    BY <1>T, <1>5, <2>1 DEF StartEnd, EndSlot, End, TypeOK, NoOp, Op
  <2>4. AsksOf' = AsksOf
    BY Zenon, <2>1, <2>2, <2>3 DEF AsksOf, Target
  <2> QED
    BY <1>0, <2>1, <2>4
<1>6. ASSUME NEW t \in Threads, NEW h \in held, StartRelease(t, h)
      PROVE  UNCHANGED Lending!lendingVars
  <2> DEFINE o == Op("release", h.pool, h.graph, h.frame, SlotOf[h.graph])
  <2>1. UNCHANGED <<pool, owner, held>> /\ pc[t] = "idle" /\ op' = [op EXCEPT ![t] = o]
    BY <1>6 DEF StartRelease
  <2>2. op[t].kind # "acquire" /\ o.kind # "acquire"
    BY Zenon, <2>1 DEF Inductive, OpOK, NoOp, Op
  <2>3. AsksOf' = AsksOf
    <3> HIDE DEF o
    <3> QED
      BY Zenon, <1>T, <2>1, <2>2, AsksStay
  <2> QED
    BY <1>0, <2>1, <2>3
<1>7. ASSUME NEW t \in Threads, Step(t)
      PROVE  Lending!Next \/ UNCHANGED Lending!lendingVars
  BY <1>1, <1>4, <1>5, <1>7, TakeLends, RefusalIsAllowed DEF Step
<1>8. ASSUME NEW t \in Threads, Start(t)
      PROVE  Lending!Next \/ UNCHANGED Lending!lendingVars
  BY <1>2, <1>3, <1>5, <1>6, <1>8 DEF Start
<1>9. CASE UNCHANGED vars
  BY Zenon, <1>0, <1>9 DEF vars, AsksOf, Target
<1> QED
  BY <1>7, <1>8, <1>9, PoolLifeLends DEF Next

(* TaskflowFramePool, with the threads' lists, does what FrameLending      *)
(* promises: every step is one of its steps or changes nothing it sees.    *)
THEOREM PoolLends == Spec => LendsFrames
<1>1. Init => Lending!Init
  BY DEF Init, Lending!Init, StatusOf, AsksOf, NoOp, Op
<1>2. Inductive /\ [Next]_vars => [Lending!Next]_(Lending!lendingVars)
  BY Zenon, StepLends
<1> QED
  BY <1>1, <1>2, AlwaysInductive, PTL DEF Spec, LendsFrames, Lending!Spec

(* The pools stay within their types; a chunk is never larger than a full  *)
(* one.                                                                    *)
THEOREM PoolIsTyped == Spec => []TypeOK
<1>1. Inductive => TypeOK
  BY Zenon DEF Inductive
<1> QED
  BY <1>1, AlwaysInductive, PTL
-----------------------------------------------------------------------------
(* A step of a thread is its own: the operations and the tables of the     *)
(* other threads stay.                                                     *)
OthersStay(t) ==
  \A u \in Threads \ {t} : pc'[u] = pc[u] /\ op'[u] = op[u] /\ local'[u] = local[u]

(* What a step of thread t may do to the place s of its table: empty it,   *)
(* shorten its list, or change the list of the place it works on, within   *)
(* the limit of a list.                                                    *)
SeatStep(t, s) ==
  \/ local'[t][s] = local[t][s]
  \/ local'[t][s] = NoEntry
  \/ /\ s = op[t].slot /\ local'[t][s] \in EntryType
     /\ \/ local'[t][s].pool = local[t][s].pool /\ local'[t][s].key = local[t][s].key
        \/ local'[t][s].key \in Graphs /\ s = SlotOf[local'[t][s].key]
     /\ \/ local'[t][s].free \subseteq local[t][s].free
        \/ Cardinality(local'[t][s].free) <= LocalMax

LEMMA SetMineSeats ==
  ASSUME TypeOK, NEW t \in Threads, op[t].slot \in Slots, NEW e \in EntryType, SetMine(t, e),
         \/ e.pool = Mine(t).pool /\ e.key = Mine(t).key
         \/ e.key \in Graphs /\ op[t].slot = SlotOf[e.key],
         e.free \subseteq Mine(t).free \/ Cardinality(e.free) <= LocalMax
  PROVE  /\ \A u \in Threads \ {t} : local'[u] = local[u]
         /\ \A s \in Slots : SeatStep(t, s)
BY Zenon, SetMineEffect DEF SeatStep, Mine

LEMMA SetFreeSeats ==
  ASSUME TypeOK, NEW t \in Threads, op[t].slot \in Slots, NEW L \in SUBSET Frames,
         SetMine(t, [Mine(t) EXCEPT !.free = L]),
         L \subseteq Mine(t).free \/ Cardinality(L) <= LocalMax
  PROVE  /\ \A u \in Threads \ {t} : local'[u] = local[u]
         /\ \A s \in Slots : SeatStep(t, s)
<1> DEFINE e == [Mine(t) EXCEPT !.free = L]
<1>1. e \in EntryType /\ e.free = L /\ e.pool = Mine(t).pool /\ e.key = Mine(t).key
  BY Zenon, MineTyped
<1>2. SetMine(t, e)
  BY Zenon
<1> HIDE DEF e
<1> QED
  BY Zenon, <1>1, <1>2, SetMineSeats

LEMMA RefillSeats ==
  ASSUME Inductive, NEW t \in Threads, pc[t] = "ready", NEW avail \in SUBSET Frames, Refill(t, avail)
  PROVE  /\ \A u \in Threads \ {t} : local'[u] = local[u]
         /\ \A s \in Slots : SeatStep(t, s)
         /\ OthersStay(t)
<1>1. TypeOK /\ op[t].slot \in Slots
  BY Zenon, ReadyFacts
<1>2. PICK taken \in SUBSET avail : \E f \in taken :
        /\ Cardinality(taken) = SmallerOf(Cardinality(avail), LocalRefill)
        /\ SetMine(t, [Mine(t) EXCEPT !.free = taken \ {f}])
        /\ HandOut(t, f)
  BY Zenon DEF Refill
<1>3. PICK f \in taken :
        /\ Cardinality(taken) = SmallerOf(Cardinality(avail), LocalRefill)
        /\ SetMine(t, [Mine(t) EXCEPT !.free = taken \ {f}])
        /\ HandOut(t, f)
  BY Zenon, <1>2
<1>4. Cardinality(taken \ {f}) <= LocalMax
  <2>1. IsFiniteSet(avail) /\ IsFiniteSet(taken)
    BY Zenon, PoolConstants, FS_Subset
  <2>2. Cardinality(avail) \in Nat /\ Cardinality(taken) \in Nat
    BY Zenon, <2>1, FS_CardinalityType
  <2>3. Cardinality(taken \ {f}) = Cardinality(taken) - 1
    BY Zenon, <2>1, FS_RemoveElement
  <2>4. Cardinality(taken) <= LocalRefill
    BY <1>3, <2>2, PoolConstants DEF SmallerOf
  <2> QED
    BY <2>2, <2>3, <2>4, PoolConstants
<1>5. taken \ {f} \in SUBSET Frames
  BY Zenon
<1>6. /\ \A u \in Threads \ {t} : local'[u] = local[u]
      /\ \A s \in Slots : SeatStep(t, s)
  BY Zenon, <1>1, <1>3, <1>4, <1>5, SetFreeSeats
<1> QED
  BY <1>1, <1>3, <1>6 DEF OthersStay, HandOut, Goto, TypeOK

(* What a step does to the tables. *)
LEMMA StepSeats ==
  ASSUME Inductive, NEW t \in Threads, Step(t)
  PROVE  OthersStay(t) /\ \A s \in Slots : SeatStep(t, s)
<1>0. TypeOK /\ OpOK(t)
  BY Zenon DEF Inductive
<1>1. CASE Hit(t) \/ EvictOther(t) \/ GiveNothing(t) \/ GiveLock(t)
  BY Zenon, <1>0, <1>1 DEF Hit, EvictOther, GiveNothing, GiveLock, Goto, TypeOK, OthersStay, SeatStep
<1>2. CASE TakeFails(t)
  BY Zenon, <1>0, <1>2 DEF TakeFails, Goto, TypeOK, OthersStay, SeatStep
<1>3. CASE EndSlot(t)
  <2>1. PICK s \in Slots : op' = [op EXCEPT ![t].slot = s]
    BY Zenon, <1>3 DEF EndSlot
  <2> QED
    BY <1>0, <1>3, <2>1 DEF EndSlot, Goto, TypeOK, OthersStay, SeatStep
<1>4. CASE EvictOwn(t)
  <2>1. op[t].slot \in Slots
    BY Zenon, <1>0, <1>4 DEF OpOK, EvictOwn, Slots
  <2>2. {} \in SUBSET Frames /\ SetMine(t, [Mine(t) EXCEPT !.free = {}])
    BY Zenon, <1>4 DEF EvictOwn
  <2>3. /\ \A u \in Threads \ {t} : local'[u] = local[u]
        /\ \A s \in Slots : SeatStep(t, s)
    BY Zenon, <1>0, <2>1, <2>2, SetFreeSeats
  <2> QED
    BY <1>0, <1>4, <2>3 DEF EvictOwn, Goto, TypeOK, OthersStay
<1>5. CASE GiveInsert(t) \/ GiveDrop(t)
  <2>1. op[t].slot \in Slots
    BY <1>0, <1>5 DEF OpOK, GiveInsert, GiveDrop
  <2>2. {} \in SUBSET Frames /\ SetMine(t, [Mine(t) EXCEPT !.free = {}])
    BY <1>5 DEF GiveInsert, GiveDrop
  <2>3. /\ \A u \in Threads \ {t} : local'[u] = local[u]
        /\ \A s \in Slots : SeatStep(t, s)
    BY Zenon, <1>0, <2>1, <2>2, SetFreeSeats
  <2> QED
    BY <1>0, <1>5, <2>3 DEF GiveInsert, GiveDrop, Goto, TypeOK, OthersStay
<1>6. CASE Bind(t)
  <2> DEFINE e == Entry(op[t].pool, op[t].graph, Mine(t).free)
  <2>1. /\ op[t].slot \in Slots /\ op[t].graph \in Graphs /\ op[t].pool \in Pools
        /\ op[t].slot = SlotOf[op[t].graph]
    BY Zenon, <1>0, <1>6 DEF OpOK, Bind, Slots
  <2>2. e \in EntryType /\ e.key = op[t].graph /\ e.free = Mine(t).free
    BY <1>0, <2>1, MineTyped DEF Entry, EntryType
  <2>3. SetMine(t, e)
    BY Zenon, <1>6 DEF Bind
  <2> HIDE DEF e
  <2>4. /\ \A u \in Threads \ {t} : local'[u] = local[u]
        /\ \A s \in Slots : SeatStep(t, s)
    BY Zenon, <1>0, <2>1, <2>2, <2>3, SetMineSeats
  <2> QED
    BY Zenon, <1>0, <1>6, <2>4 DEF Bind, Goto, TypeOK, OthersStay
<1>7. CASE TakeLocal(t)
  <2>0. pc[t] = "ready"
    BY Zenon, <1>7 DEF TakeLocal
  <2>1. PICK f \in Mine(t).free :
          SetMine(t, [Mine(t) EXCEPT !.free = Mine(t).free \ {f}]) /\ HandOut(t, f)
    BY Zenon, <1>7 DEF TakeLocal
  <2>2. op[t].slot \in Slots /\ Mine(t).free \ {f} \in SUBSET Frames
    BY Zenon, <2>0, ReadyFacts
  <2>3. /\ \A u \in Threads \ {t} : local'[u] = local[u]
        /\ \A s \in Slots : SeatStep(t, s)
    BY Zenon, <1>0, <2>1, <2>2, SetFreeSeats
  <2> QED
    BY <1>0, <2>1, <2>3 DEF HandOut, Goto, TypeOK, OthersStay
<1>8. CASE TakeShared(t)
  BY Zenon, <1>8, ReadyFacts, RefillSeats DEF TakeShared
<1>9. CASE TakeNew(t)
  <2>1. PICK new \in SUBSET Unborn : Refill(t, new)
    BY Zenon, <1>9 DEF TakeNew
  <2>2. new \in SUBSET Frames
    BY Zenon DEF Unborn
  <2> QED
    BY Zenon, <1>9, <2>1, <2>2, RefillSeats DEF TakeNew
<1>10. CASE Put(t)
  <2> DEFINE free == Mine(t).free \union {op[t].frame}
  <2>0. /\ op[t].slot \in Slots /\ free \in SUBSET Frames /\ Spill(t, free)
    <3>1. pc[t] = "ready" /\ op[t].kind = "release" /\ Spill(t, free)
      BY Zenon, <1>10 DEF Put
    <3>2. op[t].slot \in Slots /\ Mine(t).free \subseteq Frames /\ OpOK(t)
      BY Zenon, <3>1, ReadyFacts
    <3>3. op[t].frame \in Frames
      BY Zenon, <3>1, <3>2 DEF OpOK
    <3> QED
      BY Zenon, <3>1, <3>2, <3>3
  <2>1. PICK L \in SUBSET free :
          SetMine(t, [Mine(t) EXCEPT !.free = L]) /\ Cardinality(L) <= LocalMax
    <3>1. CASE Cardinality(free) <= LocalMax
      BY <2>0, <3>1 DEF Spill
    <3>2. CASE ~ (Cardinality(free) <= LocalMax)
      <4>1. LocalMax \div 2 <= LocalMax
        BY PoolConstants
      <4> QED
        BY Zenon, <2>0, <3>2, <4>1 DEF Spill
    <3> QED
      BY Zenon, <3>1, <3>2
  <2>2. L \in SUBSET Frames
    BY Zenon, <2>0
  <2>3. /\ \A u \in Threads \ {t} : local'[u] = local[u]
        /\ \A s \in Slots : SeatStep(t, s)
    BY <1>0, <2>0, <2>1, <2>2, SetFreeSeats
  <2> QED
    BY Zenon, <1>0, <1>10, <2>3 DEF Put, Goto, TypeOK, OthersStay
<1>11. CASE End(t)
  BY Zenon, <1>0, <1>11 DEF End, Goto, TypeOK, OthersStay, SeatStep
<1> QED
  BY <1>1, <1>2, <1>3, <1>4, <1>5, <1>6, <1>7, <1>8, <1>9, <1>10, <1>11 DEF Step

(* The beginning of an operation. *)
LEMMA StartSeats ==
  ASSUME Inductive, NEW t \in Threads, Start(t)
  PROVE  /\ pc[t] = "idle" /\ local' = local /\ liveMutex' = liveMutex
         /\ pc'[t] \in {"idle", "lookup", "ending"} /\ OthersStay(t)
BY Zenon DEF Inductive, TypeOK, Start, StartAcquire, Warmup, StartRelease, StartEnd, Goto, OthersStay

(* A place of a table that was filled is the graph's own, and its list is  *)
(* not longer than the limit.                                              *)
Seated ==
  \A t \in Threads, s \in Slots :
    /\ local[t][s].pool # None => s = SlotOf[local[t][s].key]
    /\ Cardinality(local[t][s].free) <= LocalMax

LEMMA InitSeated == Init => Seated
<1>1. Cardinality({}) <= LocalMax
  BY FS_EmptySet, PoolConstants
<1>2. Init => \A t \in Threads, s \in Slots : local[t][s].pool = None /\ local[t][s].free = {}
  BY DEF Init, NoEntry, Entry
<1> QED
  BY Zenon, <1>1, <1>2 DEF Seated

LEMMA SeatStays ==
  ASSUME Inductive, Seated, NEW t \in Threads, NEW s \in Slots, SeatStep(t, s)
  PROVE  /\ local'[t][s].pool # None => s = SlotOf[local'[t][s].key]
         /\ Cardinality(local'[t][s].free) <= LocalMax
<1>0. /\ local[t][s].pool # None => s = SlotOf[local[t][s].key]
      /\ Cardinality(local[t][s].free) <= LocalMax
      /\ local[t][s].free \subseteq Frames
  BY DEF Seated, Inductive, TypeOK
<1>1. CASE local'[t][s] = local[t][s]
  BY Zenon, <1>0, <1>1
<1>2. CASE local'[t][s] = NoEntry
  BY <1>2, FS_EmptySet, PoolConstants DEF NoEntry, Entry
<1>3. CASE /\ \/ local'[t][s].pool = local[t][s].pool /\ local'[t][s].key = local[t][s].key
              \/ local'[t][s].key \in Graphs /\ s = SlotOf[local'[t][s].key]
           /\ \/ local'[t][s].free \subseteq local[t][s].free
              \/ Cardinality(local'[t][s].free) <= LocalMax
  <2>1. ASSUME local'[t][s].free \subseteq local[t][s].free
        PROVE  Cardinality(local'[t][s].free) <= LocalMax
    <3>1. IsFiniteSet(local[t][s].free)
      BY Zenon, <1>0, PoolConstants, FS_Subset
    <3>2. IsFiniteSet(local'[t][s].free) /\ Cardinality(local'[t][s].free) <= Cardinality(local[t][s].free)
      BY <2>1, <3>1, FS_Subset
    <3>3. Cardinality(local[t][s].free) \in Nat /\ Cardinality(local'[t][s].free) \in Nat
      BY <3>1, <3>2, FS_CardinalityType
    <3> QED
      BY <1>0, <3>2, <3>3, PoolConstants
  <2> QED
    BY Zenon, <1>0, <1>3, <2>1
<1> QED
  BY Zenon, <1>1, <1>2, <1>3 DEF SeatStep

LEMMA NextSeated == Inductive /\ Seated /\ [Next]_vars => Seated'
<1> SUFFICES ASSUME Inductive, Seated, [Next]_vars PROVE Seated'
  BY Zenon
<1>1. ASSUME NEW t \in Threads, Step(t) PROVE Seated'
  <2>1. OthersStay(t) /\ \A s \in Slots : SeatStep(t, s)
    BY Zenon, <1>1, StepSeats
  <2>2. ASSUME NEW u \in Threads, NEW s \in Slots
        PROVE  /\ local'[u][s].pool # None => s = SlotOf[local'[u][s].key]
               /\ Cardinality(local'[u][s].free) <= LocalMax
    <3>1. CASE u = t
      BY <2>1, <3>1, SeatStays
    <3>2. CASE u # t
      BY <2>1, <3>2 DEF OthersStay, Seated
    <3> QED
      BY Zenon, <3>1, <3>2
  <2> QED
    BY Zenon, <2>2 DEF Seated
<1>2. ASSUME NEW t \in Threads, Start(t) PROVE Seated'
  <2>1. local' = local
    BY <1>2, StartSeats
  <2> QED
    BY Zenon, <2>1 DEF Seated
<1>3. ASSUME NEW p \in Pools, Life(p) PROVE Seated'
  BY ZenonT(40), <1>3 DEF Life, Create, Erase, FreeChunks, Seated
<1>4. CASE UNCHANGED vars
  BY Zenon, <1>4 DEF vars, Seated
<1> QED
  BY <1>1, <1>2, <1>3, <1>4 DEF Next

(* The frames of a step's chunk: only acquire makes one while it takes a   *)
(* frame.                                                                  *)
LEMMA OnlyTakeNewMakes ==
  ASSUME Inductive, Next, held' # held, NEW f \in Unborn, owner'[f] # None
  PROVE  \E t \in Threads : TakeNew(t) /\ owner'[f] = Target(t)
<1>0. owner[f] = None
  BY Zenon DEF Unborn
<1>1. ASSUME NEW t \in Threads, Step(t)
      PROVE  TakeNew(t) /\ owner'[f] = Target(t)
  <2>1. TakeNew(t) \/ owner' = owner
    BY ZenonT(40), <1>1 DEF Step, Hit, EvictOwn, EvictOther, GiveNothing, GiveLock, GiveInsert, GiveDrop, Bind,
                TakeLocal, TakeShared, TakeFails, Put, EndSlot, End
  <2>2. TakeNew(t)
    BY Zenon, <1>0, <2>1
  <2>3. PICK new \in SUBSET Unborn : AllocateChunk(Target(t), new)
    BY Zenon, <2>2 DEF TakeNew
  <2>4. f \in Frames
    BY Zenon DEF Unborn
  <2> QED
    BY Zenon, <1>0, <2>2, <2>3, <2>4 DEF AllocateChunk
<1>2. ASSUME NEW t \in Threads, Start(t) PROVE FALSE
  BY Zenon, <1>2 DEF Start, StartAcquire, Warmup, StartRelease, StartEnd
<1>3. ASSUME NEW p \in Pools, Life(p) PROVE FALSE
  BY <1>3 DEF Life, Create, Erase, FreeChunks
<1> QED
  BY Zenon, <1>1, <1>2, <1>3 DEF Next

INSTANCE FunctionTheorems

(* A union of as many lists as U has members, none longer than n.          *)
LEMMA UnionOfLists ==
  ASSUME NEW U, IsFiniteSet(U), NEW n \in Nat, NEW list,
         \A u \in U : IsFiniteSet(list[u]) /\ Cardinality(list[u]) <= n,
         NEW I, \A f \in I : \E u \in U : f \in list[u]
  PROVE  IsFiniteSet(I) /\ Cardinality(I) <= Cardinality(U) * n
<1> DEFINE of == [f \in I |-> CHOOSE u \in U : f \in list[u]]
           place == [u \in U |-> CHOOSE b : b \in Injection(list[u], 1 .. n)]
           at == [f \in I |-> <<of[f], place[of[f]][f]>>]
<1>1. \A f \in I : of[f] \in U /\ f \in list[of[f]]
  BY Zenon
<1>2. \A u \in U : place[u] \in Injection(list[u], 1 .. n)
  <2> SUFFICES ASSUME NEW u \in U PROVE \E b : b \in Injection(list[u], 1 .. n)
    BY Zenon
  <2> DEFINE c == Cardinality(list[u])
  <2>1. c \in Nat /\ c <= n /\ ExistsBijection(1 .. c, list[u])
    BY FS_CardinalityType
  <2>2. ExistsBijection(list[u], 1 .. c)
    BY <2>1, Fun_ExistsBijSymmetric
  <2>3. PICK b : b \in Injection(list[u], 1 .. c)
    BY Zenon, <2>2 DEF ExistsBijection, Bijection
  <2>4. b \in Injection(list[u], 1 .. n)
    BY <2>1, <2>3 DEF Injection, IsInjective
  <2> QED
    BY <2>4
<1>3. at \in Injection(I, U \X (1 .. n))
  <2>1. ASSUME NEW f \in I
        PROVE  of[f] \in U /\ place[of[f]][f] \in 1 .. n
    BY ZenonT(40), <1>1, <1>2 DEF Injection
  <2>2. at \in [I -> U \X (1 .. n)]
    BY Zenon, <2>1
  <2>3. ASSUME NEW f \in I, NEW h \in I, at[f] = at[h]
        PROVE  f = h
    <3>1. of[f] = of[h] /\ place[of[f]][f] = place[of[f]][h]
      <4> HIDE DEF of, place
      <4> QED
        BY Zenon, <2>3
    <3>2. f \in list[of[f]] /\ h \in list[of[f]] /\ of[f] \in U
      BY <1>1, <3>1
    <3> HIDE DEF of, place
    <3> QED
      BY Zenon, <1>2, <3>1, <3>2 DEF Injection, IsInjective
  <2> HIDE DEF at
  <2> QED
    BY Zenon, <2>2, <2>3 DEF Injection, IsInjective
<1>4. IsFiniteSet(1 .. n) /\ Cardinality(1 .. n) = n
  BY FS_Interval
<1>5. IsFiniteSet(U \X (1 .. n)) /\ Cardinality(U \X (1 .. n)) = Cardinality(U) * n
  BY Zenon, <1>4, FS_Product
<1> HIDE DEF at
<1> QED
  BY <1>3, <1>5, FS_Injection

(* A chunk is made for a call only when what is free of its arena is in    *)
(* the other threads' lists, and so not more than their limits.            *)
THEOREM ChunksAreMadeWhenNeeded == Spec => ChunksAreNeeded
<1>1. ASSUME Inductive, Seated, Next, held' # held, NEW a \in Arenas, NEW f \in Unborn, owner'[f] = a
      PROVE  Cardinality(Idle(a)) <= (Cardinality(Threads) - 1) * LocalMax
  <2>1. PICK t \in Threads : TakeNew(t) /\ a = Target(t)
    <3>1. a # None
      BY PoolConstants DEF Arenas
    <3> QED
      BY <1>1, <3>1, OnlyTakeNewMakes
  <2>2. /\ pc[t] = "ready" /\ Mine(t).free = {} /\ arena[a] = {}
    BY <2>1 DEF TakeNew
  <2> DEFINE U == Threads \ {t}
             s == op[t].slot
             list == [u \in U |-> local[u][s].free]
  <2>3. /\ TypeOK /\ InFrames /\ s \in Slots /\ a = <<op[t].pool, op[t].graph>>
        /\ op[t].pool \in Pools /\ op[t].graph \in Graphs /\ pool[op[t].pool] = "live"
        /\ s = SlotOf[op[t].graph]
    BY Zenon, <1>1, <2>1, <2>2, ReadyFacts DEF Inductive, OpOK
  <2>4. \A h \in Idle(a) : \E u \in U : h \in list[u]
    <3> SUFFICES ASSUME NEW h \in Idle(a) PROVE \E u \in U : h \in list[u]
      BY Zenon
    <3>1. h \in Frames /\ owner[h] = a /\ owner[h] # None /\ \A c \in held : c.frame # h
      BY PoolConstants DEF Idle, Arenas
    <3>2. PICK u \in Threads, r \in Slots : h \in local[u][r].free
      <4>1. owner[h][1] = op[t].pool /\ h \notin arena[owner[h]]
        BY <2>2, <2>3, <3>1
      <4>2. Somewhere
        BY Zenon, <2>3 DEF InFrames
      <4> QED
        BY <2>3, <3>1, <4>1, <4>2 DEF Somewhere
    <3>3. owner[h] = <<local[u][r].pool, local[u][r].key>>
      BY <2>3, <3>2 DEF InFrames, ListsFit
    <3>4. local[u][r].pool = op[t].pool /\ local[u][r].key = op[t].graph
      BY <2>3, <3>1, <3>3
    <3>5. r = s
      BY Zenon, <1>1, <2>3, <3>4, PoolConstants DEF Seated
    <3>6. u # t
      BY Zenon, <2>2, <3>2, <3>5 DEF Mine
    <3> QED
      BY <3>2, <3>5, <3>6
  <2>5. IsFiniteSet(U) /\ Cardinality(U) = Cardinality(Threads) - 1
    BY ZenonT(40), PoolConstants, FS_RemoveElement
  <2>6. \A u \in U : IsFiniteSet(list[u]) /\ Cardinality(list[u]) <= LocalMax
    <3> SUFFICES ASSUME NEW u \in U
                 PROVE  IsFiniteSet(local[u][s].free) /\ Cardinality(local[u][s].free) <= LocalMax
      BY Zenon
    <3>1. local[u][s].free \in SUBSET Frames
      BY <2>3 DEF TypeOK
    <3> QED
      BY Zenon, <1>1, <2>3, <3>1, PoolConstants, FS_Subset DEF Seated
  <2>7. LocalMax \in Nat
    BY Zenon, PoolConstants
  <2> HIDE DEF U, list
  <2> QED
    BY ZenonT(40), <2>4, <2>5, <2>6, <2>7, UnionOfLists
<1>2. Inductive /\ Seated /\ [Next]_vars =>
        [held' # held =>
           \A a \in Arenas : \A f \in Unborn : owner'[f] = a =>
             Cardinality(Idle(a)) <= (Cardinality(Threads) - 1) * LocalMax]_vars
  BY Zenon, <1>1 DEF vars
<1> QED
  BY <1>2, InitInductive, InitSeated, NextInductive, NextSeated, PTL DEF Spec, ChunksAreNeeded
-----------------------------------------------------------------------------
(* Who holds the mutex of the pools is about to leave it, with a list to   *)
(* give; and a thread that ends gives only lists that have frames.         *)
Busy(t) ==
  /\ liveMutex = t => pc[t] \in {"insert", "drop"}
  /\ pc[t] \in {"insert", "drop"} => Mine(t).free # {}
  /\ pc[t] = "give" /\ op[t].kind = "end" => Mine(t).free # {}

LEMMA OthersBusy ==
  ASSUME NEW t \in Threads, NEW u \in Threads \ {t}, Busy(u), OthersStay(t),
         liveMutex' = u => liveMutex = u
  PROVE  Busy(u)'
BY Zenon DEF Busy, OthersStay, Mine

LEMMA StepBusy ==
  ASSUME Inductive, \A u \in Threads : Busy(u), NEW t \in Threads, Step(t)
  PROVE  /\ Busy(t)'
         /\ \A u \in Threads \ {t} : liveMutex' = u => liveMutex = u
<1>0. TypeOK /\ OpOK(t) /\ Busy(t) /\ \A u \in Threads : u # None
  BY PoolConstants DEF Inductive
<1> USE DEF TypeOK, OpOK, Busy, Goto, Mine, AfterGive
<1>1. CASE Hit(t)
  BY Zenon, <1>0, <1>1 DEF Hit
<1>2. CASE EvictOwn(t)
  BY ZenonT(40), <1>0, <1>2 DEF EvictOwn
<1>3. CASE EvictOther(t)
  BY Zenon, <1>0, <1>3 DEF EvictOther
<1>4. CASE GiveNothing(t)
  BY Zenon, <1>0, <1>4 DEF GiveNothing
<1>5. CASE GiveLock(t)
  BY Zenon, <1>0, <1>5 DEF GiveLock
<1>6. CASE GiveInsert(t)
  BY ZenonT(40), <1>0, <1>6 DEF GiveInsert
<1>7. CASE GiveDrop(t)
  BY ZenonT(40), <1>0, <1>7 DEF GiveDrop
<1>8. CASE Bind(t)
  BY Zenon, <1>0, <1>8 DEF Bind
<1>9. CASE TakeLocal(t)
  BY ZenonT(40), <1>0, <1>9 DEF TakeLocal, HandOut
<1>10. CASE TakeShared(t)
  BY <1>0, <1>10 DEF TakeShared, Refill, HandOut
<1>11. CASE TakeNew(t)
  BY ZenonT(40), <1>0, <1>11 DEF TakeNew, Refill, HandOut
<1>12. CASE TakeFails(t)
  BY Zenon, <1>0, <1>12 DEF TakeFails
<1>13. CASE Put(t)
  BY Zenon, <1>0, <1>13 DEF Put
<1>14. CASE EndSlot(t)
  <2>1. PICK s \in Slots : local[t][s].free # {} /\ op' = [op EXCEPT ![t].slot = s]
    BY Zenon, <1>14 DEF EndSlot
  <2>2. op'[t].slot = s /\ local' = local /\ pc'[t] = "give" /\ liveMutex' = liveMutex
    BY <1>0, <1>14, <2>1 DEF EndSlot
  <2> QED
    BY <1>0, <1>14, <2>1, <2>2 DEF EndSlot
<1>15. CASE End(t)
  BY Zenon, <1>0, <1>15 DEF End
<1> QED
  BY Zenon, <1>1, <1>2, <1>3, <1>4, <1>5, <1>6, <1>7, <1>8, <1>9, <1>10, <1>11, <1>12, <1>13, <1>14, <1>15
     DEF Step

LEMMA NextBusy ==
  Inductive /\ (\A t \in Threads : Busy(t)) /\ [Next]_vars => (\A t \in Threads : Busy(t))'
<1> SUFFICES ASSUME Inductive, \A t \in Threads : Busy(t), [Next]_vars
             PROVE  \A t \in Threads : Busy(t)'
  OBVIOUS
<1>1. ASSUME NEW t \in Threads, Step(t) PROVE \A u \in Threads : Busy(u)'
  BY <1>1, StepSeats, StepBusy, OthersBusy
<1>2. ASSUME NEW t \in Threads, Start(t) PROVE \A u \in Threads : Busy(u)'
  <2>1. /\ pc[t] = "idle" /\ local' = local /\ liveMutex' = liveMutex
        /\ pc'[t] \in {"idle", "lookup", "ending"} /\ OthersStay(t)
    BY <1>2, StartSeats
  <2>2. Busy(t)'
    BY <2>1 DEF Busy
  <2> QED
    BY <2>1, <2>2, OthersBusy
<1>3. ASSUME NEW p \in Pools, Life(p) PROVE \A u \in Threads : Busy(u)'
  BY ZenonT(40), <1>3 DEF Life, Create, Erase, FreeChunks, Busy, Mine
<1>4. CASE UNCHANGED vars
  BY Zenon, <1>4 DEF vars, Busy, Mine
<1> QED
  BY <1>1, <1>2, <1>3, <1>4 DEF Next

LEMMA AlwaysBusy == Spec => [](\A t \in Threads : Busy(t))
<1>1. Init => \A t \in Threads : Busy(t)
  BY PoolConstants DEF Init, Busy
<1> QED
  BY <1>1, InitInductive, NextInductive, NextBusy, PTL DEF Spec

(* Whoever waits for the mutex of the live pools waits for one step of a   *)
(* thread that nothing else holds up.                                      *)
THEOREM MutexIsAlwaysLeft == Spec => []MutexIsLeft
<1>1. (\A t \in Threads : Busy(t)) => MutexIsLeft
  BY Zenon DEF Busy, MutexIsLeft
<1> QED
  BY <1>1, AlwaysBusy, PTL

(* A step of an operation that leaves the lists of a thread as they are.   *)
LEMMA SameLists ==
  ASSUME NEW t \in Threads, local' = local \/ local'[t] = local[t]
  PROVE  Lists(t)' = Lists(t)
BY Zenon DEF Lists

LEMMA StepAdvances ==
  ASSUME Inductive, \A u \in Threads : Busy(u), NEW t \in Threads, Step(t)
  PROVE  Advances(t)
<1>0. TypeOK /\ OpOK(t) /\ Busy(t)
  BY DEF Inductive
<1>1. CASE op[t].kind # "end"
  <2>1. pc[t] = "lookup" => pc'[t] \in {"ready", "bind", "give"}
    BY ZenonT(40), <1>0, <1>1 DEF TypeOK, OpOK, Step, Goto, Hit, EvictOwn, EvictOther, GiveNothing, GiveLock, GiveInsert,
       GiveDrop, Bind, TakeLocal, TakeShared, TakeNew, TakeFails, Put, EndSlot, End
  <2>2. pc[t] = "give" => pc'[t] \in {"bind", "insert", "drop"}
    BY ZenonT(40), <1>0, <1>1 DEF TypeOK, OpOK, Step, Goto, Hit, EvictOwn, EvictOther, GiveNothing, GiveLock, GiveInsert,
       GiveDrop, Bind, TakeLocal, TakeShared, TakeNew, TakeFails, Put, EndSlot, End, AfterGive
  <2>3. pc[t] \in {"insert", "drop"} => pc'[t] = "bind"
    BY ZenonT(40), <1>0, <1>1 DEF TypeOK, OpOK, Step, Goto, Hit, EvictOwn, EvictOther, GiveNothing, GiveLock, GiveInsert,
       GiveDrop, Bind, TakeLocal, TakeShared, TakeNew, TakeFails, Put, EndSlot, End, AfterGive
  <2>4. pc[t] = "bind" => pc'[t] = "ready"
    BY ZenonT(40), <1>0, <1>1 DEF TypeOK, OpOK, Step, Goto, Hit, EvictOwn, EvictOther, GiveNothing, GiveLock, GiveInsert,
       GiveDrop, Bind, TakeLocal, TakeShared, TakeNew, TakeFails, Put, EndSlot, End
  <2>5. pc[t] = "ready" => pc'[t] = "idle"
    BY Zenon, <1>0, <1>1 DEF TypeOK, OpOK, Step, Goto, Hit, EvictOwn, EvictOther, GiveNothing, GiveLock, GiveInsert,
       GiveDrop, Bind, TakeLocal, TakeShared, TakeNew, TakeFails, Put, EndSlot, End, Refill, HandOut
  <2>6. pc[t] \in {"lookup", "give", "insert", "drop", "bind", "ready"}
    BY ZenonT(40), <1>0, <1>1 DEF TypeOK, OpOK, Step, Hit, EvictOwn, EvictOther, GiveNothing, GiveLock, GiveInsert,
       GiveDrop, Bind, TakeLocal, TakeShared, TakeNew, TakeFails, Put, EndSlot, End
  <2>7. StepsLeft(pc'[t]) < StepsLeft(pc[t])
    BY <2>1, <2>2, <2>3, <2>4, <2>5, <2>6 DEF StepsLeft
  <2> QED
    BY <1>1, <2>7 DEF Advances
<1>2. CASE op[t].kind = "end"
  <2>1. pc[t] \in {"ending", "give", "insert", "drop"}
    BY Zenon, <1>0, <1>2 DEF TypeOK, OpOK
  <2>2. CASE GiveLock(t) \/ EndSlot(t)
    <3>1. /\ Lists(t)' = Lists(t)
          /\ \/ pc[t] = "give" /\ pc'[t] \in {"insert", "drop"}
             \/ pc[t] = "ending" /\ pc'[t] = "give"
      BY <1>0, <2>2, SameLists DEF GiveLock, EndSlot, Goto, TypeOK
    <3> QED
      BY <1>2, <3>1 DEF Advances, StepsLeft
  <2>3. CASE GiveInsert(t) \/ GiveDrop(t)
    <3>1. /\ op[t].slot \in Slots /\ SetMine(t, [Mine(t) EXCEPT !.free = {}])
          /\ local[t][op[t].slot].free # {}
      BY Zenon, <1>0, <2>3 DEF GiveInsert, GiveDrop, OpOK, Busy, Mine
    <3> DEFINE e == [Mine(t) EXCEPT !.free = {}]
    <3>2. e \in EntryType /\ e.free = {} /\ SetMine(t, e)
      BY <1>0, <3>1, MineTyped
    <3> HIDE DEF e
    <3>3. /\ local'[t][op[t].slot].free = {}
          /\ \A r \in Slots : r # op[t].slot => local'[t][r] = local[t][r]
      BY <1>0, <3>1, <3>2, SetMineEffect
    <3>4. op[t].slot \in Lists(t) /\ op[t].slot \notin Lists(t)' /\ Lists(t)' \subseteq Lists(t)
      BY <3>1, <3>3 DEF Lists
    <3> QED
      BY Zenon, <1>2, <3>4 DEF Advances
  <2>4. CASE End(t)
    <3>1. Lists(t) = {}
      BY Zenon, <2>4 DEF End, Lists
    <3>2. Lists(t)' = {}
      BY Zenon, <1>0, <2>4 DEF End, Lists, NoEntry, Entry, TypeOK
    <3>3. pc[t] = "ending" /\ pc'[t] = "idle"
      BY ZenonT(40), <1>0, <2>4 DEF End, Goto, TypeOK
    <3> QED
      BY <1>2, <3>1, <3>2, <3>3 DEF Advances, StepsLeft
  <2>5. ~ GiveNothing(t)
    BY ZenonT(40), <1>0, <1>2 DEF GiveNothing, Busy
  <2> QED
    BY ZenonT(40), <1>2, <2>1, <2>2, <2>3, <2>4, <2>5 DEF Step, Hit, EvictOwn, EvictOther, Bind, TakeLocal,
       TakeShared, TakeNew, TakeFails, Put
<1> QED
  BY <1>1, <1>2

(* Each step of an acquire, a release or the end of a thread brings it     *)
(* nearer to its end, and no other thread sets it back: no operation can   *)
(* go round for ever.                                                      *)
THEOREM OperationsComeToTheirEnd == Spec => OperationsAdvance
<1>1. ASSUME Inductive, \A u \in Threads : Busy(u), Next, NEW t \in Threads, pc[t] # "idle"
      PROVE  Advances(t) \/ Waits(t)
  <2>1. ASSUME NEW u \in Threads, Step(u)
        PROVE  Advances(t) \/ Waits(t)
    <3>1. CASE u = t
      BY <1>1, <2>1, <3>1, StepAdvances
    <3>2. CASE u # t
      BY <1>1, <2>1, <3>2, StepSeats DEF OthersStay, Waits
    <3> QED
      BY Zenon, <3>1, <3>2
  <2>2. ASSUME NEW u \in Threads, Start(u) PROVE Waits(t)
    <3>1. pc[u] = "idle" /\ OthersStay(u)
      BY <1>1, <2>2, StartSeats
    <3> QED
      BY <1>1, <3>1 DEF OthersStay, Waits
  <2>3. ASSUME NEW p \in Pools, Life(p) PROVE Waits(t)
    BY Zenon, <2>3 DEF Life, Create, Erase, FreeChunks, Waits
  <2> QED
    BY <1>1, <2>1, <2>2, <2>3 DEF Next
<1>2. Inductive /\ (\A t \in Threads : Busy(t)) /\ [Next]_vars => [AllAdvance]_vars
  BY Zenon, <1>1 DEF AllAdvance
<1> QED
  BY <1>2, AlwaysInductive, AlwaysBusy, PTL DEF Spec, OperationsAdvance
=============================================================================
