--------------------------- MODULE TaskflowProofs ----------------------------
(***************************************************************************)
(* Two algorithms of TaskflowExecSchedPass.  unordered_reduce folds every  *)
(* element once and in order and reports the first fault, for any number   *)
(* of elements and workers.  A chain of tail calls keeps its frames, for   *)
(* any graphs, any number of frames and any table of more than two         *)
(* entries.                                                                *)
(***************************************************************************)
EXTENDS UnorderedReduce, TailFrames, Integers, TLAPS

-----------------------------------------------------------------------------
(* unordered_reduce *)


(* No bad element in a stretch of the array. *)
Clean(lo, hi) == \A i \in bad : ~ (lo <= i /\ i < hi)

(* A chunk that has elements. *)
Real(c) == c \in ChunkSlots /\ c < ChunkCount /\ Begin(c) < n

(* Before the level is built nothing has happened. *)
AtStart ==
  foldStage = "start" =>
    /\ task = [c \in ChunkSlots |-> "none"] /\ partial = [c \in ChunkSlots |-> None]
    /\ lowest = MaxN /\ error = None

(* The final fold begins after the join. *)
Unfolded ==
  foldStage \in {"start", "chunks"} => folded = 0 /\ total = Initial

(* Every chunk with elements has a task, and only those. *)
Tasks ==
  /\ foldStage = "chunks" => n > 0
  /\ foldStage # "start" /\ n > 0 => \A c \in ChunkSlots : Real(c) <=> task[c] # "none"

(* A chunk's task has folded its elements from the first on; the first     *)
(* alone has not been the operand of a call.                               *)
Folding ==
  \A c \in ChunkSlots : task[c] = "fold" =>
    /\ acc[c].lo = Begin(c) /\ Begin(c) < acc[c].hi /\ acc[c].hi <= End(c)
    /\ acc[c].hi = Begin(c) + 1 \/ Clean(Begin(c), acc[c].hi)

(* A partial is the fold of its whole chunk. *)
Partials ==
  \A c \in ChunkSlots : partial[c] # None =>
    /\ task[c] = "done"
    /\ partial[c] = Run(Begin(c), End(c))
    /\ End(c) = Begin(c) + 1 \/ Clean(Begin(c), End(c))

(* A chunk that is done has a partial unless it faulted or was skipped.    *)
Done ==
  \A c \in ChunkSlots : task[c] = "done" => partial[c] # None \/ lowest <= c

(* The kept fault is that of a call in the chunk lowest. *)
Kept ==
  foldStage # "returned" =>
    /\ lowest < MaxN <=> error # None
    /\ error # None => /\ foldStage = "chunks"
                       /\ Real(lowest) /\ ChunkSize >= 2
                       /\ error.lo = Begin(lowest)
                       /\ ~ Clean(error.lo, error.hi)

(* Tasks run between the building of the level and the join only. *)
Quiet ==
  foldStage # "chunks" => \A c \in ChunkSlots : task[c] \in {"none", "done"}

(* The final fold has put the chunks together from the first one on. *)
Final ==
  foldStage = "final" =>
    /\ n > 0 /\ folded <= ChunkCount
    /\ total = Run(0, SmallerOf(n, Begin(folded)))
    /\ Clean(0, total.hi)


-----------------------------------------------------------------------------

LEMMA CeilingDivision ==
  ASSUME NEW a \in Nat, NEW b \in Nat, 0 < b, b <= a
  PROVE  /\ (a + b - 1) \div b \in Nat
         /\ 1 <= (a + b - 1) \div b
         /\ a <= b * ((a + b - 1) \div b)
<1> DEFINE m == a + b - 1
           q == m \div b
           r == m % b
           p == b * q
<1>1. m \in Nat /\ q \in Int /\ r \in Int /\ p \in Int
  OBVIOUS
<1>2. m = p + r /\ 0 <= r /\ r < b
  OBVIOUS
<1>3. q <= 0 => p <= 0
  <2> HIDE DEF q
  <2> QED  BY <1>1
<1> HIDE DEF q, r, p
<1>4. p > a - 1
  BY <1>1, <1>2
<1>5. q > 0
  BY <1>1, <1>3, <1>4
<1> QED
  BY <1>1, <1>4, <1>5 DEF q, p

LEMMA Multiples ==
  ASSUME NEW s \in Nat, NEW c \in Nat, NEW d \in Nat, c < d
  PROVE  c * s \in Nat /\ d * s \in Nat /\ c * s + s <= d * s
<1>1. PICK k \in Nat : d = c + 1 + k
  BY d = c + 1 + (d - (c + 1)), d - (c + 1) \in Nat
<1>2. d * s = c * s + s + k * s
  BY <1>1
<1>3. c * s \in Nat /\ d * s \in Nat /\ k * s \in Nat
  OBVIOUS
<1> QED
  BY <1>2, <1>3

LEMMA Covering ==
  ASSUME NEW s \in Nat, 0 < s, NEW j \in Nat
  PROVE  \E c \in Nat : c * s <= j /\ j < c * s + s
<1>1. j \div s \in Nat /\ j = s * (j \div s) + (j % s) /\ 0 <= j % s /\ j % s < s
  OBVIOUS
<1> DEFINE c == j \div s
<1>2. c * s = s * c /\ c * s \in Nat
  BY <1>1
<1>3. c * s <= j /\ j < c * s + s
  BY <1>1, <1>2
<1> QED
  BY Zenon, <1>1, <1>3

LEMMA ChunkFacts ==
  ASSUME ReduceTypeOK, n > 0
  PROVE  /\ ChunkCount \in Nat /\ 1 <= ChunkCount /\ ChunkCount <= n
         /\ ChunkSize \in Nat /\ 1 <= ChunkSize
         /\ n <= ChunkCount * ChunkSize
<1>1. n \in Nat /\ workers \in Nat
  BY ReduceConstants DEF ReduceTypeOK
<1>2. ChunkCount \in Nat /\ 1 <= ChunkCount /\ ChunkCount <= n
  BY <1>1 DEF ChunkCount, ChunkGoal, LargerOf, SmallerOf
<1> QED
  BY <1>1, <1>2, CeilingDivision DEF ChunkSize

LEMMA ChunkPlaces ==
  ASSUME ReduceTypeOK, n > 0, NEW c \in Nat
  PROVE  /\ Begin(c) \in Nat /\ End(c) \in Nat /\ End(c) <= n
         /\ Begin(c + 1) = Begin(c) + ChunkSize
         /\ End(c) = SmallerOf(n, Begin(c + 1))
         /\ Begin(c) < n => Begin(c) < End(c)
         /\ Begin(0) = 0
<1>1. n \in Nat /\ ChunkSize \in Nat /\ 1 <= ChunkSize
  BY ChunkFacts, ReduceConstants DEF ReduceTypeOK
<1>2. Begin(c) \in Nat /\ Begin(c + 1) = Begin(c) + ChunkSize /\ Begin(0) = 0
  BY <1>1 DEF Begin
<1> QED
  BY <1>1, <1>2 DEF End, SmallerOf

LEMMA ChunkOrder ==
  ASSUME ReduceTypeOK, n > 0, NEW c \in Nat, NEW d \in Nat, c < d
  PROVE  Begin(c) + ChunkSize <= Begin(d)
BY Zenon, ChunkFacts, Multiples DEF Begin

LEMMA ChunkOf ==
  ASSUME ReduceTypeOK, NEW j \in 0 .. n - 1
  PROVE  \E c \in ChunkSlots : Real(c) /\ Begin(c) <= j /\ j < End(c)
<1>1. n \in Nat /\ n > 0 /\ n <= MaxN /\ MaxN \in Nat /\ j \in Nat /\ j < n
  BY ReduceConstants DEF ReduceTypeOK
<1>2. /\ ChunkCount \in Nat /\ 1 <= ChunkCount /\ ChunkCount <= n
      /\ ChunkSize \in Nat /\ 1 <= ChunkSize
      /\ n <= ChunkCount * ChunkSize
  BY Zenon, <1>1, ChunkFacts
<1>3. PICK c \in Nat : c * ChunkSize <= j /\ j < c * ChunkSize + ChunkSize
  <2>1. ChunkSize \in Nat /\ 0 < ChunkSize /\ j \in Nat
    BY <1>1, <1>2
  <2> QED
    BY Zenon, <2>1, Covering
<1>4. Begin(c) <= j /\ j < Begin(c) + ChunkSize /\ Begin(c) \in Nat
  BY Zenon, <1>1, <1>3, ChunkPlaces DEF Begin
<1>5. c < ChunkCount
  <2>1. SUFFICES ASSUME ChunkCount <= c PROVE FALSE
    BY <1>2
  <2>2. Begin(ChunkCount) <= Begin(c)
    <3>1. CASE ChunkCount = c
      BY <3>1, <1>4
    <3>2. CASE ChunkCount < c
      BY <3>2, <1>1, <1>2, <1>4, ChunkOrder, ChunkPlaces
    <3> QED
      BY <1>2, <2>1, <3>1, <3>2
  <2> QED
    BY <1>1, <1>2, <1>4, <2>2 DEF Begin
<1>6. j < End(c)
  BY Zenon, <1>1, <1>2, <1>4 DEF End, SmallerOf
<1> QED
  BY <1>1, <1>2, <1>4, <1>5, <1>6 DEF Real, ChunkSlots

(* The chunks cut the array: every element is in one chunk, and in no      *)
(* other, for every number of elements and workers.                        *)
THEOREM ChunksCutTheArray ==
  ASSUME ReduceTypeOK, NEW j \in 0 .. n - 1
  PROVE  /\ \E c \in Chunks : Begin(c) <= j /\ j < End(c)
         /\ \A c, d \in Chunks : /\ Begin(c) <= j /\ j < End(c)
                                 /\ Begin(d) <= j /\ j < End(d)
                                 => c = d
<1>1. n \in Nat /\ n > 0 /\ j \in Nat /\ Chunks \subseteq Nat
  BY ReduceConstants DEF ReduceTypeOK, Chunks, ChunkSlots
<1>2. \E c \in Chunks : Begin(c) <= j /\ j < End(c)
  BY Zenon, ChunkOf DEF Real, Chunks
<1>3. ASSUME NEW c \in Chunks, NEW d \in Chunks, c < d, j < End(c), Begin(d) <= j
      PROVE  FALSE
  <2>1. /\ Begin(c) \in Nat /\ Begin(d) \in Nat /\ ChunkSize \in Nat
        /\ Begin(c) + ChunkSize <= Begin(d)
    BY Zenon, <1>1, <1>3, ChunkOrder, ChunkPlaces, ChunkFacts
  <2>2. End(c) <= Begin(c) + ChunkSize
    BY <1>1, <2>1 DEF End, SmallerOf
  <2>3. End(c) \in Nat
    BY Zenon, <1>1, ChunkPlaces
  <2> QED
    BY <1>1, <1>3, <2>1, <2>2, <2>3
<1> QED
  BY <1>1, <1>2, <1>3

-----------------------------------------------------------------------------
Inductive == /\ ReduceTypeOK /\ AtStart /\ Unfolded /\ Tasks /\ Folding /\ Partials /\ Done
             /\ Kept /\ Quiet /\ Final /\ ReducesAll /\ FirstFaultReported

LEMMA InitInductive == ReduceInit => Inductive
<1> SUFFICES ASSUME ReduceInit PROVE Inductive
  BY Zenon
<1>1. ReduceTypeOK
  BY ReduceConstants DEF ReduceInit, ReduceTypeOK, Initial, Run, Runs, ChunkSlots
<1> QED
  BY <1>1, ReduceConstants DEF ReduceInit, Inductive, AtStart, Unfolded, Tasks, Folding, Partials, Done, Kept,
       Quiet, Final, ReducesAll, FirstFaultReported

(* The chunks are those of the site, which no step changes. *)
LEMMA SiteStays ==
  ASSUME UNCHANGED siteVars
  PROVE  /\ n' = n /\ workers' = workers /\ bad' = bad
         /\ ChunkCount' = ChunkCount /\ ChunkSize' = ChunkSize
         /\ \A c : Begin(c)' = Begin(c) /\ End(c)' = End(c) /\ Real(c)' = Real(c)
<1>1. n' = n /\ workers' = workers /\ bad' = bad
  BY Zenon DEF siteVars
<1>2. ChunkCount' = ChunkCount
  BY Zenon, <1>1 DEF ChunkCount, ChunkGoal
<1>3. ChunkSize' = ChunkSize
  BY Zenon, <1>1, <1>2 DEF ChunkSize
<1>4. \A c : Begin(c)' = Begin(c)
  BY Zenon, <1>3 DEF Begin
<1>5. \A c : End(c)' = End(c)
  BY Zenon, <1>1, <1>3, <1>4 DEF End
<1>6. \A c : Real(c)' = Real(c)
  BY Zenon, <1>1, <1>2, <1>4 DEF Real
<1> QED
  BY Zenon, <1>1, <1>2, <1>3, <1>4, <1>5, <1>6

LEMMA EmplaceKeeps ==
  ASSUME Inductive, Emplace
  PROVE  Inductive'
<1>0. /\ foldStage = "start" /\ n > 0 /\ foldStage' = "chunks" /\ UNCHANGED siteVars
      /\ acc' = acc /\ partial' = partial /\ lowest' = lowest /\ error' = error
      /\ folded' = folded /\ total' = total
      /\ task' = [c \in ChunkSlots |-> IF c \in Chunks /\ Begin(c) < End(c) THEN "ready" ELSE "none"]
  BY Zenon DEF Emplace
<1>1. ReduceTypeOK
  BY Zenon DEF Inductive
<1>2. /\ partial = [c \in ChunkSlots |-> None]
      /\ lowest = MaxN /\ error = None
  BY Zenon, <1>0 DEF Inductive, AtStart
<1>3. ReduceTypeOK'
  BY Zenon, <1>0, <1>1 DEF ReduceTypeOK, siteVars
<1>4. \A c \in ChunkSlots : Real(c) <=> task'[c] # "none"
  <2>1. \A c \in ChunkSlots : c \in Nat
    BY ReduceConstants DEF ChunkSlots
  <2>2. \A c \in ChunkSlots : Begin(c) < End(c) <=> Begin(c) < n
    BY <1>0, <1>1, <2>1, ChunkPlaces, ReduceConstants DEF ReduceTypeOK
  <2> QED
    BY Zenon, <1>0, <2>2 DEF Real, Chunks
<1>5. \A c \in ChunkSlots : task'[c] \in {"none", "ready"}
  BY Zenon, <1>0
<1> QED
  BY Zenon, <1>0, <1>2, <1>3, <1>4, <1>5, SiteStays, ReduceConstants DEF Inductive, AtStart, Unfolded, Tasks,
     Folding, Partials, Done, Kept, Quiet, Final, ReducesAll, FirstFaultReported

LEMMA ReturnInitialKeeps ==
  ASSUME Inductive, ReturnInitial
  PROVE  Inductive'
<1>0. /\ foldStage = "start" /\ n = 0 /\ foldStage' = "returned" /\ UNCHANGED siteVars
      /\ task' = task /\ acc' = acc /\ partial' = partial /\ lowest' = lowest
      /\ error' = error /\ folded' = folded /\ total' = total
  BY Zenon DEF ReturnInitial, chunkVars
<1>1. ReduceTypeOK'
  BY Zenon, <1>0 DEF Inductive, ReduceTypeOK, siteVars
<1>2. /\ task = [c \in ChunkSlots |-> "none"] /\ partial = [c \in ChunkSlots |-> None]
      /\ error = None /\ total = Run(0, 0)
  BY Zenon, <1>0 DEF Inductive, AtStart, Unfolded, Initial
<1>3. bad = {}
  BY <1>0 DEF Inductive, ReduceTypeOK
<1> QED
  BY <1>0, <1>1, <1>2, <1>3, SiteStays DEF Inductive, AtStart, Unfolded, Tasks, Folding,
     Partials, Done, Kept, Quiet, Final, ReducesAll, FirstFaultReported

(* What holds whenever a chunk's task takes a step. *)
LEMMA TaskRuns ==
  ASSUME Inductive, NEW c \in ChunkSlots, task[c] \in {"ready", "fold"}
  PROVE  /\ foldStage = "chunks" /\ n > 0 /\ ReduceTypeOK /\ Real(c) /\ partial[c] = None
         /\ n \in Nat /\ c \in Nat /\ c < MaxN /\ MaxN \in Nat
         /\ Begin(c) \in Nat /\ End(c) \in Nat /\ End(c) <= n /\ Begin(c) < End(c)
<1>1. foldStage = "chunks" /\ ReduceTypeOK /\ partial[c] = None
  BY Zenon DEF Inductive, Quiet, Partials
<1>2. n \in Nat /\ n <= MaxN /\ c \in Nat /\ MaxN \in Nat
  BY <1>1, ReduceConstants DEF ReduceTypeOK, ChunkSlots
<1>3. n > 0
  BY Zenon, <1>1 DEF Inductive, Tasks
<1>4. Real(c)
  BY Zenon, <1>1, <1>3 DEF Inductive, Tasks
<1>5. /\ ChunkCount \in Nat /\ ChunkCount <= n
      /\ Begin(c) \in Nat /\ End(c) \in Nat /\ End(c) <= n /\ Begin(c) < End(c)
  BY Zenon, <1>1, <1>2, <1>3, <1>4, ChunkFacts, ChunkPlaces DEF Real
<1> QED
  BY <1>1, <1>2, <1>3, <1>4, <1>5 DEF Real

LEMMA SkipKeeps ==
  ASSUME Inductive, NEW c \in ChunkSlots, Skip(c)
  PROVE  Inductive'
<1>0. /\ task[c] = "ready" /\ lowest < c /\ task' = [task EXCEPT ![c] = "done"]
      /\ UNCHANGED siteVars /\ foldStage' = foldStage /\ acc' = acc /\ partial' = partial
      /\ lowest' = lowest /\ error' = error /\ folded' = folded /\ total' = total
  BY Zenon DEF Skip
<1>1. /\ foldStage = "chunks" /\ ReduceTypeOK /\ c \in Nat /\ Real(c)
  BY Zenon, <1>0, TaskRuns
<1>2. ReduceTypeOK'
  BY Zenon, <1>0, <1>1 DEF ReduceTypeOK, siteVars
<1>3. lowest \in Nat
  BY <1>1, ReduceConstants DEF ReduceTypeOK
<1>4. Done'
  BY <1>0, <1>1, <1>3 DEF Inductive, Done, ReduceTypeOK
<1>5. Tasks'
  BY Zenon, <1>0, <1>1, SiteStays DEF Inductive, Tasks, ReduceTypeOK
<1>6. Folding' /\ Partials'
  BY ZenonT(40), <1>0, <1>1, SiteStays DEF Inductive, Folding, Partials, ReduceTypeOK, Clean
<1>7. Kept'
  BY Zenon, <1>0, <1>1, SiteStays DEF Inductive, Kept, Clean
<1> QED
  BY Zenon, <1>0, <1>1, <1>2, <1>4, <1>5, <1>6, <1>7 DEF Inductive, AtStart, Unfolded, Quiet, Final,
     ReducesAll, FirstFaultReported

LEMMA StartChunkKeeps ==
  ASSUME Inductive, NEW c \in ChunkSlots, StartChunk(c)
  PROVE  Inductive'
<1>0. /\ task[c] = "ready" /\ task' = [task EXCEPT ![c] = "fold"]
      /\ acc' = [acc EXCEPT ![c] = Run(Begin(c), Begin(c) + 1)]
      /\ UNCHANGED siteVars /\ foldStage' = foldStage /\ partial' = partial
      /\ lowest' = lowest /\ error' = error /\ folded' = folded /\ total' = total
  BY Zenon DEF StartChunk, Element
<1>1. /\ foldStage = "chunks" /\ ReduceTypeOK /\ Real(c) /\ n \in Nat /\ n <= MaxN /\ MaxN \in Nat
      /\ Begin(c) \in Nat /\ End(c) \in Nat /\ End(c) <= n /\ Begin(c) < End(c)
  BY <1>0, TaskRuns DEF ReduceTypeOK
<1>2. ReduceTypeOK'
  BY <1>0, <1>1 DEF ReduceTypeOK, siteVars, Run, Runs
<1>3. Done'
  BY Zenon, <1>0, <1>1 DEF Inductive, Done, ReduceTypeOK
<1>4. Tasks'
  BY Zenon, <1>0, <1>1, SiteStays DEF Inductive, Tasks, ReduceTypeOK
<1>5. Folding'
  BY <1>0, <1>1, SiteStays DEF Inductive, Folding, ReduceTypeOK, Clean, Run
<1>6. Partials'
  BY Zenon, <1>0, <1>1, SiteStays DEF Inductive, Partials, ReduceTypeOK, Clean
<1>7. Kept'
  BY Zenon, <1>0, <1>1, SiteStays DEF Inductive, Kept, Clean
<1> QED
  BY Zenon, <1>0, <1>1, <1>2, <1>3, <1>4, <1>5, <1>6, <1>7 DEF Inductive, AtStart, Unfolded, Quiet,
     Final, ReducesAll, FirstFaultReported

LEMMA FoldElementKeeps ==
  ASSUME Inductive, NEW c \in ChunkSlots, FoldElement(c)
  PROVE  Inductive'
<1> DEFINE h == acc[c].hi
<1>0. /\ task[c] = "fold" /\ h < End(c) /\ ~ Faults(acc[c], Run(h, h + 1))
      /\ acc' = [acc EXCEPT ![c] = Combine(acc[c], Run(h, h + 1))]
      /\ UNCHANGED siteVars /\ foldStage' = foldStage /\ task' = task /\ partial' = partial
      /\ lowest' = lowest /\ error' = error /\ folded' = folded /\ total' = total
  BY Zenon DEF FoldElement, Element
<1>1. /\ foldStage = "chunks" /\ ReduceTypeOK /\ n \in Nat /\ n <= MaxN /\ MaxN \in Nat
      /\ Begin(c) \in Nat /\ End(c) \in Nat /\ End(c) <= n
  BY <1>0, TaskRuns DEF ReduceTypeOK
<1>2. acc[c] \in Runs /\ h \in Nat /\ acc[c].lo = Begin(c) /\ Begin(c) < h
  BY <1>0, <1>1 DEF Inductive, Folding, ReduceTypeOK, Runs
<1>3. acc' = [acc EXCEPT ![c] = Run(Begin(c), h + 1)]
  BY Zenon, <1>0, <1>2 DEF Combine, Run
<1>4. Clean(Begin(c), h + 1)
  BY Zenon, <1>0, <1>2 DEF Faults, Clean, Run
<1>5. ReduceTypeOK'
  BY <1>0, <1>1, <1>2, <1>3 DEF ReduceTypeOK, siteVars, Run, Runs
<1>6. Folding'
  BY SMTT(30), <1>0, <1>1, <1>2, <1>3, <1>4, SiteStays DEF Inductive, Folding, ReduceTypeOK, Clean, Run
<1>7. Partials' /\ Tasks' /\ Done'
  BY Zenon, <1>0, <1>1, SiteStays DEF Inductive, Partials, Tasks, Done, Clean
<1>8. Kept'
  BY Zenon, <1>0, <1>1, SiteStays DEF Inductive, Kept, Clean
<1> QED
  BY Zenon, <1>0, <1>1, <1>5, <1>6, <1>7, <1>8 DEF Inductive, AtStart, Unfolded, Quiet,
     Final, ReducesAll, FirstFaultReported

LEMMA StorePartialKeeps ==
  ASSUME Inductive, NEW c \in ChunkSlots, StorePartial(c)
  PROVE  Inductive'
<1>0. /\ task[c] = "fold" /\ acc[c].hi = End(c) /\ task' = [task EXCEPT ![c] = "done"]
      /\ partial' = [partial EXCEPT ![c] = acc[c]]
      /\ UNCHANGED siteVars /\ foldStage' = foldStage /\ acc' = acc
      /\ lowest' = lowest /\ error' = error /\ folded' = folded /\ total' = total
  BY Zenon DEF StorePartial
<1>1. foldStage = "chunks" /\ ReduceTypeOK /\ Real(c)
  BY Zenon, <1>0, TaskRuns
<1>2. /\ acc[c] \in Runs /\ acc[c].lo = Begin(c)
      /\ End(c) = Begin(c) + 1 \/ Clean(Begin(c), End(c))
  BY Zenon, <1>0, <1>1 DEF Inductive, Folding, ReduceTypeOK
<1>3. acc[c] = Run(Begin(c), End(c)) /\ acc[c] # None
  BY Zenon, <1>0, <1>2, ReduceConstants DEF Run, Runs
<1>4. ReduceTypeOK'
  BY Zenon, <1>0, <1>1, <1>2 DEF ReduceTypeOK, siteVars
<1>5. Partials'
  BY Zenon, <1>0, <1>1, <1>2, <1>3, SiteStays DEF Inductive, Partials, ReduceTypeOK, Clean
<1>6. Folding'
  BY ZenonT(40), <1>0, <1>1, SiteStays DEF Inductive, Folding, ReduceTypeOK, Clean
<1>7. Tasks' /\ Done'
  BY Zenon, <1>0, <1>1, <1>3, SiteStays DEF Inductive, Tasks, Done, ReduceTypeOK
<1>8. Kept'
  BY Zenon, <1>0, <1>1, SiteStays DEF Inductive, Kept, Clean
<1> QED
  BY Zenon, <1>0, <1>1, <1>4, <1>5, <1>6, <1>7, <1>8 DEF Inductive, AtStart, Unfolded, Quiet,
     Final, ReducesAll, FirstFaultReported

LEMMA ElementFaultsKeeps ==
  ASSUME Inductive, NEW c \in ChunkSlots, ElementFaults(c)
  PROVE  Inductive'
<1> DEFINE h == acc[c].hi
<1>0. /\ task[c] = "fold" /\ h < End(c) /\ Faults(acc[c], Run(h, h + 1))
      /\ task' = [task EXCEPT ![c] = "done"]
      /\ IF c < lowest THEN lowest' = c /\ error' = Run(acc[c].lo, h + 1)
                       ELSE lowest' = lowest /\ error' = error
      /\ UNCHANGED siteVars /\ foldStage' = foldStage /\ acc' = acc /\ partial' = partial
      /\ folded' = folded /\ total' = total
  BY Zenon DEF ElementFaults, Element, Run
<1>1. /\ foldStage = "chunks" /\ ReduceTypeOK /\ Real(c) /\ n > 0 /\ n \in Nat /\ n <= MaxN
      /\ MaxN \in Nat /\ c \in Nat /\ c < MaxN
      /\ Begin(c) \in Nat /\ End(c) \in Nat /\ End(c) <= n
  BY <1>0, TaskRuns DEF ReduceTypeOK
<1>2. acc[c] \in Runs /\ h \in Nat /\ acc[c].lo = Begin(c) /\ Begin(c) < h
  BY SMTT(30), <1>0, <1>1 DEF Inductive, Folding, ReduceTypeOK, Runs
<1>3. Run(Begin(c), h + 1) \in Runs /\ Run(Begin(c), h + 1) # None
  BY <1>0, <1>1, <1>2, ReduceConstants DEF Run, Runs
<1>4. ~ Clean(Begin(c), h + 1)
  BY Zenon, <1>0, <1>2 DEF Faults, Clean, Run
<1>5. ChunkSize \in Nat /\ ChunkSize >= 2
  <2>1. ChunkSize \in Nat
    BY Zenon, <1>1, ChunkFacts
  <2>2. End(c) <= Begin(c) + ChunkSize
    BY <1>1, <2>1 DEF End, SmallerOf
  <2> QED
    BY <1>0, <1>1, <1>2, <2>1, <2>2
<1>6. lowest \in Nat /\ lowest <= MaxN /\ lowest' \in Nat /\ lowest' <= lowest /\ lowest' <= c
  BY <1>0, <1>1 DEF ReduceTypeOK
<1>7. ReduceTypeOK'
  BY <1>0, <1>1, <1>2, <1>3, <1>6 DEF ReduceTypeOK, siteVars
<1>8. Kept'
  <2>1. CASE c < lowest
    <3>1. /\ error' = Run(Begin(c), h + 1) /\ lowest' = c
      BY Zenon, <1>0, <1>2, <2>1
    <3>2. error'.lo = Begin(c) /\ error'.hi = h + 1
      BY Zenon, <3>1 DEF Run
    <3>3. Clean(error.lo, error.hi)' = Clean(Begin(c), h + 1)
      BY Zenon, <1>0, <3>2, SiteStays DEF Clean
    <3> QED
      BY Zenon, <1>0, <1>1, <1>3, <1>4, <1>5, <3>1, <3>2, <3>3, SiteStays DEF Kept
  <2>2. CASE ~ (c < lowest)
    <3>1. lowest' = lowest /\ error' = error
      BY Zenon, <1>0, <2>2
    <3>2. Clean(error.lo, error.hi)' = Clean(error.lo, error.hi)
      BY Zenon, <1>0, <3>1, SiteStays DEF Clean
    <3> QED
      BY Zenon, <1>0, <1>1, <3>1, <3>2, SiteStays DEF Inductive, Kept
  <2> QED
    BY Zenon, <2>1, <2>2
<1>9. Done'
  <2> SUFFICES ASSUME NEW d \in ChunkSlots, task'[d] = "done", partial[d] = None
               PROVE  lowest' <= d
    BY Zenon, <1>0 DEF Done
  <2>1. d \in Nat
    BY ReduceConstants DEF ChunkSlots
  <2>2. d = c \/ lowest <= d
    BY Zenon, <1>0, <1>1 DEF Inductive, Done, ReduceTypeOK
  <2> QED
    BY <1>1, <1>6, <2>1, <2>2
<1>10. Tasks'
  BY Zenon, <1>0, <1>1, SiteStays DEF Inductive, Tasks, ReduceTypeOK
<1>11. Folding' /\ Partials'
  BY ZenonT(40), <1>0, <1>1, SiteStays DEF Inductive, Folding, Partials, ReduceTypeOK, Clean
<1> QED
  BY Zenon, <1>0, <1>1, <1>7, <1>8, <1>9, <1>10, <1>11 DEF Inductive, AtStart, Unfolded, Quiet,
     Final, ReducesAll, FirstFaultReported

(* No bad element comes before the chunk whose fault was kept: its chunk   *)
(* would have faulted, and not been skipped.                               *)
LEMMA NoneBefore ==
  ASSUME Inductive, foldStage = "chunks", error # None, NEW j \in bad,
         \A c \in ChunkSlots : task[c] \in {"none", "done"}
  PROVE  error.lo <= j
<1>1. /\ ReduceTypeOK /\ n > 0 /\ Real(lowest) /\ error.lo = Begin(lowest) /\ ChunkSize >= 2
  BY Zenon DEF Inductive, Kept, Tasks
<1>2. n \in Nat /\ lowest \in Nat /\ j \in Nat /\ j \in 0 .. n - 1 /\ ChunkSize \in Nat
  BY <1>1, ChunkFacts, ReduceConstants DEF ReduceTypeOK
<1>3. PICK c \in ChunkSlots : Real(c) /\ Begin(c) <= j /\ j < End(c)
  BY Zenon, <1>1, <1>2, ChunkOf
<1>4. c \in Nat
  BY ReduceConstants DEF ChunkSlots
<1>5. Begin(c) \in Nat /\ Begin(lowest) \in Nat
  BY Zenon, <1>1, <1>2, <1>4, ChunkPlaces
<1>6. CASE lowest = c
  BY Zenon, <1>1, <1>3, <1>6
<1>7. CASE lowest < c
  BY <1>1, <1>2, <1>3, <1>4, <1>5, <1>7, ChunkOrder
<1>8. CASE c < lowest
  <2>1. partial[c] # None
    BY <1>1, <1>2, <1>3, <1>4, <1>8 DEF Inductive, Tasks, Done
  <2>2. End(c) = Begin(c) + 1
    BY Zenon, <1>3, <2>1 DEF Inductive, Partials, Clean
  <2>3. Begin(c) + ChunkSize <= Begin(lowest) /\ Begin(lowest) < n
    BY Zenon, <1>1, <1>2, <1>4, <1>8, ChunkOrder DEF Real
  <2>4. End(c) = Begin(c) + ChunkSize
    BY <1>2, <1>5, <2>3 DEF End, SmallerOf
  <2> QED
    BY <1>1, <1>2, <1>5, <2>2, <2>4
<1> QED
  BY <1>2, <1>4, <1>6, <1>7, <1>8

(* What a step that leaves the tasks alone need not prove again. *)
LEMMA TasksStay ==
  ASSUME Inductive, UNCHANGED <<siteVars, task, acc, partial, lowest>>,
         foldStage # "start", foldStage' # "start"
  PROVE  /\ Folding' /\ Partials' /\ Done'
         /\ n > 0 => \A c \in ChunkSlots : Real(c)' <=> task'[c] # "none"
<1>1. UNCHANGED siteVars /\ task' = task /\ acc' = acc /\ partial' = partial /\ lowest' = lowest
  BY Zenon
<1> QED
  BY Zenon, <1>1, SiteStays DEF Inductive, Folding, Partials, Done, Tasks, Clean

LEMMA JoinKeeps ==
  ASSUME Inductive, Join
  PROVE  Inductive'
<1>0. /\ foldStage = "chunks" /\ \A c \in ChunkSlots : task[c] \in {"none", "done"}
      /\ foldStage' = IF error # None THEN "returned" ELSE "final"
      /\ UNCHANGED siteVars /\ task' = task /\ acc' = acc /\ partial' = partial
      /\ lowest' = lowest /\ error' = error /\ folded' = folded /\ total' = total
  BY Zenon DEF Join, chunkVars
<1>1. ReduceTypeOK /\ n > 0 /\ n \in Nat /\ folded = 0 /\ total = Initial
  BY <1>0, ReduceConstants DEF Inductive, Tasks, Unfolded, ReduceTypeOK
<1>2. ReduceTypeOK'
  BY Zenon, <1>0, <1>1 DEF ReduceTypeOK, siteVars
<1>3. Folding' /\ Partials' /\ Done' /\ Tasks' /\ Quiet' /\ AtStart' /\ Unfolded'
  BY Zenon, <1>0, <1>1, TasksStay, SiteStays DEF Tasks, Quiet, AtStart, Unfolded
<1>4. CASE error # None
  <2>1. \A j \in bad : error.lo <= j
    BY Zenon, <1>0, <1>4, NoneBefore
  <2>2. ~ Clean(error.lo, error.hi)
    BY Zenon, <1>0, <1>4 DEF Inductive, Kept
  <2>3. FirstFaultReported' /\ ReducesAll'
    BY Zenon, <1>0, <1>4, <2>1, <2>2, SiteStays DEF FirstFaultReported, ReducesAll, Clean
  <2> QED
    BY Zenon, <1>0, <1>2, <1>3, <1>4, <2>3 DEF Inductive, Kept, Final
<1>5. CASE error = None
  <2>1. ChunkCount \in Nat /\ 0 <= ChunkCount /\ ChunkSize \in Nat
    BY <1>1, ChunkFacts
  <2>2. Begin(0) = 0
    BY <2>1 DEF Begin
  <2>3. total = Run(0, SmallerOf(n, Begin(0))) /\ total.hi = 0
    BY <1>1, <2>2 DEF Initial, SmallerOf, Run
  <2>4. Final'
    <3>1. Clean(0, 0)
      BY <1>1, ReduceConstants DEF Clean, ReduceTypeOK
    <3> QED
      BY <1>0, <1>1, <2>1, <2>3, <3>1, SiteStays DEF Final, Clean, SmallerOf
  <2>5. Kept' /\ ReducesAll' /\ FirstFaultReported'
    BY Zenon, <1>0, <1>5, SiteStays DEF Inductive, Kept, ReducesAll, FirstFaultReported
  <2> QED
    BY Zenon, <1>2, <1>3, <2>4, <2>5 DEF Inductive
<1> QED
  BY Zenon, <1>4, <1>5

(* In the final fold the next chunk either has no element or a partial.    *)
LEMMA NextChunk ==
  ASSUME Inductive, foldStage = "final", folded < ChunkCount
  PROVE  /\ ReduceTypeOK /\ n > 0 /\ n \in Nat /\ MaxN \in Nat /\ n <= MaxN /\ folded \in Nat
         /\ folded \in ChunkSlots /\ folded + 1 <= MaxN /\ folded + 1 <= ChunkCount
         /\ Begin(folded) \in Nat /\ End(folded) \in Nat /\ End(folded) <= n
         /\ Begin(folded + 1) = Begin(folded) + ChunkSize /\ ChunkSize \in Nat
         /\ End(folded) = SmallerOf(n, Begin(folded + 1))
         /\ error = None
         /\ partial[folded] # None =>
              /\ Begin(folded) < n
              /\ total = Run(0, Begin(folded))
              /\ partial[folded] = Run(Begin(folded), End(folded))
         /\ partial[folded] = None => n <= Begin(folded)
<1>1. ReduceTypeOK /\ n > 0 /\ error = None /\ lowest = MaxN
  BY ReduceConstants DEF Inductive, Final, Kept, ReduceTypeOK
<1>2. n \in Nat /\ MaxN \in Nat /\ n <= MaxN /\ folded \in Nat
  BY <1>1, ReduceConstants DEF ReduceTypeOK
<1>3. ChunkCount \in Nat /\ ChunkCount <= n /\ ChunkSize \in Nat
  BY Zenon, <1>1, ChunkFacts
<1>4. folded \in ChunkSlots /\ folded + 1 <= MaxN /\ folded + 1 <= ChunkCount
  BY <1>2, <1>3 DEF ChunkSlots
<1>5. /\ Begin(folded) \in Nat /\ End(folded) \in Nat /\ End(folded) <= n
      /\ Begin(folded + 1) = Begin(folded) + ChunkSize
      /\ End(folded) = SmallerOf(n, Begin(folded + 1))
  BY Zenon, <1>1, <1>2, ChunkPlaces
<1>6. ASSUME partial[folded] # None
      PROVE  /\ Begin(folded) < n
             /\ total = Run(0, Begin(folded))
             /\ partial[folded] = Run(Begin(folded), End(folded))
  <2>1. task[folded] = "done" /\ partial[folded] = Run(Begin(folded), End(folded))
    BY Zenon, <1>4, <1>6 DEF Inductive, Partials
  <2>2. Begin(folded) < n
    BY Zenon, <1>1, <1>4, <2>1 DEF Inductive, Tasks, Real
  <2> QED
    BY <1>2, <1>5, <2>1, <2>2 DEF Inductive, Final, SmallerOf
<1>7. ASSUME partial[folded] = None
      PROVE  n <= Begin(folded)
  <2>1. task[folded] # "done"
    BY <1>1, <1>2, <1>3, <1>4, <1>7 DEF Inductive, Done
  <2>2. task[folded] = "none"
    BY Zenon, <1>4, <2>1 DEF Inductive, Quiet
  <2>3. ~ (Begin(folded) < n)
    BY Zenon, <1>1, <1>4, <2>2 DEF Inductive, Tasks, Real
  <2> QED
    BY <1>2, <1>5, <2>3
<1> QED
  BY Zenon, <1>1, <1>2, <1>3, <1>4, <1>5, <1>6, <1>7

LEMMA PassEmptyKeeps ==
  ASSUME Inductive, PassEmpty
  PROVE  Inductive'
<1>0. /\ foldStage = "final" /\ folded < ChunkCount /\ partial[folded] = None
      /\ folded' = folded + 1 /\ foldStage' = foldStage
      /\ UNCHANGED siteVars /\ task' = task /\ acc' = acc /\ partial' = partial
      /\ lowest' = lowest /\ error' = error /\ total' = total
  BY Zenon DEF PassEmpty, chunkVars
<1>1. /\ ReduceTypeOK /\ n > 0 /\ n \in Nat /\ folded \in Nat /\ folded + 1 <= MaxN
      /\ MaxN \in Nat /\ folded + 1 <= ChunkCount /\ n <= Begin(folded)
      /\ Begin(folded) \in Nat /\ Begin(folded + 1) = Begin(folded) + ChunkSize
      /\ ChunkSize \in Nat
  BY Zenon, <1>0, NextChunk
<1>2. SmallerOf(n, Begin(folded)) = SmallerOf(n, Begin(folded + 1))
  BY <1>1 DEF SmallerOf
<1>3. Final'
  <2>1. /\ total = Run(0, SmallerOf(n, Begin(folded + 1))) /\ Clean(0, total.hi)
    BY Zenon, <1>0, <1>2 DEF Inductive, Final
  <2>2. SmallerOf(n, Begin(folded))' = SmallerOf(n, Begin(folded + 1))
    BY <1>0, SiteStays DEF SmallerOf
  <2> QED
    BY Zenon, <1>0, <1>1, <2>1, <2>2, SiteStays DEF Final, Clean
<1>4. ReduceTypeOK'
  BY <1>0, <1>1 DEF ReduceTypeOK, siteVars
<1>5. Folding' /\ Partials' /\ Done' /\ Tasks' /\ Quiet' /\ AtStart' /\ Unfolded'
  BY Zenon, <1>0, <1>1, TasksStay, SiteStays DEF Inductive, Tasks, Quiet, AtStart, Unfolded
<1>6. Kept' /\ ReducesAll' /\ FirstFaultReported'
  BY Zenon, <1>0, SiteStays DEF Inductive, Kept, ReducesAll, FirstFaultReported
<1> QED
  BY Zenon, <1>3, <1>4, <1>5, <1>6 DEF Inductive

LEMMA FoldPartialKeeps ==
  ASSUME Inductive, FoldPartial
  PROVE  Inductive'
<1>0. /\ foldStage = "final" /\ folded < ChunkCount /\ partial[folded] # None
      /\ ~ Faults(total, partial[folded])
      /\ total' = Combine(total, partial[folded])
      /\ folded' = folded + 1 /\ foldStage' = foldStage
      /\ UNCHANGED siteVars /\ task' = task /\ acc' = acc /\ partial' = partial
      /\ lowest' = lowest /\ error' = error
  BY Zenon DEF FoldPartial, chunkVars
<1>1. /\ ReduceTypeOK /\ n > 0 /\ n \in Nat /\ folded \in Nat /\ folded + 1 <= MaxN
      /\ MaxN \in Nat /\ n <= MaxN /\ folded + 1 <= ChunkCount
      /\ End(folded) \in Nat /\ End(folded) <= n
      /\ End(folded) = SmallerOf(n, Begin(folded + 1))
      /\ total = Run(0, Begin(folded)) /\ partial[folded] = Run(Begin(folded), End(folded))
  BY Zenon, <1>0, NextChunk
<1>2. total' = Run(0, End(folded)) /\ Clean(0, End(folded))
  BY <1>0, <1>1 DEF Combine, Run, Faults, Clean
<1>3. Final'
  <2>1. SmallerOf(n, Begin(folded))' = SmallerOf(n, Begin(folded + 1))
    BY <1>0, SiteStays DEF SmallerOf
  <2>2. total'.hi = End(folded)
    BY Zenon, <1>2 DEF Run
  <2> QED
    BY Zenon, <1>0, <1>1, <1>2, <2>1, <2>2, SiteStays DEF Final, Clean
<1>4. ReduceTypeOK'
  <2>1. total' \in Runs
    BY <1>1, <1>2 DEF Runs, Run
  <2> QED
    BY SMTT(30), <1>0, <1>1, <2>1 DEF ReduceTypeOK, siteVars
<1>5. Folding' /\ Partials' /\ Done' /\ Tasks' /\ Quiet' /\ AtStart' /\ Unfolded'
  BY Zenon, <1>0, <1>1, TasksStay, SiteStays DEF Inductive, Tasks, Quiet, AtStart, Unfolded
<1>6. Kept' /\ ReducesAll' /\ FirstFaultReported'
  BY ZenonT(40), <1>0, SiteStays DEF Inductive, Kept, ReducesAll, FirstFaultReported
<1> QED
  BY Zenon, <1>3, <1>4, <1>5, <1>6 DEF Inductive

LEMMA PartialFaultsKeeps ==
  ASSUME Inductive, PartialFaults
  PROVE  Inductive'
<1>0. /\ foldStage = "final" /\ folded < ChunkCount /\ partial[folded] # None
      /\ Faults(total, partial[folded])
      /\ error' = Run(total.lo, partial[folded].hi) /\ foldStage' = "returned"
      /\ UNCHANGED siteVars /\ task' = task /\ acc' = acc /\ partial' = partial
      /\ lowest' = lowest /\ folded' = folded /\ total' = total
  BY Zenon DEF PartialFaults
<1>1. /\ ReduceTypeOK /\ n > 0 /\ n \in Nat /\ MaxN \in Nat /\ n <= MaxN
      /\ End(folded) \in Nat /\ End(folded) <= n
      /\ total = Run(0, Begin(folded)) /\ partial[folded] = Run(Begin(folded), End(folded))
  BY Zenon, <1>0, NextChunk
<1>2. error' = Run(0, End(folded)) /\ error'.lo = 0 /\ error'.hi = End(folded)
  BY <1>0, <1>1 DEF Run
<1>3. error' \in Runs /\ error' # None
  BY <1>1, <1>2, ReduceConstants DEF Runs, Run
<1>4. FirstFaultReported' /\ ReducesAll'
  <2>1. PICK i \in bad : 0 <= i /\ i < End(folded)
    BY <1>0, <1>1 DEF Faults, Run
  <2>2. \A j \in bad : 0 <= j
    BY <1>1 DEF ReduceTypeOK
  <2> QED
    BY Zenon, <1>0, <1>2, <1>3, <2>1, <2>2, SiteStays DEF FirstFaultReported, ReducesAll
<1>5. ReduceTypeOK'
  BY Zenon, <1>0, <1>1, <1>3 DEF ReduceTypeOK, siteVars
<1>6. Folding' /\ Partials' /\ Done' /\ Tasks' /\ Quiet' /\ AtStart' /\ Unfolded'
  BY Zenon, <1>0, <1>1, TasksStay, SiteStays DEF Inductive, Tasks, Quiet, AtStart, Unfolded
<1> QED
  BY Zenon, <1>0, <1>4, <1>5, <1>6 DEF Inductive, Kept, Final

LEMMA ReturnKeeps ==
  ASSUME Inductive, Return
  PROVE  Inductive'
<1>0. /\ foldStage = "final" /\ folded = ChunkCount /\ foldStage' = "returned"
      /\ UNCHANGED siteVars /\ task' = task /\ acc' = acc /\ partial' = partial
      /\ lowest' = lowest /\ error' = error /\ folded' = folded /\ total' = total
  BY Zenon DEF Return, chunkVars
<1>1. ReduceTypeOK /\ n > 0 /\ n \in Nat /\ MaxN \in Nat /\ error = None
  BY <1>0, ReduceConstants DEF Inductive, Final, Kept, ReduceTypeOK
<1>2. n <= Begin(ChunkCount) /\ Begin(ChunkCount) \in Nat
  BY Zenon, <1>1, ChunkFacts, ChunkPlaces DEF Begin
<1>3. total = Run(0, n) /\ Clean(0, n)
  <2>1. total = Run(0, SmallerOf(n, Begin(ChunkCount))) /\ Clean(0, total.hi)
    BY Zenon, <1>0 DEF Inductive, Final
  <2>2. SmallerOf(n, Begin(ChunkCount)) = n
    BY <1>1, <1>2 DEF SmallerOf
  <2> QED
    BY Zenon, <2>1, <2>2 DEF Run
<1>4. bad = {}
  BY <1>1, <1>3 DEF Clean, ReduceTypeOK
<1>5. FirstFaultReported' /\ ReducesAll'
  BY Zenon, <1>0, <1>1, <1>3, <1>4, SiteStays DEF FirstFaultReported, ReducesAll, Run
<1>6. ReduceTypeOK'
  BY Zenon, <1>0, <1>1 DEF ReduceTypeOK, siteVars
<1>7. Folding' /\ Partials' /\ Done' /\ Tasks' /\ Quiet' /\ AtStart' /\ Unfolded'
  BY Zenon, <1>0, <1>1, TasksStay, SiteStays DEF Inductive, Tasks, Quiet, AtStart, Unfolded
<1> QED
  BY Zenon, <1>0, <1>5, <1>6, <1>7 DEF Inductive, Kept, Final

LEMMA StutterKeeps ==
  ASSUME Inductive, UNCHANGED reduceVars
  PROVE  Inductive'
<1>0. /\ UNCHANGED siteVars /\ foldStage' = foldStage /\ task' = task /\ acc' = acc
      /\ partial' = partial /\ lowest' = lowest /\ error' = error
      /\ folded' = folded /\ total' = total
  BY Zenon DEF reduceVars, chunkVars
<1>1. ReduceTypeOK' /\ AtStart' /\ Unfolded' /\ Quiet' /\ Done'
  BY Zenon, <1>0 DEF Inductive, ReduceTypeOK, AtStart, Unfolded, Quiet, Done, siteVars
<1>2. Tasks' /\ Folding' /\ Partials'
  BY Zenon, <1>0, SiteStays DEF Inductive, Tasks, Folding, Partials, Clean
<1>3. Kept' /\ ReducesAll' /\ FirstFaultReported'
  BY Zenon, <1>0, SiteStays DEF Inductive, Kept, ReducesAll, FirstFaultReported, Clean
<1>4. Final'
  BY <1>0, SiteStays DEF Inductive, Final, SmallerOf, Clean
<1> QED
  BY Zenon, <1>1, <1>2, <1>3, <1>4 DEF Inductive

LEMMA NextInductive == Inductive /\ [ReduceNext]_reduceVars => Inductive'
BY Zenon, ReturnInitialKeeps, EmplaceKeeps, JoinKeeps, PassEmptyKeeps, FoldPartialKeeps,
   PartialFaultsKeeps, ReturnKeeps, SkipKeeps, StartChunkKeeps, FoldElementKeeps,
   ElementFaultsKeeps, StorePartialKeeps, StutterKeeps
   DEF ReduceNext, Caller, Task

LEMMA AlwaysInductive == ReduceSpec => []Inductive
BY InitInductive, NextInductive, PTL DEF ReduceSpec

(* For any number of elements and workers and any interleaving of the      *)
(* chunks: without a fault, mark_unordered_reduce_arr folds the initial    *)
(* value and every element once, in the order of the array.                *)
THEOREM AllAreReduced == ReduceSpec => []ReducesAll
<1>1. Inductive => ReducesAll
  BY Zenon DEF Inductive
<1> QED
  BY <1>1, AlwaysInductive, PTL

(* For any number of elements and workers and any interleaving of the      *)
(* chunks: the operator reports the fault of a call that has the first bad *)
(* element among its operands, and passes over none.                       *)
THEOREM TheFirstFaultIsReported == ReduceSpec => []FirstFaultReported
<1>1. Inductive => FirstFaultReported
  BY Zenon DEF Inductive
<1> QED
  BY <1>1, AlwaysInductive, PTL

(* For any number of elements and workers mark_unordered_reduce_arr        *)
(* answers as a reduction in the order of the array would.                 *)
THEOREM ReduceIsLoop == ReduceSpec => []ReducesAsLoop
<1>1. ReducesAsLoop <=> ReducesAll /\ FirstFaultReported
  BY Zenon DEF ReducesAsLoop
<1> QED
  BY <1>1, AllAreReduced, TheFirstFaultIsReported, PTL

(* The values of the fold stay runs of elements that exist, and the        *)
(* counters within the array.                                              *)
THEOREM ReduceIsTyped == ReduceSpec => []ReduceTypeOK
<1>1. Inductive => ReduceTypeOK
  BY Zenon DEF Inductive
<1> QED
  BY <1>1, AlwaysInductive, PTL

-----------------------------------------------------------------------------
(* The frames of tail calls *)


Calling == {"target", "evict", "acquire", "fill"}

(* The frame in use is in the table; while a call is made it still holds   *)
(* what the arguments are read from.                                       *)
CurrentOK ==
  /\ stage \in Calling \union {"run"} => \E i \in 1 .. Len(table) : table[i] = curr
  /\ stage = "called" => curr \in Entries /\ curr.frame \in Frames /\ want = <<1, 2>>
  /\ stage = "run" => slots[curr.frame] = want
  /\ stage \in Calling => /\ call \in [target : Graphs, args : Params]
                          /\ slots[curr.frame] \in Params
                          /\ Passed(call.args, slots[curr.frame]) = want

(* What the search for an entry has established. *)
TargetOK ==
  /\ stage = "evict" => Len(table) = Slots
  /\ stage = "acquire" => Len(table) < Slots
  /\ stage \in {"evict", "acquire"} => call.target \notin Serial /\ ~InTable(call.target)
  /\ stage = "fill" => /\ entry.frame # curr.frame
                       /\ \E i \in 1 .. Len(table) : table[i] = entry

StageOK ==
  /\ stage \in {"returned", "called"} <=> table = <<>>
  /\ stage = "leave" => Len(table) = 1
  /\ stage \in {"unwind", "leave", "returned"} => result \in {want, Fault}

IInv == TypeOK /\ TableIsWhatIsHeld /\ CurrentOK /\ TargetOK /\ StageOK

-----------------------------------------------------------------------------

LEMMA PassedType ==
  ASSUME NEW args \in Params, NEW from \in Params
  PROVE  Passed(args, from) \in Params
BY Zenon DEF Passed, Params

(* The frame in use is one of those held. *)
LEMMA CurrentHeld ==
  ASSUME IInv, stage \in Calling \union {"run"}
  PROVE  curr \in Entries /\ curr.frame \in Held /\ curr.frame \in Frames /\ curr.frame \in mine
<1>1. PICK i \in 1 .. Len(table) : table[i] = curr
  BY Zenon DEF IInv, CurrentOK
<1>2. table[i] \in Entries
  BY DEF IInv, TypeOK
<1> QED
  BY Zenon, <1>1, <1>2 DEF IInv, TableIsWhatIsHeld, Held, Entries

(* A step that leaves the table and the pool alone. *)
LEMMA SameTable ==
  ASSUME IInv, UNCHANGED <<table, mine, stranded>>,
         (stage # "called" /\ stage' # "called") \/ UNCHANGED <<stage, curr>>
  PROVE  TableIsWhatIsHeld'
<1>1. Held' = Held /\ Called' = Called
  BY Zenon DEF Held, Called
<1> QED
  BY ZenonT(40), <1>1 DEF IInv, TableIsWhatIsHeld

(* But for the frame of a call that is not filled yet, what is taken is in *)
(* the table or stranded.                                                  *)
LEMMA TakenOrStranded ==
  ASSUME IInv, stage # "called"
  PROVE  mine = Held \union stranded /\ Held \intersect stranded = {}
<1>1. Called = {}
  BY Zenon DEF Called
<1> QED
  BY Zenon, <1>1 DEF IInv, TableIsWhatIsHeld

LEMMA TableHolds ==
  ASSUME stage' # "called", mine' = Held' \union stranded', Held' \intersect stranded' = {},
         \A i, j \in 1 .. Len(table') :
           i # j => table'[i].graph # table'[j].graph /\ table'[i].frame # table'[j].frame
  PROVE  TableIsWhatIsHeld'
<1>1. Called' = {}
  BY Zenon DEF Called
<1> QED
  BY Zenon, <1>1 DEF TableIsWhatIsHeld

LEMMA InitIInv == Init => IInv
<1> SUFFICES ASSUME Init PROVE IInv
  BY Zenon
<1>1. <<1, 2>> \in Params
  BY DEF Params
<1>2. TypeOK
  BY <1>1, TailFramesConstants DEF Init, TypeOK
<1>3. TableIsWhatIsHeld
  BY SMTT(30) DEF Init, TableIsWhatIsHeld, Held, Called
<1> QED
  BY Zenon, <1>2, <1>3 DEF Init, IInv, CurrentOK, TargetOK, StageOK, Calling

-----------------------------------------------------------------------------

LEMMA StepCallGraph == ASSUME IInv, NEW g \in Graphs, CallGraph(g) PROVE IInv'
<1>0. PICK f \in Available(g) : mine' = mine \union {f} /\ curr' = Entry(g, f)
  BY Zenon DEF CallGraph
<1>1. f \in Frames /\ f \notin mine /\ f \notin others /\ g \in Graphs \ Serial
  BY Zenon, <1>0 DEF Available, Frames
<1>2. curr' \in Entries /\ curr'.frame = f
  BY Zenon, <1>0, <1>1 DEF Entry, Entries
<1>3. <<1, 2>> \in Params
  BY DEF Params
<1>4. /\ stage = "returned" /\ stage' = "called" /\ want' = <<1, 2>>
      /\ UNCHANGED <<table, victim, slots, others, stranded>>
  BY Zenon DEF CallGraph
<1>5. TypeOK'
  BY Zenon, <1>0, <1>1, <1>3, <1>4 DEF IInv, TypeOK
<1>6. TableIsWhatIsHeld'
  <2>1. Held' = Held /\ Called = {} /\ Called' = {f}
    BY Zenon, <1>2, <1>4 DEF Held, Called
  <2>2. /\ \A i, j \in 1 .. Len(table') : i # j => table'[i].graph # table'[j].graph
        /\ \A i, j \in 1 .. Len(table') : i # j => table'[i].frame # table'[j].frame
    BY Zenon, <1>4 DEF IInv, TableIsWhatIsHeld
  <2>3. mine = Held \union stranded /\ Held \intersect stranded = {} /\ stranded' = stranded
    BY Zenon, <1>4, <2>1 DEF IInv, TableIsWhatIsHeld
  <2>4. /\ mine' = Held' \union Called' \union stranded'
        /\ (Held' \union Called') \intersect stranded' = {}
    BY Zenon, <1>0, <1>1, <2>1, <2>3
  <2> QED
    BY Zenon, <2>2, <2>4 DEF TableIsWhatIsHeld
<1> QED
  BY Zenon, <1>1, <1>2, <1>4, <1>5, <1>6 DEF IInv, CurrentOK, TargetOK, StageOK, Calling

LEMMA StepCallGraphThrows == ASSUME IInv, CallGraphThrows PROVE IInv'
<1>1. <<1, 2>> \in Params
  BY DEF Params
<1>2. TypeOK'
  BY Zenon, <1>1 DEF CallGraphThrows, IInv, TypeOK, poolVars
<1>3. TableIsWhatIsHeld'
  BY Zenon, SameTable DEF CallGraphThrows, poolVars
<1> QED
  BY Zenon, <1>2, <1>3 DEF CallGraphThrows, IInv, CurrentOK, TargetOK, StageOK, Calling

LEMMA StepFillCallee == ASSUME IInv, FillCallee PROVE IInv'
<1> DEFINE first == <<1, 2>>
<1>1. first \in Params /\ curr \in Entries /\ curr.frame \in Frames /\ want = first
  <2>1. first \in Params
    BY DEF Params
  <2> QED
    BY Zenon, <2>1 DEF FillCallee, IInv, CurrentOK
<1>2. /\ stage = "called" /\ stage' = "run" /\ table' = <<curr>> /\ slots' = [slots EXCEPT ![curr.frame] = first]
      /\ victim' = 0 /\ UNCHANGED <<curr, mine, others, stranded, result, want>>
  BY Zenon DEF FillCallee, poolVars
<1> HIDE DEF first
<1>3. table' \in Seq(Entries) /\ Len(table') = 1 /\ table'[1] = curr /\ 1 \in 1 .. Len(table') /\ table' # <<>>
  BY <1>1, <1>2
<1>4. slots' \in [Frames -> Params \union {Stale}] /\ slots'[curr.frame] = first
  BY Zenon, <1>1, <1>2 DEF IInv, TypeOK
<1>5. TypeOK'
  <2>1. Len(table') <= Slots /\ victim' \in 0 .. Slots - 1
    BY <1>2, <1>3, TailFramesConstants
  <2> QED
    BY Zenon, <1>1, <1>2, <1>3, <1>4, <2>1 DEF IInv, TypeOK
<1>6. TableIsWhatIsHeld'
  <2>1. table = <<>> /\ Len(table) = 0
    BY <1>2 DEF IInv, StageOK
  <2>2. Held = {} /\ Held' = {curr.frame} /\ Called = {curr.frame} /\ Called' = {}
    BY SMTT(30), <1>2, <1>3, <2>1 DEF Held, Called
  <2>3. \A i, j \in 1 .. Len(table') : i = j
    BY <1>3
  <2> QED
    BY Zenon, <1>2, <2>2, <2>3 DEF IInv, TableIsWhatIsHeld
<1>7. CurrentOK'
  BY Zenon, <1>1, <1>2, <1>3, <1>4 DEF CurrentOK, Calling
<1> QED
  BY Zenon, <1>2, <1>3, <1>5, <1>6, <1>7 DEF IInv, TargetOK, StageOK

LEMMA StepFillCalleeThrows == ASSUME IInv, FillCalleeThrows PROVE IInv'
<1>1. /\ stage = "called" /\ stage' = "returned" /\ stranded' = stranded \union {curr.frame}
      /\ result' = Fault /\ UNCHANGED <<table, victim, slots, mine, others, want>>
  BY Zenon DEF FillCalleeThrows
<1>2. Called = {curr.frame} /\ Called' = {} /\ Held' = Held
  BY Zenon, <1>1 DEF Called, Held
<1>3. Held = {}
  <2>1. table = <<>> /\ Len(table) = 0
    BY <1>1 DEF IInv, StageOK
  <2> QED
    BY SMTT(30), <2>1 DEF Held
<1>4. TypeOK'
  <2>1. stranded' \subseteq mine
    BY Zenon, <1>1, <1>2 DEF IInv, TypeOK, TableIsWhatIsHeld
  <2> QED
    BY Zenon, <1>1, <2>1 DEF IInv, TypeOK
<1>5. TableIsWhatIsHeld'
  BY ZenonT(40), <1>1, <1>2, <1>3 DEF IInv, TableIsWhatIsHeld
<1> QED
  BY Zenon, <1>1, <1>4, <1>5 DEF IInv, CurrentOK, TargetOK, StageOK, Calling

LEMMA StepTailCall ==
  ASSUME IInv, NEW g \in Graphs, NEW args \in Passing, TailCall(g, args) PROVE IInv'
<1>0. args \in Params
  BY Zenon, TailFramesConstants DEF Params
<1>1. want \in Params /\ slots[curr.frame] = want
  BY Zenon DEF TailCall, IInv, TypeOK, CurrentOK
<1>2. TypeOK'
  BY Zenon, <1>0, <1>1, PassedType DEF TailCall, IInv, TypeOK, poolVars
<1>3. TableIsWhatIsHeld'
  BY Zenon, SameTable DEF TailCall, poolVars
<1>4. CurrentOK'
  BY Zenon, <1>0, <1>1 DEF TailCall, IInv, CurrentOK, Calling
<1> QED
  BY Zenon, <1>2, <1>3, <1>4 DEF TailCall, IInv, TargetOK, StageOK

LEMMA StepSelfCall == ASSUME IInv, SelfCall PROVE IInv'
<1>1. curr.frame \in Frames /\ slots \in [Frames -> Params \union {Stale}] /\ want \in Params
  BY Zenon, CurrentHeld DEF SelfCall, Calling, IInv, TypeOK
<1>2. slots' = [slots EXCEPT ![curr.frame] = want]
  BY ZenonT(40) DEF SelfCall, Refill, IInv, CurrentOK, Calling
<1>3. TypeOK'
  BY Zenon, <1>1, <1>2 DEF SelfCall, IInv, TypeOK, poolVars
<1>4. TableIsWhatIsHeld'
  BY Zenon, SameTable DEF SelfCall, poolVars
<1>5. CurrentOK'
  BY Zenon, <1>1, <1>2 DEF SelfCall, IInv, CurrentOK, Calling
<1> QED
  BY Zenon, <1>3, <1>4, <1>5 DEF SelfCall, IInv, TargetOK, StageOK

LEMMA StepFound == ASSUME IInv, Found PROVE IInv'
<1>1. TypeOK'
  BY Zenon DEF Found, IInv, TypeOK, poolVars
<1>2. TableIsWhatIsHeld'
  BY Zenon, SameTable DEF Found, poolVars
<1>3. entry'.frame # curr.frame /\ \E i \in 1 .. Len(table) : table[i] = entry'
  <2>1. PICK i \in 1 .. Len(table) : table[i].graph = call.target /\ entry' = table[i]
    BY Zenon DEF Found
  <2>2. PICK j \in 1 .. Len(table) : table[j] = curr
    BY Zenon DEF Found, IInv, CurrentOK, Calling
  <2>3. i # j
    BY Zenon, <2>1, <2>2 DEF Found
  <2> QED
    BY Zenon, <2>1, <2>2, <2>3 DEF IInv, TableIsWhatIsHeld
<1> QED
  BY Zenon, <1>1, <1>2, <1>3 DEF Found, IInv, CurrentOK, TargetOK, StageOK, Calling

LEMMA StepHandOff == ASSUME IInv, HandOff PROVE IInv'
<1>1. TypeOK'
  BY Zenon DEF HandOff, IInv, TypeOK, poolVars
<1>2. TableIsWhatIsHeld'
  BY Zenon, SameTable DEF HandOff, poolVars
<1> QED
  BY Zenon, <1>1, <1>2 DEF HandOff, IInv, CurrentOK, TargetOK, StageOK, Calling

LEMMA StepTakeEntry == ASSUME IInv, TakeEntry PROVE IInv'
<1>1. TypeOK'
  BY Zenon DEF TakeEntry, IInv, TypeOK, poolVars
<1>2. TableIsWhatIsHeld'
  BY Zenon, SameTable DEF TakeEntry, poolVars
<1>3. Len(table) \in Nat /\ Slots \in Nat /\ Len(table) <= Slots
  BY TailFramesConstants DEF IInv, TypeOK
<1> QED
  BY <1>1, <1>2, <1>3
  DEF TakeEntry, HasRoom, IInv, CurrentOK, TargetOK, StageOK, Calling, InTable

-----------------------------------------------------------------------------
(* The entry looked at next is none but the first. *)
LEMMA NextVictimType ==
  ASSUME victim \in 0 .. Slots - 1 PROVE NextVictim \in 1 .. Slots - 1
<1>1. \A a \in Nat, d \in Nat \ {0} : a % d \in Nat /\ a % d < d
  OBVIOUS
<1> DEFINE d == Slots - 1
<1>2. d \in Nat \ {0} /\ victim \in Nat
  BY TailFramesConstants
<1> HIDE DEF d
<1>3. victim % d \in Nat /\ victim % d < d
  BY Zenon, <1>1, <1>2
<1>4. (victim % d) + 1 \in 1 .. d
  BY <1>2, <1>3
<1> QED
  BY Zenon, <1>4 DEF NextVictim, d

(* A full table without an entry: the last one has taken its place. *)
LEMMA WithoutEntry ==
  ASSUME table \in Seq(Entries), Len(table) = Slots, NEW v \in 1 .. Slots - 1
  PROVE  /\ Without(v) \in Seq(Entries) /\ Len(Without(v)) = Slots - 1
         /\ \A i \in 1 .. Slots - 1 :
              Without(v)[i] = IF i = v + 1 THEN table[Slots] ELSE table[i]
<1> DEFINE moved == [table EXCEPT ![v + 1] = table[Slots]]
<1>1. Slots \in Nat /\ v \in Nat /\ v + 1 \in 1 .. Slots /\ table[Slots] \in Entries
  BY TailFramesConstants
<1>2. moved \in Seq(Entries) /\ Len(moved) = Slots
  BY <1>1
<1>3. \A i \in 1 .. Slots : moved[i] = IF i = v + 1 THEN table[Slots] ELSE table[i]
  BY <1>1
<1> HIDE DEF moved
<1>4. SubSeq(moved, 1, Slots - 1) \in Seq(Entries)
  BY <1>1, <1>2, TailFramesConstants
<1>5. /\ Len(SubSeq(moved, 1, Slots - 1)) = Slots - 1
      /\ \A i \in 1 .. Slots - 1 : SubSeq(moved, 1, Slots - 1)[i] = moved[i]
  BY SMTT(30), <1>1, <1>2, TailFramesConstants
<1> QED
  BY <1>1, <1>3, <1>4, <1>5 DEF Without, moved

LEMMA StepTryAgain == ASSUME IInv, TryAgain PROVE IInv'
<1>1. NextVictim \in 0 .. Slots - 1
  BY SMTT(30), NextVictimType, TailFramesConstants DEF IInv, TypeOK
<1>2. TypeOK'
  BY Zenon, <1>1 DEF TryAgain, IInv, TypeOK, poolVars
<1>3. TableIsWhatIsHeld'
  BY Zenon, SameTable DEF TryAgain, poolVars
<1> QED
  BY Zenon, <1>2, <1>3 DEF TryAgain, IInv, CurrentOK, TargetOK, StageOK, Calling, InTable

LEMMA StepEvict == ASSUME IInv, Evict PROVE IInv'
<1> DEFINE v == NextVictim
           gone == table[v + 1]
<1>0. /\ v \in 1 .. Slots - 1 /\ Slots \in Nat /\ Slots > 2 /\ Len(table) = Slots
      /\ table \in Seq(Entries) /\ gone.frame # curr.frame
  BY Zenon, NextVictimType, TailFramesConstants DEF Evict, IInv, TypeOK, TargetOK
<1>1. /\ table' \in Seq(Entries) /\ Len(table') = Slots - 1
      /\ \A i \in 1 .. Slots - 1 : table'[i] = IF i = v + 1 THEN table[Slots] ELSE table[i]
  BY Zenon, <1>0, WithoutEntry DEF Evict
<1>2. mine' = mine \ {gone.frame} /\ UNCHANGED <<curr, call, entry, slots, others, stranded, result, want>>
  BY Zenon DEF Evict
<1>3. stage = "evict" /\ stage' = "acquire" /\ victim' = v
  BY Zenon DEF Evict
<1> HIDE DEF v
(* Every entry but the one given back is still there. *)
<1>4. \A j \in 1 .. Slots : j # v + 1 => \E i \in 1 .. Slots - 1 : table'[i] = table[j]
  <2> TAKE j \in 1 .. Slots
  <2> HAVE j # v + 1
  <2>1. CASE j = Slots
    <3>1. v + 1 \in 1 .. Slots - 1
      BY <1>0, <2>1
    <3> QED
      BY Zenon, <1>0, <1>1, <2>1, <3>1
  <2>2. CASE j # Slots
    <3>1. j \in 1 .. Slots - 1
      BY <1>0, <2>2
    <3> QED
      BY Zenon, <1>1, <3>1
  <2> QED
    BY Zenon, <2>1, <2>2
(* And nothing else is. *)
<1>5. \A i \in 1 .. Slots - 1 : \E j \in 1 .. Slots : j # v + 1 /\ table'[i] = table[j]
                                     /\ j = IF i = v + 1 THEN Slots ELSE i
  <2> TAKE i \in 1 .. Slots - 1
  <2>1. Slots \in 1 .. Slots /\ i \in 1 .. Slots /\ i # Slots
    BY <1>0
  <2> QED
    BY Zenon, <1>0, <1>1, <2>1
<1>6. TableIsWhatIsHeld' /\ TypeOK'
  <2>1. /\ \A i, j \in 1 .. Slots : i # j => table[i].graph # table[j].graph
        /\ \A i, j \in 1 .. Slots : i # j => table[i].frame # table[j].frame
        /\ Held = {table[i].frame : i \in 1 .. Slots}
    BY Zenon, <1>0 DEF IInv, TableIsWhatIsHeld, Held
  <2>2. v + 1 \in 1 .. Slots
    BY <1>0
  <2>3. Held' = Held \ {gone.frame} /\ gone.frame \in Held
    <3>1. Held' = {table'[i].frame : i \in 1 .. Slots - 1}
      BY Zenon, <1>1 DEF Held
    <3>2. ASSUME NEW f \in Held \ {gone.frame} PROVE f \in {table'[i].frame : i \in 1 .. Slots - 1}
      <4>1. PICK j \in 1 .. Slots : f = table[j].frame
        BY Zenon, <2>1, <3>2
      <4>2. j # v + 1
        BY Zenon, <3>2, <4>1
      <4>3. PICK i \in 1 .. Slots - 1 : table'[i] = table[j]
        BY Zenon, <1>4, <4>2
      <4> QED
        BY Zenon, <4>1, <4>3
    <3>3. ASSUME NEW i \in 1 .. Slots - 1 PROVE table'[i].frame \in Held \ {gone.frame}
      <4>1. PICK j \in 1 .. Slots : j # v + 1 /\ table'[i] = table[j]
        BY Zenon, <1>5
      <4> QED
        BY Zenon, <2>1, <2>2, <4>1
    <3> QED
      BY Zenon, <2>1, <2>2, <3>1, <3>2, <3>3
  <2>4. ASSUME NEW i \in 1 .. Slots - 1, NEW k \in 1 .. Slots - 1, i # k
        PROVE  table'[i].graph # table'[k].graph /\ table'[i].frame # table'[k].frame
    <3>1. PICK j \in 1 .. Slots : table'[i] = table[j] /\ j = IF i = v + 1 THEN Slots ELSE i
      BY Zenon, <1>5
    <3>2. PICK l \in 1 .. Slots : table'[k] = table[l] /\ l = IF k = v + 1 THEN Slots ELSE k
      BY <1>5
    <3>3. j # l
      <4>1. Slots \notin 1 .. Slots - 1
        BY <1>0
      <4> QED
        BY Zenon, <2>4, <3>1, <3>2, <4>1
    <3> QED
      BY Zenon, <2>1, <3>1, <3>2, <3>3
  <2>5. mine = Held \union stranded /\ Held \intersect stranded = {}
    BY Zenon, <1>3, TakenOrStranded
  <2>6. mine' = Held' \union stranded' /\ Held' \intersect stranded' = {} /\ stranded' \subseteq mine'
    BY Zenon, <1>2, <2>3, <2>5
  <2>7. TableIsWhatIsHeld'
    BY Zenon, <1>1, <1>3, <2>4, <2>6, TableHolds
  <2>8. TypeOK'
    <3>1. Len(table') <= Slots /\ v \in 0 .. Slots - 1
      BY <1>0, <1>1
    <3>2. mine' \subseteq Frames /\ others' \subseteq Frames \ mine'
      BY Zenon, <1>2 DEF IInv, TypeOK
    <3> QED
      BY Zenon, <1>1, <1>2, <1>3, <2>6, <3>1, <3>2 DEF IInv, TypeOK
  <2> QED
    BY Zenon, <2>7, <2>8
<1>7. CurrentOK'
  <2>1. PICK j \in 1 .. Slots : table[j] = curr
    BY ZenonT(40), <1>0 DEF Evict, IInv, CurrentOK, Calling
  <2>2. \E i \in 1 .. Len(table') : table'[i] = curr'
    BY ZenonT(40), <1>0, <1>1, <1>2, <1>4, <2>1
  <2> QED
    BY Zenon, <1>2, <2>2 DEF Evict, IInv, CurrentOK, Calling
<1>8. TargetOK'
  <2>1. \A j \in 1 .. Slots : table[j].graph # call.target
    BY Zenon, <1>0 DEF Evict, IInv, TargetOK, InTable
  <2>2. ~InTable(call.target)'
    BY Zenon, <1>1, <1>2, <1>5, <2>1 DEF InTable
  <2>3. Len(table') < Slots
    BY <1>0, <1>1, <1>2
  <2>4. stage' = "acquire" /\ call.target \notin Serial /\ call' = call
    BY Zenon DEF Evict, IInv, TargetOK
  <2> QED
    BY ONLY Zenon, <2>2, <2>3, <2>4 DEF TargetOK
<1>9. StageOK'
  BY <1>0, <1>1 DEF Evict, StageOK
<1> QED
  BY Zenon, <1>6, <1>7, <1>8, <1>9 DEF IInv

LEMMA StepAcquire == ASSUME IInv, Acquire PROVE IInv'
<1>0. PICK f \in Available(call.target) :
        /\ mine' = mine \union {f} /\ entry' = Entry(call.target, f)
        /\ table' = Append(table, entry')
  BY Zenon DEF Acquire
<1>1. /\ f \in Frames /\ f \notin mine /\ f \notin others
      /\ call.target \in Graphs \ Serial /\ ~InTable(call.target)
  BY Zenon, <1>0 DEF Acquire, Available, IInv, CurrentOK, TargetOK, Calling
<1>2. entry' \in Entries /\ entry'.frame = f /\ entry'.graph = call.target
  BY Zenon, <1>0, <1>1 DEF Entry, Entries
<1>3. /\ table \in Seq(Entries) /\ Len(table) \in Nat /\ Len(table) < Slots /\ Slots \in Nat
      /\ table' \in Seq(Entries) /\ Len(table') = Len(table) + 1
      /\ \A i \in 1 .. Len(table) : table'[i] = table[i]
      /\ table'[Len(table) + 1] = entry'
  BY SMTT(30), <1>0, <1>2, TailFramesConstants DEF Acquire, IInv, TypeOK, TargetOK
<1>4. TypeOK'
  BY <1>0, <1>1, <1>3 DEF Acquire, IInv, TypeOK
<1>5. TableIsWhatIsHeld'
  <2>1. \A i \in 1 .. Len(table) : table[i].frame # f /\ table[i].graph # call.target
    BY Zenon, <1>1 DEF IInv, TableIsWhatIsHeld, Held, InTable
  <2>2. mine' = Held' \union stranded' /\ Held' \intersect stranded' = {}
    <3>1. Held' = Held \union {f}
      <4>1. /\ \A i \in 1 .. Len(table') : i \in 1 .. Len(table) \/ i = Len(table) + 1
            /\ \A i \in 1 .. Len(table) : i \in 1 .. Len(table')
            /\ Len(table) + 1 \in 1 .. Len(table')
        BY <1>3
      <4>2. ASSUME NEW i \in 1 .. Len(table') PROVE table'[i].frame \in Held \union {f}
        BY Zenon, <1>2, <1>3, <4>1 DEF Held
      <4>3. ASSUME NEW i \in 1 .. Len(table) PROVE table[i].frame \in Held'
        BY Zenon, <1>3, <4>1 DEF Held
      <4>4. f \in Held'
        BY Zenon, <1>2, <1>3, <4>1 DEF Held
      <4> QED
        BY Zenon, <4>2, <4>3, <4>4 DEF Held
    <3>2. stage # "called" /\ stranded' = stranded /\ stranded \subseteq mine
      BY Zenon DEF Acquire, IInv, TypeOK
    <3> QED
      BY Zenon, <1>0, <1>1, <3>1, <3>2, TakenOrStranded
  <2>3. ASSUME NEW i \in 1 .. Len(table'), NEW j \in 1 .. Len(table'), i # j
        PROVE  table'[i].graph # table'[j].graph /\ table'[i].frame # table'[j].frame
    <3>1. /\ i \in 1 .. Len(table) \/ i = Len(table) + 1
          /\ j \in 1 .. Len(table) \/ j = Len(table) + 1
      BY <1>3
    <3> QED
      BY ZenonT(40), <1>2, <1>3, <2>1, <2>3, <3>1 DEF IInv, TableIsWhatIsHeld
  <2>4. stage' # "called"
    BY Zenon DEF Acquire
  <2> QED
    BY Zenon, <2>2, <2>3, <2>4, TableHolds
<1>6. entry'.frame # curr.frame
  BY Zenon, <1>1, <1>2, CurrentHeld DEF Acquire, Calling
<1>7. CurrentOK'
  <2>1. \E i \in 1 .. Len(table') : table'[i] = curr'
    BY SMTT(30), <1>3 DEF Acquire, IInv, CurrentOK, Calling
  <2> QED
    BY Zenon, <2>1 DEF Acquire, IInv, CurrentOK, Calling
<1>8. TargetOK'
  <2>1. stage' = "fill" /\ curr' = curr
    BY Zenon DEF Acquire
  <2>2. \E i \in 1 .. Len(table') : table'[i] = entry'
    BY <1>3
  <2> QED
    BY ONLY Zenon, <1>6, <2>1, <2>2 DEF TargetOK
<1> QED
  BY <1>3, <1>4, <1>5, <1>7, <1>8 DEF Acquire, IInv, StageOK

LEMMA StepTailCallThrows == ASSUME IInv, TailCallThrows PROVE IInv'
<1>1. TypeOK'
  BY Zenon DEF TailCallThrows, IInv, TypeOK, poolVars
<1>2. TableIsWhatIsHeld'
  BY Zenon, SameTable DEF TailCallThrows, poolVars
<1> QED
  BY Zenon, <1>1, <1>2 DEF TailCallThrows, IInv, CurrentOK, TargetOK, StageOK, Calling

LEMMA StepFill == ASSUME IInv, Fill PROVE IInv'
<1>0. /\ curr.frame \in Frames /\ want \in Params /\ slots \in [Frames -> Params \union {Stale}]
      /\ Passed(call.args, slots[curr.frame]) = want /\ entry.frame # curr.frame
  BY ZenonT(40), CurrentHeld DEF Fill, Calling, IInv, TypeOK, CurrentOK, TargetOK
<1>1. PICK i \in 1 .. Len(table) : table[i] = entry
  BY ZenonT(40) DEF Fill, IInv, TargetOK
<1>2. entry.frame \in Frames
  <2>1. table[i] \in Entries
    BY DEF IInv, TypeOK
  <2> QED
    BY Zenon, <1>1, <2>1 DEF Entries
<1>3. slots' = [slots EXCEPT ![curr.frame] = Stale, ![entry.frame] = want]
  BY Zenon, <1>0 DEF Fill
<1>4. slots' \in [Frames -> Params \union {Stale}] /\ slots'[entry.frame] = want
  BY Zenon, <1>0, <1>2, <1>3
<1>5. TypeOK'
  BY Zenon, <1>4 DEF Fill, IInv, TypeOK, poolVars
<1>6. TableIsWhatIsHeld'
  BY Zenon, SameTable DEF Fill, poolVars
<1>7. CurrentOK'
  BY Zenon, <1>1, <1>4 DEF Fill, CurrentOK, Calling
<1> QED
  BY ZenonT(40), <1>5, <1>6, <1>7 DEF Fill, IInv, TargetOK, StageOK

LEMMA StepBodyEnds == ASSUME IInv, BodyEnds PROVE IInv'
<1>1. TypeOK'
  BY Zenon DEF BodyEnds, IInv, TypeOK, poolVars
<1>2. TableIsWhatIsHeld'
  BY Zenon, SameTable DEF BodyEnds, poolVars
<1> QED
  BY Zenon, <1>1, <1>2 DEF BodyEnds, ReadReturn, IInv, CurrentOK, TargetOK, StageOK, Calling

LEMMA StepUnwind == ASSUME IInv, Unwind PROVE IInv'
<1>1. /\ table \in Seq(Entries) /\ Len(table) \in Nat /\ Len(table) >= 1 /\ table[1] \in Entries
  BY DEF Unwind, IInv, TypeOK, StageOK
<1>2. table' \in Seq(Entries) /\ Len(table') = 1 /\ table'[1] = table[1]
  BY <1>1 DEF Unwind
<1>3. /\ mine' = mine \ {table[i].frame : i \in 2 .. Len(table)} /\ stage = "unwind" /\ stage' = "leave"
      /\ UNCHANGED <<victim, slots, others, stranded, result, want>>
  BY Zenon DEF Unwind
<1>4. mine' = {table[1].frame} \union stranded /\ table[1].frame \notin stranded
  <2>1. Held = {table[i].frame : i \in 1 .. Len(table)}
    BY Zenon DEF Held
  <2>2. \A i \in 2 .. Len(table) : i \in 1 .. Len(table) /\ table[i].frame # table[1].frame
    BY <1>1 DEF IInv, TableIsWhatIsHeld
  <2>3. \A i \in 1 .. Len(table) : i = 1 \/ i \in 2 .. Len(table)
    BY <1>1
  <2>4. 1 \in 1 .. Len(table)
    BY <1>1
  <2>5. mine = Held \union stranded /\ Held \intersect stranded = {}
    BY Zenon, <1>3, TakenOrStranded
  <2>6. \A f \in stranded : f \notin {table[i].frame : i \in 2 .. Len(table)}
    BY Zenon, <2>1, <2>2, <2>5
  <2> QED
    BY Zenon, <1>3, <2>1, <2>2, <2>3, <2>4, <2>5, <2>6
<1>5. TableIsWhatIsHeld'
  <2>1. Held' = {table[1].frame}
    BY SMTT(30), <1>2 DEF Held
  <2>2. \A i, j \in 1 .. Len(table') : i = j
    BY <1>2
  <2> QED
    BY Zenon, <1>3, <1>4, <2>1, <2>2, TableHolds
<1>6. TypeOK'
  <2>1. Len(table') <= Slots
    BY <1>2, TailFramesConstants
  <2>2. mine' \subseteq mine /\ stranded' \subseteq mine'
    BY Zenon, <1>3, <1>4
  <2> QED
    BY Zenon, <1>2, <1>3, <2>1, <2>2 DEF IInv, TypeOK
<1> QED
  BY SMTT(30), <1>2, <1>3, <1>5, <1>6 DEF IInv, CurrentOK, TargetOK, StageOK, Calling

LEMMA StepLeave == ASSUME IInv, Leave PROVE IInv'
<1>1. Held = {table[1].frame}
  <2>1. Len(table) = 1 /\ Held = {table[i].frame : i \in 1 .. Len(table)}
    BY Zenon DEF Leave, IInv, StageOK, Held
  <2>2. 1 .. 1 = {1}
    OBVIOUS
  <2> QED
    BY Zenon, <2>1, <2>2
<1>2. /\ mine' = mine \ {table[1].frame} /\ stranded' = stranded /\ table' = <<>> /\ stage' = "returned"
      /\ stage = "leave" /\ slots' = [f \in Frames |-> Stale] /\ victim' = 0
      /\ UNCHANGED <<others, result, want>>
  BY Zenon DEF Leave
<1>3. mine' = stranded'
  BY Zenon, <1>1, <1>2, TakenOrStranded
<1>4. Len(table') = 0 /\ table' \in Seq(Entries) /\ Len(table') <= Slots /\ victim' \in 0 .. Slots - 1
  BY <1>2, TailFramesConstants
<1>5. \A i : i \notin 1 .. Len(table')
  BY <1>4
<1>6. TableIsWhatIsHeld'
  <2>1. Held' = {}
    BY Zenon, <1>5 DEF Held
  <2> QED
    BY Zenon, <1>2, <1>3, <1>5, <2>1, TableHolds
<1>7. TypeOK'
  <2>1. mine' \subseteq mine
    BY Zenon, <1>2
  <2> QED
    BY Zenon, <1>2, <1>3, <1>4, <2>1 DEF IInv, TypeOK
<1> QED
  BY Zenon, <1>2, <1>6, <1>7 DEF IInv, CurrentOK, TargetOK, StageOK, Calling

LEMMA StepOtherTakes == ASSUME IInv, NEW f \in Frames, OtherTakes(f) PROVE IInv'
<1>1. slots' \in [Frames -> Params \union {Stale}] /\ others' \subseteq Frames \ mine
  BY Zenon DEF OtherTakes, IInv, TypeOK
<1>2. TypeOK'
  BY Zenon, <1>1 DEF OtherTakes, IInv, TypeOK
<1>3. TableIsWhatIsHeld'
  BY Zenon, SameTable DEF OtherTakes
<1>4. stage \in Calling \union {"run"} => slots'[curr.frame] = slots[curr.frame]
  BY Zenon, CurrentHeld DEF OtherTakes, IInv, TypeOK
<1> QED
  BY Zenon, <1>2, <1>3, <1>4 DEF OtherTakes, IInv, CurrentOK, TargetOK, StageOK, Calling, InTable

LEMMA StepOtherGives == ASSUME IInv, NEW f \in Frames, OtherGives(f) PROVE IInv'
<1>1. TypeOK'
  BY Zenon DEF OtherGives, IInv, TypeOK
<1>2. TableIsWhatIsHeld'
  BY Zenon, SameTable DEF OtherGives
<1> QED
  BY Zenon, <1>1, <1>2 DEF OtherGives, IInv, CurrentOK, TargetOK, StageOK, Calling, InTable

LEMMA StepIInv == IInv /\ [Next]_vars => IInv'
<1> SUFFICES ASSUME IInv, [Next]_vars PROVE IInv'
  BY Zenon
<1>1. CASE \E g \in Graphs : CallGraph(g) \/ \E args \in Passing : TailCall(g, args)
  BY Zenon, <1>1, StepCallGraph, StepTailCall
<1>2. CASE CallGraphThrows \/ FillCallee \/ FillCalleeThrows
  BY Zenon, <1>2, StepCallGraphThrows, StepFillCallee, StepFillCalleeThrows
<1>3. CASE SelfCall \/ Found \/ HandOff \/ TakeEntry \/ Search
  BY Zenon, <1>3, StepSelfCall, StepFound, StepHandOff, StepTakeEntry, StepTryAgain, StepEvict DEF Search
<1>4. CASE Acquire \/ TailCallThrows \/ Fill \/ BodyEnds \/ Unwind \/ Leave
  BY Zenon, <1>4, StepAcquire, StepTailCallThrows, StepFill, StepBodyEnds, StepUnwind, StepLeave
<1>5. CASE \E f \in Frames : OtherTakes(f) \/ OtherGives(f)
  BY Zenon, <1>5, StepOtherTakes, StepOtherGives
<1>6. CASE UNCHANGED vars
  <2>1. TypeOK'
    BY Zenon, <1>6 DEF vars, poolVars, IInv, TypeOK
  <2>2. TableIsWhatIsHeld'
    BY Zenon, <1>6, SameTable DEF vars, poolVars
  <2> QED
    BY Zenon, <1>6, <2>1, <2>2 DEF vars, poolVars, IInv, CurrentOK, TargetOK, StageOK, InTable
<1> QED
  BY Zenon, <1>1, <1>3, <1>4, <1>5, <1>6, <1>2 DEF Next, Activation

-----------------------------------------------------------------------------
(* The inductive invariant holds throughout: the frame in use is in the    *)
(* table and keeps the arguments until they are read.                      *)
THEOREM TailFramesInvariant == Spec => []IInv
<1> QED
  BY InitIInv, StepIInv, PTL DEF Spec

(* evalGraph's table never has more entries than places, and its victim is *)
(* one of them.                                                            *)
THEOREM TailFramesTyped == Spec => []TypeOK
<1>1. IInv => TypeOK
  BY Zenon DEF IInv
<1> QED
  BY <1>1, TailFramesInvariant, PTL

(* Every frame evalGraph takes is given back once, whatever throws, and so *)
(* is the one callGraph took for it; only a first fill that throws         *)
(* (taskflow.cpp, 1806) leaves its frame taken for good.                   *)
THEOREM TakenIsGivenBack == Spec => []TableIsWhatIsHeld
<1>1. IInv => TableIsWhatIsHeld
  BY Zenon DEF IInv
<1> QED
  BY <1>1, TailFramesInvariant, PTL

(* A body that evalGraph runs finds the arguments of its call. *)
THEOREM BodiesSeeArguments == Spec => []ParametersAsPassed
<1>1. IInv => ParametersAsPassed
  BY Zenon DEF IInv, CurrentOK, ParametersAsPassed
<1> QED
  BY <1>1, TailFramesInvariant, PTL

(* callGraph returns the value of the last call of the chain, or a fault.  *)
THEOREM ChainsReturnLast == Spec => []ReturnsLastCall
<1>1. IInv => ReturnsLastCall
  BY Zenon DEF IInv, StageOK, ReturnsLastCall
<1> QED
  BY <1>1, TailFramesInvariant, PTL

(* The first entry stays the first until it is given back. *)
LEMMA FirstStays ==
  ASSUME IInv, [Next]_vars, stage \notin {"returned", "called", "leave"} PROVE table'[1] = table[1]
<1>0. table \in Seq(Entries) /\ Len(table) \in Nat /\ Len(table) >= 1
  BY DEF IInv, TypeOK, StageOK
<1>1. CASE UNCHANGED table
  BY Zenon, <1>1
<1>2. CASE Evict
  <2>1. NextVictim \in 1 .. Slots - 1 /\ Len(table) = Slots /\ Slots > 2 /\ Slots \in Nat
    BY Zenon, <1>2, NextVictimType, TailFramesConstants DEF Evict, IInv, TypeOK, TargetOK
  <2>2. 1 \in 1 .. Slots - 1 /\ NextVictim + 1 # 1
    BY <2>1
  <2> QED
    BY ZenonT(40), <1>0, <1>2, <2>1, <2>2, WithoutEntry DEF Evict
<1>3. CASE Acquire
  BY <1>0, <1>3 DEF Acquire
<1>4. CASE Unwind
  BY <1>0, <1>4 DEF Unwind
<1> QED
  BY Zenon, <1>1, <1>2, <1>3, <1>4
  DEF Next, Activation, Search, vars, CallGraph, CallGraphThrows, FillCallee, FillCalleeThrows, TailCall, SelfCall, Found, HandOff, TakeEntry,
      TryAgain, TailCallThrows, Fill, BodyEnds, Leave, OtherTakes, OtherGives

(* The caller's frame and the frame the arguments are read from are never  *)
(* given back too early (evalGraph's comment on the frame to replace).     *)
THEOREM NeededFramesAreKept == Spec => NeededFramesStay
<1> DEFINE Stays ==
      /\ stage' \in {"called", "run", "target", "evict", "acquire", "fill"} => curr.frame' \in mine'
      /\ stage \notin {"returned", "called", "leave"} => table'[1] = table[1]
<1>1. IInv /\ [Next]_vars => [Stays]_vars
  <2> SUFFICES ASSUME IInv, [Next]_vars PROVE Stays
    BY Zenon
  <2>1. IInv'
    BY Zenon, StepIInv
  <2>2. stage' \in {"called", "run", "target", "evict", "acquire", "fill"} => curr.frame' \in mine'
    BY Zenon, <2>1 DEF IInv, CurrentOK, Calling, TableIsWhatIsHeld, Held, Called
  <2> QED
    BY Zenon, <2>2, FirstStays
<1> QED
  BY <1>1, TailFramesInvariant, PTL DEF Spec, NeededFramesStay

=============================================================================
