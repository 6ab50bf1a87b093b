--------------------------- MODULE UnorderedReduce ---------------------------
(***************************************************************************)
(* TaskflowExecSchedPass::mark_unordered_reduce_arr: the array is cut into *)
(* chunks, tasks of the executor fold one chunk each from its first        *)
(* element, and the calling thread folds their partial results from the    *)
(* initial value.  The function that is reduced is associative and         *)
(* commutative, as the operator asks of it; so the value of a fold of      *)
(* consecutive elements is the run of elements it covers, the initial      *)
(* value is the empty run before them, and a call faults when one of its   *)
(* operands covers a bad element, on whichever side.                       *)
(***************************************************************************)
EXTENDS Naturals

CONSTANTS MaxN,        \* bound: number of elements
          MaxWorkers,  \* bound: workers of the executor
          None         \* no value

(* A run of consecutive elements from lo up to and not with hi. *)
Run(lo, hi) == [lo |-> lo, hi |-> hi]
Runs == [lo : 0 .. MaxN, hi : 0 .. MaxN]

ASSUME ReduceConstants ==
  MaxN \in Nat /\ MaxWorkers \in Nat \ {0} /\ None \notin Runs

VARIABLES n,        \* number of elements
          workers,  \* executor_.num_workers()
          bad,      \* the elements that make a call fault
          foldStage,    \* where the calling thread is
          task,     \* per chunk: where its task is
          acc,      \* per chunk: the accumulator of fold
          partial,  \* per chunk: its entry of partials, None without hasPartial
          lowest,   \* ElementFaults::lowest, a chunk; MaxN for the maximum
          error,    \* ElementFaults::error: what the faulting call covered
          folded,   \* the chunks the final fold has looked at
          total    \* the final fold's accumulator, then the operator's value

siteVars == <<n, workers, bad>>
chunkVars == <<task, acc, partial, lowest, error>>
reduceVars == <<siteVars, foldStage, chunkVars, folded, total>>

(* Every value that is not the fold of a run. *)
Garbled == Run(MaxN, 0)

Element(i) == Run(i, i + 1)
Initial == Run(0, 0)

(* The function applied to two values. *)
Combine(a, b) == IF a.hi = b.lo THEN Run(a.lo, b.hi) ELSE Garbled

Faults(a, b) == \E i \in bad : a.lo <= i /\ i < b.hi

LargerOf(a, b)  == IF a < b THEN b ELSE a
SmallerOf(a, b) == IF a < b THEN a ELSE b

ChunkSlots == 0 .. MaxN

ChunkGoal ==
  IF n <= 1 THEN 1
  ELSE LargerOf(2, SmallerOf(LargerOf(2, workers), n \div 2))

ChunkCount == SmallerOf(n, ChunkGoal)

(* Mutant: the rest of the division is dropped. *)
ChunkSizeDown == n \div ChunkCount

(* Rounded up: the last chunks can be short or start past the end. *)
ChunkSize == (n + ChunkCount - 1) \div ChunkCount

Begin(c) == c * ChunkSize

End(c) == SmallerOf(n, Begin(c) + ChunkSize)

Chunks == {c \in ChunkSlots : c < ChunkCount}

ReduceTypeOK ==
  /\ n \in 0 .. MaxN /\ workers \in 1 .. MaxWorkers /\ bad \subseteq 0 .. n - 1
  /\ foldStage \in {"start", "chunks", "final", "returned"}
  /\ task \in [ChunkSlots -> {"none", "ready", "fold", "done"}]
  /\ acc \in [ChunkSlots -> Runs]
  /\ partial \in [ChunkSlots -> Runs \union {None}]
  /\ lowest \in 0 .. MaxN
  /\ error \in Runs \union {None}
  /\ folded \in 0 .. MaxN
  /\ total \in Runs

ReduceInit ==
  /\ n \in 0 .. MaxN /\ workers \in 1 .. MaxWorkers /\ bad \in SUBSET (0 .. n - 1)
  /\ foldStage = "start"
  /\ task = [c \in ChunkSlots |-> "none"]
  /\ acc = [c \in ChunkSlots |-> Initial]
  /\ partial = [c \in ChunkSlots |-> None]
  /\ lowest = MaxN /\ error = None
  /\ folded = 0 /\ total = Initial

-----------------------------------------------------------------------------
(* An empty array: the initial value is the result. *)
ReturnInitial ==
  /\ foldStage = "start" /\ n = 0
  /\ foldStage' = "returned"
  /\ UNCHANGED <<siteVars, chunkVars, folded, total>>

(* The tasks of the level; a chunk past the end has none. *)
Emplace ==
  /\ foldStage = "start" /\ n > 0
  /\ foldStage' = "chunks"
  /\ task' = [c \in ChunkSlots |-> IF c \in Chunks /\ Begin(c) < End(c) THEN "ready" ELSE "none"]
  /\ UNCHANGED <<siteVars, acc, partial, lowest, error, folded, total>>

(* ElementFaults::run: a chunk above the smallest fault does not begin. *)
Skip(c) ==
  /\ task[c] = "ready" /\ lowest < c
  /\ task' = [task EXCEPT ![c] = "done"]
  /\ UNCHANGED <<siteVars, foldStage, acc, partial, lowest, error, folded, total>>

StartChunk(c) ==
  /\ task[c] = "ready" /\ lowest >= c
  /\ task' = [task EXCEPT ![c] = "fold"]
  /\ acc' = [acc EXCEPT ![c] = Element(Begin(c))]
  /\ UNCHANGED <<siteVars, foldStage, partial, lowest, error, folded, total>>

(* One call of fold: the accumulator and the next element. *)
FoldElement(c) ==
  LET item == Element(acc[c].hi)
  IN  /\ task[c] = "fold" /\ acc[c].hi < End(c)
      /\ ~ Faults(acc[c], item)
      /\ acc' = [acc EXCEPT ![c] = Combine(@, item)]
      /\ UNCHANGED <<siteVars, foldStage, task, partial, lowest, error, folded, total>>

(* The call faults: the catch of ElementFaults::run, under its mutex. *)
ElementFaults(c) ==
  LET item == Element(acc[c].hi)
  IN  /\ task[c] = "fold" /\ acc[c].hi < End(c)
      /\ Faults(acc[c], item)
      /\ IF c < lowest
         THEN lowest' = c /\ error' = Run(acc[c].lo, item.hi)
         ELSE UNCHANGED <<lowest, error>>
      /\ task' = [task EXCEPT ![c] = "done"]
      /\ UNCHANGED <<siteVars, foldStage, acc, partial, folded, total>>

(* The partial is stored and marked. *)
StorePartial(c) ==
  /\ task[c] = "fold" /\ acc[c].hi = End(c)
  /\ partial' = [partial EXCEPT ![c] = acc[c]]
  /\ task' = [task EXCEPT ![c] = "done"]
  /\ UNCHANGED <<siteVars, foldStage, acc, lowest, error, folded, total>>

(* runOnExecutor has waited for the level; rethrow, or go on. *)
Join ==
  /\ foldStage = "chunks" /\ \A c \in ChunkSlots : task[c] \in {"none", "done"}
  /\ foldStage' = IF error # None THEN "returned" ELSE "final"
  /\ UNCHANGED <<siteVars, chunkVars, folded, total>>

(* A chunk without a partial is not among the filled ones. *)
PassEmpty ==
  /\ foldStage = "final" /\ folded < ChunkCount
  /\ partial[folded] = None
  /\ folded' = folded + 1
  /\ UNCHANGED <<siteVars, foldStage, chunkVars, total>>

FoldPartial ==
  /\ foldStage = "final" /\ folded < ChunkCount
  /\ partial[folded] # None
  /\ ~ Faults(total, partial[folded])
  /\ total' = Combine(total, partial[folded])
  /\ folded' = folded + 1
  /\ UNCHANGED <<siteVars, foldStage, chunkVars>>

(* The fault of a call of the final fold leaves the operator. *)
PartialFaults ==
  /\ foldStage = "final" /\ folded < ChunkCount
  /\ partial[folded] # None
  /\ Faults(total, partial[folded])
  /\ error' = Run(total.lo, partial[folded].hi)
  /\ foldStage' = "returned"
  /\ UNCHANGED <<siteVars, task, acc, partial, lowest, folded, total>>

Return ==
  /\ foldStage = "final" /\ folded = ChunkCount
  /\ foldStage' = "returned"
  /\ UNCHANGED <<siteVars, chunkVars, folded, total>>

Caller == ReturnInitial \/ Emplace \/ Join \/ PassEmpty \/ FoldPartial
            \/ PartialFaults \/ Return

Task(c) == Skip(c) \/ StartChunk(c) \/ FoldElement(c) \/ ElementFaults(c)
             \/ StorePartial(c)

ReduceNext == Caller \/ \E c \in ChunkSlots : Task(c)

ReduceSpec == ReduceInit /\ [][ReduceNext]_reduceVars

-----------------------------------------------------------------------------
(* Without a fault the operator's value is the fold of the initial value   *)
(* and every element, in order: the chunks leave none out, fold none twice *)
(* and are put together in the order of the array, so that associativity   *)
(* is all that the function has to have.                                   *)
ReducesAll ==
  foldStage = "returned" /\ error = None => total = Run(0, n)

(* The fault reported is that of a call with the smallest bad element      *)
(* among its operands (none comes before what they cover): the fault a     *)
(* reduction in order would meet, in spite of the chunks running at the    *)
(* same time.  A bad element is never passed over.                         *)
FirstFaultReported ==
  foldStage = "returned" =>
    IF error = None THEN bad = {}
    ELSE /\ \E i \in bad : error.lo <= i /\ i < error.hi
         /\ \A j \in bad : error.lo <= j

(* The operator answers as a reduction in the order of the array, for a    *)
(* function that is associative.                                           *)
ReducesAsLoop == ReducesAll /\ FirstFaultReported
=============================================================================
