------------------------- MODULE RunElementsProofs --------------------------
(***************************************************************************)
(* The element calls of an unordered operator report the right fault and   *)
(* run every element they have to exactly once, for any number of elements *)
(* and workers and any sizes of the chunks.                                *)
(***************************************************************************)
EXTENDS RunElements, TLAPS

Holding == {"check", "element", "body"}

(* The elements a thread has claimed and not yet dealt with. *)
Lo(t) == IF pc[t] = "check" THEN begin[t] ELSE at[t]
Hi(t) == IF pc[t] = "check" THEN begin[t] + g[t] ELSE end[t]
Holds(t, i) == pc[t] \in Holding /\ Lo(t) <= i /\ i < Hi(t)

(* No claim can hand out an element that may still start. *)
Finished == next >= n \/ lowest < next

(* Which threads are in drain at each stage. *)
StageOK ==
  /\ stage \in {"start", "alone", "probing"} => \A t \in Workers : pc[t] = "idle"
  /\ stage = "start" => pc[Caller] = "idle" /\ next = 0
  /\ stage = "alone" => pc[Caller] # "idle"
  /\ stage = "flow" => pc[Caller] = "done" /\ ~Alone
  /\ stage = "probing" => ~Alone
  /\ \A t \in Threads : pc[t] = "help" => stage = "probing" /\ next < n
  /\ stage \in {"alone", "probing"} /\ pc[Caller] = "done" => Finished
  /\ stage = "flow" => Finished \/ \E t \in Workers : pc[t] # "done"
  /\ stage = "returned" => /\ \A t \in Threads : pc[t] \in {"idle", "done"}
                           /\ outcome = lowest /\ (Finished \/ n = 0)

(* The chunks lie below the counter and do not overlap. *)
ChunksOK ==
  /\ \A t \in Threads : pc[t] \in Holding => Hi(t) <= next
  /\ \A t \in Threads : pc[t] \in {"element", "body"} => at[t] <= end[t]
  /\ \A t \in Threads : pc[t] = "body" => at[t] < end[t]
  /\ \A t, u \in Threads, i \in Elements : Holds(t, i) /\ Holds(u, i) => t = u

(* An element that is claimed and held by no thread is dealt with: it ran, *)
(* and its fault is known, or it lies above a known fault.                 *)
RanOK ==
  /\ \A i \in Elements : i >= next => ran[i] = 0
  /\ \A t \in Threads, i \in Elements :
        Holds(t, i) => ran[i] = IF pc[t] = "body" /\ i = at[t] THEN 1 ELSE 0
  /\ \A i \in Elements :
        i < next /\ (\A t \in Threads : ~Holds(t, i)) =>
          \/ ran[i] = 1 /\ (i \in faulty => lowest <= i)
          \/ ran[i] = 0 /\ lowest < i
  /\ lowest # NoFault => lowest \in faulty

IInv == TypeOK /\ StageOK /\ ChunksOK /\ RanOK /\ DependentInOrder

-----------------------------------------------------------------------------
(* The largest chunk has at least one element. *)
LEMMA MaxGrainType == ASSUME n \in Nat PROVE MaxGrain \in Nat \ {0}
<1>1. Cardinality(Workers) * Share \in Nat \ {0}
  BY ElementConstants
<1>2. n \div (Cardinality(Workers) * Share) \in Nat
  BY <1>1
<1> QED
  BY <1>2 DEF MaxGrain, LargerOf

(* The largest chunk and the elements depend on the call site alone. *)
LEMMA SameSite ==
  ASSUME UNCHANGED siteVars
  PROVE  MaxGrain' = MaxGrain /\ Elements' = Elements /\ NoFault' = NoFault
BY Zenon DEF siteVars, MaxGrain, Elements, NoFault

LEMMA InitIInv == Init => IInv
<1> SUFFICES ASSUME Init PROVE IInv
  BY Zenon
<1>0. n \in Nat /\ MaxGrain \in Nat \ {0}
  BY ElementConstants, MaxGrainType DEF Init
<1> USE <1>0, ElementConstants DEF Init
<1>1. independent \in BOOLEAN /\ light \in BOOLEAN
  BY Zenon
<1>2. TypeOK
  BY <1>1 DEF TypeOK, Elements, NoFault
<1>3. StageOK /\ ChunksOK /\ RanOK /\ DependentInOrder
  BY DEF StageOK, ChunksOK, RanOK, DependentInOrder, Holds, Holding, Threads, Elements, NoFault
<1> QED
  BY Zenon, <1>2, <1>3 DEF IInv

(* A step that leaves every element's claim and fate alone. *)
LEMMA SameClaims ==
  ASSUME IInv, UNCHANGED <<siteVars, next, lowest, ran>>,
         \A t \in Threads : pc'[t] \in Holding <=> pc[t] \in Holding,
         \A t \in Threads : pc[t] \in Holding => pc'[t] = pc[t],
         \A t \in Threads : pc[t] \in Holding => UNCHANGED <<g[t], begin[t], end[t], at[t]>>
  PROVE  ChunksOK' /\ RanOK' /\ DependentInOrder'
<1> USE DEF siteVars
<1>1. Elements' = Elements /\ NoFault' = NoFault
  BY Zenon DEF Elements, NoFault
<1>2. \A t \in Threads : pc[t] \in Holding => Lo(t)' = Lo(t) /\ Hi(t)' = Hi(t)
  BY Zenon DEF Lo, Hi
<1>3. \A t \in Threads, i \in Elements : Holds(t, i)' <=> Holds(t, i)
  BY Zenon, <1>2 DEF Holds
<1>4. ChunksOK'
  BY Zenon, <1>1, <1>2, <1>3 DEF IInv, ChunksOK, Holding
<1>5. RanOK'
  <2>1. \A t \in Threads, i \in Elements :
          Holds(t, i) => ran'[i] = IF pc'[t] = "body" /\ i = at'[t] THEN 1 ELSE 0
    BY DEF IInv, RanOK, Holds
  <2> QED
    BY <1>1, <1>3, <2>1 DEF IInv, RanOK
<1>6. DependentInOrder'
  BY Zenon, <1>1 DEF IInv, DependentInOrder
<1> QED
  BY Zenon, <1>4, <1>5, <1>6

LEMMA StepStartAlone == ASSUME IInv, StartAlone PROVE IInv'
<1> USE ElementConstants DEF StartAlone, Goto, siteVars, localVars
<1>1. TypeOK'
  BY Zenon, SameSite DEF IInv, TypeOK, Threads
<1>2. StageOK'
  BY Zenon DEF IInv, TypeOK, StageOK, Alone, Finished, Threads
<1>3. ChunksOK' /\ RanOK' /\ DependentInOrder'
  BY Zenon, SameClaims DEF IInv, TypeOK, StageOK, Holding, Threads
<1> QED
  BY Zenon, <1>1, <1>2, <1>3 DEF IInv

LEMMA StepReturn == ASSUME IInv, Return PROVE IInv'
<1> USE ElementConstants DEF Return, siteVars, localVars
<1>1. TypeOK'
  BY Zenon, SameSite DEF IInv, TypeOK
<1>2. StageOK'
  BY Zenon DEF IInv, TypeOK, StageOK, Alone, Finished, Threads
<1>3. ChunksOK' /\ RanOK' /\ DependentInOrder'
  BY Zenon, SameClaims
<1> QED
  BY Zenon, <1>1, <1>2, <1>3 DEF IInv

LEMMA StepLoadGrain == ASSUME IInv, NEW t \in Threads, LoadGrain(t) PROVE IInv'
<1> USE ElementConstants DEF LoadGrain, Goto, siteVars, localVars
<1>1. TypeOK'
  BY Zenon, SameSite DEF IInv, TypeOK
<1>2. StageOK'
  BY Zenon DEF IInv, TypeOK, StageOK, Alone, Finished, Threads
<1>3. ChunksOK' /\ RanOK' /\ DependentInOrder'
  BY Zenon, SameClaims DEF IInv, TypeOK, Holding
<1> QED
  BY Zenon, <1>1, <1>2, <1>3 DEF IInv

(* A step of thread t leaves the claims of the others alone. *)
Mine(t) ==
  /\ UNCHANGED <<siteVars, stage, outcome>>
  /\ \A u \in Threads \ {t} :
        UNCHANGED <<pc[u], g[u], begin[u], end[u], at[u]>>

(* Every counter is a number, and every chunk has a length. *)
LEMMA Numbers ==
  ASSUME IInv
  PROVE  /\ n \in Nat /\ MaxGrain \in Nat \ {0} /\ Elements \subseteq Nat
         /\ next \in Nat /\ lowest \in Nat /\ grain \in Nat
         /\ \A i \in Elements : i < n
         /\ \A t \in Threads : /\ g[t] \in Nat \ {0} /\ begin[t] \in Nat
                               /\ end[t] \in Nat /\ at[t] \in Nat
                               /\ Lo(t) \in Nat /\ Hi(t) \in Nat
<1>1. n \in Nat
  BY ElementConstants DEF IInv, TypeOK
<1>2. MaxGrain \in Nat \ {0}
  BY Zenon, <1>1, MaxGrainType
<1> QED
  BY <1>1, <1>2 DEF IInv, TypeOK, Elements, Lo, Hi

LEMMA OthersHold ==
  ASSUME NEW t \in Threads, Mine(t)
  PROVE  /\ Elements' = Elements /\ NoFault' = NoFault
         /\ \A u \in Threads \ {t} : Lo(u)' = Lo(u) /\ Hi(u)' = Hi(u)
         /\ \A u \in Threads \ {t}, i \in Elements : Holds(u, i)' <=> Holds(u, i)
BY Zenon DEF Mine, siteVars, Elements, NoFault, Lo, Hi, Holds

(* A claim takes the next elements, which nobody holds. *)
LEMMA StepClaim == ASSUME IInv, NEW t \in Threads, Claim(t) PROVE IInv'
<1> USE ElementConstants DEF Claim, Goto, siteVars, localVars
<1>0. MaxGrain' = MaxGrain /\ Elements' = Elements
  BY Zenon, SameSite
<1>1. TypeOK'
  BY <1>0, Numbers DEF IInv, TypeOK
<1>2. StageOK'
  BY Zenon DEF IInv, TypeOK, StageOK, Alone, Finished, Threads
<1>3. Mine(t)
  BY Zenon DEF Mine, IInv, TypeOK
<1>4. /\ pc[t] = "claim" /\ pc'[t] = "check" /\ begin'[t] = next /\ g'[t] = g[t]
      /\ next' = next + g[t] /\ g[t] \in Nat /\ g[t] > 0 /\ next \in Nat
      /\ ran' = ran /\ lowest' = lowest /\ n' = n /\ faulty' = faulty
      /\ independent' = independent
  BY Numbers DEF IInv, TypeOK
<1>5. /\ Hi(t)' = next' /\ Lo(t)' = next
      /\ \A i \in Elements : Holds(t, i)' <=> next <= i /\ i < next'
      /\ \A i \in Elements : ~Holds(t, i)
  BY Zenon, <1>4 DEF Hi, Lo, Holds, Holding
<1>6. \A u \in Threads, i \in Elements : Holds(u, i) => i < next
  BY Numbers DEF IInv, ChunksOK, Holds
<1> HIDE DEF Claim
<1>7. ChunksOK'
  <2>1. \A u \in Threads : pc'[u] \in Holding => Hi(u)' <= next'
    BY <1>3, <1>4, <1>5, OthersHold DEF IInv, TypeOK, ChunksOK, Mine, Hi, Holding
  <2>2. \A u, v \in Threads, i \in Elements : Holds(u, i)' /\ Holds(v, i)' => u = v
    BY <1>3, <1>5, <1>6, OthersHold, Numbers DEF IInv, ChunksOK
  <2>3. \A u \in Threads : /\ pc'[u] \in {"element", "body"} => at'[u] <= end'[u]
                           /\ pc'[u] = "body" => at'[u] < end'[u]
    BY Zenon, <1>3, <1>4 DEF IInv, ChunksOK, Mine
  <2> QED
    BY Zenon, <1>3, <2>1, <2>2, <2>3, OthersHold DEF ChunksOK
<1>8. RanOK'
  <2>1. \A i \in Elements : i >= next' => ran'[i] = 0
    BY SMTT(30), <1>4 DEF IInv, RanOK, Elements, TypeOK
  <2>2. \A u \in Threads, i \in Elements :
        Holds(u, i)' => ran'[i] = IF pc'[u] = "body" /\ i = at'[u] THEN 1 ELSE 0
    BY <1>3, <1>4, <1>5, OthersHold DEF IInv, RanOK, Mine
  <2>3. \A i \in Elements :
        i < next' /\ (\A u \in Threads : ~Holds(u, i)') => i < next /\ \A u \in Threads : ~Holds(u, i)
    BY <1>3, <1>4, <1>5, OthersHold, Numbers
  <2> QED
    BY <1>3, <1>4, <2>1, <2>2, <2>3, OthersHold DEF IInv, RanOK
<1>9. DependentInOrder'
  BY Zenon, <1>3, <1>4, OthersHold DEF IInv, DependentInOrder
<1> QED
  BY Zenon, <1>1, <1>2, <1>7, <1>8, <1>9 DEF IInv

(* A thread may let go of an element it has dealt with. *)
LEMMA Release ==
  ASSUME IInv, NEW t \in Threads, Mine(t), UNCHANGED <<next, ran>>,
         lowest' \in Nat, lowest' <= lowest, lowest' # NoFault => lowest' \in faulty,
         pc'[t] \in Holding => Hi(t)' <= next,
         pc'[t] = "element" => at'[t] <= end'[t], pc'[t] # "body",
         \A i \in Elements : Holds(t, i)' => Holds(t, i) /\ ran[i] = 0,
         \A i \in Elements : Holds(t, i) /\ ~Holds(t, i)' =>
            \/ ran[i] = 1 /\ (i \in faulty => lowest' <= i)
            \/ ran[i] = 0 /\ lowest' < i
  PROVE  ChunksOK' /\ RanOK' /\ DependentInOrder'
<1> USE OthersHold, Numbers
<1>1. \A u \in Threads, i \in Elements : Holds(u, i)' => Holds(u, i)
  BY Zenon
<1>2. ChunksOK'
  <2>1. \A u \in Threads : pc'[u] \in Holding => Hi(u)' <= next'
    BY DEF IInv, ChunksOK, Mine
  <2>2. \A u \in Threads : /\ pc'[u] \in {"element", "body"} => at'[u] <= end'[u]
                           /\ pc'[u] = "body" => at'[u] < end'[u]
    BY Zenon DEF IInv, ChunksOK, Mine
  <2> QED
    BY Zenon, <1>1, <2>1, <2>2 DEF IInv, ChunksOK
<1>3. RanOK'
  <2>1. \A u \in Threads, i \in Elements :
          Holds(u, i)' => ran'[i] = IF pc'[u] = "body" /\ i = at'[u] THEN 1 ELSE 0
    BY DEF IInv, RanOK, Mine
  <2>2. ASSUME NEW i \in Elements, i < next, \A u \in Threads : ~Holds(u, i)'
        PROVE  \/ ran[i] = 1 /\ (i \in faulty => lowest' <= i)
               \/ ran[i] = 0 /\ lowest' < i
    <3>1. CASE Holds(t, i)
      BY Zenon, <2>2, <3>1
    <3>2. CASE ~Holds(t, i)
      <4>1. \A u \in Threads : ~Holds(u, i)
        BY Zenon, <2>2, <3>2
      <4> QED
        BY <2>2, <4>1 DEF IInv, RanOK
    <3> QED
      BY Zenon, <3>1, <3>2
  <2>3. faulty' = faulty
    BY Zenon DEF Mine, siteVars
  <2> QED
    BY <2>1, <2>2, <2>3 DEF IInv, RanOK
<1>4. DependentInOrder'
  BY Zenon DEF IInv, DependentInOrder, Mine, siteVars
<1> QED
  BY Zenon, <1>2, <1>3, <1>4

(* A thread that goes on with its chunk leaves the stage as it is. *)
LEMMA SameStage ==
  ASSUME IInv, NEW t \in Threads, Mine(t), pc[t] \in Holding, pc'[t] \in Holding,
         next' = next, lowest' \in Nat, lowest' <= lowest
  PROVE  StageOK'
<1>1. /\ stage \in {"alone", "probing", "flow"} /\ stage' = stage /\ n' = n
      /\ stage = "flow" => t \in Workers
      /\ stage # "flow" => t = Caller
  BY Zenon DEF IInv, TypeOK, StageOK, Holding, Threads, Mine, siteVars
<1>2. \A u \in Threads \ {t} : pc'[u] = pc[u]
  BY Zenon DEF Mine
<1>3. Alone' = Alone
  BY Zenon DEF Mine, siteVars, Alone
<1>4. Finished => Finished'
  BY <1>1, Numbers DEF Finished
<1> HIDE DEF Mine
<1>5. CASE stage = "flow"
  <2>1. pc[Caller] = "done" /\ ~Alone /\ Caller # t /\ Caller \in Threads
    BY Zenon, <1>5, <1>1, ElementConstants DEF IInv, StageOK, Threads
  <2>2. \A u \in Threads : pc'[u] = "help" => u # t /\ pc[u] = "help"
    BY Zenon, <1>2 DEF Holding
  <2> QED
    BY Zenon, <1>1, <1>2, <1>3, <1>5, <2>1, <2>2 DEF IInv, StageOK, Holding
<1>6. CASE stage \in {"alone", "probing"}
  <2>1. t = Caller /\ \A u \in Workers : u # t /\ u \in Threads /\ pc[u] = "idle"
    BY Zenon, <1>6, <1>1, ElementConstants DEF IInv, StageOK, Threads
  <2>2. \A u \in Threads : pc'[u] # "help"
    BY Zenon, <2>1, <1>2 DEF Holding, Threads
  <2> QED
    BY Zenon, <1>1, <1>2, <1>3, <1>6, <2>1, <2>2 DEF IInv, StageOK, Holding
<1> QED
  BY Zenon, <1>1, <1>5, <1>6

LEMMA StepExhausted == ASSUME IInv, NEW t \in Threads, Exhausted(t) PROVE IInv'
<1>0. /\ pc[t] = "check" /\ (begin[t] >= n \/ lowest < begin[t])
      /\ pc' = [pc EXCEPT ![t] = "done"] /\ pc'[t] = "done"
      /\ UNCHANGED <<siteVars, stage, next, grain, lowest, g, begin, end, at, ran, outcome>>
  BY Zenon DEF Exhausted, Goto, localVars, IInv, TypeOK
<1>1. TypeOK'
  BY Zenon, <1>0, SameSite DEF IInv, TypeOK, siteVars
<1>2. Mine(t)
  BY Zenon, <1>0 DEF Mine, IInv, TypeOK
<1>3. Finished
  BY <1>0, Numbers DEF IInv, ChunksOK, Holding, Hi, Finished
<1>4. StageOK'
  BY Zenon, <1>0, <1>3, ElementConstants DEF IInv, TypeOK, StageOK, Alone, Finished, Threads, siteVars
<1>5. \A i \in Elements : Holds(t, i) => ran[i] = 0 /\ lowest < i
  BY <1>0, Numbers DEF IInv, RanOK, Holds, Lo
<1>6. \A i \in Elements : ~Holds(t, i)'
  BY Zenon, <1>0 DEF Holds, Holding
<1>7. lowest \in Nat /\ (lowest # NoFault => lowest \in faulty) /\ pc'[t] \notin Holding
  BY Zenon, <1>0, Numbers DEF IInv, RanOK, Holding
<1>8. NoFault' = NoFault
  BY Zenon, <1>0, SameSite
<1>9. ChunksOK' /\ RanOK' /\ DependentInOrder'
  BY <1>0, <1>2, <1>5, <1>6, <1>7, <1>8, Release DEF Holding
<1> QED
  BY Zenon, <1>1, <1>4, <1>9 DEF IInv

LEMMA StepTakeChunk == ASSUME IInv, NEW t \in Threads, TakeChunk(t) PROVE IInv'
<1>0. /\ pc[t] = "check" /\ begin[t] < n
      /\ pc' = [pc EXCEPT ![t] = "element"] /\ pc'[t] = "element"
      /\ end' = [end EXCEPT ![t] = SmallerOf(n, begin[t] + g[t])]
      /\ at' = [at EXCEPT ![t] = begin[t]] /\ at'[t] = begin[t]
      /\ end'[t] = SmallerOf(n, begin[t] + g[t])
      /\ UNCHANGED <<siteVars, stage, next, grain, lowest, g, begin, ran, outcome>>
  BY Zenon DEF TakeChunk, Goto, IInv, TypeOK
<1>1. /\ end'[t] \in 0 .. n /\ end'[t] <= begin[t] + g[t] /\ at'[t] <= end'[t]
      /\ \A i \in Elements : i < end'[t] <=> i < begin[t] + g[t]
  BY <1>0, Numbers DEF SmallerOf
<1>2. TypeOK'
  <2>1. end' \in [Threads -> 0 .. n] /\ at' \in [Threads -> 0 .. n]
    BY <1>0, <1>1, Numbers DEF IInv, TypeOK
  <2> QED
    BY Zenon, <1>0, <2>1, SameSite DEF IInv, TypeOK, siteVars
<1>3. Mine(t)
  BY Zenon, <1>0 DEF Mine, IInv, TypeOK
<1>4. StageOK'
  BY <1>0, <1>3, Numbers, SameStage DEF Holding
<1>5. Hi(t)' <= next
  BY <1>0, <1>1, Numbers DEF IInv, ChunksOK, Holding, Hi
<1>6. \A i \in Elements : Holds(t, i)' <=> Holds(t, i)
  BY Zenon, <1>0, <1>1 DEF Holds, Holding, Lo, Hi
<1>7. \A i \in Elements : Holds(t, i) => ran[i] = 0
  BY Zenon, <1>0 DEF IInv, RanOK
<1>8. lowest \in Nat /\ lowest <= lowest /\ (lowest # NoFault => lowest \in faulty)
  BY Numbers DEF IInv, RanOK
<1>9. NoFault' = NoFault
  BY Zenon, <1>0, SameSite
<1>10. ChunksOK' /\ RanOK' /\ DependentInOrder'
  BY Zenon, <1>0, <1>1, <1>3, <1>5, <1>6, <1>7, <1>8, <1>9, Release
<1> QED
  BY Zenon, <1>2, <1>4, <1>10 DEF IInv

(* A thread that is done with an element, skipped or run, goes on to the   *)
(* next one of its chunk.                                                  *)
LEMMA PastElement ==
  ASSUME IInv, NEW t \in Threads, pc[t] \in {"element", "body"}, at[t] < end[t],
         pc' = [pc EXCEPT ![t] = "element"], at' = [at EXCEPT ![t] = at[t] + 1],
         UNCHANGED <<siteVars, stage, next, grain, g, begin, end, ran, outcome>>,
         lowest' \in 0 .. n, lowest' <= lowest, lowest' # NoFault => lowest' \in faulty,
         pc[t] = "element" => lowest' < at[t],
         pc[t] = "body" /\ at[t] \in faulty => lowest' <= at[t]
  PROVE  IInv'
<1>0. /\ at'[t] = at[t] + 1 /\ end'[t] = end[t] /\ at[t] + 1 <= end[t] /\ end[t] <= n
      /\ pc'[t] = "element" /\ at[t] \in Nat
  BY Numbers DEF IInv, TypeOK
<1>1. TypeOK'
  <2>1. at' \in [Threads -> 0 .. n]
    BY <1>0, Numbers DEF IInv, TypeOK
  <2> QED
    BY Zenon, <2>1, SameSite DEF IInv, TypeOK, siteVars
<1>2. Mine(t)
  BY Zenon DEF Mine, IInv, TypeOK
<1>3. StageOK'
  BY <1>0, <1>2, Numbers, SameStage DEF Holding
<1>4. Hi(t)' <= next
  BY Zenon, <1>0 DEF IInv, ChunksOK, Holding, Hi
<1>5. \A i \in Elements : Holds(t, i)' <=> Holds(t, i) /\ i # at[t]
  BY <1>0, Numbers DEF Holds, Holding, Lo, Hi
<1>6. \A i \in Elements : Holds(t, i) =>
         ran[i] = IF pc[t] = "body" /\ i = at[t] THEN 1 ELSE 0
  BY Zenon DEF IInv, RanOK
<1>7. ChunksOK' /\ RanOK' /\ DependentInOrder'
  <2>1. \A i \in Elements : Holds(t, i)' => Holds(t, i) /\ ran[i] = 0
    BY Zenon, <1>5, <1>6
  <2>2. \A i \in Elements : Holds(t, i) /\ ~Holds(t, i)' =>
            \/ ran[i] = 1 /\ (i \in faulty => lowest' <= i)
            \/ ran[i] = 0 /\ lowest' < i
    BY Zenon, <1>5, <1>6
  <2>3. lowest' \in Nat /\ NoFault' = NoFault
    BY SameSite, Numbers
  <2> QED
    BY Zenon, <1>0, <1>2, <1>4, <2>1, <2>2, <2>3, Release
<1> QED
  BY Zenon, <1>1, <1>3, <1>7 DEF IInv

LEMMA StepSkipElement == ASSUME IInv, NEW t \in Threads, SkipElement(t) PROVE IInv'
<1>1. lowest \in 0 .. n /\ lowest <= lowest /\ (lowest # NoFault => lowest \in faulty)
  BY Numbers DEF IInv, TypeOK, RanOK
<1>2. pc' = [pc EXCEPT ![t] = "element"] /\ lowest' = lowest /\ NoFault' = NoFault
  BY Zenon, SameSite DEF SkipElement, IInv, TypeOK
<1> QED
  BY Zenon, <1>1, <1>2, PastElement DEF SkipElement

LEMMA StepBodyReturns == ASSUME IInv, NEW t \in Threads, BodyReturns(t) PROVE IInv'
<1>1. /\ lowest \in 0 .. n /\ lowest <= lowest /\ (lowest # NoFault => lowest \in faulty)
      /\ pc[t] = "body" => at[t] < end[t]
  BY Numbers DEF IInv, TypeOK, RanOK, ChunksOK
<1>2. NoFault' = NoFault
  BY Zenon, SameSite DEF BodyReturns
<1> QED
  BY Zenon, <1>1, <1>2, PastElement DEF BodyReturns, Goto

LEMMA StepBodyFaults == ASSUME IInv, NEW t \in Threads, BodyFaults(t) PROVE IInv'
<1>1. /\ lowest \in 0 .. n /\ (lowest # NoFault => lowest \in faulty)
      /\ at[t] \in 0 .. n /\ (pc[t] = "body" => at[t] < end[t])
  BY Zenon DEF IInv, TypeOK, RanOK, ChunksOK
<1>2. NoFault' = NoFault /\ pc[t] = "body" /\ at[t] \in faulty
  BY Zenon, SameSite DEF BodyFaults
<1>3. /\ lowest' \in 0 .. n /\ lowest' <= lowest /\ lowest' <= at[t]
      /\ lowest' # NoFault => lowest' \in faulty
  BY <1>1, <1>2, Numbers DEF BodyFaults, SmallerOf
<1> QED
  BY Zenon, <1>1, <1>2, <1>3, PastElement DEF BodyFaults, Goto

-----------------------------------------------------------------------------

LEMMA StepSettle == ASSUME IInv, NEW t \in Threads, Settle(t) PROVE IInv'
<1>0. /\ pc[t] = "element" /\ at[t] = end[t]
      /\ UNCHANGED <<n, faulty, independent, light, stage, next, lowest, g, begin, end, at,
                     ran, outcome>>
  BY Zenon DEF Settle, siteVars, localVars
<1>1. TypeOK'
  <2>1. MaxGrain' = MaxGrain /\ Elements' = Elements
    BY Zenon, <1>0, SameSite DEF siteVars
  <2>2. grain' \in 1 .. MaxGrain
    BY Numbers DEF Settle, Fitting, SmallerOf
  <2>3. pc' \in [Threads -> {"idle", "load", "claim", "check", "element", "body", "help", "done"}]
    BY Zenon DEF Settle, Goto, IInv, TypeOK
  <2> QED
    BY Zenon, <1>0, <2>1, <2>2, <2>3 DEF IInv, TypeOK
<1>2. /\ pc'[t] \in {"load", "done", "help"} /\ \A u \in Threads \ {t} : pc'[u] = pc[u]
      /\ pc'[t] = "done" => stage = "probing" /\ next >= n
      /\ pc'[t] = "help" => stage = "probing" /\ next < n
  BY Zenon DEF Settle, Goto, IInv, TypeOK
<1>3. Mine(t)
  BY Zenon, <1>0, <1>2 DEF Mine, siteVars
<1>4. StageOK'
  <2>1. Alone' = Alone /\ Finished' = Finished
    BY Zenon, <1>0 DEF Alone, Finished
  <2>2. CASE t = Caller
    <3>1. stage \in {"alone", "probing"} /\ \A u \in Workers : u # t /\ u \in Threads
      BY Zenon, <2>2, <1>0, ElementConstants DEF IInv, TypeOK, StageOK, Threads
    <3>2. pc'[Caller] = "done" => Finished
      BY Zenon, <2>2, <1>2 DEF Finished
    <3> QED
      BY Zenon, <1>0, <1>2, <2>1, <2>2, <3>1, <3>2 DEF IInv, StageOK, Threads
  <2>3. CASE t \in Workers
    <3>1. stage = "flow" /\ t # Caller /\ Caller \in Threads
      BY Zenon, <2>3, <1>0, ElementConstants DEF IInv, TypeOK, StageOK, Threads
    <3>2. pc'[t] = "load"
      BY Zenon, <1>2, <3>1
    <3> QED
      BY Zenon, <1>0, <1>2, <2>1, <2>3, <3>1, <3>2 DEF IInv, StageOK, Threads
  <2> QED
    BY Zenon, <2>2, <2>3 DEF Threads
<1>5. \A i \in Elements : ~Holds(t, i) /\ ~Holds(t, i)'
  <2>1. pc'[t] \notin Holding
    BY Zenon, <1>2 DEF Holding
  <2>2. Lo(t) = Hi(t) /\ Lo(t) \in Nat
    BY <1>0 DEF Lo, Hi, IInv, TypeOK
  <2>3. \A i \in Elements : ~(Lo(t) <= i /\ i < Lo(t))
    BY <2>2, Numbers DEF Elements
  <2> QED
    BY Zenon, <2>1, <2>2, <2>3 DEF Holds
<1>6. ChunksOK' /\ RanOK' /\ DependentInOrder'
  <2>1. lowest' \in Nat /\ lowest' <= lowest /\ (lowest' # NoFault => lowest' \in faulty)
    BY <1>0, Numbers DEF IInv, RanOK
  <2> QED
    BY Zenon, <1>0, <1>2, <1>3, <1>5, <2>1, Release DEF Holding
<1> QED
  BY Zenon, <1>1, <1>4, <1>6 DEF IInv

(* When the calls depend on each other only the calling thread has claims, *)
(* and what lies below the element it starts has run without a fault.      *)
LEMMA StepStartElement == ASSUME IInv, NEW t \in Threads, StartElement(t) PROVE IInv'
<1>0. /\ pc[t] = "element" /\ at[t] < end[t] /\ lowest >= at[t] /\ end[t] <= n
      /\ at[t] \in Elements /\ ran' = [ran EXCEPT ![at[t]] = ran[at[t]] + 1]
      /\ pc' = [pc EXCEPT ![t] = "body"] /\ pc'[t] = "body"
      /\ UNCHANGED <<n, faulty, independent, light, stage, next, grain, lowest, g, begin,
                     end, at, outcome>>
  BY Numbers DEF StartElement, Goto, siteVars, localVars, IInv, TypeOK, Elements
<1>1. TypeOK'
  <2>1. MaxGrain' = MaxGrain /\ Elements' = Elements
    BY Zenon, <1>0, SameSite DEF siteVars
  <2> QED
    BY <1>0, <2>1 DEF IInv, TypeOK
<1>2. Mine(t)
  BY Zenon, <1>0 DEF Mine, IInv, TypeOK, siteVars
<1>3. StageOK'
  <2>1. lowest' \in Nat /\ lowest' <= lowest /\ next' = next
    BY <1>0, Numbers
  <2>2. pc[t] \in Holding /\ pc'[t] \in Holding
    BY Zenon, <1>0 DEF Holding
  <2> QED
    BY Zenon, <1>2, <2>1, <2>2, SameStage
<1>4. \A u \in Threads, i \in Elements : Holds(u, i)' <=> Holds(u, i)
  <2>1. Lo(t)' = Lo(t) /\ Hi(t)' = Hi(t) /\ pc[t] \in Holding /\ pc'[t] \in Holding
    BY Zenon, <1>0 DEF Holding, Lo, Hi
  <2>2. \A i \in Elements : Holds(t, i)' <=> Holds(t, i)
    BY Zenon, <2>1 DEF Holds
  <2> QED
    BY Zenon, <1>2, <2>2, OthersHold
<1>5. Holds(t, at[t]) /\ ran[at[t]] = 0
  <2>1. Lo(t) = at[t] /\ Hi(t) = end[t] /\ pc[t] \in Holding /\ at[t] \in Nat
    BY Zenon, <1>0, Numbers DEF Holding, Lo, Hi
  <2>2. Holds(t, at[t])
    BY <1>0, <2>1 DEF Holds
  <2> QED
    BY Zenon, <1>0, <2>2 DEF IInv, RanOK
<1>6. \A i \in Elements : ran'[i] = IF i = at[t] THEN 1 ELSE ran[i]
  BY <1>0, <1>5 DEF IInv, TypeOK
<1>7. ChunksOK'
  <2>1. \A u \in Threads : /\ pc'[u] \in Holding => Hi(u)' <= next'
                           /\ pc'[u] \in {"element", "body"} => at'[u] <= end'[u]
                           /\ pc'[u] = "body" => at'[u] < end'[u]
    BY Zenon, <1>0, <1>2, OthersHold DEF IInv, TypeOK, ChunksOK, Hi, Holding
  <2> QED
    BY Zenon, <1>2, <1>4, <2>1, OthersHold DEF IInv, ChunksOK
<1>8. RanOK'
  <2>1. \A i \in Elements : i >= next => i # at[t]
    BY Numbers, <1>0 DEF IInv, ChunksOK, Hi, Holding
  <2>2. ASSUME NEW u \in Threads, NEW i \in Elements, Holds(u, i)
        PROVE  ran'[i] = IF pc'[u] = "body" /\ i = at[u] THEN 1 ELSE 0
    <3>1. CASE u = t
      BY Zenon, <3>1, <2>2, <1>0, <1>6 DEF IInv, RanOK
    <3>2. CASE u # t
      <4>1. i # at[t]
        BY Zenon, <3>2, <2>2, <1>5 DEF IInv, ChunksOK
      <4> QED
        BY <4>1, <3>2, <2>2, <1>0, <1>6 DEF IInv, RanOK, TypeOK
    <3> QED
      BY Zenon, <3>1, <3>2
  <2>3. \A i \in Elements : (\A u \in Threads : ~Holds(u, i)) => i # at[t]
    BY Zenon, <1>5
  <2> QED
    BY <1>0, <1>2, <1>4, <1>6, <2>1, <2>2, <2>3, OthersHold DEF IInv, RanOK
<1>9. DependentInOrder'
  <2> SUFFICES ASSUME ~independent, NEW i \in Elements, NEW j \in Elements,
                      j < i, ran'[i] = 1
               PROVE  ran'[j] = 1 /\ j \notin faulty
    BY Zenon, <1>0, <1>2, OthersHold DEF DependentInOrder
  <2>1. t = Caller /\ \A u \in Threads : u # t => pc[u] \notin Holding
    <3>1. stage \in {"start", "alone", "probing", "flow", "returned"}
      BY Zenon DEF IInv, TypeOK
    <3>2. stage = "alone"
      BY Zenon, <3>1, <1>0 DEF IInv, StageOK, Alone, Threads
    <3> QED
      BY Zenon, <3>2, <1>0 DEF IInv, StageOK, Threads, Holding
  <2>2. CASE i = at[t]
    <3>1. \A u \in Threads : ~Holds(u, j)
      <4>1. Lo(t) = at[t] /\ at[t] \in Nat /\ j \in Nat /\ j < at[t]
        BY Zenon, <2>2, <1>0, Numbers DEF Lo
      <4>2. ~Holds(t, j)
        BY <4>1 DEF Holds
      <4> QED
        BY Zenon, <2>1, <4>2 DEF Holds
    <3>2. j < next
      <4>1. Hi(t) = end[t] /\ pc[t] \in Holding
        BY Zenon, <1>0 DEF Hi, Holding
      <4>2. end[t] <= next
        BY Zenon, <4>1 DEF IInv, ChunksOK
      <4> QED
        BY Numbers, <2>2, <1>0, <4>2
    <3>3. \/ ran[j] = 1 /\ (j \in faulty => lowest <= j)
          \/ ran[j] = 0 /\ lowest < j
      BY Zenon, <3>1, <3>2 DEF IInv, RanOK
    <3>4. lowest > j
      BY Numbers, <1>0, <2>2
    <3>5. ran[j] = 1 /\ j \notin faulty
      BY Numbers, <3>3, <3>4
    <3>6. ran'[j] = ran[j]
      BY Numbers, <1>6, <2>2
    <3> QED
      BY Zenon, <3>5, <3>6
  <2>3. CASE i # at[t]
    <3>1. ran[i] = 1 /\ ran[j] = 1 /\ j \notin faulty
      BY Zenon, <2>3, <1>6 DEF IInv, DependentInOrder
    <3> QED
      BY Zenon, <3>1, <1>5, <1>6
  <2> QED
    BY Zenon, <2>2, <2>3
<1> QED
  BY Zenon, <1>1, <1>3, <1>7, <1>8, <1>9 DEF IInv

INSTANCE FiniteSetTheorems

LEMMA StepSpawn == ASSUME IInv, Spawn PROVE IInv'
<1> DEFINE most == SmallerOf(Cardinality(Workers), n - SmallerOf(n, next))
<1>0. PICK helpers \in SUBSET Workers :
        /\ Cardinality(helpers) >= IF stage = "start" THEN most ELSE SmallerOf(2, most)
        /\ pc' = [t \in Threads |-> IF t \in helpers THEN "load" ELSE "done"]
  BY Zenon DEF Spawn
<1>1. /\ stage \in {"start", "probing"} /\ stage' = "flow" /\ ~Alone /\ next < n
      /\ pc[Caller] \in {"idle", "help"} /\ \A t \in Workers : pc[t] = "idle"
      /\ UNCHANGED <<n, faulty, independent, light, next, grain, lowest, g, begin, end,
                     at, ran, outcome>>
  BY Zenon, ElementConstants DEF Spawn, siteVars, localVars, IInv, StageOK, TypeOK, Threads
<1>2. helpers # {}
  <2>1. Cardinality(helpers) # 0
    BY <1>0, <1>1, ElementConstants DEF SmallerOf, IInv, TypeOK
  <2> QED
    BY Zenon, <2>1, FS_EmptySet
<1>3. TypeOK'
  BY Zenon, <1>0, <1>1, SameSite DEF siteVars, IInv, TypeOK
<1>4. StageOK'
  BY Zenon, <1>0, <1>1, <1>2, ElementConstants DEF StageOK, Alone, Threads
<1>5. ChunksOK' /\ RanOK' /\ DependentInOrder'
  BY Zenon, <1>0, <1>1, SameClaims DEF Holding, Threads, siteVars
<1> QED
  BY Zenon, <1>3, <1>4, <1>5 DEF IInv

LEMMA StepIInv == IInv /\ [Next]_vars => IInv'
<1> SUFFICES ASSUME IInv, [Next]_vars PROVE IInv'
  BY Zenon
<1>1. CASE CallerStep
  BY Zenon, <1>1, StepStartAlone, StepSpawn, StepReturn DEF CallerStep
<1>2. CASE \E t \in Threads : Drain(t)
  BY Zenon, <1>2, StepLoadGrain, StepClaim, StepExhausted, StepTakeChunk, StepSkipElement,
     StepStartElement, StepBodyReturns, StepBodyFaults, StepSettle DEF Drain
<1>3. CASE UNCHANGED vars
  <2> USE <1>3 DEF vars, siteVars, localVars
  <2>1. TypeOK' /\ StageOK'
    BY ZenonT(40) DEF IInv, TypeOK, StageOK, Alone, Finished, Elements, MaxGrain
  <2>2. ChunksOK' /\ RanOK' /\ DependentInOrder'
    BY Zenon, SameClaims
  <2> QED
    BY Zenon, <2>1, <2>2 DEF IInv
<1> QED
  BY Zenon, <1>1, <1>2, <1>3 DEF Next

(* The invariant holds in every reachable state. *)
THEOREM ElementsInvariant == Spec => []IInv
<1>1. Init => IInv
  BY Zenon, InitIInv
<1>2. IInv /\ [Next]_vars => IInv'
  BY Zenon, StepIInv
<1> QED
  BY <1>1, <1>2, PTL DEF Spec

(* The counters and locals of drain stay within their ranges: no chunk is  *)
(* empty or larger than the largest, and no claim starts below zero.       *)
THEOREM ElementsTyped == Spec => []TypeOK
<1>1. IInv => TypeOK
  BY Zenon DEF IInv
<1> QED
  BY <1>1, ElementsInvariant, PTL

(* At the end every element that is claimed is dealt with, and those that  *)
(* are not lie above the fault.                                            *)
LEMMA AllDealtWith ==
  ASSUME IInv, stage = "returned", NEW i \in Elements
  PROVE  /\ outcome = lowest
         /\ i <= lowest => ran[i] = 1
         /\ i \in faulty => lowest <= i
<1> USE Numbers
<1>1. outcome = lowest /\ (Finished \/ n = 0) /\ \A t \in Threads : ~Holds(t, i)
  BY Zenon DEF IInv, StageOK, Holds, Holding
<1>2. CASE i < next
  BY <1>1, <1>2 DEF IInv, RanOK
<1>3. CASE i >= next
  <2>1. lowest < next
    BY <1>1, <1>3 DEF Finished
  <2> QED
    BY <1>1, <1>3, <2>1
<1> QED
  BY <1>2, <1>3

(* The fault of the smallest index is the one reported, for any chunks and *)
(* any interleaving of the threads that run them.                          *)
THEOREM ElementsSmallestFault == Spec => []SmallestFaultReported
<1>1. IInv => SmallestFaultReported
  <2> SUFFICES ASSUME IInv, stage = "returned"
               PROVE  /\ outcome # NoFault => outcome \in faulty
                      /\ \A i \in faulty : outcome <= i
    BY Zenon DEF SmallestFaultReported
  <2>1. outcome = lowest
    BY Zenon DEF IInv, StageOK
  <2>2. \A i \in faulty : i \in Elements
    BY Zenon DEF IInv, TypeOK
  <2> QED
    BY Zenon, <2>1, <2>2, AllDealtWith DEF IInv, RanOK
<1> QED
  BY <1>1, ElementsInvariant, PTL

(* No element runs twice, and every element up to the reported fault runs. *)
THEOREM ElementsRunOnce == Spec => []EachRunsOnce
<1>1. IInv => EachRunsOnce
  <2> SUFFICES ASSUME IInv, NEW i \in Elements
               PROVE  /\ ran[i] <= 1
                      /\ stage = "returned" /\ i <= outcome => ran[i] = 1
    BY Zenon DEF EachRunsOnce
  <2>1. ran[i] \in {0, 1}
    <3>1. CASE \E t \in Threads : Holds(t, i)
      BY Zenon, <3>1 DEF IInv, RanOK
    <3>2. CASE \A t \in Threads : ~Holds(t, i)
      BY <3>2, Numbers DEF IInv, RanOK
    <3> QED
      BY Zenon, <3>1, <3>2
  <2> QED
    BY <2>1, AllDealtWith
<1> QED
  BY <1>1, ElementsInvariant, PTL

(* Calls that are not independent keep the order of the elements. *)
THEOREM ElementsDependentInOrder == Spec => []DependentInOrder
<1>1. IInv => DependentInOrder
  BY Zenon DEF IInv
<1> QED
  BY <1>1, ElementsInvariant, PTL

(* What a parallel operator has run is what the loop in order would have   *)
(* run, and above a fault perhaps more, where calls are independent.       *)
THEOREM ElementsRunAsLoop == Spec => []RunsAsLoop
<1>1. RunsAsLoop <=> EachRunsOnce /\ DependentInOrder
  BY Zenon DEF RunsAsLoop
<1> QED
  BY <1>1, ElementsRunOnce, ElementsDependentInOrder, PTL
=============================================================================
