---------------------------- MODULE RunElements -----------------------------
(***************************************************************************)
(* TaskflowExecSchedPass::runElements and ElementFaults: the element calls *)
(* of an unordered operator (map, apply, filter, unordered_foreach).  The  *)
(* calling thread and its helpers claim chunks of elements from a shared   *)
(* counter; how long a chunk takes, and so how large the next one is and   *)
(* whether helpers are asked for, is left open.                            *)
(***************************************************************************)
EXTENDS Naturals, FiniteSets

CONSTANTS MaxN,       \* bound: number of elements
          Workers,    \* workers of the executor
          Caller,     \* the thread that runs the operator
          Share       \* a chunk is at most 1/Share of an even share (8)

ASSUME ElementConstants ==
  /\ MaxN \in Nat
  /\ IsFiniteSet(Workers)
  /\ Cardinality(Workers) \in Nat \ {0}
  /\ Caller \notin Workers
  /\ Share \in Nat \ {0}

VARIABLES n,           \* number of elements
          faulty,      \* the elements whose call faults
          independent, \* ElementCallSite::independent
          light,       \* boundedLight of the element function
          stage,       \* where the calling thread is
          next, grain, \* Shared
          lowest,      \* ElementFaults::lowest, NoFault for the maximum
          pc,          \* per thread: its place in drain
          g, begin, end, at, \* per thread: locals of drain
          ran,         \* how often an element's body started (history)
          outcome      \* the fault the operator reports, or NoFault

siteVars == <<n, faulty, independent, light>>
localVars == <<g, begin, end, at>>
vars == <<siteVars, stage, next, grain, lowest, pc, localVars, ran, outcome>>

Threads  == Workers \union {Caller}
Elements == 0 .. n - 1
NoFault  == n

SmallerOf(a, b) == IF a < b THEN a ELSE b
LargerOf(a, b)  == IF a < b THEN b ELSE a

MaxGrain == LargerOf(1, n \div (Cardinality(Workers) * Share))

TypeOK ==
  /\ n \in 0 .. MaxN
  /\ faulty \subseteq Elements
  /\ independent \in BOOLEAN /\ light \in BOOLEAN
  /\ stage \in {"start", "alone", "probing", "flow", "returned"}
  /\ next \in Nat /\ grain \in 1 .. MaxGrain
  /\ lowest \in 0 .. n /\ outcome \in 0 .. n
  /\ pc \in [Threads -> {"idle", "load", "claim", "check", "element", "body", "help", "done"}]
  /\ g \in [Threads -> 1 .. MaxGrain]
  /\ begin \in [Threads -> Nat] /\ end \in [Threads -> 0 .. n] /\ at \in [Threads -> 0 .. n]
  /\ ran \in [Elements -> Nat]

Init ==
  /\ n \in 0 .. MaxN
  /\ faulty \in SUBSET Elements
  /\ independent \in BOOLEAN /\ light \in BOOLEAN
  /\ stage = "start"
  /\ next = 0 /\ grain = 1 /\ lowest = NoFault /\ outcome = NoFault
  /\ pc = [t \in Threads |-> "idle"]
  /\ g = [t \in Threads |-> 1]
  /\ begin = [t \in Threads |-> 0] /\ end = [t \in Threads |-> 0]
  /\ at = [t \in Threads |-> 0]
  /\ ran = [i \in Elements |-> 0]

-----------------------------------------------------------------------------
Goto(t, l) == pc' = [pc EXCEPT ![t] = l]

(* Everything on the calling thread. *)
Alone == Cardinality(Workers) <= 1 \/ n = 1 \/ ~independent

StartAlone ==
  /\ stage = "start" /\ n > 0
  /\ Alone \/ light
  /\ stage' = IF Alone THEN "alone" ELSE "probing"
  /\ Goto(Caller, "load")
  /\ UNCHANGED <<siteVars, next, grain, lowest, localVars, ran, outcome>>

(* Mutant: the flow is over when every worker has run a task of it, also   *)
(* one that got none.                                                      *)
SpawnWaitsForAll ==
  /\ \/ stage = "start" /\ n > 0 /\ ~Alone /\ ~light
     \/ stage = "probing" /\ pc[Caller] = "help"
  /\ LET most == SmallerOf(Cardinality(Workers), n - SmallerOf(n, next))
     IN  \E helpers \in SUBSET Workers :
           /\ Cardinality(helpers) <= most
           /\ Cardinality(helpers) >= IF stage = "start" THEN most ELSE SmallerOf(2, most)
           /\ pc' = [t \in Threads |-> IF t \in helpers THEN "load" ELSE "idle"]
  /\ stage' = "flow"
  /\ UNCHANGED <<siteVars, next, grain, lowest, localVars, ran, outcome>>

(* The tasks of the flow: as many as there are workers or elements left;   *)
(* after a probe also as many as the work left keeps busy, and at least    *)
(* two of them if there can be two.                                        *)
Spawn ==
  /\ \/ stage = "start" /\ n > 0 /\ ~Alone /\ ~light
     \/ stage = "probing" /\ pc[Caller] = "help"
  /\ LET most == SmallerOf(Cardinality(Workers), n - SmallerOf(n, next))
     IN  \E helpers \in SUBSET Workers :
           /\ Cardinality(helpers) <= most
           /\ Cardinality(helpers) >= IF stage = "start" THEN most ELSE SmallerOf(2, most)
           /\ pc' = [t \in Threads |-> IF t \in helpers THEN "load" ELSE "done"]
  /\ stage' = "flow"
  /\ UNCHANGED <<siteVars, next, grain, lowest, localVars, ran, outcome>>

LoadGrain(t) ==
  /\ pc[t] = "load"
  /\ g' = [g EXCEPT ![t] = grain]
  /\ Goto(t, "claim")
  /\ UNCHANGED <<siteVars, stage, next, grain, lowest, begin, end, at, ran, outcome>>

(* Mutant: the counter moves on by the current chunk size, not by the one  *)
(* that was read.                                                          *)
ClaimAtGrain(t) ==
  /\ pc[t] = "claim"
  /\ begin' = [begin EXCEPT ![t] = next]
  /\ next' = next + grain
  /\ Goto(t, "check")
  /\ UNCHANGED <<siteVars, stage, grain, lowest, g, end, at, ran, outcome>>

(* next.fetch_add(grain) *)
Claim(t) ==
  /\ pc[t] = "claim"
  /\ begin' = [begin EXCEPT ![t] = next]
  /\ next' = next + g[t]
  /\ Goto(t, "check")
  /\ UNCHANGED <<siteVars, stage, grain, lowest, g, end, at, ran, outcome>>

(* Nothing that may still start is left. *)
Exhausted(t) ==
  /\ pc[t] = "check"
  /\ begin[t] >= n \/ lowest < begin[t]
  /\ Goto(t, "done")
  /\ UNCHANGED <<siteVars, stage, next, grain, lowest, localVars, ran, outcome>>

TakeChunk(t) ==
  /\ pc[t] = "check"
  /\ begin[t] < n /\ lowest >= begin[t]
  /\ end' = [end EXCEPT ![t] = SmallerOf(n, begin[t] + g[t])]
  /\ at' = [at EXCEPT ![t] = begin[t]]
  /\ Goto(t, "element")
  /\ UNCHANGED <<siteVars, stage, next, grain, lowest, g, begin, ran, outcome>>

(* ElementFaults::run returns at once above the smallest fault known. *)
SkipElement(t) ==
  /\ pc[t] = "element" /\ at[t] < end[t]
  /\ lowest < at[t]
  /\ at' = [at EXCEPT ![t] = @ + 1]
  /\ UNCHANGED <<siteVars, stage, next, grain, lowest, pc, g, begin, end, ran, outcome>>

StartElement(t) ==
  /\ pc[t] = "element" /\ at[t] < end[t]
  /\ lowest >= at[t]
  /\ ran' = [ran EXCEPT ![at[t]] = @ + 1]
  /\ Goto(t, "body")
  /\ UNCHANGED <<siteVars, stage, next, grain, lowest, localVars, outcome>>

BodyReturns(t) ==
  /\ pc[t] = "body" /\ at[t] \notin faulty
  /\ at' = [at EXCEPT ![t] = @ + 1]
  /\ Goto(t, "element")
  /\ UNCHANGED <<siteVars, stage, next, grain, lowest, g, begin, end, ran, outcome>>

(* Mutant: the last fault is kept. *)
BodyFaultsLast(t) ==
  /\ pc[t] = "body" /\ at[t] \in faulty
  /\ lowest' = at[t]
  /\ at' = [at EXCEPT ![t] = @ + 1]
  /\ Goto(t, "element")
  /\ UNCHANGED <<siteVars, stage, next, grain, g, begin, end, ran, outcome>>

(* The catch of ElementFaults::run, under its mutex. *)
BodyFaults(t) ==
  /\ pc[t] = "body" /\ at[t] \in faulty
  /\ lowest' = SmallerOf(at[t], lowest)
  /\ at' = [at EXCEPT ![t] = @ + 1]
  /\ Goto(t, "element")
  /\ UNCHANGED <<siteVars, stage, next, grain, g, begin, end, ran, outcome>>

(* std::clamp of what fits into kChunkNs. *)
Fitting(t) == 1 .. SmallerOf(MaxGrain, g[t] * 4)

(* The chunk is over; what it took sets the size of the next ones.  A      *)
(* probing thread returns when all is claimed, or asks for help.           *)
Settle(t) ==
  /\ pc[t] = "element" /\ at[t] = end[t]
  /\ grain' \in Fitting(t)
  /\ \/ stage = "probing" /\ next >= n /\ Goto(t, "done")
     \/ stage = "probing" /\ next < n /\ Goto(t, "help")
     \/ (stage = "probing" => next < n) /\ Goto(t, "load")
  /\ UNCHANGED <<siteVars, stage, next, lowest, localVars, ran, outcome>>

(* runOnExecutor has waited for every helper; rethrow. *)
Return ==
  /\ \/ stage = "start" /\ n = 0
     \/ stage \in {"alone", "probing"} /\ pc[Caller] = "done"
     \/ stage = "flow" /\ \A t \in Workers : pc[t] = "done"
  /\ stage' = "returned"
  /\ outcome' = lowest
  /\ UNCHANGED <<siteVars, next, grain, lowest, pc, localVars, ran>>

Drain(t) ==
  \/ LoadGrain(t) \/ Claim(t) \/ Exhausted(t) \/ TakeChunk(t) \/ SkipElement(t)
  \/ StartElement(t) \/ BodyReturns(t) \/ BodyFaults(t) \/ Settle(t)

CallerStep == StartAlone \/ Spawn \/ Return

Next == CallerStep \/ \E t \in Threads : Drain(t)

Spec == Init /\ [][Next]_vars

(* The executor runs every task, and a body that starts ends. *)
FairSpec == Spec /\ WF_vars(CallerStep) /\ \A t \in Threads : WF_vars(Drain(t))
-----------------------------------------------------------------------------
(* The fault reported is the one a loop over the elements in order meets   *)
(* first, whatever the interleaving; without one nothing is reported       *)
(* (docs/technical/33_fault_isolation.md, 325).                            *)
SmallestFaultReported ==
  stage = "returned" =>
    /\ outcome # NoFault => outcome \in faulty
    /\ \A i \in faulty : outcome <= i

(* Every element below the reported fault has run, and no element runs     *)
(* twice: the chunks the threads claim cover the elements without overlap. *)
EachRunsOnce ==
  /\ \A i \in Elements : ran[i] <= 1
  /\ stage = "returned" => \A i \in Elements : i <= outcome => ran[i] = 1

(* Calls that are not independent run in order, and none after a fault.    *)
DependentInOrder ==
  ~independent =>
    \A i, j \in Elements : j < i /\ ran[i] = 1 => ran[j] = 1 /\ j \notin faulty

(* What has run is what the loop would have run, in its order where that   *)
(* can matter, and above a fault perhaps more where it cannot.             *)
RunsAsLoop == EachRunsOnce /\ DependentInOrder

(* The operator comes to its end: no claim is waited for. *)
OperatorReturns == <>(stage = "returned")
=============================================================================
