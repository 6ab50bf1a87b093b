--------------------------- MODULE FaultIsolation ----------------------------
(***************************************************************************)
(* Faults on the parallel scheduler: raising, the catch of a chain         *)
(* (runScope) and of an element (ElementFaults), the fault-isolation node  *)
(* (executeIsolateNode), the fault domain a task inherits (InheritedDepth) *)
(* and the end of the run (apply).  A program is a tree of calls; its leaf *)
(* faults are given, and the tree says what a linear back end answers.  A  *)
(* call is named by its path from the root.                                *)
(***************************************************************************)
EXTENDS Naturals, Sequences, FiniteSets, FiniteSetsExt, SequencesExt, TLC

CONSTANTS Main, Workers, \* the thread that runs apply; the executor's workers
          Flows,         \* bound: flow instances
          Programs,      \* the trees
          None

VARIABLES program,
          stack,   \* per thread: the calls open on it, innermost first
          domain,  \* per thread: faultDomain, by the path of its isolation node
          depth,   \* per thread: faultIsolationDepth()
          raised,  \* per thread: the exception under way
          domains, \* isolationDepth of the domains that exist
          flows,   \* the flow instances
          values,  \* what the isolation nodes answered
          good,    \* the calls that ended without a fault (history)
          outcome  \* how the run ended: None, NoFault or the fault recorded

vars == <<program, stack, domain, depth, raised, domains, flows, values, good, outcome>>

Threads == Workers \union {Main}

NoFault == [at |-> <<>>, kind |-> "none"]

Node(path) == FoldLeft(LAMBDA node, k : node.kids[k], program, path)

Frame(kind, path, t) ==
  [kind |-> kind, at |-> path, step |-> 1, flow |-> None, outer |-> None,
   domain |-> domain[t], depth |-> depth[t]]

IdleFlow ==
  [used |-> FALSE, at |-> <<>>, domain |-> None, todo |-> {}, open |-> {}, failed |-> FALSE,
   from |-> None, error |-> None]

Init ==
  /\ program \in Programs
  /\ domain = [t \in Threads |-> None] /\ depth = [t \in Threads |-> 0]
  /\ stack = [t \in Threads |-> IF t = Main THEN <<Frame("root", <<>>, t)>> ELSE <<>>]
  /\ raised = [t \in Threads |-> None]
  /\ domains = << >>
  /\ flows = [f \in Flows |-> IdleFlow]
  /\ values = {} /\ good = {} /\ outcome = None

-----------------------------------------------------------------------------
Top(t)  == stack[t][1]
Here(t) == Node(Top(t).at)

(* t runs the call on top of its stack, and waits for no flow. *)
Runs(t) == stack[t] # <<>> /\ raised[t] = None /\ Top(t).flow = None /\ Top(t).kind # "keep"

Call(t, k) == stack' = [stack EXCEPT ![t] = <<Frame("call", Append(Top(t).at, k), t)>> \o @]

(* A call in a graph that runs on this thread, in order: also the chains   *)
(* of a scope that is not worth tasks, and the elements of an operator     *)
(* that the calling thread takes alone.                                    *)
CallNext(t) ==
  /\ Runs(t) /\ Here(t).op \in {"seq", "map", "par", "join"}
  /\ Top(t).step <= Len(Here(t).kids)
  /\ Call(t, Top(t).step)
  /\ UNCHANGED <<program, domain, depth, raised, domains, flows, values, good, outcome>>

(* raiseFault: the fault is described and thrown. *)
RaiseFault(t) ==
  /\ Runs(t) /\ Here(t).op \in {"soft", "hard"}
  /\ raised' = [raised EXCEPT ![t] = [at |-> Top(t).at, kind |-> Here(t).op]]
  /\ UNCHANGED <<program, stack, domain, depth, domains, flows, values, good, outcome>>

(* The task of a flow is over; InheritedDepth puts back what t had. *)
EndTask(t) ==
  /\ \E f \in Flows : \E k \in flows[f].open :
       /\ flows[f].used /\ Top(t).at = Append(flows[f].at, k)
       /\ flows' = [flows EXCEPT ![f].open = @ \ {k}]
  /\ stack' = [stack EXCEPT ![t] = Tail(@)]
  /\ domain' = [domain EXCEPT ![t] = Top(t).domain]
  /\ depth' = [depth EXCEPT ![t] = Top(t).depth]

(* The call on top has come to its end. *)
Return(t) ==
  /\ Runs(t)
  /\ \/ Here(t).op = "ok"
     \/ Here(t).op \in {"seq", "map", "par", "join"} /\ Top(t).step > Len(Here(t).kids)
     \/ Here(t).op = "isolate" /\ Top(t).step = 4
  /\ good' = good \union {Top(t).at}
  /\ \/ /\ Top(t).kind = "root"
        /\ stack' = [stack EXCEPT ![t] = <<>>] /\ outcome' = NoFault
        /\ UNCHANGED <<domain, depth, flows>>
     \/ /\ Top(t).kind = "call"
        /\ stack' = [stack EXCEPT ![t] = [Tail(@) EXCEPT ![1].step = @ + 1]]
        /\ UNCHANGED <<domain, depth, flows, outcome>>
     \/ Top(t).kind = "task" /\ EndTask(t) /\ UNCHANGED outcome
  /\ UNCHANGED <<program, raised, domains, values>>

-----------------------------------------------------------------------------
(* Flows: the chains of a scope, the elements of an operator *)

(* runScope and runElements: the tasks are handed to the executor and the  *)
(* thread waits.  A thread may first have taken elements alone.            *)
StartFlow(t) ==
  /\ Runs(t) /\ Top(t).step <= Len(Here(t).kids)
  /\ Here(t).op = "map" \/ (Here(t).op \in {"par", "join"} /\ Top(t).step = 1)
  /\ LET f == CHOOSE f \in Flows : ~flows[f].used IN
       /\ flows' = [flows EXCEPT ![f].used = TRUE, ![f].at = Top(t).at,
                                 ![f].domain = domain[t],
                                 ![f].todo = Top(t).step .. Len(Here(t).kids)]
       /\ stack' = [stack EXCEPT ![t][1].flow = f]
  /\ UNCHANGED <<program, domain, depth, raised, domains, values, good, outcome>>

(* Mutant: a worker that waits for a flow blocks. *)
MayTakeIdle(t) == t \in Workers /\ stack[t] = <<>>

(* An idle worker, or one that waits (corun) and takes whatever there is;  *)
(* the main thread waits outside the executor.                             *)
MayTake(t) == t \in Workers /\ raised[t] = None /\ (stack[t] # <<>> => Top(t).flow # None)

(* Chains wait for those before them; elements are claimed in order. *)
Ready(f, k) ==
  CASE Node(flows[f].at).op = "map"  -> k = Min(flows[f].todo)
    [] Node(flows[f].at).op = "join" -> k = Len(Node(flows[f].at).kids) => flows[f].todo = {k} /\ flows[f].open = {}
    [] OTHER -> TRUE

(* Mutant: a chain starts although another one has failed. *)
SkippedElement(f, k) == Node(flows[f].at).op = "map" /\ flows[f].error # None /\ flows[f].from < k

(* After a fault nothing more of a scope starts, and of an operator only   *)
(* the elements before it.                                                 *)
Skipped(f, k) ==
  IF Node(flows[f].at).op = "map" THEN flows[f].error # None /\ flows[f].from < k ELSE flows[f].failed

(* Mutant: the boundaries of the waiting thread are counted in. *)
InheritAdded(t, f) ==
  /\ domain' = [domain EXCEPT ![t] = flows[f].domain]
  /\ depth' = [depth EXCEPT ![t] = IF flows[f].domain = None THEN @ ELSE domains[flows[f].domain]]

(* InheritedDepth *)
Inherit(t, f) ==
  /\ domain' = [domain EXCEPT ![t] = flows[f].domain]
  /\ depth' = [depth EXCEPT ![t] = IF flows[f].domain = None THEN 0 ELSE domains[flows[f].domain]]

TakeTask(t, f, k) ==
  /\ MayTake(t) /\ flows[f].used /\ k \in flows[f].todo /\ Ready(f, k)
  /\ \/ /\ Skipped(f, k)
        /\ flows' = [flows EXCEPT ![f].todo = @ \ {k}]
        /\ UNCHANGED <<stack, domain, depth>>
     \/ /\ ~Skipped(f, k)
        /\ flows' = [flows EXCEPT ![f].todo = @ \ {k}, ![f].open = @ \union {k}]
        /\ stack' = [stack EXCEPT ![t] = <<Frame("task", Append(flows[f].at, k), t)>> \o @]
        /\ Inherit(t, f)
  /\ UNCHANGED <<program, raised, domains, values, good, outcome>>

(* Mutant: of a failed scope the chains that run are not waited for. *)
JoinedOrFailed(f) ==
  flows[f].todo = {} /\ (flows[f].open = {} \/ (Node(flows[f].at).op # "map" /\ flows[f].error # None))

(* corun, get *)
Joined(f) == flows[f].todo = {} /\ flows[f].open = {}

(* The wait is over: the instance goes back to the pool, and the failure   *)
(* that was kept is thrown on this thread.                                 *)
Join(t) ==
  /\ stack[t] # <<>> /\ Top(t).flow # None /\ Joined(Top(t).flow)
  /\ LET f == Top(t).flow IN
       /\ raised' = [raised EXCEPT ![t] = flows[f].error]
       /\ flows' = [flows EXCEPT ![f].used = FALSE, ![f].failed = FALSE, ![f].error = None, ![f].from = None]
  /\ stack' = [stack EXCEPT ![t][1].flow = None, ![t][1].step = Len(Here(t).kids) + 1]
  /\ UNCHANGED <<program, domain, depth, domains, values, good, outcome>>

-----------------------------------------------------------------------------
(* The fault-isolation node *)

OpenBoundary(t) ==
  /\ Runs(t) /\ Here(t).op = "isolate" /\ Top(t).step = 1
  /\ domains' = domains @@ (Top(t).at :> depth[t] + 1)
  /\ domain' = [domain EXCEPT ![t] = Top(t).at]
  /\ depth' = [depth EXCEPT ![t] = @ + 1]
  /\ stack' = [stack EXCEPT ![t] = <<Frame("call", Append(Top(t).at, 1), t),
                                     [Top(t) EXCEPT !.step = 2, !.outer = domain[t]]>> \o Tail(@)]
  /\ UNCHANGED <<program, raised, flows, values, good, outcome>>

(* The scopes of the try block end, on either way out. *)
LeaveBoundary(t) ==
  /\ domain' = [domain EXCEPT ![t] = Top(t).outer]
  /\ depth' = [depth EXCEPT ![t] = @ - 1]
  /\ domains' = [p \in DOMAIN domains \ {Top(t).at} |-> domains[p]]
  /\ stack' = [stack EXCEPT ![t][1].step = 4]

Answer(t, v) == values' = values \union {[at |-> Top(t).at, value |-> v]}

(* The callee returned. *)
WrapResult(t) ==
  /\ Runs(t) /\ Here(t).op = "isolate" /\ Top(t).step = 3
  /\ LeaveBoundary(t) /\ Answer(t, NoFault)
  /\ UNCHANGED <<program, raised, flows, good, outcome>>

AtBoundary(t) == stack[t] # <<>> /\ raised[t] # None /\ Here(t).op = "isolate" /\ Top(t).step = 2

(* isIsolatedFault, on a fault that nobody has recorded *)
IsIsolated(fault) == fault.kind = "soft"

(* The catch: the fault becomes the node's error value, or goes on. *)
CatchFault(t) ==
  /\ AtBoundary(t)
  /\ LeaveBoundary(t)
  /\ \/ IsIsolated(raised[t]) /\ Answer(t, raised[t]) /\ raised' = [raised EXCEPT ![t] = None]
     \/ ~IsIsolated(raised[t]) /\ UNCHANGED <<raised, values>>
  /\ UNCHANGED <<program, flows, good, outcome>>

-----------------------------------------------------------------------------
(* An exception passes through a call. *)
Unwind(t) ==
  /\ stack[t] # <<>> /\ raised[t] # None /\ ~AtBoundary(t)
  /\ Top(t).kind = "call"
  /\ stack' = [stack EXCEPT ![t] = Tail(@)]
  /\ UNCHANGED <<program, domain, depth, raised, domains, flows, values, good, outcome>>

(* The catch of a task: t has what it had before, the flow has failed, *)
FailTask(t) ==
  /\ stack[t] # <<>> /\ raised[t] # None /\ ~AtBoundary(t)
  /\ Top(t).kind = "task"
  /\ \E f \in Flows :
       /\ flows[f].used /\ flows[f].at = Front(Top(t).at)
       /\ flows' = [flows EXCEPT ![f].failed = TRUE]
  /\ stack' = [stack EXCEPT ![t][1].kind = "keep"]
  /\ domain' = [domain EXCEPT ![t] = Top(t).domain]
  /\ depth' = [depth EXCEPT ![t] = Top(t).depth]
  /\ UNCHANGED <<program, raised, domains, values, good, outcome>>

(* Mutant: the first fault to arrive is kept for elements too. *)
KeepsFirst(f, k) == flows[f].error = None

(* Of the chains the first fault is kept, of the elements the lowest. *)
Keeps(f, k) ==
  \/ flows[f].error = None
  \/ Node(flows[f].at).op = "map" /\ k < flows[f].from

(* and then, under its mutex, what it keeps for the thread that waits. *)
KeepFault(t) ==
  /\ stack[t] # <<>> /\ Top(t).kind = "keep"
  /\ \E f \in Flows : \E k \in flows[f].open :
       /\ flows[f].used /\ Top(t).at = Append(flows[f].at, k)
       /\ flows' = [flows EXCEPT ![f].open = @ \ {k},
                                 ![f].from = IF Keeps(f, k) THEN k ELSE @,
                                 ![f].error = IF Keeps(f, k) THEN raised[t] ELSE @]
  /\ stack' = [stack EXCEPT ![t] = Tail(@)]
  /\ raised' = [raised EXCEPT ![t] = None]
  /\ UNCHANGED <<program, domain, depth, domains, values, good, outcome>>

(* apply: the one fault that ends the run is recorded. *)
EndRun ==
  /\ stack[Main] # <<>> /\ raised[Main] # None /\ ~AtBoundary(Main)
  /\ Top(Main).kind = "root"
  /\ outcome' = raised[Main]
  /\ stack' = [stack EXCEPT ![Main] = <<>>]
  /\ raised' = [raised EXCEPT ![Main] = None]
  /\ UNCHANGED <<program, domain, depth, domains, flows, values, good>>

-----------------------------------------------------------------------------
Step(t) ==
  \/ CallNext(t) \/ RaiseFault(t) \/ Return(t) \/ StartFlow(t) \/ Join(t)
  \/ OpenBoundary(t) \/ WrapResult(t) \/ CatchFault(t) \/ Unwind(t)
  \/ FailTask(t) \/ KeepFault(t) \/ (t = Main /\ EndRun)
  \/ \E f \in Flows : \E k \in flows[f].todo : TakeTask(t, f, k)

Over == outcome # None /\ UNCHANGED vars

Next == (\E t \in Threads : Step(t)) \/ Over

Spec == Init /\ [][Next]_vars

(* The threads run. *)
FairSpec == Spec /\ \A t \in Threads : WF_vars(Step(t))
-----------------------------------------------------------------------------
(* What a linear back end answers, the chains of a scope taken in any      *)
(* order their edges allow: the results a call may have, by its subtree.   *)

RECURSIVE Results(_, _)
Results(node, path) ==
  LET n      == Len(node.kids)
      of     == [k \in 1 .. n |-> Results(node.kids[k], Append(path, k))]
      passes(S) == \A k \in S : NoFault \in of[k]
      after(k) == CASE node.op = "par"  -> {}
                    [] node.op = "join" -> IF k = n THEN 1 .. n - 1 ELSE {}
                    [] OTHER            -> 1 .. k - 1
      faults == UNION {of[k] \ {NoFault} : k \in {k \in 1 .. n : passes(after(k))}}
      none   == IF passes(1 .. n) THEN {NoFault} ELSE {}
  IN  CASE node.op \in {"soft", "hard"} -> {[at |-> path, kind |-> node.op]}
        [] node.op = "isolate" -> {IF f.kind = "soft" THEN NoFault ELSE f : f \in of[1]}
        [] OTHER -> faults \union none

(* The fault that ends the run, and the error value of a boundary, are     *)
(* ones a linear back end can give: for elements exactly the one it gives, *)
(* by the outer index first (docs/technical/33_fault_isolation.md,         *)
(* 324-337), and never a fault that a boundary further in should have      *)
(* taken.                                                                  *)
AnswersAsLinear ==
  /\ outcome # None => outcome \in Results(program, <<>>)
  /\ \A v \in values : v.value \in Results(Node(v.at).kids[1], Append(v.at, 1))

(* Once a boundary has its value nothing that was started inside it runs   *)
(* or waits on any thread, and no flow of it is open (3.6).                *)
NothingOutlivesItsBoundary ==
  \A v \in values :
    /\ \A t \in Threads : \A i \in DOMAIN stack[t] : ~IsStrictPrefix(v.at, stack[t][i].at)
    /\ \A f \in Flows : flows[f].used => ~IsPrefix(Append(v.at, 1), flows[f].at)

Enclosing(path) ==
  {p \in {SubSeq(path, 1, n) : n \in 0 .. Len(path) - 1} : Node(p).op = "isolate"}

Within(path, opened) == Enclosing(path) \union (IF opened THEN {path} ELSE {})

(* A thread counts, and works in, the boundaries around the call it runs,  *)
(* not those around what its stack holds besides: also after it helped     *)
(* with tasks of other domains while it waited, and after faults.          *)
CountsEnclosingBoundaries ==
  \A t \in Threads :
    raised[t] = None =>
      LET around == IF stack[t] = <<>> THEN {}
                    ELSE Within(Top(t).at, Here(t).op = "isolate" /\ Top(t).step = 3)
      IN  /\ depth[t] = Cardinality(around)
          /\ around = {} => domain[t] = None
          /\ around # {} => domain[t] \in around /\ \A p \in around : IsPrefix(p, domain[t])

(* A domain is a local of its isolation node: whoever still points at it,  *)
(* a thread, a scope that will put it back or a flow in use, finds it      *)
(* there, with the depth it was opened at.                                 *)
NoDanglingDomain ==
  LET held == {domain[t] : t \in Threads}
                \union {flows[f].domain : f \in {f \in Flows : flows[f].used}}
                \union UNION {{stack[t][i].domain : i \in DOMAIN stack[t]} : t \in Threads}
  IN  \A p \in held \ {None} : p \in DOMAIN domains /\ domains[p] = Cardinality(Within(p, TRUE))

(* The domain of every thread is that of its call, and it exists. *)
DomainsFit == CountsEnclosingBoundaries /\ NoDanglingDomain

(* A call starts only after the calls whose values it uses have ended      *)
(* well: of a failed scope no chain finds values missing.                  *)
StartsAfterItsInputs ==
  \A t \in Threads : \A i \in DOMAIN stack[t] :
    stack[t][i].at # <<>> =>
      LET scope == Front(stack[t][i].at)
          k     == Last(stack[t][i].at)
      IN  Node(scope).op = "seq" \/ (Node(scope).op = "join" /\ k = Len(Node(scope).kids))
            => \A j \in 1 .. k - 1 : Append(scope, j) \in good

(* The run ends: a thread that waits is waited for by nobody in turn. *)
RunEnds == <>(outcome # None)
=============================================================================
