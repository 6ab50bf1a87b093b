------------------------ MODULE ForeignBlocksProofs -------------------------
(***************************************************************************)
(* The control blocks of foreign resources: the inductive invariant of the *)
(* blocks and of the calls on them, and that every step of                 *)
(* releaseReference and dispose keeps it, for any threads, blocks and      *)
(* wrappers. ForeignCallsProofs has the other steps,                       *)
(* ForeignResourcesProofs the counts, the queue and the theorems.          *)
(***************************************************************************)
EXTENDS ForeignResources, TLAPS

(* A stack without its first member; positions are counted from its end. *)
LEMMA StackTail ==
  ASSUME NEW S, NEW s \in Seq(S), s # <<>>
  PROVE  /\ Tail(s) \in Seq(S) /\ Len(Tail(s)) = Len(s) - 1 /\ s[1] \in S
         /\ Len(s) \in Nat \ {0}
         /\ \A d \in 0 .. Len(s) - 2 : Tail(s)[Len(s) - 1 - d] = s[Len(s) - d]
<1>1. /\ Tail(s) \in Seq(S) /\ Len(Tail(s)) = Len(s) - 1 /\ s[1] \in S
      /\ Len(s) \in Nat \ {0}
      /\ \A i \in 1 .. Len(s) - 1 : Tail(s)[i] = s[i + 1]
  OBVIOUS
<1>2. ASSUME NEW d \in 0 .. Len(s) - 2 PROVE Tail(s)[Len(s) - 1 - d] = s[Len(s) - d]
  <2>1. Len(s) - 1 - d \in 1 .. Len(s) - 1 /\ (Len(s) - 1 - d) + 1 = Len(s) - d
    BY <1>1
  <2> QED
    BY Zenon, <1>1, <2>1
<1> QED
  BY Zenon, <1>1, <1>2

-----------------------------------------------------------------------------
(* The stacks of calls *)

(* What calls there are, and where one can be. *)
Kinds == {"collect", "release", "in place", "dispose", "all"}
Steps == {"collect", "run", "drop", "claim", "take", "delete", "free", "dispose", "release"}

JobType == [kind : Kinds, block : Blocks \union {None}, step : Steps, wrapper : Wrappers \union {None}]

JobsType == job \in [Threads -> Seq(JobType)]

(* What a step does to the calls: p is new, or goes on as j, or is gone. *)
Pushed(p, j) ==
  /\ p \notin Calls /\ Calls' = Calls \union {p}
  /\ Frame(p)' = j /\ \A q \in Calls : Frame(q)' = Frame(q)
Changed(p, j) ==
  /\ p \in Calls /\ Calls' = Calls
  /\ Frame(p)' = j /\ \A q \in Calls \ {p} : Frame(q)' = Frame(q)
Popped(p) ==
  /\ p \in Calls /\ Calls' = Calls \ {p}
  /\ \A q \in Calls' : Frame(q)' = Frame(q)
SameCalls == Calls' = Calls /\ \A q \in Calls : Frame(q)' = Frame(q)

(* A call is given by its thread and its depth. *)
LEMMA InCalls ==
  ASSUME JobsType
  PROVE  /\ \A t \in Threads : \A d \in Nat : <<t, d>> \in Calls <=> d < Len(job[t])
         /\ \A p \in Calls : \E t \in Threads : \E d \in Nat : p = <<t, d>>
<1>1. \A t \in Threads : Len(job[t]) \in Nat
  BY DEF JobsType
<1>2. \A t \in Threads : \A d \in Nat : <<t, d>> \in Calls <=> d \in 0 .. Len(job[t]) - 1
  BY DEF Calls
<1>3. ASSUME NEW p \in Calls PROVE \E t \in Threads : \E d \in Nat : p = <<t, d>>
  <2>1. PICK t \in Threads : p \in {t} \X (0 .. Len(job[t]) - 1)
    BY Zenon DEF Calls
  <2>2. PICK d \in 0 .. Len(job[t]) - 1 : p = <<t, d>>
    BY <2>1
  <2> QED
    BY <1>1, <2>2
<1> QED
  BY <1>1, <1>2, <1>3

(* The same in the next state. *)
LEMMA InCallsNext ==
  ASSUME JobsType'
  PROVE  /\ \A t \in Threads : \A d \in Nat : <<t, d>> \in Calls' <=> d < Len(job'[t])
         /\ \A p \in Calls' : \E t \in Threads : \E d \in Nat : p = <<t, d>>
<1>1. \A t \in Threads : Len(job'[t]) \in Nat
  BY DEF JobsType
<1>2. \A t \in Threads : \A d \in Nat : <<t, d>> \in Calls' <=> d \in 0 .. Len(job'[t]) - 1
  BY DEF Calls
<1>3. ASSUME NEW p \in Calls' PROVE \E t \in Threads : \E d \in Nat : p = <<t, d>>
  <2>1. PICK t \in Threads : p \in {t} \X (0 .. Len(job'[t]) - 1)
    BY Zenon DEF Calls
  <2>2. PICK d \in 0 .. Len(job'[t]) - 1 : p = <<t, d>>
    BY <2>1
  <2> QED
    BY <1>1, <2>2
<1> QED
  BY <1>1, <1>2, <1>3

(* The innermost call of a thread is its deepest. *)
LEMMA TopCall ==
  ASSUME JobsType, NEW t \in Threads, job[t] # <<>>
  PROVE  \E n \in Nat : /\ Len(job[t]) = n + 1 /\ <<t, n>> \in Calls /\ Frame(<<t, n>>) = job[t][1]
                        /\ job[t][1] \in JobType
<1>1. Len(job[t]) \in Nat \ {0} /\ job[t][1] \in JobType
  BY Zenon, StackTail DEF JobsType
<1>2. PICK n \in Nat : Len(job[t]) = n + 1
  <2>1. Len(job[t]) - 1 \in Nat /\ Len(job[t]) = (Len(job[t]) - 1) + 1
    BY <1>1
  <2> QED
    BY Zenon, <2>1
<1>3. <<t, n>> \in Calls
  BY <1>2, InCalls
<1>4. Frame(<<t, n>>) = job[t][Len(job[t]) - n] /\ Len(job[t]) - n = 1
  BY <1>2 DEF Frame
<1> QED
  BY Zenon, <1>1, <1>2, <1>3, <1>4

(* Steps of t that leave its first k calls as they are *)
LEMMA KeptCalls ==
  ASSUME JobsType, JobsType', NEW t \in Threads, NEW k \in Nat,
         k <= Len(job[t]), k <= Len(job'[t]),
         \A d \in Nat : d < k => job'[t][Len(job'[t]) - d] = job[t][Len(job[t]) - d],
         \A u \in Threads \ {t} : job'[u] = job[u]
  PROVE  \A u \in Threads : \A d \in Nat :
           ~(u = t /\ d >= k) => /\ <<u, d>> \in Calls' <=> <<u, d>> \in Calls
                                /\ Frame(<<u, d>>)' = Frame(<<u, d>>)
<1> SUFFICES ASSUME NEW u \in Threads, NEW d \in Nat, ~(u = t /\ d >= k)
             PROVE  /\ <<u, d>> \in Calls' <=> <<u, d>> \in Calls
                    /\ Frame(<<u, d>>)' = Frame(<<u, d>>)
  BY Zenon
<1>1. (<<u, d>> \in Calls <=> d < Len(job[u])) /\ (<<u, d>> \in Calls' <=> d < Len(job'[u]))
  BY Zenon, InCalls, InCallsNext
<1>2. /\ Frame(<<u, d>>) = job[u][Len(job[u]) - d]
      /\ Frame(<<u, d>>)' = job'[u][Len(job'[u]) - d]
  BY Zenon DEF Frame
<1>3. CASE u = t
  <2>1. d < k /\ Len(job[t]) \in Nat /\ Len(job'[t]) \in Nat
    BY <1>3 DEF JobsType
  <2>2. d < Len(job[t]) /\ d < Len(job'[t])
    BY <2>1
  <2>3. job'[t][Len(job'[t]) - d] = job[t][Len(job[t]) - d]
    BY Zenon, <2>1
  <2> QED
    BY ONLY Zenon, <1>1, <1>2, <1>3, <2>2, <2>3
<1>4. CASE u # t
  BY Zenon, <1>1, <1>2, <1>4
<1> QED
  BY Zenon, <1>3, <1>4

(* Goto changes the innermost call of t and no other. *)
LEMMA GotoChanges ==
  ASSUME JobsType, NEW t \in Threads, job[t] # <<>>, NEW st \in Steps, Goto(t, st)
  PROVE  /\ JobsType' /\ job'[t] # <<>> /\ job'[t][1] = [job[t][1] EXCEPT !.step = st]
         /\ \A u \in Threads \ {t} : job'[u] = job[u]
         /\ \E n \in Nat : /\ Len(job[t]) = n + 1 /\ Frame(<<t, n>>) = job[t][1]
                           /\ Changed(<<t, n>>, [job[t][1] EXCEPT !.step = st])
<1>0. PICK n \in Nat : /\ Len(job[t]) = n + 1 /\ <<t, n>> \in Calls /\ Frame(<<t, n>>) = job[t][1]
                       /\ job[t][1] \in JobType
  BY Zenon, TopCall
<1>1. PICK j : j = [job[t][1] EXCEPT !.step = st]
  BY Zenon
<1>2. j \in JobType
  BY Zenon, <1>0, <1>1 DEF JobType
<1>3. /\ job'[t] = [job[t] EXCEPT ![1] = j] /\ \A u \in Threads \ {t} : job'[u] = job[u]
  BY Zenon, <1>1 DEF Goto, JobsType
<1>4. /\ job'[t] \in Seq(JobType) /\ Len(job'[t]) = n + 1 /\ job'[t][1] = j
      /\ \A i \in 1 .. n + 1 : i # 1 => job'[t][i] = job[t][i]
  BY <1>0, <1>2, <1>3 DEF JobsType
<1>5. JobsType'
  BY Zenon, <1>4 DEF Goto, JobsType
<1>6. \A d \in Nat : d < n => job'[t][Len(job'[t]) - d] = job[t][Len(job[t]) - d]
  <2> SUFFICES ASSUME NEW d \in Nat, d < n
               PROVE  job'[t][Len(job'[t]) - d] = job[t][Len(job[t]) - d]
    BY Zenon
  <2>1. (n + 1) - d \in 1 .. n + 1 /\ (n + 1) - d # 1
    BY <1>0
  <2> QED
    BY ONLY Zenon, <1>0, <1>4, <2>1
<1>7. \A u \in Threads : \A d \in Nat :
        ~(u = t /\ d >= n) => /\ <<u, d>> \in Calls' <=> <<u, d>> \in Calls
                             /\ Frame(<<u, d>>)' = Frame(<<u, d>>)
  <2>1. n <= Len(job[t]) /\ n <= Len(job'[t])
    BY <1>0, <1>4
  <2> QED
    BY Zenon, <1>0, <1>3, <1>5, <1>6, <2>1, KeptCalls
<1>8. \A d \in Nat : /\ <<t, d>> \in Calls <=> d < n + 1
                     /\ <<t, d>> \in Calls' <=> d < n + 1
  BY Zenon, <1>0, <1>4, <1>5, InCalls, InCallsNext
<1>9. Frame(<<t, n>>)' = j
  <2>1. Frame(<<t, n>>)' = job'[t][Len(job'[t]) - n]
    BY Zenon DEF Frame
  <2>2. (n + 1) - n = 1
    BY <1>0
  <2> QED
    BY ONLY Zenon, <1>4, <2>1, <2>2
<1>10. /\ \A p \in Calls : \E u \in Threads : \E d \in Nat : p = <<u, d>>
       /\ \A p \in Calls' : \E u \in Threads : \E d \in Nat : p = <<u, d>>
  BY Zenon, <1>5, InCalls, InCallsNext
<1>11. ASSUME NEW u \in Threads, NEW d \in Nat
       PROVE  /\ <<u, d>> \in Calls <=> <<u, d>> \in Calls'
              /\ <<u, d>> \in Calls => <<u, d>> = <<t, n>> \/ Frame(<<u, d>>)' = Frame(<<u, d>>)
  <2>1. CASE u = t /\ d >= n
    <3>1. d < n + 1 => d = n
      BY <2>1, <1>0
    <3> QED
      BY ONLY Zenon, <2>1, <3>1, <1>8, d \in Nat
  <2> QED
    BY Zenon, <2>1, <1>7
<1>12. /\ \A p \in Calls : p \in Calls' /\ (p = <<t, n>> \/ Frame(p)' = Frame(p))
       /\ \A p \in Calls' : p \in Calls
  BY <1>10, <1>11
<1>13. Changed(<<t, n>>, j)
  BY Zenon, <1>0, <1>9, <1>12 DEF Changed
<1>14. job'[t] # <<>>
  BY <1>0, <1>4
<1>15. job'[t][1] = [job[t][1] EXCEPT !.step = st] /\ Changed(<<t, n>>, [job[t][1] EXCEPT !.step = st])
  BY ONLY Zenon, <1>1, <1>4, <1>13
<1> QED
  BY Zenon, <1>0, <1>3, <1>5, <1>14, <1>15

(* Return ends the innermost call of t and no other. *)
LEMMA ReturnPops ==
  ASSUME JobsType, NEW t \in Threads, job[t] # <<>>, Return(t)
  PROVE  /\ JobsType'
         /\ \A u \in Threads \ {t} : job'[u] = job[u]
         /\ \E n \in Nat : /\ Len(job[t]) = n + 1 /\ Frame(<<t, n>>) = job[t][1]
                           /\ Popped(<<t, n>>)
<1>0. PICK n \in Nat : /\ Len(job[t]) = n + 1 /\ <<t, n>> \in Calls /\ Frame(<<t, n>>) = job[t][1]
  BY Zenon, TopCall
<1>1. job'[t] = Tail(job[t]) /\ \A u \in Threads \ {t} : job'[u] = job[u]
  BY Zenon DEF Return, JobsType
<1>2. /\ job'[t] \in Seq(JobType) /\ Len(job'[t]) = n
      /\ \A d \in 0 .. n - 1 : job'[t][n - d] = job[t][(n + 1) - d]
  <2>1. /\ Tail(job[t]) \in Seq(JobType) /\ Len(Tail(job[t])) = Len(job[t]) - 1
        /\ \A d \in 0 .. Len(job[t]) - 2 : Tail(job[t])[Len(job[t]) - 1 - d] = job[t][Len(job[t]) - d]
    BY StackTail DEF JobsType
  <2>2. /\ Len(job[t]) - 1 = n /\ Len(job[t]) - 2 = n - 1
        /\ \A d \in 0 .. n - 1 : Len(job[t]) - 1 - d = n - d
    BY <1>0
  <2> QED
    BY ONLY Zenon, <1>0, <1>1, <2>1, <2>2
<1>3. JobsType'
  BY Zenon, <1>2 DEF Return, JobsType
<1>4. \A d \in Nat : d < n => job'[t][Len(job'[t]) - d] = job[t][Len(job[t]) - d]
  BY ONLY <1>0, <1>2
<1>5. \A u \in Threads : \A d \in Nat :
        ~(u = t /\ d >= n) => /\ <<u, d>> \in Calls' <=> <<u, d>> \in Calls
                             /\ Frame(<<u, d>>)' = Frame(<<u, d>>)
  <2>1. n <= Len(job[t]) /\ n <= Len(job'[t])
    BY <1>0, <1>2
  <2> QED
    BY Zenon, <1>0, <1>1, <1>3, <1>4, <2>1, KeptCalls
<1>6. \A d \in Nat : /\ <<t, d>> \in Calls <=> d < n + 1
                     /\ <<t, d>> \in Calls' <=> d < n
  BY Zenon, <1>0, <1>2, <1>3, InCalls, InCallsNext
<1>7. /\ \A p \in Calls : \E u \in Threads : \E d \in Nat : p = <<u, d>>
      /\ \A p \in Calls' : \E u \in Threads : \E d \in Nat : p = <<u, d>>
  BY Zenon, <1>3, InCalls, InCallsNext
<1>8. ASSUME NEW u \in Threads, NEW d \in Nat
      PROVE  /\ <<u, d>> \in Calls => <<u, d>> = <<t, n>> \/ <<u, d>> \in Calls'
             /\ <<u, d>> \in Calls' => <<u, d>> \in Calls /\ Frame(<<u, d>>)' = Frame(<<u, d>>)
  <2>1. CASE u = t /\ d >= n
    <3>1. (d < n + 1 => d = n) /\ ~(d < n)
      BY <2>1, <1>0
    <3> QED
      BY ONLY Zenon, <2>1, <3>1, <1>6, d \in Nat
  <2> QED
    BY Zenon, <2>1, <1>5
<1>9. /\ \A p \in Calls : p = <<t, n>> \/ p \in Calls'
      /\ \A p \in Calls' : p \in Calls /\ Frame(p)' = Frame(p)
  BY <1>7, <1>8
<1>10. <<t, n>> \in Calls /\ <<t, n>> \notin Calls'
  BY <1>0, <1>6
<1>11. Popped(<<t, n>>)
  BY Zenon, <1>9, <1>10 DEF Popped
<1> QED
  BY Zenon, <1>0, <1>1, <1>3, <1>11

-----------------------------------------------------------------------------
(* The invariant of the control blocks *)

(* The types; the registry lists the blocks that are referred to. *)
ControlType ==
  [life : {"none", "live", "freed"}, refs : Nat, disposed : BOOLEAN, resource : BOOLEAN, debugId : Nat]

TypesOK ==
  /\ JobsType /\ ctl \in [Blocks -> ControlType]
  /\ wrapper \in [Wrappers -> Blocks \union {"none", "dead"}]
  /\ phase \in {"running", "ended", "gathered", "disposed", "over"}
  /\ held \subseteq Blocks /\ gathered \subseteq Blocks /\ disposed \subseteq Blocks
  /\ deleted \in [Blocks -> Nat]
  /\ registry = {b \in Blocks : ctl[b].refs > 0}

(* The calls there are: a collection with the queue after it, the loop of  *)
(* disposeAllForeignResources, a release, and a dispose, which a wrapper   *)
(* or that loop keeps safe.                                                *)
First  == <<Main, 0>>
Second == <<Main, 1>>

IsCollect(p) ==
  /\ Frame(p).kind = "collect" /\ Frame(p).block = None /\ Frame(p).wrapper = None
  /\ Frame(p).step \in {"collect", "run"}

IsAll(p) ==
  /\ Frame(p).kind = "all" /\ Frame(p).block = None /\ Frame(p).wrapper = None
  /\ p = First /\ Frame(p).step \in {"dispose", "release"}

IsRelease(p) ==
  /\ Frame(p).kind \in {"release", "in place"} /\ Frame(p).block \in Blocks /\ Frame(p).wrapper = None
  /\ \/ Frame(p).step = "drop"
     \/ Frame(p).step \in {"claim", "take", "delete", "free"} /\ ctl[Frame(p).block].refs = 0

IsDispose(p) ==
  /\ Frame(p).kind = "dispose" /\ Frame(p).block \in Blocks
  /\ Frame(p).step \in {"claim", "take", "delete"}
  /\ \/ /\ Frame(p).wrapper \in Wrappers /\ wrapper[Frame(p).wrapper] = Frame(p).block
        /\ Frame(p).block \in disposed /\ phase = "running"
     \/ /\ Frame(p).wrapper = None /\ p = Second /\ phase = "gathered"
        /\ NextHeld(Frame(p).block) /\ Frame(First).step = "release"
        /\ Frame(p).step = "claim" => ~ctl[Frame(p).block].disposed

(* Every call is one of these. *)
FramesOK == \A p \in Calls : IsCollect(p) \/ IsAll(p) \/ IsRelease(p) \/ IsDispose(p)

(* Where the threads are, by the phase of the run. *)
StagesOK ==
  /\ \A t \in Threads : place[t] # "out" => job[t] # <<>> /\ job[t][1].kind = "collect"
  /\ phase \in {"ended", "disposed"} => job[Main] = <<>>
  /\ phase = "gathered" <=> First \in Calls /\ Frame(First).kind = "all"
  /\ phase # "gathered" => held = {}
  /\ phase \in {"running", "ended"} => gathered = {}

(* p is past the exchange of disposed_ and has the resource of b in hand;  *)
(* p is the release that found no reference to b left.                     *)
Using(p, b) == Frame(p).block = b /\ Frame(p).step \in {"take", "delete"}
Last(p, b)  == Frame(p).block = b /\ Frame(p).kind # "dispose" /\ Frame(p).step # "drop"

(* A block is live while referred to, its deleter runs at most once and    *)
(* has run before the block is freed; a claimed resource is in some call's *)
(* hands until then.                                                       *)
BlocksOK ==
  \A b \in Blocks :
    /\ ctl[b].refs > 0 => ctl[b].life = "live"
    /\ ctl[b].life = "none" => ~ctl[b].disposed
    /\ ctl[b].life = "freed" => deleted[b] = 1
    /\ ~ctl[b].disposed => deleted[b] = 0 /\ (ctl[b].life # "none" => ctl[b].resource)
    /\ deleted[b] <= 1
    /\ ctl[b].disposed /\ deleted[b] = 0 => \E p \in Calls : Using(p, b)

(* What a call on b has established. *)
CallOK(p, b) ==
  /\ ctl[b].life = "live"
  /\ Frame(p).step = "take" => ctl[b].disposed /\ ctl[b].resource /\ deleted[b] = 0
  /\ Frame(p).step = "delete" => ctl[b].disposed /\ deleted[b] = 0
  /\ Frame(p).step = "free" => deleted[b] = 1

(* One call at most has the resource of b in hand, and one has found no    *)
(* reference left.                                                         *)
CallsOK ==
  /\ \A p \in Calls : \A b \in Blocks : Frame(p).block = b => CallOK(p, b)
  /\ \A b \in Blocks : \A p, q \in Calls : Using(p, b) /\ Using(q, b) => p = q
  /\ \A b \in Blocks : \A p, q \in Calls : Last(p, b) /\ Last(q, b) => p = q

(* While the program runs only operators have disposed what is referred    *)
(* to.                                                                     *)
UsableOK ==
  phase = "running" => \A b \in Blocks : ctl[b].disposed => b \in disposed \/ ctl[b].refs = 0

(* Debug ids number the blocks in the order they were made. *)
IdsOK ==
  /\ IsFiniteSet(Created)
  /\ \A b \in Created : ctl[b].debugId <= Cardinality(Created)
  /\ \A b, c \in Created : ctl[b].debugId = ctl[c].debugId => b = c

(* What the loop of disposeAllForeignResources has let go of is deleted    *)
(* and newer than what it still holds.                                     *)
EndOK ==
  /\ held \subseteq gathered /\ gathered \subseteq Created
  /\ \A b \in gathered \ held : deleted[b] = 1 /\ \A c \in held : ctl[c].debugId < ctl[b].debugId
  /\ \A c \in held : ctl[c].disposed => NextHeld(c) /\ Frame(First).step = "release"
  /\ phase = "gathered" /\ Frame(First).step = "release" =>
       IF Second \in Calls THEN Frame(Second).kind = "dispose"
                           ELSE \A b \in held : NextHeld(b) => deleted[b] = 1

(* The inductive invariant, but for the counts and the queue. *)
ForeignInv ==
  /\ TypesOK /\ FramesOK /\ StagesOK /\ BlocksOK /\ CallsOK /\ UsableOK /\ IdsOK /\ EndOK

(* What the counts are needed for: whatever is referred to is counted. *)
Referred ==
  \A b \in Blocks : Wrapping(b) # {} \/ Dropping(b) # {} \/ b \in held => ctl[b].refs > 0

(* No reference to b moves. *)
SameRef(b) ==
  /\ Wrapping(b)' = Wrapping(b) /\ Dropping(b)' = Dropping(b) /\ owed'[b] = owed[b]
  /\ b \in held' <=> b \in held
  /\ ctl'[b].refs = ctl[b].refs

KeepsRefs == \A b \in Blocks : SameRef(b)

(* What the lemmas below need to know of the queue. *)
QueueShape ==
  /\ place \in [Threads -> {"out", "push", "flag", "lock", "swap", "clear"}]
  /\ arg \in [Threads -> Entries \union {None}]
  /\ \A t \in Threads : arg[t] # None <=> place[t] = "push"
  /\ taken \in [Threads -> Seq(Seq(Entries))]
  /\ owed \in [Entries -> Nat]

-----------------------------------------------------------------------------
(* What a step leaves as it was *)

(* Sets of references that a step leaves alone, or takes one call out of. *)
LEMMA SameWrapping == ASSUME wrapper' = wrapper, NEW b PROVE Wrapping(b)' = Wrapping(b)
  BY Zenon DEF Wrapping

(* A call goes on, and is no longer about to drop its reference. *)
LEMMA DroppingChanged ==
  ASSUME NEW p \in Calls, Calls' = Calls, \A q \in Calls : q = p \/ Frame(q)' = Frame(q),
         Frame(p)'.step # "drop", NEW b
  PROVE  /\ Frame(p).block = b /\ Frame(p).step = "drop" =>
              p \in Dropping(b) /\ Dropping(b)' = Dropping(b) \ {p}
         /\ ~(Frame(p).block = b /\ Frame(p).step = "drop") => Dropping(b)' = Dropping(b)
  BY Zenon DEF Dropping

(* A call ends. *)
LEMMA DroppingPopped ==
  ASSUME NEW p, Popped(p), NEW b
  PROVE  /\ Frame(p).block = b /\ Frame(p).step = "drop" =>
              p \in Dropping(b) /\ Dropping(b)' = Dropping(b) \ {p}
         /\ ~(Frame(p).block = b /\ Frame(p).step = "drop") => Dropping(b)' = Dropping(b)
  BY Zenon DEF Popped, Dropping

(* Only the release that found no reference is left with an unreferenced   *)
(* block.                                                                  *)
LEMMA OnlyTheLast ==
  ASSUME FramesOK, Referred, NEW b \in Blocks, ctl[b].refs = 0
  PROVE  /\ \A p \in Calls : Frame(p).block = b => IsRelease(p) /\ Last(p, b)
         /\ \A w \in Wrappers : wrapper[w] # b
         /\ b \notin held
<1>1. Wrapping(b) = {} /\ Dropping(b) = {} /\ b \notin held
  <2>1. ~(ctl[b].refs > 0)
    OBVIOUS
  <2> QED
    BY Zenon, <2>1 DEF Referred
<1>2. \A w \in Wrappers : wrapper[w] # b
  BY Zenon, <1>1 DEF Wrapping
<1>3. ASSUME NEW p \in Calls, Frame(p).block = b PROVE IsRelease(p) /\ Last(p, b)
  <2>1. Frame(p).step # "drop"
    BY Zenon, <1>1, <1>3 DEF Dropping
  <2>2. ~IsDispose(p)
    BY Zenon, <1>1, <1>2, <1>3 DEF IsDispose, NextHeld
  <2>3. ~IsCollect(p) /\ ~IsAll(p)
    BY Zenon, <1>3, NoneIsNoEntry DEF IsCollect, IsAll, Blocks
  <2>4. IsRelease(p)
    BY Zenon, <2>2, <2>3 DEF FramesOK
  <2> QED
    BY Zenon, <1>3, <2>1, <2>4 DEF IsRelease, Last
<1> QED
  BY Zenon, <1>1, <1>2, <1>3

(* A call on a block is a release or a dispose. *)
LEMMA BlockCall ==
  ASSUME FramesOK, NEW p \in Calls, Frame(p).block \in Blocks
  PROVE  IsRelease(p) \/ IsDispose(p)
  BY Zenon, NoneIsNoEntry DEF FramesOK, IsCollect, IsAll, Blocks

(* A step of t that neither begins nor ends that loop *)
LEMMA StagesKept ==
  ASSUME StagesOK, NEW t \in Threads, phase = "running" \/ job[t] # <<>>, phase' = phase,
         held' \subseteq held, gathered' = gathered,
         place'[t] # "out" => job'[t] # <<>> /\ job'[t][1].kind = "collect",
         \A u \in Threads \ {t} : place'[u] = place[u] /\ job'[u] = job[u],
         First \in Calls' /\ Frame(First)'.kind = "all" <=> First \in Calls /\ Frame(First).kind = "all"
  PROVE  StagesOK'
<1>1. \A u \in Threads : place'[u] # "out" => job'[u] # <<>> /\ job'[u][1].kind = "collect"
  BY Zenon DEF StagesOK
<1>2. phase' \in {"ended", "disposed"} => job'[Main] = <<>>
  BY Zenon, ForeignConstants DEF StagesOK
<1>3. phase' = "gathered" <=> First \in Calls' /\ Frame(First)'.kind = "all"
  BY Zenon DEF StagesOK
<1>4. (phase' # "gathered" => held' = {}) /\ (phase' \in {"running", "ended"} => gathered' = {})
  BY Zenon DEF StagesOK
<1> QED
  BY Zenon, <1>1, <1>2, <1>3, <1>4 DEF StagesOK, First

(* The innermost call of t, which is under way *)
LEMMA TopFrame ==
  ASSUME ForeignInv, NEW t \in Threads, job[t] # <<>>
  PROVE  \E n \in Nat :
           /\ Len(job[t]) = n + 1 /\ <<t, n>> \in Calls /\ Frame(<<t, n>>) = job[t][1]
           /\ job[t][1] \in JobType
           /\ \/ IsCollect(<<t, n>>) \/ IsAll(<<t, n>>) \/ IsRelease(<<t, n>>) \/ IsDispose(<<t, n>>)
BY Zenon, TopCall DEF ForeignInv, TypesOK, FramesOK

(* No block is made, and none gets another id. *)
SameNames ==
  \A b \in Blocks : /\ ctl'[b].life = "none" <=> ctl[b].life = "none"
                    /\ ctl'[b].debugId = ctl[b].debugId

(* The order of the blocks stays. *)
LEMMA SameIds ==
  ASSUME IdsOK, SameNames
  PROVE  IdsOK' /\ Created' = Created
<1>1. Created' = Created
  BY Zenon DEF SameNames, Created
<1>2. \A b \in Created : ctl'[b].debugId = ctl[b].debugId
  BY Zenon DEF SameNames, Created
<1> QED
  BY <1>1, <1>2 DEF IdsOK

(* The next block of the loop stays the next. *)
LEMMA SameNext ==
  ASSUME held \subseteq Blocks, held' = held, SameNames
  PROVE  \A b \in Blocks : NextHeld(b)' <=> NextHeld(b)
BY Zenon DEF SameNames, NextHeld

(* A call that does not take part in the step *)
LEMMA FrameKept ==
  ASSUME ForeignInv, NEW q \in Calls, Frame(q)' = Frame(q), phase' = phase, held' = held, SameNames,
         phase = "gathered" => Frame(First)' = Frame(First),
         \A w \in Wrappers : Frame(q).wrapper = w => wrapper'[w] = wrapper[w],
         disposed \subseteq disposed',
         \A b \in Blocks : Frame(q).block = b /\ ctl[b].refs = 0 => ctl'[b].refs = 0,
         \A b \in Blocks : Frame(q).block = b /\ ~ctl[b].disposed /\ q = Second /\ Frame(q).step = "claim"
                             /\ NextHeld(b) /\ IsDispose(q)
           => ~ctl'[b].disposed
  PROVE  IsCollect(q)' \/ IsAll(q)' \/ IsRelease(q)' \/ IsDispose(q)'
<1>1. First' = First /\ Second' = Second
  BY Zenon DEF First, Second
<1>2. \A b \in Blocks : NextHeld(b)' <=> NextHeld(b)
  BY Zenon, SameNext DEF ForeignInv, TypesOK
<1>3. IsCollect(q) => IsCollect(q)'
  BY Zenon DEF IsCollect
<1>4. IsAll(q) => IsAll(q)'
  BY Zenon, <1>1 DEF IsAll
<1>5. IsRelease(q) => IsRelease(q)'
  BY Zenon DEF IsRelease
<1>6. ASSUME IsDispose(q) PROVE IsDispose(q)'
  <2>1. PICK b \in Blocks : b = Frame(q).block
    BY Zenon, <1>6 DEF IsDispose
  <2>2. CASE Frame(q).wrapper \in Wrappers
    BY Zenon, <1>6, <2>1, <2>2, ForeignConstants DEF IsDispose
  <2>3. CASE Frame(q).wrapper \notin Wrappers
    <3>1. /\ Frame(q).wrapper = None /\ q = Second /\ phase = "gathered"
          /\ NextHeld(b) /\ Frame(First).step = "release"
          /\ Frame(q).step = "claim" => ~ctl[b].disposed
      BY Zenon, <1>6, <2>1, <2>3 DEF IsDispose
    <3>2. Frame(q).step = "claim" => ~ctl'[b].disposed
      BY Zenon, <1>6, <2>1, <3>1
    <3>3. NextHeld(b)' /\ Frame(First)'.step = "release"
      BY Zenon, <1>2, <3>1
    <3> QED
      BY Zenon, <1>1, <1>6, <2>1, <3>1, <3>2, <3>3 DEF IsDispose
  <2> QED
    BY Zenon, <2>2, <2>3
<1> QED
  BY Zenon, <1>3, <1>4, <1>5, <1>6 DEF ForeignInv, FramesOK

(* A step that leaves the loop and what it holds alone keeps its order. *)
LEMMA EndKept ==
  ASSUME ForeignInv, phase' = phase, held' = held, gathered' = gathered, SameNames,
         phase = "gathered" => Frame(First)' = Frame(First),
         \A c \in gathered : deleted[c] = 1 => deleted'[c] = 1,
         \A c \in held : ctl'[c].disposed /\ ~ctl[c].disposed => NextHeld(c) /\ Frame(First).step = "release",
         phase = "gathered" /\ Frame(First).step = "release" =>
           /\ Second \in Calls' => Second \in Calls /\ Frame(Second)'.kind = Frame(Second).kind
           /\ Second \in Calls /\ Second \notin Calls' => \A b \in held : NextHeld(b) => deleted'[b] = 1
  PROVE  EndOK'
<1>0. First' = First /\ Second' = Second
  BY Zenon DEF First, Second
<1>1. \A b \in Blocks : NextHeld(b)' <=> NextHeld(b)
  BY Zenon, SameNext DEF ForeignInv, TypesOK
<1>2. /\ Created' = Created /\ held \subseteq Blocks /\ gathered \subseteq Blocks
      /\ \A b \in Blocks : ctl'[b].debugId = ctl[b].debugId
  BY Zenon, SameIds DEF ForeignInv, TypesOK, SameNames
<1>3. held' \subseteq gathered' /\ gathered' \subseteq Created'
  BY Zenon, <1>2 DEF ForeignInv, EndOK
<1>4. \A b \in gathered' \ held' : deleted'[b] = 1 /\ \A c \in held' : ctl'[c].debugId < ctl'[b].debugId
  BY <1>2 DEF ForeignInv, EndOK
<1>5. ASSUME NEW c \in held', ctl'[c].disposed PROVE NextHeld(c)' /\ Frame(First)'.step = "release"
  <2>1. phase = "gathered"
    BY Zenon, <1>5 DEF ForeignInv, StagesOK
  <2>2. NextHeld(c) /\ Frame(First).step = "release"
    BY Zenon, <1>5 DEF ForeignInv, EndOK
  <2> QED
    BY Zenon, <1>1, <1>2, <1>5, <2>1, <2>2
<1>6. ASSUME phase' = "gathered", Frame(First)'.step = "release"
      PROVE  IF Second \in Calls' THEN Frame(Second)'.kind = "dispose"
                                  ELSE \A b \in held' : NextHeld(b)' => deleted'[b] = 1
  <2>1. phase = "gathered" /\ Frame(First).step = "release"
    BY Zenon, <1>6
  <2>2. CASE Second \in Calls'
    BY Zenon, <2>1, <2>2 DEF ForeignInv, EndOK
  <2>3. CASE Second \notin Calls' /\ Second \in Calls
    BY Zenon, <1>1, <1>2, <2>1, <2>3
  <2>4. CASE Second \notin Calls' /\ Second \notin Calls
    <3>1. \A b \in held : NextHeld(b) => deleted[b] = 1
      BY Zenon, <2>1, <2>4 DEF ForeignInv, EndOK
    <3> QED
      BY Zenon, <1>1, <1>2, <2>4, <3>1 DEF ForeignInv, EndOK
  <2> QED
    BY Zenon, <2>2, <2>3, <2>4
<1> QED
  BY Zenon, <1>0, <1>3, <1>4, <1>5, <1>6 DEF EndOK

(* The innermost call of t is at work on a block. *)
LEMMA TopOnBlock ==
  ASSUME ForeignInv, NEW t \in Threads, job[t] # <<>>,
         job[t][1].step \in {"drop", "claim", "take", "delete", "free"}
  PROVE  /\ job[t][1].block \in Blocks /\ job[t][1].kind \notin {"all", "collect"}
         /\ job[t][1] \in JobType
         /\ \E n \in Nat :
              /\ Len(job[t]) = n + 1 /\ <<t, n>> \in Calls /\ Frame(<<t, n>>) = job[t][1]
              /\ IsRelease(<<t, n>>) \/ IsDispose(<<t, n>>)
              /\ CallOK(<<t, n>>, job[t][1].block)
<1>1. PICK n \in Nat :
           /\ Len(job[t]) = n + 1 /\ <<t, n>> \in Calls /\ Frame(<<t, n>>) = job[t][1]
           /\ job[t][1] \in JobType
           /\ \/ IsCollect(<<t, n>>) \/ IsAll(<<t, n>>) \/ IsRelease(<<t, n>>) \/ IsDispose(<<t, n>>)
  BY Zenon, TopFrame
<1>2. IsRelease(<<t, n>>) \/ IsDispose(<<t, n>>)
  BY Zenon, <1>1 DEF IsCollect, IsAll
<1>3. job[t][1].block \in Blocks /\ job[t][1].kind \notin {"all", "collect"}
  BY Zenon, <1>1, <1>2 DEF IsRelease, IsDispose
<1>4. CallOK(<<t, n>>, job[t][1].block)
  BY Zenon, <1>1, <1>3 DEF ForeignInv, CallsOK
<1> QED
  BY Zenon, <1>1, <1>2, <1>3, <1>4

(* How such a call goes on, or returns *)
LEMMA BlockCallGoes ==
  ASSUME ForeignInv, NEW t \in Threads, job[t] # <<>>,
         job[t][1].step \in {"drop", "claim", "take", "delete", "free"},
         NEW st \in Steps, Goto(t, st), place' = place, place[t] = "out",
         phase' = phase, held' = held, gathered' = gathered
  PROVE  /\ JobsType' /\ StagesOK'
         /\ \E p \in Calls :
              /\ Changed(p, [job[t][1] EXCEPT !.step = st]) /\ Frame(p) = job[t][1]
              /\ (IsRelease(p) \/ IsDispose(p)) /\ CallOK(p, job[t][1].block)
              /\ phase = "gathered" => Frame(First)' = Frame(First)
<1>0. JobsType /\ job[t][1] \in JobType /\ job[t][1].kind \notin {"all", "collect"}
  BY Zenon, TopOnBlock DEF ForeignInv, TypesOK
<1>1. PICK j : j = [job[t][1] EXCEPT !.step = st]
  BY Zenon
<1>2. j.kind = job[t][1].kind
  BY Zenon, <1>0, <1>1 DEF JobType
<1>3. PICK n \in Nat : Frame(<<t, n>>) = job[t][1] /\ Changed(<<t, n>>, j)
  BY Zenon, <1>0, <1>1, GotoChanges
<1>4. JobsType' /\ \A u \in Threads \ {t} : job'[u] = job[u]
  BY Zenon, <1>0, GotoChanges
<1>5. phase = "gathered" => Frame(First)' = Frame(First)
  BY Zenon, <1>0, <1>3 DEF Changed, ForeignInv, StagesOK
<1>6. First \in Calls' /\ Frame(First)'.kind = "all" <=> First \in Calls /\ Frame(First).kind = "all"
  BY Zenon, <1>0, <1>2, <1>3 DEF Changed
<1>7. StagesOK'
  BY Zenon, <1>4, <1>6, StagesKept DEF ForeignInv
<1>8. <<t, n>> \in Calls /\ job[t][1].block \in Blocks
  BY Zenon, <1>3, TopOnBlock DEF Changed
<1>9. (IsRelease(<<t, n>>) \/ IsDispose(<<t, n>>)) /\ CallOK(<<t, n>>, job[t][1].block)
  BY Zenon, <1>3, <1>8, BlockCall DEF ForeignInv, CallsOK
<1> QED
  BY Zenon, <1>1, <1>3, <1>4, <1>5, <1>7, <1>8, <1>9

(* The call ends. *)
LEMMA BlockCallReturns ==
  ASSUME ForeignInv, NEW t \in Threads, job[t] # <<>>,
         job[t][1].step \in {"drop", "claim", "take", "delete", "free"},
         Return(t), place' = place, place[t] = "out",
         phase' = phase, held' = held, gathered' = gathered
  PROVE  /\ JobsType' /\ StagesOK'
         /\ \E p \in Calls :
              /\ Popped(p) /\ Frame(p) = job[t][1]
              /\ (IsRelease(p) \/ IsDispose(p)) /\ CallOK(p, job[t][1].block)
              /\ phase = "gathered" => Frame(First)' = Frame(First)
<1>0. JobsType /\ job[t][1] \in JobType /\ job[t][1].kind \notin {"all", "collect"}
  BY Zenon, TopOnBlock DEF ForeignInv, TypesOK
<1>3. PICK n \in Nat : Frame(<<t, n>>) = job[t][1] /\ Popped(<<t, n>>)
  BY Zenon, <1>0, ReturnPops
<1>4. JobsType' /\ \A u \in Threads \ {t} : job'[u] = job[u]
  BY Zenon, <1>0, ReturnPops
<1>5. phase = "gathered" => Frame(First)' = Frame(First)
  BY Zenon, <1>0, <1>3 DEF Popped, ForeignInv, StagesOK
<1>6. First \in Calls' /\ Frame(First)'.kind = "all" <=> First \in Calls /\ Frame(First).kind = "all"
  BY Zenon, <1>0, <1>3 DEF Popped
<1>7. StagesOK'
  BY Zenon, <1>4, <1>6, StagesKept DEF ForeignInv
<1>8. <<t, n>> \in Calls /\ job[t][1].block \in Blocks
  BY Zenon, <1>3, TopOnBlock DEF Popped
<1>9. (IsRelease(<<t, n>>) \/ IsDispose(<<t, n>>)) /\ CallOK(<<t, n>>, job[t][1].block)
  BY Zenon, <1>3, <1>8, BlockCall DEF ForeignInv, CallsOK
<1> QED
  BY Zenon, <1>3, <1>4, <1>5, <1>7, <1>8, <1>9

(* What a step on b leaves alone *)
OnBlock(b) ==
  /\ b \in Blocks /\ UNCHANGED <<wrapper, phase, held, gathered, disposed, owed, place>>
  /\ ctl' \in [Blocks -> ControlType] /\ deleted' \in [Blocks -> Nat]
  /\ \A c \in Blocks \ {b} : ctl'[c] = ctl[c] /\ deleted'[c] = deleted[c]
  /\ ctl'[b].debugId = ctl[b].debugId
  /\ ctl'[b].life = "none" <=> ctl[b].life = "none"

(* A step on a block makes none. *)
LEMMA OnBlockNames == ASSUME NEW b, OnBlock(b) PROVE SameNames
BY Zenon DEF OnBlock, SameNames

(* The calls on other blocks stay in order. *)
LEMMA OtherCalls ==
  ASSUME ForeignInv, NEW b \in Blocks, OnBlock(b), NEW q \in Calls, Frame(q)' = Frame(q),
         NEW c \in Blocks \ {b}, Frame(q).block = c
  PROVE  CallOK(q, c)'
<1>1. CallOK(q, c)
  BY Zenon DEF ForeignInv, CallsOK
<1>2. ctl'[c] = ctl[c] /\ deleted'[c] = deleted[c]
  BY Zenon DEF OnBlock
<1> QED
  BY Zenon, <1>1, <1>2 DEF CallOK

(* The references to other blocks stay. *)
LEMMA OtherRefs ==
  ASSUME NEW b \in Blocks, OnBlock(b), NEW c \in Blocks \ {b}, Dropping(c)' = Dropping(c)
  PROVE  SameRef(c)
BY Zenon, SameWrapping DEF OnBlock, SameRef

(* A release that has begun gives its reference up. *)
OneDropped ==
  \E b \in Blocks :
    /\ \E p \in Dropping(b) : Dropping(b)' = Dropping(b) \ {p}
    /\ wrapper' = wrapper /\ owed' = owed /\ held' = held /\ ctl'[b].refs = ctl[b].refs - 1
    /\ \A c \in Blocks \ {b} : SameRef(c)

(* A control block is given new contents. *)
LEMMA ControlSet ==
  ASSUME ctl \in [Blocks -> ControlType], NEW b \in Blocks, NEW r \in ControlType,
         ctl' = [ctl EXCEPT ![b] = r]
  PROVE  ctl' \in [Blocks -> ControlType] /\ ctl'[b] = r /\ \A c \in Blocks \ {b} : ctl'[c] = ctl[c]
BY Zenon

(* No resource changes hands. *)
SameStates ==
  /\ deleted' = deleted
  /\ \A b \in Blocks : /\ ctl'[b].life = ctl[b].life /\ ctl'[b].disposed = ctl[b].disposed
                       /\ ctl'[b].resource = ctl[b].resource

(* The blocks stay in order when no resource changes hands. *)
LEMMA BlocksKept ==
  ASSUME BlocksOK, SameStates, \A b \in Blocks : ctl'[b].refs > 0 => ctl[b].life = "live",
         \A b \in Blocks : \A q \in Calls : Using(q, b) => q \in Calls' /\ Using(q, b)'
  PROVE  BlocksOK'
BY DEF BlocksOK, SameStates

(* And so does a call that goes on as it was. *)
LEMMA CallKept ==
  ASSUME CallsOK, SameStates, NEW q \in Calls, Frame(q)' = Frame(q), NEW b \in Blocks, Frame(q).block = b
  PROVE  CallOK(q, b)'
BY DEF CallsOK, CallOK, SameStates

(* Steps that move no reference *)
LEMMA RefsKept ==
  ASSUME ForeignInv, NEW b \in Blocks, OnBlock(b), ctl'[b].refs = ctl[b].refs,
         \A c \in Blocks : Dropping(c)' = Dropping(c)
  PROVE  KeepsRefs
<1>1. ASSUME NEW c \in Blocks PROVE SameRef(c)
  <2>1. wrapper' = wrapper /\ owed' = owed /\ held' = held /\ ctl'[c].refs = ctl[c].refs
    BY Zenon DEF OnBlock
  <2> QED
    BY Zenon, <2>1, SameWrapping DEF SameRef
<1> QED
  BY Zenon, <1>1 DEF KeepsRefs

(* The loop of disposeAllForeignResources stays with its call. *)
LEMMA SecondKept ==
  ASSUME ForeignInv, NEW p \in Calls, Calls' = Calls \/ Calls' = Calls \ {p},
         \A q \in Calls' : q = p \/ Frame(q)' = Frame(q),
         p \in Calls' => Frame(p)'.kind = Frame(p).kind,
         Calls' = Calls \ {p} => ~(p = Second /\ phase = "gathered" /\ IsDispose(p))
  PROVE  phase = "gathered" /\ Frame(First).step = "release" =>
           /\ Second \in Calls' => Second \in Calls /\ Frame(Second)'.kind = Frame(Second).kind
           /\ Second \in Calls /\ Second \notin Calls' => \A c \in held : NextHeld(c) => deleted'[c] = 1
<1> SUFFICES ASSUME phase = "gathered", Frame(First).step = "release"
             PROVE  /\ Second \in Calls' => Second \in Calls /\ Frame(Second)'.kind = Frame(Second).kind
                    /\ Second \in Calls => Second \in Calls'
  BY Zenon
<1>1. Second \in Calls => Frame(Second).kind = "dispose"
  BY Zenon DEF ForeignInv, EndOK
<1>2. Second \in Calls => IsDispose(Second)
  BY Zenon, <1>1 DEF ForeignInv, FramesOK, IsCollect, IsAll, IsRelease
<1> QED
  BY Zenon, <1>2

(* Of the blocks held one is next. *)
LEMMA OneNextHeld ==
  ASSUME ForeignInv, NEW b, NextHeld(b), NEW c, NextHeld(c)
  PROVE  c = b
<1>1. b \in Created /\ c \in Created /\ ctl[b].debugId <= ctl[c].debugId /\ ctl[c].debugId <= ctl[b].debugId
  BY Zenon DEF NextHeld, ForeignInv, EndOK
<1>2. ctl[b].debugId \in Nat /\ ctl[c].debugId \in Nat
  BY Zenon, <1>1 DEF Created, ForeignInv, TypesOK, ControlType
<1>3. ctl[b].debugId = ctl[c].debugId
  BY <1>1, <1>2
<1> QED
  BY Zenon, <1>1, <1>3 DEF ForeignInv, IdsOK

-----------------------------------------------------------------------------
(* ForeignResourceControlBlock, step by step *)

(* release gives up a reference, not the last. *)
LEMMA InvDrop ==
  ASSUME ForeignInv, Referred, QueueShape, NEW t \in Threads, Drop(t), ctl[job[t][1].block].refs # 1
  PROVE  ForeignInv' /\ OneDropped
<1>0. PICK b : b = job[t][1].block
  BY Zenon
<1>1. /\ job[t] # <<>> /\ job[t][1].step = "drop" /\ place[t] = "out" /\ Return(t)
      /\ UNCHANGED <<wrapper, phase, held, gathered, disposed, deleted, owed, place, registry>>
      /\ ctl' = [ctl EXCEPT ![b].refs = @ - 1]
  BY Zenon, <1>0 DEF Drop, Calling, Called, endVars, queueVars
<1>2. b \in Blocks
  BY Zenon, <1>0, <1>1, TopOnBlock
<1>3. JobsType' /\ StagesOK'
  BY Zenon, <1>1, BlockCallReturns
<1>4. PICK p \in Calls : /\ Popped(p) /\ Frame(p) = job[t][1]
                         /\ phase = "gathered" => Frame(First)' = Frame(First)
                         /\ (IsRelease(p) \/ IsDispose(p)) /\ CallOK(p, b)
  BY Zenon, <1>0, <1>1, BlockCallReturns
<1>5. Frame(p).block = b /\ Frame(p).step = "drop" /\ IsRelease(p)
  BY Zenon, <1>0, <1>1, <1>4 DEF IsDispose
<1>6. p \in Dropping(b) /\ Dropping(b)' = Dropping(b) \ {p} /\ \A c \in Blocks \ {b} : Dropping(c)' = Dropping(c)
  BY Zenon, <1>4, <1>5, DroppingPopped
<1>7. TypesOK /\ Referred
  BY Zenon DEF ForeignInv
<1>8. ctl[b].refs > 1 /\ ctl[b].refs \in Nat
  <2>1. ctl[b].refs > 0 /\ ctl[b].refs \in Nat
    BY Zenon, <1>2, <1>6, <1>7 DEF Referred, TypesOK, ControlType
  <2> QED
    BY <1>0, <2>1
<1>9. /\ ctl'[b].refs = ctl[b].refs - 1 /\ ctl'[b].life = ctl[b].life /\ ctl'[b].disposed = ctl[b].disposed
      /\ ctl'[b].resource = ctl[b].resource /\ ctl'[b].debugId = ctl[b].debugId
      /\ ctl' \in [Blocks -> ControlType] /\ \A c \in Blocks \ {b} : ctl'[c] = ctl[c]
  <2>1. PICK r : r = [ctl[b] EXCEPT !.refs = ctl[b].refs - 1]
    BY Zenon
  <2>2. /\ r \in ControlType /\ r.refs = ctl[b].refs - 1 /\ r.life = ctl[b].life
        /\ r.disposed = ctl[b].disposed /\ r.resource = ctl[b].resource /\ r.debugId = ctl[b].debugId
    BY <1>2, <1>7, <1>8, <2>1 DEF TypesOK, ControlType
  <2>3. ctl' = [ctl EXCEPT ![b] = r] /\ ctl \in [Blocks -> ControlType]
    BY Zenon, <1>1, <1>2, <1>7, <2>1 DEF TypesOK
  <2> QED
    BY Zenon, <1>2, <2>2, <2>3, ControlSet
<1>10. OnBlock(b) /\ SameNames /\ SameStates
  BY ZenonT(40), <1>1, <1>2, <1>7, <1>9, OnBlockNames DEF OnBlock, TypesOK, SameStates
<1>11. TypesOK'
  BY <1>1, <1>3, <1>7, <1>8, <1>9 DEF TypesOK
<1>12. \A q \in Calls' : q \in Calls /\ q # p /\ Frame(q)' = Frame(q)
  BY Zenon, <1>4 DEF Popped
<1>13. FramesOK'
  <2> SUFFICES ASSUME NEW q \in Calls' PROVE IsCollect(q)' \/ IsAll(q)' \/ IsRelease(q)' \/ IsDispose(q)'
    BY Zenon DEF FramesOK
  <2>1. \A c \in Blocks : (ctl[c].refs = 0 => ctl'[c].refs = 0) /\ (~ctl[c].disposed => ~ctl'[c].disposed)
    BY <1>8, <1>9
  <2> QED
    BY Zenon, <1>1, <1>4, <1>10, <1>12, <2>1, FrameKept
<1>14. BlocksOK'
  <2>1. \A c \in Blocks : ctl'[c].refs > 0 => ctl[c].life = "live"
    BY <1>8, <1>9 DEF ForeignInv, BlocksOK
  <2>2. \A c \in Blocks : \A q \in Calls : Using(q, c) => q \in Calls' /\ Using(q, c)'
    BY Zenon, <1>4, <1>5 DEF Popped, Using
  <2> QED
    BY Zenon, <1>10, <2>1, <2>2, BlocksKept DEF ForeignInv
<1>15. CallsOK'
  <2>1. \A q \in Calls' : \A c \in Blocks : Frame(q)'.block = c => CallOK(q, c)'
    BY Zenon, <1>10, <1>12, CallKept DEF ForeignInv
  <2>2. \A q \in Calls' : \A c \in Blocks : (Using(q, c)' => Using(q, c)) /\ (Last(q, c)' => Last(q, c))
    BY Zenon, <1>12 DEF Using, Last
  <2> QED
    BY Zenon, <1>12, <2>1, <2>2 DEF ForeignInv, CallsOK
<1>16. OneDropped
  <2>1. \A c \in Blocks \ {b} : SameRef(c)
    BY Zenon, <1>2, <1>6, <1>10, OtherRefs
  <2> QED
    BY Zenon, <1>1, <1>2, <1>6, <1>9, <2>1 DEF OneDropped
<1>17. UsableOK'
  <2>1. \A c \in Blocks : (ctl'[c].disposed => ctl[c].disposed) /\ (ctl[c].refs = 0 => ctl'[c].refs = 0)
    BY <1>8, <1>9
  <2> QED
    BY Zenon, <1>1, <2>1 DEF ForeignInv, UsableOK
<1>18. IdsOK'
  BY Zenon, <1>10, SameIds DEF ForeignInv
<1>19. EndOK'
  <2>1. \A c \in Blocks : ctl'[c].disposed = ctl[c].disposed
    BY Zenon, <1>9
  <2>2. \A c \in held : c \in Blocks
    BY Zenon, <1>7 DEF TypesOK
  <2>3. phase = "gathered" /\ Frame(First).step = "release" /\ Second \in Calls => Frame(Second).kind = "dispose"
    BY Zenon DEF ForeignInv, EndOK
  <2>4. Frame(p).kind # "dispose"
    BY Zenon, <1>5 DEF IsRelease
  <2>5. phase = "gathered" /\ Frame(First).step = "release" =>
           /\ Second \in Calls' => Second \in Calls /\ Frame(Second)'.kind = Frame(Second).kind
           /\ Second \in Calls /\ Second \notin Calls' => \A c \in held : NextHeld(c) => deleted'[c] = 1
    BY Zenon, <1>4, <1>12, <2>3, <2>4 DEF Popped
  <2> QED
    BY Zenon, <1>1, <1>4, <1>10, <2>1, <2>2, <2>5, EndKept
<1> QED
  BY Zenon, <1>3, <1>11, <1>13, <1>14, <1>15, <1>16, <1>17, <1>18, <1>19 DEF ForeignInv

(* release gives up the last reference. *)
LEMMA InvDropLast ==
  ASSUME ForeignInv, Referred, QueueShape, NEW t \in Threads, Drop(t), ctl[job[t][1].block].refs = 1
  PROVE  ForeignInv' /\ OneDropped
<1>0. PICK b : b = job[t][1].block
  BY Zenon
<1>1. /\ job[t] # <<>> /\ job[t][1].step = "drop" /\ place[t] = "out" /\ Goto(t, "claim")
      /\ UNCHANGED <<wrapper, phase, held, gathered, disposed, deleted, owed, place>>
      /\ registry' = registry \ {b}
      /\ ctl' = [ctl EXCEPT ![b].refs = @ - 1]
  BY ZenonT(40), <1>0 DEF Drop, Calling, Called, endVars, queueVars
<1>2. b \in Blocks
  BY Zenon, <1>0, <1>1, TopOnBlock
<1>3. JobsType' /\ StagesOK'
  BY Zenon, <1>1, BlockCallGoes DEF Steps
<1>4. PICK p \in Calls : /\ Changed(p, [job[t][1] EXCEPT !.step = "claim"]) /\ Frame(p) = job[t][1]
                         /\ phase = "gathered" => Frame(First)' = Frame(First)
                         /\ (IsRelease(p) \/ IsDispose(p)) /\ CallOK(p, b)
  BY Zenon, <1>0, <1>1, BlockCallGoes DEF Steps
<1>5. /\ Frame(p).block = b /\ Frame(p).step = "drop" /\ IsRelease(p)
      /\ Frame(p)'.block = b /\ Frame(p)'.step = "claim" /\ Frame(p)'.wrapper = None
      /\ Frame(p)'.kind = Frame(p).kind
  <2>1. Frame(p).block = b /\ Frame(p).step = "drop" /\ IsRelease(p)
    BY Zenon, <1>0, <1>1, <1>4 DEF IsDispose
  <2>2. job[t][1] \in JobType /\ Frame(p)' = [job[t][1] EXCEPT !.step = "claim"]
    BY Zenon, <1>1, <1>4, TopOnBlock DEF Changed
  <2> QED
    BY Zenon, <1>4, <2>1, <2>2 DEF JobType, IsRelease
<1>6. p \in Dropping(b) /\ Dropping(b)' = Dropping(b) \ {p} /\ \A c \in Blocks \ {b} : Dropping(c)' = Dropping(c)
  <2>1. Calls' = Calls /\ \A q \in Calls : q = p \/ Frame(q)' = Frame(q)
    BY Zenon, <1>4 DEF Changed
  <2> QED
    BY Zenon, <1>5, <2>1, DroppingChanged
<1>7. TypesOK /\ Referred
  BY Zenon DEF ForeignInv
<1>8. ctl[b].refs = 1
  BY Zenon, <1>0
<1>9. /\ ctl'[b].refs = ctl[b].refs - 1 /\ ctl'[b].life = ctl[b].life /\ ctl'[b].disposed = ctl[b].disposed
      /\ ctl'[b].resource = ctl[b].resource /\ ctl'[b].debugId = ctl[b].debugId
      /\ ctl' \in [Blocks -> ControlType] /\ \A c \in Blocks \ {b} : ctl'[c] = ctl[c]
  <2>1. PICK r : r = [ctl[b] EXCEPT !.refs = ctl[b].refs - 1]
    BY Zenon
  <2>2. /\ r \in ControlType /\ r.refs = ctl[b].refs - 1 /\ r.life = ctl[b].life
        /\ r.disposed = ctl[b].disposed /\ r.resource = ctl[b].resource /\ r.debugId = ctl[b].debugId
    BY <1>2, <1>7, <1>8, <2>1 DEF TypesOK, ControlType
  <2>3. ctl' = [ctl EXCEPT ![b] = r] /\ ctl \in [Blocks -> ControlType]
    BY Zenon, <1>1, <1>2, <1>7, <2>1 DEF TypesOK
  <2> QED
    BY Zenon, <1>2, <2>2, <2>3, ControlSet
<1>10. OnBlock(b) /\ SameNames /\ SameStates
  BY SMTT(30), <1>1, <1>2, <1>7, <1>9, OnBlockNames DEF OnBlock, TypesOK, SameStates
<1>11. TypesOK'
  BY <1>1, <1>3, <1>7, <1>8, <1>9 DEF TypesOK
<1>12. Calls' = Calls /\ \A q \in Calls : q = p \/ Frame(q)' = Frame(q)
  BY Zenon, <1>4 DEF Changed
<1>13. FramesOK'
  <2> SUFFICES ASSUME NEW q \in Calls' PROVE IsCollect(q)' \/ IsAll(q)' \/ IsRelease(q)' \/ IsDispose(q)'
    BY Zenon DEF FramesOK
  <2>1. \A c \in Blocks : (ctl[c].refs = 0 => ctl'[c].refs = 0) /\ (~ctl[c].disposed => ~ctl'[c].disposed)
    BY <1>8, <1>9
  <2>2. IsRelease(p)'
    <3>1. Frame(p)'.kind \in {"release", "in place"}
      BY Zenon, <1>5 DEF IsRelease
    <3>2. ctl'[b].refs = 0
      BY <1>8, <1>9
    <3> QED
      BY Zenon, <1>2, <1>5, <3>1, <3>2 DEF IsRelease
  <2> QED
    BY Zenon, <1>1, <1>4, <1>10, <1>12, <2>1, <2>2, FrameKept
<1>14. BlocksOK'
  <2>1. \A c \in Blocks : ctl'[c].refs > 0 => ctl[c].life = "live"
    BY <1>8, <1>9 DEF ForeignInv, BlocksOK
  <2>2. \A c \in Blocks : \A q \in Calls : Using(q, c) => q \in Calls' /\ Using(q, c)'
    BY Zenon, <1>5, <1>12 DEF Using
  <2> QED
    BY Zenon, <1>10, <2>1, <2>2, BlocksKept DEF ForeignInv
<1>15. CallsOK'
  <2>1. \A q \in Calls' : \A c \in Blocks : Frame(q)'.block = c => CallOK(q, c)'
    <3>1. CallOK(p, b)'
      BY Zenon, <1>2, <1>4, <1>5, <1>9 DEF CallOK
    <3> QED
      BY Zenon, <1>5, <1>10, <1>12, <3>1, CallKept DEF ForeignInv
  <2>2. \A q \in Calls : \A c \in Blocks : Using(q, c)' => Using(q, c)
    BY Zenon, <1>5, <1>12 DEF Using
  <2>3. \A q \in Calls : \A c \in Blocks : Last(q, c)' => Last(q, c) \/ (q = p /\ c = b)
    BY Zenon, <1>5, <1>12 DEF Last
  <2>4. \A q \in Calls : ~Last(q, b)
    <3> SUFFICES ASSUME NEW q \in Calls, Last(q, b) PROVE FALSE
      BY Zenon
    <3>1. Frame(q).block = b /\ Frame(q).kind # "dispose" /\ Frame(q).step # "drop"
      BY Zenon DEF Last
    <3>2. IsRelease(q)
      BY Zenon, <1>2, <3>1, BlockCall DEF IsDispose, ForeignInv
    <3>3. ctl[b].refs = 0
      BY Zenon, <3>1, <3>2 DEF IsRelease
    <3> QED
      BY ONLY <1>8, <3>3
  <2> QED
    BY SMTT(30), <1>12, <2>1, <2>2, <2>3, <2>4 DEF ForeignInv, CallsOK
<1>16. OneDropped
  <2>1. \A c \in Blocks \ {b} : SameRef(c)
    BY Zenon, <1>2, <1>6, <1>10, OtherRefs
  <2> QED
    BY Zenon, <1>1, <1>2, <1>6, <1>9, <2>1 DEF OneDropped
<1>17. UsableOK'
  <2>1. \A c \in Blocks : (ctl'[c].disposed => ctl[c].disposed) /\ (ctl[c].refs = 0 => ctl'[c].refs = 0)
    BY <1>8, <1>9
  <2> QED
    BY Zenon, <1>1, <2>1 DEF ForeignInv, UsableOK
<1>18. IdsOK'
  BY Zenon, <1>10, SameIds DEF ForeignInv
<1>19. EndOK'
  <2>1. \A c \in Blocks : ctl'[c].disposed = ctl[c].disposed
    BY Zenon, <1>9
  <2>2. \A c \in held : c \in Blocks
    BY Zenon, <1>7 DEF TypesOK
  <2>5. phase = "gathered" /\ Frame(First).step = "release" =>
           /\ Second \in Calls' => Second \in Calls /\ Frame(Second)'.kind = Frame(Second).kind
           /\ Second \in Calls /\ Second \notin Calls' => \A c \in held : NextHeld(c) => deleted'[c] = 1
    BY Zenon, <1>5, <1>12
  <2> QED
    BY Zenon, <1>1, <1>4, <1>10, <2>1, <2>2, <2>5, EndKept
<1> QED
  BY Zenon, <1>3, <1>11, <1>13, <1>14, <1>15, <1>16, <1>17, <1>18, <1>19 DEF ForeignInv

(* The exchange of disposed_ finds it clear. *)
LEMMA InvClaim ==
  ASSUME ForeignInv, Referred, QueueShape, NEW t \in Threads, Claim(t), ~ctl[job[t][1].block].disposed
  PROVE  ForeignInv' /\ KeepsRefs
<1>0. PICK b : b = job[t][1].block
  BY Zenon
<1>a. job[t] # <<>> /\ job[t][1].step = "claim" /\ place[t] = "out"
  BY Zenon DEF Claim, Calling
<1>b. b \in Blocks /\ job[t][1] \in JobType /\ \E p \in Calls : Frame(p) = job[t][1] /\ CallOK(p, b)
  BY ZenonT(40), <1>0, <1>a, TopOnBlock
<1>1. /\ Goto(t, "take") /\ UNCHANGED <<wrapper, phase, held, gathered, disposed, owed, place, registry, deleted>>
      /\ ctl' = [ctl EXCEPT ![b].disposed = TRUE]
  BY Zenon, <1>0 DEF Claim, Called, endVars, queueVars
<1>2. TypesOK /\ JobsType' /\ StagesOK'
  BY Zenon, <1>a, <1>1, BlockCallGoes DEF Steps, ForeignInv
<1>3. PICK p \in Calls : /\ Changed(p, [job[t][1] EXCEPT !.step = "take"]) /\ Frame(p) = job[t][1]
                         /\ phase = "gathered" => Frame(First)' = Frame(First)
                         /\ (IsRelease(p) \/ IsDispose(p)) /\ CallOK(p, b)
  BY Zenon, <1>0, <1>a, <1>1, BlockCallGoes DEF Steps
<1>4. Frame(p).block = b /\ Frame(p).step = "claim"
  BY Zenon, <1>0, <1>a, <1>3
<1>5. Calls' = Calls /\ \A q \in Calls : q = p \/ Frame(q)' = Frame(q)
  BY Zenon, <1>3 DEF Changed
<1>6. /\ Frame(p)'.block = b /\ Frame(p)'.step = "take" /\ Frame(p)'.wrapper = Frame(p).wrapper
      /\ Frame(p)'.kind = Frame(p).kind
  <2>1. Frame(p)' = [Frame(p) EXCEPT !.step = "take"] /\ Frame(p) \in JobType
    BY Zenon, <1>b, <1>3 DEF Changed
  <2> QED
    BY Zenon, <1>4, <2>1 DEF JobType
<1>7. \A c \in Blocks : Dropping(c)' = Dropping(c)
  BY Zenon, <1>4, <1>5, <1>6, DroppingChanged
<1>8. /\ ctl'[b].disposed = TRUE /\ ctl'[b].refs = ctl[b].refs /\ ctl'[b].life = ctl[b].life
      /\ ctl'[b].resource = ctl[b].resource /\ ctl'[b].debugId = ctl[b].debugId
      /\ ctl' \in [Blocks -> ControlType] /\ \A c \in Blocks \ {b} : ctl'[c] = ctl[c]
  <2>1. PICK r : r = [ctl[b] EXCEPT !.disposed = TRUE]
    BY Zenon
  <2>2. /\ r \in ControlType /\ r.disposed = TRUE
        /\ r.refs = ctl[b].refs /\ r.life = ctl[b].life /\ r.resource = ctl[b].resource /\ r.debugId = ctl[b].debugId
    BY Zenon, <1>b, <1>2, <2>1 DEF TypesOK, ControlType
  <2>3. ctl' = [ctl EXCEPT ![b] = r] /\ ctl \in [Blocks -> ControlType]
    BY Zenon, <1>b, <1>1, <1>2, <2>1 DEF TypesOK
  <2> QED
    BY Zenon, <1>b, <2>2, <2>3, ControlSet
<1>9. deleted' = deleted /\ deleted' \in [Blocks -> Nat]
  BY Zenon, <1>1, <1>2 DEF TypesOK
<1>10. OnBlock(b) /\ SameNames
  <2>1. OnBlock(b)
    BY Zenon, <1>b, <1>1, <1>8, <1>9 DEF OnBlock
  <2> QED
    BY Zenon, <2>1, OnBlockNames
<1>11. TypesOK'
  BY SMTT(30), <1>b, <1>1, <1>2, <1>8, <1>9 DEF TypesOK
<1>12. KeepsRefs
  BY Zenon, <1>b, <1>7, <1>8, <1>10, RefsKept
<1>13. IdsOK'
  BY Zenon, <1>10, SameIds DEF ForeignInv
<1>c. ctl[b].resource /\ deleted[b] = 0 /\ ~ctl[b].disposed /\ ctl[b].life = "live"
  BY Zenon, <1>0, <1>b, <1>3 DEF ForeignInv, BlocksOK, CallOK
<1>d. \A q \in Calls : ~Using(q, b)
  BY <1>b, <1>c DEF Using, ForeignInv, CallsOK, CallOK
<1>e. b \in held => p = Second /\ phase = "gathered" /\ NextHeld(b) /\ Frame(First).step = "release"
  <2> SUFFICES ASSUME b \in held
               PROVE  p = Second /\ phase = "gathered" /\ NextHeld(b) /\ Frame(First).step = "release"
    BY Zenon
  <2>1. phase = "gathered"
    BY Zenon DEF ForeignInv, StagesOK
  <2>2. ctl[b].refs # 0
    <3>1. FramesOK
      BY Zenon DEF ForeignInv
    <3> QED
      BY Zenon, <1>b, <1>2, <3>1, OnlyTheLast
  <2>3. IsDispose(p)
    <3>1. ~IsRelease(p)
      BY Zenon, <1>4, <2>2 DEF IsRelease
    <3> QED
      BY Zenon, <1>3, <3>1
  <2> QED
    BY Zenon, <1>4, <2>1, <2>3 DEF IsDispose
<1>14. FramesOK'
  <2>1. \A c \in Blocks : ctl[c].refs = 0 => ctl'[c].refs = 0
    BY Zenon, <1>8
  <2>2. IsRelease(p) => IsRelease(p)'
    BY Zenon, <1>b, <1>4, <1>6, <1>8 DEF IsRelease
  <2>3. IsDispose(p) => IsDispose(p)'
    <3>1. NextHeld(b) => NextHeld(b)'
      BY Zenon, <1>b, <1>1, <1>2, <1>10, SameNext DEF TypesOK
    <3>2. First' = First /\ Second' = Second
      BY Zenon DEF First, Second
    <3> QED
      BY Zenon, <1>b, <1>1, <1>3, <1>4, <1>6, <3>1, <3>2 DEF IsDispose
  <2>4. ASSUME NEW q \in Calls', q # p PROVE IsCollect(q)' \/ IsAll(q)' \/ IsRelease(q)' \/ IsDispose(q)'
    <3>1. q \in Calls /\ Frame(q)' = Frame(q)
      BY Zenon, <1>5, <2>4
    <3>2. \A c \in Blocks : q = Second /\ NextHeld(c) /\ ~ctl[c].disposed => ~ctl'[c].disposed
      BY Zenon, <1>8, <1>e, <2>4 DEF NextHeld
    <3> QED
      BY Zenon, <1>1, <1>3, <1>10, <2>1, <3>1, <3>2, FrameKept
  <2> QED
    BY Zenon, <1>3, <1>5, <2>2, <2>3, <2>4 DEF FramesOK
<1>15. BlocksOK'
  <2> SUFFICES ASSUME NEW c \in Blocks
               PROVE  /\ ctl'[c].refs > 0 => ctl'[c].life = "live"
                      /\ ctl'[c].life = "none" => ~ctl'[c].disposed
                      /\ ctl'[c].life = "freed" => deleted'[c] = 1
                      /\ ~ctl'[c].disposed => deleted'[c] = 0 /\ (ctl'[c].life # "none" => ctl'[c].resource)
                      /\ deleted'[c] <= 1
                      /\ ctl'[c].disposed /\ deleted'[c] = 0 => \E q \in Calls' : Using(q, c)'
    BY Zenon DEF BlocksOK
  <2>1. CASE c = b
    <3>1. p \in Calls' /\ Using(p, b)'
      BY Zenon, <1>5, <1>6 DEF Using
    <3> QED
      BY SMTT(30), <1>8, <1>9, <1>c, <2>1, <3>1
  <2>2. CASE c # b
    <3>1. ctl'[c] = ctl[c] /\ deleted'[c] = deleted[c]
      BY Zenon, <1>8, <1>9, <2>2
    <3>2. \A q \in Calls : Using(q, c) => q \in Calls' /\ Using(q, c)'
      BY Zenon, <1>4, <1>5, <2>2 DEF Using
    <3> QED
      BY Zenon, <3>1, <3>2 DEF ForeignInv, BlocksOK
  <2> QED
    BY Zenon, <2>1, <2>2
<1>16. CallsOK'
  <2>1. ASSUME NEW q \in Calls', NEW c \in Blocks, Frame(q)'.block = c PROVE CallOK(q, c)'
    <3>1. CASE q = p
      BY Zenon, <1>6, <1>8, <1>9, <1>c, <2>1, <3>1 DEF CallOK
    <3>2. CASE q # p /\ c # b
      BY Zenon, <1>b, <1>5, <1>10, <2>1, <3>2, OtherCalls
    <3>3. CASE q # p /\ c = b
      <4>1. CallOK(q, b) /\ ~Using(q, b) /\ Frame(q)' = Frame(q) /\ Frame(q).block = b
        BY Zenon, <1>5, <1>d, <2>1, <3>3 DEF ForeignInv, CallsOK
      <4> QED
        BY Zenon, <1>8, <1>9, <3>3, <4>1 DEF CallOK, Using
    <3> QED
      BY Zenon, <3>1, <3>2, <3>3
  <2>2. \A q \in Calls : \A c \in Blocks : Using(q, c)' => Using(q, c) \/ (q = p /\ c = b)
    BY Zenon, <1>5, <1>6 DEF Using
  <2>3. \A q \in Calls : \A c \in Blocks : Last(q, c)' => Last(q, c)
    BY Zenon, <1>4, <1>5, <1>6 DEF Last
  <2> QED
    BY SMTT(30), <1>5, <1>d, <2>1, <2>2, <2>3 DEF ForeignInv, CallsOK
<1>17. UsableOK'
  <2>1. phase = "running" => b \in disposed \/ ctl[b].refs = 0
    BY Zenon, <1>3, <1>4 DEF IsRelease, IsDispose
  <2>2. \A c \in Blocks \ {b} : ctl'[c] = ctl[c]
    BY Zenon, <1>8
  <2> QED
    BY Zenon, <1>1, <1>8, <2>1, <2>2 DEF ForeignInv, UsableOK
<1>18. EndOK'
  <2>1. \A c \in held : ctl'[c].disposed /\ ~ctl[c].disposed => NextHeld(c) /\ Frame(First).step = "release"
    BY Zenon, <1>2, <1>8, <1>e DEF TypesOK
  <2>2. phase = "gathered" /\ Frame(First).step = "release" =>
           /\ Second \in Calls' => Second \in Calls /\ Frame(Second)'.kind = Frame(Second).kind
           /\ Second \in Calls /\ Second \notin Calls' => \A c \in held : NextHeld(c) => deleted'[c] = 1
    BY Zenon, <1>5, <1>6, SecondKept
  <2> QED
    BY Zenon, <1>1, <1>3, <1>10, <2>1, <2>2, EndKept
<1> QED
  BY Zenon, <1>2, <1>11, <1>12, <1>13, <1>14, <1>15, <1>16, <1>17, <1>18 DEF ForeignInv

(* The exchange finds it set, and dispose returns. *)
LEMMA InvClaimedReturns ==
  ASSUME ForeignInv, Referred, QueueShape, NEW t \in Threads, Claim(t), ctl[job[t][1].block].disposed, job[t][1].kind = "dispose"
  PROVE  ForeignInv' /\ KeepsRefs
<1>0. PICK b : b = job[t][1].block
  BY Zenon
<1>a. job[t] # <<>> /\ job[t][1].step = "claim" /\ place[t] = "out"
  BY Zenon DEF Claim, Calling
<1>b. b \in Blocks /\ job[t][1] \in JobType /\ \E p \in Calls : Frame(p) = job[t][1] /\ CallOK(p, b)
  BY ZenonT(40), <1>0, <1>a, TopOnBlock
<1>1. /\ Return(t) /\ UNCHANGED <<wrapper, phase, held, gathered, disposed, owed, place, registry, deleted, ctl>>
  BY Zenon DEF Claim, Called, Disposed, endVars, queueVars
<1>2. TypesOK /\ JobsType' /\ StagesOK'
  BY Zenon, <1>a, <1>1, BlockCallReturns DEF ForeignInv
<1>3. PICK p \in Calls : /\ Popped(p) /\ Frame(p) = job[t][1]
                         /\ phase = "gathered" => Frame(First)' = Frame(First)
                         /\ (IsRelease(p) \/ IsDispose(p)) /\ CallOK(p, b)
  BY Zenon, <1>0, <1>a, <1>1, BlockCallReturns
<1>4. Frame(p).block = b /\ Frame(p).step = "claim"
  BY Zenon, <1>0, <1>a, <1>3
<1>5. Calls' = Calls \ {p} /\ \A q \in Calls' : Frame(q)' = Frame(q)
  BY Zenon, <1>3 DEF Popped
<1>7. \A c \in Blocks : Dropping(c)' = Dropping(c)
  BY Zenon, <1>3, <1>4, DroppingPopped
<1>8. /\ ctl' = ctl /\ ctl' \in [Blocks -> ControlType]
  BY Zenon, <1>1, <1>2 DEF TypesOK
<1>9. deleted' = deleted /\ deleted' \in [Blocks -> Nat]
  BY Zenon, <1>1, <1>2 DEF TypesOK
<1>10. OnBlock(b) /\ SameNames
  <2>1. OnBlock(b)
    BY Zenon, <1>b, <1>1, <1>8, <1>9 DEF OnBlock
  <2> QED
    BY Zenon, <2>1, OnBlockNames
<1>11. TypesOK'
  BY ZenonT(40), <1>b, <1>1, <1>2, <1>8, <1>9 DEF TypesOK
<1>12. KeepsRefs
  BY Zenon, <1>b, <1>7, <1>8, <1>10, RefsKept
<1>13. IdsOK'
  BY Zenon, <1>10, SameIds DEF ForeignInv
<1>14. FramesOK'
  <2>1. \A c \in Blocks : (ctl[c].refs = 0 => ctl'[c].refs = 0) /\ (~ctl[c].disposed => ~ctl'[c].disposed)
    BY Zenon, <1>8
  <2>2. ASSUME NEW q \in Calls' PROVE IsCollect(q)' \/ IsAll(q)' \/ IsRelease(q)' \/ IsDispose(q)'
    BY ZenonT(40), <1>1, <1>3, <1>5, <1>10, <2>1, FrameKept
  <2> QED
    BY Zenon, <2>2 DEF FramesOK
<1>15. BlocksOK'
  <2>1. SameStates
    BY Zenon, <1>8, <1>9 DEF SameStates
  <2>2. \A c \in Blocks : ctl'[c].refs > 0 => ctl[c].life = "live"
    BY Zenon, <1>8 DEF ForeignInv, BlocksOK
  <2>3. \A c \in Blocks : \A q \in Calls : Using(q, c) => q \in Calls' /\ Using(q, c)'
    BY Zenon, <1>4, <1>5 DEF Using
  <2> QED
    BY ZenonT(40), <2>1, <2>2, <2>3, BlocksKept DEF ForeignInv
<1>16. CallsOK'
  <2>1. SameStates
    BY Zenon, <1>8, <1>9 DEF SameStates
  <2>2. \A q \in Calls' : \A c \in Blocks : Frame(q)'.block = c => CallOK(q, c)'
    BY Zenon, <1>5, <2>1, CallKept DEF ForeignInv
  <2>3. \A q \in Calls' : \A c \in Blocks : (Using(q, c)' => Using(q, c)) /\ (Last(q, c)' => Last(q, c))
    BY ZenonT(40), <1>5 DEF Using, Last
  <2> QED
    BY Zenon, <1>5, <2>2, <2>3 DEF ForeignInv, CallsOK
<1>17. UsableOK'
  <2>1. \A c \in Blocks : (ctl'[c].disposed => ctl[c].disposed) /\ (ctl[c].refs = 0 => ctl'[c].refs = 0)
    BY Zenon, <1>8
  <2> QED
    BY Zenon, <1>1, <2>1 DEF ForeignInv, UsableOK
<1>18. EndOK'
  <2>1. \A c \in held : ~(ctl'[c].disposed /\ ~ctl[c].disposed)
    BY Zenon, <1>2, <1>8 DEF TypesOK
  <2>2. \A c \in gathered : deleted[c] = 1 => deleted'[c] = 1
    BY Zenon, <1>2, <1>9 DEF TypesOK
  <2>3. phase = "gathered" /\ Frame(First).step = "release" =>
           /\ Second \in Calls' => Second \in Calls /\ Frame(Second)'.kind = Frame(Second).kind
           /\ Second \in Calls /\ Second \notin Calls' => \A c \in held : NextHeld(c) => deleted'[c] = 1
    <3>1. ~(p = Second /\ phase = "gathered" /\ IsDispose(p))
      BY Zenon, <1>0, <1>4 DEF IsDispose
    <3> QED
      BY Zenon, <1>5, <3>1, SecondKept
  <2> QED
    BY ZenonT(40), <1>1, <1>3, <1>10, <2>1, <2>2, <2>3, EndKept
<1> QED
  BY Zenon, <1>2, <1>11, <1>12, <1>13, <1>14, <1>15, <1>16, <1>17, <1>18 DEF ForeignInv

(* The exchange finds it set, and the last release goes on. *)
LEMMA InvClaimedFrees ==
  ASSUME ForeignInv, Referred, QueueShape, NEW t \in Threads, Claim(t), ctl[job[t][1].block].disposed, job[t][1].kind # "dispose"
  PROVE  ForeignInv' /\ KeepsRefs
<1>0. PICK b : b = job[t][1].block
  BY Zenon
<1>a. job[t] # <<>> /\ job[t][1].step = "claim" /\ place[t] = "out"
  BY Zenon DEF Claim, Calling
<1>b. b \in Blocks /\ job[t][1] \in JobType /\ \E p \in Calls : Frame(p) = job[t][1] /\ CallOK(p, b)
  BY ZenonT(40), <1>0, <1>a, TopOnBlock
<1>1. /\ Goto(t, "free") /\ UNCHANGED <<wrapper, phase, held, gathered, disposed, owed, place, registry, deleted, ctl>>
  BY Zenon DEF Claim, Called, Disposed, endVars, queueVars
<1>2. TypesOK /\ JobsType' /\ StagesOK'
  BY Zenon, <1>a, <1>1, BlockCallGoes DEF Steps, ForeignInv
<1>3. PICK p \in Calls : /\ Changed(p, [job[t][1] EXCEPT !.step = "free"]) /\ Frame(p) = job[t][1]
                         /\ phase = "gathered" => Frame(First)' = Frame(First)
                         /\ (IsRelease(p) \/ IsDispose(p)) /\ CallOK(p, b)
  BY Zenon, <1>0, <1>a, <1>1, BlockCallGoes DEF Steps
<1>4. Frame(p).block = b /\ Frame(p).step = "claim"
  BY Zenon, <1>0, <1>a, <1>3
<1>5. Calls' = Calls /\ \A q \in Calls : q = p \/ Frame(q)' = Frame(q)
  BY Zenon, <1>3 DEF Changed
<1>6. /\ Frame(p)'.block = b /\ Frame(p)'.step = "free" /\ Frame(p)'.wrapper = Frame(p).wrapper
      /\ Frame(p)'.kind = Frame(p).kind
  <2>1. Frame(p)' = [Frame(p) EXCEPT !.step = "free"] /\ Frame(p) \in JobType
    BY Zenon, <1>b, <1>3 DEF Changed
  <2> QED
    BY Zenon, <1>4, <2>1 DEF JobType
<1>7. \A c \in Blocks : Dropping(c)' = Dropping(c)
  BY Zenon, <1>4, <1>5, <1>6, DroppingChanged
<1>8. /\ ctl' = ctl /\ ctl' \in [Blocks -> ControlType]
  BY ZenonT(40), <1>1, <1>2 DEF TypesOK
<1>9. deleted' = deleted /\ deleted' \in [Blocks -> Nat]
  BY Zenon, <1>1, <1>2 DEF TypesOK
<1>10. OnBlock(b) /\ SameNames
  <2>1. OnBlock(b)
    BY Zenon, <1>b, <1>1, <1>8, <1>9 DEF OnBlock
  <2> QED
    BY Zenon, <2>1, OnBlockNames
<1>11. TypesOK'
  BY ZenonT(40), <1>b, <1>1, <1>2, <1>8, <1>9 DEF TypesOK
<1>12. KeepsRefs
  BY Zenon, <1>b, <1>7, <1>8, <1>10, RefsKept
<1>13. IdsOK'
  BY Zenon, <1>10, SameIds DEF ForeignInv
<1>c. IsRelease(p) /\ ctl[b].refs = 0
  <2>1. IsRelease(p)
    BY Zenon, <1>3 DEF IsDispose
  <2> QED
    BY Zenon, <1>4, <2>1 DEF IsRelease
<1>d. deleted[b] = 1
  <2>1. \A q \in Calls : Frame(q).block = b => Last(q, b)
    <3>1. FramesOK
      BY Zenon DEF ForeignInv
    <3> QED
      BY Zenon, <1>b, <1>2, <1>c, <3>1, OnlyTheLast
  <2>2. \A q \in Calls : Using(q, b) => q = p
    BY Zenon, <1>b, <1>4, <2>1 DEF Using, ForeignInv, CallsOK
  <2>3. \A q \in Calls : ~Using(q, b)
    BY Zenon, <1>4, <2>2 DEF Using
  <2>4. deleted[b] # 0 /\ deleted[b] <= 1 /\ deleted[b] \in Nat
    BY ZenonT(40), <1>0, <1>b, <1>2, <2>3 DEF ForeignInv, BlocksOK, TypesOK
  <2> QED
    BY SMTT(30), <2>4
<1>14. FramesOK'
  <2>1. \A c \in Blocks : (ctl[c].refs = 0 => ctl'[c].refs = 0) /\ (~ctl[c].disposed => ~ctl'[c].disposed)
    BY Zenon, <1>8
  <2>2. IsRelease(p)'
    BY Zenon, <1>b, <1>4, <1>6, <1>8, <1>c DEF IsRelease
  <2>3. ASSUME NEW q \in Calls', q # p PROVE IsCollect(q)' \/ IsAll(q)' \/ IsRelease(q)' \/ IsDispose(q)'
    BY Zenon, <1>1, <1>3, <1>5, <1>10, <2>1, <2>3, FrameKept
  <2> QED
    BY ZenonT(40), <1>5, <2>2, <2>3 DEF FramesOK
<1>15. BlocksOK'
  <2>1. SameStates
    BY Zenon, <1>8, <1>9 DEF SameStates
  <2>2. \A c \in Blocks : ctl'[c].refs > 0 => ctl[c].life = "live"
    BY Zenon, <1>8 DEF ForeignInv, BlocksOK
  <2>3. \A c \in Blocks : \A q \in Calls : Using(q, c) => q \in Calls' /\ Using(q, c)'
    BY Zenon, <1>4, <1>5, <1>6 DEF Using
  <2> QED
    BY ZenonT(40), <2>1, <2>2, <2>3, BlocksKept DEF ForeignInv
<1>16. CallsOK'
  <2>1. SameStates
    BY Zenon, <1>8, <1>9 DEF SameStates
  <2>2. ASSUME NEW q \in Calls', NEW c \in Blocks, Frame(q)'.block = c PROVE CallOK(q, c)'
    <3>1. CASE q = p
      BY Zenon, <1>3, <1>6, <1>8, <1>9, <1>d, <2>2, <3>1 DEF CallOK
    <3>2. CASE q # p
      BY Zenon, <1>5, <2>1, <2>2, <3>2, CallKept DEF ForeignInv
    <3> QED
      BY Zenon, <3>1, <3>2
  <2>3. \A q \in Calls' : \A c \in Blocks : (Using(q, c)' => Using(q, c)) /\ (Last(q, c)' => Last(q, c))
    BY Zenon, <1>4, <1>5, <1>6 DEF Using, Last
  <2> QED
    BY Zenon, <1>5, <2>2, <2>3 DEF ForeignInv, CallsOK
<1>17. UsableOK'
  <2>1. \A c \in Blocks : (ctl'[c].disposed => ctl[c].disposed) /\ (ctl[c].refs = 0 => ctl'[c].refs = 0)
    BY Zenon, <1>8
  <2> QED
    BY Zenon, <1>1, <2>1 DEF ForeignInv, UsableOK
<1>18. EndOK'
  <2>1. \A c \in held : ~(ctl'[c].disposed /\ ~ctl[c].disposed)
    BY Zenon, <1>2, <1>8 DEF TypesOK
  <2>2. \A c \in gathered : deleted[c] = 1 => deleted'[c] = 1
    BY Zenon, <1>2, <1>9 DEF TypesOK
  <2>3. phase = "gathered" /\ Frame(First).step = "release" =>
           /\ Second \in Calls' => Second \in Calls /\ Frame(Second)'.kind = Frame(Second).kind
           /\ Second \in Calls /\ Second \notin Calls' => \A c \in held : NextHeld(c) => deleted'[c] = 1
    BY Zenon, <1>5, <1>6, SecondKept
  <2> QED
    BY Zenon, <1>1, <1>3, <1>10, <2>1, <2>2, <2>3, EndKept
<1> QED
  BY Zenon, <1>2, <1>11, <1>12, <1>13, <1>14, <1>15, <1>16, <1>17, <1>18 DEF ForeignInv

(* dispose takes the resource out of the block. *)
LEMMA InvTake ==
  ASSUME ForeignInv, Referred, QueueShape, NEW t \in Threads, Take(t)
  PROVE  ForeignInv' /\ KeepsRefs
<1>0. PICK b : b = job[t][1].block
  BY Zenon
<1>a. job[t] # <<>> /\ job[t][1].step = "take" /\ place[t] = "out"
  BY Zenon DEF Take, Calling
<1>b. b \in Blocks /\ job[t][1] \in JobType /\ \E p \in Calls : Frame(p) = job[t][1] /\ CallOK(p, b)
  BY ZenonT(40), <1>0, <1>a, TopOnBlock
<1>c. ctl[b].resource
  BY Zenon, <1>a, <1>b DEF CallOK
<1>1. /\ Goto(t, "delete") /\ UNCHANGED <<wrapper, phase, held, gathered, disposed, owed, place, registry, deleted>>
      /\ ctl' = [ctl EXCEPT ![b].resource = FALSE]
  BY Zenon, <1>0, <1>c DEF Take, Called, endVars, queueVars
<1>2. TypesOK /\ JobsType' /\ StagesOK'
  BY Zenon, <1>a, <1>1, BlockCallGoes DEF Steps, ForeignInv
<1>3. PICK p \in Calls : /\ Changed(p, [job[t][1] EXCEPT !.step = "delete"]) /\ Frame(p) = job[t][1]
                         /\ phase = "gathered" => Frame(First)' = Frame(First)
                         /\ (IsRelease(p) \/ IsDispose(p)) /\ CallOK(p, b)
  BY Zenon, <1>0, <1>a, <1>1, BlockCallGoes DEF Steps
<1>4. Frame(p).block = b /\ Frame(p).step = "take"
  BY Zenon, <1>0, <1>a, <1>3
<1>5. Calls' = Calls /\ \A q \in Calls : q = p \/ Frame(q)' = Frame(q)
  BY Zenon, <1>3 DEF Changed
<1>6. /\ Frame(p)'.block = b /\ Frame(p)'.step = "delete" /\ Frame(p)'.wrapper = Frame(p).wrapper
      /\ Frame(p)'.kind = Frame(p).kind
  <2>1. Frame(p)' = [Frame(p) EXCEPT !.step = "delete"] /\ Frame(p) \in JobType
    BY Zenon, <1>b, <1>3 DEF Changed
  <2> QED
    BY Zenon, <1>4, <2>1 DEF JobType
<1>7. \A c \in Blocks : Dropping(c)' = Dropping(c)
  BY Zenon, <1>4, <1>5, <1>6, DroppingChanged
<1>8. /\ ctl'[b].resource = FALSE /\ ctl'[b].refs = ctl[b].refs /\ ctl'[b].life = ctl[b].life
      /\ ctl'[b].disposed = ctl[b].disposed /\ ctl'[b].debugId = ctl[b].debugId
      /\ ctl' \in [Blocks -> ControlType] /\ \A c \in Blocks \ {b} : ctl'[c] = ctl[c]
  <2>1. PICK r : r = [ctl[b] EXCEPT !.resource = FALSE]
    BY Zenon
  <2>2. /\ r \in ControlType /\ r.resource = FALSE
        /\ r.refs = ctl[b].refs /\ r.life = ctl[b].life /\ r.disposed = ctl[b].disposed /\ r.debugId = ctl[b].debugId
    BY Zenon, <1>b, <1>2, <2>1 DEF TypesOK, ControlType
  <2>3. ctl' = [ctl EXCEPT ![b] = r] /\ ctl \in [Blocks -> ControlType]
    BY Zenon, <1>b, <1>1, <1>2, <2>1 DEF TypesOK
  <2> QED
    BY Zenon, <1>b, <2>2, <2>3, ControlSet
<1>9. deleted' = deleted /\ deleted' \in [Blocks -> Nat]
  BY Zenon, <1>1, <1>2 DEF TypesOK
<1>10. OnBlock(b) /\ SameNames
  <2>1. OnBlock(b)
    BY Zenon, <1>b, <1>1, <1>8, <1>9 DEF OnBlock
  <2> QED
    BY Zenon, <2>1, OnBlockNames
<1>11. TypesOK'
  BY SMTT(30), <1>b, <1>1, <1>2, <1>8, <1>9 DEF TypesOK
<1>12. KeepsRefs
  BY Zenon, <1>b, <1>7, <1>8, <1>10, RefsKept
<1>13. IdsOK'
  BY Zenon, <1>10, SameIds DEF ForeignInv
<1>d. ctl[b].disposed /\ deleted[b] = 0 /\ ctl[b].life = "live"
  BY Zenon, <1>3, <1>4 DEF CallOK
<1>e. \A q \in Calls : Using(q, b) => q = p
  BY Zenon, <1>b, <1>4 DEF Using, ForeignInv, CallsOK
<1>14. FramesOK'
  <2>1. \A c \in Blocks : (ctl[c].refs = 0 => ctl'[c].refs = 0) /\ (~ctl[c].disposed => ~ctl'[c].disposed)
    BY Zenon, <1>8
  <2>2. IsRelease(p)' \/ IsDispose(p)'
    <3>1. NextHeld(b) => NextHeld(b)'
      BY Zenon, <1>b, <1>1, <1>2, <1>10, SameNext DEF TypesOK
    <3>2. First' = First /\ Second' = Second
      BY Zenon DEF First, Second
    <3>3. IsRelease(p) => IsRelease(p)'
      BY Zenon, <1>b, <1>4, <1>6, <1>8 DEF IsRelease
    <3>4. IsDispose(p) => IsDispose(p)'
      BY Zenon, <1>b, <1>1, <1>3, <1>4, <1>6, <3>1, <3>2 DEF IsDispose
    <3> QED
      BY Zenon, <1>3, <3>3, <3>4
  <2>3. ASSUME NEW q \in Calls', q # p PROVE IsCollect(q)' \/ IsAll(q)' \/ IsRelease(q)' \/ IsDispose(q)'
    BY Zenon, <1>1, <1>3, <1>5, <1>10, <2>1, <2>3, FrameKept
  <2> QED
    BY Zenon, <1>5, <2>2, <2>3 DEF FramesOK
<1>15. BlocksOK'
  <2> SUFFICES ASSUME NEW c \in Blocks
               PROVE  /\ ctl'[c].refs > 0 => ctl'[c].life = "live"
                      /\ ctl'[c].life = "none" => ~ctl'[c].disposed
                      /\ ctl'[c].life = "freed" => deleted'[c] = 1
                      /\ ~ctl'[c].disposed => deleted'[c] = 0 /\ (ctl'[c].life # "none" => ctl'[c].resource)
                      /\ deleted'[c] <= 1
                      /\ ctl'[c].disposed /\ deleted'[c] = 0 => \E q \in Calls' : Using(q, c)'
    BY Zenon DEF BlocksOK
  <2>1. CASE c = b
    <3>1. p \in Calls' /\ Using(p, b)'
      BY Zenon, <1>5, <1>6 DEF Using
    <3>2. ctl'[b].life = "live" /\ deleted'[b] = 0
      BY Zenon, <1>8, <1>9, <1>d
    <3>3. ctl'[b].disposed
      BY Zenon, <1>8, <1>d
    <3> QED
      BY ONLY <2>1, <3>1, <3>2, <3>3
  <2>2. CASE c # b
    <3>1. ctl'[c] = ctl[c] /\ deleted'[c] = deleted[c]
      BY Zenon, <1>8, <1>9, <2>2
    <3>2. \A q \in Calls : Using(q, c) => q \in Calls' /\ Using(q, c)'
      BY Zenon, <1>4, <1>5, <2>2 DEF Using
    <3> QED
      BY ZenonT(40), <3>1, <3>2 DEF ForeignInv, BlocksOK
  <2> QED
    BY ZenonT(40), <2>1, <2>2
<1>16. CallsOK'
  <2>1. ASSUME NEW q \in Calls', NEW c \in Blocks, Frame(q)'.block = c PROVE CallOK(q, c)'
    <3>1. CASE q = p
      BY ZenonT(40), <1>6, <1>8, <1>9, <1>d, <2>1, <3>1 DEF CallOK
    <3>2. CASE q # p /\ c # b
      BY Zenon, <1>b, <1>5, <1>10, <2>1, <3>2, OtherCalls
    <3>3. CASE q # p /\ c = b
      <4>1. CallOK(q, b) /\ ~Using(q, b) /\ Frame(q)' = Frame(q) /\ Frame(q).block = b
        BY Zenon, <1>5, <1>e, <2>1, <3>3 DEF ForeignInv, CallsOK
      <4> QED
        BY Zenon, <1>8, <1>9, <3>3, <4>1 DEF CallOK, Using
    <3> QED
      BY Zenon, <3>1, <3>2, <3>3
  <2>2. \A q \in Calls' : \A c \in Blocks : (Using(q, c)' => Using(q, c)) /\ (Last(q, c)' => Last(q, c))
    BY Zenon, <1>4, <1>5, <1>6 DEF Using, Last
  <2> QED
    BY Zenon, <1>5, <2>1, <2>2 DEF ForeignInv, CallsOK
<1>17. UsableOK'
  <2>1. \A c \in Blocks : (ctl'[c].disposed => ctl[c].disposed) /\ (ctl[c].refs = 0 => ctl'[c].refs = 0)
    BY Zenon, <1>8
  <2> QED
    BY Zenon, <1>1, <2>1 DEF ForeignInv, UsableOK
<1>18. EndOK'
  <2>1. \A c \in held : ~(ctl'[c].disposed /\ ~ctl[c].disposed)
    BY Zenon, <1>2, <1>8 DEF TypesOK
  <2>2. \A c \in gathered : deleted[c] = 1 => deleted'[c] = 1
    BY Zenon, <1>2, <1>9 DEF TypesOK
  <2>3. phase = "gathered" /\ Frame(First).step = "release" =>
           /\ Second \in Calls' => Second \in Calls /\ Frame(Second)'.kind = Frame(Second).kind
           /\ Second \in Calls /\ Second \notin Calls' => \A c \in held : NextHeld(c) => deleted'[c] = 1
    BY Zenon, <1>5, <1>6, SecondKept
  <2> QED
    BY Zenon, <1>1, <1>3, <1>10, <2>1, <2>2, <2>3, EndKept
<1> QED
  BY Zenon, <1>2, <1>11, <1>12, <1>13, <1>14, <1>15, <1>16, <1>17, <1>18 DEF ForeignInv

(* The deleter is done, and dispose returns. *)
LEMMA InvDeletedReturns ==
  ASSUME ForeignInv, Referred, QueueShape, NEW t \in Threads, Deleted(t), job[t][1].kind = "dispose"
  PROVE  ForeignInv' /\ KeepsRefs
<1>0. PICK b : b = job[t][1].block
  BY Zenon
<1>a. job[t] # <<>> /\ job[t][1].step = "delete" /\ place[t] = "out"
  BY Zenon DEF Deleted, Calling
<1>b. b \in Blocks /\ job[t][1] \in JobType /\ \E p \in Calls : Frame(p) = job[t][1] /\ CallOK(p, b)
  BY ZenonT(40), <1>0, <1>a, TopOnBlock
<1>1. /\ Return(t) /\ UNCHANGED <<wrapper, phase, held, gathered, disposed, owed, place, registry, ctl>>
      /\ deleted' = [deleted EXCEPT ![b] = @ + 1]
  BY Zenon, <1>0 DEF Deleted, Called, Disposed, endVars, queueVars
<1>2. TypesOK /\ JobsType' /\ StagesOK'
  BY Zenon, <1>a, <1>1, BlockCallReturns DEF ForeignInv
<1>3. PICK p \in Calls : /\ Popped(p) /\ Frame(p) = job[t][1]
                         /\ phase = "gathered" => Frame(First)' = Frame(First)
                         /\ (IsRelease(p) \/ IsDispose(p)) /\ CallOK(p, b)
  BY ZenonT(40), <1>0, <1>a, <1>1, BlockCallReturns
<1>4. Frame(p).block = b /\ Frame(p).step = "delete"
  BY Zenon, <1>0, <1>a, <1>3
<1>5. Calls' = Calls \ {p} /\ \A q \in Calls' : Frame(q)' = Frame(q)
  BY ZenonT(40), <1>3 DEF Popped
<1>7. \A c \in Blocks : Dropping(c)' = Dropping(c)
  BY ZenonT(40), <1>3, <1>4, DroppingPopped
<1>8. /\ ctl' = ctl /\ ctl' \in [Blocks -> ControlType]
  BY Zenon, <1>1, <1>2 DEF TypesOK
<1>9. /\ deleted[b] = 0 /\ deleted'[b] = 1 /\ deleted' \in [Blocks -> Nat]
      /\ \A c \in Blocks \ {b} : deleted'[c] = deleted[c]
  <2>1. deleted[b] = 0 /\ deleted \in [Blocks -> Nat]
    BY ZenonT(40), <1>2, <1>3, <1>4 DEF CallOK, TypesOK
  <2>2. b \in Blocks /\ deleted' = [deleted EXCEPT ![b] = @ + 1]
    BY ZenonT(40), <1>b, <1>1
  <2> QED
    BY ONLY SMTT(30), <2>1, <2>2
<1>10. OnBlock(b) /\ SameNames
  <2>1. OnBlock(b)
    BY ZenonT(40), <1>b, <1>1, <1>8, <1>9 DEF OnBlock
  <2> QED
    BY Zenon, <2>1, OnBlockNames
<1>11. TypesOK'
  BY ZenonT(40), <1>b, <1>1, <1>2, <1>8, <1>9 DEF TypesOK
<1>12. KeepsRefs
  BY ZenonT(40), <1>b, <1>7, <1>8, <1>10, RefsKept
<1>13. IdsOK'
  BY Zenon, <1>10, SameIds DEF ForeignInv
<1>d. ctl[b].disposed /\ ctl[b].life = "live"
  BY ZenonT(40), <1>3, <1>4 DEF CallOK
<1>e. \A q \in Calls : Using(q, b) => q = p
  BY ZenonT(40), <1>b, <1>4 DEF Using, ForeignInv, CallsOK
<1>14. FramesOK'
  <2>1. \A c \in Blocks : (ctl[c].refs = 0 => ctl'[c].refs = 0) /\ (~ctl[c].disposed => ~ctl'[c].disposed)
    BY Zenon, <1>8
  <2>2. ASSUME NEW q \in Calls' PROVE IsCollect(q)' \/ IsAll(q)' \/ IsRelease(q)' \/ IsDispose(q)'
    BY ZenonT(40), <1>1, <1>3, <1>5, <1>10, <2>1, FrameKept
  <2> QED
    BY Zenon, <2>2 DEF FramesOK
<1>15. BlocksOK'
  <2> SUFFICES ASSUME NEW c \in Blocks
               PROVE  /\ ctl'[c].refs > 0 => ctl'[c].life = "live"
                      /\ ctl'[c].life = "none" => ~ctl'[c].disposed
                      /\ ctl'[c].life = "freed" => deleted'[c] = 1
                      /\ ~ctl'[c].disposed => deleted'[c] = 0 /\ (ctl'[c].life # "none" => ctl'[c].resource)
                      /\ deleted'[c] <= 1
                      /\ ctl'[c].disposed /\ deleted'[c] = 0 => \E q \in Calls' : Using(q, c)'
    BY Zenon DEF BlocksOK
  <2>1. CASE c = b
    BY SMTT(30), <1>8, <1>9, <1>d, <2>1
  <2>2. CASE c # b
    <3>1. ctl'[c] = ctl[c] /\ deleted'[c] = deleted[c]
      BY Zenon, <1>8, <1>9, <2>2
    <3>2. \A q \in Calls : Using(q, c) => q \in Calls' /\ Using(q, c)'
      BY Zenon, <1>4, <1>5, <2>2 DEF Using
    <3> QED
      BY Zenon, <3>1, <3>2 DEF ForeignInv, BlocksOK
  <2> QED
    BY Zenon, <2>1, <2>2
<1>16. CallsOK'
  <2>1. ASSUME NEW q \in Calls', NEW c \in Blocks, Frame(q)'.block = c PROVE CallOK(q, c)'
    <3>1. q # p
      BY Zenon, <1>5, <2>1
    <3>2. CASE q # p /\ c # b
      BY Zenon, <1>b, <1>5, <1>10, <2>1, <3>2, OtherCalls
    <3>3. CASE q # p /\ c = b
      <4>1. CallOK(q, b) /\ ~Using(q, b) /\ Frame(q)' = Frame(q) /\ Frame(q).block = b
        BY Zenon, <1>5, <1>e, <2>1, <3>3 DEF ForeignInv, CallsOK
      <4> QED
        BY ZenonT(40), <1>8, <1>9, <3>3, <4>1 DEF CallOK, Using
    <3> QED
      BY Zenon, <3>1, <3>2, <3>3
  <2>2. \A q \in Calls' : \A c \in Blocks : (Using(q, c)' => Using(q, c)) /\ (Last(q, c)' => Last(q, c))
    BY Zenon, <1>5 DEF Using, Last
  <2> QED
    BY ZenonT(40), <1>5, <2>1, <2>2 DEF ForeignInv, CallsOK
<1>17. UsableOK'
  <2>1. \A c \in Blocks : (ctl'[c].disposed => ctl[c].disposed) /\ (ctl[c].refs = 0 => ctl'[c].refs = 0)
    BY Zenon, <1>8
  <2> QED
    BY Zenon, <1>1, <2>1 DEF ForeignInv, UsableOK
<1>18. EndOK'
  <2>1. \A c \in held : ~(ctl'[c].disposed /\ ~ctl[c].disposed)
    BY Zenon, <1>2, <1>8 DEF TypesOK
  <2>2. \A c \in gathered : deleted[c] = 1 => deleted'[c] = 1
    BY Zenon, <1>2, <1>9 DEF TypesOK
  <2>3. phase = "gathered" /\ Frame(First).step = "release" =>
           /\ Second \in Calls' => Second \in Calls /\ Frame(Second)'.kind = Frame(Second).kind
           /\ Second \in Calls /\ Second \notin Calls' => \A c \in held : NextHeld(c) => deleted'[c] = 1
    <3>1. CASE p = Second /\ phase = "gathered"
      <4>1. NextHeld(b)
        BY Zenon, <1>3, <1>4, <3>1 DEF IsDispose, IsRelease
      <4>2. \A c \in held : NextHeld(c) => c = b
        BY Zenon, <4>1, OneNextHeld
      <4> QED
        BY Zenon, <1>5, <1>9, <3>1, <4>2
    <3>2. CASE ~(p = Second /\ phase = "gathered")
      BY Zenon, <1>5, <3>2, SecondKept
    <3> QED
      BY Zenon, <3>1, <3>2
  <2> QED
    BY Zenon, <1>1, <1>3, <1>10, <2>1, <2>2, <2>3, EndKept
<1> QED
  BY Zenon, <1>2, <1>11, <1>12, <1>13, <1>14, <1>15, <1>16, <1>17, <1>18 DEF ForeignInv

(* The deleter is done, and the last release goes on. *)
LEMMA InvDeletedFrees ==
  ASSUME ForeignInv, Referred, QueueShape, NEW t \in Threads, Deleted(t), job[t][1].kind # "dispose"
  PROVE  ForeignInv' /\ KeepsRefs
<1>0. PICK b : b = job[t][1].block
  BY Zenon
<1>a. job[t] # <<>> /\ job[t][1].step = "delete" /\ place[t] = "out"
  BY Zenon DEF Deleted, Calling
<1>b. b \in Blocks /\ job[t][1] \in JobType /\ \E p \in Calls : Frame(p) = job[t][1] /\ CallOK(p, b)
  BY ZenonT(40), <1>0, <1>a, TopOnBlock
<1>1. /\ Goto(t, "free") /\ UNCHANGED <<wrapper, phase, held, gathered, disposed, owed, place, registry, ctl>>
      /\ deleted' = [deleted EXCEPT ![b] = @ + 1]
  BY ZenonT(40), <1>0 DEF Deleted, Called, Disposed, endVars, queueVars
<1>2. TypesOK /\ JobsType' /\ StagesOK'
  BY ZenonT(40), <1>a, <1>1, BlockCallGoes DEF Steps, ForeignInv
<1>3. PICK p \in Calls : /\ Changed(p, [job[t][1] EXCEPT !.step = "free"]) /\ Frame(p) = job[t][1]
                         /\ phase = "gathered" => Frame(First)' = Frame(First)
                         /\ (IsRelease(p) \/ IsDispose(p)) /\ CallOK(p, b)
  BY Zenon, <1>0, <1>a, <1>1, BlockCallGoes DEF Steps
<1>4. Frame(p).block = b /\ Frame(p).step = "delete"
  BY Zenon, <1>0, <1>a, <1>3
<1>5. Calls' = Calls /\ \A q \in Calls : q = p \/ Frame(q)' = Frame(q)
  BY Zenon, <1>3 DEF Changed
<1>6. /\ Frame(p)'.block = b /\ Frame(p)'.step = "free" /\ Frame(p)'.wrapper = Frame(p).wrapper
      /\ Frame(p)'.kind = Frame(p).kind
  <2>1. Frame(p)' = [Frame(p) EXCEPT !.step = "free"] /\ Frame(p) \in JobType
    BY Zenon, <1>b, <1>3 DEF Changed
  <2> QED
    BY Zenon, <1>4, <2>1 DEF JobType
<1>7. \A c \in Blocks : Dropping(c)' = Dropping(c)
  BY Zenon, <1>4, <1>5, <1>6, DroppingChanged
<1>8. /\ ctl' = ctl /\ ctl' \in [Blocks -> ControlType]
  BY ZenonT(40), <1>1, <1>2 DEF TypesOK
<1>9. /\ deleted[b] = 0 /\ deleted'[b] = 1 /\ deleted' \in [Blocks -> Nat]
      /\ \A c \in Blocks \ {b} : deleted'[c] = deleted[c]
  <2>1. deleted[b] = 0 /\ deleted \in [Blocks -> Nat]
    BY Zenon, <1>2, <1>3, <1>4 DEF CallOK, TypesOK
  <2>2. b \in Blocks /\ deleted' = [deleted EXCEPT ![b] = @ + 1]
    BY Zenon, <1>b, <1>1
  <2> QED
    BY ONLY <2>1, <2>2
<1>10. OnBlock(b) /\ SameNames
  <2>1. OnBlock(b)
    BY ZenonT(40), <1>b, <1>1, <1>8, <1>9 DEF OnBlock
  <2> QED
    BY Zenon, <2>1, OnBlockNames
<1>11. TypesOK'
  BY Zenon, <1>b, <1>1, <1>2, <1>8, <1>9 DEF TypesOK
<1>12. KeepsRefs
  BY Zenon, <1>b, <1>7, <1>8, <1>10, RefsKept
<1>13. IdsOK'
  BY Zenon, <1>10, SameIds DEF ForeignInv
<1>d. ctl[b].disposed /\ ctl[b].life = "live"
  BY Zenon, <1>3, <1>4 DEF CallOK
<1>e. \A q \in Calls : Using(q, b) => q = p
  BY Zenon, <1>b, <1>4 DEF Using, ForeignInv, CallsOK
<1>c. IsRelease(p) /\ ctl[b].refs = 0
  <2>1. IsRelease(p)
    BY Zenon, <1>3 DEF IsDispose
  <2> QED
    BY Zenon, <1>4, <2>1 DEF IsRelease
<1>14. FramesOK'
  <2>1. \A c \in Blocks : (ctl[c].refs = 0 => ctl'[c].refs = 0) /\ (~ctl[c].disposed => ~ctl'[c].disposed)
    BY Zenon, <1>8
  <2>2. IsRelease(p)'
    BY Zenon, <1>b, <1>4, <1>6, <1>8, <1>c DEF IsRelease
  <2>3. ASSUME NEW q \in Calls', q # p PROVE IsCollect(q)' \/ IsAll(q)' \/ IsRelease(q)' \/ IsDispose(q)'
    BY Zenon, <1>1, <1>3, <1>5, <1>10, <2>1, <2>3, FrameKept
  <2> QED
    BY Zenon, <1>5, <2>2, <2>3 DEF FramesOK
<1>15. BlocksOK'
  <2> SUFFICES ASSUME NEW c \in Blocks
               PROVE  /\ ctl'[c].refs > 0 => ctl'[c].life = "live"
                      /\ ctl'[c].life = "none" => ~ctl'[c].disposed
                      /\ ctl'[c].life = "freed" => deleted'[c] = 1
                      /\ ~ctl'[c].disposed => deleted'[c] = 0 /\ (ctl'[c].life # "none" => ctl'[c].resource)
                      /\ deleted'[c] <= 1
                      /\ ctl'[c].disposed /\ deleted'[c] = 0 => \E q \in Calls' : Using(q, c)'
    BY Zenon DEF BlocksOK
  <2>1. CASE c = b
    BY SMTT(30), <1>8, <1>9, <1>d, <2>1
  <2>2. CASE c # b
    <3>1. ctl'[c] = ctl[c] /\ deleted'[c] = deleted[c]
      BY Zenon, <1>8, <1>9, <2>2
    <3>2. \A q \in Calls : Using(q, c) => q \in Calls' /\ Using(q, c)'
      BY Zenon, <1>4, <1>5, <2>2 DEF Using
    <3> QED
      BY Zenon, <3>1, <3>2 DEF ForeignInv, BlocksOK
  <2> QED
    BY ZenonT(40), <2>1, <2>2
<1>16. CallsOK'
  <2>1. ASSUME NEW q \in Calls', NEW c \in Blocks, Frame(q)'.block = c PROVE CallOK(q, c)'
    <3>1. CASE q = p
      BY Zenon, <1>6, <1>8, <1>9, <1>d, <2>1, <3>1 DEF CallOK
    <3>2. CASE q # p /\ c # b
      BY Zenon, <1>b, <1>5, <1>10, <2>1, <3>2, OtherCalls
    <3>3. CASE q # p /\ c = b
      <4>1. CallOK(q, b) /\ ~Using(q, b) /\ Frame(q)' = Frame(q) /\ Frame(q).block = b
        BY Zenon, <1>5, <1>e, <2>1, <3>3 DEF ForeignInv, CallsOK
      <4> QED
        BY Zenon, <1>8, <1>9, <3>3, <4>1 DEF CallOK, Using
    <3> QED
      BY Zenon, <3>1, <3>2, <3>3
  <2>2. \A q \in Calls' : \A c \in Blocks : (Using(q, c)' => Using(q, c)) /\ (Last(q, c)' => Last(q, c))
    BY Zenon, <1>4, <1>5, <1>6 DEF Using, Last
  <2> QED
    BY ZenonT(40), <1>5, <2>1, <2>2 DEF ForeignInv, CallsOK
<1>17. UsableOK'
  <2>1. \A c \in Blocks : (ctl'[c].disposed => ctl[c].disposed) /\ (ctl[c].refs = 0 => ctl'[c].refs = 0)
    BY Zenon, <1>8
  <2> QED
    BY Zenon, <1>1, <2>1 DEF ForeignInv, UsableOK
<1>18. EndOK'
  <2>1. \A c \in held : ~(ctl'[c].disposed /\ ~ctl[c].disposed)
    BY Zenon, <1>2, <1>8 DEF TypesOK
  <2>2. \A c \in gathered : deleted[c] = 1 => deleted'[c] = 1
    BY Zenon, <1>2, <1>9 DEF TypesOK
  <2>3. phase = "gathered" /\ Frame(First).step = "release" =>
           /\ Second \in Calls' => Second \in Calls /\ Frame(Second)'.kind = Frame(Second).kind
           /\ Second \in Calls /\ Second \notin Calls' => \A c \in held : NextHeld(c) => deleted'[c] = 1
    BY Zenon, <1>5, <1>6, SecondKept
  <2> QED
    BY Zenon, <1>1, <1>3, <1>10, <2>1, <2>2, <2>3, EndKept
<1> QED
  BY Zenon, <1>2, <1>11, <1>12, <1>13, <1>14, <1>15, <1>16, <1>17, <1>18 DEF ForeignInv

(* The last release frees the block. *)
LEMMA InvFree ==
  ASSUME ForeignInv, Referred, QueueShape, NEW t \in Threads, Free(t)
  PROVE  ForeignInv' /\ KeepsRefs
<1>0. PICK b : b = job[t][1].block
  BY Zenon
<1>a. job[t] # <<>> /\ job[t][1].step = "free" /\ place[t] = "out"
  BY Zenon DEF Free, Calling
<1>b. b \in Blocks /\ job[t][1] \in JobType /\ \E p \in Calls : Frame(p) = job[t][1] /\ CallOK(p, b)
  BY Zenon, <1>0, <1>a, TopOnBlock
<1>1. /\ Return(t) /\ UNCHANGED <<wrapper, phase, held, gathered, disposed, owed, place, registry, deleted>>
      /\ ctl' = [ctl EXCEPT ![b].life = "freed"]
  BY Zenon, <1>0 DEF Free, Called, endVars, queueVars
<1>2. TypesOK /\ JobsType' /\ StagesOK'
  BY Zenon, <1>a, <1>1, BlockCallReturns DEF ForeignInv
<1>3. PICK p \in Calls : /\ Popped(p) /\ Frame(p) = job[t][1]
                         /\ phase = "gathered" => Frame(First)' = Frame(First)
                         /\ (IsRelease(p) \/ IsDispose(p)) /\ CallOK(p, b)
  BY Zenon, <1>0, <1>a, <1>1, BlockCallReturns
<1>4. Frame(p).block = b /\ Frame(p).step = "free"
  BY ZenonT(40), <1>0, <1>a, <1>3
<1>5. Calls' = Calls \ {p} /\ \A q \in Calls' : Frame(q)' = Frame(q)
  BY ZenonT(40), <1>3 DEF Popped
<1>7. \A c \in Blocks : Dropping(c)' = Dropping(c)
  BY Zenon, <1>3, <1>4, DroppingPopped
<1>8. /\ ctl'[b].life = "freed" /\ ctl'[b].refs = ctl[b].refs /\ ctl'[b].disposed = ctl[b].disposed
      /\ ctl'[b].resource = ctl[b].resource /\ ctl'[b].debugId = ctl[b].debugId
      /\ ctl' \in [Blocks -> ControlType] /\ \A c \in Blocks \ {b} : ctl'[c] = ctl[c]
  <2>1. PICK r : r = [ctl[b] EXCEPT !.life = "freed"]
    BY Zenon
  <2>2. /\ r \in ControlType /\ r.life = "freed"
        /\ r.refs = ctl[b].refs /\ r.disposed = ctl[b].disposed /\ r.resource = ctl[b].resource /\ r.debugId = ctl[b].debugId
    BY <1>b, <1>2, <2>1 DEF TypesOK, ControlType
  <2>3. ctl' = [ctl EXCEPT ![b] = r] /\ ctl \in [Blocks -> ControlType]
    BY Zenon, <1>b, <1>1, <1>2, <2>1 DEF TypesOK
  <2> QED
    BY Zenon, <1>b, <2>2, <2>3, ControlSet
<1>9. deleted' = deleted /\ deleted' \in [Blocks -> Nat]
  BY Zenon, <1>1, <1>2 DEF TypesOK
<1>10. OnBlock(b) /\ SameNames
  <2>1. OnBlock(b)
    BY Zenon, <1>b, <1>1, <1>3, <1>4, <1>8, <1>9 DEF OnBlock, CallOK
  <2> QED
    BY Zenon, <2>1, OnBlockNames
<1>11. TypesOK'
  BY <1>b, <1>1, <1>2, <1>8, <1>9 DEF TypesOK
<1>12. KeepsRefs
  BY ZenonT(40), <1>b, <1>7, <1>8, <1>10, RefsKept
<1>13. IdsOK'
  BY Zenon, <1>10, SameIds DEF ForeignInv
<1>c. IsRelease(p) /\ ctl[b].refs = 0 /\ deleted[b] = 1
  <2>1. IsRelease(p)
    BY ZenonT(40), <1>3, <1>4 DEF IsDispose
  <2> QED
    BY ZenonT(40), <1>3, <1>4, <2>1 DEF IsRelease, CallOK
<1>d. \A q \in Calls : Frame(q).block = b => q = p
  <2>1. \A q \in Calls : Frame(q).block = b => Last(q, b)
    <3>1. FramesOK
      BY Zenon DEF ForeignInv
    <3> QED
      BY Zenon, <1>b, <1>2, <1>c, <3>1, OnlyTheLast
  <2> QED
    BY ZenonT(40), <1>b, <1>4, <2>1 DEF ForeignInv, CallsOK
<1>e. ctl[b].disposed
  <2>1. BlocksOK
    BY Zenon DEF ForeignInv
  <2>2. b \in Blocks /\ deleted[b] = 1
    BY Zenon, <1>b, <1>c
  <2> QED
    BY ONLY <2>1, <2>2 DEF BlocksOK
<1>14. FramesOK'
  <2>1. \A c \in Blocks : (ctl[c].refs = 0 => ctl'[c].refs = 0) /\ (~ctl[c].disposed => ~ctl'[c].disposed)
    BY Zenon, <1>8
  <2>2. ASSUME NEW q \in Calls' PROVE IsCollect(q)' \/ IsAll(q)' \/ IsRelease(q)' \/ IsDispose(q)'
    BY Zenon, <1>1, <1>3, <1>5, <1>10, <2>1, FrameKept
  <2> QED
    BY Zenon, <2>2 DEF FramesOK
<1>15. BlocksOK'
  <2> SUFFICES ASSUME NEW c \in Blocks
               PROVE  /\ ctl'[c].refs > 0 => ctl'[c].life = "live"
                      /\ ctl'[c].life = "none" => ~ctl'[c].disposed
                      /\ ctl'[c].life = "freed" => deleted'[c] = 1
                      /\ ~ctl'[c].disposed => deleted'[c] = 0 /\ (ctl'[c].life # "none" => ctl'[c].resource)
                      /\ deleted'[c] <= 1
                      /\ ctl'[c].disposed /\ deleted'[c] = 0 => \E q \in Calls' : Using(q, c)'
    BY Zenon DEF BlocksOK
  <2>1. CASE c = b
    <3>1. ctl'[b].life = "freed" /\ deleted'[b] = 1 /\ ctl'[b].refs = 0
      BY Zenon, <1>8, <1>9, <1>c
    <3>2. ctl'[b].disposed
      BY Zenon, <1>8, <1>e
    <3> QED
      BY ONLY SMTT(30), <2>1, <3>1, <3>2
  <2>2. CASE c # b
    <3>1. ctl'[c] = ctl[c] /\ deleted'[c] = deleted[c]
      BY Zenon, <1>8, <1>9, <2>2
    <3>2. \A q \in Calls : Using(q, c) => q \in Calls' /\ Using(q, c)'
      BY Zenon, <1>4, <1>5, <2>2 DEF Using
    <3> QED
      BY Zenon, <3>1, <3>2 DEF ForeignInv, BlocksOK
  <2> QED
    BY Zenon, <2>1, <2>2
<1>16. CallsOK'
  <2>1. ASSUME NEW q \in Calls', NEW c \in Blocks, Frame(q)'.block = c PROVE CallOK(q, c)'
    <3>1. q \in Calls /\ q # p /\ c # b /\ Frame(q)' = Frame(q)
      BY Zenon, <1>5, <1>d, <2>1
    <3> QED
      BY Zenon, <1>b, <1>10, <2>1, <3>1, OtherCalls
  <2>2. \A q \in Calls' : \A c \in Blocks : (Using(q, c)' => Using(q, c)) /\ (Last(q, c)' => Last(q, c))
    BY Zenon, <1>5 DEF Using, Last
  <2> QED
    BY Zenon, <1>5, <2>1, <2>2 DEF ForeignInv, CallsOK
<1>17. UsableOK'
  <2>1. \A c \in Blocks : (ctl'[c].disposed => ctl[c].disposed) /\ (ctl[c].refs = 0 => ctl'[c].refs = 0)
    BY Zenon, <1>8
  <2> QED
    BY Zenon, <1>1, <2>1 DEF ForeignInv, UsableOK
<1>18. EndOK'
  <2>1. \A c \in held : ~(ctl'[c].disposed /\ ~ctl[c].disposed)
    BY Zenon, <1>2, <1>8 DEF TypesOK
  <2>2. \A c \in gathered : deleted[c] = 1 => deleted'[c] = 1
    BY Zenon, <1>2, <1>9 DEF TypesOK
  <2>3. phase = "gathered" /\ Frame(First).step = "release" =>
           /\ Second \in Calls' => Second \in Calls /\ Frame(Second)'.kind = Frame(Second).kind
           /\ Second \in Calls /\ Second \notin Calls' => \A c \in held : NextHeld(c) => deleted'[c] = 1
    <3>1. ~(p = Second /\ phase = "gathered" /\ IsDispose(p))
      BY Zenon, <1>4 DEF IsDispose
    <3> QED
      BY Zenon, <1>5, <3>1, SecondKept
  <2> QED
    BY Zenon, <1>1, <1>3, <1>10, <2>1, <2>2, <2>3, EndKept
<1> QED
  BY Zenon, <1>2, <1>11, <1>12, <1>13, <1>14, <1>15, <1>16, <1>17, <1>18 DEF ForeignInv

=============================================================================
