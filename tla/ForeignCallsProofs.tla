------------------------- MODULE ForeignCallsProofs -------------------------
(***************************************************************************)
(* The steps of ForeignResources that begin and end calls: what the        *)
(* program does with wrappers, the collections and the queue of deferred   *)
(* releases, and the end of the run. Each keeps the invariant of           *)
(* ForeignBlocksProofs and moves at most the references it says.           *)
(***************************************************************************)
EXTENDS ForeignBlocksProofs

(* A stack with one more member; positions are counted from its end. *)
LEMMA StackCons ==
  ASSUME NEW S, NEW x \in S, NEW s \in Seq(S)
  PROVE  /\ <<x>> \o s \in Seq(S) /\ Len(<<x>> \o s) = Len(s) + 1 /\ (<<x>> \o s)[1] = x
         /\ \A d \in 0 .. Len(s) - 1 : (<<x>> \o s)[Len(s) + 1 - d] = s[Len(s) - d]
         /\ Len(s) \in Nat
<1>1. /\ <<x>> \o s \in Seq(S) /\ Len(<<x>> \o s) = Len(s) + 1 /\ (<<x>> \o s)[1] = x
      /\ \A i \in 1 .. Len(s) : (<<x>> \o s)[i + 1] = s[i]
  OBVIOUS
<1>2. ASSUME NEW d \in 0 .. Len(s) - 1 PROVE (<<x>> \o s)[Len(s) + 1 - d] = s[Len(s) - d]
  <2>1. Len(s) - d \in 1 .. Len(s) /\ (Len(s) - d) + 1 = Len(s) + 1 - d
    OBVIOUS
  <2> QED
    BY Zenon, <1>1, <2>1
<1> QED
  BY <1>1, <1>2

-----------------------------------------------------------------------------
(* The stacks of calls *)

(* Every call is a member of its thread's stack. *)
LEMMA FrameIsJob ==
  ASSUME JobsType, NEW p \in Calls
  PROVE  /\ Frame(p) \in JobType
         /\ \E t \in Threads : \E i \in DOMAIN job[t] : Frame(p) = job[t][i]
<1>1. PICK t \in Threads, d \in Nat : p = <<t, d>> /\ d < Len(job[t])
  BY InCalls
<1>2. Frame(p) = job[t][Len(job[t]) - d]
  BY Zenon, <1>1 DEF Frame
<1>3. Len(job[t]) - d \in DOMAIN job[t] /\ job[t] \in Seq(JobType)
  BY <1>1 DEF JobsType
<1> QED
  BY <1>2, <1>3

(* Call adds an innermost call to t and leaves every other alone. *)
LEMMA CallPushes ==
  ASSUME JobsType, NEW t \in Threads, NEW j \in JobType, Call(t, j)
  PROVE  /\ JobsType' /\ job'[t] # <<>> /\ job'[t][1] = j
         /\ \A u \in Threads \ {t} : job'[u] = job[u]
         /\ \E n \in Nat : n = Len(job[t]) /\ Pushed(<<t, n>>, j)
<1>0. PICK n, s : n = Len(s) /\ s = job[t]
  BY Zenon
<1>1. /\ <<j>> \o s \in Seq(JobType) /\ Len(<<j>> \o s) = n + 1 /\ (<<j>> \o s)[1] = j
      /\ \A d \in 0 .. n - 1 : (<<j>> \o s)[(n + 1) - d] = s[n - d]
      /\ n \in Nat
  <2>1. s \in Seq(JobType)
    BY Zenon, <1>0 DEF JobsType
  <2>2. /\ <<j>> \o s \in Seq(JobType) /\ Len(<<j>> \o s) = Len(s) + 1 /\ (<<j>> \o s)[1] = j
        /\ \A d \in 0 .. Len(s) - 1 : (<<j>> \o s)[Len(s) + 1 - d] = s[Len(s) - d]
        /\ Len(s) \in Nat
    BY <2>1, StackCons
  <2>3. \A d \in 0 .. n - 1 : n + 1 - d = (n + 1) - d
    BY <1>0, <2>2
  <2> QED
    BY <1>0, <2>2, <2>3
<1>2. job'[t] = <<j>> \o s /\ \A u \in Threads \ {t} : job'[u] = job[u]
  BY Zenon, <1>0 DEF Call, JobsType
<1>3. JobsType'
  BY Zenon, <1>1, <1>2 DEF Call, JobsType
<1>4. /\ Len(job[t]) = n /\ Len(job'[t]) = n + 1 /\ job'[t][1] = j
      /\ \A d \in Nat : d < n => job'[t][Len(job'[t]) - d] = job[t][Len(job[t]) - d]
  BY ONLY <1>0, <1>1, <1>2
<1>5. \A u \in Threads : \A d \in Nat :
        ~(u = t /\ d >= n) => /\ <<u, d>> \in Calls' <=> <<u, d>> \in Calls
                             /\ Frame(<<u, d>>)' = Frame(<<u, d>>)
  <2>1. n <= Len(job[t]) /\ n <= Len(job'[t])
    BY <1>1, <1>4
  <2> QED
    BY Zenon, <1>1, <1>2, <1>3, <1>4, <2>1, KeptCalls
<1>6. \A d \in Nat : /\ <<t, d>> \in Calls <=> d < n
                     /\ <<t, d>> \in Calls' <=> d < n + 1
  BY <1>3, <1>4, InCalls, InCallsNext
<1>7. Frame(<<t, n>>)' = j
  <2>1. Frame(<<t, n>>)' = job'[t][Len(job'[t]) - n]
    BY Zenon DEF Frame
  <2>2. (n + 1) - n = 1
    BY <1>1
  <2> QED
    BY ONLY <1>4, <2>1, <2>2
<1>8. /\ \A p \in Calls : \E u \in Threads : \E d \in Nat : p = <<u, d>>
      /\ \A p \in Calls' : \E u \in Threads : \E d \in Nat : p = <<u, d>>
  BY <1>3, InCalls, InCallsNext
<1>9. ASSUME NEW u \in Threads, NEW d \in Nat
      PROVE  /\ <<u, d>> \in Calls => <<u, d>> \in Calls' /\ Frame(<<u, d>>)' = Frame(<<u, d>>)
             /\ <<u, d>> \in Calls' => <<u, d>> \in Calls \/ <<u, d>> = <<t, n>>
  <2>1. CASE u = t /\ d >= n
    <3>1. d < n + 1 => d = n
      BY <2>1, <1>1
    <3>2. ~(d < n)
      BY <2>1, <1>1
    <3> QED
      BY ONLY <2>1, <3>1, <3>2, <1>6, d \in Nat
  <2> QED
    BY Zenon, <2>1, <1>5
<1>10. /\ \A p \in Calls : p \in Calls' /\ Frame(p)' = Frame(p)
       /\ \A p \in Calls' : p \in Calls \/ p = <<t, n>>
  BY <1>8, <1>9
<1>11. <<t, n>> \notin Calls /\ <<t, n>> \in Calls'
  BY <1>1, <1>6
<1>12. Pushed(<<t, n>>, j)
  BY Zenon, <1>7, <1>10, <1>11 DEF Pushed
<1>13. job'[t] # <<>>
  BY <1>1, <1>4
<1> QED
  BY Zenon, <1>1, <1>2, <1>3, <1>4, <1>12, <1>13

(* The loop of disposeAllForeignResources goes on, and makes a call. *)
Alone(t)        == Len(job[t]) = 1
Turned(t, j, k) == job' = [job EXCEPT ![t] = <<j, k>>]

(* Its two members are the loop and the call. *)
LEMMA LoopPushes ==
  ASSUME JobsType, NEW t \in Threads, Alone(t), NEW j \in JobType, NEW k \in JobType, Turned(t, j, k)
  PROVE  /\ JobsType' /\ job'[t] # <<>> /\ job'[t][1] = j
         /\ \A u \in Threads \ {t} : job'[u] = job[u]
         /\ <<t, 0>> \in Calls /\ <<t, 1>> \notin Calls /\ Calls' = Calls \union {<<t, 1>>}
         /\ Frame(<<t, 0>>) = job[t][1] /\ Frame(<<t, 1>>)' = j /\ Frame(<<t, 0>>)' = k
         /\ \A p \in Calls \ {<<t, 0>>} : Frame(p)' = Frame(p)
<1>0. Len(job[t]) = 1 /\ job' = [job EXCEPT ![t] = <<j, k>>]
  BY Zenon DEF Alone, Turned
<1>1. /\ job'[t] = <<j, k>> /\ \A u \in Threads \ {t} : job'[u] = job[u]
  BY Zenon, <1>0 DEF JobsType
<1>2. JobsType'
  BY <1>0 DEF JobsType
<1>3. Len(job'[t]) = 2 /\ job'[t][1] = j /\ job'[t][2] = k /\ job'[t] # <<>>
  BY <1>1
<1>4. \A u \in Threads : \A d \in Nat :
        u # t => /\ <<u, d>> \in Calls' <=> <<u, d>> \in Calls
                 /\ Frame(<<u, d>>)' = Frame(<<u, d>>)
  <2>1. 0 <= Len(job[t]) /\ 0 <= Len(job'[t]) /\ \A d \in Nat : ~(d < 0) /\ d >= 0
    BY <1>0, <1>3
  <2>2. \A d \in Nat : d < 0 => job'[t][Len(job'[t]) - d] = job[t][Len(job[t]) - d]
    BY Zenon, <2>1
  <2>3. \A u \in Threads : \A d \in Nat :
          ~(u = t /\ d >= 0) => /\ <<u, d>> \in Calls' <=> <<u, d>> \in Calls
                               /\ Frame(<<u, d>>)' = Frame(<<u, d>>)
    BY <1>1, <1>2, <2>1, <2>2, KeptCalls
  <2> QED
    BY Zenon, <2>3
<1>5. \A d \in Nat : /\ <<t, d>> \in Calls <=> d < 1
                     /\ <<t, d>> \in Calls' <=> d < 2
  BY Zenon, <1>0, <1>2, <1>3, InCalls, InCallsNext
<1>6. \A d \in Nat : (d < 1 <=> d = 0) /\ (d < 2 <=> d = 0 \/ d = 1)
  OBVIOUS
<1>7. Frame(<<t, 0>>) = job[t][1] /\ Frame(<<t, 1>>)' = j /\ Frame(<<t, 0>>)' = k
  <2>1. /\ Frame(<<t, 0>>) = job[t][Len(job[t]) - 0] /\ Frame(<<t, 1>>)' = job'[t][Len(job'[t]) - 1]
        /\ Frame(<<t, 0>>)' = job'[t][Len(job'[t]) - 0]
    BY Zenon DEF Frame
  <2>2. Len(job[t]) - 0 = 1 /\ Len(job'[t]) - 1 = 1 /\ Len(job'[t]) - 0 = 2
    BY <1>0, <1>3
  <2> QED
    BY ONLY Zenon, <1>3, <2>1, <2>2
<1>8. /\ \A p \in Calls : \E u \in Threads : \E d \in Nat : p = <<u, d>>
      /\ \A p \in Calls' : \E u \in Threads : \E d \in Nat : p = <<u, d>>
  BY <1>2, InCalls, InCallsNext
<1>9. ASSUME NEW u \in Threads, NEW d \in Nat
      PROVE  /\ <<u, d>> \in Calls => /\ <<u, d>> \in Calls'
                                      /\ <<u, d>> = <<t, 0>> \/ Frame(<<u, d>>)' = Frame(<<u, d>>)
             /\ <<u, d>> \in Calls' => <<u, d>> \in Calls \/ <<u, d>> = <<t, 1>>
  <2>1. CASE u = t
    BY ONLY <2>1, <1>5, <1>6, d \in Nat
  <2> QED
    BY <2>1, <1>4
<1>10. /\ \A p \in Calls : p \in Calls' /\ (p = <<t, 0>> \/ Frame(p)' = Frame(p))
       /\ \A p \in Calls' : p \in Calls \/ p = <<t, 1>>
  BY <1>8, <1>9
<1>11. <<t, 0>> \in Calls /\ <<t, 1>> \notin Calls /\ <<t, 1>> \in Calls'
  BY <1>5
<1> QED
  BY <1>1, <1>2, <1>3, <1>7, <1>10, <1>11

-----------------------------------------------------------------------------
(* The queue and the references *)

(* Steps of this component use the queue as the queue allows. *)
LEMMA StepOfQueue == [Next]_vars => [QueueNext]_queueVars
<1> SUFFICES ASSUME [Next]_vars PROVE [QueueNext]_queueVars
  BY Zenon
<1>1. CASE UNCHANGED vars
  BY Zenon, <1>1 DEF vars, queueVars
<1>2. CASE EndProgram \/ EndStep
  BY Zenon, <1>2 DEF EndProgram, EndStep, Gather, DisposeHeld, ReleaseHeld, AllDisposed, EndContext
<1>3. ASSUME NEW t \in Threads, ProgramStep(t) PROVE [QueueNext]_queueVars
  <2>1. ASSUME NEW w \in Wrappers, Finalize(t, w) PROVE QueueNext
    BY Zenon, <2>1 DEF Finalize, Made, Blocks, QueueNext, Deferring
  <2> QED
    BY Zenon, <1>3, <2>1 DEF ProgramStep, Create, DisposeWrapper, Collect, Clone
<1>4. ASSUME NEW t \in Threads, QueueStep(t) PROVE QueueNext
  BY Zenon, <1>4 DEF QueueStep, QueueNext, Deferring, Running
<1>5. ASSUME NEW t \in Threads, RunRelease(t) PROVE QueueNext
  BY Zenon, <1>5 DEF RunRelease, QueueNext, Running
<1>6. ASSUME NEW t \in Threads, BlockStep(t) PROVE [QueueNext]_queueVars
  BY Zenon, <1>6 DEF BlockStep, Drop, Claim, Take, Deleted, Free
<1>7. ASSUME NEW t \in Threads, EndCollection(t) PROVE [QueueNext]_queueVars
  BY Zenon, <1>7 DEF EndCollection, QueueNext, Running
<1>8. ASSUME NEW t \in Threads, CollectionThrows(t) PROVE [QueueNext]_queueVars
  BY Zenon, <1>8 DEF CollectionThrows
<1> QED
  BY Zenon, <1>1, <1>2, <1>3, <1>4, <1>5, <1>6, <1>7, <1>8 DEF Next

(* The calls that are about to drop a reference, when the calls stay. *)
LEMMA SameDropping == ASSUME SameCalls, NEW b PROVE Dropping(b)' = Dropping(b)
  BY Zenon DEF SameCalls, Dropping

(* A call begins. *)
LEMMA DroppingPushed ==
  ASSUME NEW p, NEW j, Pushed(p, j), NEW b
  PROVE  /\ j.block = b /\ j.step = "drop" =>
              p \notin Dropping(b) /\ Dropping(b)' = Dropping(b) \union {p}
         /\ ~(j.block = b /\ j.step = "drop") => Dropping(b)' = Dropping(b)
  BY Zenon DEF Pushed, Dropping

(* disposeAllForeignResources is the outermost call of the main thread. *)
LEMMA LoopCall ==
  ASSUME TypesOK, FramesOK, StagesOK, NEW t \in Threads, job[t] # <<>>
  PROVE  (job[t][1].kind = "all") <=> (t = Main /\ Len(job[t]) = 1 /\ phase = "gathered")
<1>1. PICK n \in Nat : Len(job[t]) = n + 1 /\ <<t, n>> \in Calls /\ Frame(<<t, n>>) = job[t][1]
  BY Zenon, TopCall DEF TypesOK
<1>2. ASSUME job[t][1].kind = "all" PROVE t = Main /\ Len(job[t]) = 1 /\ phase = "gathered"
  <2>1. IsAll(<<t, n>>)
    BY Zenon, <1>1, <1>2 DEF FramesOK, IsCollect, IsRelease, IsDispose
  <2>2. <<t, n>> = <<Main, 0>>
    BY Zenon, <2>1 DEF IsAll, First
  <2>3. t = Main /\ n = 0
    BY Zenon, <2>2
  <2> QED
    BY <1>1, <1>2, <2>2, <2>3 DEF StagesOK, First
<1>3. ASSUME t = Main, Len(job[t]) = 1, phase = "gathered" PROVE job[t][1].kind = "all"
  <2>1. n = 0
    <3>1. \A k \in Nat : k + 1 = 1 => k = 0
      BY SMT
    <3> QED
      BY Zenon, <1>1, <1>3, <3>1
  <2> QED
    BY Zenon, <1>1, <1>3, <2>1 DEF StagesOK, First
<1> QED
  BY Zenon, <1>2, <1>3

-----------------------------------------------------------------------------
(* Steps that leave the control blocks and the calls on them alone *)

(* The calls on blocks stay. *)
QuietCalls ==
  /\ \A p \in Calls : Frame(p).block \in Blocks => p \in Calls' /\ Frame(p)' = Frame(p)
  /\ \A p \in Calls' : Frame(p)'.block \in Blocks => p \in Calls /\ Frame(p)' = Frame(p)

(* The blocks and the references to them stay. *)
QuietBlocks ==
  /\ UNCHANGED <<ctl, registry, wrapper, disposed, deleted, held, gathered, owed>>
  /\ JobsType' /\ phase' \in {"running", "ended", "gathered", "disposed", "over"}
  /\ phase' = "running" => phase = "running"

(* Then all that the invariant says of the blocks stays. *)
LEMMA QuietKeeps ==
  ASSUME ForeignInv, QuietBlocks, QuietCalls
  PROVE  TypesOK' /\ BlocksOK' /\ CallsOK' /\ KeepsRefs /\ UsableOK' /\ IdsOK'
<1>1. /\ ctl' = ctl /\ registry' = registry /\ wrapper' = wrapper /\ disposed' = disposed
      /\ deleted' = deleted /\ held' = held /\ gathered' = gathered /\ owed' = owed
  BY Zenon DEF QuietBlocks
<1>2. TypesOK'
  BY Zenon, <1>1 DEF ForeignInv, TypesOK, QuietBlocks
<1>3. \A b \in Blocks : /\ \A p \in Calls : Using(p, b) => p \in Calls' /\ Using(p, b)'
                        /\ \A p \in Calls' : Using(p, b)' => p \in Calls /\ Using(p, b)
                        /\ \A p \in Calls' : Last(p, b)' => p \in Calls /\ Last(p, b)
                        /\ \A p \in Calls' : Frame(p)'.block = b => p \in Calls /\ Frame(p)' = Frame(p)
  BY Zenon DEF QuietCalls, Using, Last
<1>4. BlocksOK'
  BY Zenon, <1>1, <1>3 DEF ForeignInv, BlocksOK
<1>5. CallsOK'
  <2>1. ASSUME NEW b \in Blocks, NEW p \in Calls', Frame(p)'.block = b PROVE CallOK(p, b)'
    <3>1. CallOK(p, b) /\ Frame(p)' = Frame(p)
      BY Zenon, <1>3, <2>1 DEF ForeignInv, CallsOK
    <3> QED
      BY Zenon, <1>1, <3>1 DEF CallOK
  <2> QED
    BY <1>3, <2>1 DEF ForeignInv, CallsOK
<1>6. ASSUME NEW b \in Blocks PROVE SameRef(b)
  <2>1. Dropping(b)' = Dropping(b)
    BY Zenon DEF QuietCalls, Dropping
  <2> QED
    BY <1>1, <2>1, SameWrapping DEF SameRef
<1>7. UsableOK'
  BY Zenon, <1>1 DEF ForeignInv, UsableOK, QuietBlocks
<1>8. IdsOK'
  BY Zenon, <1>1 DEF ForeignInv, IdsOK, Created
<1> QED
  BY <1>2, <1>4, <1>5, <1>6, <1>7, <1>8 DEF KeepsRefs

(* Such a step outside the end of the run *)
LEMMA QuietFrames ==
  ASSUME ForeignInv, QuietBlocks, QuietCalls, phase' = phase,
         phase = "gathered" => Frame(First)' = Frame(First),
         phase = "gathered" /\ Frame(First).step = "release" => (Second \in Calls' <=> Second \in Calls),
         \A p \in Calls' : Frame(p)'.block \in Blocks \/ IsCollect(p)' \/ IsAll(p)'
  PROVE  FramesOK' /\ EndOK'
<1>1. /\ ctl' = ctl /\ registry' = registry /\ wrapper' = wrapper /\ disposed' = disposed
      /\ deleted' = deleted /\ held' = held /\ gathered' = gathered /\ owed' = owed
  BY Zenon DEF QuietBlocks
<1>2. \A b \in Blocks : NextHeld(b)' <=> NextHeld(b)
  BY Zenon, <1>1 DEF NextHeld
<1>3. ASSUME NEW p \in Calls', Frame(p)'.block \in Blocks PROVE IsRelease(p)' \/ IsDispose(p)'
  <2>1. p \in Calls /\ Frame(p)' = Frame(p) /\ Frame(p).block \in Blocks
    BY Zenon, <1>3 DEF QuietCalls
  <2>2. IsRelease(p) => IsRelease(p)'
    BY Zenon, <1>1, <2>1 DEF IsRelease
  <2>3. IsDispose(p) => IsDispose(p)'
    BY Zenon, <1>1, <1>2, <2>1 DEF IsDispose, Second
  <2> QED
    BY <2>1, <2>2, <2>3, BlockCall DEF ForeignInv
<1>4. FramesOK'
  BY Zenon, <1>3 DEF FramesOK
<1>5. ASSUME NEW c \in held, ctl[c].disposed
      PROVE  NextHeld(c)' /\ Frame(First)'.step = "release"
  <2>1. phase = "gathered"
    BY Zenon, <1>5 DEF ForeignInv, StagesOK
  <2> QED
    BY <1>2, <1>5, <2>1 DEF ForeignInv, EndOK, TypesOK
<1>6. ASSUME phase' = "gathered", Frame(First)'.step = "release"
      PROVE  IF Second \in Calls' THEN Frame(Second)'.kind = "dispose"
                                  ELSE \A b \in held' : NextHeld(b)' => deleted'[b] = 1
  <2>1. Frame(First).step = "release" /\ phase = "gathered"
    BY Zenon, <1>6
  <2>2. CASE Second \in Calls
    <3>1. Frame(Second).kind = "dispose"
      BY <2>1, <2>2 DEF ForeignInv, EndOK
    <3>2. IsDispose(Second)
      BY Zenon, <2>2, <3>1 DEF ForeignInv, FramesOK, IsCollect, IsAll, IsRelease
    <3>3. Frame(Second)' = Frame(Second) /\ Second \in Calls'
      BY <2>2, <3>2 DEF IsDispose, QuietCalls
    <3> QED
      BY <3>1, <3>3
  <2>3. CASE Second \notin Calls
    BY <1>1, <1>2, <2>1, <2>3 DEF ForeignInv, EndOK, TypesOK
  <2> QED
    BY Zenon, <2>2, <2>3
<1>7. EndOK'
  <2>1. Created' = Created
    BY Zenon, <1>1 DEF Created
  <2>2. /\ held \subseteq gathered /\ gathered \subseteq Created
        /\ \A b \in gathered \ held : deleted[b] = 1 /\ \A c \in held : ctl[c].debugId < ctl[b].debugId
    BY Zenon DEF ForeignInv, EndOK
  <2>3. First' = First /\ Second' = Second
    BY Zenon DEF First, Second
  <2> QED
    BY <1>1, <1>5, <1>6, <2>1, <2>2, <2>3 DEF EndOK
<1> QED
  BY Zenon, <1>4, <1>7

(* The stacks stay. *)
LEMMA SameJobs ==
  ASSUME TypesOK, job' = job
  PROVE  SameCalls /\ JobsType'
BY Zenon DEF SameCalls, Calls, Frame, TypesOK, JobsType

(* A step that only moves a thread through the queue. *)
LEMMA QuietSame ==
  ASSUME ForeignInv, job' = job, QuietBlocks, phase' = phase, NEW t \in Threads,
         place'[t] # "out" => job[t] # <<>> /\ job[t][1].kind = "collect",
         \A u \in Threads \ {t} : place'[u] = place[u]
  PROVE  ForeignInv' /\ KeepsRefs
<1>1. SameCalls
  BY Zenon, SameJobs DEF ForeignInv
<1>2. QuietCalls
  BY Zenon, <1>1 DEF SameCalls, QuietCalls
<1>3. TypesOK' /\ BlocksOK' /\ CallsOK' /\ KeepsRefs /\ UsableOK' /\ IdsOK'
  BY Zenon, <1>2, QuietKeeps
<1>4. First \in Calls => Frame(First)' = Frame(First)
  BY Zenon, <1>1 DEF SameCalls
<1>5. phase = "gathered" => First \in Calls
  BY Zenon DEF ForeignInv, StagesOK
<1>6. \A p \in Calls' : Frame(p)'.block \in Blocks \/ IsCollect(p)' \/ IsAll(p)'
  BY Zenon, <1>1 DEF SameCalls, ForeignInv, FramesOK, IsCollect, IsAll, IsRelease, IsDispose, First
<1>7. FramesOK' /\ EndOK'
  BY Zenon, <1>1, <1>2, <1>4, <1>5, <1>6, QuietFrames DEF SameCalls
<1>8. StagesOK'
  <2>1. First \in Calls' /\ Frame(First)'.kind = "all" <=> First \in Calls /\ Frame(First).kind = "all"
    BY Zenon, <1>1, <1>4 DEF SameCalls
  <2>2. held' = held /\ gathered' = gathered
    BY Zenon DEF QuietBlocks
  <2>3. \A u \in Threads : place'[u] # "out" => job'[u] # <<>> /\ job'[u][1].kind = "collect"
    BY Zenon DEF ForeignInv, StagesOK
  <2> QED
    BY Zenon, <2>1, <2>2, <2>3 DEF ForeignInv, StagesOK, First
<1> QED
  BY <1>3, <1>7, <1>8 DEF ForeignInv

(* The end of a collection, or of the queue's run after it *)
LEMMA QuietReturn ==
  ASSUME ForeignInv, QuietBlocks, phase' = phase, NEW t \in Threads,
         job[t] # <<>>, job[t][1].step \in {"collect", "run"}, Return(t),
         place' = place, place[t] = "out"
  PROVE  ForeignInv' /\ KeepsRefs
<1>0. JobsType
  BY Zenon DEF ForeignInv, TypesOK
<1>1. PICK n \in Nat : /\ Len(job[t]) = n + 1 /\ Frame(<<t, n>>) = job[t][1] /\ Popped(<<t, n>>)
                       /\ \A u \in Threads \ {t} : job'[u] = job[u]
  BY Zenon, <1>0, ReturnPops
<1>2. IsCollect(<<t, n>>) /\ <<t, n>> \in Calls
  BY Zenon, <1>1 DEF Popped, ForeignInv, FramesOK, IsAll, IsRelease, IsDispose
<1>3. QuietCalls
  BY <1>1, <1>2, NoneIsNoEntry DEF Popped, QuietCalls, IsCollect, Blocks
<1>4. TypesOK' /\ BlocksOK' /\ CallsOK' /\ KeepsRefs /\ UsableOK' /\ IdsOK'
  BY <1>3, QuietKeeps
<1>5. phase = "gathered" => First \in Calls /\ Frame(First).kind = "all"
  BY Zenon DEF ForeignInv, StagesOK
<1>6. phase = "gathered" => First \in Calls' /\ Frame(First)' = Frame(First)
  BY <1>1, <1>2, <1>5 DEF Popped, IsCollect
<1>7. phase = "gathered" /\ Frame(First).step = "release" => (Second \in Calls' <=> Second \in Calls)
  BY Zenon, <1>1, <1>2 DEF Popped, IsCollect, ForeignInv, EndOK
<1>8. \A p \in Calls' : Frame(p)'.block \in Blocks \/ IsCollect(p)' \/ IsAll(p)'
  BY ZenonT(40), <1>1 DEF Popped, ForeignInv, FramesOK, IsCollect, IsAll, IsRelease, IsDispose, First
<1>9. FramesOK' /\ EndOK'
  BY Zenon, <1>3, <1>6, <1>7, <1>8, QuietFrames
<1>10. StagesOK'
  <2>1. First \in Calls' /\ Frame(First)'.kind = "all" <=> First \in Calls /\ Frame(First).kind = "all"
    BY Zenon, <1>1, <1>2 DEF Popped, IsCollect
  <2>2. held' = held /\ gathered' = gathered
    BY Zenon DEF QuietBlocks
  <2> QED
    BY Zenon, <1>1, <2>1, <2>2, StagesKept DEF ForeignInv
<1> QED
  BY <1>4, <1>9, <1>10 DEF ForeignInv

(* A collection begins (Collect). *)
LEMMA InvCollect ==
  ASSUME ForeignInv, Referred, QueueShape, NEW t \in Threads, Collect(t)
  PROVE  ForeignInv' /\ KeepsRefs
<1> DEFINE j == Job("collect", None, "collect", None)
<1>0. JobsType /\ j \in JobType /\ Call(t, j)
  BY Zenon DEF ForeignInv, TypesOK, Collect, JobType, Job, Kinds, Steps
<1>1. /\ JobsType' /\ job'[t] # <<>> /\ job'[t][1] = j
      /\ \A u \in Threads \ {t} : job'[u] = job[u]
  BY Zenon, <1>0, CallPushes
<1>2. PICK n \in Nat : n = Len(job[t]) /\ Pushed(<<t, n>>, j)
  BY Zenon, <1>0, CallPushes
<1>3. /\ j.kind = "collect" /\ j.block = None /\ j.step = "collect" /\ j.wrapper = None
      /\ j.block \notin Blocks
  BY Zenon, NoneIsNoEntry DEF Job, Blocks
<1>4. QuietCalls
  BY Zenon, <1>2, <1>3 DEF Pushed, QuietCalls
<1>5. QuietBlocks /\ phase' = phase /\ place' = place /\ held' = held /\ gathered' = gathered
  BY Zenon, <1>1 DEF Collect, QuietBlocks, endVars, queueVars, ForeignInv, TypesOK
<1>6. TypesOK' /\ BlocksOK' /\ CallsOK' /\ KeepsRefs /\ UsableOK' /\ IdsOK'
  BY Zenon, <1>4, <1>5, QuietKeeps
<1>7. phase = "gathered" => First \in Calls /\ Frame(First)' = Frame(First)
  BY Zenon, <1>2 DEF Pushed, ForeignInv, StagesOK
<1>8. ASSUME phase = "gathered" PROVE <<t, n>> # Second
  <2>1. job[t] # <<>> /\ job[t][1].step = "delete"
    BY Zenon, <1>8 DEF Collect, MayCollect, Program, Calling
  <2>2. job[t][1].kind # "all"
    BY Zenon, <2>1, TopFrame DEF IsAll, IsCollect, IsRelease, IsDispose
  <2>3. ~(t = Main /\ n = 1)
    BY <1>2, <1>8, <2>1, <2>2, LoopCall DEF ForeignInv
  <2> QED
    BY Zenon, <2>3 DEF Second
<1>9. \A p \in Calls' : Frame(p)'.block \in Blocks \/ IsCollect(p)' \/ IsAll(p)'
  <2>1. IsCollect(<<t, n>>)'
    BY Zenon, <1>2, <1>3 DEF Pushed, IsCollect
  <2>2. ASSUME NEW p \in Calls PROVE Frame(p)'.block \in Blocks \/ IsCollect(p)' \/ IsAll(p)'
    BY Zenon, <1>2, <2>2 DEF Pushed, ForeignInv, FramesOK, IsCollect, IsAll, IsRelease, IsDispose, First
  <2> QED
    BY <1>2, <2>1, <2>2 DEF Pushed
<1>10. FramesOK' /\ EndOK'
  BY <1>2, <1>4, <1>5, <1>7, <1>8, <1>9, QuietFrames DEF Pushed
<1>11. StagesOK'
  <2>1. First \in Calls' /\ Frame(First)'.kind = "all" <=> First \in Calls /\ Frame(First).kind = "all"
    BY <1>2, <1>3 DEF Pushed
  <2>2. phase = "running" \/ job[t] # <<>>
    BY Zenon DEF Collect, MayCollect, Program, Calling
  <2> QED
    BY <1>1, <1>3, <1>5, <2>1, <2>2, StagesKept DEF ForeignInv
<1> QED
  BY Zenon, <1>6, <1>10, <1>11 DEF ForeignInv

(* A collection is over, by its end or by an exception. *)
LEMMA InvCollectionEnds ==
  ASSUME ForeignInv, Referred, QueueShape, NEW t \in Threads, EndCollection(t) \/ CollectionThrows(t)
  PROVE  ForeignInv' /\ KeepsRefs
<1>0. /\ UNCHANGED <<ctl, registry, wrapper, disposed, deleted, held, gathered>> /\ phase' = phase
      /\ job[t] # <<>> /\ job[t][1].step = "collect" /\ place[t] = "out"
  BY Zenon DEF EndCollection, CollectionThrows, endVars, Calling
<1>1. CASE Return(t) /\ UNCHANGED queueVars
  <2>1. JobsType'
    BY <1>0, <1>1, ReturnPops DEF ForeignInv, TypesOK
  <2>2. QuietBlocks /\ place' = place
    BY SMTT(30), <1>0, <1>1, <2>1 DEF QuietBlocks, queueVars, ForeignInv, TypesOK
  <2> QED
    BY <1>0, <1>1, <2>2, QuietReturn
<1>2. CASE Look(t) /\ UNCHANGED job
  <2>1. QuietBlocks
    BY <1>0, <1>2, SameJobs DEF QuietBlocks, Look, ForeignInv, TypesOK
  <2>2. job[t][1].kind = "collect"
    BY Zenon, <1>0, TopFrame DEF IsCollect, IsAll, IsRelease, IsDispose
  <2>3. \A u \in Threads \ {t} : place'[u] = place[u]
    BY Zenon, <1>2 DEF Look, At, QueueShape
  <2> QED
    BY SMTT(30), <1>0, <1>2, <2>1, <2>2, <2>3, QuietSame
<1> QED
  BY SMTT(30), <1>1, <1>2 DEF EndCollection, CollectionThrows

(* runDeferredReleases is through with its batch. *)
LEMMA InvEndRun ==
  ASSUME ForeignInv, Referred, QueueShape, NEW t \in Threads, RunRelease(t), EndRun(t), Return(t)
  PROVE  ForeignInv' /\ KeepsRefs
<1>0. /\ UNCHANGED <<ctl, registry, wrapper, disposed, deleted, held, gathered>> /\ phase' = phase
      /\ job[t] # <<>> /\ job[t][1].step = "run" /\ place[t] = "out" /\ place' = place /\ owed' = owed
  BY Zenon DEF RunRelease, EndRun, endVars, Calling
<1>1. JobsType'
  BY <1>0, ReturnPops DEF ForeignInv, TypesOK
<1>2. QuietBlocks
  BY <1>0, <1>1 DEF QuietBlocks, ForeignInv, TypesOK
<1> QED
  BY <1>0, <1>2, QuietReturn

(* The queue's steps but the one that fails *)
LEMMA InvQueue ==
  ASSUME ForeignInv, Referred, QueueShape, NEW t \in Threads, QueueStep(t), ~PushFails(t)
  PROVE  ForeignInv' /\ KeepsRefs
<1>0. /\ UNCHANGED <<ctl, registry, wrapper, disposed, deleted, held, gathered>> /\ phase' = phase
  BY Zenon DEF QueueStep, endVars
<1>1. CASE (Push(t) \/ Flag(t) \/ Lock(t) \/ Clear(t)) /\ UNCHANGED job
  <2>1. owed' = owed /\ place[t] # "out" /\ \A u \in Threads \ {t} : place'[u] = place[u]
    BY Zenon, <1>1 DEF Push, Flag, Lock, Clear, At, QueueShape
  <2>2. job[t] # <<>> /\ job[t][1].kind = "collect"
    BY <2>1 DEF ForeignInv, StagesOK
  <2>3. QuietBlocks
    BY <1>0, <1>1, <2>1, SameJobs DEF QuietBlocks, ForeignInv, TypesOK
  <2> QED
    BY ZenonT(40), <1>0, <1>1, <2>1, <2>2, <2>3, QuietSame
<1>2. CASE Swap(t) /\ Goto(t, "run")
  <2>1. owed' = owed /\ place[t] # "out" /\ \A u \in Threads \ {t} : place'[u] = place[u]
    BY Zenon, <1>2 DEF Swap, At, QueueShape
  <2>2. job[t] # <<>> /\ job[t][1].kind = "collect" /\ JobsType /\ "run" \in Steps
    BY <2>1 DEF ForeignInv, StagesOK, TypesOK, Steps
  <2>3. PICK j : j = [job[t][1] EXCEPT !.step = "run"]
    BY Zenon
  <2>4. /\ JobsType' /\ job'[t] # <<>> /\ job'[t][1] = j /\ \A u \in Threads \ {t} : job'[u] = job[u]
    BY <1>2, <2>2, <2>3, GotoChanges
  <2>5. PICK n \in Nat : Frame(<<t, n>>) = job[t][1] /\ Changed(<<t, n>>, j)
    BY Zenon, <1>2, <2>2, <2>3, GotoChanges
  <2>6. IsCollect(<<t, n>>) /\ Frame(<<t, n>>) \in JobType
    BY Zenon, <2>2, <2>5, FrameIsJob DEF Changed, ForeignInv, FramesOK, IsAll, IsRelease, IsDispose
  <2>7. j.kind = "collect" /\ j.block = None /\ j.step = "run" /\ j.wrapper = None /\ None \notin Blocks
    BY <2>3, <2>5, <2>6, NoneIsNoEntry DEF IsCollect, JobType, Blocks
  <2>8. QuietCalls
    BY <2>5, <2>6, <2>7 DEF Changed, IsCollect, QuietCalls
  <2>9. QuietBlocks
    BY <1>0, <2>1, <2>4 DEF QuietBlocks, ForeignInv, TypesOK
  <2>10. TypesOK' /\ BlocksOK' /\ CallsOK' /\ KeepsRefs /\ UsableOK' /\ IdsOK'
    BY <2>8, <2>9, QuietKeeps
  <2>11. \A p \in Calls' : Frame(p)'.block \in Blocks \/ IsCollect(p)' \/ IsAll(p)'
    <3>1. IsCollect(<<t, n>>)'
      BY <2>5, <2>7 DEF Changed, IsCollect
    <3>2. ASSUME NEW p \in Calls \ {<<t, n>>} PROVE Frame(p)'.block \in Blocks \/ IsCollect(p)' \/ IsAll(p)'
      BY ZenonT(40), <2>5, <3>2 DEF Changed, ForeignInv, FramesOK, IsCollect, IsAll, IsRelease, IsDispose, First
    <3> QED
      BY <2>5, <3>1, <3>2 DEF Changed
  <2>12. First \in Calls /\ Frame(First).kind = "all" => Frame(First)' = Frame(First)
    BY <2>5, <2>6 DEF Changed, IsCollect
  <2>13. phase = "gathered" => First \in Calls /\ Frame(First).kind = "all"
    BY Zenon DEF ForeignInv, StagesOK
  <2>14. FramesOK' /\ EndOK'
    BY <1>0, <2>5, <2>8, <2>9, <2>11, <2>12, <2>13, QuietFrames DEF Changed
  <2>15. First \in Calls' /\ Frame(First)'.kind = "all" <=> First \in Calls /\ Frame(First).kind = "all"
    BY <2>5, <2>6, <2>7 DEF Changed, IsCollect
  <2>16. job'[t][1].kind = "collect"
    BY <2>4, <2>7
  <2>17. StagesOK'
    BY <1>0, <2>1, <2>2, <2>4, <2>15, <2>16, StagesKept DEF ForeignInv
  <2> QED
    BY <2>10, <2>14, <2>17 DEF ForeignInv
<1> QED
  BY Zenon, <1>1, <1>2 DEF QueueStep

(* The program ends. *)
LEMMA InvEndProgram ==
  ASSUME ForeignInv, Referred, QueueShape, EndProgram
  PROVE  ForeignInv' /\ KeepsRefs
<1>0. /\ UNCHANGED <<ctl, registry, wrapper, disposed, deleted, held, gathered, job, owed>>
      /\ phase = "running" /\ phase' = "ended" /\ place' = place /\ job[Main] = <<>>
      /\ held = {} /\ gathered = {}
  BY Zenon DEF EndProgram, Program, queueVars, ForeignInv, StagesOK
<1>1. SameCalls /\ JobsType'
  BY Zenon, <1>0, SameJobs DEF ForeignInv
<1>2. QuietCalls /\ QuietBlocks
  BY Zenon, <1>0, <1>1 DEF SameCalls, QuietCalls, QuietBlocks
<1>3. TypesOK' /\ BlocksOK' /\ CallsOK' /\ KeepsRefs /\ UsableOK' /\ IdsOK'
  BY <1>2, QuietKeeps
<1>4. \A p \in Calls : Frame(p).kind # "dispose"
  BY FrameIsJob DEF EndProgram, ForeignInv, TypesOK
<1>5. FramesOK'
  <2> SUFFICES ASSUME NEW p \in Calls' PROVE IsCollect(p)' \/ IsAll(p)' \/ IsRelease(p)'
    BY Zenon DEF FramesOK
  <2>1. p \in Calls /\ Frame(p)' = Frame(p) /\ (IsCollect(p) \/ IsAll(p) \/ IsRelease(p))
    BY Zenon, <1>1, <1>4 DEF SameCalls, ForeignInv, FramesOK, IsDispose
  <2> QED
    BY Zenon, <1>0, <2>1 DEF IsCollect, IsAll, IsRelease, First
<1>6. First \in Calls => Frame(First)' = Frame(First)
  BY Zenon, <1>1 DEF SameCalls
<1>7. StagesOK'
  BY ZenonT(40), <1>0, <1>1, <1>6 DEF SameCalls, ForeignInv, StagesOK, First
<1>8. EndOK'
  BY Zenon, <1>0 DEF EndOK
<1> QED
  BY SMTT(30), <1>3, <1>5, <1>7, <1>8 DEF ForeignInv

(* disposeAllForeignResources returns. *)
LEMMA InvAllDisposed ==
  ASSUME ForeignInv, Referred, QueueShape, AllDisposed
  PROVE  ForeignInv' /\ KeepsRefs
<1>0. /\ UNCHANGED <<ctl, registry, wrapper, disposed, deleted, held, gathered, owed, place>>
      /\ job[Main] # <<>> /\ job[Main][1].step = "dispose" /\ place[Main] = "out"
      /\ held = {} /\ phase' = "disposed" /\ Return(Main) /\ Main \in Threads
  BY ForeignConstants DEF AllDisposed, Calling, queueVars
<1>1. job[Main][1].kind = "all" /\ JobsType
  BY ZenonT(40), <1>0, TopFrame DEF IsCollect, IsAll, IsRelease, IsDispose, ForeignInv, TypesOK
<1>2. phase = "gathered" /\ Len(job[Main]) = 1
  BY Zenon, <1>0, <1>1, LoopCall DEF ForeignInv
<1>3. PICK n \in Nat : Len(job[Main]) = n + 1 /\ Frame(<<Main, n>>) = job[Main][1] /\ Popped(<<Main, n>>)
  BY Zenon, <1>0, <1>1, ReturnPops
<1>4. n = 0
  <2>1. \A k \in Nat : k + 1 = 1 => k = 0
    BY SMT
  <2> QED
    BY Zenon, <1>2, <1>3, <2>1
<1>5. Popped(First) /\ JobsType' /\ \A u \in Threads \ {Main} : job'[u] = job[u]
  BY Zenon, <1>0, <1>1, <1>3, <1>4, ReturnPops DEF First
<1>6. Second \notin Calls
  <2>1. Second \in Calls <=> 1 < Len(job[Main])
    BY Zenon, <1>0, <1>1, InCalls DEF Second
  <2> QED
    BY <1>2, <2>1
<1>7. job'[Main] = <<>>
  <2>1. First \notin Calls'
    BY Zenon, <1>5 DEF Popped
  <2>2. ~(0 < Len(job'[Main])) /\ job'[Main] \in Seq(JobType)
    BY <1>0, <1>5, <2>1, InCallsNext DEF First, JobsType
  <2> QED
    BY <2>2
<1>8. Frame(First).block = None /\ None \notin Blocks
  BY ZenonT(40), <1>1, <1>3, <1>4, NoneIsNoEntry
     DEF Popped, First, ForeignInv, FramesOK, IsCollect, IsAll, IsRelease, IsDispose, Blocks
<1>9. QuietCalls /\ QuietBlocks
  BY Zenon, <1>0, <1>5, <1>8 DEF Popped, QuietCalls, QuietBlocks
<1>10. TypesOK' /\ BlocksOK' /\ CallsOK' /\ KeepsRefs /\ UsableOK' /\ IdsOK'
  BY Zenon, <1>9, QuietKeeps
<1>11. FramesOK'
  <2> SUFFICES ASSUME NEW p \in Calls' PROVE IsCollect(p)' \/ IsAll(p)' \/ IsRelease(p)'
    BY Zenon DEF FramesOK
  <2>1. p \in Calls /\ Frame(p)' = Frame(p) /\ p # First
    BY Zenon, <1>5 DEF Popped
  <2>2. IsCollect(p) \/ IsAll(p) \/ IsRelease(p)
    BY ZenonT(40), <1>2, <1>6, <2>1 DEF ForeignInv, FramesOK, IsDispose
  <2> QED
    BY Zenon, <1>0, <2>1, <2>2 DEF IsCollect, IsAll, IsRelease, First
<1>12. StagesOK'
  BY ZenonT(40), <1>0, <1>5, <1>7 DEF Popped, ForeignInv, StagesOK, First
<1>13. EndOK'
  BY ZenonT(40), <1>0 DEF ForeignInv, EndOK, Created
<1> QED
  BY <1>10, <1>11, <1>12, <1>13 DEF ForeignInv

(* The context is torn down (EndContext). *)
LEMMA InvEndContext ==
  ASSUME ForeignInv, Referred, QueueShape, EndContext
  PROVE  ForeignInv' /\ KeepsRefs
<1> DEFINE j == Job("collect", None, "collect", None)
<1>0. /\ UNCHANGED <<ctl, registry, wrapper, disposed, deleted, held, gathered, owed, place>>
      /\ phase = "disposed" /\ phase' = "over" /\ job[Main] = <<>> /\ held = {} /\ Main \in Threads
      /\ JobsType /\ j \in JobType /\ Call(Main, j)
  BY ZenonT(40), ForeignConstants DEF EndContext, queueVars, ForeignInv, StagesOK, TypesOK, JobType, Job, Kinds, Steps
<1>1. /\ JobsType' /\ job'[Main] # <<>> /\ job'[Main][1] = j
      /\ \A u \in Threads \ {Main} : job'[u] = job[u]
  BY Zenon, <1>0, CallPushes
<1>2. PICK n \in Nat : n = Len(job[Main]) /\ Pushed(<<Main, n>>, j)
  BY <1>0, CallPushes
<1>3. Pushed(First, j)
  BY <1>0, <1>2 DEF First
<1>4. /\ j.kind = "collect" /\ j.block = None /\ j.step = "collect" /\ j.wrapper = None
      /\ j.block \notin Blocks
  BY Zenon, NoneIsNoEntry DEF Job, Blocks
<1>5. QuietCalls /\ QuietBlocks
  BY <1>0, <1>1, <1>3, <1>4 DEF Pushed, QuietCalls, QuietBlocks
<1>6. TypesOK' /\ BlocksOK' /\ CallsOK' /\ KeepsRefs /\ UsableOK' /\ IdsOK'
  BY Zenon, <1>5, QuietKeeps
<1>7. FramesOK'
  <2>1. IsCollect(First)'
    BY Zenon, <1>3, <1>4 DEF Pushed, IsCollect
  <2>2. ASSUME NEW p \in Calls PROVE IsCollect(p)' \/ IsAll(p)' \/ IsRelease(p)'
    <3>1. IsCollect(p) \/ IsAll(p) \/ IsRelease(p)
      BY Zenon, <1>0, <2>2 DEF ForeignInv, FramesOK, IsDispose
    <3>2. Frame(p)' = Frame(p)
      BY Zenon, <1>3, <2>2 DEF Pushed
    <3> QED
      BY ZenonT(40), <1>0, <3>1, <3>2 DEF IsCollect, IsAll, IsRelease, First
  <2> QED
    BY Zenon, <1>3, <2>1, <2>2 DEF Pushed, FramesOK
<1>8. StagesOK'
  <2>1. \A u \in Threads : place'[u] # "out" => job'[u] # <<>> /\ job'[u][1].kind = "collect"
    BY <1>0, <1>1, <1>4 DEF ForeignInv, StagesOK
  <2>2. Frame(First)'.kind # "all"
    BY Zenon, <1>3, <1>4 DEF Pushed
  <2> QED
    BY Zenon, <1>0, <2>1, <2>2 DEF StagesOK, First
<1>9. EndOK'
  BY Zenon, <1>0 DEF ForeignInv, EndOK, Created
<1> QED
  BY Zenon, <1>6, <1>7, <1>8, <1>9 DEF ForeignInv

-----------------------------------------------------------------------------
(* Steps that begin a release or a dispose, and change no resource *)

(* A call that has just begun *)
Begins(q) ==
  /\ IsRelease(q)' \/ IsDispose(q)'
  /\ Frame(q)'.step = IF Frame(q)'.kind = "dispose" THEN "claim" ELSE "drop"
  /\ phase = "gathered" => q # Second
  /\ ctl[Frame(q)'.block].life = "live"

(* Calls that have just begun keep the invariant. *)
LEMMA CallsGrow ==
  ASSUME ForeignInv, SameStates, SameNames, phase' = phase, held' = held, gathered' = gathered,
         disposed \subseteq disposed',
         \A q \in Calls : q \in Calls' /\ Frame(q)' = Frame(q),
         \A q \in Calls' : q \in Calls \/ Begins(q),
         \A q \in Calls : \A w \in Wrappers : Frame(q).wrapper = w => wrapper'[w] = wrapper[w],
         \A b \in Blocks : ctl[b].refs = 0 => ctl'[b].refs = 0,
         \A b \in Blocks : ctl'[b].refs > 0 => ctl[b].life = "live"
  PROVE  FramesOK' /\ BlocksOK' /\ CallsOK' /\ UsableOK' /\ IdsOK' /\ EndOK'
<1>1. FramesOK'
  <2> SUFFICES ASSUME NEW q \in Calls' PROVE IsCollect(q)' \/ IsAll(q)' \/ IsRelease(q)' \/ IsDispose(q)'
    BY Zenon DEF FramesOK
  <2>1. CASE q \in Calls
    <3>1. phase = "gathered" => Frame(First)' = Frame(First)
      BY Zenon DEF ForeignInv, StagesOK
    <3>2. \A b \in Blocks : ~ctl[b].disposed => ~ctl'[b].disposed
      BY Zenon DEF SameStates
    <3> QED
      BY Zenon, <2>1, <3>1, <3>2, FrameKept
  <2>2. CASE Begins(q)
    BY Zenon, <2>2 DEF Begins
  <2> QED
    BY Zenon, <2>1, <2>2
<1>2. \A q \in Calls' : Begins(q) => /\ Frame(q)'.step \notin {"take", "delete", "free"}
                                     /\ Frame(q)'.kind = "dispose" \/ Frame(q)'.step = "drop"
  BY Zenon DEF Begins
<1>3. \A q \in Calls' : \A b \in Blocks : /\ Using(q, b)' => q \in Calls /\ Using(q, b)
                                          /\ Last(q, b)' => q \in Calls /\ Last(q, b)
  BY Zenon, <1>2 DEF Using, Last
<1>4. BlocksOK'
  <2>1. \A b \in Blocks : \A q \in Calls : Using(q, b) => q \in Calls' /\ Using(q, b)'
    BY Zenon DEF Using
  <2> QED
    BY Zenon, <2>1, BlocksKept DEF ForeignInv
<1>5. CallsOK'
  <2>1. ASSUME NEW q \in Calls', NEW b \in Blocks, Frame(q)'.block = b PROVE CallOK(q, b)'
    <3>1. CASE q \in Calls
      BY <2>1, <3>1, CallKept DEF ForeignInv
    <3>2. CASE Begins(q)
      <4>1. ctl'[b].life = "live"
        BY Zenon, <2>1, <3>2 DEF Begins, SameStates
      <4> QED
        BY SMTT(30), <1>2, <2>1, <3>2, <4>1 DEF CallOK
    <3> QED
      BY Zenon, <3>1, <3>2
  <2> QED
    BY ZenonT(40), <1>3, <2>1 DEF ForeignInv, CallsOK
<1>6. UsableOK'
  <2>1. \A b \in Blocks : ctl'[b].disposed = ctl[b].disposed
    BY Zenon DEF SameStates
  <2> QED
    BY Zenon, <2>1 DEF ForeignInv, UsableOK
<1>7. IdsOK'
  BY Zenon, SameIds DEF ForeignInv
<1>8. EndOK'
  <2>1. phase = "gathered" => Frame(First)' = Frame(First)
    BY Zenon DEF ForeignInv, StagesOK
  <2>2. \A c \in held : ~(ctl'[c].disposed /\ ~ctl[c].disposed)
    BY Zenon DEF SameStates, ForeignInv, TypesOK
  <2>3. \A c \in gathered : deleted[c] = 1 => deleted'[c] = 1
    BY Zenon DEF SameStates
  <2>4. phase = "gathered" => (Second \in Calls' => Second \in Calls)
    BY Zenon DEF Begins
  <2>5. phase = "gathered" /\ Frame(First).step = "release" =>
           /\ Second \in Calls' => Second \in Calls /\ Frame(Second)'.kind = Frame(Second).kind
           /\ Second \in Calls /\ Second \notin Calls' => \A c \in held : NextHeld(c) => deleted'[c] = 1
    BY Zenon, <2>4
  <2> QED
    BY SMTT(30), <2>1, <2>2, <2>3, <2>5, EndKept
<1> QED
  BY <1>1, <1>4, <1>5, <1>6, <1>7, <1>8

(* A release begins on t. *)
LEMMA ReleaseBegins ==
  ASSUME ForeignInv, NEW t \in Threads, NEW k \in {"release", "in place"}, NEW b \in Blocks,
         Call(t, Job(k, b, "drop", None)), ctl[b].life = "live",
         phase' = phase, held' = held, gathered' = gathered,
         phase = "running" \/ (job[t] # <<>> /\ job[t][1].kind # "all"),
         place'[t] = "out", \A u \in Threads \ {t} : place'[u] = place[u]
  PROVE  /\ JobsType' /\ StagesOK'
         /\ \A q \in Calls : q \in Calls' /\ Frame(q)' = Frame(q)
         /\ \A q \in Calls' : q \in Calls \/ Begins(q)
         /\ \E p : p \notin Dropping(b) /\ Dropping(b)' = Dropping(b) \union {p}
         /\ \A c \in Blocks \ {b} : Dropping(c)' = Dropping(c)
<1>0. PICK j : j = Job(k, b, "drop", None)
  BY ZenonT(40)
<1>1. j.kind = k /\ j.block = b /\ j.step = "drop" /\ j.wrapper = None /\ j \in JobType
  BY ZenonT(40), <1>0 DEF Job, JobType, Kinds, Steps
<1>2. JobsType /\ Call(t, j)
  BY ZenonT(40), <1>0 DEF ForeignInv, TypesOK
<1>3. /\ JobsType' /\ job'[t] # <<>> /\ \A u \in Threads \ {t} : job'[u] = job[u]
  BY ZenonT(40), <1>1, <1>2, CallPushes
<1>4. PICK n \in Nat : n = Len(job[t]) /\ Pushed(<<t, n>>, j)
  BY ZenonT(40), <1>1, <1>2, CallPushes
<1>5. PICK p : p = <<t, n>>
  BY ZenonT(40)
<1>6. /\ p \notin Calls /\ Calls' = Calls \union {p} /\ Frame(p)' = j
      /\ \A q \in Calls : Frame(q)' = Frame(q)
  BY ZenonT(40), <1>4, <1>5 DEF Pushed
<1>7. phase = "gathered" => p # Second
  <2>1. ASSUME phase = "gathered", p = Second PROVE FALSE
    <3>1. job[t] # <<>> /\ job[t][1].kind # "all"
      BY ZenonT(40), <2>1
    <3>2. t = Main /\ Len(job[t]) = 1
      <4>1. <<t, n>> = <<Main, 1>>
        BY Zenon, <1>5, <2>1 DEF Second
      <4>2. t = Main /\ n = 1
        BY ONLY ZenonT(40), <4>1
      <4> QED
        BY Zenon, <1>4, <4>2
    <3> QED
      BY ZenonT(40), <2>1, <3>1, <3>2, LoopCall DEF ForeignInv
  <2> QED
    BY ZenonT(40), <2>1
<1>8. Begins(p)
  <2>1. IsRelease(p)'
    BY ZenonT(40), <1>1, <1>6 DEF IsRelease
  <2> QED
    BY ZenonT(40), <1>1, <1>6, <1>7, <2>1 DEF Begins
<1>9. StagesOK'
  <2>1. First \in Calls' /\ Frame(First)'.kind = "all" <=> First \in Calls /\ Frame(First).kind = "all"
    BY ZenonT(40), <1>1, <1>6
  <2> QED
    BY ZenonT(40), <1>3, <2>1, StagesKept DEF ForeignInv
<1>10. /\ p \notin Dropping(b) /\ Dropping(b)' = Dropping(b) \union {p}
       /\ \A c \in Blocks \ {b} : Dropping(c)' = Dropping(c)
  BY ZenonT(40), <1>1, <1>6 DEF Dropping
<1> QED
  BY ZenonT(40), <1>3, <1>6, <1>8, <1>9, <1>10

(* A release that was owed begins. *)
OneBegun ==
  \E b \in Blocks :
    /\ \E p : p \notin Dropping(b) /\ Dropping(b)' = Dropping(b) \union {p}
    /\ wrapper' = wrapper /\ held' = held /\ ctl'[b].refs = ctl[b].refs /\ owed'[b] = owed[b] - 1
    /\ \A c \in Blocks \ {b} : SameRef(c)

(* The queue gives a release to its thread. *)
LEMMA OwedBegins ==
  ASSUME ForeignInv, NEW t \in Threads, NEW k \in {"release", "in place"}, NEW b \in Blocks,
         Call(t, Job(k, b, "drop", None)), ctl[b].life = "live", job[t] # <<>>, job[t][1].kind = "collect",
         UNCHANGED <<ctl, registry, wrapper, endVars, disposed, deleted>>,
         place'[t] = "out", \A u \in Threads \ {t} : place'[u] = place[u],
         owed' = [owed EXCEPT ![b] = @ - 1], owed \in [Blocks -> Nat]
  PROVE  ForeignInv' /\ OneBegun
<1>1. /\ phase' = phase /\ held' = held /\ gathered' = gathered /\ ctl' = ctl /\ registry' = registry
      /\ wrapper' = wrapper /\ disposed' = disposed /\ deleted' = deleted
  BY ZenonT(40) DEF endVars
<1>2. /\ JobsType' /\ StagesOK'
      /\ \A q \in Calls : q \in Calls' /\ Frame(q)' = Frame(q)
      /\ \A q \in Calls' : q \in Calls \/ Begins(q)
      /\ \E p : p \notin Dropping(b) /\ Dropping(b)' = Dropping(b) \union {p}
      /\ \A c \in Blocks \ {b} : Dropping(c)' = Dropping(c)
  BY ZenonT(40), <1>1, ReleaseBegins
<1>3. SameStates /\ SameNames
  BY ZenonT(40), <1>1 DEF SameStates, SameNames
<1>4. \A c \in Blocks : (ctl[c].refs = 0 => ctl'[c].refs = 0) /\ (ctl'[c].refs > 0 => ctl[c].life = "live")
  BY ZenonT(40), <1>1 DEF ForeignInv, BlocksOK
<1>5. FramesOK' /\ BlocksOK' /\ CallsOK' /\ UsableOK' /\ IdsOK' /\ EndOK'
  BY ZenonT(40), <1>1, <1>2, <1>3, <1>4, CallsGrow
<1>6. TypesOK'
  BY ZenonT(40), <1>1, <1>2 DEF ForeignInv, TypesOK
<1>7. owed'[b] = owed[b] - 1 /\ \A c \in Blocks \ {b} : owed'[c] = owed[c]
  BY ZenonT(40)
<1>8. \A c \in Blocks \ {b} : SameRef(c)
  BY ZenonT(40), <1>1, <1>2, <1>7, SameWrapping DEF SameRef
<1>9. OneBegun
  BY Zenon, <1>1, <1>2, <1>7, <1>8 DEF OneBegun
<1> QED
  BY ZenonT(40), <1>2, <1>5, <1>6, <1>9 DEF ForeignInv

(* Whatever is owed is a release of a live block. *)
OwedIsLive == \A b \in Blocks : owed[b] > 0 => ctl[b].refs > 0

(* What is taken from was not none. *)
LEMMA OneMore == \A x, y \in Nat : y = x - 1 => x > 0
OBVIOUS

(* There is no memory for the entry; the release is made in place. *)
LEMMA InvPushFails ==
  ASSUME ForeignInv, OwedIsLive, QueueShape, QueueShape', NEW t \in Threads, QueueStep(t), PushFails(t),
         Call(t, Job("in place", arg[t], "drop", None))
  PROVE  ForeignInv' /\ OneBegun
<1>1. PICK b : b = arg[t]
  BY Zenon
<1>2. /\ place[t] = "push" /\ place'[t] = "out" /\ \A u \in Threads \ {t} : place'[u] = place[u]
      /\ owed' = [owed EXCEPT ![b] = @ - 1]
  BY Zenon, <1>1 DEF PushFails, At, QueueShape
<1>3. b \in Blocks /\ owed \in [Blocks -> Nat] /\ owed' \in [Blocks -> Nat]
  BY ZenonT(40), <1>1, <1>2 DEF QueueShape, Blocks
<1>4. ctl[b].life = "live"
  <2>1. owed'[b] \in Nat /\ owed'[b] = owed[b] - 1 /\ owed[b] \in Nat
    BY Zenon, <1>2, <1>3
  <2>2. owed[b] > 0
    BY ONLY Zenon, <2>1, OneMore
  <2> QED
    BY ZenonT(40), <1>3, <2>2 DEF OwedIsLive, ForeignInv, BlocksOK
<1>5. job[t] # <<>> /\ job[t][1].kind = "collect"
  BY Zenon, <1>2 DEF ForeignInv, StagesOK
<1>6. /\ Call(t, Job("in place", b, "drop", None))
      /\ UNCHANGED <<ctl, registry, wrapper, endVars, disposed, deleted>>
  BY ZenonT(40), <1>1 DEF QueueStep
<1> QED
  BY Zenon, <1>2, <1>3, <1>4, <1>5, <1>6, OwedBegins

(* runDeferredReleases begins an entry. *)
LEMMA InvRunEntry ==
  ASSUME ForeignInv, OwedIsLive, QueueShape, QueueShape', NEW t \in Threads, RunRelease(t), RunEntry(t),
         Call(t, Release(taken[t][1][1]))
  PROVE  ForeignInv' /\ OneBegun
<1>1. PICK b : b = taken[t][1][1]
  BY Zenon
<1>2. /\ place[t] = "out" /\ place' = place /\ taken[t] # <<>> /\ taken[t][1] # <<>>
      /\ owed' = [owed EXCEPT ![b] = @ - 1]
  BY ZenonT(40), <1>1 DEF RunEntry
<1>3. b \in Blocks
  <2>1. taken[t] \in Seq(Seq(Entries))
    BY Zenon DEF QueueShape
  <2>2. taken[t][1] \in Seq(Entries)
    BY Zenon, <1>2, <2>1, StackTail
  <2>3. taken[t][1][1] \in Entries
    BY Zenon, <1>2, <2>2, StackTail
  <2> QED
    BY ZenonT(40), <1>1, <2>3 DEF Blocks
<1>4. owed \in [Blocks -> Nat] /\ owed' \in [Blocks -> Nat]
  BY Zenon DEF QueueShape, Blocks
<1>5. ctl[b].life = "live"
  <2>1. owed'[b] \in Nat /\ owed'[b] = owed[b] - 1 /\ owed[b] \in Nat
    BY SMTT(30), <1>2, <1>3, <1>4
  <2>2. owed[b] > 0
    BY ONLY Zenon, <2>1, OneMore
  <2> QED
    BY ZenonT(40), <1>3, <2>2 DEF OwedIsLive, ForeignInv, BlocksOK
<1>6. job[t] # <<>> /\ job[t][1].step = "run"
  BY Zenon DEF RunRelease, Calling
<1>7. job[t][1].kind = "collect"
  <2>1. PICK n \in Nat :
           /\ Frame(<<t, n>>) = job[t][1]
           /\ IsCollect(<<t, n>>) \/ IsAll(<<t, n>>) \/ IsRelease(<<t, n>>) \/ IsDispose(<<t, n>>)
    BY ZenonT(40), <1>6, TopFrame
  <2> QED
    BY ZenonT(40), <1>6, <2>1 DEF IsCollect, IsAll, IsRelease, IsDispose
<1>8. /\ Call(t, Job("release", b, "drop", None))
      /\ UNCHANGED <<ctl, registry, wrapper, endVars, disposed, deleted>>
  BY ZenonT(40), <1>1 DEF RunRelease, Release
<1> QED
  BY ZenonT(40), <1>2, <1>3, <1>4, <1>5, <1>6, <1>7, <1>8, OwedBegins

(* A wrapper hands its reference on to the queue. *)
OneDeferred ==
  \E b \in Blocks :
    /\ \E w \in Wrapping(b) : Wrapping(b)' = Wrapping(b) \ {w}
    /\ Dropping(b)' = Dropping(b) /\ held' = held /\ ctl'[b].refs = ctl[b].refs /\ owed'[b] = owed[b] + 1
    /\ \A c \in Blocks \ {b} : SameRef(c)

(* A wrapper no stack names is named by no call. *)
LEMMA NoCallNames ==
  ASSUME JobsType, NEW w \in Wrappers,
         \A s \in Threads : \A i \in DOMAIN job[s] : job[s][i].wrapper # w
  PROVE  \A q \in Calls : Frame(q).wrapper # w
<1> SUFFICES ASSUME NEW q \in Calls PROVE Frame(q).wrapper # w
  BY Zenon
<1>1. PICK s \in Threads, n \in Nat : q = <<s, n>> /\ n < Len(job[s])
  BY InCalls
<1>2. job[s] \in Seq(JobType)
  BY Zenon DEF JobsType
<1>3. PICK m \in Nat : m = Len(job[s])
  BY <1>2
<1>4. m - n \in 1 .. m
  BY <1>1, <1>3
<1>5. Frame(q) = job[s][m - n]
  BY Zenon, <1>1, <1>3 DEF Frame
<1>6. m - n \in DOMAIN job[s]
  BY <1>2, <1>3, <1>4
<1> QED
  BY Zenon, <1>5, <1>6

(* The finalizer of a wrapper defers the release (Finalize). *)
LEMMA InvFinalize ==
  ASSUME ForeignInv, QueueShape, NEW t \in Threads, NEW w \in Wrappers, Finalize(t, w)
  PROVE  ForeignInv' /\ OneDeferred
<1>1. PICK b \in Blocks : b = wrapper[w]
  BY Zenon DEF Finalize, Made
<1>2. /\ phase' = phase /\ held' = held /\ gathered' = gathered /\ ctl' = ctl /\ registry' = registry
      /\ disposed' = disposed /\ deleted' = deleted /\ job' = job
      /\ wrapper' = [wrapper EXCEPT ![w] = "dead"]
  BY Zenon DEF Finalize, endVars
<1>3. wrapper \in [Wrappers -> Blocks \union {"none", "dead"}] /\ JobsType
  BY Zenon DEF ForeignInv, TypesOK
<1>4. Calls' = Calls /\ \A q \in Calls : Frame(q)' = Frame(q)
  BY Zenon, <1>2 DEF Calls, Frame
<1>5. \A q \in Calls : Frame(q).wrapper # w
  BY Zenon, <1>3, NoCallNames DEF Finalize
<1>6. \A q \in Calls : \A v \in Wrappers : Frame(q).wrapper = v => wrapper'[v] = wrapper[v]
  BY Zenon, <1>2, <1>3, <1>5
<1>7. SameStates /\ SameNames
  BY Zenon, <1>2 DEF SameStates, SameNames
<1>8. \A c \in Blocks : (ctl[c].refs = 0 => ctl'[c].refs = 0) /\ (ctl'[c].refs > 0 => ctl[c].life = "live")
  BY Zenon, <1>2 DEF ForeignInv, BlocksOK
<1>9. FramesOK' /\ BlocksOK' /\ CallsOK' /\ UsableOK' /\ IdsOK' /\ EndOK'
  BY ZenonT(40), <1>2, <1>4, <1>6, <1>7, <1>8, CallsGrow
<1>10. TypesOK'
  BY <1>2, <1>3 DEF ForeignInv, TypesOK, JobsType
<1>11. StagesOK'
  <2>1. job[t] # <<>> /\ job[t][1].step = "collect" /\ place[t] = "out"
    BY Zenon DEF Finalize, Calling
  <2>2. PICK n \in Nat :
           /\ Frame(<<t, n>>) = job[t][1]
           /\ IsCollect(<<t, n>>) \/ IsAll(<<t, n>>) \/ IsRelease(<<t, n>>) \/ IsDispose(<<t, n>>)
    BY Zenon, <2>1, TopFrame
  <2>3. job[t][1].kind = "collect"
    BY ZenonT(40), <2>1, <2>2 DEF IsCollect, IsAll, IsRelease, IsDispose
  <2>4. \A u \in Threads \ {t} : place'[u] = place[u]
    BY Zenon DEF Finalize, Defer, At, QueueShape
  <2> QED
    BY ZenonT(40), <1>2, <1>4, <2>1, <2>3, <2>4 DEF ForeignInv, StagesOK, First
<1>12. \A c \in Blocks : Dropping(c)' = Dropping(c)
  BY Zenon, <1>4 DEF Dropping
<1>13. owed \in [Blocks -> Nat] /\ owed' = [owed EXCEPT ![b] = @ + 1]
  BY Zenon, <1>1 DEF Finalize, Defer, QueueShape, Blocks
<1>14. owed'[b] = owed[b] + 1 /\ \A c \in Blocks \ {b} : owed'[c] = owed[c]
  BY Zenon, <1>13
<1>15. w \in Wrapping(b) /\ Wrapping(b)' = Wrapping(b) \ {w}
  BY <1>1, <1>2, <1>3, ForeignConstants DEF Wrapping
<1>16. \A c \in Blocks \ {b} : Wrapping(c)' = Wrapping(c)
  BY <1>1, <1>2, <1>3, ForeignConstants DEF Wrapping
<1>17. \A c \in Blocks \ {b} : SameRef(c)
  BY SMTT(30), <1>2, <1>12, <1>14, <1>16 DEF SameRef
<1>18. OneDeferred
  BY ZenonT(40), <1>2, <1>12, <1>14, <1>15, <1>17 DEF OneDeferred
<1> QED
  BY SMTT(30), <1>9, <1>10, <1>11, <1>18 DEF ForeignInv

(* A new reference, taken for a wrapper, made or not. *)
OneAdded ==
  \E b \in Blocks :
    /\ \E w : w \notin Wrapping(b) /\ Wrapping(b)' = Wrapping(b) \union {w}
    /\ Dropping(b)' = Dropping(b)
    /\ held' = held /\ owed'[b] = owed[b] /\ ctl'[b].refs = ctl[b].refs + 1
    /\ \A c \in Blocks \ {b} : SameRef(c)

(* Wrap, of a block that is live, or that Create makes so *)
LEMMA WrapGrows ==
  ASSUME ForeignInv, NEW t \in Threads, NEW b \in Blocks, NEW w \in Wrappers,
         Program(t), Wrap(b, w), wrapper[w] = "none",
         UNCHANGED <<job, endVars, disposed, deleted, queueVars>>,
         ctl'[b].refs = ctl[b].refs + 1, \A c \in Blocks \ {b} : ctl'[c].refs = ctl[c].refs
  PROVE  /\ JobsType' /\ StagesOK' /\ OneAdded
         /\ wrapper' \in [Wrappers -> Blocks \union {"none", "dead"}]
         /\ Calls' = Calls /\ \A q \in Calls : Frame(q)' = Frame(q)
         /\ \A q \in Calls : \A v \in Wrappers : Frame(q).wrapper = v => wrapper'[v] = wrapper[v]
<1>0. /\ phase' = phase /\ held' = held /\ gathered' = gathered /\ owed' = owed /\ place' = place
      /\ phase = "running" /\ place[t] = "out" /\ job[t] = <<>> /\ job' = job
  BY ZenonT(40) DEF endVars, queueVars, Program
<1>1. /\ wrapper \in [Wrappers -> Blocks \union {"none", "dead"}] /\ JobsType /\ FramesOK
      /\ "none" \notin Blocks
  BY ZenonT(40), ForeignConstants DEF ForeignInv, TypesOK
<1>2. wrapper' = [wrapper EXCEPT ![w] = b]
  BY Zenon DEF Wrap
<1>3. Calls' = Calls /\ \A q \in Calls : Frame(q)' = Frame(q)
  BY <1>0 DEF Calls, Frame
<1>4. wrapper' \in [Wrappers -> Blocks \union {"none", "dead"}] /\ JobsType'
  BY Zenon, <1>0, <1>1, <1>2 DEF JobsType
<1>5. StagesOK'
  BY ZenonT(40), <1>0, <1>3 DEF ForeignInv, StagesOK, First
<1>6. ASSUME NEW q \in Calls, NEW v \in Wrappers, Frame(q).wrapper = v
      PROVE  wrapper'[v] = wrapper[v]
  <2>1. v # None
    BY ZenonT(40), ForeignConstants
  <2>2. IsDispose(q)
    BY ZenonT(40), <1>1, <1>6, <2>1 DEF FramesOK, IsCollect, IsAll, IsRelease
  <2>3. wrapper[v] \in Blocks
    BY ZenonT(40), <1>6, <2>1, <2>2 DEF IsDispose
  <2> QED
    BY ZenonT(40), <1>1, <1>2, <2>3
<1>7. w \notin Wrapping(b) /\ Wrapping(b)' = Wrapping(b) \union {w}
  BY Zenon, <1>1, <1>2 DEF Wrapping
<1>8. \A c \in Blocks \ {b} : Wrapping(c)' = Wrapping(c)
  BY <1>1, <1>2 DEF Wrapping
<1>9. \A c \in Blocks : Dropping(c)' = Dropping(c)
  BY Zenon, <1>3 DEF Dropping
<1>10. \A c \in Blocks \ {b} : SameRef(c)
  BY ZenonT(40), <1>0, <1>8, <1>9 DEF SameRef
<1>11. OneAdded
  BY ZenonT(40), <1>0, <1>7, <1>9, <1>10 DEF OneAdded
<1> QED
  BY ZenonT(40), <1>3, <1>4, <1>5, <1>6, <1>11

(* Another wrapper for the block (Clone). *)
LEMMA InvClone ==
  ASSUME ForeignInv, Referred, QueueShape, NEW t \in Threads, NEW from \in Wrappers, NEW w \in Wrappers,
         Clone(t, from, w)
  PROVE  ForeignInv' /\ OneAdded
<1>1. PICK b \in Blocks : b = wrapper[from]
  BY Zenon DEF Clone, Made
<1>2. /\ UNCHANGED <<job, endVars, disposed, deleted, queueVars>> /\ registry' = registry
      /\ Program(t) /\ wrapper[w] = "none" /\ Wrap(b, w)
      /\ ctl' = [ctl EXCEPT ![b].refs = @ + 1]
  BY Zenon, <1>1 DEF Clone
<1>3. ctl \in [Blocks -> ControlType] /\ ctl[b] \in ControlType
  BY Zenon DEF ForeignInv, TypesOK
<1>4. PICK r : r = [ctl[b] EXCEPT !.refs = @ + 1]
  BY Zenon
<1>5. /\ r \in ControlType /\ r.refs = ctl[b].refs + 1 /\ r.life = ctl[b].life
      /\ r.resource = ctl[b].resource /\ r.debugId = ctl[b].debugId
  BY <1>3, <1>4 DEF ControlType
<1>6. r.disposed = ctl[b].disposed
  BY Zenon, <1>3, <1>4 DEF ControlType
<1>7. ctl' = [ctl EXCEPT ![b] = r]
  BY <1>2, <1>4
<1>8. /\ ctl' \in [Blocks -> ControlType] /\ ctl'[b] = r
      /\ \A c \in Blocks \ {b} : ctl'[c] = ctl[c]
  BY <1>3, <1>5, <1>7
<1>9. ctl[b].refs > 0 /\ ctl[b].life = "live"
  <2>1. Wrapping(b) # {}
    BY <1>1 DEF Wrapping
  <2> QED
    BY Zenon, <2>1 DEF Referred, ForeignInv, BlocksOK
<1>10. SameStates /\ SameNames
  BY <1>2, <1>5, <1>6, <1>8 DEF SameStates, SameNames
<1>11. /\ JobsType' /\ StagesOK' /\ OneAdded
       /\ wrapper' \in [Wrappers -> Blocks \union {"none", "dead"}]
       /\ Calls' = Calls /\ \A q \in Calls : Frame(q)' = Frame(q)
       /\ \A q \in Calls : \A v \in Wrappers : Frame(q).wrapper = v => wrapper'[v] = wrapper[v]
  BY <1>2, <1>5, <1>8, WrapGrows
<1>12. /\ phase' = phase /\ held' = held /\ gathered' = gathered /\ disposed' = disposed
       /\ deleted' = deleted /\ phase = "running"
  BY Zenon, <1>2 DEF endVars, Program
<1>13. \A q \in Calls' : q \in Calls \/ Begins(q)
  BY Zenon, <1>11
<1>14. \A n \in Nat : n > 0 => n + 1 > 0 /\ n # 0
  BY SMT
<1>15. ctl[b].refs \in Nat
  BY Zenon, <1>3 DEF ControlType
<1>16. ctl[b].refs # 0 /\ ctl'[b].refs > 0
  BY SMTT(30), <1>5, <1>8, <1>9, <1>14, <1>15
<1>17. \A c \in Blocks : (ctl[c].refs = 0 => ctl'[c].refs = 0) /\ (ctl'[c].refs > 0 => ctl[c].life = "live")
  BY <1>8, <1>9, <1>16 DEF ForeignInv, BlocksOK
<1>18. FramesOK' /\ BlocksOK' /\ CallsOK' /\ UsableOK' /\ IdsOK' /\ EndOK'
  BY Zenon, <1>10, <1>11, <1>12, <1>13, <1>17, CallsGrow
<1>19. registry' = {c \in Blocks : ctl'[c].refs > 0}
  BY SMTT(30), <1>2, <1>8, <1>9, <1>16 DEF ForeignInv, TypesOK
<1>20. TypesOK'
  BY <1>8, <1>11, <1>12, <1>19 DEF ForeignInv, TypesOK
<1> QED
  BY Zenon, <1>11, <1>18, <1>20 DEF ForeignInv

(* An operator disposes the resource of a wrapper (DisposeWrapper). *)
LEMMA InvDisposeWrapper ==
  ASSUME ForeignInv, Referred, QueueShape, NEW t \in Threads, NEW w \in Wrappers, DisposeWrapper(t, w)
  PROVE  ForeignInv' /\ KeepsRefs
<1>1. PICK b \in Blocks : b = wrapper[w]
  BY Zenon DEF DisposeWrapper, Made
<1>2. /\ phase' = phase /\ held' = held /\ gathered' = gathered /\ ctl' = ctl /\ registry' = registry
      /\ wrapper' = wrapper /\ disposed' = disposed \union {b} /\ deleted' = deleted
      /\ owed' = owed /\ place' = place
      /\ phase = "running" /\ place[t] = "out" /\ job[t] = <<>> /\ Call(t, Dispose(b, w))
  BY Zenon, <1>1 DEF DisposeWrapper, endVars, queueVars, Program
<1>3. PICK j : j = Dispose(b, w)
  BY Zenon
<1>4. j.kind = "dispose" /\ j.block = b /\ j.step = "claim" /\ j.wrapper = w /\ j \in JobType
  BY Zenon, <1>3 DEF Dispose, Job, JobType, Kinds, Steps
<1>5. JobsType /\ Call(t, j)
  BY ZenonT(40), <1>2, <1>3 DEF ForeignInv, TypesOK
<1>6. JobsType' /\ job'[t] # <<>> /\ (\A u \in Threads \ {t} : job'[u] = job[u])
  BY ZenonT(40), <1>4, <1>5, CallPushes
<1>7. PICK n \in Nat : Pushed(<<t, n>>, j)
  BY ZenonT(40), <1>4, <1>5, CallPushes
<1>8. PICK p : p = <<t, n>>
  BY Zenon
<1>9. /\ p \notin Calls /\ Calls' = Calls \union {p} /\ Frame(p)' = j
      /\ \A q \in Calls : Frame(q)' = Frame(q)
  BY <1>7, <1>8 DEF Pushed
<1>10. ctl[b].life = "live"
  <2>1. Wrapping(b) # {}
    BY Zenon, <1>1 DEF Wrapping
  <2> QED
    BY Zenon, <2>1 DEF Referred, ForeignInv, BlocksOK
<1>11. Begins(p)
  <2>1. IsDispose(p)'
    BY Zenon, <1>1, <1>2, <1>4, <1>9 DEF IsDispose
  <2> QED
    BY ZenonT(40), <1>2, <1>4, <1>9, <1>10, <2>1 DEF Begins
<1>12. StagesOK'
  <2>1. First \in Calls' /\ Frame(First)'.kind = "all" <=> First \in Calls /\ Frame(First).kind = "all"
    BY <1>4, <1>9
  <2> QED
    BY Zenon, <1>2, <1>6, <2>1, StagesKept DEF ForeignInv
<1>13. SameStates /\ SameNames
  BY ZenonT(40), <1>2 DEF SameStates, SameNames
<1>14. \A c \in Blocks : (ctl[c].refs = 0 => ctl'[c].refs = 0) /\ (ctl'[c].refs > 0 => ctl[c].life = "live")
  BY ZenonT(40), <1>2 DEF ForeignInv, BlocksOK
<1>15. FramesOK' /\ BlocksOK' /\ CallsOK' /\ UsableOK' /\ IdsOK' /\ EndOK'
  BY ZenonT(40), <1>2, <1>9, <1>11, <1>13, <1>14, CallsGrow
<1>16. TypesOK'
  BY <1>2, <1>6 DEF ForeignInv, TypesOK
<1>17. \A c \in Blocks : Dropping(c)' = Dropping(c)
  BY <1>4, <1>9 DEF Dropping
<1>18. KeepsRefs
  BY ZenonT(40), <1>2, <1>17, SameWrapping DEF KeepsRefs, SameRef
<1> QED
  BY <1>12, <1>15, <1>16, <1>18 DEF ForeignInv

-----------------------------------------------------------------------------
(* Create; what IdsOK' needs of the count of the blocks follows below. *)

(* No call is on a block that is freed. *)
LEMMA CallIsOnALiveBlock ==
  ASSUME ForeignInv, NEW q \in Calls
  PROVE  Frame(q).block = None \/ (Frame(q).block \in Blocks /\ ctl[Frame(q).block].life = "live")
<1>1. Frame(q).block = None \/ Frame(q).block \in Blocks
  BY ZenonT(40) DEF ForeignInv, FramesOK, IsCollect, IsAll, IsRelease, IsDispose
<1> QED
  BY <1>1 DEF ForeignInv, CallsOK, CallOK

(* A block is made and wrapped (Create). *)
LEMMA InvCreate ==
  ASSUME ForeignInv, Referred, QueueShape, NEW t \in Threads, NEW w \in Wrappers, Create(t, w),
         Cardinality(Created) \in Nat
  PROVE  /\ TypesOK' /\ FramesOK' /\ StagesOK' /\ BlocksOK' /\ CallsOK' /\ UsableOK' /\ EndOK' /\ OneAdded
         /\ \E b \in Blocks \ Created :
              /\ Created' = Created \union {b} /\ ctl'[b].debugId = Cardinality(Created) + 1
              /\ \A c \in Blocks \ {b} : ctl'[c] = ctl[c]
<1>1. PICK b \in Blocks \ Created :
         /\ ctl' = [ctl EXCEPT ![b] = Control("live", 1, FALSE, TRUE, Cardinality(Created) + 1)]
         /\ registry' = registry \union {b}
         /\ Wrap(b, w)
  BY Zenon DEF Create
<1>2. /\ Program(t) /\ wrapper[w] = "none" /\ UNCHANGED <<job, endVars, disposed, deleted, queueVars>>
  BY Zenon DEF Create
<1>3. /\ phase' = phase /\ held' = held /\ gathered' = gathered /\ disposed' = disposed
      /\ deleted' = deleted /\ phase = "running" /\ held = {} /\ gathered = {}
  BY Zenon, <1>2 DEF endVars, Program, ForeignInv, StagesOK
<1>4. PICK r : r = Control("live", 1, FALSE, TRUE, Cardinality(Created) + 1)
  BY ZenonT(40)
<1>5. /\ r \in ControlType /\ r.refs = 1 /\ r.life = "live" /\ r.debugId = Cardinality(Created) + 1
  BY <1>4 DEF ControlType, Control
<1>6. ~r.disposed /\ r.resource
  BY <1>4, Zenon DEF Control
<1>7. /\ ctl \in [Blocks -> ControlType] /\ ctl[b] \in ControlType
      /\ wrapper \in [Wrappers -> Blocks \union {"none", "dead"}]
  BY Zenon DEF ForeignInv, TypesOK
<1>8. /\ ctl' \in [Blocks -> ControlType] /\ ctl'[b] = r
      /\ \A c \in Blocks \ {b} : ctl'[c] = ctl[c]
  BY Zenon, <1>1, <1>4, <1>5, <1>7
<1>9. ctl[b].life = "none" /\ ctl[b].refs = 0
  <2>1. ctl[b].life = "none"
    BY Zenon DEF Created
  <2>2. ctl[b].refs \in Nat /\ ~(ctl[b].refs > 0)
    BY <1>7, <2>1 DEF ForeignInv, BlocksOK, ControlType
  <2> QED
    BY ONLY <2>1, <2>2
<1>10. /\ JobsType' /\ StagesOK' /\ OneAdded
       /\ wrapper' \in [Wrappers -> Blocks \union {"none", "dead"}]
       /\ Calls' = Calls /\ \A q \in Calls : Frame(q)' = Frame(q)
       /\ \A q \in Calls : \A v \in Wrappers : Frame(q).wrapper = v => wrapper'[v] = wrapper[v]
  <2>1. ctl'[b].refs = ctl[b].refs + 1 /\ \A c \in Blocks \ {b} : ctl'[c].refs = ctl[c].refs
    BY ONLY <1>5, <1>8, <1>9
  <2> QED
    BY ZenonT(40), <1>1, <1>2, <2>1, WrapGrows
<1>11. \A q \in Calls : Frame(q).block # b
  BY Zenon, <1>9, NoneIsNoEntry, CallIsOnALiveBlock DEF Blocks
<1>12. FramesOK'
  <2> SUFFICES ASSUME NEW q \in Calls' PROVE IsCollect(q)' \/ IsAll(q)' \/ IsRelease(q)' \/ IsDispose(q)'
    BY Zenon DEF FramesOK
  <2>1. q \in Calls /\ Frame(q)' = Frame(q) /\ Frame(q).block # b
    BY Zenon, <1>10, <1>11
  <2>2. First' = First
    BY Zenon DEF First
  <2>3. IsCollect(q) => IsCollect(q)'
    BY Zenon, <2>1 DEF IsCollect
  <2>4. IsAll(q) => IsAll(q)'
    BY Zenon, <2>1, <2>2 DEF IsAll
  <2>5. IsRelease(q) => IsRelease(q)'
    BY ZenonT(40), <1>8, <2>1 DEF IsRelease
  <2>6. IsDispose(q) => IsDispose(q)'
    BY Zenon, <1>3, <1>10, <2>1 DEF IsDispose
  <2> QED
    BY Zenon, <2>1, <2>3, <2>4, <2>5, <2>6 DEF ForeignInv, FramesOK
<1>13. \A q \in Calls' : \A c \in Blocks : /\ Using(q, c)' => q \in Calls /\ Using(q, c)
                                           /\ Last(q, c)' => q \in Calls /\ Last(q, c)
  BY ZenonT(40), <1>10 DEF Using, Last
<1>14. BlocksOK'
  <2>0. ctl'[b].life = "live" /\ ~ctl'[b].disposed /\ ctl'[b].resource
    BY SMTT(30), <1>5, <1>6, <1>8
  <2>1. deleted[b] = 0
    BY <1>9 DEF ForeignInv, BlocksOK
  <2>2. ASSUME NEW c \in Blocks \ {b}
        PROVE  /\ ctl'[c].refs > 0 => ctl'[c].life = "live"
               /\ ctl'[c].life = "none" => ~ctl'[c].disposed
               /\ ctl'[c].life = "freed" => deleted'[c] = 1
               /\ ~ctl'[c].disposed => deleted'[c] = 0 /\ (ctl'[c].life # "none" => ctl'[c].resource)
               /\ deleted'[c] <= 1
               /\ ctl'[c].disposed /\ deleted'[c] = 0 => \E p \in Calls' : Using(p, c)'
    <3>1. ctl'[c] = ctl[c]
      BY Zenon, <1>8
    <3>2. \A p \in Calls : Using(p, c) => p \in Calls' /\ Using(p, c)'
      BY ZenonT(40), <1>10 DEF Using
    <3> QED
      BY Zenon, <1>3, <3>1, <3>2 DEF ForeignInv, BlocksOK
  <2>3. deleted'[b] = 0
    BY SMTT(30), <1>3, <2>1
  <2>4. /\ ctl'[b].refs > 0 => ctl'[b].life = "live"
        /\ ctl'[b].life = "none" => ~ctl'[b].disposed
        /\ ctl'[b].life = "freed" => deleted'[b] = 1
        /\ ~ctl'[b].disposed => deleted'[b] = 0 /\ (ctl'[b].life # "none" => ctl'[b].resource)
        /\ deleted'[b] <= 1
        /\ ctl'[b].disposed /\ deleted'[b] = 0 => \E p \in Calls' : Using(p, b)'
    BY ONLY SMT, <2>0, <2>3
  <2> QED
    BY Zenon, <2>2, <2>4 DEF BlocksOK
<1>15. CallsOK'
  <2>1. ASSUME NEW q \in Calls', NEW c \in Blocks, Frame(q)'.block = c PROVE CallOK(q, c)'
    <3>1. Frame(q)' = Frame(q) /\ ctl'[c] = ctl[c] /\ CallOK(q, c)
      BY ZenonT(40), <1>8, <1>10, <1>11, <2>1 DEF ForeignInv, CallsOK
    <3> QED
      BY ZenonT(40), <1>3, <3>1 DEF CallOK
  <2> QED
    BY ZenonT(40), <1>13, <2>1 DEF ForeignInv, CallsOK
<1>16. UsableOK'
  <2>1. ~ctl'[b].disposed
    BY Zenon, <1>6, <1>8
  <2> QED
    BY <1>3, <1>8, <2>1 DEF ForeignInv, UsableOK
<1>17. EndOK'
  BY Zenon, <1>3 DEF EndOK
<1>18. registry' = {c \in Blocks : ctl'[c].refs > 0}
  <2>1. ctl'[b].refs > 0
    BY <1>5, <1>8
  <2>2. registry = {c \in Blocks : ctl[c].refs > 0} /\ registry' = registry \union {b}
    BY Zenon, <1>1 DEF ForeignInv, TypesOK
  <2> QED
    BY ONLY <1>8, <2>1, <2>2, b \in Blocks
<1>19. TypesOK'
  BY ZenonT(40), <1>3, <1>8, <1>10, <1>18 DEF ForeignInv, TypesOK
<1>20. Created' = Created \union {b}
  BY Zenon, <1>5, <1>8 DEF Created
<1> QED
  BY ZenonT(40), <1>5, <1>8, <1>10, <1>12, <1>14, <1>15, <1>16, <1>17, <1>19, <1>20

-----------------------------------------------------------------------------
(* disposeAllForeignResources *)

(* The end of the run takes a reference to every block it has found. *)
Gathered ==
  /\ held = {} /\ held' \subseteq Blocks /\ owed' = owed
  /\ \A b \in Blocks : /\ Wrapping(b)' = Wrapping(b) /\ Dropping(b)' = Dropping(b)
                       /\ ctl'[b].refs = ctl[b].refs + (IF b \in held' THEN 1 ELSE 0)

(* disposeAllForeignResources takes its snapshot of the registry (Gather). *)
LEMMA InvGather ==
  ASSUME ForeignInv, QueueShape, Gather
  PROVE  ForeignInv' /\ Gathered
<1>1. /\ phase = "ended" /\ phase' = "gathered" /\ registry' = registry /\ wrapper' = wrapper
      /\ disposed' = disposed /\ deleted' = deleted /\ owed' = owed /\ place' = place
      /\ Call(Main, Job("all", None, "dispose", None)) /\ held' = gathered'
      /\ gathered' = {b \in registry : ~ctl[b].disposed}
      /\ held = {} /\ job[Main] = <<>> /\ Main \in Threads
      /\ registry = {b \in Blocks : ctl[b].refs > 0}
  BY Zenon, ForeignConstants DEF Gather, queueVars, ForeignInv, StagesOK, TypesOK
<1>2. PICK g \in SUBSET Blocks : g = gathered'
  BY Zenon, <1>1
<1>3. ctl' = [b \in Blocks |-> IF b \in g THEN [ctl[b] EXCEPT !.refs = @ + 1] ELSE ctl[b]]
  BY Zenon, <1>2 DEF Gather
<1>4. \A b \in Blocks : ctl[b] \in ControlType
  BY Zenon DEF ForeignInv, TypesOK
<1>5. \A b \in g : ctl[b].refs > 0 /\ ~ctl[b].disposed /\ ctl[b].life = "live"
  BY ZenonT(40), <1>1, <1>2 DEF ForeignInv, BlocksOK
<1>6. ASSUME NEW b \in Blocks
      PROVE  /\ ctl'[b] \in ControlType /\ ctl'[b].life = ctl[b].life /\ ctl'[b].disposed = ctl[b].disposed
             /\ ctl'[b].resource = ctl[b].resource /\ ctl'[b].debugId = ctl[b].debugId
             /\ b \in g => ctl'[b].refs = ctl[b].refs + 1
             /\ b \notin g => ctl'[b].refs = ctl[b].refs
  <2>1. CASE b \in g
    <3>1. PICK r : r = [ctl[b] EXCEPT !.refs = @ + 1]
      BY Zenon
    <3>2. /\ r \in ControlType /\ r.refs = ctl[b].refs + 1 /\ r.life = ctl[b].life
          /\ r.resource = ctl[b].resource /\ r.debugId = ctl[b].debugId
      BY <1>4, <3>1 DEF ControlType
    <3>3. r.disposed = ctl[b].disposed
      BY Zenon, <1>4, <3>1 DEF ControlType
    <3>4. ctl'[b] = r
      BY <1>3, <2>1, <3>1
    <3> QED
      BY ZenonT(40), <2>1, <3>2, <3>3, <3>4
  <2>2. CASE b \notin g
    BY SMTT(30), <1>3, <1>4, <2>2
  <2> QED
    BY ZenonT(40), <2>1, <2>2
<1>7. SameStates /\ SameNames
  BY ZenonT(40), <1>1, <1>6 DEF SameStates, SameNames
<1>8. PICK j : j = Job("all", None, "dispose", None)
  BY Zenon
<1>9. j.kind = "all" /\ j.block = None /\ j.step = "dispose" /\ j.wrapper = None /\ j \in JobType
  BY Zenon, <1>8 DEF Job, JobType, Kinds, Steps
<1>10. JobsType /\ Call(Main, j)
  BY ZenonT(40), <1>1, <1>8 DEF ForeignInv, TypesOK
<1>11. JobsType' /\ job'[Main] # <<>> /\ (\A u \in Threads \ {Main} : job'[u] = job[u])
  BY ZenonT(40), <1>1, <1>9, <1>10, CallPushes
<1>12. PICK n \in Nat : n = Len(job[Main]) /\ Pushed(<<Main, n>>, j)
  BY ZenonT(40), <1>1, <1>9, <1>10, CallPushes
<1>13. <<Main, n>> = First
  <2>1. n = 0
    BY <1>1, <1>12
  <2> QED
    BY <2>1 DEF First
<1>14. /\ First \notin Calls /\ Calls' = Calls \union {First} /\ Frame(First)' = j
       /\ \A q \in Calls : Frame(q)' = Frame(q)
  BY <1>12, <1>13 DEF Pushed
<1>15. FramesOK'
  <2> SUFFICES ASSUME NEW q \in Calls' PROVE IsCollect(q)' \/ IsAll(q)' \/ IsRelease(q)' \/ IsDispose(q)'
    BY Zenon DEF FramesOK
  <2>1. CASE q \in Calls
    <3>1. Frame(q)' = Frame(q) /\ ~IsDispose(q) /\ ~IsAll(q)
      BY ZenonT(40), <1>1, <1>14, <2>1 DEF IsDispose, IsAll
    <3>2. IsCollect(q) => IsCollect(q)'
      BY Zenon, <3>1 DEF IsCollect
    <3>3. \A b \in Blocks : ctl[b].refs = 0 => ctl'[b].refs = 0
      BY <1>5, <1>6
    <3>4. IsRelease(q) => IsRelease(q)'
      BY ZenonT(40), <3>1, <3>3 DEF IsRelease
    <3> QED
      BY <2>1, <3>1, <3>2, <3>4 DEF ForeignInv, FramesOK
  <2>2. CASE q = First
    <3>1. First' = First
      BY Zenon DEF First
    <3> QED
      BY <1>9, <1>14, <2>2, <3>1 DEF IsAll
  <2> QED
    BY <1>14, <2>1, <2>2
<1>16. StagesOK'
  <2>1. First' = First
    BY Zenon DEF First
  <2>2. \A u \in Threads : place'[u] # "out" => job'[u] # <<>> /\ job'[u][1].kind = "collect"
    BY ZenonT(40), <1>1, <1>11 DEF ForeignInv, StagesOK
  <2> QED
    BY ZenonT(40), <1>1, <1>9, <1>14, <2>1, <2>2 DEF StagesOK
<1>17. \A b \in Blocks : ctl'[b].refs > 0 => ctl[b].life = "live"
  BY ZenonT(40), <1>5, <1>6 DEF ForeignInv, BlocksOK
<1>18. /\ \A q \in Calls' : \A b \in Blocks : /\ Using(q, b)' => q \in Calls /\ Using(q, b)
                                              /\ Last(q, b)' => q \in Calls /\ Last(q, b)
       /\ \A b \in Blocks : \A q \in Calls : Using(q, b) => q \in Calls' /\ Using(q, b)'
  BY SMTT(30), <1>9, <1>14, NoneIsNoEntry DEF Using, Last, Blocks
<1>19. BlocksOK'
  BY <1>7, <1>17, <1>18, BlocksKept DEF ForeignInv
<1>20. CallsOK'
  <2>1. ASSUME NEW q \in Calls', NEW b \in Blocks, Frame(q)'.block = b PROVE CallOK(q, b)'
    <3>1. q \in Calls
      BY SMTT(30), <1>9, <1>14, <2>1, NoneIsNoEntry DEF Blocks
    <3> QED
      BY <1>7, <1>14, <2>1, <3>1, CallKept DEF ForeignInv
  <2> QED
    BY Zenon, <1>18, <2>1 DEF ForeignInv, CallsOK
<1>21. UsableOK'
  BY Zenon, <1>1 DEF UsableOK
<1>22. IdsOK' /\ Created' = Created
  BY Zenon, <1>7, SameIds DEF ForeignInv
<1>23. EndOK'
  <2>1. g \subseteq Created
    BY Zenon, <1>5 DEF Created
  <2>2. \A b \in g : ~ctl'[b].disposed
    BY Zenon, <1>5, <1>6
  <2>3. First' = First /\ Frame(First)'.step # "release"
    BY <1>9, <1>14 DEF First
  <2> QED
    BY ZenonT(40), <1>1, <1>2, <1>22, <2>1, <2>2, <2>3 DEF EndOK
<1>24. TypesOK'
  <2>1. ctl' \in [Blocks -> ControlType]
    BY Zenon, <1>3, <1>6
  <2>2. \A b \in Blocks : ctl'[b].refs > 0 <=> ctl[b].refs > 0
    <3>1. \A m \in Nat : m > 0 => m + 1 > 0
      BY SMT
    <3>2. \A b \in Blocks : ctl[b].refs \in Nat
      BY Zenon, <1>4 DEF ControlType
    <3> QED
      BY <1>5, <1>6, <3>1, <3>2
  <2>3. registry' = {b \in Blocks : ctl'[b].refs > 0}
    BY SMTT(30), <1>1, <2>2
  <2> QED
    BY ZenonT(40), <1>1, <1>2, <1>11, <2>1, <2>3 DEF ForeignInv, TypesOK
<1>25. Gathered
  <2>1. \A b \in Blocks : Dropping(b)' = Dropping(b)
    BY Zenon, <1>9, <1>14 DEF Dropping
  <2>2. ASSUME NEW b \in Blocks PROVE ctl'[b].refs = ctl[b].refs + (IF b \in held' THEN 1 ELSE 0)
    <3>1. ctl[b].refs \in Nat
      BY Zenon, <1>4 DEF ControlType
    <3> QED
      BY <1>1, <1>2, <1>6, <3>1
  <2> QED
    BY SMTT(30), <1>1, <1>2, <2>1, <2>2, SameWrapping DEF Gathered
<1> QED
  BY SMTT(30), <1>15, <1>16, <1>19, <1>20, <1>21, <1>22, <1>23, <1>24, <1>25 DEF ForeignInv

(* The loop is between two halves of a turn. *)
LEMMA LoopTurns ==
  ASSUME ForeignInv, NEW from \in {"dispose", "release"}, Calling(Main, from)
  PROVE  /\ Main \in Threads /\ phase = "gathered" /\ Len(job[Main]) = 1 /\ place[Main] = "out"
         /\ First \in Calls /\ Second \notin Calls /\ Frame(First).step = from
<1>1. Main \in Threads /\ job[Main] # <<>> /\ job[Main][1].step = from /\ place[Main] = "out"
  BY Zenon, ForeignConstants DEF Calling
<1>2. PICK n \in Nat :
         /\ Len(job[Main]) = n + 1 /\ <<Main, n>> \in Calls /\ Frame(<<Main, n>>) = job[Main][1]
         /\ IsCollect(<<Main, n>>) \/ IsAll(<<Main, n>>) \/ IsRelease(<<Main, n>>) \/ IsDispose(<<Main, n>>)
  BY Zenon, <1>1, TopFrame
<1>3. IsAll(<<Main, n>>)
  BY ZenonT(40), <1>1, <1>2 DEF IsCollect, IsRelease, IsDispose
<1>4. <<Main, n>> = First /\ job[Main][1].kind = "all"
  BY ZenonT(40), <1>2, <1>3 DEF IsAll
<1>5. phase = "gathered" /\ Len(job[Main]) = 1
  BY <1>1, <1>4, LoopCall DEF ForeignInv
<1>6. Second \notin Calls
  <2>1. JobsType
    BY Zenon DEF ForeignInv, TypesOK
  <2>2. ASSUME Second \in Calls PROVE FALSE
    <3>1. PICK s \in Threads, d \in Nat : <<Main, 1>> = <<s, d>> /\ d < Len(job[s])
      BY Zenon, <2>1, <2>2, InCalls DEF Second
    <3>2. Main = s /\ 1 = d
      BY ONLY Zenon, <3>1
    <3>3. 1 < 1
      BY <1>5, <3>1, <3>2, Zenon
    <3> QED
      BY ONLY <3>3, SMT
  <2> QED
    BY Zenon, <2>2
<1> QED
  BY ZenonT(40), <1>1, <1>2, <1>4, <1>5, <1>6

(* A half of a turn: the loop goes on to its other half, under a call on b. *)
LEMMA LoopCalls ==
  ASSUME ForeignInv, NEW from \in {"dispose", "release"}, NEW to \in {"dispose", "release"},
         Calling(Main, from), NEW j \in JobType, j.kind # "all", j.kind # "collect",
         job' = [job EXCEPT ![Main] = <<j, Job("all", None, to, None)>>],
         UNCHANGED <<ctl, registry, wrapper, phase, gathered, disposed, deleted, queueVars>>,
         held' \subseteq held
  PROVE  /\ JobsType' /\ StagesOK' /\ IdsOK' /\ SameStates /\ SameNames
         /\ Calls' = Calls \union {Second} /\ Frame(Second)' = j
         /\ IsAll(First)' /\ Frame(First)'.step = to
         /\ \A q \in Calls \ {First} : Frame(q)' = Frame(q) /\ (IsCollect(q)' \/ IsRelease(q)')
<1>1. /\ Main \in Threads /\ phase = "gathered" /\ Len(job[Main]) = 1 /\ place[Main] = "out"
      /\ First \in Calls /\ Second \notin Calls
  BY Zenon, LoopTurns
<1>2. /\ ctl' = ctl /\ phase' = phase /\ gathered' = gathered /\ deleted' = deleted /\ place' = place
      /\ First' = First
  BY Zenon DEF queueVars, First
<1>3. PICK k : k = Job("all", None, to, None)
  BY Zenon
<1>4. k.kind = "all" /\ k.block = None /\ k.step = to /\ k.wrapper = None /\ k \in JobType
  BY Zenon, <1>3 DEF Job, JobType, Kinds, Steps
<1>5. JobsType /\ job' = [job EXCEPT ![Main] = <<j, k>>]
  BY Zenon, <1>3 DEF ForeignInv, TypesOK
<1>6. /\ JobsType' /\ job'[Main] # <<>> /\ job'[Main][1] = j
      /\ \A u \in Threads \ {Main} : job'[u] = job[u]
      /\ Calls' = Calls \union {Second}
      /\ Frame(Second)' = j /\ Frame(First)' = k
      /\ \A p \in Calls \ {First} : Frame(p)' = Frame(p)
  <2>1. /\ JobsType' /\ job'[Main] # <<>> /\ job'[Main][1] = j
        /\ \A u \in Threads \ {Main} : job'[u] = job[u]
        /\ Calls' = Calls \union {<<Main, 1>>}
        /\ Frame(<<Main, 1>>)' = j /\ Frame(<<Main, 0>>)' = k
        /\ \A p \in Calls \ {<<Main, 0>>} : Frame(p)' = Frame(p)
    <3>1. Main \in Threads /\ Alone(Main) /\ Turned(Main, j, k) /\ JobsType
      BY Zenon, <1>1, <1>5 DEF Alone, Turned
    <3>2. j \in JobType /\ k \in JobType
      BY Zenon, <1>4
    <3> QED
      BY ONLY ZenonT(40), <3>1, <3>2, LoopPushes
  <2> QED
    BY Zenon, <2>1 DEF First, Second
<1>7. SameStates /\ SameNames
  BY Zenon, <1>2 DEF SameStates, SameNames
<1>8. IdsOK'
  BY Zenon, <1>7, SameIds DEF ForeignInv
<1>9. IsAll(First)' /\ Frame(First)'.step = to
  BY ZenonT(40), <1>2, <1>4, <1>6 DEF IsAll
<1>10. StagesOK'
  <2>1. \A u \in Threads : place'[u] # "out" => job'[u] # <<>> /\ job'[u][1].kind = "collect"
    BY <1>1, <1>2, <1>6 DEF ForeignInv, StagesOK
  <2> QED
    BY ZenonT(40), <1>1, <1>2, <1>4, <1>6, <2>1 DEF StagesOK
<1>11. ASSUME NEW q \in Calls \ {First} PROVE IsCollect(q)' \/ IsRelease(q)'
  <2>1. ~IsAll(q) /\ ~IsDispose(q)
    BY Zenon, <1>1 DEF IsAll, IsDispose
  <2>2. Frame(q)' = Frame(q)
    BY Zenon, <1>6
  <2>3. IsCollect(q) => IsCollect(q)'
    BY Zenon, <2>2 DEF IsCollect
  <2>4. IsRelease(q) => IsRelease(q)'
    BY ZenonT(40), <1>2, <2>2 DEF IsRelease
  <2> QED
    BY <2>1, <2>3, <2>4 DEF ForeignInv, FramesOK
<1> QED
  BY SMTT(30), <1>6, <1>7, <1>8, <1>9, <1>10, <1>11

(* What the new call leaves as it was *)
LEMMA LoopKeeps ==
  ASSUME ForeignInv, NEW from \in {"dispose", "release"}, NEW to \in {"dispose", "release"},
         Calling(Main, from), NEW j \in JobType, j.kind # "all", j.kind # "collect",
         job' = [job EXCEPT ![Main] = <<j, Job("all", None, to, None)>>],
         UNCHANGED <<ctl, registry, wrapper, phase, gathered, disposed, deleted, queueVars>>,
         held' \subseteq held,
         j.step = IF j.kind = "dispose" THEN "claim" ELSE "drop",
         j.block \in Blocks, ctl[j.block].life = "live"
  PROVE  TypesOK' /\ BlocksOK' /\ CallsOK' /\ UsableOK'
<1>1. /\ JobsType' /\ SameStates /\ SameNames
      /\ Calls' = Calls \union {Second} /\ Frame(Second)' = j /\ IsAll(First)'
      /\ \A q \in Calls \ {First} : Frame(q)' = Frame(q)
  BY ZenonT(40), LoopCalls
<1>2. phase = "gathered" /\ First \in Calls /\ Second \notin Calls
  BY ZenonT(40), LoopTurns
<1>3. IsAll(First)
  BY ZenonT(40), <1>2 DEF ForeignInv, FramesOK, StagesOK, IsCollect, IsRelease, IsDispose
<1>4. Frame(First).block = None /\ Frame(First)'.block = None
  BY ZenonT(40), <1>1, <1>3 DEF IsAll
<1>5. \A b \in Blocks : \A q \in Calls : Using(q, b) => q \in Calls' /\ Using(q, b)'
  BY ZenonT(40), <1>1, <1>4, NoneIsNoEntry DEF Using, Blocks
<1>6. \A q \in Calls' : \A b \in Blocks : /\ Using(q, b)' => q \in Calls /\ Using(q, b)
                                          /\ Last(q, b)' => q \in Calls /\ Last(q, b)
  BY ZenonT(40), <1>1, <1>4, NoneIsNoEntry DEF Using, Last, Blocks
<1>7. BlocksOK'
  <2>1. \A b \in Blocks : ctl'[b].refs > 0 => ctl[b].life = "live"
    BY ZenonT(40) DEF ForeignInv, BlocksOK
  <2> QED
    BY ZenonT(40), <1>1, <1>5, <2>1, BlocksKept DEF ForeignInv
<1>8. CallsOK'
  <2>1. ASSUME NEW q \in Calls', NEW b \in Blocks, Frame(q)'.block = b PROVE CallOK(q, b)'
    <3>1. CASE q = Second
      BY ZenonT(40), <1>1, <2>1, <3>1 DEF CallOK, SameStates
    <3>2. CASE q # Second
      <4>1. q \in Calls /\ q # First
        BY ZenonT(40), <1>1, <1>4, <2>1, <3>2, NoneIsNoEntry DEF Blocks
      <4>2. Frame(q)' = Frame(q)
        BY ZenonT(40), <1>1, <4>1
      <4> QED
        BY ZenonT(40), <1>1, <2>1, <4>1, <4>2, CallKept DEF ForeignInv
    <3> QED
      BY Zenon, <3>1, <3>2
  <2> QED
    BY ZenonT(40), <1>6, <2>1 DEF ForeignInv, CallsOK
<1>9. UsableOK'
  BY ZenonT(40), <1>2 DEF UsableOK
<1>10. TypesOK'
  BY <1>1 DEF ForeignInv, TypesOK
<1> QED
  BY ZenonT(40), <1>7, <1>8, <1>9, <1>10

(* The loop disposes its next block (DisposeHeld). *)
LEMMA InvDisposeHeld ==
  ASSUME ForeignInv, Referred, QueueShape, DisposeHeld
  PROVE  ForeignInv' /\ KeepsRefs
<1>1. PICK b \in Blocks :
         /\ NextHeld(b)
         /\ job' = [job EXCEPT ![Main] = <<Dispose(b, None), Job("all", None, "release", None)>>]
  BY ZenonT(40) DEF DisposeHeld
<1>2. PICK j : j = Dispose(b, None)
  BY Zenon
<1>3. j.kind = "dispose" /\ j.block = b /\ j.step = "claim" /\ j.wrapper = None /\ j \in JobType
  BY Zenon, <1>2 DEF Dispose, Job, JobType, Kinds, Steps
<1>4. /\ Calling(Main, "dispose") /\ held' = held /\ gathered' = gathered /\ wrapper' = wrapper
      /\ ctl' = ctl /\ owed' = owed /\ deleted' = deleted /\ phase' = phase
      /\ UNCHANGED <<ctl, registry, wrapper, phase, gathered, disposed, deleted, queueVars>>
  BY Zenon DEF DisposeHeld, endVars, queueVars
<1>5. b \in held /\ ctl[b].refs > 0 /\ ctl[b].life = "live"
  BY ZenonT(40), <1>1 DEF NextHeld, Referred, ForeignInv, BlocksOK
<1>6. /\ JobsType' /\ StagesOK' /\ IdsOK' /\ SameStates /\ SameNames
      /\ Calls' = Calls \union {Second} /\ Frame(Second)' = j
      /\ IsAll(First)' /\ Frame(First)'.step = "release"
      /\ \A q \in Calls \ {First} : Frame(q)' = Frame(q) /\ (IsCollect(q)' \/ IsRelease(q)')
  BY ZenonT(40), <1>1, <1>2, <1>3, <1>4, LoopCalls
<1>7. TypesOK' /\ BlocksOK' /\ CallsOK' /\ UsableOK'
  BY Zenon, <1>1, <1>2, <1>3, <1>4, <1>5, LoopKeeps
<1>8. phase = "gathered" /\ First \in Calls /\ Frame(First).step = "dispose" /\ Second \notin Calls
  BY Zenon, <1>4, LoopTurns
<1>9. \A c \in held : ~ctl[c].disposed
  BY Zenon, <1>8 DEF ForeignInv, EndOK
<1>10. First' = First /\ Second' = Second
  BY Zenon DEF First, Second
<1>11. NextHeld(b)'
  BY ZenonT(40), <1>1, <1>4 DEF NextHeld
<1>12. IsDispose(Second)'
  <2>1. ~ctl'[b].disposed
    BY ZenonT(40), <1>4, <1>5, <1>9
  <2> QED
    BY ZenonT(40), <1>3, <1>4, <1>6, <1>8, <1>10, <1>11, <2>1 DEF IsDispose
<1>13. FramesOK'
  BY Zenon, <1>6, <1>12 DEF FramesOK
<1>14. EndOK'
  <2>1. Created' = Created
    BY Zenon, <1>4 DEF Created
  <2>2. Second \in Calls' /\ Frame(Second)'.kind = "dispose"
    BY Zenon, <1>3, <1>6
  <2>3. \A c \in held' : ~ctl'[c].disposed
    BY Zenon, <1>4, <1>9
  <2>4. held' \subseteq gathered' /\ gathered' \subseteq Created'
    BY Zenon, <1>4, <2>1 DEF ForeignInv, EndOK
  <2>5. \A c \in gathered' \ held' : deleted'[c] = 1 /\ \A d \in held' : ctl'[d].debugId < ctl'[c].debugId
    BY ZenonT(40), <1>4 DEF ForeignInv, EndOK
  <2> QED
    BY ZenonT(40), <1>10, <2>2, <2>3, <2>4, <2>5 DEF EndOK
<1>15. KeepsRefs
  <2>1. \A c \in Blocks : Frame(First).step # "drop" /\ Frame(First)'.step # "drop"
    BY Zenon, <1>6, <1>8
  <2>2. \A c \in Blocks : Dropping(c)' = Dropping(c)
    BY Zenon, <1>3, <1>6, <2>1 DEF Dropping
  <2> QED
    BY Zenon, <1>4, <2>2, SameWrapping DEF KeepsRefs, SameRef
<1> QED
  BY <1>6, <1>7, <1>13, <1>14, <1>15 DEF ForeignInv

(* The loop gives up the reference it has held. *)
OneLetGo ==
  \E b \in Blocks :
    /\ \E p : p \notin Dropping(b) /\ Dropping(b)' = Dropping(b) \union {p}
    /\ wrapper' = wrapper /\ b \in held /\ b \notin held' /\ ctl'[b].refs = ctl[b].refs /\ owed'[b] = owed[b]
    /\ \A c \in Blocks \ {b} : SameRef(c)

(* The loop releases the block it has disposed (ReleaseHeld). *)
LEMMA InvReleaseHeld ==
  ASSUME ForeignInv, Referred, QueueShape, ReleaseHeld
  PROVE  ForeignInv' /\ OneLetGo
<1>1. PICK b \in Blocks :
         /\ NextHeld(b) /\ held' = held \ {b}
         /\ job' = [job EXCEPT ![Main] = <<Release(b), Job("all", None, "dispose", None)>>]
  BY ZenonT(40) DEF ReleaseHeld
<1>2. PICK j : j = Release(b)
  BY Zenon
<1>3. j.kind = "release" /\ j.block = b /\ j.step = "drop" /\ j.wrapper = None /\ j \in JobType
  BY Zenon, <1>2 DEF Release, Job, JobType, Kinds, Steps
<1>4. /\ Calling(Main, "release") /\ gathered' = gathered /\ wrapper' = wrapper
      /\ ctl' = ctl /\ owed' = owed /\ deleted' = deleted /\ phase' = phase
      /\ UNCHANGED <<ctl, registry, wrapper, phase, gathered, disposed, deleted, queueVars>>
  BY Zenon DEF ReleaseHeld, queueVars
<1>5. b \in held /\ ctl[b].refs > 0 /\ ctl[b].life = "live"
  BY ZenonT(40), <1>1 DEF NextHeld, Referred, ForeignInv, BlocksOK
<1>6. /\ JobsType' /\ StagesOK' /\ IdsOK' /\ SameStates /\ SameNames
      /\ Calls' = Calls \union {Second} /\ Frame(Second)' = j
      /\ IsAll(First)' /\ Frame(First)'.step = "dispose"
      /\ \A q \in Calls \ {First} : Frame(q)' = Frame(q) /\ (IsCollect(q)' \/ IsRelease(q)')
  BY ZenonT(40), <1>1, <1>2, <1>3, <1>4, LoopCalls
<1>7. TypesOK' /\ BlocksOK' /\ CallsOK' /\ UsableOK'
  BY Zenon, <1>1, <1>2, <1>3, <1>4, <1>5, LoopKeeps
<1>8. phase = "gathered" /\ First \in Calls /\ Frame(First).step = "release" /\ Second \notin Calls
  BY Zenon, <1>4, LoopTurns
<1>9. IsRelease(Second)'
  BY Zenon, <1>3, <1>6 DEF IsRelease
<1>10. FramesOK'
  BY SMTT(30), <1>6, <1>9 DEF FramesOK
<1>11. EndOK'
  <2>1. Created' = Created /\ First' = First
    BY Zenon, <1>4 DEF Created, First
  <2>2. deleted[b] = 1
    BY ZenonT(40), <1>1, <1>5, <1>8 DEF ForeignInv, EndOK
  <2>3. \A c \in held' : ctl[c].debugId < ctl[b].debugId
    <3> SUFFICES ASSUME NEW c \in held' PROVE ctl[c].debugId < ctl[b].debugId
      BY Zenon
    <3>1. c \in held /\ c # b /\ c \in Blocks
      BY Zenon, <1>1 DEF ForeignInv, TypesOK
    <3>2. ctl[c].debugId <= ctl[b].debugId
      BY ZenonT(40), <1>1, <3>1 DEF NextHeld
    <3>3. ctl[c].debugId # ctl[b].debugId
      BY ZenonT(40), <1>5, <3>1 DEF ForeignInv, EndOK, IdsOK
    <3>4. ctl[c].debugId \in Nat /\ ctl[b].debugId \in Nat
      BY Zenon, <3>1 DEF ForeignInv, TypesOK, ControlType
    <3> QED
      BY ONLY <3>2, <3>3, <3>4, SMT
  <2>4. \A c \in held' : ~ctl'[c].disposed
    <3> SUFFICES ASSUME NEW c \in held', ctl[c].disposed PROVE FALSE
      BY Zenon, <1>4
    <3>1. c \in held /\ c # b
      BY Zenon, <1>1
    <3>2. NextHeld(c)
      BY Zenon, <3>1 DEF ForeignInv, EndOK
    <3> QED
      BY Zenon, <1>1, <3>1, <3>2, OneNextHeld
  <2>5. held' \subseteq gathered' /\ gathered' \subseteq Created'
    BY ZenonT(40), <1>1, <1>4, <2>1 DEF ForeignInv, EndOK
  <2>6. ASSUME NEW c \in gathered' \ held'
        PROVE  deleted'[c] = 1 /\ \A d \in held' : ctl'[d].debugId < ctl'[c].debugId
    <3>1. CASE c = b
      BY Zenon, <1>4, <2>2, <2>3, <3>1
    <3>2. CASE c # b
      BY ZenonT(40), <1>1, <1>4, <3>2 DEF ForeignInv, EndOK
    <3> QED
      BY Zenon, <3>1, <3>2
  <2> QED
    BY ZenonT(40), <1>6, <2>1, <2>4, <2>5, <2>6 DEF EndOK
<1>12. OneLetGo
  <2>1. Frame(First).step # "drop" /\ Frame(First)'.step # "drop"
    BY Zenon, <1>6, <1>8
  <2>2. /\ Second \notin Dropping(b) /\ Dropping(b)' = Dropping(b) \union {Second}
        /\ \A c \in Blocks \ {b} : Dropping(c)' = Dropping(c)
    BY <1>3, <1>6, <1>8, <2>1 DEF Dropping
  <2>3. \A c \in Blocks \ {b} : SameRef(c)
    BY Zenon, <1>1, <1>4, <2>2, SameWrapping DEF SameRef
  <2> QED
    BY Zenon, <1>1, <1>4, <1>5, <2>2, <2>3 DEF OneLetGo
<1> QED
  BY Zenon, <1>6, <1>7, <1>10, <1>11, <1>12 DEF ForeignInv

=============================================================================
