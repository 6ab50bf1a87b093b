-------------------------- MODULE ForeignResources ---------------------------
(***************************************************************************)
(* ForeignResourceControlBlock, ForeignResourceObject and the end of a run *)
(* (disposeAllForeignResources), over the queue of deferred releases.  A   *)
(* wrapper is a value of the program; it refers to a counted control block *)
(* that owns the resource.  A finalizer only queues the wrapper's release, *)
(* since a deleter runs foreign code, which may allocate, reach a          *)
(* safepoint and so collect and release in its turn.                       *)
(***************************************************************************)
EXTENDS DeferredQueue

CONSTANTS Main,     \* the thread that ends the run
          Wrappers, \* bound: the wrappers
          MaxDepth  \* bound: the calls nested on a thread

(* Bound: the control blocks.  An entry of the queue is the release of one. *)
Blocks == Entries

ASSUME ForeignConstants ==
  /\ Main \in Threads /\ MaxDepth \in Nat
  /\ None \notin Wrappers /\ "none" \notin Blocks /\ "dead" \notin Blocks

VARIABLES ctl,      \* the control blocks
          registry, \* liveControlBlocks().blocks
          wrapper,  \* per wrapper: "none", the block a reference was taken to for it, or "dead"
          unmade,   \* the wrappers whose allocation threw when that was taken
          job,      \* per thread: its calls of this component, innermost first
          phase,    \* the run, up to the end of its context
          held,     \* the blocks disposeAllForeignResources has still to release
          gathered, \* what it found (history)
          disposed, \* the blocks an operator called dispose for (history)
          deleted   \* per block: how often the deleter returned (history)

endVars == <<phase, held, gathered>>
vars == <<ctl, registry, wrapper, unmade, job, endVars, disposed, deleted, queueVars>>

Control(life, refs, gone, has, id) ==
  [life |-> life, refs |-> refs, disposed |-> gone, resource |-> has, debugId |-> id]
Job(kind, b, step, w) == [kind |-> kind, block |-> b, step |-> step, wrapper |-> w]

Created == {b \in Blocks : ctl[b].life # "none"}

TypeOK ==
  /\ QueueTypeOK
  /\ registry = {b \in Blocks : ctl[b].refs > 0}
  /\ wrapper \in [Wrappers -> Blocks \union {"none", "dead"}] /\ unmade \subseteq Wrappers
  /\ \A t \in Threads : Len(job[t]) <= MaxDepth + 2
  /\ phase \in {"running", "ended", "gathered", "disposed", "over"}
  /\ \A b \in Blocks : ctl[b].refs \in Nat /\ ctl[b].life \in {"none", "live", "freed"}

Init ==
  /\ QueueInit
  /\ ctl = [b \in Blocks |-> Control("none", 0, FALSE, FALSE, 0)]
  /\ registry = {} /\ wrapper = [w \in Wrappers |-> "none"] /\ unmade = {}
  /\ job = [t \in Threads |-> <<>>]
  /\ phase = "running" /\ held = {} /\ gathered = {}
  /\ disposed = {} /\ deleted = [b \in Blocks |-> 0]

-----------------------------------------------------------------------------
(* The stack of a thread's calls. *)

Calling(t, step) == place[t] = "out" /\ job[t] # <<>> /\ job[t][1].step = step
Called(t)        == job[t][1].block

Call(t, j)    == job' = [job EXCEPT ![t] = <<j>> \o @]
Goto(t, step) == job' = [job EXCEPT ![t][1].step = step]
Return(t)     == job' = [job EXCEPT ![t] = Tail(@)]

Release(b)    == Job("release", b, "drop", None)
Dispose(b, w) == Job("dispose", b, "claim", w)

(* The program runs on t. *)
Program(t) == phase = "running" /\ place[t] = "out" /\ job[t] = <<>>

(* A collection may start on t: at a safepoint of the program, or of a     *)
(* deleter that runs outside a collection.                                 *)
MayCollect(t) ==
  \/ Program(t)
  \/ Calling(t, "delete") /\ job[t][1].kind # "in place" /\ Len(job[t]) < MaxDepth

-----------------------------------------------------------------------------
(* ForeignResourceObject *)

(* The wrapper exists: the program may have it, a collection may find it.  *)
Made(w) == wrapper[w] \in Blocks /\ w \notin unmade

(* A wrapper of b, for which a reference has been taken.  alloc never      *)
(* returns null: without memory it throws MemoryExhausted, which passes by *)
(* the releaseReference of createWithControlBlock, and the reference       *)
(* stays.  That throw is not isolated; whatever the thread still does is   *)
(* allowed it.                                                             *)
Wrap(b, w) ==
  /\ wrapper' = [wrapper EXCEPT ![w] = b]
  /\ unmade' = unmade \/ unmade' = unmade \union {w}

Create(t, w) ==
  /\ Program(t) /\ wrapper[w] = "none"
  /\ \E b \in Blocks \ Created :
       /\ ctl' = [ctl EXCEPT ![b] = Control("live", 1, FALSE, TRUE, Cardinality(Created) + 1)]
       /\ registry' = registry \union {b}
       /\ Wrap(b, w)
  /\ UNCHANGED <<job, endVars, disposed, deleted, queueVars>>

(* clone of a resource that is shared, not copied: cloneOrRetain. *)
Clone(t, from, w) ==
  /\ Program(t) /\ Made(from) /\ wrapper[w] = "none"
  /\ ctl' = [ctl EXCEPT ![wrapper[from]].refs = @ + 1]
  /\ Wrap(wrapper[from], w)
  /\ UNCHANGED <<registry, job, endVars, disposed, deleted, queueVars>>

(* An operator gives the resource back early (graph transactions). *)
DisposeWrapper(t, w) ==
  /\ Program(t) /\ Made(w)
  /\ disposed' = disposed \union {wrapper[w]}
  /\ Call(t, Dispose(wrapper[w], w))
  /\ UNCHANGED <<ctl, registry, wrapper, unmade, endVars, deleted, queueVars>>

(* Safepoint: the collection, and then the queue, run by the same call. *)
Collect(t) ==
  /\ MayCollect(t) /\ Call(t, Job("collect", None, "collect", None))
  /\ UNCHANGED <<ctl, registry, wrapper, unmade, endVars, disposed, deleted, queueVars>>

(* The collection finds w dead; its finalize asks for the release. *)
Finalize(t, w) ==
  /\ Calling(t, "collect") /\ Made(w)
  /\ \A s \in Threads : \A i \in DOMAIN job[s] : job[s][i].wrapper # w
  /\ Defer(t, wrapper[w])
  /\ wrapper' = [wrapper EXCEPT ![w] = "dead"]
  /\ UNCHANGED <<ctl, registry, unmade, job, endVars, disposed, deleted>>

(* The queue's own steps; without memory for an entry the release is run   *)
(* in place.                                                               *)
QueueStep(t) ==
  /\ \/ (Push(t) \/ Flag(t) \/ Lock(t) \/ Clear(t)) /\ UNCHANGED job
     \/ Swap(t) /\ Goto(t, "run")
     \/ PushFails(t) /\ Call(t, Job("in place", arg[t], "drop", None))
  /\ UNCHANGED <<ctl, registry, wrapper, unmade, endVars, disposed, deleted>>

(* Mutant: the queue is left to somebody else. *)
EndCollectionOnly(t) ==
  /\ Calling(t, "collect") /\ Return(t)
  /\ UNCHANGED <<ctl, registry, wrapper, unmade, endVars, disposed, deleted, queueVars>>

(* The end of the safepoint: runDeferredReleases *)
EndCollection(t) ==
  /\ Calling(t, "collect")
  /\ \/ Look(t) /\ UNCHANGED job
     \/ ~pending /\ Return(t) /\ UNCHANGED queueVars
  /\ UNCHANGED <<ctl, registry, wrapper, unmade, endVars, disposed, deleted>>

(* The collection ends over the heap limit, and the throw passes the queue *)
(* by.  In ~Context there is no collection.                                *)
CollectionThrows(t) ==
  /\ Calling(t, "collect") /\ (phase = "over" => t # Main)
  /\ Return(t)
  /\ UNCHANGED <<ctl, registry, wrapper, unmade, endVars, disposed, deleted, queueVars>>

RunRelease(t) ==
  /\ Calling(t, "run")
  /\ \/ RunEntry(t) /\ Call(t, Release(taken[t][1][1]))
     \/ EndRun(t) /\ Return(t)
  /\ UNCHANGED <<ctl, registry, wrapper, unmade, endVars, disposed, deleted>>

-----------------------------------------------------------------------------
(* ForeignResourceControlBlock *)

(* Mutant: the last release frees the block and leaves the resource. *)
DropFrees(t) ==
  /\ Calling(t, "drop")
  /\ LET b == Called(t) IN
       /\ ctl' = [ctl EXCEPT ![b].refs = @ - 1]
       /\ \/ ctl[b].refs = 1 /\ registry' = registry \ {b} /\ Goto(t, "free")
          \/ ctl[b].refs # 1 /\ UNCHANGED registry /\ Return(t)
  /\ UNCHANGED <<wrapper, unmade, endVars, disposed, deleted, queueVars>>

(* Mutant: every release disposes, not only the last. *)
DropDisposes(t) ==
  /\ Calling(t, "drop")
  /\ LET b == Called(t) IN
       /\ ctl' = [ctl EXCEPT ![b].refs = @ - 1]
       /\ \/ ctl[b].refs = 1 /\ registry' = registry \ {b} /\ Goto(t, "claim")
          \/ /\ ctl[b].refs # 1 /\ UNCHANGED registry
             /\ job' = [job EXCEPT ![t][1] = Dispose(b, None)]
  /\ UNCHANGED <<wrapper, unmade, endVars, disposed, deleted, queueVars>>

(* release, up to the end of the registry's lock *)
Drop(t) ==
  /\ Calling(t, "drop")
  /\ LET b == Called(t) IN
       /\ ctl' = [ctl EXCEPT ![b].refs = @ - 1]
       /\ \/ ctl[b].refs = 1 /\ registry' = registry \ {b} /\ Goto(t, "claim")
          \/ ctl[b].refs # 1 /\ UNCHANGED registry /\ Return(t)
  /\ UNCHANGED <<wrapper, unmade, endVars, disposed, deleted, queueVars>>

(* After dispose the last release frees the block. *)
Disposed(t) == IF job[t][1].kind = "dispose" THEN Return(t) ELSE Goto(t, "free")

(* The exchange of disposed_ in dispose *)
Claim(t) ==
  /\ Calling(t, "claim")
  /\ LET b == Called(t) IN
       \/ ~ctl[b].disposed /\ ctl' = [ctl EXCEPT ![b].disposed = TRUE] /\ Goto(t, "take")
       \/ ctl[b].disposed /\ UNCHANGED ctl /\ Disposed(t)
  /\ UNCHANGED <<registry, wrapper, unmade, endVars, disposed, deleted, queueVars>>

Take(t) ==
  /\ Calling(t, "take")
  /\ ctl' = [ctl EXCEPT ![Called(t)].resource = FALSE]
  /\ IF ctl[Called(t)].resource THEN Goto(t, "delete") ELSE Disposed(t)
  /\ UNCHANGED <<registry, wrapper, unmade, endVars, disposed, deleted, queueVars>>

(* The deleter returns or throws; what it does meanwhile is Collect. *)
Deleted(t) ==
  /\ Calling(t, "delete")
  /\ deleted' = [deleted EXCEPT ![Called(t)] = @ + 1]
  /\ Disposed(t)
  /\ UNCHANGED <<ctl, registry, wrapper, unmade, endVars, disposed, queueVars>>

Free(t) ==
  /\ Calling(t, "free")
  /\ ctl' = [ctl EXCEPT ![Called(t)].life = "freed"]
  /\ Return(t)
  /\ UNCHANGED <<registry, wrapper, unmade, endVars, disposed, deleted, queueVars>>

-----------------------------------------------------------------------------
(* The end of the run *)

(* The program has returned, faulted or exited; drains may be under way. *)
EndProgram ==
  /\ Program(Main)
  /\ \A t \in Threads : \A i \in DOMAIN job[t] : job[t][i].kind # "dispose"
  /\ phase' = "ended"
  /\ UNCHANGED <<ctl, registry, wrapper, unmade, job, held, gathered, disposed, deleted, queueVars>>

(* Mutant: oldest first. *)
OldestHeld(b) == b \in held /\ \A c \in held : ctl[b].debugId <= ctl[c].debugId

(* The order of the sorted blocks: b is the next of those held. *)
NextHeld(b) == b \in held /\ \A c \in held : ctl[c].debugId <= ctl[b].debugId

(* Mutant: what is found is not retained. *)
GatherUnretained ==
  /\ phase = "ended" /\ phase' = "gathered"
  /\ gathered' = {b \in registry : ~ctl[b].disposed}
  /\ held' = gathered'
  /\ Call(Main, Job("all", None, "dispose", None))
  /\ UNCHANGED <<ctl, registry, wrapper, unmade, disposed, deleted, queueVars>>

(* disposeAllForeignResources, up to its loop *)
Gather ==
  /\ phase = "ended" /\ phase' = "gathered"
  /\ gathered' = {b \in registry : ~ctl[b].disposed}
  /\ held' = gathered'
  /\ ctl' = [b \in Blocks |-> IF b \in gathered' THEN [ctl[b] EXCEPT !.refs = @ + 1] ELSE ctl[b]]
  /\ Call(Main, Job("all", None, "dispose", None))
  /\ UNCHANGED <<registry, wrapper, unmade, disposed, deleted, queueVars>>

(* One half of a turn of the loop: dispose, then releaseReference. *)
DisposeHeld ==
  /\ Calling(Main, "dispose")
  /\ \E b \in Blocks :
       /\ NextHeld(b)
       /\ job' = [job EXCEPT ![Main] = <<Dispose(b, None), Job("all", None, "release", None)>>]
  /\ UNCHANGED <<ctl, registry, wrapper, unmade, endVars, disposed, deleted, queueVars>>

ReleaseHeld ==
  /\ Calling(Main, "release")
  /\ \E b \in Blocks :
       /\ NextHeld(b)
       /\ job' = [job EXCEPT ![Main] = <<Release(b), Job("all", None, "dispose", None)>>]
       /\ held' = held \ {b}
  /\ UNCHANGED <<ctl, registry, wrapper, unmade, phase, gathered, disposed, deleted, queueVars>>

AllDisposed ==
  /\ Calling(Main, "dispose") /\ held = {}
  /\ Return(Main)
  /\ phase' = "disposed"
  /\ UNCHANGED <<ctl, registry, wrapper, unmade, held, gathered, disposed, deleted, queueVars>>

(* ~Context: what its teardown finalizes, and the last run of the queue. *)
EndContext ==
  /\ phase = "disposed" /\ phase' = "over"
  /\ Call(Main, Job("collect", None, "collect", None))
  /\ UNCHANGED <<ctl, registry, wrapper, unmade, held, gathered, disposed, deleted, queueVars>>

-----------------------------------------------------------------------------
ProgramStep(t) ==
  \/ \E w \in Wrappers : Create(t, w) \/ DisposeWrapper(t, w) \/ Finalize(t, w)
  \/ Collect(t)
  \/ \E w, from \in Wrappers : Clone(t, from, w)

BlockStep(t) == Drop(t) \/ Claim(t) \/ Take(t) \/ Deleted(t) \/ Free(t)

EndStep == Gather \/ DisposeHeld \/ ReleaseHeld \/ AllDisposed \/ EndContext

Next ==
  \/ EndProgram \/ EndStep
  \/ \E t \in Threads :
       \/ ProgramStep(t) \/ QueueStep(t) \/ RunRelease(t) \/ BlockStep(t)
       \/ EndCollection(t) \/ CollectionThrows(t)

Spec == Init /\ [][Next]_vars

(* Deleters return, a call that has begun goes on, and a lock that is free *)
(* again and again is got.  While the program runs its safepoints collect, *)
(* and not all of these collections throw.                                 *)
FairSpec ==
  /\ Spec
  /\ WF_vars(EndStep)
  /\ \A t \in Threads :
       /\ SF_vars(QueueStep(t) \/ EndCollection(t) \/ RunRelease(t))
       /\ SF_vars(BlockStep(t))
       /\ SF_vars(Program(t) /\ Collect(t))
-----------------------------------------------------------------------------
(* The calls that are under way, each with its thread and its depth. *)
Calls    == UNION {{t} \X (0 .. Len(job[t]) - 1) : t \in Threads}
Frame(p) == job[p[1]][Len(job[p[1]]) - p[2]]

Wrapping(b) == {w \in Wrappers : wrapper[w] = b}
Dropping(b) == {p \in Calls : Frame(p).block = b /\ Frame(p).step = "drop"}

(* The references to b: those taken for wrappers, which last if the        *)
(* wrapper could not be made, the releases that are queued, those that     *)
(* have begun but not dropped theirs, and the one held for the end.        *)
References(b) ==
  Cardinality(Wrapping(b)) + owed[b] + Cardinality(Dropping(b)) + (IF b \in held THEN 1 ELSE 0)

(* refCount_ is the number of references there are, and exceeds what is in *)
(* use only by what throwing allocations left; a freed block has none, so  *)
(* that no thread touches it again, and no call is inside one.             *)
CountsReferences ==
  /\ \A b \in Blocks : ctl[b].refs = References(b)
  /\ \A p \in Calls : Frame(p).block # None => ctl[Frame(p).block].life = "live"

(* However dispose, the releases of the wrappers and the end of the run    *)
(* meet, a deleter runs once, and before its block goes away.              *)
DeletedOnce == \A b \in Blocks : deleted[b] <= 1 /\ (ctl[b].life = "freed" => deleted[b] = 1)

(* While the program runs, the resource behind a wrapper it can reach is   *)
(* there unless an operator disposed it: what happens to other wrappers of *)
(* the same resource, and on other threads, does not take it away.         *)
ReachableIsUsable ==
  \A w \in Wrappers :
    wrapper[w] \in Blocks \ disposed /\ phase = "running"
      => ctl[wrapper[w]].resource /\ ~ctl[wrapper[w]].disposed /\ deleted[wrapper[w]] = 0

(* Among the resources the end of the run finds held, one is deleted only  *)
(* after all that were acquired later (foreign.h, 131).                    *)
NewerDeletedFirst ==
  \A b, c \in gathered : ctl[b].debugId > ctl[c].debugId /\ deleted[c] = 1 => deleted[b] = 1

(* A resource no wrapper refers to any more is deleted, unless a throwing  *)
(* allocation has left a reference to it, and when the program has ended   *)
(* so is every other one, that one included.                               *)
ResourcesAreReleased ==
  \A b \in Blocks :
    (b \in Created /\ (phase = "ended" \/ \A w \in Wrappers : wrapper[w] # b))
      ~> deleted[b] = 1
=============================================================================
