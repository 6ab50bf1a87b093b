---------------------------- MODULE DeferredQueue ----------------------------
(***************************************************************************)
(* mm::deferRelease and mm::runDeferredReleases: the queue of releases     *)
(* that finalizers ask for inside a collection and that threads run after  *)
(* it.  Whether the queue is worth locking is read from a flag without the *)
(* mutex.  An entry stands for a release function and its context; what it *)
(* does is the business of the module that uses the queue.                 *)
(***************************************************************************)
EXTENDS Integers, Sequences, FiniteSets

CONSTANTS Threads, Entries, None

ASSUME NoneIsNoThread == None \notin Threads
ASSUME NoneIsNoEntry  == None \notin Entries

VARIABLES mutex,   \* the thread that holds Queue::mutex
          entries, \* Queue::entries
          pending, \* Queue::pending
          place,   \* per thread: its place in one of the two functions
          arg,     \* per thread: the release deferRelease was called with
          taken,   \* per thread: the swapped-out entries of its calls, innermost first
          owed     \* per entry: the releases asked for and not begun (history)

queueVars == <<mutex, entries, pending, place, arg, taken, owed>>

QueueTypeOK ==
  /\ mutex \in Threads \union {None}
  /\ entries \in Seq(Entries)
  /\ pending \in BOOLEAN
  /\ place \in [Threads -> {"out", "push", "flag", "lock", "swap", "clear"}]
  /\ arg \in [Threads -> Entries \union {None}]
  /\ taken \in [Threads -> Seq(Seq(Entries))]
  /\ owed \in [Entries -> Nat]
  /\ \A t \in Threads : (mutex = t) = (place[t] \in {"push", "flag", "swap", "clear"})

QueueInit ==
  /\ mutex = None /\ entries = <<>> /\ pending = FALSE
  /\ place = [t \in Threads |-> "out"] /\ arg = [t \in Threads |-> None]
  /\ taken = [t \in Threads |-> <<>>]
  /\ owed = [e \in Entries |-> 0]

At(t, from, to) == place[t] = from /\ place' = [place EXCEPT ![t] = to]

-----------------------------------------------------------------------------
(* deferRelease *)

Defer(t, e) ==
  /\ mutex = None /\ mutex' = t
  /\ At(t, "out", "push")
  /\ arg' = [arg EXCEPT ![t] = e]
  /\ owed' = [owed EXCEPT ![e] = @ + 1]
  /\ UNCHANGED <<entries, pending, taken>>

Push(t) ==
  /\ At(t, "push", "flag")
  /\ entries' = Append(entries, arg[t])
  /\ arg' = [arg EXCEPT ![t] = None]
  /\ UNCHANGED <<mutex, pending, taken, owed>>

Flag(t) ==
  /\ At(t, "flag", "out")
  /\ pending' = TRUE
  /\ mutex' = None
  /\ UNCHANGED <<entries, arg, taken, owed>>

(* No memory for the entry: the caller releases in place. *)
PushFails(t) ==
  /\ At(t, "push", "out")
  /\ mutex' = None
  /\ owed' = [owed EXCEPT ![arg[t]] = @ - 1]
  /\ arg' = [arg EXCEPT ![t] = None]
  /\ UNCHANGED <<entries, pending, taken>>

-----------------------------------------------------------------------------
(* runDeferredReleases *)

(* The flag is read without the mutex; nothing is done if it is not set. *)
Look(t) ==
  /\ pending
  /\ At(t, "out", "lock")
  /\ UNCHANGED <<mutex, entries, pending, arg, taken, owed>>

Lock(t) ==
  /\ mutex = None /\ mutex' = t
  /\ At(t, "lock", "swap")
  /\ UNCHANGED <<entries, pending, arg, taken, owed>>

(* Mutant: the entries are copied. *)
SwapCopied(t) ==
  /\ At(t, "swap", "clear")
  /\ taken' = [taken EXCEPT ![t] = <<entries>> \o @]
  /\ UNCHANGED <<mutex, entries, pending, arg, owed>>

Swap(t) ==
  /\ At(t, "swap", "clear")
  /\ taken' = [taken EXCEPT ![t] = <<entries>> \o @]
  /\ entries' = <<>>
  /\ UNCHANGED <<mutex, pending, arg, owed>>

Clear(t) ==
  /\ At(t, "clear", "out")
  /\ pending' = FALSE
  /\ mutex' = None
  /\ UNCHANGED <<entries, arg, taken, owed>>

(* The next entry of the innermost call is begun. *)
RunEntry(t) ==
  /\ place[t] = "out" /\ taken[t] # <<>> /\ taken[t][1] # <<>>
  /\ taken' = [taken EXCEPT ![t] = <<Tail(@[1])>> \o Tail(@)]
  /\ owed' = [owed EXCEPT ![taken[t][1][1]] = @ - 1]
  /\ UNCHANGED <<mutex, entries, pending, place, arg>>

EndRun(t) ==
  /\ place[t] = "out" /\ taken[t] # <<>> /\ taken[t][1] = <<>>
  /\ taken' = [taken EXCEPT ![t] = Tail(@)]
  /\ UNCHANGED <<mutex, entries, pending, place, arg, owed>>

-----------------------------------------------------------------------------
(* Whatever the threads do with the queue: a release may itself defer      *)
(* others and run the queue.                                               *)
Deferring(t) == (\E e \in Entries : Defer(t, e)) \/ Push(t) \/ PushFails(t) \/ Flag(t)

Running(t) == Look(t) \/ Lock(t) \/ Swap(t) \/ Clear(t) \/ RunEntry(t) \/ EndRun(t)

QueueNext == \E t \in Threads : Deferring(t) \/ Running(t)

QueueSpec == QueueInit /\ [][QueueNext]_queueVars
-----------------------------------------------------------------------------
(* What the calls of runDeferredReleases took out and have not begun.      *)
(* Calls and their entries are counted from the far end, where they stay   *)
(* put while others come and go.                                           *)
Batch(t, c) == taken[t][Len(taken[t]) - c]

TakenOut ==
  UNION {UNION {{t} \X {c} \X (0 .. Len(Batch(t, c)) - 1) : c \in 0 .. Len(taken[t]) - 1}
         : t \in Threads}

EntryAt(p) == Batch(p[1], p[2])[Len(Batch(p[1], p[2])) - p[3]]

(* Where the releases of e wait: in the queue, with threads that are in    *)
(* deferRelease, and among what was taken out.                             *)
Queued(e)  == {i \in DOMAIN entries : entries[i] = e}
Asking(e)  == {t \in Threads : arg[t] = e}
Swapped(e) == {p \in TakenOut : EntryAt(p) = e}

(* A release that was asked for is queued or in the hands of one thread    *)
(* until it is begun, and then nowhere: none is lost between deferRelease  *)
(* and the swap of another thread, and none is run twice.                  *)
NothingLost ==
  \A e \in Entries :
    owed[e] = Cardinality(Queued(e)) + Cardinality(Asking(e)) + Cardinality(Swapped(e))

(* Whoever reads the flag as clear misses nothing that is queued, unless   *)
(* the one who queued it is still on the way to setting it.                *)
FlagTells == entries # <<>> => pending \/ \E t \in Threads : place[t] = "flag"
=============================================================================
