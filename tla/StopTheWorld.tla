---------------------------- MODULE StopTheWorld ----------------------------
(***************************************************************************)
(* What the stop-the-world handshake of the parallel scheduler promises:   *)
(* work that holds unrooted values runs inside a region, and a collection  *)
(* runs only while no other thread is inside one.                          *)
(***************************************************************************)
CONSTANTS Threads, None

VARIABLES inside,     \* the threads that run inside a region
          collector   \* the thread that runs the allocator's safepoint, or None

vars == <<inside, collector>>

Init ==
  /\ inside = {}
  /\ collector = None

EnterRegion(t) ==
  /\ collector = None
  /\ inside' = inside \union {t}
  /\ UNCHANGED collector

LeaveRegion(t) ==
  /\ t \in inside
  /\ inside' = inside \ {t}
  /\ UNCHANGED collector

StartCollection(t) ==
  /\ collector = None
  /\ inside = {}
  /\ collector' = t
  /\ UNCHANGED inside

EndCollection ==
  /\ collector # None
  /\ collector' = None
  /\ UNCHANGED inside

Next ==
  \/ \E t \in Threads : EnterRegion(t) \/ LeaveRegion(t) \/ StartCollection(t)
  \/ EndCollection

Spec == Init /\ [][Next]_vars
=============================================================================
