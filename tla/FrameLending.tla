---------------------------- MODULE FrameLending -----------------------------
(***************************************************************************)
(* What TaskflowFramePool promises to the calls: while a pool exists, a    *)
(* call that asks for a frame gets one made for its graph which no other   *)
(* call holds, unless there is no memory for a chunk; and the pool is not  *)
(* closed before every frame is back.                                      *)
(***************************************************************************)
CONSTANTS Threads, Pools, Graphs, Frames,
          FullChunks, \* the sets of frames that a chunk at its limit can have
          None

VARIABLES status,  \* per pool: not yet there, open or closed
          madeFor, \* the pool and graph a frame was made for
          asks,    \* per thread: the pool and graph it asks a frame of
          lent     \* the calls that hold a frame

lendingVars == <<status, madeFor, asks, lent>>

Init ==
  /\ status = [p \in Pools |-> "unborn"]
  /\ madeFor = [f \in Frames |-> None]
  /\ asks = [t \in Threads |-> None]
  /\ lent = {}

Unmade == {f \in Frames : madeFor[f] = None}

Open(p) ==
  /\ status[p] = "unborn"
  /\ status' = [status EXCEPT ![p] = "open"]
  /\ UNCHANGED <<madeFor, asks, lent>>

(* Frames that are for nothing yet become frames of a pool and graph. *)
Make(p, g) ==
  \E new \in SUBSET Unmade :
    madeFor' = [f \in Frames |-> IF f \in new THEN <<p, g>> ELSE madeFor[f]]

MakeAhead(p, g) ==
  /\ status[p] = "open"
  /\ Make(p, g)
  /\ UNCHANGED <<status, asks, lent>>

Ask(t, p, g) ==
  /\ status[p] = "open" /\ asks[t] = None
  /\ asks' = [asks EXCEPT ![t] = <<p, g>>]
  /\ UNCHANGED <<status, madeFor, lent>>

Lend(t, p, g) ==
  /\ asks[t] = <<p, g>>
  /\ asks' = [asks EXCEPT ![t] = None]
  /\ Make(p, g)
  /\ \E f \in Frames :
       /\ madeFor'[f] = <<p, g>>
       /\ \A h \in lent : h.frame # f
       /\ lent' = lent \union {[frame |-> f, pool |-> p, graph |-> g]}
  /\ UNCHANGED status

Refuse(t) ==
  /\ asks[t] # None /\ \A c \in FullChunks : ~(c \subseteq Unmade)
  /\ asks' = [asks EXCEPT ![t] = None]
  /\ UNCHANGED <<status, madeFor, lent>>

TakeBack(h) ==
  /\ lent' = lent \ {h}
  /\ UNCHANGED <<status, madeFor, asks>>

Close(p) ==
  /\ status[p] = "open"
  /\ \A h \in lent : h.pool # p
  /\ \A t \in Threads, g \in Graphs : asks[t] # <<p, g>>
  /\ status' = [status EXCEPT ![p] = "closed"]
  /\ UNCHANGED <<madeFor, asks, lent>>

Next ==
  \/ \E p \in Pools : Open(p) \/ Close(p)
  \/ \E p \in Pools, g \in Graphs :
       MakeAhead(p, g) \/ \E t \in Threads : Ask(t, p, g) \/ Lend(t, p, g)
  \/ \E t \in Threads : Refuse(t)
  \/ \E h \in lent : TakeBack(h)

Spec == Init /\ [][Next]_lendingVars
=============================================================================
