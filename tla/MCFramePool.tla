---------------------------- MODULE MCFramePool ------------------------------
(* FramePool for TLC: the graphs have one place in a thread's table. *)
EXTENDS FramePool, TLC

Collide == [g \in Graphs |-> 1]

Alike == Permutations(Threads) \union Permutations(Pools)
           \union Permutations(Graphs) \union Permutations(Frames)
=============================================================================
