----------------------------- MODULE MCGenHeap ------------------------------
(* GenHeap for TLC: the addresses of a space are alike, and so
   are the two survivor spaces. *)
EXTENDS GenHeap, TLC

Alike == UNION {Permutations(Birth), Permutations(SpaceA \union SpaceB),
                Permutations(Elder)}
=============================================================================
