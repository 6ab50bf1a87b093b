---------------------------- MODULE MCTailFrames ----------------------------
(* Instance of TailFrames for TLC. *)
EXTENDS TailFrames

(* An exchange and a copy; sequences of these give every other passing. *)
MCPassing == {<<2, 1>>, <<1, 1>>}
=============================================================================
