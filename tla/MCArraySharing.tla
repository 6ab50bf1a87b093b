--------------------------- MODULE MCArraySharing ---------------------------
(* ArraySharing for TLC: arrays, blocks, variables and other names are alike. *)
EXTENDS ArraySharing, TLC

Alike ==
  Permutations(Arrays) \union Permutations(Blocks) \union Permutations(Cells) \union Permutations(Lets)
=============================================================================
