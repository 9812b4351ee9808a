--------------------------- MODULE MCPersistentMap ---------------------------
(***************************************************************************)
(* A small file: three keys, growths of three slots, three openings.       *)
(* Nothing orders the keys, so permuting them is a symmetry.               *)
(***************************************************************************)
EXTENDS PersistentMap, TLC

Symmetry == Permutations(Keys)
===============================================================================
