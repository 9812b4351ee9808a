-------------------------- MODULE MCEspressoStorage --------------------------
(***************************************************************************)
(* Three chunks in a data file of four bytes: they do not all fit at every *)
(* size, so allocation fails, extents fragment, all merges happen and all  *)
(* of them are undone.                                                     *)
(***************************************************************************)
EXTENDS EspressoStorage

\* A first write, an append, a write that leaves a gap and needs the whole
\* data file, and the empty write Barista sends at the end of a chunk, of which
\* the node may have nothing.
MCWriteArgs == {<<0, 1>>, <<1, 2>>, <<2, 2>>, <<1, 0>>}
MCReadArgs == {<<0, 2>>, <<2, 1>>}
===============================================================================
