-------------------------- MODULE MCEspressoRestart --------------------------
(***************************************************************************)
(* Two chunks in a data file of three bytes.                               *)
(***************************************************************************)
EXTENDS EspressoRestart

MCWriteArgs == {<<0, 1>>, <<1, 1>>, <<0, 2>>, <<1, 0>>}
MCReadArgs == {<<0, 1>>}
===============================================================================
