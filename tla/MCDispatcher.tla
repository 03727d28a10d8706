---------------------------- MODULE MCDispatcher ----------------------------
(* Instances of Dispatcher for TLC.  The subsets of MCCodes have one, two  *)
(* and three pages, consecutive or with a gap, of one to three entries,    *)
(* consecutive or with a gap, with and without the zero low byte.          *)
EXTENDS Dispatcher

MCCodes  == {<<0, 1>>, <<0, 2>>, <<1, 0>>, <<2, 0>>, <<2, 1>>, <<2, 2>>}
=============================================================================
