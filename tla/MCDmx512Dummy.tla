--------------------------- MODULE MCDmx512Dummy ---------------------------
(***************************************************************************)
(* Instance of Dmx512Dummy for TLC.                                        *)
(***************************************************************************)
EXTENDS Dmx512Dummy, TLC

\* Threads are interchangeable: no action or property names one.
Symmetry == Permutations(Threads)
=============================================================================
