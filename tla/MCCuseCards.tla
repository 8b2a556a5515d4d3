----------------------------- MODULE MCCuseCards -----------------------------
(***************************************************************************)
(* Instances of CuseCards for TLC.                                         *)
(***************************************************************************)
EXTENDS CuseCards, TLC

\* Threads are interchangeable: no action or property names one.
Symmetry == Permutations(Threads)

OneFilePerCard == Cards \X {0}
FilesOfCard0 == {0} \X Contexts

\* The loop driver, with one file on each card.
LoopSetup(n) ==
  [driver |-> "loop", clients |-> Threads, files |-> OneFilePerCard,
   data |-> 0 .. n - 1]

\* A line driver with one card.
WireSetup(clients, files, n) ==
  [driver |-> "wire", clients |-> clients, files |-> files,
   data |-> 0 .. n - 1]

\* Two threads on two cards; one thread (whichever) with two contents on one
\* file, or with two files of one card.
AllSetups ==
  {LoopSetup(1)}
    \union {WireSetup({t}, {<< 0, 0 >>}, 2) : t \in Threads}
    \union {WireSetup({t}, FilesOfCard0, 1) : t \in Threads}

OnlyLoop == {LoopSetup(1)}
OnlyWire == {WireSetup(Threads, {<< 0, 0 >>}, 1)}
=============================================================================
