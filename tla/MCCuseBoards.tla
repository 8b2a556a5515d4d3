---------------------------- MODULE MCCuseBoards ----------------------------
(* Instances of CuseBoards: one busy llgip port and a second one that only *)
(* hears a single frame.                                                   *)
EXTENDS CuseBoards, TLC

MCPorts == {0, 1}
MCMaxBreaks == (0 :> 4) @@ (1 :> 1)
MCMaxOctets == (0 :> 4) @@ (1 :> 0)
MCTxFrames == {<< 0, 0 >>, << 0, 1 >>}

=============================================================================
