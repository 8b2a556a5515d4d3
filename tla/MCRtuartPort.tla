---------------------------- MODULE MCRtuartPort ----------------------------
(* Small instances of RtuartPort.                                          *)
EXTENDS RtuartPort

MCEntries == 1 .. 2 * MaxSends + MaxWire

\* A DMX frame and an RDM frame, of two sizes.
MCWireFrames == {<< 0, 7 >>, << CC, SUB, 1 >>}

MCReplies == {<< FE, AA, Good >>}

\* A frame without slots.
MCShortFrames == {<< 0 >>, << 0, 7 >>}
=============================================================================
