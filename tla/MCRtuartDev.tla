---------------------------- MODULE MCRtuartDev ----------------------------
(* Instances of RtuartDev for TLC. *)
EXTENDS RtuartDev

\* Every word length, parity and number of stop bits occurs.
MCFormats == {<<8, "n", 2>>, <<5, "e", 1>>, <<7, "o", 1>>, <<6, "1", 2>>, <<8, "0", 1>>}

\* The break alone, as the older interfaces switch it, RTS for the RS-485
\* driver, and the other lines together.
MCControls == {{"BREAK"}, {"RTS"}, {"DTR", "OUT1", "OUT2"}}

\* The rates of DMX512 slots and of a break sent as a character.
MCDmxRates == {250000, 83333}

\* Rates that some drivers miss, and controls that share a bit.
MCLowRate == {9600}
MCHighRate == {921600}
MCLoopControls == {{"OUT2"}, {"LOOP"}}
=============================================================================
