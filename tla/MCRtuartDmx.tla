----------------------------- MODULE MCRtuartDmx -----------------------------
(***************************************************************************)
(* Instances of RtuartDmx: frames of a few octets on the wire.             *)
(***************************************************************************)
EXTENDS RtuartDmx, TLC

Symmetry == Permutations(Entries)

Dmx(n) == << Break, 0 >> \o [i \in 1 .. n |-> 7]

\* RDM frames of four octets; the length octet leaves out the checksum.
RdmFrame == << Break, CC, SUB, 2, 7 >>
DiscoveryRequest == << Break, CC, SUB, 2, 12 >>

DiscoveryReply == << AA, Good, Good >>
DamagedReply == << AA, Good, 7 >>
Collision == << FE, 7 >>

Replies == {RdmFrame, DiscoveryReply, << FE >> \o DiscoveryReply, Collision, DamagedReply}

\* Frames of others, and frames that follow a reply: octets arrive with any
\* delay, so the second may come before or after the first has been dealt with.
Traffic ==
  {Dmx(1), DiscoveryRequest, Collision \o RdmFrame, DiscoveryReply \o DamagedReply}

\* Enough equal frames to lock the slot count, then one of another size.  A frame
\* of no slots is all read with its startcode.
SizeChange == {Dmx(1) \o Dmx(1) \o Dmx(1) \o Dmx(3), Dmx(0) \o Dmx(0) \o Dmx(0) \o Dmx(1)}

\* Replies to requests, one after the other.
Requests ==
  [kinds |-> {"rdm", "disc"}, arriving |-> Replies, arrivals |-> 1, due |-> 1, race |-> FALSE]

\* Everything may be sent and may arrive.
Mixed == [Requests EXCEPT !.kinds = {"dmx", "rdm", "disc", "discreply"}, !.arriving = Traffic]

\* The timer thread is late and meets the main thread.
LateTimer == [Requests EXCEPT !.arriving = @ \ {Collision}, !.due = 2, !.race = TRUE]

\* The port only listens, and the sender on the line changes its frame size.
Locking == [Requests EXCEPT !.kinds = {}, !.arriving = SizeChange]

AllScenarios == {Mixed, LateTimer, Locking}
OnlyRequests == {Requests}
OnlyLateTimer == {[Requests EXCEPT !.race = TRUE]}
=============================================================================
